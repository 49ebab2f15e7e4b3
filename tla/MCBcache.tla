------------------------------ MODULE MCBcache ------------------------------
(* Two buffers for three blocks: blocks compete for buffers, a pinned buffer *)
(* leaves one, and two processes compete for both.                           *)
EXTENDS Bcache

CONSTANTS b1, b2

MCBufOrder == <<b2, b1>>
=============================================================================
