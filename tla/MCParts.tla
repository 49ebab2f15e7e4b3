------------------------------- MODULE MCParts -------------------------------
(***************************************************************************)
(* The parts of the system that share no state with one another, in one    *)
(* model: a behaviour takes steps of one part only, and the others stay as *)
(* they start.  Cpu is extended, so that its variables are "vars"; the     *)
(* others are instantiated.                                                *)
(***************************************************************************)
EXTENDS Cpu, FiniteSetsExt

CONSTANTS
    Vectors,                                                           \* TrapFrame
    HeaderSize, NALLOC, HeapStart, HeapEnd, Requests,                  \* Umalloc
    Chars, MaxLine, MAXARGS,                                           \* Shell
    FSSIZE, BSIZE, swapsize, logsize, PageBlocks, IPB, EPB, EXTENT_N,  \* Extents
    Argcs, FileSizes, Appends, MaxExtents, MaxTaken

VARIABLES
    part,
    at, regs, kstack, sstack, vector,
    mem, blocks, holes,
    line,
    argc, freeblock, dinode, disk, used, taken

trapframe == <<at, regs, kstack, sstack, vector>>
umalloc   == <<mem, blocks, holes>>
extents   == <<argc, freeblock, dinode, disk, used, taken>>
partvars  == <<part, vars, trapframe, umalloc, line, extents>>

T == INSTANCE TrapFrame
U == INSTANCE Umalloc
S == INSTANCE Shell
X == INSTANCE Extents

MCVectors == 0 .. 255

Parts == {"cpu", "trapframe", "umalloc", "shell", "extents"}

PartsInit ==
    /\ part \in Parts
    /\ Init /\ T!Init /\ U!Init /\ S!Init /\ X!Init
    /\ part = "extents" \/ argc = Min(Argcs)

CpuStep       == part = "cpu" /\ Next /\ UNCHANGED <<part, trapframe, umalloc, line, extents>>
TrapFrameStep == part = "trapframe" /\ T!Next /\ UNCHANGED <<part, vars, umalloc, line, extents>>
UmallocStep   == part = "umalloc" /\ U!Next /\ UNCHANGED <<part, vars, trapframe, line, extents>>
ShellStep     == part = "shell" /\ S!Next /\ UNCHANGED <<part, vars, trapframe, umalloc, extents>>
ExtentsStep   == part = "extents" /\ X!Next /\ UNCHANGED <<part, vars, trapframe, umalloc, line>>

PartsNext == CpuStep \/ TrapFrameStep \/ UmallocStep \/ ShellStep \/ ExtentsStep

PartsSpec == PartsInit /\ [][PartsNext]_partvars
-----------------------------------------------------------------------------
(* The properties of the parts, stated and explained in their modules; that *)
(* of Cpu is InterruptsKept itself.                                         *)

(* TrapFrame: registers survive traps and switches.                         *)
RegistersKept == T!RegistersKept

(* Umalloc: every unit of the heap is in one block, the free list is joined.*)
HeapSound == part = "umalloc" => U!HeapSound

(* Shell: a line is parsed and cut as its operators mean.                   *)
RunsAsTyped == part = "shell" => S!RunsAsTyped
(* Shell: the programs of a pipeline have the descriptors they should.      *)
Wired == part = "shell" => S!Wired

(* Extents: the root directory fits and no block is in two files.           *)
LaidOut == X!LaidOut
(* Extents: a read returns what was written.                                *)
ReadBack == X!ReadBack
=============================================================================
