------------------------------- MODULE Extents -------------------------------
(***************************************************************************)
(* Where the bytes of a file are: the disk that mkfs.c lays out, and the   *)
(* reading, writing and growing of files by kernel/fs.c on that disk.      *)
(*                                                                         *)
(* First mkfs adds the files of its command line one by one; after its     *)
(* balloc the kernel appends to them.  Every byte of content is named by   *)
(* the file it belongs to and its offset, so that a byte found elsewhere   *)
(* is seen.  Transactions and crashes are the subject of Journal.          *)
(***************************************************************************)
EXTENDS Integers, Sequences, SequencesExt, FiniteSetsExt, TLC

CONSTANTS
    FSSIZE, BSIZE, swapsize, logsize,
    PageBlocks,     \* blocks that a byte of the bitmap stands for (8)
    IPB, EPB,       \* inodes and directory entries of a block
    EXTENT_N,
    Argcs,          \* the numbers of arguments mkfs is run with
    FileSizes,      \* the sizes of the files on its command line
    Appends,        \* the byte counts of a write
    MaxExtents,     \* bound: extents of a file
    MaxTaken        \* bound: extents the kernel allocates

VARIABLES
    argc, freeblock,    \* of mkfs
    dinode,             \* of every file: [size, data: its extents]
    disk,               \* content of the bytes <<block, index>> written so far
    used,               \* what balloc marked: the blocks below it, 0 before
    taken               \* bytes of the bitmap <<block, index>> the kernel set

vars == <<argc, freeblock, dinode, disk, used, taken>>
-----------------------------------------------------------------------------
(* mkfs. *)

nbitmap    == FSSIZE \div (BSIZE * PageBlocks) + 1
bmapstart  == 2 + swapsize + logsize
inodestart == 2 + nbitmap + swapsize + logsize
nblocks    == FSSIZE - inodestart

BlocksFor(n, per) == n \div per + (IF n % per = 0 THEN 0 ELSE 1)
\* The inode file has an inode for itself, the root, the console and the files.
InodeFileBlocks == LET n == argc + 1 IN Max({1, BlocksFor(n, IPB)})
RootStart  == inodestart + InodeFileBlocks
RootBlocks == BlocksFor(argc, EPB)
\* Its entries: ".", "..", the console and the files; its size is rounded up.
RootEntries == argc + 1
RootSize    == (RootEntries \div EPB + 1) * EPB

Init ==
    /\ argc \in Argcs
    /\ freeblock = RootStart + RootBlocks
    /\ dinode = <<>> /\ disk = <<>> /\ used = 0 /\ taken = {}

Written(f, from, addrs) ==
    [a \in Range(addrs) |-> <<f, from + (CHOOSE i \in DOMAIN addrs : addrs[i] = a) - 1>>] @@ disk

\* The next file of the command line: its bytes go to the blocks from
\* freeblock on.  Inodes 0 to 2 are the inode file, the root, the console.
Added(size) == BlocksFor(size, BSIZE)
AddFile(size) ==
    /\ used = 0 /\ Len(dinode) < argc - 2
    /\ dinode' = Append(dinode, [size |-> size, data |-> <<[start |-> freeblock, n |-> Added(size)]>>])
    /\ disk' = Written(Len(dinode) + 1, 0,
                   [k \in 1 .. size |-> <<freeblock + (k - 1) \div BSIZE, (k - 1) % BSIZE>>])
    /\ freeblock' = freeblock + Added(size)
    /\ UNCHANGED <<argc, used, taken>>

balloc ==
    /\ used = 0 /\ Len(dinode) = argc - 2
    /\ used' = freeblock
    /\ UNCHANGED <<argc, freeblock, dinode, disk, taken>>
-----------------------------------------------------------------------------
(* The kernel. *)

\* A byte of the bitmap in which balloc set a bit.
Marked(i, j) == (i - bmapstart) * BSIZE * PageBlocks + j * PageBlocks < used

\* getstartblkno: the last block of the bitmap first, its bytes upwards.
FreeBytes == {<<i, j>> \in (bmapstart .. inodestart - 1) \X (0 .. BSIZE - 1) :
                 ~Marked(i, j) /\ <<i, j>> \notin taken}
BlkNoOff(ij) == (nblocks + inodestart) - (inodestart - 1 - ij[1]) * BSIZE - ij[2] * PageBlocks
BlkNo(ij) ==
    (nblocks + inodestart) - (inodestart - 1 - ij[1]) * BSIZE - (ij[2] + 1) * PageBlocks
getstartblkno(set) ==
    LET free == FreeBytes \ set
    IN  IF free = {} THEN [blkno |-> 0, set |-> set]
        ELSE LET i  == Max({ij[1] : ij \in free})
                 ij == <<i, Min({b[2] : b \in {c \in free : c[1] = i}})>>
             IN  [blkno |-> BlkNo(ij), set |-> set \cup {ij}]

\* The extents as the array of the inode, with zeroes behind them.
Ext(data, d) == IF d <= Len(data) THEN data[d] ELSE [start |-> 0, n |-> 0]
SetExt(data, d, e) ==
    [i \in 1 .. Max({d, Len(data)}) |-> IF i = d THEN e ELSE Ext(data, i)]
Address(e, size) == <<e.start + size \div BSIZE, size % BSIZE>>
Capacity(data) == FoldLeft(LAMBDA sum, e : sum + e.n * BSIZE, 0, data)

\* The loop readi and writei share: the addresses of n bytes from off, where
\* size is the offset in extent d.  Behind the array it finds anything.
RECURSIVE Walk(_, _, _, _, _)
Walk(data, d, size, off, n) ==
    IF n = 0 THEN <<>>
    ELSE IF d > EXTENT_N THEN [i \in 1 .. n |-> <<0, 0>>]
    ELSE IF size < Ext(data, d).n * BSIZE
    THEN <<Address(Ext(data, d), size)>> \o Walk(data, d, size + 1, off + 1, n - 1)
    ELSE Walk(data, d + 1, off - size, off, n)

\* The extent where off is, and where in the file it starts.
RECURSIVE Locate(_, _, _, _)
LocateFirst(data, d, size, off) == [d |-> 1, size |-> 0]
Locate(data, d, size, off) ==
    IF size + Ext(data, d).n * BSIZE < off /\ d <= EXTENT_N
    THEN Locate(data, d + 1, size + Ext(data, d).n * BSIZE, off)
    ELSE [d |-> d, size |-> size]
Addresses(data, off, n) ==
    LET at == Locate(data, 1, 0, off) IN Walk(data, at.d, off - at.size, off, n)

readi(f, off, n) ==
    LET addrs == Addresses(dinode[f].data, off, Min({n, dinode[f].size - off}))
    IN  [i \in DOMAIN addrs |-> IF addrs[i] \in DOMAIN disk THEN disk[addrs[i]] ELSE <<>>]

\* The loop of appendi: a block at a time, each in the next extent.
RECURSIVE Grow(_, _, _, _)
Grow(st, d, size, n) ==
    IF n = 0 \/ d > EXTENT_N THEN st
    ELSE LET got == getstartblkno(st.set)
             new == Ext(st.data, d).n = 0
             ext == IF new THEN [start |-> got.blkno, n |-> PageBlocks] ELSE st.data[d]
             st1 == IF new THEN [st EXCEPT !.data = SetExt(@, d, ext), !.set = got.set] ELSE st
             m   == Min({n, BSIZE - (size % BSIZE)})
         IN  IF size < ext.n * BSIZE
             THEN Grow([st1 EXCEPT !.addrs = @ \o [i \in 1 .. m |-> Address(ext, size + i - 1)]],
                       d + 1, size + m, n - m)
             ELSE Grow(st1, d + 2, 0, n)
FirstFree(data) == Min({d \in 1 .. Len(data) + 1 : Ext(data, d).n = 0})
appendi(data, n) ==
    Grow([data |-> data, set |-> taken, addrs |-> <<>>], FirstFree(data), 0, n)

\* filewrite at the end of the file, through writei: what fits goes into the
\* extents there are, the rest is appended.
filewrite(f, n) ==
    /\ used # 0
    /\ LET off   == dinode[f].size
           data  == dinode[f].data
           fits  == Min({n, Capacity(data) - off})
           grown == appendi(data, n - fits)
           addrs == Addresses(data, off, fits) \o grown.addrs
       IN  /\ Len(grown.data) <= MaxExtents /\ Cardinality(grown.set) <= MaxTaken
           /\ dinode' = [dinode EXCEPT ![f] = [size |-> off + n, data |-> grown.data]]
           /\ disk' = Written(f, off, addrs)
           /\ taken' = grown.set
    /\ UNCHANGED <<argc, freeblock, used>>

Next ==
    \/ \E size \in FileSizes : AddFile(size)
    \/ balloc
    \/ \E f \in DOMAIN dinode, n \in Appends : filewrite(f, n)

Spec == Init /\ [][Next]_vars
-----------------------------------------------------------------------------
(* Properties. *)

BlocksOf(f) == UNION {e.start .. e.start + e.n - 1 : e \in Range(dinode[f].data)}

(* The regions of the disk do not overlap: the blocks of a file are its own, *)
(* behind the root directory and inside the disk, whether mkfs laid them out *)
(* or getstartblkno found them.                                              *)
FilesApart ==
    \A f \in DOMAIN dinode :
        /\ BlocksOf(f) \subseteq RootStart + RootBlocks .. FSSIZE - 1
        /\ \A g \in DOMAIN dinode \ {f} : BlocksOf(f) \cap BlocksOf(g) = {}

(* The root directory of mkfs, whose blocks are counted from argc although   *)
(* it gets argc + 1 entries, holds its entries and covers its rounded size   *)
(* whenever the entries end neither just at nor just behind the end of a     *)
(* block.                                                                    *)
RootFits ==
    argc % EPB \notin {0, EPB - 1} =>
        RootEntries <= RootBlocks * EPB /\ RootSize <= RootBlocks * EPB

(* The disk is laid out as the kernel takes it to be, by mkfs and later by   *)
(* getstartblkno.                                                            *)
LaidOut == FilesApart /\ RootFits

(* What was written to a file is what every read of it returns, from any     *)
(* offset, across blocks and extents.                                        *)
ReadBack ==
    \A f \in DOMAIN dinode : \A off \in 0 .. dinode[f].size :
        LET n == dinode[f].size - off
        IN  readi(f, off, n) = [i \in 1 .. n |-> <<f, off + i - 1>>]
=============================================================================
