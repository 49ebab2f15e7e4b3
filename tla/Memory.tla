------------------------------- MODULE Memory -------------------------------
(***************************************************************************)
(* The memory of processes: the frames of kernel/kalloc.c, the regions,    *)
(* page descriptors and page tables of kernel/vspace.c and x86_64vm.c, the *)
(* page fault of kernel/trap.c with copy-on-write and the growing stack,   *)
(* and fork, sbrk, exec, exit and the reaping of a process.                *)
(*                                                                         *)
(* Frames are alike, so the model names a frame after the page that kalloc *)
(* gives it to: <<p, v, k>> is the k-th frame for page v of process p.  One *)
(* is available exactly when its count is 0.  A frame holds one value: a   *)
(* page of text, the arguments, zeros, or what a process stored.  The      *)
(* frames of the kernel (stacks, page tables, descriptors) are counted in  *)
(* kernel_pages: a page table is one frame, whatever its levels, and so is *)
(* the list of descriptors of a region.  A page that is used is present:   *)
(* pages leave memory only through lru_evict, which panics the first time  *)
(* it is called (see lru_evict), so the swap code behind it is not reached.*)
(*                                                                         *)
(* Page faults come through an interrupt gate and are steps of their own.  *)
(* System calls can be preempted; their steps here end where another       *)
(* process could see the difference.                                       *)
(***************************************************************************)
EXTENDS Integers, FiniteSets, FiniteSetsExt, Sequences, TLC

CONSTANTS
    Procs,          \* the slots of the process table
    First,          \* initproc
    NPages,         \* the frames that freerange hands to kalloc
    Spare,          \* bound: frames under the name of one page
    Reserve,        \* kalloc evicts when fewer frames than this are free (10)
    PGSIZE,
    TopPage,        \* SZ_2G, in pages: the top of the user stack
    MaxStack,       \* pages of the stack window (10)
    MaxHeap,        \* bound: pages of heap a process asks for
    ProgramSizes,   \* the sizes of the programs that exec is called with
    StoreTo,        \* bound: the pages that processes store to
    Text, Args, Blank, Stored, Junk, NoImage

ASSUME MemoryAssumption ==
    /\ First \in Procs
    /\ {NPages, Spare, Reserve, PGSIZE, TopPage, MaxStack} \subseteq Nat \ {0}
    /\ ProgramSizes \subseteq Nat \ {0} /\ StoreTo \subseteq 0 .. TopPage

VARIABLES
    ref_count,      \* core_map[].ref_count of the frames of user pages
    kernel_pages,   \* the frames that the kernel has for itself
    content,        \* what each frame holds
    free_pages,
    vspace,         \* the address space of each process
    temp,           \* the one that exec prepares
    old,            \* the page table that exec is to free
    pc,             \* where each process is
    arg,            \* the number of the region that fork is to copy
    child,          \* the process that fork makes
    panicked        \* "" or the panic that stopped the machine

vars == <<ref_count, kernel_pages, content, free_pages, vspace, temp, old, pc,
          arg, child, panicked>>
frames == <<ref_count, kernel_pages, content, free_pages>>

Frames  == Procs \X (0 .. TopPage) \X (1 .. Spare)
None    == <<>>
Vpns    == 0 .. TopPage
Regions == <<"CODE", "HEAP", "USTACK">>
Names   == {"CODE", "HEAP", "USTACK"}
-----------------------------------------------------------------------------
(* Frames. *)

\* The frame that kalloc returns for page v of p.  Claim counts the frames of
\* S as taken, with k more for the kernel.
available == {f \in Frames : ref_count[f] = 0}
Kalloc(p, v) == <<p, v, Min({k \in 1 .. Spare : ref_count[<<p, v, k>>] = 0})>>
Room(n) == free_pages - n + 1 >= Reserve
Taken(rc, S) == [f \in Frames |-> IF f \in S THEN 1 ELSE rc[f]]
Claim(S, k) ==
    /\ ref_count' = Taken(ref_count, S)
    /\ kernel_pages' = kernel_pages + k
    /\ free_pages' = free_pages - Cardinality(S) - k

\* kfree of each frame of S, where the last reference gives the frame back,
\* and of k frames of the kernel.
DecrementedNot(n) == n
Decremented(n) == IF n <= 1 THEN 0 ELSE n - 1
Orphans(S) == {f \in S : ref_count[f] <= 1}
Kfree(S, k) ==
    /\ ref_count' = [f \in Frames |-> IF f \in S THEN Decremented(ref_count[f])
                                      ELSE ref_count[f]]
    /\ content' = [f \in Frames |-> IF f \in Orphans(S) THEN Junk ELSE content[f]]
    /\ kernel_pages' = kernel_pages - k
    /\ free_pages' = free_pages + Cardinality(Orphans(S)) + k

\* The first call of lru_evict panics: evict_i becomes 1, frame 1 of the
\* machine lies below the kernel and is never user memory, and release is
\* called for its lock, which nobody holds.
lru_evict == panicked' = "release"
-----------------------------------------------------------------------------
(* Regions, descriptors and page tables. *)

PageUp(n) == ((n + PGSIZE - 1) \div PGSIZE) * PGSIZE
NoPte == [ppn |-> None, writable |-> FALSE]
NoTable == [v \in Vpns |-> NoPte]
NoRegion == [base |-> 0, size |-> 0, desc |-> FALSE, info |-> <<>>]
NoSpace == [region |-> [r \in Names |-> NoRegion], pgtbl |-> NoTable]

VRTOP(r, R) == IF r = "USTACK" THEN R.base ELSE R.base + R.size
VRBOT(r, R) == IF r = "USTACK" THEN R.base - R.size ELSE R.base
va2vpi_idx(r, R, va) ==
    (IF r = "USTACK" THEN R.base - 1 - va ELSE va - R.base) \div PGSIZE

vregioncontains(r, R, va, size) == va >= VRBOT(r, R) /\ va + size < VRTOP(r, R)

\* The regions that hold va: at most one.
va2vregion(vs, va) ==
    {r \in Names : LET R == vs.region[r] IN va >= VRBOT(r, R) /\ va < VRTOP(r, R)}

\* The descriptor of va, as a set with at most one element.
va2vpage_info(vs, va) ==
    {vs.region[r].info[va2vpi_idx(r, vs.region[r], va)] :
        r \in {s \in va2vregion(vs, va) :
                  va2vpi_idx(s, vs.region[s], va) \in DOMAIN vs.region[s].info}}

\* The page table is made again from the descriptors, inside the regions.
vspaceinvalidate(vs) ==
    [vs EXCEPT !.pgtbl = [v \in Vpns |->
        IF va2vregion(vs, v * PGSIZE) = {} THEN @[v]
        ELSE IF va2vpage_info(vs, v * PGSIZE) = {} THEN NoPte
        ELSE LET d == CHOOSE d \in va2vpage_info(vs, v * PGSIZE) : TRUE
             IN  [ppn |-> d.ppn, writable |-> d.writable]]]

\* What vspacefree gives back: the frames that the page table maps, and the
\* descriptors and the table itself.
Mapped(t) == {t[v].ppn : v \in Vpns} \ {None}
Descs(vs) == Cardinality({r \in Names : vs.region[r].desc})

\* vregionaddmap: pages for the indices I of region r of p; PageAt is the page
\* that index i of the region stands for.
PageAt(r, R, i) == IF r = "USTACK" THEN (R.base \div PGSIZE) - 1 - i ELSE (R.base \div PGSIZE) + i
vregionaddmap(p, r, R, I) ==
    [R EXCEPT !.info = @ @@ [i \in I |->
        [ppn |-> Kalloc(p, PageAt(r, R, i)), writable |-> TRUE, cow |-> FALSE]]]
UsedBy(R) == {R.info[i].ppn : i \in DOMAIN R.info}
-----------------------------------------------------------------------------
(* Booting. *)

\* userinit: the space that vspaceinitcode makes holds a page of code and,
\* right above it, the stack.  The process runs initcode.S, which only execs.
Init ==
    LET code  == [NoRegion EXCEPT !.size = PGSIZE, !.desc = TRUE]
        Page(v) == 0 :> [ppn |-> <<First, v, 1>>, writable |-> TRUE, cow |-> FALSE]
        vs    == [NoSpace EXCEPT
                     !.region["CODE"] = [code EXCEPT !.info = Page(0)],
                     !.region["USTACK"] = [code EXCEPT !.base = 2 * PGSIZE, !.info = Page(1)]]
        used  == {<<First, 0, 1>>, <<First, 1, 1>>}
    IN  /\ ref_count = [f \in Frames |-> IF f \in used THEN 1 ELSE 0]
        /\ content = [f \in Frames |-> CASE f = <<First, 0, 1>> -> Text
                          [] f = <<First, 1, 1>> -> Blank [] OTHER -> Junk]
        /\ kernel_pages = 4
        /\ free_pages = NPages - 6
        /\ vspace = [p \in Procs |-> IF p = First THEN vspaceinvalidate(vs) ELSE NoSpace]
        /\ temp = [p \in Procs |-> NoSpace]
        /\ old = [p \in Procs |-> NoTable]
        /\ pc = [p \in Procs |-> IF p = First THEN "initcode" ELSE "unused"]
        /\ arg = [p \in Procs |-> 0]
        /\ child = [p \in Procs |-> p]
        /\ panicked = ""
-----------------------------------------------------------------------------
(* Stores and page faults. *)

\* A process stores to page v, in user mode or in a system call that writes
\* its result there.  argptr lets a system call through only when the address
\* lies in a region.
argptr(p, va, size) == \E r \in Names : vregioncontains(r, vspace[p].region[r], va, size)
Modes(p, v) == {"user"} \cup (IF argptr(p, v * PGSIZE, 1) THEN {"kernel"} ELSE {})
Pte(p, v) == vspace[p].pgtbl[v]

\* The processor finds the page writable.  CR0_WP is set, so the kernel is
\* held to the same permission.
Store(p, v) ==
    /\ pc[p] = "user" /\ Pte(p, v).writable
    /\ content' = [content EXCEPT ![Pte(p, v).ppn] = Stored]
    /\ UNCHANGED <<ref_count, kernel_pages, free_pages, vspace, temp, old, pc, arg, child, panicked>>

\* Otherwise it faults, and the store is tried again after trap returns.
Faults(p, v) == pc[p] = "user" /\ ~Pte(p, v).writable
Vpi(p, v) == va2vpage_info(vspace[p], v * PGSIZE)
Cow(p, v) == \E d \in Vpi(p, v) : ~d.writable /\ d.cow

\* The address space of p with d as the descriptor of v, and installed.
SetVpi(p, v, d) ==
    LET r == CHOOSE r \in va2vregion(vspace[p], v * PGSIZE) : TRUE
        i == va2vpi_idx(r, vspace[p].region[r], v * PGSIZE)
    IN  vspaceinvalidate([vspace[p] EXCEPT !.region[r].info[i] = d])

\* Whether a page that faults belongs to one process alone.
LastRefOrTwo(f) == ref_count[f] \in {1, 2}
LastRef(f) == ref_count[f] = 1

\* The page is shared: the process takes a copy and leaves the frame.
CowCopy(p, v) ==
    /\ Faults(p, v) /\ Cow(p, v) /\ Room(1)
    /\ \E d \in Vpi(p, v) :
          /\ ref_count[d.ppn] > 1
          /\ LET f == Kalloc(p, v) IN
                /\ content' = [content EXCEPT ![f] = content[d.ppn]]
                /\ ref_count' = [Taken(ref_count, {f}) EXCEPT ![d.ppn] = @ - 1]
                /\ vspace' = [vspace EXCEPT ![p] =
                       SetVpi(p, v, [ppn |-> f, writable |-> TRUE, cow |-> FALSE])]
    /\ free_pages' = free_pages - 1
    /\ UNCHANGED <<kernel_pages, temp, old, pc, arg, child, panicked>>

\* Nobody shares the page any more: it becomes writable again.
CowLast(p, v) ==
    /\ Faults(p, v) /\ Cow(p, v)
    /\ \E d \in Vpi(p, v) :
          /\ LastRef(d.ppn)
          /\ vspace' = [vspace EXCEPT ![p] =
                 SetVpi(p, v, [d EXCEPT !.writable = TRUE, !.cow = FALSE])]
    /\ UNCHANGED <<frames, temp, old, pc, arg, child, panicked>>

\* Below the stack, inside its window, the stack grows by a page.
InWindow(v) == v < TopPage /\ v >= TopPage - MaxStack
GrowsLess(p, v) ==
    /\ ~Cow(p, v) /\ InWindow(v)
    /\ vspace[p].region["USTACK"].size + PGSIZE < MaxStack * PGSIZE
Grows(p, v) ==
    /\ ~Cow(p, v) /\ InWindow(v)
    /\ vspace[p].region["USTACK"].size < MaxStack * PGSIZE

growustack(p, v) ==
    /\ Faults(p, v) /\ Grows(p, v) /\ Room(1)
    /\ LET R == vspace[p].region["USTACK"]
           i == R.size \div PGSIZE
           grown == vregionaddmap(p, "USTACK", R, {i})
       IN  /\ Claim({grown.info[i].ppn}, 0)
           /\ content' = [content EXCEPT ![grown.info[i].ppn] = Blank]
           /\ vspace' = [vspace EXCEPT ![p] = vspaceinvalidate([@ EXCEPT
                  !.region["USTACK"] = [grown EXCEPT !.size = @ + PGSIZE]])]
    /\ UNCHANGED <<temp, old, pc, arg, child, panicked>>

\* Nothing else helps: a process is killed, and in the kernel "it must be our
\* mistake".
BadAccess(p, v) ==
    /\ Faults(p, v) /\ ~Cow(p, v) /\ ~Grows(p, v)
    /\ \E mode \in Modes(p, v) :
          IF mode = "kernel"
          THEN panicked' = "trap" /\ UNCHANGED pc
          ELSE pc' = [pc EXCEPT ![p] = "zombie"] /\ UNCHANGED panicked
    /\ UNCHANGED <<frames, vspace, temp, old, arg, child>>
-----------------------------------------------------------------------------
(* fork, sbrk, exit and wait. *)

\* allocproc takes a free slot and a kernel stack; vspaceinit a page table.
ForkStart(p) ==
    /\ pc[p] = "user" /\ Room(2)
    /\ \E q \in Procs :
          /\ pc[q] = "unused"
          /\ pc' = [pc EXCEPT ![p] = "fork", ![q] = "embryo"]
          /\ child' = [child EXCEPT ![p] = q]
    /\ Claim({}, 2)
    /\ arg' = [arg EXCEPT ![p] = 1]
    /\ UNCHANGED <<content, vspace, temp, old, panicked>>

\* shallow_copy_vpi_page: the pages of one region become read-only and shared.
SharedAsWas(R) == R
Shared(R) == [R EXCEPT !.info = [i \in DOMAIN R.info |->
    [R.info[i] EXCEPT !.writable = FALSE, !.cow = TRUE]]]
shallow_copy_vpi_page(p) ==
    /\ pc[p] = "fork" /\ arg[p] <= Len(Regions)
    /\ LET r == Regions[arg[p]]
           R == vspace[p].region[r]
           k == IF R.desc THEN 1 ELSE 0
       IN  /\ R.desc => Room(1)
           /\ vspace' = [vspace EXCEPT ![p].region[r] = Shared(R),
                                       ![child[p]].region[r] = Shared(R)]
           /\ ref_count' = [f \in Frames |->
                  ref_count[f] + IF f \in UsedBy(R) THEN 1 ELSE 0]
           /\ kernel_pages' = kernel_pages + k
           /\ free_pages' = free_pages - k
    /\ arg' = [arg EXCEPT ![p] = @ + 1]
    /\ UNCHANGED <<content, temp, old, pc, child, panicked>>

\* Both page tables are made again, and the child may run.
ForkEnd(p) ==
    /\ pc[p] = "fork" /\ arg[p] > Len(Regions)
    /\ vspace' = [vspace EXCEPT ![p] = vspaceinvalidate(@),
                                ![child[p]] = vspaceinvalidate(@)]
    /\ pc' = [pc EXCEPT ![p] = "user", ![child[p]] = "user"]
    /\ arg' = [arg EXCEPT ![p] = 0]
    /\ child' = [child EXCEPT ![p] = p]
    /\ UNCHANGED <<frames, temp, old, panicked>>

\* The pages that n more bytes need: those that begin in the new bytes.
NewPages(size, n) == {i \in 0 .. MaxHeap : i * PGSIZE >= PageUp(size) /\ i * PGSIZE < size + n}
sbrk(p) ==
    /\ pc[p] = "user"
    /\ \E n \in 1 .. PGSIZE + 1 :
          LET R == vspace[p].region["HEAP"]
              I == NewPages(R.size, n)
              grown == vregionaddmap(p, "HEAP", R, I)
              S == UsedBy(grown) \ UsedBy(R)
              k == IF I # {} /\ ~R.desc THEN 1 ELSE 0
          IN  /\ R.size + n <= MaxHeap * PGSIZE
              /\ I # {} => Room(Cardinality(I) + k)
              /\ Claim(S, k)
              /\ content' = [f \in Frames |-> IF f \in S THEN Blank ELSE content[f]]
              /\ vspace' = [vspace EXCEPT ![p] = vspaceinvalidate([@ EXCEPT
                     !.region["HEAP"] = [grown EXCEPT !.size = @ + n, !.desc = @ \/ I # {}]])]
    /\ UNCHANGED <<temp, old, pc, arg, child, panicked>>

exit(p) ==
    /\ pc[p] = "user" /\ p # First
    /\ pc' = [pc EXCEPT ![p] = "zombie"]
    /\ UNCHANGED <<frames, vspace, temp, old, arg, child, panicked>>

\* Whoever waits for the zombie q frees its space and its kernel stack.
vspacefree(vs, k) == Kfree(Mapped(vs.pgtbl), Descs(vs) + 1 + k)
process_zombie_child(q) ==
    /\ pc[q] = "zombie" /\ q # First
    /\ vspacefree(vspace[q], 1)
    /\ vspace' = [vspace EXCEPT ![q] = NoSpace]
    /\ pc' = [pc EXCEPT ![q] = "unused"]
    /\ UNCHANGED <<temp, old, arg, child, panicked>>
-----------------------------------------------------------------------------
(* exec. *)

\* The prepared space: the text and the bounds of the regions, and the stack
\* with the arguments (vspaceinitstack, vspacewritetova); the page table is
\* made.  A file that is no program costs a page table for a moment and leaves
\* everything as it was.
CodePages(size) == {i \in Vpns : i * PGSIZE < size}
LoadCalls(size) == Cardinality(CodePages(size)) + 4
vspaceloadcode(p) ==
    /\ pc[p] \in {"user", "initcode"}
    /\ \E size \in ProgramSizes :
          LET end == PageUp(size)
              bare == [NoRegion EXCEPT !.size = end, !.desc = TRUE]
              code == vregionaddmap(p, "CODE", bare, CodePages(size))
              stack == vregionaddmap(p, "USTACK",
                           [bare EXCEPT !.base = TopPage * PGSIZE, !.size = PGSIZE], {0})
          IN  /\ Room(LoadCalls(size))
              /\ temp' = [temp EXCEPT ![p] = vspaceinvalidate([@ EXCEPT
                     !.region["CODE"] = code, !.region["HEAP"].base = end,
                     !.region["USTACK"] = stack])]
              /\ Claim(UsedBy(code) \cup UsedBy(stack), 3)
              /\ content' = [f \in Frames |-> IF f \in UsedBy(stack) THEN Args
                                 ELSE IF f \in UsedBy(code) THEN Text ELSE content[f]]
    /\ pc' = [pc EXCEPT ![p] = "copy"]
    /\ UNCHANGED <<vspace, old, arg, child, panicked>>

\* The descriptors of the process go (vregionfree), it gets a new page table
\* (vspaceinit), and vspacecopy fills it with a deep copy of temp.
CopyCalls(p) == 1 + Descs(temp[p]) + Cardinality(Mapped(temp[p].pgtbl))
vspacecopy(p) ==
    /\ pc[p] = "copy"
    /\ free_pages + Descs(vspace[p]) - CopyCalls(p) + 1 >= Reserve
    /\ LET New(f) == Kalloc(p, f[2])
           Copy(R) == [R EXCEPT !.info = [i \in DOMAIN @ |-> [@[i] EXCEPT !.ppn = New(@)]]]
           src == Mapped(temp[p].pgtbl)
       IN  /\ vspace' = [vspace EXCEPT ![p] = vspaceinvalidate([NoSpace EXCEPT
                  !.region = [r \in Names |-> Copy(temp[p].region[r])]])]
           /\ Claim({New(f) : f \in src}, 1 + Descs(temp[p]) - Descs(vspace[p]))
           /\ content' = [f \in Frames |-> IF \E g \in src : New(g) = f
                              THEN content[CHOOSE g \in src : New(g) = f] ELSE content[f]]
    /\ old' = [old EXCEPT ![p] = vspace[p].pgtbl]
    /\ pc' = [pc EXCEPT ![p] = "free"]
    /\ UNCHANGED <<temp, arg, child, panicked>>

\* vspacefree(&temp), and freevm of the old page table.
ExecFree(p) ==
    /\ pc[p] = "free"
    /\ Kfree(Mapped(temp[p].pgtbl) \cup Mapped(old[p]), Descs(temp[p]) + 2)
    /\ temp' = [temp EXCEPT ![p] = NoSpace]
    /\ old' = [old EXCEPT ![p] = NoTable]
    /\ pc' = [pc EXCEPT ![p] = "user"]
    /\ UNCHANGED <<vspace, arg, child, panicked>>
-----------------------------------------------------------------------------
\* The calls of kalloc that p may make next, one after the other.
Calls(p) ==
    CASE pc[p] = "initcode" -> {LoadCalls(size) : size \in ProgramSizes}
      [] pc[p] = "user" -> {1} \cup {LoadCalls(size) : size \in ProgramSizes}
      [] pc[p] = "fork" /\ arg[p] <= Len(Regions) ->
             IF vspace[p].region[Regions[arg[p]]].desc THEN {1} ELSE {}
      [] pc[p] = "copy" -> {CopyCalls(p) - Descs(vspace[p])}
      [] OTHER -> {}

\* kalloc finds fewer than Reserve frames free and turns to lru_evict.
kallocLow(p) ==
    /\ \E n \in Calls(p) : ~Room(n)
    /\ lru_evict
    /\ UNCHANGED <<frames, vspace, temp, old, pc, arg, child>>

Next ==
    /\ panicked = ""
    /\ \E p \in Procs :
          \/ \E v \in StoreTo : \/ Store(p, v) \/ CowCopy(p, v) \/ CowLast(p, v)
                                \/ growustack(p, v) \/ BadAccess(p, v)
          \/ ForkStart(p) \/ shallow_copy_vpi_page(p) \/ ForkEnd(p)
          \/ sbrk(p) \/ exit(p) \/ process_zombie_child(p)
          \/ vspaceloadcode(p) \/ vspacecopy(p) \/ ExecFree(p)
          \/ kallocLow(p)

Spec == Init /\ [][Next]_vars
-----------------------------------------------------------------------------
(* Properties. *)

Live(p) == pc[p] \notin {"unused", "embryo"}

\* The references to frames, each with the frame: the pages of address spaces,
\* and what the page table maps that exec is about to free.
Uses(space, name) ==
    UNION {LET info == space[p].region[r].info
           IN  {<<info[i].ppn, name, p, r, i>> : i \in DOMAIN info} : <<p, r>> \in Procs \X Names}
References ==
    Uses(vspace, "vspace") \cup Uses(temp, "temp")
        \cup UNION {{<<f, "old", p>> : f \in Mapped(old[p])} : p \in Procs}
Refs(all, f) == Cardinality({u \in all : u[1] = f})

\* The frames that the kernel needs for its stacks, tables and descriptors.
Kernel(p) ==
    (IF pc[p] = "unused" THEN 0 ELSE 2)
        + (IF pc[p] = "embryo" THEN 0 ELSE Descs(vspace[p]))
        + (IF pc[p] \in {"copy", "free"} THEN 1 + Descs(temp[p]) ELSE 0)
        + (IF pc[p] = "free" THEN 1 ELSE 0)
        + (IF pc[p] = "fork" THEN Descs(vspace[child[p]]) ELSE 0)

(* TypeOK: counts are counts, and every process is somewhere. *)
TypeOK ==
    /\ ref_count \in [Frames -> Nat]
    /\ content \in [Frames -> {Text, Args, Blank, Stored, Junk}]
    /\ {free_pages, kernel_pages} \subseteq 0 .. NPages
    /\ pc \in [Procs -> {"unused", "embryo", "initcode", "user", "fork",
                         "copy", "free", "zombie"}]
    /\ panicked \in {"", "release", "trap"}

(* Whatever fork, exec, faults and reaping do between them, a frame is      *)
(* counted as often as it is referred to, none is lost, and free_pages, on  *)
(* which kalloc relies, is what is left of the machine.                     *)
Accounted ==
    /\ TypeOK
    /\ LET all == References
       IN  \A f \in Frames : Refs(all, f) = ref_count[f]
    /\ kernel_pages = FoldSet(LAMBDA p, n : n + Kernel(p), 0, Procs)
    /\ free_pages = NPages - kernel_pages - Cardinality(Frames \ available)

(* A page that a process may write is its own: no other page table of a     *)
(* process that can run maps the frame.                                     *)
WritableAlone ==
    \A p \in Procs : pc[p] = "user" =>
        \A v \in Vpns :
            LET t == vspace[p].pgtbl[v] IN
            t.writable => Refs(References, t.ppn) = 1

(* The page table of a process in user mode says what its descriptors say: *)
(* each change of a descriptor is followed by vspaceinvalidate.            *)
TableAgrees ==
    \A p \in Procs : pc[p] = "user" =>
        vspaceinvalidate(vspace[p]) = vspace[p]

(* What a process in user mode can reach is what its descriptors say, and   *)
(* what it can write no other process has: fork takes the write permission  *)
(* out of the table of the parent before either can store.                  *)
PageTables == WritableAlone /\ TableAgrees

\* A process sees what its page table maps.
Image == [p \in Procs |->
    IF ~Live(p) THEN NoImage
    ELSE LET t == vspace[p].pgtbl
         IN  [v \in {u \in Vpns : t[u].ppn # None} |-> content[t[v].ppn]]]
Private == INSTANCE PrivateMemory WITH image <- Image
(* Every process has memory of its own: what one stores no other sees, fork *)
(* copies, exec replaces (the comments of vspacecopy and vspaceshallowcopy).*)
IsPrivate == Private!PSpec

(* A store inside the regions or the stack window is never the end of a     *)
(* process: the page is writable, or trap has a way to make it so; and a    *)
(* store of a system call that argptr let through never meets its panic.    *)
StoreResolves ==
    /\ panicked # "trap"
    /\ \A p \in Procs : pc[p] = "user" =>
          \A v \in Vpns :
              va2vregion(vspace[p], v * PGSIZE) # {} \/ InWindow(v) =>
                  Pte(p, v).writable \/ Cow(p, v) \/ Grows(p, v)
=============================================================================
