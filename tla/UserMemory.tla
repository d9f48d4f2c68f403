----------------------------- MODULE UserMemory -----------------------------
(***************************************************************************)
(* The memory of user processes: page tables, allocation and copying       *)
(* (kernel/memory/uvm.cpp, page_table.cpp, page.cpp), and the operations   *)
(* that change it: exec, fork and the growth of memory on a store fault    *)
(* (kernel/elf/exec.cpp, process.cpp, kernel/ie/user_trap.cpp).            *)
(*                                                                         *)
(* A page table is a function from the numbers of the pages that are valid *)
(* in it; the pages of the table itself, and the trampoline and trap frame *)
(* at the top of memory, are left out.  The free list is only ever popped  *)
(* (a page is freed only behind a map that fails, and it never does), so a *)
(* physical page is numbered by the order of its allocation.  An assertion *)
(* that fails, and an exhausted free list, stop the kernel.                *)
(*                                                                         *)
(* An operator whose name ends in Variant is a faulty form of the operator *)
(* that follows it; no specification uses it.                              *)
(***************************************************************************)
EXTENDS Integers, FiniteSets, Sequences

CONSTANTS Procs, InitProc,
          PAGE_SIZE,
          NumFrames,  \* the pages of physical memory
          MaxPages,   \* a bound on the pages a segment or a store reaches
          MaxSegments \* a bound on the segments of a program

ASSUME UserMemoryAssumption ==
    /\ InitProc \in Procs
    /\ PAGE_SIZE \in Nat \ {0}
    /\ NumFrames \in Nat \ {0}
    /\ MaxPages \in Nat
    /\ MaxSegments \in Nat

VARIABLES table,      \* Process::pageTable
          memorySize, \* Process::memorySize
          pc,         \* "none", "user" or "exec"
          newTable,   \* the local variables pageTable, size and i of exec
          newSize,
          segments,
          frames,     \* the physical pages allocated so far
          panic       \* why the kernel has stopped, or "no"

vars == <<table, memorySize, pc, newTable, newSize, segments, frames, panic>>

Addresses == 0 .. MaxPages * PAGE_SIZE
Empty == [g \in {} |-> [frame |-> 0, w |-> FALSE, u |-> FALSE]]

\* startUserInitProcess gives the first process one page.
Init ==
    /\ table = [p \in Procs |-> IF p = InitProc
                                THEN [g \in {0} |-> [frame |-> 0, w |-> TRUE, u |-> TRUE]]
                                ELSE Empty]
    /\ memorySize = [p \in Procs |-> IF p = InitProc THEN PAGE_SIZE ELSE 0]
    /\ pc = [p \in Procs |-> IF p = InitProc THEN "user" ELSE "none"]
    /\ newTable = [p \in Procs |-> Empty]
    /\ newSize = [p \in Procs |-> 0]
    /\ segments = [p \in Procs |-> 0]
    /\ frames = 1
    /\ panic = "no"
-----------------------------------------------------------------------------
(***************************************************************************)
(* allocateUserVirtualMemory and copyUserVirtualMemory.                    *)
(***************************************************************************)
\* roundUp and roundDown, as the number of a page.
RoundUp(a) == (a + PAGE_SIZE - 1) \div PAGE_SIZE
RoundDown(a) == a \div PAGE_SIZE

\* The pages that growing from one size to another maps, one after the other.
GrownPagesVariant(old, new) == RoundUp(old) .. RoundDown(new) - 1
GrownPages(old, new) == RoundUp(old) .. RoundUp(new) - 1

\* What stops the loop of allocateUserVirtualMemory: a page that is valid
\* already, in map, or the end of the free list.
AllocatePanics(t, old, new) ==
    LET left == NumFrames - frames
    IN  IF \E g \in GrownPages(old, new) : g \in DOMAIN t /\ g < RoundUp(old) + left
        THEN "map"
        ELSE IF RoundUp(new) - RoundUp(old) > left THEN "memory" ELSE "no"

Allocated(t, old, new, w) ==
    [g \in DOMAIN t \cup GrownPages(old, new) |->
        IF g \in DOMAIN t THEN t[g]
        ELSE [frame |-> frames + (g - RoundUp(old)), w |-> w, u |-> TRUE]]

FramesAfter(old, new) ==
    IF RoundUp(new) > RoundUp(old) THEN frames + (RoundUp(new) - RoundUp(old)) ELSE frames

\* The loop of copyUserVirtualMemory expects every page below the size.
CopyPanics(t, size) ==
    IF ~(0 .. RoundUp(size) - 1 \subseteq DOMAIN t) THEN "copy"
    ELSE IF RoundUp(size) > NumFrames - frames THEN "memory" ELSE "no"

CopiedVariant(t, size) == [g \in 0 .. RoundUp(size) - 1 |-> t[g]]
Copied(t, size) ==
    [g \in 0 .. RoundUp(size) - 1 |-> [t[g] EXCEPT !.frame = frames + g]]
-----------------------------------------------------------------------------
(***************************************************************************)
(* PageTable::copyout, copyin and copyinString go through the pages of a   *)
(* range of addresses.  A copy is the bytes of physical memory it touches, *)
(* in order, and whether it gets to its end.                               *)
(***************************************************************************)
\* What walkAddress finds: only pages of the user, which need not be writable.
UserPage(t, g) == g \in DOMAIN t /\ t[g].u

\* The bytes up to the end of the page of address a, at most n, and what follows them.
Chunk(a, n) == LET m == PAGE_SIZE - (a % PAGE_SIZE) IN IF m > n THEN n ELSE m
Bytes(t, a, m) == [k \in 1 .. m |-> <<t[RoundDown(a)].frame, (a % PAGE_SIZE) + k - 1>>]
NextPageVariant(a) == a + PAGE_SIZE
NextPage(a) == (RoundDown(a) + 1) * PAGE_SIZE

\* copyout and copyin, of n bytes at address a.
Copy(t) ==
    LET c[a \in Nat, n \in Nat] ==
          IF n = 0 THEN [ok |-> TRUE, bytes |-> <<>>]
          ELSE IF ~UserPage(t, RoundDown(a)) THEN [ok |-> FALSE, bytes |-> <<>>]
          ELSE LET m == Chunk(a, n)
                   rest == c[NextPage(a), n - m]
               IN  [rest EXCEPT !.bytes = Bytes(t, a, m) \o @]
    IN  c

\* copyinString, of at most n bytes, where the first null byte is at address z.
CopyString(t, z) ==
    LET c[a \in Nat, n \in Nat] ==
          IF n = 0 \/ ~UserPage(t, RoundDown(a)) THEN [ok |-> FALSE, bytes |-> <<>>]
          ELSE LET m == Chunk(a, n)
                   rest == c[NextPage(a), n - m]
               IN  IF z < a + m THEN [ok |-> TRUE, bytes |-> Bytes(t, a, z - a + 1)]
                                ELSE [rest EXCEPT !.bytes = Bytes(t, a, m) \o @]
    IN  c
-----------------------------------------------------------------------------
(***************************************************************************)
(* A store of p to address a that the page table does not allow: the trap  *)
(* handler calls growMemory(a).  Below memorySize that only lowers it:     *)
(* deallocateUserVirtualMemory is called with its sizes exchanged and      *)
(* returns at once, and unmap does nothing.                                *)
(***************************************************************************)
Faults(p, a) ==
    LET g == RoundDown(a)
    IN  ~(g \in DOMAIN table[p] /\ table[p][g].w /\ table[p][g].u)

GrowMemory(p, size) ==
    LET old == memorySize[p]
        stop == IF size > old THEN AllocatePanics(table[p], old, size) ELSE "no"
    IN  /\ panic' = stop
        /\ IF stop = "no"
           THEN /\ table' = [table EXCEPT ![p] = IF size > old
                                THEN Allocated(@, old, size, TRUE) ELSE @]
                /\ frames' = FramesAfter(old, size)
                /\ memorySize' = [memorySize EXCEPT ![p] = size]
           ELSE UNCHANGED <<table, frames, memorySize>>

StoreFault(p, a) ==
    /\ pc[p] = "user"
    /\ Faults(p, a)
    /\ GrowMemory(p, a)
    /\ UNCHANGED <<pc, newTable, newSize, segments>>

Fork(p, q) ==
    /\ pc[p] = "user" /\ pc[q] = "none"
    /\ panic' = CopyPanics(table[p], memorySize[p])
    /\ IF panic' = "no"
       THEN /\ table' = [table EXCEPT ![q] = Copied(table[p], memorySize[p])]
            /\ memorySize' = [memorySize EXCEPT ![q] = memorySize[p]]
            /\ frames' = frames + RoundUp(memorySize[p])
            /\ pc' = [pc EXCEPT ![q] = "user"]
       ELSE UNCHANGED <<table, memorySize, frames, pc>>
    /\ UNCHANGED <<newTable, newSize, segments>>
-----------------------------------------------------------------------------
(***************************************************************************)
(* exec builds a page table beside the old one, a segment at a time, and   *)
(* installs it at the end.                                                 *)
(***************************************************************************)
Exec(p) ==
    /\ pc[p] = "user"
    /\ pc' = [pc EXCEPT ![p] = "exec"]
    /\ UNCHANGED <<table, memorySize, newTable, newSize, segments, frames, panic>>

ExecReturns(p) ==
    /\ pc' = [pc EXCEPT ![p] = "user"]
    /\ newTable' = [newTable EXCEPT ![p] = Empty]
    /\ newSize' = [newSize EXCEPT ![p] = 0]
    /\ segments' = [segments EXCEPT ![p] = 0]

\* A segment from page v to address end, of which the bytes up to fileEnd are
\* read from the file.  loadSegment expects its pages to be there.
LoadPanics(t, v, fileEnd) ==
    IF \A g \in v .. RoundUp(fileEnd) - 1 : g \in DOMAIN t /\ t[g].u THEN "no" ELSE "load"

ExecSegment(p, v, end, fileEnd, w) ==
    LET old == newSize[p]
        t == IF end < old THEN newTable[p] ELSE Allocated(newTable[p], old, end, w)
        stop == IF end < old THEN "no" ELSE AllocatePanics(newTable[p], old, end)
    IN  /\ pc[p] = "exec" /\ segments[p] < MaxSegments
        /\ v * PAGE_SIZE <= fileEnd /\ fileEnd <= end
        /\ end > 0 \/ old > 0
        /\ panic' = IF stop # "no" THEN stop ELSE LoadPanics(t, v, fileEnd)
        /\ IF panic' = "no"
           THEN /\ newTable' = [newTable EXCEPT ![p] = t]
                /\ newSize' = [newSize EXCEPT ![p] = IF end < old THEN old ELSE end]
                /\ frames' = IF end < old THEN frames ELSE FramesAfter(old, end)
                /\ segments' = [segments EXCEPT ![p] = @ + 1]
           ELSE UNCHANGED <<newTable, newSize, frames, segments>>
        /\ UNCHANGED <<table, memorySize, pc>>

\* Two more pages, of which the lower guards the stack in the upper.
ExecDone(p) ==
    LET old == RoundUp(newSize[p]) * PAGE_SIZE
        new == old + 2 * PAGE_SIZE
        stop == AllocatePanics(newTable[p], old, new)
    IN  /\ pc[p] = "exec"
        /\ panic' = stop
        /\ IF stop = "no"
           THEN /\ table' = [table EXCEPT ![p] =
                      [Allocated(newTable[p], old, new, TRUE)
                          EXCEPT ![RoundUp(new) - 2].u = FALSE]]
                /\ memorySize' = [memorySize EXCEPT ![p] = new]
                /\ frames' = FramesAfter(old, new)
                /\ ExecReturns(p)
           ELSE UNCHANGED <<table, memorySize, frames, pc, newTable, newSize, segments>>

\* bad(): the file is not a program, or its arguments do not fit on the stack.
ExecFails(p) ==
    /\ pc[p] = "exec"
    /\ ExecReturns(p)
    /\ UNCHANGED <<table, memorySize, frames, panic>>
-----------------------------------------------------------------------------
Next ==
    /\ panic = "no"
    /\ \E p \in Procs :
          \/ \E a \in Addresses : StoreFault(p, a)
          \/ \E q \in Procs : Fork(p, q)
          \/ Exec(p)
          \/ \E v \in 0 .. MaxPages, end, fileEnd \in Addresses, w \in BOOLEAN :
                ExecSegment(p, v, end, fileEnd, w)
          \/ ExecDone(p)
          \/ ExecFails(p)

Spec == Init /\ [][Next]_vars
-----------------------------------------------------------------------------
(***************************************************************************)
(* Properties.                                                             *)
(***************************************************************************)
\* fork and exec find every page they expect to be mapped: the assertions of
\* copyUserVirtualMemory and of loadSegment hold, whatever stores have grown
\* or lowered memorySize before.
CopyFindsPages == panic \notin {"copy", "load"}

\* map finds the page it is to map not valid, as it asserts.
MapNeverRemaps == panic # "map"

OneToOne(t) == \A g, h \in DOMAIN t : t[g].frame = t[h].frame => g = h
Apart(s, t) == \A g \in DOMAIN s, h \in DOMAIN t : s[g].frame # t[h].frame

\* No physical page is mapped at two places: not by two processes, and not in
\* the table an exec builds and any other.  A store is seen by one process only.
FramesUnshared ==
    /\ \A p \in Procs : OneToOne(table[p]) /\ OneToOne(newTable[p])
    /\ \A p, q \in Procs :
          /\ Apart(table[p], newTable[q])
          /\ p # q => Apart(table[p], table[q]) /\ Apart(newTable[p], newTable[q])

\* What a copy of n bytes at address a should touch: the bytes of the user's pages
\* at these addresses, up to the first that is on none.
Reach(t, a, n) == {k \in 0 .. n - 1 : \A j \in 0 .. k : UserPage(t, RoundDown(a + j))}
Touches(t, a, ks) ==
    [k \in 1 .. Cardinality(ks) |-> <<t[RoundDown(a + k - 1)].frame, (a + k - 1) % PAGE_SIZE>>]

\* Whatever exec, fork and store faults have made of a table, copyout, copyin and
\* copyinString touch the bytes the process sees at these addresses, each once and
\* in order, and no others; they succeed if all of them, or all up to the null
\* byte, are on pages of the user.  The ranges checked are on up to three pages.
CopyExact ==
    \A p \in {q \in Procs : pc[q] = "user"}, a \in Addresses, n \in 0 .. PAGE_SIZE + 2 :
       LET t == table[p] IN
       /\ LET ks == Reach(t, a, n) IN
          Copy(t)[a, n] = [ok |-> (ks = 0 .. n - 1), bytes |-> Touches(t, a, ks)]
       /\ \A z \in a .. a + n :
             LET ks == Reach(t, a, n) \cap (0 .. z - a) IN
             CopyString(t, z)[a, n] = [ok |-> (z - a \in ks), bytes |-> Touches(t, a, ks)]

IsTable(t) == /\ DOMAIN t \subseteq Nat
              /\ t \in [DOMAIN t -> [frame : 0 .. frames - 1, w : BOOLEAN, u : BOOLEAN]]
\* The type of the state; a page table maps pages that have been allocated.
TypeOK ==
    /\ DOMAIN table = Procs /\ DOMAIN newTable = Procs
    /\ \A p \in Procs : IsTable(table[p]) /\ IsTable(newTable[p])
    /\ memorySize \in [Procs -> Nat]
    /\ newSize \in [Procs -> Nat]
    /\ segments \in [Procs -> 0 .. MaxSegments]
    /\ pc \in [Procs -> {"none", "user", "exec"}]
    /\ frames \in 1 .. NumFrames
    /\ panic \in {"no", "map", "memory", "copy", "load"}
=============================================================================
