-------------------------- MODULE UserMemoryProofs --------------------------
(***************************************************************************)
(* Proofs about UserMemory, for every number of processes and pages and    *)
(* every page size.                                                        *)
(***************************************************************************)
EXTENDS UserMemory, TLAPS

-----------------------------------------------------------------------------
(***************************************************************************)
(* Rounding.                                                               *)
(***************************************************************************)
\* A rounded size is a number of pages.
LEMMA RoundUpType ==
    ASSUME NEW a \in Nat PROVE RoundUp(a) \in Nat
  BY UserMemoryAssumption, Z3 DEF RoundUp

\* A larger size has no fewer pages.
LEMMA RoundUpMonotone ==
    ASSUME NEW a \in Nat, NEW b \in Nat, a <= b PROVE RoundUp(a) <= RoundUp(b)
  BY UserMemoryAssumption, Z3 DEF RoundUp

\* A whole number of pages is rounded to itself.
LEMMA RoundUpWhole ==
    ASSUME NEW k \in Nat PROVE RoundUp(k * PAGE_SIZE) = k
  BY UserMemoryAssumption, Z3 DEF RoundUp
-----------------------------------------------------------------------------
(***************************************************************************)
(* What allocation and copying make of a page table.                       *)
(***************************************************************************)
\* A page table all of whose physical pages are numbered below f.
TableBelow(t, f) ==
    /\ DOMAIN t \subseteq Nat
    /\ t \in [DOMAIN t -> [frame : 0 .. f - 1, w : BOOLEAN, u : BOOLEAN]]

\* The type of an entry.
LEMMA EntryType ==
    ASSUME NEW S, NEW n \in S, NEW w \in BOOLEAN, NEW u \in BOOLEAN
    PROVE  [frame |-> n, w |-> w, u |-> u] \in [frame : S, w : BOOLEAN, u : BOOLEAN]
  OBVIOUS

\* The pages below a size are mapped.
Covers(t, size) == \A g \in Nat : g < RoundUp(size) => g \in DOMAIN t

\* allocateUserVirtualMemory keeps what is mapped and maps the pages up to the
\* new size, each to a physical page of its own that was not in use.
LEMMA AllocatedTable ==
    ASSUME NEW t, NEW old \in Nat, NEW new \in Nat, NEW w \in BOOLEAN,
           frames \in Nat, TableBelow(t, frames), OneToOne(t), Covers(t, old), old <= new
    PROVE  LET s == Allocated(t, old, new, w)
               f == FramesAfter(old, new)
           IN  /\ f \in Nat /\ frames <= f
               /\ TableBelow(s, f)
               /\ OneToOne(s)
               /\ Covers(s, new)
               /\ \A g \in DOMAIN s : \/ g \in DOMAIN t /\ s[g] = t[g]
                                      \/ s[g].frame >= frames /\ s[g].u = TRUE
<1> DEFINE s == Allocated(t, old, new, w)
           f == FramesAfter(old, new)
           a == RoundUp(old)
           b == RoundUp(new)
<1>1. a \in Nat /\ b \in Nat /\ a <= b
  BY RoundUpType, RoundUpMonotone
<1>2. /\ f \in Nat /\ frames <= f
      /\ f = frames + (b - a)
  BY <1>1 DEF FramesAfter
<1>3. GrownPages(old, new) = a .. b - 1
  BY DEF GrownPages
<1>4. /\ DOMAIN s = DOMAIN t \cup (a .. b - 1)
      /\ \A g \in DOMAIN s : g \in DOMAIN t => s[g] = t[g]
      /\ \A g \in DOMAIN s : g \notin DOMAIN t =>
            s[g] = [frame |-> frames + (g - a), w |-> w, u |-> TRUE]
      /\ s = [g \in DOMAIN s |-> s[g]]
  BY <1>3 DEF Allocated
<1> HIDE DEF s, f, a, b
<1>5. ASSUME NEW g \in DOMAIN s, g \notin DOMAIN t
      PROVE  /\ g \in a .. b - 1
             /\ s[g].frame = frames + (g - a) /\ s[g].u = TRUE
             /\ s[g] \in [frame : 0 .. f - 1, w : BOOLEAN, u : BOOLEAN]
  <2>1. g \in a .. b - 1
    BY <1>4, <1>5
  <2>2. s[g] = [frame |-> frames + (g - a), w |-> w, u |-> TRUE]
    BY <1>4, <1>5
  <2>3. frames + (g - a) \in 0 .. f - 1
    BY <1>1, <1>2, <2>1
  <2>4. s[g] \in [frame : 0 .. f - 1, w : BOOLEAN, u : BOOLEAN]
    BY <2>2, <2>3, EntryType
  <2>5. s[g].frame = frames + (g - a) /\ s[g].u = TRUE
    BY <2>2
  <2> QED
    BY <2>1, <2>4, <2>5
<1>6. \A g \in DOMAIN s : g \in DOMAIN t =>
         s[g] \in [frame : 0 .. f - 1, w : BOOLEAN, u : BOOLEAN] /\ s[g].frame < frames
  BY <1>1, <1>2, <1>4 DEF TableBelow
<1>7. \A g \in DOMAIN s : g \notin DOMAIN t =>
          g \in a .. b - 1 /\ s[g].frame = frames + (g - a) /\ s[g].u = TRUE
  BY <1>5
<1>8. \A g \in DOMAIN s : g \in DOMAIN t => s[g].frame \in 0 .. frames - 1
  BY <1>4 DEF TableBelow
<1>9. TableBelow(s, f)
  <2>1. DOMAIN s \subseteq Nat
    BY <1>1, <1>4 DEF TableBelow
  <2>2. \A g \in DOMAIN s : s[g] \in [frame : 0 .. f - 1, w : BOOLEAN, u : BOOLEAN]
    BY <1>2, <1>5, <1>6
  <2> QED
    BY <1>4, <2>1, <2>2 DEF TableBelow
<1>10. OneToOne(s)
  <2> SUFFICES ASSUME NEW g \in DOMAIN s, NEW h \in DOMAIN s, s[g].frame = s[h].frame
               PROVE  g = h
    BY DEF OneToOne
  <2>1. CASE g \in DOMAIN t /\ h \in DOMAIN t
    BY <2>1, <1>4 DEF OneToOne
  <2>2. CASE g \notin DOMAIN t /\ h \notin DOMAIN t
    <3>1. g \in a .. b - 1 /\ h \in a .. b - 1
      BY <2>2, <1>7
    <3>2. frames + (g - a) = frames + (h - a)
      BY <2>2, <1>7
    <3>3. g \in Int /\ h \in Int
      BY <1>1, <3>1
    <3> QED
      BY <1>1, <3>2, <3>3
  <2>3. CASE g \in DOMAIN t /\ h \notin DOMAIN t
    <3>1. s[g].frame \in 0 .. frames - 1
      BY <2>3, <1>8
    <3>2. h \in a .. b - 1 /\ s[h].frame = frames + (h - a)
      BY <2>3, <1>7
    <3> QED
      BY <1>1, <3>1, <3>2
  <2>4. CASE g \notin DOMAIN t /\ h \in DOMAIN t
    <3>1. s[h].frame \in 0 .. frames - 1
      BY <2>4, <1>8
    <3>2. g \in a .. b - 1 /\ s[g].frame = frames + (g - a)
      BY <2>4, <1>7
    <3> QED
      BY <1>1, <3>1, <3>2
  <2> QED
    BY <2>1, <2>2, <2>3, <2>4
<1>11. Covers(s, new)
  <2> SUFFICES ASSUME NEW g \in Nat, g < b PROVE g \in DOMAIN s
    BY DEF Covers, b
  <2> QED
    BY <1>1, <1>4 DEF Covers, a
<1>12. \A g \in DOMAIN s : \/ g \in DOMAIN t /\ s[g] = t[g]
                           \/ s[g].frame >= frames /\ s[g].u = TRUE
  BY <1>1, <1>4, <1>7
<1> QED
  BY <1>2, <1>9, <1>10, <1>11, <1>12 DEF s, f

\* copyUserVirtualMemory maps the same pages to physical pages not in use.
LEMMA CopiedTable ==
    ASSUME NEW t, NEW size \in Nat,
           frames \in Nat, TableBelow(t, frames), Covers(t, size)
    PROVE  LET s == Copied(t, size)
               f == frames + RoundUp(size)
           IN  /\ f \in Nat /\ frames <= f
               /\ TableBelow(s, f)
               /\ OneToOne(s)
               /\ Covers(s, size)
               /\ \A g \in DOMAIN s : s[g].frame >= frames
<1> DEFINE s == Copied(t, size)
           b == RoundUp(size)
<1>1. b \in Nat
  BY RoundUpType
<1>2. /\ DOMAIN s = 0 .. b - 1
      /\ s = [g \in DOMAIN s |-> s[g]]
      /\ \A g \in DOMAIN s : s[g] = [t[g] EXCEPT !.frame = frames + g]
  BY DEF Copied
<1> HIDE DEF s, b
<1>3. \A g \in DOMAIN s : t[g] \in [frame : 0 .. frames - 1, w : BOOLEAN, u : BOOLEAN]
  BY <1>1, <1>2 DEF TableBelow, Covers, b
<1>4. ASSUME NEW g \in DOMAIN s
      PROVE  /\ g \in Nat /\ s[g].frame = frames + g
             /\ s[g] \in [frame : 0 .. frames + b - 1, w : BOOLEAN, u : BOOLEAN]
  <2>1. g \in Nat /\ frames + g \in 0 .. frames + b - 1
    BY <1>1, <1>2
  <2>2. t[g] \in [frame : 0 .. frames - 1, w : BOOLEAN, u : BOOLEAN]
    BY <1>3
  <2>3. s[g] = [frame |-> frames + g, w |-> t[g].w, u |-> t[g].u]
    BY <1>2, <2>2
  <2>4. s[g] \in [frame : 0 .. frames + b - 1, w : BOOLEAN, u : BOOLEAN]
    <3>1. t[g].w \in BOOLEAN /\ t[g].u \in BOOLEAN
      BY <2>2
    <3> QED
      BY <2>1, <2>3, <3>1, EntryType
  <2> QED
    BY <2>1, <2>3, <2>4
<1>5. TableBelow(s, frames + b)
  BY <1>1, <1>2, <1>4 DEF TableBelow
<1>6. OneToOne(s)
  BY <1>1, <1>2, <1>4 DEF OneToOne
<1>7. Covers(s, size)
  BY <1>1, <1>2 DEF Covers, b
<1>8. \A g \in DOMAIN s : s[g].frame >= frames
  BY <1>1, <1>2, <1>4
<1> QED
  BY <1>1, <1>5, <1>6, <1>7, <1>8 DEF s, b
-----------------------------------------------------------------------------
(***************************************************************************)
(* The inductive invariant: the tables cover the sizes, hold physical      *)
(* pages that have been allocated, and share none.                         *)
(***************************************************************************)
Safe(T, N, M, S, f) ==
    /\ DOMAIN T = Procs /\ DOMAIN N = Procs
    /\ M \in [Procs -> Nat] /\ S \in [Procs -> Nat]
    /\ \A p \in Procs : TableBelow(T[p], f) /\ OneToOne(T[p]) /\ Covers(T[p], M[p])
    /\ \A p \in Procs : TableBelow(N[p], f) /\ OneToOne(N[p]) /\ Covers(N[p], S[p])
    /\ \A p \in Procs : \A g \in DOMAIN N[p] : N[p][g].u = TRUE
    /\ \A p, q \in Procs : /\ Apart(T[p], N[q])
                           /\ p # q => Apart(T[p], T[q]) /\ Apart(N[p], N[q])

\* The frames of t are frames of s or not below f.
Extends(t, s, f) ==
    \A g \in DOMAIN t : \/ g \in DOMAIN s /\ t[g].frame = s[g].frame
                        \/ t[g].frame >= f

\* What is apart from a table is apart from what extends it.
LEMMA ApartExtends ==
    ASSUME NEW s, NEW t, NEW r, NEW f \in Nat,
           Extends(t, s, f), TableBelow(r, f), Apart(s, r)
    PROVE  Apart(t, r) /\ Apart(r, t)
<1>1. \A h \in DOMAIN r : r[h].frame \in Nat /\ r[h].frame < f
  BY DEF TableBelow
<1> SUFFICES ASSUME NEW g \in DOMAIN t, NEW h \in DOMAIN r PROVE t[g].frame # r[h].frame
  BY DEF Apart
<1>2. CASE g \in DOMAIN s /\ t[g].frame = s[g].frame
  BY <1>2 DEF Apart
<1>3. CASE t[g].frame >= f
  BY <1>1, <1>3
<1> QED
  BY <1>2, <1>3 DEF Extends

\* A table below f is below any larger number.
LEMMA TableBelowLarger ==
    ASSUME NEW t, NEW f \in Nat, NEW e \in Nat, f <= e, TableBelow(t, f)
    PROVE  TableBelow(t, e)
<1>1. 0 .. f - 1 \subseteq 0 .. e - 1
  OBVIOUS
<1> QED
  BY <1>1, Zenon DEF TableBelow

\* A table that is empty is apart from every other.
LEMMA EmptyTable ==
    ASSUME NEW f \in Nat
    PROVE  /\ DOMAIN Empty = {}
           /\ TableBelow(Empty, f) /\ OneToOne(Empty) /\ Covers(Empty, 0)
<1>1. DOMAIN Empty = {}
  BY DEF Empty
<1>2. TableBelow(Empty, f)
  BY <1>1 DEF Empty, TableBelow
<1>3. RoundUp(0) = 0
  BY UserMemoryAssumption, Z3 DEF RoundUp
<1> QED
  BY <1>1, <1>2, <1>3 DEF OneToOne, Covers

\* One table may be replaced by an extension of it or of an empty one.
LEMMA ReplaceTable ==
    ASSUME NEW T, NEW N, NEW M, NEW S, NEW f \in Nat, Safe(T, N, M, S, f),
           NEW p \in Procs, NEW t, NEW m \in Nat, NEW e \in Nat, f <= e,
           TableBelow(t, e), OneToOne(t), Covers(t, m), Extends(t, T[p], f)
    PROVE  Safe([T EXCEPT ![p] = t], N, [M EXCEPT ![p] = m], S, e)
<1> DEFINE U == [T EXCEPT ![p] = t]
<1>1. DOMAIN U = Procs /\ U[p] = t /\ \A q \in Procs : q # p => U[q] = T[q]
  BY DEF Safe
<1>2. \A q \in Procs : TableBelow(T[q], e) /\ TableBelow(N[q], e)
  BY TableBelowLarger DEF Safe
<1>3. \A q \in Procs : Apart(t, N[q])
  BY ApartExtends DEF Safe
<1>4. \A q \in Procs : q # p => Apart(t, T[q]) /\ Apart(T[q], t)
  BY ApartExtends DEF Safe
<1>5. \A q \in Procs : TableBelow(U[q], e) /\ OneToOne(U[q])
                          /\ Covers(U[q], [M EXCEPT ![p] = m][q])
  BY <1>1, <1>2 DEF Safe
<1>6. \A q, r \in Procs : Apart(U[q], N[r]) /\ (q # r => Apart(U[q], U[r]))
  BY <1>1, <1>3, <1>4 DEF Safe
<1> HIDE DEF U
<1>7. Safe(U, N, [M EXCEPT ![p] = m], S, e)
  BY <1>1, <1>2, <1>5, <1>6 DEF Safe
<1> QED
  BY <1>7 DEF U

\* The same for the table that exec builds.
LEMMA ReplaceNewTable ==
    ASSUME NEW T, NEW N, NEW M, NEW S, NEW f \in Nat, Safe(T, N, M, S, f),
           NEW p \in Procs, NEW t, NEW m \in Nat, NEW e \in Nat, f <= e,
           TableBelow(t, e), OneToOne(t), Covers(t, m), Extends(t, N[p], f),
           \A g \in DOMAIN t : t[g].u = TRUE
    PROVE  Safe(T, [N EXCEPT ![p] = t], M, [S EXCEPT ![p] = m], e)
<1> DEFINE U == [N EXCEPT ![p] = t]
<1>1. DOMAIN U = Procs /\ U[p] = t /\ \A q \in Procs : q # p => U[q] = N[q]
  BY DEF Safe
<1>2. \A q \in Procs : TableBelow(T[q], e) /\ TableBelow(N[q], e)
  BY TableBelowLarger DEF Safe
<1>3. \A q \in Procs : Apart(N[p], T[q])
  BY DEF Safe, Apart
<1>4. \A q \in Procs : Apart(T[q], t)
  BY <1>3, ApartExtends DEF Safe
<1>5. \A q \in Procs : q # p => Apart(t, N[q]) /\ Apart(N[q], t)
  BY ApartExtends DEF Safe
<1>6. \A q \in Procs : TableBelow(U[q], e) /\ OneToOne(U[q])
                          /\ Covers(U[q], [S EXCEPT ![p] = m][q])
  BY <1>1, <1>2 DEF Safe
<1>7. \A q \in Procs : \A g \in DOMAIN U[q] : U[q][g].u = TRUE
  BY <1>1 DEF Safe
<1>8. \A q, r \in Procs : Apart(T[q], U[r]) /\ (q # r => Apart(U[q], U[r]))
  BY <1>1, <1>4, <1>5 DEF Safe
<1> HIDE DEF U
<1>9. Safe(T, U, M, [S EXCEPT ![p] = m], e)
  BY <1>1, <1>2, <1>6, <1>7, <1>8 DEF Safe
<1> QED
  BY <1>9 DEF U

\* The table that exec has built may be dropped.
LEMMA DropNewTable ==
    ASSUME NEW T, NEW N, NEW M, NEW S, NEW f \in Nat, Safe(T, N, M, S, f), NEW p \in Procs
    PROVE  Safe(T, [N EXCEPT ![p] = Empty], M, [S EXCEPT ![p] = 0], f)
<1>1. Extends(Empty, N[p], f) /\ \A g \in DOMAIN Empty : Empty[g].u = TRUE
  BY EmptyTable DEF Extends
<1>2. f <= f /\ 0 \in Nat
  OBVIOUS
<1>3. TableBelow(Empty, f) /\ OneToOne(Empty) /\ Covers(Empty, 0)
  BY EmptyTable
<1> QED
  BY <1>1, <1>2, <1>3, ReplaceNewTable, Zenon

\* It may be installed, extended, in the place of the old one.
LEMMA InstallTable ==
    ASSUME NEW T, NEW N, NEW M, NEW S, NEW f \in Nat, Safe(T, N, M, S, f),
           NEW p \in Procs, NEW t, NEW m \in Nat, NEW e \in Nat, f <= e,
           TableBelow(t, e), OneToOne(t), Covers(t, m), Extends(t, N[p], f)
    PROVE  Safe([T EXCEPT ![p] = t], [N EXCEPT ![p] = Empty],
                [M EXCEPT ![p] = m], [S EXCEPT ![p] = 0], e)
<1> DEFINE U == [T EXCEPT ![p] = t]
           V == [N EXCEPT ![p] = Empty]
<1>1. /\ DOMAIN U = Procs /\ U[p] = t /\ \A q \in Procs : q # p => U[q] = T[q]
      /\ DOMAIN V = Procs /\ V[p] = Empty /\ \A q \in Procs : q # p => V[q] = N[q]
  BY DEF Safe
<1>2. \A q \in Procs : TableBelow(T[q], e) /\ TableBelow(N[q], e)
  BY TableBelowLarger DEF Safe
<1>3. \A q \in Procs : Apart(N[p], T[q])
  BY DEF Safe, Apart
<1>4. \A q \in Procs : Apart(T[q], t) /\ Apart(t, T[q])
  BY <1>3, ApartExtends DEF Safe
<1>5. \A q \in Procs : q # p => Apart(t, N[q])
  BY ApartExtends DEF Safe
<1>6. \A q \in Procs : TableBelow(U[q], e) /\ OneToOne(U[q])
                          /\ Covers(U[q], [M EXCEPT ![p] = m][q])
  BY <1>1, <1>2 DEF Safe
<1>7. \A q \in Procs : TableBelow(V[q], e) /\ OneToOne(V[q])
                          /\ Covers(V[q], [S EXCEPT ![p] = 0][q])
  BY <1>1, <1>2, EmptyTable DEF Safe
<1>8. \A q \in Procs : \A g \in DOMAIN V[q] : V[q][g].u = TRUE
  BY <1>1, EmptyTable DEF Safe
<1>9. \A q \in Procs : \A r : Apart(r, Empty) /\ Apart(Empty, r)
  BY EmptyTable DEF Apart
<1>10. \A q, r \in Procs : /\ Apart(U[q], V[r])
                           /\ q # r => Apart(U[q], U[r]) /\ Apart(V[q], V[r])
  BY <1>1, <1>4, <1>5, <1>9 DEF Safe
<1> HIDE DEF U, V
<1>11. Safe(U, V, [M EXCEPT ![p] = m], [S EXCEPT ![p] = 0], e)
  BY <1>1, <1>6, <1>7, <1>8, <1>10 DEF Safe
<1> QED
  BY <1>11 DEF U, V
-----------------------------------------------------------------------------
IInv ==
    /\ Safe(table, newTable, memorySize, newSize, frames)
    /\ segments \in [Procs -> 0 .. MaxSegments]
    /\ pc \in [Procs -> {"none", "user", "exec"}]
    /\ frames \in 1 .. NumFrames
    /\ panic \in {"no", "map", "memory"}

\* The invariant holds at the start.
LEMMA InitSafe == Init => IInv
<1> SUFFICES ASSUME Init PROVE IInv
  OBVIOUS
<1> USE DEF Init
<1> DEFINE t == [g \in {0} |-> [frame |-> 0, w |-> TRUE, u |-> TRUE]]
<1>1. RoundUp(PAGE_SIZE) = 1
  BY UserMemoryAssumption, Z3 DEF RoundUp
<1>2. TableBelow(t, 1) /\ OneToOne(t) /\ Covers(t, PAGE_SIZE)
  BY <1>1 DEF TableBelow, OneToOne, Covers
<1>3. TableBelow(Empty, 1) /\ OneToOne(Empty) /\ Covers(Empty, 0) /\ DOMAIN Empty = {}
  BY EmptyTable
<1> HIDE DEF t
<1>4. \A r : Apart(r, Empty) /\ Apart(Empty, r)
  BY EmptyTable DEF Apart
<1>5. /\ table = [p \in Procs |-> IF p = InitProc THEN t ELSE Empty]
      /\ newTable = [p \in Procs |-> Empty]
  BY DEF t
<1>6. memorySize \in [Procs -> Nat] /\ newSize \in [Procs -> Nat]
  BY UserMemoryAssumption
<1>7. Safe(table, newTable, memorySize, newSize, frames)
  BY <1>2, <1>3, <1>4, <1>5, <1>6 DEF Safe
<1> QED
  BY <1>7, UserMemoryAssumption DEF IInv

\* An allocation that does not stop the kernel finds the physical pages.
LEMMA AllocateFits ==
    ASSUME NEW t, NEW old \in Nat, NEW new \in Nat, frames \in 1 .. NumFrames,
           AllocatePanics(t, old, new) = "no"
    PROVE  FramesAfter(old, new) \in 1 .. NumFrames
  BY RoundUpType, UserMemoryAssumption DEF AllocatePanics, FramesAfter

\* The growth of memory on a store fault.
LEMMA StoreFaultSafe ==
    ASSUME IInv, panic = "no", NEW p \in Procs, NEW a \in Addresses, StoreFault(p, a)
    PROVE  IInv'
<1> DEFINE old == memorySize[p]
           s == Allocated(table[p], old, a, TRUE)
           e == FramesAfter(old, a)
<1>1. a \in Nat /\ old \in Nat /\ frames \in Nat
  BY UserMemoryAssumption DEF Addresses, IInv, Safe
<1>2. UNCHANGED <<pc, newTable, newSize, segments>> /\ GrowMemory(p, a)
  BY DEF StoreFault
<1>3. TableBelow(table[p], frames) /\ OneToOne(table[p]) /\ Covers(table[p], old)
  BY DEF IInv, Safe
<1>4. CASE a > old /\ AllocatePanics(table[p], old, a) # "no"
  <2>1. /\ UNCHANGED <<table, frames, memorySize>>
        /\ panic' \in {"map", "memory"}
    BY <1>2, <1>4 DEF GrowMemory, AllocatePanics
  <2> QED
    BY <1>2, <2>1 DEF IInv
<1>5. CASE a > old /\ AllocatePanics(table[p], old, a) = "no"
  <2>1. /\ table' = [table EXCEPT ![p] = s]
        /\ frames' = e
        /\ memorySize' = [memorySize EXCEPT ![p] = a]
        /\ panic' = "no"
    BY <1>2, <1>5 DEF GrowMemory
  <2>2. /\ e \in Nat /\ frames <= e
        /\ TableBelow(s, e) /\ OneToOne(s) /\ Covers(s, a)
        /\ \A g \in DOMAIN s : \/ g \in DOMAIN table[p] /\ s[g] = table[p][g]
                               \/ s[g].frame >= frames /\ s[g].u = TRUE
    <3>1. old <= a /\ TRUE \in BOOLEAN
      BY <1>1, <1>5
    <3> QED
      BY <1>1, <1>3, <3>1, AllocatedTable, Zenon
  <2>3. e \in 1 .. NumFrames
    BY <1>1, <1>5, AllocateFits DEF IInv
  <2> HIDE DEF s, e
  <2>4. Extends(s, table[p], frames)
    BY <2>2 DEF Extends
  <2>5. Safe([table EXCEPT ![p] = s], newTable, [memorySize EXCEPT ![p] = a], newSize, e)
    BY <1>1, <2>2, <2>4, ReplaceTable DEF IInv
  <2> QED
    BY <1>2, <2>1, <2>3, <2>5 DEF IInv
<1>6. CASE ~(a > old)
  <2>1. /\ table' = [table EXCEPT ![p] = table[p]]
        /\ frames' = frames
        /\ memorySize' = [memorySize EXCEPT ![p] = a]
        /\ panic' = "no"
    <3>1. FramesAfter(old, a) = frames
      BY <1>1, <1>6, RoundUpType, RoundUpMonotone DEF FramesAfter
    <3> QED
      BY <1>2, <1>6, <3>1 DEF GrowMemory
  <2>2. Covers(table[p], a)
    <3>1. RoundUp(a) <= RoundUp(old) /\ RoundUp(a) \in Nat /\ RoundUp(old) \in Nat
      BY <1>1, <1>6, RoundUpType, RoundUpMonotone
    <3> QED
      BY <1>3, <3>1 DEF Covers
  <2>3. Extends(table[p], table[p], frames)
    BY DEF Extends
  <2>4. frames <= frames
    BY <1>1
  <2>5. Safe(table', newTable, memorySize', newSize, frames)
    BY <1>1, <1>3, <2>1, <2>2, <2>3, <2>4, ReplaceTable DEF IInv
  <2> QED
    BY <1>2, <2>1, <2>5 DEF IInv
<1> QED
  BY <1>4, <1>5, <1>6

\* fork.
LEMMA ForkSafe ==
    ASSUME IInv, panic = "no", NEW p \in Procs, NEW q \in Procs, Fork(p, q)
    PROVE  IInv'
<1> DEFINE size == memorySize[p]
           s == Copied(table[p], size)
           e == frames + RoundUp(size)
<1>1. size \in Nat /\ frames \in Nat /\ RoundUp(size) \in Nat
  BY RoundUpType DEF IInv, Safe
<1>2. TableBelow(table[p], frames) /\ Covers(table[p], size)
  BY DEF IInv, Safe
<1>3. 0 .. RoundUp(size) - 1 \subseteq DOMAIN table[p]
  BY <1>1, <1>2 DEF Covers
<1>4. panic' = CopyPanics(table[p], size) /\ UNCHANGED <<newTable, newSize, segments>>
  BY DEF Fork
<1>5. CASE panic' # "no"
  <2>1. panic' = "memory"
    BY <1>3, <1>4, <1>5 DEF CopyPanics
  <2>2. UNCHANGED <<table, memorySize, frames, pc>>
    BY <1>5 DEF Fork
  <2> QED
    BY <1>4, <2>1, <2>2 DEF IInv
<1>6. CASE panic' = "no"
  <2>1. /\ table' = [table EXCEPT ![q] = s]
        /\ memorySize' = [memorySize EXCEPT ![q] = size]
        /\ frames' = e
        /\ pc' = [pc EXCEPT ![q] = "user"]
    BY <1>6 DEF Fork
  <2>2. e \in 1 .. NumFrames
    BY <1>1, <1>3, <1>4, <1>6, UserMemoryAssumption DEF CopyPanics, IInv
  <2>3. /\ e \in Nat /\ frames <= e
        /\ TableBelow(s, e) /\ OneToOne(s) /\ Covers(s, size)
        /\ \A g \in DOMAIN s : s[g].frame >= frames
    BY <1>1, <1>2, CopiedTable
  <2> HIDE DEF s, e
  <2>4. Extends(s, table[q], frames)
    BY <2>3 DEF Extends
  <2>5. Safe([table EXCEPT ![q] = s], newTable, [memorySize EXCEPT ![q] = size], newSize, e)
    BY <1>1, <2>3, <2>4, ReplaceTable DEF IInv
  <2> QED
    BY <1>4, <1>6, <2>1, <2>2, <2>5 DEF IInv
<1> QED
  BY <1>5, <1>6

\* exec maps a segment.
LEMMA ExecSegmentSafe ==
    ASSUME IInv, panic = "no", NEW p \in Procs, NEW v \in 0 .. MaxPages,
           NEW end \in Addresses, NEW fileEnd \in Addresses, NEW w \in BOOLEAN,
           ExecSegment(p, v, end, fileEnd, w)
    PROVE  IInv'
<1> DEFINE old == newSize[p]
           t == newTable[p]
           s == Allocated(t, old, end, w)
           e == FramesAfter(old, end)
<1>1. /\ end \in Nat /\ fileEnd \in Nat /\ old \in Nat /\ frames \in Nat /\ v \in Nat
      /\ fileEnd <= end
  BY UserMemoryAssumption DEF Addresses, IInv, Safe, ExecSegment
<1>2. /\ TableBelow(t, frames) /\ OneToOne(t) /\ Covers(t, old)
      /\ \A g \in DOMAIN t : t[g].u = TRUE
  BY DEF IInv, Safe
<1>3. UNCHANGED <<table, memorySize, pc>>
  BY DEF ExecSegment
<1>4. ASSUME NEW r, NEW size \in Nat, fileEnd <= size, Covers(r, size),
             \A g \in DOMAIN r : r[g].u = TRUE
      PROVE  LoadPanics(r, v, fileEnd) = "no"
  <2>1. RoundUp(fileEnd) <= RoundUp(size) /\ RoundUp(fileEnd) \in Nat /\ RoundUp(size) \in Nat
    BY <1>1, <1>4, RoundUpType, RoundUpMonotone
  <2>2. \A g \in v .. RoundUp(fileEnd) - 1 : g \in Nat /\ g < RoundUp(size)
    BY <1>1, <2>1
  <2> QED
    BY <1>4, <2>2 DEF LoadPanics, Covers
<1>5. CASE end < old
  <2>1. fileEnd <= old
    BY <1>1, <1>5
  <2>2. LoadPanics(t, v, fileEnd) = "no"
    BY <1>1, <1>2, <1>4, <2>1
  <2>3. /\ newTable' = [newTable EXCEPT ![p] = t]
        /\ newSize' = [newSize EXCEPT ![p] = old]
        /\ frames' = frames
        /\ segments' = [segments EXCEPT ![p] = @ + 1]
        /\ panic' = "no"
    BY <1>5, <2>2 DEF ExecSegment
  <2>4. Safe(table, newTable', memorySize, newSize', frames)
    <3>1. Extends(t, t, frames) /\ frames <= frames
      BY <1>1 DEF Extends
    <3> QED
      BY <1>1, <1>2, <2>3, <3>1, ReplaceNewTable DEF IInv
  <2>5. segments' \in [Procs -> 0 .. MaxSegments]
    BY <2>3, UserMemoryAssumption DEF ExecSegment, IInv
  <2> QED
    BY <1>3, <2>3, <2>4, <2>5 DEF IInv
<1>6. CASE ~(end < old) /\ AllocatePanics(t, old, end) # "no"
  <2>1. UNCHANGED <<newTable, newSize, frames, segments>> /\ panic' \in {"map", "memory"}
    BY <1>6 DEF ExecSegment, AllocatePanics
  <2> QED
    BY <1>3, <2>1 DEF IInv
<1>7. CASE ~(end < old) /\ AllocatePanics(t, old, end) = "no"
  <2>1. old <= end
    BY <1>1, <1>7
  <2>2. /\ e \in Nat /\ frames <= e
        /\ TableBelow(s, e) /\ OneToOne(s) /\ Covers(s, end)
        /\ \A g \in DOMAIN s : \/ g \in DOMAIN t /\ s[g] = t[g]
                               \/ s[g].frame >= frames /\ s[g].u = TRUE
    BY <1>1, <1>2, <2>1, AllocatedTable, Zenon
  <2>3. e \in 1 .. NumFrames
    BY <1>1, <1>7, AllocateFits DEF IInv
  <2>4. /\ panic' = LoadPanics(s, v, fileEnd)
        /\ panic' = "no" => /\ newTable' = [newTable EXCEPT ![p] = s]
                            /\ newSize' = [newSize EXCEPT ![p] = end]
                            /\ frames' = e
                            /\ segments' = [segments EXCEPT ![p] = @ + 1]
    BY <1>7 DEF ExecSegment
  <2> HIDE DEF s, e
  <2>5. \A g \in DOMAIN s : s[g].u = TRUE
    BY <1>2, <2>2
  <2>6. panic' = "no"
    BY <1>1, <1>4, <2>2, <2>4, <2>5
  <2>7. Extends(s, t, frames)
    BY <2>2 DEF Extends
  <2>8. Safe(table, [newTable EXCEPT ![p] = s], memorySize, [newSize EXCEPT ![p] = end], e)
    BY <1>1, <2>2, <2>5, <2>7, ReplaceNewTable DEF IInv
  <2>9. segments' \in [Procs -> 0 .. MaxSegments]
    BY <2>4, <2>6, UserMemoryAssumption DEF ExecSegment, IInv
  <2> QED
    BY <1>3, <2>3, <2>4, <2>6, <2>8, <2>9 DEF IInv
<1> QED
  BY <1>5, <1>6, <1>7

\* exec adds the guard page and the stack and installs the table.
LEMMA ExecDoneSafe ==
    ASSUME IInv, panic = "no", NEW p \in Procs, ExecDone(p)
    PROVE  IInv'
<1> DEFINE k == RoundUp(newSize[p])
           old == k * PAGE_SIZE
           new == old + 2 * PAGE_SIZE
           t == newTable[p]
           s == Allocated(t, old, new, TRUE)
           r == [s EXCEPT ![RoundUp(new) - 2].u = FALSE]
           e == FramesAfter(old, new)
<1>1. frames \in Nat /\ newSize[p] \in Nat /\ k \in Nat
  BY RoundUpType DEF IInv, Safe
<1>2. old \in Nat /\ new \in Nat /\ old <= new /\ new = (k + 2) * PAGE_SIZE
  BY <1>1, UserMemoryAssumption, Z3
<1>3. RoundUp(old) = k /\ RoundUp(new) = k + 2
  BY <1>1, <1>2, RoundUpWhole
<1>4. TableBelow(t, frames) /\ OneToOne(t) /\ Covers(t, old)
  BY <1>3 DEF IInv, Safe, Covers
<1>5. CASE AllocatePanics(t, old, new) # "no"
  <2>1. /\ UNCHANGED <<table, memorySize, frames, pc, newTable, newSize, segments>>
        /\ panic' \in {"map", "memory"}
    BY <1>5 DEF ExecDone, AllocatePanics
  <2> QED
    BY <2>1 DEF IInv
<1>6. CASE AllocatePanics(t, old, new) = "no"
  <2>1. /\ table' = [table EXCEPT ![p] = r]
        /\ memorySize' = [memorySize EXCEPT ![p] = new]
        /\ frames' = e
        /\ ExecReturns(p)
        /\ panic' = "no"
    BY <1>6 DEF ExecDone
  <2>2. /\ e \in Nat /\ frames <= e
        /\ TableBelow(s, e) /\ OneToOne(s) /\ Covers(s, new)
        /\ \A g \in DOMAIN s : \/ g \in DOMAIN t /\ s[g] = t[g]
                               \/ s[g].frame >= frames /\ s[g].u = TRUE
    <3>1. TRUE \in BOOLEAN
      OBVIOUS
    <3> QED
      BY <1>1, <1>2, <1>4, <3>1, AllocatedTable, Zenon
  <2>3. e \in 1 .. NumFrames
    BY <1>1, <1>2, <1>6, AllocateFits DEF IInv
  <2> HIDE DEF s, e, old, new, k, t
  <2>4. /\ DOMAIN r = DOMAIN s
        /\ \A g \in DOMAIN s : r[g] = s[g] \/ r[g] = [s[g] EXCEPT !.u = FALSE]
        /\ r = [g \in DOMAIN s |-> r[g]]
    OBVIOUS
  <2> HIDE DEF r
  <2>5. \A g \in DOMAIN s : s[g] \in [frame : 0 .. e - 1, w : BOOLEAN, u : BOOLEAN]
    BY <2>2 DEF TableBelow
  <2>6. \A g \in DOMAIN s :
           /\ r[g] \in [frame : 0 .. e - 1, w : BOOLEAN, u : BOOLEAN]
           /\ r[g].frame = s[g].frame
    BY <2>4, <2>5
  <2>7. TableBelow(r, e) /\ OneToOne(r) /\ Covers(r, new)
    BY <2>2, <2>4, <2>6 DEF TableBelow, OneToOne, Covers
  <2>8. Extends(r, t, frames)
    BY <2>2, <2>4, <2>6 DEF Extends
  <2>9. Safe([table EXCEPT ![p] = r], [newTable EXCEPT ![p] = Empty],
             [memorySize EXCEPT ![p] = new], [newSize EXCEPT ![p] = 0], e)
    BY <1>1, <1>2, <2>2, <2>7, <2>8, InstallTable DEF IInv, t
  <2> QED
    BY <2>1, <2>3, <2>9, UserMemoryAssumption DEF IInv, ExecReturns
<1> QED
  BY <1>5, <1>6

\* Every step keeps the invariant.
LEMMA NextSafe == IInv /\ [Next]_vars => IInv'
<1> SUFFICES ASSUME IInv, [Next]_vars PROVE IInv'
  OBVIOUS
<1>1. CASE UNCHANGED vars
  BY <1>1 DEF IInv, vars
<1>2. CASE Next
  <2>1. panic = "no"
    BY <1>2 DEF Next
  <2>2. PICK p \in Procs :
           \/ \E a \in Addresses : StoreFault(p, a)
           \/ \E q \in Procs : Fork(p, q)
           \/ Exec(p)
           \/ \E v \in 0 .. MaxPages, end, fileEnd \in Addresses, w \in BOOLEAN :
                 ExecSegment(p, v, end, fileEnd, w)
           \/ ExecDone(p)
           \/ ExecFails(p)
    BY <1>2 DEF Next
  <2>3. CASE \E a \in Addresses : StoreFault(p, a)
    BY <2>1, <2>3, StoreFaultSafe
  <2>4. CASE \E q \in Procs : Fork(p, q)
    BY <2>1, <2>4, ForkSafe
  <2>5. CASE Exec(p)
    BY <2>5 DEF Exec, IInv
  <2>6. CASE \E v \in 0 .. MaxPages, end, fileEnd \in Addresses, w \in BOOLEAN :
                ExecSegment(p, v, end, fileEnd, w)
    BY <2>1, <2>6, ExecSegmentSafe
  <2>7. CASE ExecDone(p)
    BY <2>1, <2>7, ExecDoneSafe
  <2>8. CASE ExecFails(p)
    <3>1. frames \in Nat
      BY DEF IInv
    <3>2. Safe(table, [newTable EXCEPT ![p] = Empty], memorySize,
               [newSize EXCEPT ![p] = 0], frames)
      BY <3>1, DropNewTable DEF IInv
    <3> QED
      BY <2>8, <3>2, UserMemoryAssumption DEF ExecFails, ExecReturns, IInv
  <2> QED
    BY <2>2, <2>3, <2>4, <2>5, <2>6, <2>7, <2>8
<1> QED
  BY <1>1, <1>2

\* The inductive invariant holds.
LEMMA Invariant == Spec => []IInv
  BY InitSafe, NextSafe, PTL DEF Spec

\* The assertions of copyUserVirtualMemory and loadSegment never fail: below its
\* size a process has every page, for any number of processes, any page size, any
\* amount of memory and any programs.
THEOREM UserMemoryCopyFindsPages == Spec => []CopyFindsPages
<1>1. IInv => CopyFindsPages
  BY DEF IInv, Safe, CopyFindsPages
<1> QED
  BY <1>1, Invariant, PTL

\* No physical page is mapped at two places, in one page table or in two, whatever
\* fork, exec, growing and exit do and wherever memory runs out.
THEOREM UserMemoryFramesUnshared == Spec => []FramesUnshared
<1>1. IInv => FramesUnshared
  BY DEF IInv, Safe, FramesUnshared
<1> QED
  BY <1>1, Invariant, PTL

\* The state keeps its type.
THEOREM UserMemoryTypeCorrect == Spec => []TypeOK
<1>1. IInv => TypeOK
  BY DEF IInv, Safe, TypeOK, IsTable, TableBelow
<1> QED
  BY <1>1, Invariant, PTL
=============================================================================
