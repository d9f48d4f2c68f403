---------------------------- MODULE VirtioProofs ----------------------------
(***************************************************************************)
(* For every number of processes and every number of descriptors that is   *)
(* no multiple of three, diskrw keeps account of the descriptors, never    *)
(* goes on without a chain, never sleeps through a wakeup, and returns     *)
(* only with its data; and the handler finds what the device has answered. *)
(***************************************************************************)
EXTENDS Virtio, FiniteSetTheorems, TLAPS

\* Zenon proves most leaves; those that reason about numbers, sequences or
\* functions cite SMT.
USE ZenonT(30)

(***************************************************************************)
(* The inductive invariant.  DriverTypes is the part of TypeOK the         *)
(* argument needs; Linked says how a call's chain lies in the descriptor   *)
(* table; the count makes the sum of DescriptorsAccounted inductive.       *)
(***************************************************************************)
DriverTypes ==
    /\ free \subseteq Desc
    /\ next \in [Desc -> Desc \cup {Nil}]
    /\ busy \in [Procs -> BOOLEAN]
    /\ pc \in [Procs -> PCs]
    /\ index \in [Procs -> Desc \X Desc \X Desc]

Linked(p) ==
    /\ index[p][1] # index[p][2] /\ index[p][1] # index[p][3] /\ index[p][2] # index[p][3]
    /\ next[index[p][1]] = index[p][2]
    /\ next[index[p][2]] = index[p][3]
    /\ next[index[p][3]] = Nil

IInv ==
    /\ DriverTypes
    /\ \A p \in Owners : Linked(p) /\ Owned(p) \cap free = {}
    /\ \A p, q \in Owners : p # q => Owned(p) \cap Owned(q) = {}
    /\ Cardinality(free) + 3 * Cardinality(Owners) = NUM_DESCS
    /\ NeverOutOfDescriptors
    /\ NoLostWakeup

\* A set of naturals that is not empty has a least element, so that
\* allocateDescriptor, which looks for the first free descriptor, returns one
\* when there is one.
LEMMA FirstIsMember ==
    ASSUME NEW S, S \subseteq Nat, S # {}
    PROVE  First(S) \in S
<1> DEFINE T == {0 .. i : i \in S}
           R == StrictSubsetOrdering(Nat)
           F == FiniteSubsetsOf(Nat)
<1>1. IsWellFoundedOn(R, F)
  BY FS_StrictSubsetOrderingWellFounded
<1>2. T \subseteq F /\ T # {}
  <2>1. \A i \in S : IsFiniteSet(0 .. i) /\ 0 .. i \subseteq Nat
    BY FS_Interval, SMT
  <2> QED
    BY <2>1 DEF FiniteSubsetsOf
<1>3. \E x \in T : \A y \in T : ~ (<<y, x>> \in R)
  <2> HIDE DEF T, R, F
  <2> QED
    BY <1>1, <1>2, WFMin
<1>4. PICK i \in S : \A j \in S : ~ (<<0 .. j, 0 .. i>> \in R)
  BY <1>3
<1>5. ASSUME NEW j \in S
      PROVE  i <= j
  <2> SUFFICES ASSUME j < i
               PROVE  FALSE
    BY SMT
  <2>1. 0 .. j \in SUBSET Nat /\ 0 .. i \in SUBSET Nat
    BY SMT
  <2>2. 0 .. j \subseteq 0 .. i /\ 0 .. j # 0 .. i
    BY SMT
  <2> QED
    BY <2>1, <2>2, <1>4 DEF StrictSubsetOrdering
<1> QED
  BY <1>5 DEF First

\* The sets that are counted are finite.
LEMMA Finite ==
    ASSUME DriverTypes
    PROVE  /\ IsFiniteSet(free) /\ Cardinality(free) \in Nat
           /\ IsFiniteSet(Owners) /\ Cardinality(Owners) \in Nat
           /\ IsFiniteSet(Desc) /\ Cardinality(Desc) = NUM_DESCS
<1>1. IsFiniteSet(Desc) /\ Cardinality(Desc) = NUM_DESCS
  BY FS_Interval, VirtioAssumption, SMT DEF Desc
<1>2. IsFiniteSet(free) /\ IsFiniteSet(Owners)
  BY <1>1, FS_Subset, VirtioAssumption DEF DriverTypes, Owners
<1> QED
  BY <1>1, <1>2, FS_CardinalityType

LEMMA InitIInv == Init => IInv
<1> SUFFICES ASSUME Init
             PROVE  IInv
  OBVIOUS
<1>1. DriverTypes
  <2>1. 0 \in Desc
    BY VirtioAssumption, SMT DEF Desc
  <2> QED
    BY <2>1 DEF Init, DriverTypes, PCs
<1>2. Owners = {}
  BY DEF Init, Owners
<1>3. Cardinality(free) + 3 * Cardinality(Owners) = NUM_DESCS
  BY <1>1, <1>2, Finite, FS_EmptySet, VirtioAssumption, SMT DEF Init
<1>4. NeverOutOfDescriptors /\ NoLostWakeup
  BY DEF Init, NeverOutOfDescriptors, NoLostWakeup
<1> QED
  BY <1>1, <1>2, <1>3, <1>4 DEF IInv

\* The descriptors a successful allocation takes are free and different.
LEMMA FillFree ==
    ASSUME IInv, NEW p \in Procs, Fill(p)
    PROVE  LET i == First(free)
               j == First(free \ {i})
               k == First(free \ {i, j})
           IN  /\ i \in free /\ j \in free \ {i} /\ k \in free \ {i, j}
               /\ Cardinality(free \ {i, j, k}) = Cardinality(free) - 3
               /\ Cardinality(free) \in Nat
<1> DEFINE i == First(free)
           j == First(free \ {i})
           k == First(free \ {i, j})
<1> SUFFICES /\ i \in free /\ j \in free \ {i} /\ k \in free \ {i, j}
             /\ Cardinality(free \ {i, j, k}) = Cardinality(free) - 3
             /\ Cardinality(free) \in Nat
  OBVIOUS
<1>0. free \subseteq Nat /\ DriverTypes
  BY VirtioAssumption, SMT DEF IInv, DriverTypes, Desc
<1>1. IsFiniteSet(free) /\ Cardinality(free) \in Nat /\ Cardinality(free) >= 3
  BY <1>0, Finite DEF Fill
<1>2. free # {}
  BY <1>1, FS_EmptySet, SMT
<1>3. i \in free
  BY <1>0, <1>2, FirstIsMember
<1> HIDE DEF i
<1>4. IsFiniteSet(free \ {i}) /\ Cardinality(free \ {i}) = Cardinality(free) - 1
  BY <1>1, <1>3, FS_RemoveElement
<1>5. free \ {i} # {}
  BY <1>1, <1>4, FS_EmptySet, SMT
<1>6. j \in free \ {i}
  BY <1>0, <1>5, FirstIsMember
<1> HIDE DEF j
<1>7. /\ IsFiniteSet((free \ {i}) \ {j})
      /\ Cardinality((free \ {i}) \ {j}) = Cardinality(free) - 2
  BY <1>1, <1>4, <1>6, FS_RemoveElement, SMT
<1>8. (free \ {i}) \ {j} = free \ {i, j}
  OBVIOUS
<1>9. free \ {i, j} # {}
  BY <1>1, <1>7, <1>8, FS_EmptySet, SMT
<1>10. k \in free \ {i, j}
  BY <1>0, <1>9, FirstIsMember
<1> HIDE DEF k
<1> DEFINE D == free \ {i, j}
<1>11. Cardinality(D \ {k}) = Cardinality(free) - 3
  <2>1. IsFiniteSet(D) /\ Cardinality(D) = Cardinality(free) - 2 /\ k \in D
    BY <1>7, <1>8, <1>10
  <2> HIDE DEF D
  <2>2. Cardinality(D \ {k}) = Cardinality(D) - 1
    BY <2>1, FS_RemoveElement
  <2> QED
    BY <1>1, <2>1, <2>2, SMT
<1>12. (free \ {i, j}) \ {k} = free \ {i, j, k}
  OBVIOUS
<1> QED
  BY <1>1, <1>3, <1>6, <1>10, <1>11, <1>12

\* A successful allocation moves three descriptors from free to a new owner.
LEMMA FillIInv ==
    ASSUME IInv, NEW p \in Procs, Fill(p)
    PROVE  IInv'
<1> DEFINE i == First(free)
           j == First(free \ {i})
           k == First(free \ {i, j})
<1>1. free \subseteq Nat /\ DriverTypes
  BY VirtioAssumption, SMT DEF IInv, DriverTypes, Desc
<1>2. /\ i \in free /\ j \in free \ {i} /\ k \in free \ {i, j}
      /\ Cardinality(free \ {i, j, k}) = Cardinality(free) - 3
      /\ Cardinality(free) \in Nat
  BY FillFree
<1>3. /\ pc[p] = "alloc"
      /\ free' = free \ {i, j, k}
      /\ index' = [index EXCEPT ![p] = <<i, j, k>>]
      /\ next' = [next EXCEPT ![i] = j, ![j] = k, ![k] = Nil]
      /\ busy' = [busy EXCEPT ![p] = TRUE]
      /\ pc' = [pc EXCEPT ![p] = "publish"]
  BY DEF Fill
<1> HIDE DEF i, j, k
<1>4. DriverTypes'
  BY <1>1, <1>2, <1>3 DEF DriverTypes, PCs
<1>5. Owners' = Owners \cup {p} /\ p \notin Owners
  BY <1>1, <1>3 DEF DriverTypes, Owners
<1>6. Linked(p)' /\ Owned(p)' = {i, j, k}
  BY <1>1, <1>2, <1>3 DEF DriverTypes, Linked, Owned
<1>7. ASSUME NEW q \in Owners
      PROVE  Linked(q)' /\ Owned(q)' = Owned(q) /\ Owned(q) \cap free = {}
  BY <1>1, <1>2, <1>3, <1>5, <1>7 DEF IInv, DriverTypes, Linked, Owned, Owners
<1>8. \A q \in Owners' : Linked(q)' /\ Owned(q)' \cap free' = {}
  BY <1>3, <1>5, <1>6, <1>7
<1>9. \A q, r \in Owners' : q # r => Owned(q)' \cap Owned(r)' = {}
  BY <1>2, <1>3, <1>5, <1>6, <1>7, SMT DEF IInv
<1>10. Cardinality(free') + 3 * Cardinality(Owners') = NUM_DESCS
  <2>1. Cardinality(Owners') = Cardinality(Owners) + 1
    BY <1>1, <1>5, Finite, FS_AddElement
  <2> QED
    BY <1>1, <1>2, <1>3, <2>1, Finite, VirtioAssumption, SMT DEF IInv
<1>11. NeverOutOfDescriptors'
  BY <1>1, <1>3 DEF IInv, NeverOutOfDescriptors, DriverTypes
<1>12. NoLostWakeup'
  BY <1>1, <1>2, <1>3, SMT DEF IInv, NoLostWakeup, DriverTypes
<1> QED
  BY <1>4, <1>8, <1>9, <1>10, <1>11, <1>12 DEF IInv

\* With the chains in multiples of three and a total that is none, the free
\* descriptors cannot be used up.
LEMMA NeverEmpty == IInv => free # {}
<1> SUFFICES ASSUME IInv, free = {}
             PROVE  FALSE
  OBVIOUS
<1>1. PICK c \in Nat : 0 + 3 * c = NUM_DESCS
  BY Finite, FS_EmptySet DEF IInv
<1>2. (3 * c) % 3 = 0
  BY Z3
<1> QED
  BY <1>1, <1>2, VirtioAssumption, SMT

\* A failed allocation finds a free descriptor.
LEMMA AllocateFailsIInv ==
    ASSUME IInv, NEW p \in Procs, AllocateFails(p)
    PROVE  IInv'
<1>1. DriverTypes
  BY DEF IInv
<1>2. free # {}
  BY NeverEmpty
<1>3. /\ free' = free /\ index' = index /\ busy' = busy
      /\ next' = [d \in Desc |-> IF d \in free THEN Nil ELSE next[d]]
      /\ pc' = [WakeFree(pc) EXCEPT ![p] = "sleepFree"]
      /\ pc[p] = "alloc"
      /\ Cardinality(free) < 3
  BY <1>2 DEF AllocateFails
<1>4. DriverTypes'
  BY <1>1, <1>3 DEF DriverTypes, PCs, WakeFree
<1>5. Owners' = Owners
  BY <1>1, <1>3 DEF DriverTypes, Owners, WakeFree
<1>6. \A q \in Owners' : Linked(q)' /\ Owned(q)' = Owned(q)
  BY <1>1, <1>3, <1>5 DEF IInv, DriverTypes, Linked, Owned, Owners
<1>7. NeverOutOfDescriptors'
  BY <1>1, <1>3 DEF IInv, NeverOutOfDescriptors, DriverTypes, WakeFree
<1>8. NoLostWakeup'
  BY <1>1, <1>3 DEF IInv, NoLostWakeup, DriverTypes, WakeFree
<1> QED
  BY <1>3, <1>4, <1>5, <1>6, <1>7, <1>8 DEF IInv

\* freeChain gives back exactly the three descriptors of the call.
LEMMA FinishIInv ==
    ASSUME IInv, NEW p \in Procs, Finish(p)
    PROVE  IInv'
<1>1. DriverTypes /\ p \in Owners
  BY DEF IInv, Finish, Owners
<1>2. Linked(p) /\ Owned(p) \cap free = {} /\ Owned(p) \subseteq Desc
  BY <1>1, SMT DEF IInv, DriverTypes, Owned
<1>3. Chain(index[p][1]) = Owned(p)
  BY <1>1, <1>2, VirtioAssumption DEF Chain, Linked, Owned, DriverTypes, Desc
<1>4. /\ free' = free \cup Owned(p) /\ index' = index /\ busy' = busy
      /\ next' = [d \in Desc |-> IF d \in Owned(p) THEN Nil ELSE next[d]]
      /\ pc' = [WakeFree(pc) EXCEPT ![p] = "idle"]
  BY <1>3 DEF Finish, FreedWakes
<1>5. DriverTypes'
  BY <1>1, <1>2, <1>4 DEF DriverTypes, PCs, WakeFree
<1>6. Owners' = Owners \ {p}
  BY <1>1, <1>4 DEF DriverTypes, Owners, WakeFree
<1>7. ASSUME NEW q \in Owners'
      PROVE  Linked(q)' /\ Owned(q)' = Owned(q) /\ Owned(q) \cap free' = {}
  <2>1. q \in Owners /\ q # p
    BY <1>6
  <2>2. Owned(q) \cap Owned(p) = {} /\ Owned(q) \cap free = {} /\ Linked(q)
    BY <1>1, <2>1 DEF IInv
  <2>3. index[q] \in Desc \X Desc \X Desc
    BY <1>1, <2>1 DEF DriverTypes, Owners
  <2> QED
    BY <1>4, <2>2, <2>3 DEF Linked, Owned
<1>8. Cardinality(free') + 3 * Cardinality(Owners') = NUM_DESCS
  <2> DEFINE a == index[p][1]
             b == index[p][2]
             c == index[p][3]
  <2>1. /\ a # b /\ a # c /\ b # c
        /\ a \notin free /\ b \notin free /\ c \notin free
    BY <1>2 DEF Linked, Owned
  <2>2. IsFiniteSet(free) /\ Cardinality(free) \in Nat
    BY <1>1, Finite
  <2> DEFINE A == free \cup {a}
             B == A \cup {b}
             C == B \cup {c}
  <2>3. free' = C
    BY <1>4 DEF Owned
  <2> HIDE DEF a, b, c
  <2>4. b \notin A /\ c \notin B
    BY <2>1
  <2>5. IsFiniteSet(A) /\ Cardinality(A) = Cardinality(free) + 1
    BY <2>1, <2>2, FS_AddElement
  <2> HIDE DEF A
  <2>6. IsFiniteSet(B) /\ Cardinality(B) = Cardinality(A) + 1
    BY <2>4, <2>5, FS_AddElement
  <2> HIDE DEF B
  <2>7. Cardinality(C) = Cardinality(B) + 1
    BY <2>4, <2>6, FS_AddElement
  <2> HIDE DEF C
  <2>8. Cardinality(Owners') = Cardinality(Owners) - 1
    BY <1>1, <1>6, Finite, FS_RemoveElement
  <2> QED
    BY <1>1, <2>2, <2>3, <2>5, <2>6, <2>7, <2>8, Finite, VirtioAssumption, SMT DEF IInv
<1>9. NeverOutOfDescriptors'
  BY <1>1, <1>4 DEF IInv, NeverOutOfDescriptors, DriverTypes, WakeFree
<1>10. NoLostWakeup'
  BY <1>1, <1>4 DEF IInv, NoLostWakeup, DriverTypes, WakeFree, PCs
<1> QED
  BY <1>5, <1>6, <1>7, <1>8, <1>9, <1>10 DEF IInv

\* The other steps of a process, and the handler, leave the descriptors and
\* their owners alone; the handler clears busy only for a process it wakes.
LEMMA ControlIInv ==
    ASSUME IInv,
           \/ \E p \in Procs : Call(p) \/ Publish(p) \/ Wait(p) \/ Wake(p)
           \/ Handle
    PROVE  IInv'
<1>1. DriverTypes /\ free' = free /\ next' = next /\ index' = index
  BY DEF IInv, Call, Publish, Wait, Wake, Handle, driver
<1>2. DriverTypes' /\ Owners' = Owners /\ NeverOutOfDescriptors' /\ NoLostWakeup'
  <2>1. ASSUME NEW p \in Procs, Call(p) \/ Publish(p) \/ Wake(p)
        PROVE  DriverTypes' /\ Owners' = Owners /\ NeverOutOfDescriptors' /\ NoLostWakeup'
    <3>1. PICK c \in {"alloc", "wait"} : pc' = [pc EXCEPT ![p] = c]
      BY <2>1 DEF Call, Publish, Wake
    <3>2. busy' = busy /\ (c = "wait" <=> pc[p] \in {"publish", "wokenBuf"})
      BY <1>1, <2>1, <3>1 DEF DriverTypes, Call, Publish, Wake, driver
    <3>3. pc[p] \in {"idle", "publish", "wokenFree", "wokenBuf"}
      BY <2>1 DEF Call, Publish, Wake
    <3>4. DriverTypes'
      BY <1>1, <3>1, <3>2 DEF DriverTypes, PCs
    <3>5. Owners' = Owners
      BY <1>1, <3>1, <3>2, <3>3 DEF DriverTypes, Owners
    <3>6. NeverOutOfDescriptors'
      BY <1>1, <3>1 DEF IInv, DriverTypes, NeverOutOfDescriptors
    <3>7. NoLostWakeup'
      BY <1>1, <3>1, <3>2 DEF IInv, DriverTypes, NoLostWakeup
    <3> QED
      BY <3>4, <3>5, <3>6, <3>7
  <2>2. ASSUME NEW p \in Procs, Wait(p)
        PROVE  DriverTypes' /\ Owners' = Owners /\ NeverOutOfDescriptors' /\ NoLostWakeup'
    <3>1. pc[p] = "wait" /\ pc' = [pc EXCEPT ![p] = "sleepBuf"] /\ busy' = busy /\ busy[p]
      BY <2>2 DEF Wait, Finished, driver
    <3>2. DriverTypes'
      BY <1>1, <3>1 DEF DriverTypes, PCs
    <3>3. Owners' = Owners
      BY <1>1, <3>1 DEF DriverTypes, Owners
    <3>4. NeverOutOfDescriptors' /\ NoLostWakeup'
      BY <1>1, <3>1 DEF IInv, DriverTypes, NeverOutOfDescriptors, NoLostWakeup
    <3> QED
      BY <3>2, <3>3, <3>4
  <2>3. ASSUME Handle
        PROVE  DriverTypes' /\ Owners' = Owners /\ NeverOutOfDescriptors' /\ NoLostWakeup'
    <3> DEFINE b == buffer[used.ring[Handled]]
    <3>1. busy' = [busy EXCEPT ![b] = FALSE] /\ pc' = WakeBuf(pc, b)
      BY <2>3 DEF Handle
    <3> HIDE DEF b
    <3>2. DriverTypes'
      BY <1>1, <3>1 DEF DriverTypes, WakeBuf, PCs
    <3>3. Owners' = Owners
      BY <1>1, <3>1 DEF DriverTypes, Owners, WakeBuf
    <3>4. NeverOutOfDescriptors'
      BY <1>1, <3>1 DEF IInv, DriverTypes, NeverOutOfDescriptors, WakeBuf
    <3>5. NoLostWakeup'
      BY <1>1, <3>1 DEF IInv, DriverTypes, NoLostWakeup, WakeBuf
    <3> QED
      BY <3>2, <3>3, <3>4, <3>5
  <2> QED
    BY <2>1, <2>2, <2>3
<1>3. \A p \in Procs : (Linked(p)' <=> Linked(p)) /\ Owned(p)' = Owned(p)
  BY <1>1 DEF Linked, Owned
<1> QED
  BY <1>1, <1>2, <1>3 DEF IInv, Owners

LEMMA NextIInv == IInv /\ [Next]_vars => IInv'
<1> SUFFICES ASSUME IInv, [Next]_vars
             PROVE  IInv'
  OBVIOUS
<1>1. CASE UNCHANGED <<free, next, busy, pc, index>>
  BY <1>1, SMT DEF IInv, DriverTypes, Linked, Owners, Owned, NeverOutOfDescriptors, NoLostWakeup
<1>2. CASE \E p \in Procs : Call(p) \/ Step(p)
  BY <1>2, FillIInv, AllocateFailsIInv, FinishIInv, ControlIInv DEF Step
<1>3. CASE Handle
  BY <1>3, ControlIInv
<1>4. CASE Take \/ (\E i \in Desc : Complete(i)) \/ Acknowledge \/ Leave
  BY <1>1, <1>4 DEF Take, Complete, Acknowledge, Leave, driver
<1>5. CASE UNCHANGED vars
  BY <1>1, <1>5 DEF vars, driver
<1> QED
  BY <1>2, <1>3, <1>4, <1>5 DEF Next, Interrupt

-----------------------------------------------------------------------------
(***************************************************************************)
(* The rings.  A ring's slots that are not empty lie between two indices,  *)
(* which both go round; Window says so, with n for the distance and m for  *)
(* the number of filled slots (diskrw fills a slot before it publishes it).*)
(***************************************************************************)
Advance(a, n, size) == IF a + n < size THEN a + n ELSE a + n - size
Behind(a, s) == IF s >= a THEN s - a ELSE s - a + NUM_DESCS
Window(r, from, to, n, m) ==
    /\ n \in 0 .. NUM_DESCS - 1
    /\ to = Advance(from, n, IndexMod)
    /\ Slot(to) = Advance(Slot(from), n, NUM_DESCS)
    /\ \A s \in Desc : r[s] # Nil <=> Behind(Slot(from), s) < m

\* Division with remainder is unique.
LEMMA RemainderIs ==
    ASSUME NEW a \in Nat, NEW n \in Nat \ {0}, NEW q \in Int, NEW r \in 0 .. n - 1,
           a = n * q + r
    PROVE  a % n = r
  <1> DEFINE d == a \div n
             e == a % n
  <1>1. d \in Int /\ e \in 0 .. n - 1 /\ a = n * d + e
    BY Z3
  <1> HIDE DEF d, e
  <1>2. n * (d - q) = n * d - n * q
    BY <1>1, SMT
  <1>3. n * (d - q) = r - e
    BY <1>1, <1>2, SMT
  <1>4. CASE d > q
    <2>1. n * (d - q) >= n
      BY <1>1, <1>4, SMT
    <2> QED
      BY <1>1, <1>3, <2>1, SMT
  <1>5. CASE d < q
    <2>1. n * (d - q) <= -n
      BY <1>1, <1>5, SMT
    <2> QED
      BY <1>1, <1>3, <2>1, SMT
  <1>6. CASE d = q
    BY <1>1, <1>3, <1>6, SMT DEF e
  <1> QED
    BY <1>1, <1>4, <1>5, <1>6, SMT

\* The slot of an index, and of the next one, although the index wraps at another
\* number than the ring: it is a multiple of the ring's length.
LEMMA SlotSucc ==
    ASSUME NEW i \in 0 .. IndexMod - 1
    PROVE  /\ Slot(i) \in Desc
           /\ Succ(i) = Advance(i, 1, IndexMod) /\ Succ(i) \in 0 .. IndexMod - 1
           /\ Slot(Succ(i)) = Advance(Slot(i), 1, NUM_DESCS)
  <1> DEFINE N == NUM_DESCS
             M == IndexMod
             q == i \div N
             r == i % N
             k == M \div N
  <1>1. N \in Nat \ {0} /\ N >= 3 /\ M \in Nat \ {0} /\ M % N = 0 /\ i \in Nat /\ i < M
    BY VirtioAssumption, SMT
  <1>2. q \in Int /\ r \in 0 .. N - 1 /\ i = N * q + r
    BY <1>1, Z3
  <1>3. k \in Int /\ M = N * k
    BY <1>1, Z3
  <1>4. Slot(i) = r
    BY DEF Slot
  <1> HIDE DEF q, r, k
  <1>5. CASE i + 1 < M
    <2>1. Succ(i) = i + 1
      BY <1>1, <1>5, Z3 DEF Succ
    <2>2. CASE r + 1 < N
      <3>1. (i + 1) % N = r + 1
        BY <1>1, <1>2, <2>2, RemainderIs, SMT
      <3> QED
        BY <1>1, <1>2, <1>4, <1>5, <2>1, <2>2, <3>1, SMT DEF Slot, Advance, Desc
    <2>3. CASE r + 1 = N
      <3>1. N * (q + 1) = N * q + N
        BY <1>1, <1>2, SMT
      <3>2. i + 1 = N * (q + 1) + 0
        BY <1>1, <1>2, <2>3, <3>1, SMT
      <3>3. (i + 1) % N = 0
        BY <1>1, <1>2, <3>2, RemainderIs, SMT
      <3> QED
        BY <1>1, <1>2, <1>4, <1>5, <2>1, <2>3, <3>3, SMT DEF Slot, Advance, Desc
    <2> QED
      BY <1>1, <1>2, <2>2, <2>3, SMT
  <1>6. CASE i + 1 = M
    <2>1. Succ(i) = 0
      <3>1. M % M = 0
        BY <1>1, Z3
      <3> QED
        BY <1>6, <3>1 DEF Succ
    <2>2. N * (k - 1) = N * k - N
      BY <1>1, <1>3, SMT
    <2>3. i = N * (k - 1) + (N - 1)
      BY <1>1, <1>3, <1>6, <2>2, SMT
    <2>4. i % N = N - 1
      BY <1>1, <1>3, <2>3, RemainderIs, SMT
    <2>5. 0 % N = 0
      BY <1>1, Z3
    <2> QED
      BY <1>1, <1>2, <1>4, <1>6, <2>1, <2>4, <2>5, SMT DEF Slot, Advance, Desc
  <1> QED
    BY <1>1, <1>5, <1>6, SMT

\* A slot is filled at the end of the window ...
LEMMA WindowFill ==
    ASSUME NEW r \in [Desc -> Desc \cup {Nil}], NEW from \in 0 .. IndexMod - 1,
           NEW to \in 0 .. IndexMod - 1, NEW n \in Nat, Window(r, from, to, n, n),
           NEW x \in Desc
    PROVE  Slot(to) \in Desc /\ Window([r EXCEPT ![Slot(to)] = x], from, to, n, n + 1)
  <1>1. /\ Slot(from) \in 0 .. NUM_DESCS - 1 /\ Slot(to) \in 0 .. NUM_DESCS - 1
        /\ NUM_DESCS \in Nat /\ x # Nil
    BY SlotSucc, VirtioAssumption DEF Desc
  <1>2. ASSUME NEW s \in Desc
        PROVE  [r EXCEPT ![Slot(to)] = x][s] # Nil <=> Behind(Slot(from), s) < n + 1
    <2>1. s \in Nat /\ s < NUM_DESCS
      BY <1>1, SMT DEF Desc
    <2>2. s = Slot(to) <=> Behind(Slot(from), s) = n
      BY <1>1, <2>1, SMT DEF Window, Advance, Behind
    <2>3. Behind(Slot(from), s) \in Nat
      BY <1>1, <2>1, SMT DEF Behind
    <2>4. r[s] # Nil <=> Behind(Slot(from), s) < n
      BY DEF Window
    <2> QED
      BY <1>1, <2>2, <2>3, <2>4, SMT
  <1> QED
    BY <1>1, <1>2 DEF Window, Desc

\* ... the window takes it in ...
LEMMA WindowGrow ==
    ASSUME NEW r, NEW from \in 0 .. IndexMod - 1, NEW to \in 0 .. IndexMod - 1,
           NEW n \in Nat, Window(r, from, to, n, n + 1), n + 1 < NUM_DESCS
    PROVE  Window(r, from, Succ(to), n + 1, n + 1)
  <1>1. /\ Slot(from) \in 0 .. NUM_DESCS - 1 /\ Slot(to) \in 0 .. NUM_DESCS - 1
        /\ Succ(to) = Advance(to, 1, IndexMod)
        /\ Slot(Succ(to)) = Advance(Slot(to), 1, NUM_DESCS)
        /\ NUM_DESCS \in Nat /\ IndexMod \in Nat
    BY SlotSucc, VirtioAssumption DEF Desc
  <1>2. NUM_DESCS <= IndexMod
    <2>1. ~ (IndexMod < NUM_DESCS)
      BY <1>1, VirtioAssumption, Z3
    <2> QED
      BY <1>1, <2>1, SMT
  <1>3. Succ(to) = Advance(from, n + 1, IndexMod)
    BY <1>1, <1>2, SMT DEF Window, Advance
  <1>4. Slot(Succ(to)) = Advance(Slot(from), n + 1, NUM_DESCS)
    BY <1>1, SMT DEF Window, Advance
  <1> QED
    BY <1>1, <1>3, <1>4, SMT DEF Window

\* ... and the first slot is emptied when it has been read.
LEMMA WindowShrink ==
    ASSUME NEW r \in [Desc -> Desc \cup {Nil}], NEW from \in 0 .. IndexMod - 1,
           NEW to \in 0 .. IndexMod - 1, NEW n \in Nat, NEW m \in Nat, n <= m,
           m <= NUM_DESCS, Window(r, from, to, n, m), from # to
    PROVE  /\ r[Slot(from)] \in Desc /\ n > 0
           /\ Window([r EXCEPT ![Slot(from)] = Nil], Succ(from), to, n - 1, m - 1)
  <1>1. /\ Slot(from) \in 0 .. NUM_DESCS - 1 /\ Slot(to) \in 0 .. NUM_DESCS - 1
        /\ Succ(from) = Advance(from, 1, IndexMod)
        /\ Slot(Succ(from)) = Advance(Slot(from), 1, NUM_DESCS)
        /\ NUM_DESCS \in Nat /\ IndexMod \in Nat
    BY SlotSucc, VirtioAssumption DEF Desc
  <1>2. NUM_DESCS <= IndexMod
    <2>1. ~ (IndexMod < NUM_DESCS)
      BY <1>1, VirtioAssumption, Z3
    <2> QED
      BY <1>1, <2>1, SMT
  <1>3. n > 0 /\ n < NUM_DESCS
    BY <1>1, SMT DEF Window, Advance
  <1>4. to = Advance(Succ(from), n - 1, IndexMod)
    BY <1>1, <1>2, <1>3, SMT DEF Window, Advance
  <1>5. Slot(to) = Advance(Slot(Succ(from)), n - 1, NUM_DESCS)
    BY <1>1, <1>3, SMT DEF Window, Advance
  <1>6. ASSUME NEW s \in Desc
        PROVE  [r EXCEPT ![Slot(from)] = Nil][s] # Nil <=> Behind(Slot(Succ(from)), s) < m - 1
    <2>1. s \in Nat /\ s < NUM_DESCS
      BY <1>1, SMT DEF Desc
    <2>2. r[s] # Nil <=> Behind(Slot(from), s) < m
      BY DEF Window
    <2>3. CASE s = Slot(from)
      <3>1. Behind(Slot(Succ(from)), s) = NUM_DESCS - 1
        BY <1>1, <2>1, <2>3, SMT DEF Advance, Behind
      <3> QED
        BY <1>1, <2>3, <3>1, SMT
    <2>4. CASE s # Slot(from)
      <3>1. Behind(Slot(Succ(from)), s) = Behind(Slot(from), s) - 1 /\ Behind(Slot(from), s) \in Nat
        BY <1>1, <2>1, <2>4, SMT DEF Advance, Behind
      <3> QED
        BY <1>1, <2>2, <2>4, <3>1, SMT
    <2> QED
      BY <2>3, <2>4
  <1>7. r[Slot(from)] \in Desc
    <2>1. Behind(Slot(from), Slot(from)) = 0 /\ Slot(from) \in Desc
      BY <1>1, SMT DEF Behind, Desc
    <2>2. r[Slot(from)] # Nil
      BY <1>3, <2>1, SMT DEF Window
    <2> QED
      BY <2>1, <2>2
  <1> QED
    BY <1>1, <1>3, <1>4, <1>5, <1>6, <1>7, SMT DEF Window

\* A ring without repetitions that misses a descriptor is not full.
LEMMA RingNotFull ==
    ASSUME NEW r \in [Desc -> Desc \cup {Nil}], NEW d \in Desc, \A s \in Desc : r[s] # d,
           \A s, t \in Desc : r[s] # Nil /\ r[s] = r[t] => s = t,
           NEW from \in 0 .. IndexMod - 1, NEW to, NEW n \in Nat, Window(r, from, to, n, n + 1)
    PROVE  n + 1 < NUM_DESCS
  <1> SUFFICES ASSUME n + 1 = NUM_DESCS
               PROVE  FALSE
    BY VirtioAssumption, SMT DEF Window
  <1>1. NUM_DESCS \in Nat /\ Slot(from) \in 0 .. NUM_DESCS - 1 /\ Desc = 0 .. NUM_DESCS - 1
    BY VirtioAssumption, SlotSucc DEF Desc
  <1>2. \A s \in Desc : Behind(Slot(from), s) < NUM_DESCS
    BY <1>1, SMT DEF Behind
  <1>3. \A s \in Desc : r[s] # Nil
    BY <1>2 DEF Window
  <1>4. r \in [Desc -> Desc \ {d}]
    BY <1>3
  <1>5. IsFiniteSet(Desc) /\ Cardinality(Desc) \in Nat
    BY <1>1, FS_Interval, FS_CardinalityType, SMT
  <1>6. IsFiniteSet(Desc \ {d}) /\ Cardinality(Desc \ {d}) < Cardinality(Desc)
    <2>1. IsFiniteSet(Desc \ {d}) /\ Cardinality(Desc \ {d}) = Cardinality(Desc) - 1
      BY <1>5, FS_RemoveElement
    <2> QED
      BY <1>5, <2>1, SMT
  <1>7. \E s, t \in Desc : s # t /\ r[s] = r[t]
    BY <1>4, <1>5, <1>6, FS_PigeonHole, SMT
  <1> QED
    BY <1>3, <1>7
-----------------------------------------------------------------------------
(***************************************************************************)
(* The requests.  Pending(d): descriptor d heads the chain of a call that  *)
(* waits for the device.  Such a descriptor is in one place at most: a     *)
(* slot of avail, the device, or a slot of used.                           *)
(***************************************************************************)
Pending(d) == /\ d \in Desc /\ buffer[d] \in Owners
              /\ busy[buffer[d]] /\ index[buffer[d]][1] = d

Places ==
    /\ \A s \in Desc : avail.ring[s] # Nil =>
          Pending(avail.ring[s]) /\ avail.ring[s] \notin working
    /\ \A d \in working : Pending(d)
    /\ \A s \in Desc : used.ring[s] # Nil =>
          /\ Pending(used.ring[s]) /\ used.ring[s] \notin working
          /\ status[used.ring[s]] = "ok" /\ buffer[used.ring[s]] \in moved
    /\ \A s, t \in Desc : avail.ring[s] # Nil => avail.ring[s] # used.ring[t]
    /\ \A s, t \in Desc : avail.ring[s] # Nil /\ avail.ring[s] = avail.ring[t] => s = t
    /\ \A s, t \in Desc : used.ring[s] # Nil /\ used.ring[s] = used.ring[t] => s = t

\* The handler finds the call by the head of its chain, and a call that waits no
\* longer has its data.
Answered == \A p \in Owners : buffer[index[p][1]] = p /\ (busy[p] \/ p \in moved)

Excluded == \A p \in Procs : pc[p] \in {"alloc", "publish", "wait"} => holder = p

Filled == IF \E p \in Procs : pc[p] = "publish" THEN 1 ELSE 0

Windows ==
    /\ \E n \in Nat : Window(avail.ring, taken, avail.index, n, n + Filled)
    /\ \E n \in Nat : Window(used.ring, usedIndex, used.index, n, n)

RInv == TypeOK /\ Places /\ Answered /\ Excluded /\ Windows

LEMMA InitRInv == Init => RInv
  <1> SUFFICES ASSUME Init
               PROVE  RInv
    OBVIOUS
  <1>1. 0 \in Desc /\ 0 \in 0 .. IndexMod - 1 /\ NUM_DESCS \in Nat /\ IndexMod \in Nat \ {0}
        /\ NUM_DESCS > 0
    BY VirtioAssumption, SMT DEF Desc
  <1>2. TypeOK
    BY <1>1, VirtioAssumption DEF Init, TypeOK, Empty, Ring, PCs
  <1>3. Owners = {} /\ Filled = 0
    BY DEF Init, Owners, Filled
  <1>4. Places
    BY DEF Init, Places, Empty
  <1>5. Answered /\ Excluded
    BY <1>3 DEF Init, Answered, Excluded
  <1>6. Window([s \in Desc |-> Nil], 0, 0, 0, 0)
    <2>1. Slot(0) \in Desc
      BY <1>1, SlotSucc
    <2>2. \A s \in Desc : ~ (Behind(Slot(0), s) < 0)
      BY <1>1, <2>1, SMT DEF Behind, Desc
    <2> QED
      BY <1>1, <2>1, <2>2, SMT DEF Window, Advance, Desc
  <1>7. Windows
    BY <1>3, <1>6, SMT DEF Init, Windows, Empty
  <1> QED
    BY <1>2, <1>4, <1>5, <1>7 DEF RInv

\* What a step must leave alone to keep the requests where they are.
LEMMA RequestsKept ==
    ASSUME RInv, Owners' = Owners, moved \cap Owners \subseteq moved',
           UNCHANGED <<buffer, busy, index, status, working>>,
           avail'.ring = avail.ring, used'.ring = used.ring
    PROVE  Places' /\ Answered'
  <1>1. \A d : Pending(d)' <=> Pending(d)
    BY DEF Pending
  <1>2. \A d : Pending(d) /\ buffer[d] \in moved => buffer[d] \in moved'
    BY DEF Pending
  <1>3. Places'
    BY <1>1, <1>2, SMT DEF RInv, Places
  <1> QED
    BY <1>3 DEF RInv, Answered

\* What it must leave alone to keep the windows.
LEMMA WindowsKept ==
    ASSUME RInv, Filled' = Filled, UNCHANGED <<avail, used, taken, usedIndex>>
    PROVE  Windows'
  BY DEF RInv, Windows

\* The mutex admits one process: if one holds it, no other publishes.
LEMMA OneAtATime ==
    ASSUME RInv, NEW p \in Procs, holder = p
    PROVE  \A q \in Procs : q # p => pc[q] \notin {"alloc", "publish", "wait"}
  BY DEF RInv, Excluded

\* The steps of diskrw that take or give up the mutex and leave the chains alone.
LEMMA ControlRInv ==
    ASSUME RInv, NEW p \in Procs, Call(p) \/ Wait(p) \/ Wake(p)
    PROVE  RInv'
  <1>1. TypeOK /\ holder # Handler /\ p # Nil /\ Nil \notin Procs /\ Handler \notin Procs
    BY VirtioAssumption DEF RInv, Excluded, Call, Wait, Wake
  <1>2. /\ UNCHANGED <<driver, taken, working, irq, avail, used, usedIndex>>
        /\ moved' = moved \/ (pc[p] = "idle" /\ moved' = moved \ {p})
    BY DEF Call, Wait, Wake, driver, device
  <1>3. PICK at \in {"alloc", "wait", "sleepBuf"} : pc' = [pc EXCEPT ![p] = at]
    BY DEF Call, Wait, Wake
  <1>4. /\ at = "alloc" <=> pc[p] \in {"idle", "wokenFree"}
        /\ at = "wait" <=> pc[p] = "wokenBuf"
        /\ at = "sleepBuf" <=> pc[p] = "wait"
        /\ pc[p] \in {"idle", "wokenFree", "wokenBuf", "wait"}
    BY <1>1, <1>3 DEF TypeOK, Call, Wait, Wake
  <1>5. Owners' = Owners /\ Filled' = Filled
    BY <1>1, <1>3, <1>4 DEF TypeOK, Owners, Filled
  <1>6. TypeOK'
    BY <1>1, <1>2, <1>3 DEF TypeOK, PCs, driver, Call, Wait, Wake
  <1>7. Excluded'
    <2>1. CASE at = "sleepBuf"
      <3>1. holder = p
        BY <1>4, <2>1 DEF RInv, Excluded
      <3> QED
        BY <1>1, <1>3, <2>1, <3>1, OneAtATime DEF TypeOK, Excluded
    <2>2. CASE at # "sleepBuf"
      <3>1. holder = Nil /\ holder' = p
        BY <1>4, <2>2 DEF Call, Wait, Wake
      <3> QED
        BY <1>1, <1>3, <3>1 DEF RInv, TypeOK, Excluded
    <2> QED
      BY <2>1, <2>2
  <1>8. moved \cap Owners \subseteq moved'
    BY <1>2 DEF Owners
  <1> QED
    BY <1>2, <1>5, <1>6, <1>7, <1>8, RequestsKept, WindowsKept DEF RInv, driver

\* The third descriptor of a chain heads none, so that it is in no ring.
LEMMA ThirdIsNoHead ==
    ASSUME IInv, NEW p \in Owners
    PROVE  index[p][3] \in Desc /\ ~ Pending(index[p][3])
  <1>1. p \in Procs /\ index[p] \in Desc \X Desc \X Desc /\ Linked(p)
    BY DEF IInv, DriverTypes, Owners
  <1>2. index[p][3] \in Desc
    BY <1>1
  <1>3. ASSUME Pending(index[p][3])
        PROVE  FALSE
    <2> DEFINE q == buffer[index[p][3]]
    <2>1. q \in Owners /\ index[q][1] = index[p][3]
      BY <1>3 DEF Pending
    <2>2. q = p
      BY <2>1 DEF IInv, Owned
    <2> QED
      BY <1>1, <2>1, <2>2 DEF Linked
  <1> QED
    BY <1>2, <1>3

LEMMA PublishRInv ==
    ASSUME IInv, RInv, NEW p \in Procs, Publish(p)
    PROVE  RInv'
  <1>1. /\ TypeOK /\ pc[p] = "publish" /\ p \in Owners
        /\ pc' = [pc EXCEPT ![p] = "wait"]
        /\ avail' = [avail EXCEPT !.index = Succ(@)]
        /\ UNCHANGED <<free, next, buffer, status, busy, index, taken, working, irq, moved,
                       used, usedIndex, holder>>
    BY DEF RInv, Publish, Owners, driver, device
  <1>2. holder = p /\ \A q \in Procs : q # p => pc[q] # "publish"
    BY <1>1, OneAtATime DEF RInv, Excluded
  <1>3. Filled = 1 /\ Filled' = 0 /\ Owners' = Owners
    BY <1>1, <1>2 DEF TypeOK, Filled, Owners
  <1>4. /\ avail.ring \in [Desc -> Desc \cup {Nil}] /\ avail.index \in 0 .. IndexMod - 1
        /\ avail'.ring = avail.ring /\ avail'.index = Succ(avail.index)
        /\ taken \in 0 .. IndexMod - 1
    BY <1>1 DEF TypeOK, Ring
  <1>5. avail' \in Ring
    BY <1>1, <1>4, SlotSucc DEF TypeOK, Ring
  <1>6. TypeOK'
    BY <1>1, <1>5 DEF TypeOK, PCs
  <1>7. Excluded'
    BY <1>1, <1>2 DEF RInv, TypeOK, Excluded
  <1>8. PICK n \in Nat : Window(avail.ring, taken, avail.index, n, n + 1)
    BY <1>3 DEF RInv, Windows
  <1>9. n + 1 < NUM_DESCS
    <2>1. index[p][3] \in Desc /\ \A s \in Desc : avail.ring[s] # index[p][3]
      <3>1. index[p][3] # Nil
        BY <1>1, ThirdIsNoHead, VirtioAssumption DEF Desc
      <3> QED
        BY <1>1, <3>1, ThirdIsNoHead DEF RInv, Places
    <2> QED
      BY <1>4, <1>8, <2>1, RingNotFull DEF RInv, Places
  <1>10. Window(avail.ring, taken, Succ(avail.index), n + 1, n + 1)
    BY <1>4, <1>8, <1>9, WindowGrow
  <1>11. Windows'
    <2>1. n + 1 \in Nat /\ n + 1 + 0 = n + 1
      BY SMT
    <2> QED
      BY <1>1, <1>3, <1>4, <1>10, <2>1 DEF RInv, Windows
  <1> QED
    BY <1>1, <1>3, <1>4, <1>6, <1>7, <1>11, RequestsKept DEF RInv

LEMMA AllocateFailsRInv ==
    ASSUME IInv, RInv, NEW p \in Procs, AllocateFails(p)
    PROVE  RInv'
  <1>1. /\ TypeOK /\ pc[p] = "alloc" /\ holder' = Nil
        /\ pc' = [WakeFree(pc) EXCEPT ![p] = "sleepFree"]
        /\ next' = [d \in Desc |-> IF d \in free THEN Nil ELSE next[d]]
        /\ UNCHANGED <<free, buffer, status, busy, index, taken, working, irq, moved,
                       avail, used, usedIndex>>
    BY NeverEmpty DEF RInv, AllocateFails, device
  <1>2. holder = p /\ \A q \in Procs : q # p => pc[q] \notin {"alloc", "publish", "wait"}
    BY <1>1, OneAtATime DEF RInv, Excluded
  <1>3. Owners' = Owners /\ Filled' = Filled
    BY <1>1 DEF TypeOK, Owners, Filled, WakeFree
  <1>4. TypeOK'
    BY <1>1 DEF TypeOK, PCs, WakeFree
  <1>5. Excluded'
    BY <1>1, <1>2 DEF TypeOK, Excluded, WakeFree
  <1> QED
    BY <1>1, <1>3, <1>4, <1>5, RequestsKept, WindowsKept DEF RInv

\* The chain a call gives back is no longer pending.
LEMMA FinishRInv ==
    ASSUME IInv, RInv, NEW p \in Procs, Finish(p)
    PROVE  RInv'
  <1> DEFINE h == index[p][1]
  <1>1. /\ TypeOK /\ pc[p] = "wait" /\ p \in Owners /\ holder' = Nil /\ busy[p] = FALSE
        /\ pc' = [WakeFree(pc) EXCEPT ![p] = "idle"]
        /\ buffer' = [buffer EXCEPT ![h] = Nil]
        /\ free' = free \cup Chain(h)
        /\ next' = [d \in Desc |-> IF d \in Chain(h) THEN Nil ELSE next[d]]
        /\ UNCHANGED <<status, busy, index, taken, working, irq, moved, avail, used, usedIndex>>
    BY DEF RInv, Finish, Finished, FreedWakes, Owners, TypeOK, device
  <1>2. holder = p /\ \A q \in Procs : q # p => pc[q] \notin {"alloc", "publish", "wait"}
    BY <1>1, OneAtATime DEF RInv, Excluded
  <1>3. Owners' = Owners \ {p} /\ Filled' = Filled
    BY <1>1 DEF TypeOK, Owners, Filled, WakeFree
  <1>4. Linked(p) /\ Owned(p) \subseteq Desc /\ h \in Desc
    BY <1>1, SMT DEF IInv, TypeOK, Owned
  <1>5. Chain(h) = Owned(p)
    BY <1>1, <1>4, VirtioAssumption, SMT DEF Chain, Linked, Owned, TypeOK, Desc
  <1> HIDE DEF h
  <1>6. TypeOK'
    <2>1. free' \subseteq Desc /\ next' \in [Desc -> Desc \cup {Nil}]
      BY <1>1, <1>4, <1>5 DEF TypeOK
    <2>2. pc' \in [Procs -> PCs] /\ buffer' \in [Desc -> Procs \cup {Nil}]
      BY <1>1 DEF TypeOK, PCs, WakeFree
    <2> QED
      BY <1>1, <2>1, <2>2 DEF TypeOK
  <1>7. Excluded'
    BY <1>1, <1>2 DEF TypeOK, Excluded, WakeFree
  <1>8. ASSUME NEW d, Pending(d)
        PROVE  Pending(d)' /\ buffer'[d] = buffer[d]
    <2>1. d \in Desc /\ buffer[d] # p /\ buffer[d] \in Owners
      BY <1>1, <1>8 DEF Pending
    <2>2. d # h
      BY <1>1, <2>1 DEF RInv, Answered, h
    <2> QED
      BY <1>1, <1>3, <1>8, <2>1, <2>2 DEF Pending, TypeOK
  <1>9. Places'
    BY <1>1, <1>8, SMT DEF RInv, Places
  <1>10. Answered'
    <2> SUFFICES ASSUME NEW q \in Owners, q # p
                 PROVE  buffer'[index[q][1]] = q /\ (busy[q] \/ q \in moved)
      BY <1>1, <1>3 DEF Answered
    <2>1. index[q][1] # h /\ buffer[index[q][1]] = q /\ buffer[h] = p
      BY <1>1 DEF RInv, Answered, h
    <2>2. index[q][1] \in Desc
      BY <1>1 DEF TypeOK, Owners
    <2> QED
      BY <1>1, <2>1, <2>2 DEF RInv, Answered, TypeOK
  <1> QED
    BY <1>1, <1>3, <1>6, <1>7, <1>9, <1>10, WindowsKept DEF RInv

\* What Fill does to the variables, with the descriptors it takes.
LEMMA FillTakes ==
    ASSUME IInv, NEW p \in Procs, Fill(p)
    PROVE  \E i, j, k \in free :
             /\ i # j /\ i # k /\ j # k
             /\ free' = free \ {i, j, k}
             /\ index' = [index EXCEPT ![p] = <<i, j, k>>]
             /\ next' = [next EXCEPT ![i] = j, ![j] = k, ![k] = Nil]
             /\ status' = [status EXCEPT ![i] = "pending"]
             /\ buffer' = [buffer EXCEPT ![i] = p]
             /\ avail' = [avail EXCEPT !.ring[Slot(avail.index)] = i]
  <1> DEFINE i == First(free)
             j == First(free \ {i})
             k == First(free \ {i, j})
  <1>1. i \in free /\ j \in free \ {i} /\ k \in free \ {i, j}
    BY FillFree
  <1>2. /\ free' = free \ {i, j, k}
        /\ index' = [index EXCEPT ![p] = <<i, j, k>>]
        /\ next' = [next EXCEPT ![i] = j, ![j] = k, ![k] = Nil]
        /\ status' = [status EXCEPT ![i] = "pending"]
        /\ buffer' = [buffer EXCEPT ![i] = p]
        /\ avail' = [avail EXCEPT !.ring[Slot(avail.index)] = i]
    BY DEF Fill
  <1> HIDE DEF i, j, k
  <1> QED
    BY <1>1, <1>2

LEMMA FillRInv ==
    ASSUME IInv, RInv, NEW p \in Procs, Fill(p)
    PROVE  RInv'
  <1>1. /\ TypeOK /\ pc[p] = "alloc" /\ p \notin Owners
        /\ pc' = [pc EXCEPT ![p] = "publish"]
        /\ busy' = [busy EXCEPT ![p] = TRUE]
        /\ UNCHANGED <<taken, working, irq, moved, used, usedIndex, holder>>
    BY DEF RInv, Fill, Owners, device
  <1>2. PICK i, j, k \in free :
          /\ i # j /\ i # k /\ j # k
          /\ free' = free \ {i, j, k}
          /\ index' = [index EXCEPT ![p] = <<i, j, k>>]
          /\ next' = [next EXCEPT ![i] = j, ![j] = k, ![k] = Nil]
          /\ status' = [status EXCEPT ![i] = "pending"]
          /\ buffer' = [buffer EXCEPT ![i] = p]
          /\ avail' = [avail EXCEPT !.ring[Slot(avail.index)] = i]
    BY FillTakes
  <1>3. holder = p /\ \A q \in Procs : pc[q] # "publish"
    BY <1>1, OneAtATime DEF RInv, Excluded
  <1>4. Filled = 0 /\ Filled' = 1 /\ Owners' = Owners \cup {p}
    BY <1>1, <1>3 DEF TypeOK, Filled, Owners
  <1>5. i \in Desc /\ j \in Desc /\ k \in Desc /\ i # Nil
    BY <1>1, VirtioAssumption DEF TypeOK, Desc
  <1>6. /\ avail.ring \in [Desc -> Desc \cup {Nil}] /\ avail.index \in 0 .. IndexMod - 1
        /\ avail'.ring = [avail.ring EXCEPT ![Slot(avail.index)] = i]
        /\ avail'.index = avail.index /\ taken \in 0 .. IndexMod - 1
        /\ Slot(avail.index) \in Desc
    BY <1>1, <1>2, SlotSucc DEF TypeOK, Ring
  <1>7. TypeOK'
    <2>1. avail' \in Ring
      BY <1>1, <1>2, <1>5, <1>6 DEF TypeOK, Ring
    <2>2. free' \subseteq Desc /\ next' \in [Desc -> Desc \cup {Nil}]
      BY <1>1, <1>2, <1>5 DEF TypeOK
    <2>3. /\ index' \in [Procs -> Desc \X Desc \X Desc]
          /\ status' \in [Desc -> {"pending", "ok"}]
          /\ buffer' \in [Desc -> Procs \cup {Nil}]
      BY <1>1, <1>2, <1>5 DEF TypeOK
    <2> QED
      BY <1>1, <2>1, <2>2, <2>3 DEF TypeOK, PCs
  <1>8. Excluded'
    BY <1>1, <1>3 DEF RInv, TypeOK, Excluded
  <1>9. ASSUME NEW q \in Owners
        PROVE  /\ q # p /\ q \in Procs /\ index'[q] = index[q] /\ index[q][1] \in Desc
               /\ index[q][1] # i /\ busy'[q] = busy[q]
    <2>1. q # p /\ q \in Procs
      BY <1>1 DEF Owners
    <2>2. index[q][1] \in Desc /\ index[q][1] \notin free
      BY <1>1, <2>1 DEF IInv, TypeOK, Owned
    <2> QED
      BY <1>1, <1>2, <2>1, <2>2 DEF TypeOK
  <1>10. ASSUME NEW d, Pending(d)
         PROVE  Pending(d)' /\ buffer'[d] = buffer[d] /\ status'[d] = status[d] /\ d # i
    <2>1. d \in Desc /\ buffer[d] \in Owners /\ d = index[buffer[d]][1] /\ d # i
      BY <1>9, <1>10 DEF Pending
    <2>2. buffer'[d] = buffer[d] /\ status'[d] = status[d]
      BY <1>1, <1>2, <2>1 DEF TypeOK
    <2> QED
      BY <1>4, <1>9, <1>10, <2>1, <2>2 DEF Pending
  <1>11. Pending(i)' /\ buffer'[i] = p
    BY <1>1, <1>2, <1>4, <1>5 DEF Pending, TypeOK
  <1>12. Places'
    <2>1. \A s \in Desc : avail'.ring[s] = IF s = Slot(avail.index) THEN i ELSE avail.ring[s]
      BY <1>6
    <2>2. i \notin working /\ \A s \in Desc : avail.ring[s] # i /\ used.ring[s] # i
      BY <1>5, <1>10, SMT DEF RInv, Places
    <2>3. (\A s \in Desc : avail.ring[s] # Nil =>
             Pending(avail.ring[s]) /\ avail.ring[s] \notin working)'
      BY <1>1, <1>10, <1>11, <2>1, <2>2 DEF RInv, Places
    <2>4. \A s, t \in Desc : avail'.ring[s] # Nil => avail'.ring[s] # used'.ring[t]
      BY <1>1, <2>1, <2>2, SMT DEF RInv, Places
    <2>5. \A s, t \in Desc : avail'.ring[s] # Nil /\ avail'.ring[s] = avail'.ring[t] => s = t
      BY <2>1, <2>2 DEF RInv, Places
    <2> QED
      BY <1>1, <1>10, <2>3, <2>4, <2>5 DEF RInv, Places
  <1>13. Answered'
    <2>1. index'[p][1] = i /\ busy'[p] = TRUE
      BY <1>1, <1>2 DEF TypeOK
    <2>2. \A q \in Owners : buffer'[index'[q][1]] = q /\ (busy'[q] \/ q \in moved')
      BY <1>1, <1>2, <1>9 DEF RInv, Answered, TypeOK
    <2> QED
      BY <1>4, <1>11, <2>1, <2>2 DEF Answered
  <1>14. Windows'
    <2>1. PICK n \in Nat : Window(avail.ring, taken, avail.index, n, n)
      BY <1>4, SMT DEF RInv, Windows
    <2>2. Window(avail'.ring, taken, avail.index, n, n + 1)
      BY <1>5, <1>6, <2>1, WindowFill, SMT
    <2> QED
      BY <1>1, <1>4, <1>6, <2>2 DEF RInv, Windows
  <1> QED
    BY <1>7, <1>8, <1>12, <1>13, <1>14 DEF RInv

\* The device takes a request that is pending.
LEMMA TakeRInv ==
    ASSUME RInv, Take
    PROVE  RInv'
  <1> DEFINE a == Slot(taken)
             d == avail.ring[a]
  <1>1. /\ TypeOK /\ taken # avail.index /\ working' = working \cup {d}
        /\ avail' = [avail EXCEPT !.ring[a] = Nil] /\ taken' = Succ(taken)
        /\ UNCHANGED <<free, next, buffer, status, busy, index, irq, moved, used, usedIndex,
                       holder, pc>>
    BY DEF RInv, Take, driver
  <1>2. /\ avail.ring \in [Desc -> Desc \cup {Nil}] /\ avail.index \in 0 .. IndexMod - 1
        /\ avail'.ring = [avail.ring EXCEPT ![a] = Nil]
        /\ avail'.index = avail.index /\ taken \in 0 .. IndexMod - 1 /\ a \in Desc
    BY <1>1, SlotSucc DEF TypeOK, Ring
  <1>3. Filled \in {0, 1} /\ Filled' = Filled /\ Owners' = Owners
    BY <1>1 DEF Filled, Owners
  <1>4. PICK n \in Nat : Window(avail.ring, taken, avail.index, n, n + Filled)
    BY DEF RInv, Windows
  <1>5. /\ n + Filled \in Nat /\ n <= n + Filled /\ n + Filled <= NUM_DESCS
        /\ n + Filled - 1 = (n - 1) + Filled
    BY <1>3, <1>4, VirtioAssumption, SMT DEF Window
  <1>6. /\ d \in Desc /\ n - 1 \in Nat
        /\ Window([avail.ring EXCEPT ![a] = Nil], Succ(taken), avail.index, n - 1, (n - 1) + Filled)
    <2> DEFINE m == n + Filled
               r == avail.ring
    <2>1. /\ m \in Nat /\ n <= m /\ m <= NUM_DESCS /\ Window(r, taken, avail.index, n, m)
          /\ r \in [Desc -> Desc \cup {Nil}]
      BY <1>2, <1>4, <1>5
    <2> HIDE DEF m, r
    <2>2. /\ r[Slot(taken)] \in Desc /\ n > 0
          /\ Window([r EXCEPT ![Slot(taken)] = Nil], Succ(taken), avail.index, n - 1, m - 1)
      BY <1>1, <1>2, <2>1, WindowShrink
    <2>3. n - 1 \in Nat
      BY <2>2, SMT
    <2>4. m - 1 = (n - 1) + Filled
      BY <1>3, SMT DEF m
    <2> QED
      BY <2>2, <2>3, <2>4 DEF r
  <1>7. d # Nil
    BY <1>6, VirtioAssumption DEF Desc
  <1>8. Windows'
    BY <1>1, <1>2, <1>3, <1>6 DEF RInv, Windows
  <1>9. TypeOK'
    <2>1. avail' \in Ring
      BY <1>1, <1>2 DEF TypeOK, Ring
    <2>2. taken' \in 0 .. IndexMod - 1
      BY <1>1, <1>2, SlotSucc
    <2>3. working' \subseteq Desc
      BY <1>1, <1>6 DEF TypeOK
    <2> QED
      BY <1>1, <2>1, <2>2, <2>3 DEF TypeOK
  <1>10. \A x : Pending(x)' <=> Pending(x)
    BY <1>1, <1>3 DEF Pending
  <1>11. Places'
    <2>1. \A s \in Desc : avail'.ring[s] = IF s = a THEN Nil ELSE avail.ring[s]
      BY <1>2
    <2>2. Pending(d) /\ \A s \in Desc : used.ring[s] # d /\ (s # a => avail.ring[s] # d)
      BY <1>2, <1>7 DEF RInv, Places
    <2> HIDE DEF d
    <2>3. \A s \in Desc : avail'.ring[s] # Nil =>
             Pending(avail'.ring[s]) /\ avail'.ring[s] \notin working'
      BY <1>1, <2>1, <2>2, SMT DEF RInv, Places
    <2>4. \A x \in working' : Pending(x)
      BY <1>1, <2>2 DEF RInv, Places
    <2>5. \A s \in Desc : used.ring[s] # Nil => used.ring[s] \notin working'
      BY <1>1, <2>2 DEF RInv, Places
    <2>6. /\ \A s, t \in Desc : avail'.ring[s] # Nil => avail'.ring[s] # used.ring[t]
          /\ \A s, t \in Desc : avail'.ring[s] # Nil /\ avail'.ring[s] = avail'.ring[t] => s = t
      BY <2>1 DEF RInv, Places
    <2> QED
      BY <1>1, <1>10, <2>3, <2>4, <2>5, <2>6 DEF RInv, Places
  <1>12. Answered' /\ Excluded'
    BY <1>1, <1>3 DEF RInv, Answered, Excluded
  <1> QED
    BY <1>8, <1>9, <1>11, <1>12 DEF RInv

\* It completes one: the answer goes to a slot of used that is empty.
LEMMA CompleteRInv ==
    ASSUME IInv, RInv, NEW i \in Desc, Complete(i)
    PROVE  RInv'
  <1> DEFINE u == Slot(used.index)
             p == buffer[i]
  <1>1. /\ TypeOK /\ i \in working /\ working' = working \ {i} /\ moved' = moved \cup {p}
        /\ status' = [status EXCEPT ![i] = "ok"]
        /\ used' = [ring |-> [used.ring EXCEPT ![u] = i], index |-> Succ(used.index)]
        /\ irq' = TRUE
        /\ UNCHANGED <<free, next, buffer, busy, index, taken, avail, usedIndex, holder, pc>>
    BY DEF RInv, Complete
  <1>2. Pending(i) /\ p \in Owners /\ p \in Procs
    BY <1>1 DEF RInv, Places, Pending, Owners
  <1>3. /\ used.ring \in [Desc -> Desc \cup {Nil}] /\ used.index \in 0 .. IndexMod - 1
        /\ used'.ring = [used.ring EXCEPT ![u] = i] /\ used'.index = Succ(used.index)
        /\ usedIndex \in 0 .. IndexMod - 1 /\ u \in Desc /\ Succ(used.index) \in 0 .. IndexMod - 1
    BY <1>1, SlotSucc DEF TypeOK, Ring
  <1>4. Filled' = Filled /\ Owners' = Owners /\ \A d : Pending(d)' <=> Pending(d)
    BY <1>1 DEF Filled, Owners, Pending
  <1>5. i # Nil
    BY VirtioAssumption DEF Desc
  <1>6. TypeOK'
    <2>1. used' \in Ring
      BY <1>1, <1>3 DEF Ring
    <2> QED
      BY <1>1, <1>2, <2>1 DEF TypeOK
  <1>7. \A s \in Desc : used'.ring[s] = IF s = u THEN i ELSE used.ring[s]
    BY <1>3
  <1>8. \A s \in Desc : avail.ring[s] # i /\ used.ring[s] # i
    BY <1>1, <1>5, SMT DEF RInv, Places
  <1>9. Places'
    <2>1. (\A s \in Desc : avail.ring[s] # Nil =>
             Pending(avail.ring[s]) /\ avail.ring[s] \notin working)'
      BY <1>1, <1>4 DEF RInv, Places
    <2>2. (\A d \in working : Pending(d))'
      BY <1>1, <1>4 DEF RInv, Places
    <2>3. (\A s \in Desc : used.ring[s] # Nil =>
             /\ Pending(used.ring[s]) /\ used.ring[s] \notin working
             /\ status[used.ring[s]] = "ok" /\ buffer[used.ring[s]] \in moved)'
      <3> SUFFICES ASSUME NEW s \in Desc, used'.ring[s] # Nil
                   PROVE  /\ Pending(used'.ring[s]) /\ used'.ring[s] \notin working'
                          /\ status'[used'.ring[s]] = "ok" /\ buffer[used'.ring[s]] \in moved'
        BY <1>1, <1>4
      <3>1. CASE s = u
        BY <1>1, <1>2, <1>7, <3>1, SMT DEF TypeOK
      <3>2. CASE s # u
        <4>1. used'.ring[s] = used.ring[s] /\ used.ring[s] # i
          BY <1>7, <1>8, <3>2
        <4>2. /\ Pending(used.ring[s]) /\ used.ring[s] \notin working
              /\ status[used.ring[s]] = "ok" /\ buffer[used.ring[s]] \in moved
          BY <4>1 DEF RInv, Places
        <4>3. status'[used.ring[s]] = status[used.ring[s]]
          BY <1>1, <4>1, <4>2 DEF TypeOK, Pending
        <4> QED
          BY <1>1, <4>1, <4>2, <4>3, SMT
      <3> QED
        BY <3>1, <3>2
    <2>4. \A s, t \in Desc : avail.ring[s] # Nil => avail.ring[s] # used'.ring[t]
      BY <1>7, <1>8, SMT DEF RInv, Places
    <2>5. \A s, t \in Desc : used'.ring[s] # Nil /\ used'.ring[s] = used'.ring[t] => s = t
      BY <1>7, <1>8 DEF RInv, Places
    <2>6. \A s, t \in Desc : avail.ring[s] # Nil /\ avail.ring[s] = avail.ring[t] => s = t
      BY DEF RInv, Places
    <2> QED
      BY <1>1, <2>1, <2>2, <2>3, <2>4, <2>5, <2>6 DEF Places
  <1>10. Answered' /\ Excluded'
    BY <1>1, <1>4 DEF RInv, Answered, Excluded
  <1>11. Windows'
    <2> DEFINE r == used'.ring
    <2>1. PICK n \in Nat : Window(used.ring, usedIndex, used.index, n, n)
      BY DEF RInv, Windows
    <2>2. Window(r, usedIndex, used.index, n, n + 1)
      BY <1>3, <2>1, WindowFill, SMT
    <2>3. r \in [Desc -> Desc \cup {Nil}]
      BY <1>3
    <2>4. index[p][3] \in Desc /\ index[p][3] # Nil /\ \A s \in Desc : r[s] # index[p][3]
      <3>1. index[p][3] \in Desc /\ ~ Pending(index[p][3])
        BY <1>2, ThirdIsNoHead
      <3>2. index[p][3] # Nil
        BY <3>1, VirtioAssumption DEF Desc
      <3> QED
        BY <1>4, <1>9, <3>1, <3>2 DEF Places
    <2>5. \A s, t \in Desc : r[s] # Nil /\ r[s] = r[t] => s = t
      BY <1>9 DEF Places
    <2> HIDE DEF r, p
    <2>6. n + 1 < NUM_DESCS
      BY <1>3, <2>2, <2>3, <2>4, <2>5, RingNotFull
    <2>7. Window(r, usedIndex, Succ(used.index), n + 1, n + 1) /\ n + 1 \in Nat
      BY <1>3, <2>2, <2>6, WindowGrow, SMT
    <2> QED
      BY <1>1, <1>3, <1>4, <2>7 DEF r, RInv, Windows
  <1> QED
    BY <1>6, <1>9, <1>10, <1>11 DEF RInv

\* What the handler finds in used.
LEMMA HandlerFinds ==
    ASSUME RInv, usedIndex # used.index
    PROVE  /\ Handled \in Desc /\ used.ring[Handled] \in Desc /\ Pending(used.ring[Handled])
           /\ status[used.ring[Handled]] = "ok" /\ buffer[used.ring[Handled]] \in moved
           /\ \E n \in Nat :
                 Window([used.ring EXCEPT ![Handled] = Nil], Succ(usedIndex), used.index, n, n)
  <1>1. /\ used.ring \in [Desc -> Desc \cup {Nil}] /\ used.index \in 0 .. IndexMod - 1
        /\ usedIndex \in 0 .. IndexMod - 1 /\ Slot(usedIndex) \in Desc
    BY SlotSucc DEF RInv, TypeOK, Ring
  <1>2. PICK n \in Nat : Window(used.ring, usedIndex, used.index, n, n)
    BY DEF RInv, Windows
  <1>3. n <= n /\ n <= NUM_DESCS
    BY <1>2, VirtioAssumption, SMT DEF Window
  <1> DEFINE r == used.ring
  <1>4. /\ r[Slot(usedIndex)] \in Desc /\ n > 0
        /\ Window([r EXCEPT ![Slot(usedIndex)] = Nil], Succ(usedIndex), used.index, n - 1, n - 1)
    <2> HIDE DEF r
    <2> QED
      BY <1>1, <1>2, <1>3, WindowShrink DEF r
  <1>5. r[Slot(usedIndex)] # Nil
    BY <1>4, VirtioAssumption DEF Desc
  <1>6. n - 1 \in Nat
    BY <1>4, SMT
  <1> QED
    BY <1>1, <1>4, <1>5, <1>6 DEF RInv, Places, Handled

\* The handler ends the wait of the call whose answer it has found.
LEMMA HandleRInv ==
    ASSUME RInv, Handle
    PROVE  RInv'
  <1> DEFINE u == Handled
             d == used.ring[u]
             p == buffer[d]
  <1>1. /\ TypeOK /\ holder = Handler /\ usedIndex # used.index
        /\ busy' = [busy EXCEPT ![p] = FALSE] /\ pc' = WakeBuf(pc, p)
        /\ used' = [used EXCEPT !.ring[u] = Nil] /\ usedIndex' = Succ(usedIndex)
        /\ UNCHANGED <<free, next, buffer, status, index, taken, working, irq, moved, avail,
                       holder>>
    BY DEF RInv, Handle, device
  <1>2. u \in Desc /\ d \in Desc /\ Pending(d) /\ p \in moved
    BY <1>1, HandlerFinds
  <1>3. PICK n \in Nat : Window([used.ring EXCEPT ![u] = Nil], Succ(usedIndex), used.index, n, n)
    BY <1>1, HandlerFinds
  <1>4. /\ used.ring \in [Desc -> Desc \cup {Nil}] /\ used.index \in 0 .. IndexMod - 1
        /\ used'.ring = [used.ring EXCEPT ![u] = Nil] /\ used'.index = used.index
        /\ Succ(usedIndex) \in 0 .. IndexMod - 1
    BY <1>1, SlotSucc DEF TypeOK, Ring
  <1>5. p \in Procs /\ p \in Owners /\ index[p][1] = d
    BY <1>2 DEF Pending, Owners
  <1> HIDE DEF u, p
  <1>6. Owners' = Owners /\ Filled' = Filled
    BY <1>1 DEF TypeOK, Owners, Filled, WakeBuf
  <1>7. TypeOK'
    <2>1. used' \in Ring
      BY <1>1, <1>4 DEF TypeOK, Ring
    <2>2. busy' \in [Procs -> BOOLEAN] /\ pc' \in [Procs -> PCs]
      BY <1>1 DEF TypeOK, WakeBuf, PCs
    <2> QED
      BY <1>1, <1>4, <2>1, <2>2 DEF TypeOK
  <1>8. ASSUME NEW x, Pending(x), x # d
        PROVE  Pending(x)'
    <2>1. buffer[x] # p /\ buffer[x] \in Procs
      BY <1>5, <1>8 DEF Pending, Owners
    <2> QED
      BY <1>1, <1>6, <1>8, <2>1 DEF Pending, TypeOK
  <1>9. Places'
    <2>1. \A s \in Desc : used'.ring[s] = IF s = u THEN Nil ELSE used.ring[s]
      BY <1>4
    <2>2. /\ d \notin working /\ d # Nil
          /\ \A s \in Desc : avail.ring[s] # d /\ (s # u => used.ring[s] # d)
      BY <1>2, VirtioAssumption DEF RInv, Places, Desc
    <2> HIDE DEF d
    <2>3. (\A s \in Desc : avail.ring[s] # Nil =>
             Pending(avail.ring[s]) /\ avail.ring[s] \notin working)'
      BY <1>1, <1>8, <2>2 DEF RInv, Places
    <2>4. (\A x \in working : Pending(x))'
      BY <1>1, <1>8, <2>2 DEF RInv, Places
    <2>5. (\A s \in Desc : used.ring[s] # Nil =>
             /\ Pending(used.ring[s]) /\ used.ring[s] \notin working
             /\ status[used.ring[s]] = "ok" /\ buffer[used.ring[s]] \in moved)'
      BY <1>1, <1>8, <2>1, <2>2, SMT DEF RInv, Places
    <2>6. /\ \A s, t \in Desc : avail.ring[s] # Nil => avail.ring[s] # used'.ring[t]
          /\ \A s, t \in Desc : used'.ring[s] # Nil /\ used'.ring[s] = used'.ring[t] => s = t
          /\ \A s, t \in Desc : avail.ring[s] # Nil /\ avail.ring[s] = avail.ring[t] => s = t
      BY <2>1, SMT DEF RInv, Places
    <2> QED
      BY <1>1, <2>3, <2>4, <2>5, <2>6 DEF Places
  <1>10. Answered'
    BY <1>1, <1>2, <1>6 DEF RInv, Answered, TypeOK, p, Owners
  <1>11. Excluded'
    BY <1>1 DEF RInv, Excluded, WakeBuf, TypeOK
  <1>12. Windows'
    BY <1>1, <1>3, <1>4, <1>6 DEF RInv, Windows
  <1> QED
    BY <1>7, <1>9, <1>10, <1>11, <1>12 DEF RInv

LEMMA NextRInv == IInv /\ RInv /\ [Next]_vars => RInv'
  <1> SUFFICES ASSUME IInv, RInv, [Next]_vars
               PROVE  RInv'
    OBVIOUS
  <1>1. CASE UNCHANGED vars
    BY <1>1, RequestsKept, WindowsKept
      DEF vars, driver, device, RInv, TypeOK, Owners, Filled, Excluded
  <1>2. CASE \E p \in Procs : Call(p) \/ Step(p)
    BY <1>2, ControlRInv, FillRInv, AllocateFailsRInv, PublishRInv, FinishRInv DEF Step
  <1>3. CASE Take
    BY <1>3, TakeRInv
  <1>4. CASE \E i \in Desc : Complete(i)
    BY <1>4, CompleteRInv
  <1>5. CASE Handle
    BY <1>5, HandleRInv
  <1>6. CASE Acknowledge \/ Leave
    <2>1. /\ UNCHANGED <<driver, taken, working, moved, avail, used, usedIndex, pc>>
          /\ holder \notin Procs /\ holder' \in {Handler, Nil} /\ irq' \in BOOLEAN
      BY <1>6, VirtioAssumption DEF Acknowledge, Leave, RInv, TypeOK, driver, device
    <2>2. Owners' = Owners /\ Filled' = Filled
      BY <2>1 DEF Owners, Filled
    <2>3. Excluded'
      BY <2>1 DEF RInv, Excluded
    <2>4. TypeOK'
      BY <2>1 DEF RInv, TypeOK, driver
    <2> QED
      BY <2>1, <2>2, <2>3, <2>4, RequestsKept, WindowsKept DEF RInv, driver
  <1> QED
    BY <1>1, <1>2, <1>3, <1>4, <1>5, <1>6 DEF Next, Interrupt
-----------------------------------------------------------------------------
(***************************************************************************)
(* Theorems.                                                               *)
(***************************************************************************)
\* Both invariants hold in every state.
LEMMA Invariant == Spec => [](IInv /\ RInv)
<1> QED
  BY InitIInv, NextIInv, InitRInv, NextRInv, PTL DEF Spec

\* diskrw never goes on without a chain, although its retry loop would not notice.
THEOREM VirtioNeverOutOfDescriptors == Spec => []NeverOutOfDescriptors
<1>1. IInv => NeverOutOfDescriptors
  BY DEF IInv
<1> QED
  BY <1>1, Invariant, PTL

\* Every descriptor is free or in the chain of exactly one call.
THEOREM VirtioDescriptorsAccounted == Spec => []DescriptorsAccounted
<1>1. IInv => DescriptorsAccounted
  <2> SUFFICES ASSUME IInv
               PROVE  DescriptorsAccounted
    OBVIOUS
  <2>1. \A p \in Owners : Chain(index[p][1]) = Owned(p)
    BY VirtioAssumption, SMT DEF IInv, Chain, Linked, Owned, Owners, DriverTypes, Desc
  <2> QED
    BY <2>1 DEF IInv, DescriptorsAccounted
<1> QED
  BY <1>1, Invariant, PTL

\* No process sleeps through the end of its transfer or the return of a chain.
THEOREM VirtioNoLostWakeup == Spec => []NoLostWakeup
<1>1. IInv => NoLostWakeup
  BY DEF IInv
<1> QED
  BY <1>1, Invariant, PTL

\* diskInterrupt finds a completed request of a waiting buffer, whatever the
\* numbers of processes and descriptors and wherever the indices wrap.
THEOREM VirtioHandlerFindsCompletion == Spec => []HandlerFindsCompletion
<1>1. RInv => HandlerFindsCompletion
  BY HandlerFinds DEF HandlerFindsCompletion, Pending, Owners
<1> QED
  BY <1>1, Invariant, PTL

\* diskrw returns only when the device has moved the data of this call.
THEOREM VirtioReturnsAfterTransfer == Spec => ReturnsAfterTransfer
<1>1. ASSUME RInv, [Next]_vars, NEW p \in Procs, pc[p] = "wait", pc'[p] = "idle"
      PROVE  p \in moved
  <2>1. TypeOK /\ p \in Owners
    BY <1>1 DEF RInv, Owners
  <2>2. \E q \in Procs : Finish(q) /\ q = p
    BY <1>1, <2>1 DEF Next, vars, Step, Call, Fill, AllocateFails, Publish, Wait, Finish, Wake,
      Take, Complete, Interrupt, Acknowledge, Handle, Leave, TypeOK, WakeFree, WakeBuf, FreedWakes
  <2>3. ~ busy[p]
    BY <2>2 DEF Finish, Finished
  <2> QED
    BY <1>1, <2>1, <2>3 DEF RInv, Answered
<1>2. RInv /\ [Next]_vars =>
        [\A p \in Procs : (pc[p] = "wait" /\ pc'[p] = "idle") => p \in moved]_vars
  BY <1>1
<1> QED
  BY <1>2, Invariant, PTL DEF Spec, ReturnsAfterTransfer

\* The state of the driver and of the device keeps its type.
THEOREM VirtioTypeCorrect == Spec => []TypeOK
<1>1. RInv => TypeOK
  BY DEF RInv
<1> QED
  BY <1>1, Invariant, PTL
=============================================================================
