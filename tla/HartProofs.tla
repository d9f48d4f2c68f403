----------------------------- MODULE HartProofs -----------------------------
(***************************************************************************)
(* Proofs about Process, for every number of processes, and about the spin *)
(* mutexes of the hart they run on.                                        *)
(*                                                                         *)
(* The invariant of Process needs more than its properties.  A list of the *)
(* sleep table has only processes that sleep on its channel (Good), or     *)
(* wakeup could make a process ready that has exited.  Which process is    *)
(* Running says who has the hart (OnHart).  A process that fork has not    *)
(* registered is in no list (Born, Forks), so that nobody loses it, and    *)
(* the copies of a process are counted with the one that Scheduler::run    *)
(* has in its hands and may register once more (Bounded).                  *)
(***************************************************************************)
EXTENDS Process, SpinMutex, FiniteSetTheorems, SequenceTheorems, TLAPS

\* Whether interrupts are on fits what the code is.
Matches(k, b) == /\ k = "syscall" => b = TRUE
                 /\ k \in {"timer", "handler"} => b = FALSE

\* The mutexes that are set are the ones the running code holds, and counted.
Counts == /\ locked = held[cur]
          /\ IsFiniteSet(held[cur])
          /\ numLocks = Cardinality(held[cur])

\* The flag of the Cpu is what the running code wants back when it holds a
\* mutex, and the bit of sstatus is when it holds none.
Flags == /\ held[cur] # {} => sie = FALSE /\ Matches(kind[cur], enabled)
         /\ held[cur] = {} => Matches(kind[cur], sie)

\* The process or scheduler the hart is not in holds one mutex, that of the
\* process, and a process has saved the flag that it wants back.
Suspended ==
    /\ \A p \in Threads : p # cur =>
          /\ held[p] = {p} /\ kind[p] # "user"
          /\ kind[p] # "fork" => Matches(kind[p], saved[p])
    /\ cur \in Threads => held[Sched] = {cur} /\ kind[Sched] = "run"

\* Which code runs where, and that a handler has interrupted code that holds
\* no mutex.
Places ==
    /\ kind[Sched] \in {"run", "handler"}
    /\ \A p \in Threads : kind[p] # "run"
    /\ kind[cur] # "fork"
    /\ kind[cur] = "user" => held[cur] = {}
    /\ \A c \in Contexts : kind[c] = "handler" =>
          /\ under[c].held = {}
          /\ under[c].kind \in (IF c = Sched THEN {"run"} ELSE {"syscall", "new"})

MutexInv == MutexTypeOK /\ Counts /\ Flags /\ Suspended /\ Places

\* The invariant holds at the start.
LEMMA MutexInitInv == MutexInit => MutexInv
<1> SUFFICES ASSUME MutexInit PROVE MutexInv
  OBVIOUS
<1> USE SpinMutexAssumption DEF MutexInit
<1>1. MutexTypeOK
  BY ZenonT(30) DEF MutexTypeOK, Contexts, Locks, Kinds, Interruptible, Nothing
<1>2. Counts
  BY FS_EmptySet DEF Counts, Contexts
<1>3. Flags
  BY DEF Flags, Contexts, Matches
<1>4. Suspended
  BY DEF Suspended, Contexts
<1>5. Places
  BY DEF Places, Contexts
<1> QED
  BY <1>1, <1>2, <1>3, <1>4, <1>5 DEF MutexInv

\* Taking a mutex keeps it.
LEMMA MutexLockInv == ASSUME MutexInv, NEW m \in Locks, Lock(m) PROVE MutexInv'
<1> USE SpinMutexAssumption DEF Lock, Pushed, Counted
<1>1. cur \in Contexts /\ cur' = cur /\ kind' = kind /\ under' = under /\ saved' = saved
  BY DEF MutexInv, MutexTypeOK
<1>2. held'[cur] = held[cur] \cup {m} /\ \A c \in Contexts : c # cur => held'[c] = held[c]
  BY DEF MutexInv, MutexTypeOK
<1>3. MutexTypeOK'
  <2>1. enabled' \in BOOLEAN /\ sie' \in BOOLEAN
    BY ZenonT(30) DEF MutexInv, MutexTypeOK
  <2>2. numLocks' \in Nat /\ locked' \subseteq Locks
    BY DEF MutexInv, MutexTypeOK
  <2>3. held' \in [Contexts -> SUBSET Locks]
    BY DEF MutexInv, MutexTypeOK
  <2> QED
    BY <2>1, <2>2, <2>3 DEF MutexInv, MutexTypeOK
<1>4. Counts'
  <2>1. IsFiniteSet(held[cur] \cup {m})
        /\ Cardinality(held[cur] \cup {m}) = Cardinality(held[cur]) + 1
    <3>1. IsFiniteSet(held[cur]) /\ m \notin held[cur]
      BY DEF MutexInv, Counts
    <3> QED
      BY <3>1, FS_AddElement, ZenonT(30)
  <2> QED
    BY <1>1, <1>2, <2>1 DEF MutexInv, Counts
<1>5. Flags'
  <2>1. numLocks = 0 <=> held[cur] = {}
    BY FS_EmptySet DEF MutexInv, Counts
  <2> QED
    BY <1>1, <1>2, <2>1 DEF MutexInv, Flags
<1>6. Suspended'
  BY <1>1, <1>2 DEF MutexInv, Suspended, Contexts
<1>7. Places'
  BY <1>1, <1>2 DEF MutexInv, Places
<1> QED
  BY <1>3, <1>4, <1>5, <1>6, <1>7 DEF MutexInv

\* Releasing one keeps it.
LEMMA MutexUnlockInv == ASSUME MutexInv, NEW m \in Locks, Unlock(m) PROVE MutexInv'
<1> USE SpinMutexAssumption DEF Unlock, Popped
<1>1. cur \in Contexts /\ cur' = cur /\ kind' = kind /\ under' = under /\ saved' = saved
  BY DEF MutexInv, MutexTypeOK
<1>2. held'[cur] = held[cur] \ {m} /\ \A c \in Contexts : c # cur => held'[c] = held[c]
  BY DEF MutexInv, MutexTypeOK
<1>3. /\ IsFiniteSet(held[cur] \ {m})
      /\ Cardinality(held[cur] \ {m}) = Cardinality(held[cur]) - 1
  BY FS_RemoveElement DEF MutexInv, Counts
<1>4. Cardinality(held[cur] \ {m}) \in Nat
  BY <1>3, FS_CardinalityType
<1>5. MutexTypeOK'
  <2>1. numLocks' \in Nat
    BY <1>3, <1>4 DEF MutexInv, Counts
  <2>2. sie' \in BOOLEAN
    BY ZenonT(30) DEF MutexInv, MutexTypeOK
  <2> QED
    BY <2>1, <2>2, ZenonT(30) DEF MutexInv, MutexTypeOK
<1>6. Counts'
  BY <1>1, <1>2, <1>3, ZenonT(30) DEF MutexInv, Counts
<1>7. Flags'
  <2>1. numLocks = 1 <=> held[cur] \ {m} = {}
    <3> DEFINE S == held[cur] \ {m}
    <3>1. numLocks \in Nat /\ Cardinality(S) = numLocks - 1 /\ IsFiniteSet(S)
      BY <1>3 DEF MutexInv, Counts, MutexTypeOK
    <3> HIDE DEF S
    <3>2. Cardinality(S) = 0 <=> S = {}
      BY <3>1, FS_EmptySet
    <3>3. numLocks = 1 <=> Cardinality(S) = 0
      BY <3>1
    <3> QED
      BY <3>2, <3>3 DEF S
  <2>2. sie = FALSE /\ Matches(kind[cur], enabled) /\ enabled \in BOOLEAN
    BY DEF MutexInv, Flags, MutexTypeOK
  <2>3. CASE held[cur] \ {m} = {}
    <3>1. sie' = enabled
      BY <2>1, <2>2, <2>3, ZenonT(30)
    <3> QED
      BY <1>1, <1>2, <2>2, <2>3, <3>1, ZenonT(30) DEF Flags, Matches
  <2>4. CASE held[cur] \ {m} # {}
    <3>1. sie' = FALSE
      BY <2>1, <2>2, <2>4
    <3> QED
      BY <1>1, <1>2, <2>2, <2>4, <3>1, ZenonT(30) DEF Flags
  <2> QED
    BY <2>3, <2>4
<1>8. Suspended'
  BY <1>1, <1>2 DEF MutexInv, Suspended, Contexts
<1>9. Places'
  BY <1>1, <1>2 DEF MutexInv, Places
<1> QED
  BY <1>5, <1>6, <1>7, <1>8, <1>9, SMTT(30) DEF MutexInv

\* Switching to a process keeps it.
LEMMA MutexDispatchInv == ASSUME MutexInv, NEW p \in Threads, SwitchToProcess(p) PROVE MutexInv'
<1> USE SpinMutexAssumption DEF SwitchToProcess, Restored
<1>1. /\ cur = Sched /\ cur' = p /\ p # Sched /\ p \in Contexts
      /\ held' = held /\ held[Sched] = {p} /\ held[p] = {p}
      /\ under' = under /\ saved' = saved /\ sie' = sie
  BY DEF MutexInv, Suspended, Contexts
<1>2. /\ kind'[p] = (IF kind[p] = "fork" THEN "new" ELSE kind[p])
      /\ \A c \in Contexts : c # p => kind'[c] = kind[c]
  BY <1>1 DEF MutexInv, MutexTypeOK
<1>3. MutexTypeOK'
  <2>1. enabled' \in BOOLEAN
    BY <1>1 DEF MutexInv, MutexTypeOK
  <2>2. kind' \in [Contexts -> Kinds]
    BY ZenonT(30) DEF MutexInv, MutexTypeOK, Kinds, Interruptible
  <2> QED
    BY <1>1, <2>1, <2>2 DEF MutexInv, MutexTypeOK
<1>4. Counts'
  BY <1>1 DEF MutexInv, Counts
<1>5. Flags'
  <2>1. sie = FALSE
    BY <1>1 DEF MutexInv, Flags
  <2>2. Matches(kind'[p], enabled')
    BY <1>1, <1>2 DEF MutexInv, Suspended, Matches
  <2> QED
    BY <1>1, <2>1, <2>2 DEF Flags
<1>6. Suspended'
  BY <1>1, <1>2 DEF MutexInv, Suspended, Contexts
<1>7. Places'
  BY <1>1, <1>2 DEF MutexInv, Places, Suspended, Contexts
<1> QED
  BY <1>3, <1>4, <1>5, <1>6, <1>7 DEF MutexInv

\* Switching back to the scheduler keeps it.
LEMMA MutexRescheduleInv == ASSUME MutexInv, NEW p \in Threads, SwitchToScheduler(p) PROVE MutexInv'
<1> USE SpinMutexAssumption DEF SwitchToScheduler
<1>1. /\ cur = p /\ cur' = Sched /\ p # Sched /\ p \in Contexts
      /\ held' = held /\ held[Sched] = {p} /\ held[p] = {p}
      /\ kind' = kind /\ kind[Sched] = "run"
      /\ under' = under /\ sie' = sie /\ enabled' = enabled
  BY DEF MutexInv, Suspended, Contexts
<1>2. saved'[p] = enabled /\ \A q \in Threads : q # p => saved'[q] = saved[q]
  BY DEF MutexInv, MutexTypeOK
<1>3. MutexTypeOK'
  BY <1>1 DEF MutexInv, MutexTypeOK, Contexts
<1>4. Counts'
  BY <1>1 DEF MutexInv, Counts
<1>5. Flags'
  BY <1>1 DEF MutexInv, Flags, Matches
<1>6. Suspended'
  BY <1>1, <1>2, SMTT(30) DEF MutexInv, Suspended, Flags
<1>7. Places'
  BY <1>1 DEF MutexInv, Places
<1> QED
  BY <1>3, <1>4, <1>5, <1>6, <1>7, SMTT(30) DEF MutexInv

\* Traps from user mode keep it: no mutex is held there.
LEMMA MutexUserTrapInv ==
    ASSUME MutexInv, NEW k \in {"syscall", "timer"}, UserTrap(k) PROVE MutexInv'
<1> USE SpinMutexAssumption DEF UserTrap
<1>1. /\ cur \in Threads /\ cur # Sched /\ cur' = cur /\ held' = held /\ held[cur] = {}
      /\ under' = under /\ saved' = saved
  BY DEF MutexInv, MutexTypeOK, Places, Contexts
<1>2. kind'[cur] = k /\ \A c \in Contexts : c # cur => kind'[c] = kind[c]
  BY DEF MutexInv, MutexTypeOK
<1>3. MutexTypeOK'
  <2>1. sie' \in BOOLEAN
    OBVIOUS
  <2>2. kind' \in [Contexts -> Kinds]
    BY DEF MutexInv, MutexTypeOK, Kinds, Interruptible
  <2> QED
    BY <2>1, <2>2 DEF MutexInv, MutexTypeOK
<1>4. Counts'
  BY <1>1 DEF MutexInv, Counts
<1>5. Flags'
  BY <1>1, <1>2, ZenonT(30) DEF MutexInv, Flags, Matches, Contexts
<1>6. Suspended'
  BY <1>1, <1>2 DEF MutexInv, Suspended, Contexts
<1>7. Places'
  BY <1>1, <1>2 DEF MutexInv, Places, Contexts
<1> QED
  BY <1>3, <1>4, <1>5, <1>6, <1>7, SMTT(30) DEF MutexInv

\* The return to user mode keeps it.
LEMMA MutexReturnUserTrapInv == ASSUME MutexInv, ReturnUserTrap PROVE MutexInv'
<1> USE SpinMutexAssumption DEF ReturnUserTrap
<1>1. /\ cur \in Threads /\ cur # Sched /\ cur' = cur /\ held' = held /\ held[cur] = {}
      /\ under' = under /\ saved' = saved
  BY DEF MutexInv, MutexTypeOK, Places, Contexts
<1>2. kind'[cur] = "user" /\ \A c \in Contexts : c # cur => kind'[c] = kind[c]
  BY DEF MutexInv, MutexTypeOK
<1>3. MutexTypeOK'
  BY ZenonT(30) DEF MutexInv, MutexTypeOK, Kinds, Interruptible
<1>4. Counts'
  BY <1>1 DEF MutexInv, Counts
<1>5. Flags'
  BY <1>1, <1>2 DEF MutexInv, Flags, Matches, Contexts
<1>6. Suspended'
  BY <1>1, <1>2 DEF MutexInv, Suspended, Contexts
<1>7. Places'
  BY <1>1, <1>2 DEF MutexInv, Places, Contexts
<1> QED
  BY <1>3, <1>4, <1>5, <1>6, <1>7 DEF MutexInv

\* An interrupt in the kernel keeps it: interrupts are on, so no mutex is held.
LEMMA MutexKernelTrapInv == ASSUME MutexInv, KernelTrap PROVE MutexInv'
<1> USE SpinMutexAssumption DEF KernelTrap
<1>1. cur \in Contexts /\ cur' = cur /\ saved' = saved /\ sie' = FALSE
  BY DEF MutexInv, MutexTypeOK
<1>2. held[cur] = {}
  BY DEF MutexInv, Flags
<1>3. held' = held
  BY <1>1, <1>2, SMTT(30) DEF MutexInv, MutexTypeOK
<1>4. /\ kind'[cur] = "handler" /\ \A c \in Contexts : c # cur => kind'[c] = kind[c]
      /\ under'[cur] = [kind |-> kind[cur], held |-> {}]
      /\ \A c \in Contexts : c # cur => under'[c] = under[c]
  BY <1>1, <1>2, SMTT(30) DEF MutexInv, MutexTypeOK
<1>5. MutexTypeOK'
  <2>1. under' \in [Contexts -> [kind : Kinds, held : SUBSET Locks]]
    BY <1>1 DEF MutexInv, MutexTypeOK
  <2>2. kind' \in [Contexts -> Kinds]
    BY DEF MutexInv, MutexTypeOK, Kinds
  <2> QED
    BY <1>1, <1>3, <2>1, <2>2, ZenonT(30) DEF MutexInv, MutexTypeOK
<1>6. Counts'
  BY <1>1, <1>3 DEF MutexInv, Counts
<1>7. Flags'
  BY <1>1, <1>2, <1>3, <1>4 DEF Flags, Matches
<1>8. Suspended'
  BY <1>1, <1>3, <1>4 DEF MutexInv, Suspended, Contexts
<1>9. Places'
  <2>1. under'[cur].held = {} /\ under'[cur].kind = kind[cur]
    BY <1>4
  <2>2. kind[cur] \in (IF cur = Sched THEN {"run"} ELSE {"syscall", "new"})
    BY <1>1 DEF MutexInv, Places, Interruptible, Contexts
  <2> QED
    BY <1>1, <1>3, <1>4, <2>1, <2>2, SMTT(30) DEF MutexInv, Places, Contexts
<1> QED
  BY <1>5, <1>6, <1>7, <1>8, <1>9 DEF MutexInv

\* The end of the handler keeps it.
LEMMA MutexKernelTrapReturnsInv == ASSUME MutexInv, KernelTrapReturns PROVE MutexInv'
<1> USE SpinMutexAssumption DEF KernelTrapReturns
<1>1. cur \in Contexts /\ cur' = cur /\ saved' = saved /\ sie' = TRUE /\ held[cur] = {}
  BY SMTT(30) DEF MutexInv, MutexTypeOK
<1>2. /\ under[cur].held = {}
      /\ under[cur].kind \in (IF cur = Sched THEN {"run"} ELSE {"syscall", "new"})
  BY <1>1 DEF MutexInv, Places
<1>3. held' = held
  BY <1>1, <1>2, SMTT(30) DEF MutexInv, MutexTypeOK
<1>4. /\ kind'[cur] = under[cur].kind /\ \A c \in Contexts : c # cur => kind'[c] = kind[c]
      /\ \A c \in Contexts : c # cur => under'[c] = under[c]
  BY <1>1, SMTT(30) DEF MutexInv, MutexTypeOK
<1>5. MutexTypeOK'
  <2>1. under' \in [Contexts -> [kind : Kinds, held : SUBSET Locks]]
    BY <1>1 DEF MutexInv, MutexTypeOK, Nothing, Kinds
  <2>2. kind' \in [Contexts -> Kinds]
    BY <1>1, SMTT(30) DEF MutexInv, MutexTypeOK
  <2> QED
    BY <1>1, <1>3, <2>1, <2>2, SMTT(30) DEF MutexInv, MutexTypeOK
<1>6. Counts'
  BY <1>1, <1>3, SMTT(30) DEF MutexInv, Counts
<1>7. Flags'
  BY <1>1, <1>2, <1>3, <1>4, SMTT(30) DEF Flags, Matches
<1>8. Suspended'
  BY <1>1, <1>3, <1>4, SMTT(30) DEF MutexInv, Suspended, Contexts
<1>9. Places'
  BY <1>1, <1>2, <1>3, <1>4, SMTT(30) DEF MutexInv, Places, Contexts
<1> QED
  BY <1>5, <1>6, <1>7, <1>8, <1>9, SMTT(30) DEF MutexInv

\* Every step keeps the invariant.
LEMMA MutexNextInv == MutexInv /\ [MutexNext]_(mutexVars) => MutexInv'
<1> SUFFICES ASSUME MutexInv, [MutexNext]_(mutexVars) PROVE MutexInv'
  OBVIOUS
<1>1. CASE UNCHANGED mutexVars
  BY <1>1 DEF mutexVars, MutexInv, MutexTypeOK, Counts, Flags, Suspended, Places
<1>2. CASE \E m \in Locks : Lock(m) \/ Unlock(m)
  BY <1>2, MutexLockInv, MutexUnlockInv
<1>3. CASE \E p \in Threads : SwitchToProcess(p) \/ SwitchToScheduler(p)
  BY <1>3, MutexDispatchInv, MutexRescheduleInv, SMTT(30)
<1>4. CASE EnableInterrupts
  BY <1>4, ZenonT(30) DEF EnableInterrupts, MutexInv, MutexTypeOK, Counts, Flags, Suspended, Places, Matches
<1>5. CASE UserTrap("syscall") \/ UserTrap("timer") \/ ReturnUserTrap
  BY <1>5, MutexUserTrapInv, MutexReturnUserTrapInv
<1>6. CASE KernelTrap \/ KernelTrapReturns
  BY <1>6, MutexKernelTrapInv, MutexKernelTrapReturnsInv
<1> QED
  BY <1>1, <1>2, <1>3, <1>4, <1>5, <1>6, SMTT(30) DEF MutexNext

\* The inductive invariant holds.
LEMMA MutexInvariance == MutexSpec => []MutexInv
  BY MutexInitInv, MutexNextInv, PTL DEF MutexSpec

\* On one hart no spin mutex is ever waited for, by any process, trap handler or
\* the scheduler, for any number of processes and mutexes.
THEOREM SpinMutexNeverSpins == MutexSpec => []NeverSpins
<1>1. MutexInv => NeverSpins
  BY DEF MutexInv, Counts, NeverSpins
<1> QED
  BY <1>1, MutexInvariance, PTL

\* Interrupts are off while a mutex is held and in the handlers of traps, and on in
\* a system call that holds none, across switches from one process to another.
THEOREM SpinMutexInterruptsRight == MutexSpec => []InterruptsRight
<1>1. MutexInv => InterruptsRight
  BY DEF MutexInv, Flags, Matches, InterruptsRight, Places
<1> QED
  BY <1>1, MutexInvariance, PTL

\* The assertions of reschedule hold whenever a process holds only its own mutex.
THEOREM SpinMutexRescheduleAsserts == MutexSpec => []RescheduleAsserts
<1>1. MutexInv => RescheduleAsserts
  <2> SUFFICES ASSUME MutexInv, held[cur] = {cur} PROVE numLocks = 1 /\ ~sie
    BY DEF RescheduleAsserts
  <2>1. numLocks = 1
    BY FS_Singleton, ZenonT(30) DEF MutexInv, Counts
  <2>2. sie = FALSE
    BY DEF MutexInv, Flags
  <2> QED
    BY <2>1, <2>2
<1> QED
  BY <1>1, MutexInvariance, PTL

\* The state keeps its type; in particular the count of mutexes never goes
\* below zero.
THEOREM SpinMutexTypeCorrect == MutexSpec => []MutexTypeOK
<1>1. MutexInv => MutexTypeOK
  BY DEF MutexInv
<1> QED
  BY <1>1, MutexInvariance, PTL
-----------------------------------------------------------------------------
(***************************************************************************)
(* Sequences and the copies of a process in them.                          *)
(***************************************************************************)
\* From here on Zenon proves most leaves; those that reason about numbers,
\* sequences or records cite SMT.
USE ZenonT(30)

Spots(q, x) == {i \in DOMAIN q : q[i] = x}

\* The copies of x are counted by their places, and there is one exactly when x is in q.
LEMMA Spotted ==
    ASSUME NEW S, NEW q \in Seq(S), NEW x
    PROVE  /\ IsFiniteSet(Spots(q, x)) /\ Copies(x, q) = Cardinality(Spots(q, x))
           /\ Copies(x, q) \in Nat /\ (Copies(x, q) = 0 <=> ~In(x, q))
<1>1. DOMAIN q = 1 .. Len(q) /\ Len(q) \in Nat
  BY LenProperties
<1>2. IsFiniteSet(1 .. Len(q))
  BY <1>1, FS_Interval, SMT
<1>3. Spots(q, x) \in SUBSET (1 .. Len(q))
  BY <1>1 DEF Spots
<1>4. IsFiniteSet(Spots(q, x))
  BY <1>2, <1>3, FS_Subset
<1>5. Copies(x, q) = Cardinality(Spots(q, x))
  BY DEF Copies, Spots
<1>6. In(x, q) <=> Spots(q, x) # {}
  BY DEF In, Spots
<1>. QED
  BY <1>4, <1>5, <1>6, FS_CardinalityType, FS_EmptySet

\* Places of x in q that go to different places of x in r are no more than those.
LEMMA FewerCopies ==
    ASSUME NEW T, NEW r \in Seq(T), NEW q, NEW x,
           NEW f \in [Spots(q, x) -> Spots(r, x)],
           \A i, j \in Spots(q, x) : f[i] = f[j] => i = j
    PROVE  Copies(x, q) <= Copies(x, r)
<1>1. f \in Injection(Spots(q, x), Spots(r, x))
  BY DEF Injection, IsInjective
<1>2. Cardinality(Spots(q, x)) <= Cardinality(Spots(r, x))
  BY <1>1, Spotted, FS_Injection
<1>. QED
  BY <1>2 DEF Copies, Spots

\* A process is put at the end of a sequence.
LEMMA Appended ==
    ASSUME NEW S, NEW q \in Seq(S), NEW y \in S
    PROVE  /\ Append(q, y) \in Seq(S)
           /\ \A x : /\ In(x, Append(q, y)) <=> In(x, q) \/ x = y
                     /\ Copies(x, Append(q, y)) = Copies(x, q) + (IF x = y THEN 1 ELSE 0)
<1> DEFINE r == Append(q, y)
<1>1. /\ r \in Seq(S) /\ Len(q) \in Nat /\ DOMAIN q = 1 .. Len(q)
      /\ DOMAIN r = 1 .. Len(q) + 1 /\ r[Len(q) + 1] = y
      /\ \A i \in 1 .. Len(q) : r[i] = q[i]
  <2>1. r \in Seq(S) /\ Len(r) = Len(q) + 1 /\ Len(q) \in Nat /\ DOMAIN q = 1 .. Len(q)
    BY AppendProperties, LenProperties
  <2>2. DOMAIN r = 1 .. Len(r)
    BY <2>1, LenProperties
  <2>3. r[Len(q) + 1] = y /\ \A i \in 1 .. Len(q) : r[i] = q[i]
    BY AppendProperties, SMT
  <2>. QED
    BY <2>1, <2>2, <2>3
<1> HIDE DEF r
<1>2. DOMAIN r = DOMAIN q \cup {Len(q) + 1} /\ Len(q) + 1 \notin DOMAIN q
  BY <1>1, SMT
<1>3. ASSUME NEW x
      PROVE  /\ In(x, r) <=> In(x, q) \/ x = y
             /\ Copies(x, r) = Copies(x, q) + (IF x = y THEN 1 ELSE 0)
  <2>1. In(x, r) <=> In(x, q) \/ x = y
    BY <1>1, <1>2 DEF In
  <2>2. IsFiniteSet(Spots(q, x)) /\ Copies(x, q) \in Nat /\ Copies(x, q) = Cardinality(Spots(q, x))
    BY Spotted
  <2>3. Copies(x, r) = Cardinality(Spots(r, x))
    BY DEF Copies, Spots
  <2>4. CASE x = y
    <3>1. Spots(r, x) = Spots(q, x) \cup {Len(q) + 1} /\ Len(q) + 1 \notin Spots(q, x)
      BY <1>1, <1>2, <2>4 DEF Spots
    <3>2. Cardinality(Spots(q, x) \cup {Len(q) + 1}) = Cardinality(Spots(q, x)) + 1
      BY <2>2, <3>1, FS_AddElement
    <3>. QED
      BY <2>1, <2>2, <2>3, <2>4, <3>1, <3>2
  <2>5. CASE x # y
    <3>1. Spots(r, x) = Spots(q, x)
      BY <1>1, <1>2, <2>5 DEF Spots
    <3>2. Copies(x, q) = Copies(x, q) + 0
      BY <2>2, SMT
    <3>. QED
      BY <2>1, <2>2, <2>3, <2>5, <3>1, <3>2
  <2>. QED
    BY <2>4, <2>5
<1>. QED
  BY <1>1, <1>3 DEF r

\* Two sequences are joined.
LEMMA Joined ==
    ASSUME NEW S, NEW q \in Seq(S), NEW r \in Seq(S)
    PROVE  /\ q \o r \in Seq(S)
           /\ \A x : /\ In(x, q \o r) <=> In(x, q) \/ In(x, r)
                     /\ Copies(x, q \o r) <= Copies(x, q) + Copies(x, r)
<1> DEFINE t == q \o r
<1>1. /\ t \in Seq(S) /\ DOMAIN t = 1 .. Len(q) + Len(r)
      /\ \A i \in 1 .. Len(q) + Len(r) : t[i] = IF i <= Len(q) THEN q[i] ELSE r[i - Len(q)]
  <2>1. t \in Seq(S) /\ Len(t) = Len(q) + Len(r)
    BY ConcatProperties
  <2>2. DOMAIN t = 1 .. Len(t)
    BY <2>1, LenProperties
  <2>3. \A i \in 1 .. Len(q) + Len(r) : t[i] = IF i <= Len(q) THEN q[i] ELSE r[i - Len(q)]
    BY ConcatProperties
  <2>. QED
    BY <2>1, <2>2, <2>3
<1>2. Len(q) \in Nat /\ DOMAIN q = 1 .. Len(q) /\ Len(r) \in Nat /\ DOMAIN r = 1 .. Len(r)
  BY LenProperties
<1> HIDE DEF t
<1>3. \A i \in DOMAIN q : i \in DOMAIN t /\ t[i] = q[i]
  BY <1>1, <1>2, SMTT(30)
<1>4. \A i \in DOMAIN r : /\ Len(q) + i \in DOMAIN t /\ t[Len(q) + i] = r[i]
                          /\ (Len(q) + i) - Len(q) = i
  BY <1>1, <1>2, SMTT(30)
<1>5. \A i \in DOMAIN t : i \in DOMAIN q \/ (i \notin DOMAIN q /\ i - Len(q) \in DOMAIN r /\ t[i] = r[i - Len(q)])
  BY <1>1, <1>2, SMT
<1>6. ASSUME NEW x
      PROVE  /\ In(x, t) <=> In(x, q) \/ In(x, r)
             /\ Copies(x, t) <= Copies(x, q) + Copies(x, r)
  <2>1. In(x, t) <=> In(x, q) \/ In(x, r)
    BY <1>3, <1>4, <1>5 DEF In
  <2>2. Spots(q, x) \cup (Spots(t, x) \ Spots(q, x)) = Spots(t, x)
    BY <1>3 DEF Spots
  <2> DEFINE R == Spots(t, x) \ Spots(q, x)
             f == [i \in R |-> i - Len(q)]
  <2>3. \A i \in R : i \in Nat /\ i - Len(q) \in Spots(r, x)
    <3>1. ASSUME NEW i \in R PROVE i \in Nat /\ i - Len(q) \in Spots(r, x)
      <4>1. i \in DOMAIN t /\ t[i] = x /\ i \notin DOMAIN q
        BY <1>3, <3>1 DEF Spots
      <4>2. i \in Nat
        BY <1>1, <1>2, <4>1, SMTT(30)
      <4>. QED
        BY <1>5, <4>1, <4>2 DEF Spots
    <3>. QED
      BY <3>1
  <2>4. f \in Injection(R, Spots(r, x))
    <3>1. f \in [R -> Spots(r, x)]
      BY <2>3
    <3>2. \A i, j \in R : i - Len(q) = j - Len(q) => i = j
      BY <1>2, <2>3, SMTT(30)
    <3>. QED
      BY <3>1, <3>2 DEF Injection, IsInjective
  <2> HIDE DEF f, R
  <2>5. IsFiniteSet(Spots(q, x)) /\ IsFiniteSet(Spots(r, x))
        /\ Copies(x, q) = Cardinality(Spots(q, x)) /\ Copies(x, r) = Cardinality(Spots(r, x))
        /\ Copies(x, q) \in Nat /\ Copies(x, r) \in Nat
    BY Spotted
  <2>6. IsFiniteSet(R) /\ Cardinality(R) <= Cardinality(Spots(r, x))
    BY <2>4, <2>5, FS_Injection
  <2>7. /\ Cardinality(Spots(q, x) \cup R) =
              Cardinality(Spots(q, x)) + Cardinality(R) - Cardinality(Spots(q, x) \cap R)
        /\ Cardinality(R) \in Nat /\ Cardinality(Spots(q, x) \cap R) = 0
    <3>1. Spots(q, x) \cap R = {}
      BY DEF R
    <3>. QED
      BY <2>5, <2>6, <3>1, FS_Union, FS_CardinalityType, FS_EmptySet
  <2>8. Copies(x, t) = Cardinality(Spots(q, x) \cup R)
    BY <2>2 DEF R, Copies, Spots
  <2>9. Copies(x, t) <= Copies(x, q) + Copies(x, r)
    BY <2>5, <2>6, <2>7, <2>8, SMTT(30)
  <2>. QED
    BY <2>1, <2>9
<1>. QED
  BY <1>1, <1>6 DEF t

\* A part of a sequence.
LEMMA Part ==
    ASSUME NEW S, NEW c \in Seq(S), NEW m \in 1 .. Len(c) + 1, NEW n \in 0 .. Len(c), m <= n + 1
    PROVE  /\ SubSeq(c, m, n) \in Seq(S) /\ Len(SubSeq(c, m, n)) = n - m + 1
           /\ \A i \in 1 .. n - m + 1 : SubSeq(c, m, n)[i] = c[m + i - 1]
<1>1. m \in Int /\ n \in Int /\ (m <= n \/ n - m + 1 = 0)
  BY LenProperties, SMT
<1>2. \A i \in m .. n : c[i] \in S
  BY LenProperties, SMT
<1>3. Len(SubSeq(c, m, n)) = IF m <= n THEN n - m + 1 ELSE 0
  BY <1>1, <1>2, SubSeqProperties
<1>. QED
  BY <1>1, <1>2, <1>3, SubSeqProperties, SMTT(30)


\* One element is cut out of a sequence.
CutOut(c, k) == SubSeq(c, 1, k - 1) \o SubSeq(c, k + 1, Len(c))
Skip(i, k) == IF i < k THEN i ELSE i + 1
Cuts(t, c, k) ==
    /\ \A i \in DOMAIN t : Skip(i, k) \in DOMAIN c \ {k} /\ t[i] = c[Skip(i, k)]
    /\ \A i, j \in DOMAIN t : Skip(i, k) = Skip(j, k) => i = j
    /\ \A j \in DOMAIN c \ {k} : \E i \in DOMAIN t : t[i] = c[j]

\* What is before the k-th entry stays at its place, what is behind it moves up by one.
LEMMA Cut ==
    ASSUME NEW S, NEW c \in Seq(S), NEW k \in 1 .. Len(c),
           NEW t, t = CutOut(c, k)
    PROVE  /\ t \in Seq(S) /\ DOMAIN t = 1 .. Len(c) - 1
           /\ \A i \in 1 .. k - 1 : t[i] = c[i]
           /\ \A i \in k .. Len(c) - 1 : t[i] = c[i + 1]
<1>a. Len(c) \in Nat /\ DOMAIN c = 1 .. Len(c) /\ k \in 1 .. Len(c)
  BY LenProperties
<1> DEFINE u == SubSeq(c, 1, k - 1)
           v == SubSeq(c, k + 1, Len(c))
<1>1. u \in Seq(S) /\ Len(u) = k - 1 /\ \A i \in 1 .. k - 1 : u[i] = c[i]
  <2>1. 1 \in 1 .. Len(c) + 1 /\ k - 1 \in 0 .. Len(c) /\ 1 <= (k - 1) + 1
    BY <1>a, SMT
  <2>2. /\ u \in Seq(S) /\ Len(u) = (k - 1) - 1 + 1
        /\ \A i \in 1 .. (k - 1) - 1 + 1 : u[i] = c[1 + i - 1]
    BY <1>a, <2>1, Part
  <2> HIDE DEF u
  <2>3. (k - 1) - 1 + 1 = k - 1 /\ \A i \in 1 .. k - 1 : 1 + i - 1 = i
    BY <1>a, SMT
  <2>. QED
    BY <2>2, <2>3
<1>2. /\ v \in Seq(S) /\ Len(v) = Len(c) - k
      /\ \A i \in 1 .. Len(c) - k : v[i] = c[k + i]
  <2>1. k + 1 \in 1 .. Len(c) + 1 /\ Len(c) \in 0 .. Len(c) /\ k + 1 <= Len(c) + 1
    BY <1>a, SMTT(30)
  <2>2. /\ v \in Seq(S) /\ Len(v) = Len(c) - (k + 1) + 1
        /\ \A i \in 1 .. Len(c) - (k + 1) + 1 : v[i] = c[(k + 1) + i - 1]
    BY <1>a, <2>1, Part
  <2> HIDE DEF v
  <2>3. /\ Len(c) - (k + 1) + 1 = Len(c) - k
        /\ \A i \in 1 .. Len(c) - k : (k + 1) + i - 1 = k + i
    BY <1>a, SMT
  <2>. QED
    BY <2>2, <2>3
<1>3. t = u \o v
  BY DEF CutOut
<1> HIDE DEF u, v
<1>4. t \in Seq(S) /\ Len(t) = Len(c) - 1
  <2>1. t \in Seq(S) /\ Len(t) = Len(u) + Len(v)
    BY <1>1, <1>2, <1>3, ConcatProperties
  <2>. QED
    BY <1>a, <1>1, <1>2, <2>1, SMTT(30)
<1>0. \A i \in 1 .. Len(u) + Len(v) : t[i] = IF i <= Len(u) THEN u[i] ELSE v[i - Len(u)]
  BY <1>1, <1>2, <1>3, ConcatProperties, SMTT(30)
<1>5. ASSUME NEW i \in 1 .. k - 1 PROVE t[i] = c[i]
  <2>1. i \in 1 .. Len(u) + Len(v) /\ i <= Len(u)
    BY <1>a, <1>1, <1>2, SMTT(30)
  <2>. QED
    BY <1>0, <1>1, <2>1
<1>6. ASSUME NEW i \in k .. Len(c) - 1 PROVE t[i] = c[i + 1]
  <2>0. i \in 1 .. Len(u) + Len(v) /\ ~(i <= Len(u))
    BY <1>a, <1>1, <1>2, SMTT(30)
  <2>1. t[i] = v[i - (k - 1)]
    BY <1>0, <1>1, <2>0
  <2>2. i - (k - 1) \in 1 .. Len(c) - k /\ k + (i - (k - 1)) = i + 1
    BY <1>a, SMTT(30)
  <2>. QED
    BY <1>2, <2>1, <2>2
<1>. QED
  BY <1>a, <1>4, <1>5, <1>6, SMTT(30)

\* The same by places: those left are all places but the k-th, each once.
LEMMA CutPlaces ==
    ASSUME NEW S, NEW c \in Seq(S), NEW k \in 1 .. Len(c),
           NEW t, t = CutOut(c, k)
    PROVE  t \in Seq(S) /\ Cuts(t, c, k)
<1>1. Len(c) \in Nat /\ DOMAIN c = 1 .. Len(c) /\ k \in 1 .. Len(c)
  BY LenProperties
<1>2. /\ t \in Seq(S) /\ DOMAIN t = 1 .. Len(c) - 1
      /\ \A i \in 1 .. k - 1 : t[i] = c[i]
      /\ \A i \in k .. Len(c) - 1 : t[i] = c[i + 1]
  BY Cut
<1>3. ASSUME NEW i \in DOMAIN t PROVE Skip(i, k) \in DOMAIN c \ {k} /\ t[i] = c[Skip(i, k)]
  BY <1>1, <1>2, <1>3, SMT DEF Skip
<1>4. ASSUME NEW i \in DOMAIN t, NEW j \in DOMAIN t, Skip(i, k) = Skip(j, k) PROVE i = j
  BY <1>1, <1>2, <1>4, SMT DEF Skip
<1>5. ASSUME NEW j \in DOMAIN c, j < k PROVE j \in DOMAIN t /\ t[j] = c[j]
  BY <1>1, <1>2, <1>5, SMT
<1>6. ASSUME NEW j \in DOMAIN c, j > k PROVE j - 1 \in DOMAIN t /\ t[j - 1] = c[j]
  BY <1>1, <1>2, <1>6, SMTT(30)
<1>7. \A j \in DOMAIN c \ {k} : j < k \/ j > k
  BY <1>1, SMT
<1>. QED
  BY <1>2, <1>3, <1>4, <1>5, <1>6, <1>7 DEF Cuts

\* Taking out the k-th entry takes a copy of it away and none of the others.
LEMMA CutCopies ==
    ASSUME NEW S, NEW c \in Seq(S), NEW k \in 1 .. Len(c),
           NEW t \in Seq(S), Cuts(t, c, k), NEW x
    PROVE  /\ In(x, t) => In(x, c)
           /\ In(x, c) => In(x, t) \/ x = c[k]
           /\ Copies(x, t) + (IF x = c[k] THEN 1 ELSE 0) <= Copies(x, c)
<1>1. /\ \A i \in DOMAIN t : Skip(i, k) \in DOMAIN c \ {k} /\ t[i] = c[Skip(i, k)]
      /\ \A i, j \in DOMAIN t : Skip(i, k) = Skip(j, k) => i = j
      /\ \A j \in DOMAIN c \ {k} : \E i \in DOMAIN t : t[i] = c[j]
  BY DEF Cuts
<1>2. In(x, t) => In(x, c)
  BY <1>1 DEF In
<1>3. In(x, c) => In(x, t) \/ x = c[k]
  BY <1>1 DEF In
<1>4. k \in DOMAIN c
  BY LenProperties
<1> DEFINE f == [i \in Spots(t, x) |-> Skip(i, k)]
           R == Spots(c, x) \ {k}
<1>5. f \in Injection(Spots(t, x), R)
  <2>1. f \in [Spots(t, x) -> R]
    BY <1>1 DEF Spots
  <2>2. \A i, j \in Spots(t, x) : f[i] = f[j] => i = j
    BY <1>1 DEF Spots
  <2>. QED
    BY <2>1, <2>2 DEF Injection, IsInjective
<1>6. /\ IsFiniteSet(Spots(c, x)) /\ Copies(x, c) = Cardinality(Spots(c, x)) /\ Copies(x, c) \in Nat
      /\ Copies(x, t) = Cardinality(Spots(t, x)) /\ Copies(x, t) \in Nat
  BY <1>1, Spotted
<1>7. /\ IsFiniteSet(R)
      /\ Cardinality(R) = IF k \in Spots(c, x) THEN Cardinality(Spots(c, x)) - 1
                          ELSE Cardinality(Spots(c, x))
  BY <1>6, FS_RemoveElement
<1>8. k \in Spots(c, x) <=> x = c[k]
  BY <1>4 DEF Spots
<1> HIDE DEF f, R
<1>9. Cardinality(Spots(t, x)) <= Cardinality(R)
  BY <1>5, <1>7, FS_Injection
<1>10. Copies(x, t) + (IF x = c[k] THEN 1 ELSE 0) <= Copies(x, c)
  BY <1>6, <1>7, <1>8, <1>9, SMTT(30)
<1>. QED
  BY <1>2, <1>3, <1>10

\* unregisterProcess leaves the others as they are: their number in the queue up to
\* a place is a one-to-one map from their places to the new ones.
LEMMA Ranked ==
    ASSUME NEW n \in Nat, NEW K \in SUBSET (1 .. n)
    PROVE  /\ Cardinality(K) \in Nat
           /\ \A m \in 1 .. Cardinality(K) : \E i \in K : Cardinality(UpTo(K, i)) = m
           /\ \A i \in K : Cardinality(UpTo(K, i)) \in 1 .. Cardinality(K)
           /\ \A i, j \in K : Cardinality(UpTo(K, i)) = Cardinality(UpTo(K, j)) => i = j
<1>1. IsFiniteSet(K) /\ Cardinality(K) \in Nat
  <2>1. IsFiniteSet(1 .. n)
    BY FS_Interval, SMTT(30)
  <2>. QED
    BY <2>1, FS_Subset, FS_CardinalityType
<1> DEFINE f == [i \in K |-> Cardinality(UpTo(K, i))]
<1>2. ASSUME NEW i \in K
      PROVE  IsFiniteSet(UpTo(K, i)) /\ Cardinality(UpTo(K, i)) \in 1 .. Cardinality(K)
  <2>1. UpTo(K, i) \in SUBSET K
    BY DEF UpTo
  <2>2. IsFiniteSet(UpTo(K, i)) /\ Cardinality(UpTo(K, i)) \in Nat
        /\ Cardinality(UpTo(K, i)) <= Cardinality(K)
    BY <1>1, <2>1, FS_Subset, FS_CardinalityType
  <2>3. UpTo(K, i) # {}
    <3>1. i <= i
      BY SMT
    <3>. QED
      BY <3>1 DEF UpTo
  <2>4. Cardinality(UpTo(K, i)) # 0
    BY <2>2, <2>3, FS_EmptySet
  <2>. QED
    BY <1>1, <2>2, <2>4, SMTT(30)
<1>3. ASSUME NEW i \in K, NEW j \in K, i < j PROVE Cardinality(UpTo(K, i)) # Cardinality(UpTo(K, j))
  <2>1. UpTo(K, i) \in SUBSET UpTo(K, j) /\ j \in UpTo(K, j) /\ j \notin UpTo(K, i)
    <3>1. i \in Nat /\ j \in Nat /\ \A m \in K : m \in Nat
      BY SMT
    <3>2. j <= j /\ ~(j <= i) /\ \A m \in K : m <= i => m <= j
      BY <1>3, <3>1, SMTT(30)
    <3>. QED
      BY <3>2 DEF UpTo
  <2>. QED
    BY <1>2, <2>1, FS_Subset
<1>4. \A i, j \in K : i # j => i < j \/ j < i
  BY SMT
<1>5. f \in Injection(K, 1 .. Cardinality(K))
  <2>1. f \in [K -> 1 .. Cardinality(K)]
    BY <1>2
  <2>2. \A i, j \in K : f[i] = f[j] => i = j
    BY <1>3, <1>4
  <2>. QED
    BY <2>1, <2>2 DEF Injection, IsInjective
<1>6. IsFiniteSet(1 .. Cardinality(K)) /\ Cardinality(1 .. Cardinality(K)) = Cardinality(K)
  BY <1>1, FS_Interval, SMTT(30)
<1>7. f \in Surjection(K, 1 .. Cardinality(K))
  <2> HIDE DEF f
  <2>. QED
    BY <1>5, <1>6, FS_Injection
<1>8. \A m \in 1 .. Cardinality(K) : \E i \in K : f[i] = m
  BY <1>7 DEF Surjection
<1>9. \A i, j \in K : Cardinality(UpTo(K, i)) = Cardinality(UpTo(K, j)) => i = j
  BY <1>3, <1>4
<1>. QED
  BY <1>1, <1>2, <1>8, <1>9

\* unregisterProcess leaves exactly the other processes in the queue, with no further copies.
LEMMA LeftOut ==
    ASSUME NEW S, NEW q \in Seq(S), NEW p
    PROVE  /\ Without(q, p) \in Seq(S)
           /\ \A x : /\ In(x, Without(q, p)) <=> In(x, q) /\ x # p
                     /\ Copies(x, Without(q, p)) <= Copies(x, q)
<1> DEFINE K == Others(q, p)
           N == Cardinality(K)
           place(m) == CHOOSE i \in K : Cardinality(UpTo(K, i)) = m
           t == Without(q, p)
<1>1. q \in [1 .. Len(q) -> S] /\ DOMAIN q = 1 .. Len(q) /\ Len(q) \in Nat
  BY LenProperties
<1>2. K \in SUBSET (1 .. Len(q)) /\ \A i \in K : q[i] \in S /\ q[i] # p
  BY <1>1 DEF Others
<1>3. \A i \in DOMAIN q : q[i] # p => i \in K
  BY DEF Others
<1>4. t = [m \in 1 .. N |-> q[place(m)]]
  BY DEF Without
<1> HIDE DEF K, t
<1>5. /\ N \in Nat
      /\ \A m \in 1 .. N : \E i \in K : Cardinality(UpTo(K, i)) = m
      /\ \A i \in K : Cardinality(UpTo(K, i)) \in 1 .. N
      /\ \A i, j \in K : Cardinality(UpTo(K, i)) = Cardinality(UpTo(K, j)) => i = j
  BY <1>1, <1>2, Ranked
<1>6. ASSUME NEW m \in 1 .. N PROVE place(m) \in K /\ Cardinality(UpTo(K, place(m))) = m
  BY <1>5
<1>7. ASSUME NEW i \in K PROVE \E m \in 1 .. N : q[place(m)] = q[i]
  <2>1. PICK m \in 1 .. N : m = Cardinality(UpTo(K, i))
    BY <1>5
  <2>2. place(m) \in K /\ Cardinality(UpTo(K, place(m))) = m
    BY <1>6
  <2>3. place(m) = i
    BY <1>5, <2>1, <2>2
  <2>. QED
    BY <2>3
<1> HIDE DEF place
<1>8. DOMAIN t = 1 .. N /\ (\A m \in 1 .. N : t[m] = q[place(m)]) /\ t \in [1 .. N -> S]
  BY <1>2, <1>4, <1>6
<1>9. t \in Seq(S)
  BY <1>5, <1>8, SMTT(30)
<1>10. ASSUME NEW x PROVE (In(x, t) <=> In(x, q) /\ x # p) /\ Copies(x, t) <= Copies(x, q)
  <2>1. ASSUME In(x, t) PROVE In(x, q) /\ x # p
    BY <1>1, <1>2, <1>6, <1>8, <2>1 DEF In
  <2>2. ASSUME In(x, q), x # p PROVE In(x, t)
    BY <1>3, <1>7, <1>8, <2>2 DEF In
  <2>3. Copies(x, t) <= Copies(x, q)
    <3> DEFINE f == [m \in Spots(t, x) |-> place(m)]
    <3>1. \A m \in Spots(t, x) : m \in 1 .. N /\ place(m) \in Spots(q, x)
      BY <1>1, <1>2, <1>6, <1>8 DEF Spots
    <3>2. f \in [Spots(t, x) -> Spots(q, x)]
      BY <3>1
    <3>3. \A m, n \in Spots(t, x) : f[m] = f[n] => m = n
      BY <1>6, <3>1
    <3> HIDE DEF f
    <3>. QED
      BY <3>2, <3>3, FewerCopies
  <2>. QED
    BY <2>1, <2>2, <2>3
<1>. QED
  BY <1>9, <1>10 DEF t

-----------------------------------------------------------------------------
(***************************************************************************)
(* The chain of the sleep table.                                           *)
(***************************************************************************)
Nodes == [key : Chans, value : Seq(Procs)]
Chain(t) == t \in Seq(Nodes) /\ \A i, j \in DOMAIN t : t[i].key = t[j].key => i = j

\* t has what c has for the channels other than k; it may lack some of them.
Keeps(t, c, k) ==
    \A a \in Chans \ {k} : Contains(t, a) => Contains(c, a) /\ Lookup(t, a) = Lookup(c, a)

\* A node of the chain is the one contains and find come to for its key.
LEMMA NodeOf ==
    ASSUME NEW t, Chain(t), NEW i \in DOMAIN t
    PROVE  /\ t[i].key \in Chans /\ t[i].value \in Seq(Procs)
           /\ Contains(t, t[i].key) /\ Lookup(t, t[i].key) = t[i].value
<1>1. t[i].key \in Chans /\ t[i].value \in Seq(Procs)
  <2>1. t[i] \in Nodes
    BY SMT DEF Chain
  <2>. QED
    BY <2>1 DEF Nodes
<1>2. Contains(t, t[i].key)
  BY DEF Contains
<1>3. At(t, t[i].key) = i
  BY DEF At, Chain
<1>. QED
  BY <1>1, <1>2, <1>3 DEF Lookup

\* A key that contains finds has a node.
LEMMA KeyOf ==
    ASSUME NEW t, Chain(t), NEW k, Contains(t, k)
    PROVE  /\ At(t, k) \in DOMAIN t /\ t[At(t, k)].key = k
           /\ k \in Chans /\ Lookup(t, k) = t[At(t, k)].value /\ Lookup(t, k) \in Seq(Procs)
<1>1. At(t, k) \in DOMAIN t /\ t[At(t, k)].key = k
  BY DEF At, Contains
<1>2. Lookup(t, k) = t[At(t, k)].value
  BY DEF Lookup
<1>. QED
  BY <1>1, <1>2, NodeOf

\* Chains of one and of two nodes.
LEMMA OneNode ==
    ASSUME NEW S, NEW n \in S
    PROVE  <<n>> \in Seq(S) /\ DOMAIN <<n>> = {1} /\ <<n>>[1] = n
BY SMT

\* A chain of two nodes.
LEMMA TwoNodes ==
    ASSUME NEW S, NEW n \in S, NEW m \in S
    PROVE  <<n, m>> \in Seq(S) /\ DOMAIN <<n, m>> = {1, 2} /\ <<n, m>>[1] = n /\ <<n, m>>[2] = m
BY SMT

\* operator[] makes an empty node for a channel that has none, and keeps at most
\* one other node then.
LEMMA Indexed ==
    ASSUME NEW c, Chain(c), NEW k \in Chans, NEW t, t = Index(c, k, <<>>)
    PROVE  /\ Chain(t) /\ Contains(t, k) /\ Keeps(t, c, k)
           /\ Lookup(t, k) = IF Contains(c, k) THEN Lookup(c, k) ELSE <<>>
<1>1. CASE Contains(c, k)
  BY <1>1 DEF Index, Keeps
<1> DEFINE n == Node(k, <<>>)
<1>2. n \in Nodes /\ n.key = k /\ n.value = <<>>
  <2>1. <<>> \in Seq(Procs)
    BY EmptySeq
  <2>. QED
    BY <2>1 DEF Node, Nodes
<1>0. n \in Nodes
  BY <1>2
<1>3. CASE ~Contains(c, k) /\ c = <<>>
  <2>1. t = <<n>>
    BY <1>3 DEF Index
  <2> HIDE DEF n
  <2>2. t \in Seq(Nodes) /\ DOMAIN t = {1} /\ t[1] = n
    BY <1>0, <2>1, OneNode
  <2>3. Chain(t)
    BY <2>2 DEF Chain
  <2>4. Contains(t, k) /\ Lookup(t, k) = <<>>
    <3>1. 1 \in DOMAIN t /\ t[1].key = k /\ t[1].value = <<>>
      BY <1>2, <2>2
    <3>. QED
      BY <2>3, <3>1, NodeOf
  <2>5. Keeps(t, c, k)
    BY <1>2, <2>2 DEF Contains, Keeps
  <2>. QED
    BY <1>3, <2>3, <2>4, <2>5
<1>4. CASE ~Contains(c, k) /\ c # <<>>
  <2> DEFINE m == c[Len(c)]
  <2>1. t = <<n, m>>
    BY <1>4 DEF Index
  <2>2. Len(c) \in DOMAIN c /\ m \in Nodes
    BY <1>4, SMTT(30) DEF Chain
  <2>3. m.key # k
    BY <1>4, <2>2 DEF Contains
  <2> HIDE DEF n, m
  <2>4. t \in Seq(Nodes) /\ DOMAIN t = {1, 2} /\ t[1] = n /\ t[2] = m
    <3>1. m \in Nodes
      BY <2>2
    <3>2. <<n, m>> \in Seq(Nodes) /\ DOMAIN <<n, m>> = {1, 2} /\ <<n, m>>[1] = n /\ <<n, m>>[2] = m
      BY <1>0, <3>1, TwoNodes
    <3>. QED
      BY <2>1, <3>2
  <2>5. Chain(t)
    BY <1>2, <2>3, <2>4 DEF Chain
  <2>6. Contains(t, k) /\ Lookup(t, k) = <<>>
    <3>1. 1 \in DOMAIN t /\ t[1].key = k /\ t[1].value = <<>>
      BY <1>2, <2>4
    <3>. QED
      BY <2>5, <3>1, NodeOf
  <2>7. ASSUME NEW a \in Chans \ {k}, Contains(t, a)
        PROVE  Contains(c, a) /\ Lookup(t, a) = Lookup(c, a)
    <3>1. a = m.key
      BY <1>2, <2>4, <2>7 DEF Contains
    <3>2. Contains(c, m.key) /\ Lookup(c, m.key) = m.value
      BY <2>2, NodeOf DEF m
    <3>3. Lookup(t, m.key) = m.value
      BY <2>4, <2>5, NodeOf
    <3>. QED
      BY <3>1, <3>2, <3>3
  <2>. QED
    BY <1>4, <2>5, <2>6, <2>7 DEF Keeps
<1>. QED
  BY <1>1, <1>3, <1>4

\* The value behind the reference is replaced.
LEMMA Assigned ==
    ASSUME NEW c, Chain(c), NEW k \in Chans, Contains(c, k), NEW v \in Seq(Procs),
           NEW t, t = Assign(c, k, <<>>, v)
    PROVE  /\ Chain(t) /\ Contains(t, k) /\ Keeps(t, c, k) /\ Lookup(t, k) = v
<1> DEFINE i == At(c, k)
<1>1. i \in DOMAIN c /\ c[i].key = k /\ c \in Seq(Nodes)
  BY KeyOf DEF Chain
<1>2. t = [c EXCEPT ![i].value = v]
  BY DEF Assign, Index
<1> HIDE DEF i
<1>3. [c[i] EXCEPT !.value = v] \in Nodes /\ [c[i] EXCEPT !.value = v].key = k
      /\ [c[i] EXCEPT !.value = v].value = v
  <2>1. c[i] \in Nodes
    BY <1>1, SMTT(30)
  <2>. QED
    BY <1>1, <2>1 DEF Nodes
<1>4. t = [c EXCEPT ![i] = [c[i] EXCEPT !.value = v]]
  BY <1>2, SMT
<1> DEFINE n == [c[i] EXCEPT !.value = v]
<1>5. n \in Nodes /\ n.key = k /\ n.value = v /\ t = [c EXCEPT ![i] = n]
  BY <1>3, <1>4
<1> HIDE DEF n
<1>6. t \in Seq(Nodes) /\ DOMAIN t = DOMAIN c /\ t[i] = n /\ \A j \in DOMAIN c \ {i} : t[j] = c[j]
  BY <1>1, <1>5, SMTT(30)
<1>7. \A j \in DOMAIN c : t[j].key = c[j].key
  BY <1>1, <1>5, <1>6
<1>8. Chain(t)
  <2>1. ASSUME NEW a \in DOMAIN c, NEW b \in DOMAIN c, t[a].key = t[b].key PROVE a = b
    <3>1. c[a].key = c[b].key
      BY <1>7, <2>1
    <3>. QED
      BY <3>1 DEF Chain
  <2>. QED
    BY <1>6, <2>1 DEF Chain
<1>9. Contains(t, k) /\ Lookup(t, k) = v
  <2>1. i \in DOMAIN t /\ t[i].key = k /\ t[i].value = v
    BY <1>1, <1>5, <1>6
  <2>2. Contains(t, t[i].key) /\ Lookup(t, t[i].key) = t[i].value
    BY <1>8, <2>1, NodeOf
  <2>. QED
    BY <2>1, <2>2
<1>10. ASSUME NEW a \in Chans \ {k}, Contains(t, a)
       PROVE  Contains(c, a) /\ Lookup(t, a) = Lookup(c, a)
  <2>1. PICK j \in DOMAIN c : t[j].key = a
    BY <1>6, <1>10 DEF Contains
  <2>2. c[j].key = a /\ t[j] = c[j]
    BY <1>1, <1>6, <1>7, <2>1
  <2>3. Contains(c, a) /\ Lookup(c, a) = c[j].value
    BY <2>2, NodeOf
  <2>4. Lookup(t, a) = t[j].value
    BY <1>6, <1>8, <2>1, NodeOf
  <2>. QED
    BY <2>2, <2>3, <2>4
<1>. QED
  BY <1>8, <1>9, <1>10 DEF Keeps

\* erase.
LEMMA Erased ==
    ASSUME NEW c, Chain(c), NEW k, Contains(c, k), NEW t, t = Erase(c, k)
    PROVE  Chain(t) /\ ~Contains(t, k) /\ Keeps(t, c, k)
<1> DEFINE n == At(c, k)
<1>1. c \in Seq(Nodes) /\ DOMAIN c = 1 .. Len(c)
  BY LenProperties DEF Chain
<1>2. n \in 1 .. Len(c) /\ c[n].key = k
  BY <1>1, KeyOf
<1>3. t = CutOut(c, n)
  BY DEF Erase, CutOut
<1> HIDE DEF n
<1>4. t \in Seq(Nodes) /\ Cuts(t, c, n)
  BY <1>1, <1>2, <1>3, CutPlaces
<1>5. Chain(t)
  <2>1. ASSUME NEW i \in DOMAIN t, NEW j \in DOMAIN t, t[i].key = t[j].key PROVE i = j
    <3>1. /\ Skip(i, n) \in DOMAIN c /\ t[i] = c[Skip(i, n)]
          /\ Skip(j, n) \in DOMAIN c /\ t[j] = c[Skip(j, n)]
      BY <1>4 DEF Cuts
    <3>2. Skip(i, n) = Skip(j, n)
      BY <2>1, <3>1 DEF Chain
    <3>. QED
      BY <1>4, <3>2 DEF Cuts
  <2>. QED
    BY <1>4, <2>1 DEF Chain
<1>6. ~Contains(t, k)
  <2>1. SUFFICES ASSUME NEW i \in DOMAIN t, t[i].key = k PROVE FALSE
    BY DEF Contains
  <2>2. PICK j \in DOMAIN c : t[i] = c[j] /\ j # n
    BY <1>4 DEF Cuts
  <2>. QED
    BY <1>1, <1>2, <2>1, <2>2 DEF Chain
<1>7. ASSUME NEW a \in Chans \ {k}, Contains(t, a)
      PROVE  Contains(c, a) /\ Lookup(t, a) = Lookup(c, a)
  <2>1. PICK i \in DOMAIN t : t[i].key = a
    BY <1>7 DEF Contains
  <2>2. PICK j \in DOMAIN c : t[i] = c[j]
    BY <1>4 DEF Cuts
  <2>3. Contains(c, a) /\ Lookup(c, a) = c[j].value
    BY <2>1, <2>2, NodeOf
  <2>4. Lookup(t, a) = t[i].value
    BY <1>5, <2>1, NodeOf
  <2>. QED
    BY <2>2, <2>3, <2>4
<1>. QED
  BY <1>5, <1>6, <1>7 DEF Keeps

-----------------------------------------------------------------------------
(***************************************************************************)
(* The operations of the Scheduler.                                        *)
(***************************************************************************)
Record(a, b, c) == [state |-> a, queue |-> b, table |-> c]
Scheds == [state : [Procs -> States], queue : Seq(Procs), table : Seq(Nodes)]

\* Who is in the table sleeps on the channel it is found under.
Asleep(s, ch) ==
    \A c \in Chans : Contains(s.table, c) =>
        \A p \in Procs : In(p, Lookup(s.table, c)) => s.state[p] = "Sleeping" /\ ch[p] = c

Good(s, ch) == s \in Scheds /\ Chain(s.table) /\ Asleep(s, ch)

\* The copies of p in the table, and in the queue and the table.
Waiting(s, ch, p) ==
    IF s.state[p] = "Sleeping" /\ Contains(s.table, ch[p])
    THEN Copies(p, Lookup(s.table, ch[p])) ELSE 0
Load(s, ch, p) == Copies(p, s.queue) + Waiting(s, ch, p)

\* A state of the scheduler is made of its three fields.
LEMMA Fields ==
    ASSUME NEW s \in Scheds
    PROVE  /\ s.state \in [Procs -> States] /\ s.queue \in Seq(Procs) /\ s.table \in Seq(Nodes)
           /\ s = Record(s.state, s.queue, s.table)
BY SMT DEF Scheds, Record

\* Any three fields make a state of the scheduler.
LEMMA Made ==
    ASSUME NEW a \in [Procs -> States], NEW b \in Seq(Procs), NEW c \in Seq(Nodes)
    PROVE  /\ Record(a, b, c) \in Scheds /\ Record(a, b, c).state = a
           /\ Record(a, b, c).queue = b /\ Record(a, b, c).table = c
BY DEF Scheds, Record

\* The copies of a process are natural numbers.
LEMMA Loads ==
    ASSUME NEW s, NEW ch, Good(s, ch), NEW p \in Procs
    PROVE  /\ Copies(p, s.queue) \in Nat /\ Waiting(s, ch, p) \in Nat
           /\ Load(s, ch, p) = Copies(p, s.queue) + Waiting(s, ch, p) /\ Load(s, ch, p) \in Nat
<1>1. s.queue \in Seq(Procs) /\ Chain(s.table)
  BY Fields DEF Good
<1>2. Copies(p, s.queue) \in Nat
  BY <1>1, Spotted
<1>3. Waiting(s, ch, p) \in Nat
  <2>1. CASE s.state[p] = "Sleeping" /\ Contains(s.table, ch[p])
    <3>1. Lookup(s.table, ch[p]) \in Seq(Procs)
      BY <1>1, <2>1, KeyOf
    <3>. QED
      BY <2>1, <3>1, Spotted DEF Waiting
  <2>2. CASE ~(s.state[p] = "Sleeping" /\ Contains(s.table, ch[p]))
    <3>1. Waiting(s, ch, p) = 0
      BY <2>2 DEF Waiting
    <3>. QED
      BY <3>1, SMTT(30)
  <2>. QED
    BY <2>1, <2>2
<1>4. Load(s, ch, p) = Copies(p, s.queue) + Waiting(s, ch, p)
  BY DEF Load
<1>. QED
  BY <1>2, <1>3, <1>4, SMTT(30)

\* r differs from s in the state of p, which is v and in no list of the table.
Restates(s, ch, r, ch2, p, v) ==
    /\ Good(r, ch2) /\ r.queue = s.queue /\ r.state[p] = v
    /\ \A x \in Procs \ {p} : /\ r.state[x] = s.state[x]
                              /\ Waiting(r, ch2, x) = Waiting(s, ch, x)
    /\ Waiting(r, ch2, p) = 0

\* A process that does not sleep is not in the table, so that its state may change,
\* and the channel it is going to sleep on.
LEMMA Moved ==
    ASSUME NEW s, NEW ch, Good(s, ch), NEW p \in Procs, s.state[p] # "Sleeping",
           NEW v \in States, NEW ch2, \A x \in Procs \ {p} : ch2[x] = ch[x]
    PROVE  Restates(s, ch, SetState(s, p, v), ch2, p, v)
<1> SUFFICES ASSUME NEW r, r = SetState(s, p, v)
             PROVE  /\ Good(r, ch2) /\ r.queue = s.queue /\ r.state[p] = v
                    /\ \A x \in Procs \ {p} : /\ r.state[x] = s.state[x]
                                              /\ Waiting(r, ch2, x) = Waiting(s, ch, x)
                    /\ Waiting(r, ch2, p) = 0
  BY DEF Restates
<1>1. /\ s.state \in [Procs -> States] /\ s.queue \in Seq(Procs) /\ s.table \in Seq(Nodes)
      /\ s = Record(s.state, s.queue, s.table)
  BY Fields DEF Good
<1> DEFINE a == [s.state EXCEPT ![p] = v]
<1>2. a \in [Procs -> States] /\ a[p] = v /\ \A x \in Procs \ {p} : a[x] = s.state[x]
  BY <1>1
<1>3. r = Record(a, s.queue, s.table)
  BY <1>1, SMTT(30) DEF SetState, Record
<1> HIDE DEF a
<1>4. r \in Scheds /\ r.state = a /\ r.queue = s.queue /\ r.table = s.table
  <2>1. /\ Record(a, s.queue, s.table) \in Scheds /\ Record(a, s.queue, s.table).state = a
        /\ Record(a, s.queue, s.table).queue = s.queue
        /\ Record(a, s.queue, s.table).table = s.table
    <3>1. s.queue \in Seq(Procs) /\ s.table \in Seq(Nodes) /\ a \in [Procs -> States]
      BY <1>1, <1>2
    <3>. QED
      BY <3>1, Made, SMTT(30)
  <2>. QED
    BY <1>3, <2>1
<1>5. \A c \in Chans : Contains(s.table, c) => ~In(p, Lookup(s.table, c))
  BY DEF Good, Asleep
<1>6. Asleep(r, ch2)
  BY <1>2, <1>4, <1>5 DEF Good, Asleep
<1>7. Good(r, ch2)
  BY <1>4, <1>6 DEF Good
<1>8. \A x \in Procs \ {p} : Waiting(r, ch2, x) = Waiting(s, ch, x)
  BY <1>2, <1>4 DEF Waiting
<1>9. Waiting(r, ch2, p) = 0
  <2>1. CASE Contains(s.table, ch2[p])
    <3>1. ch2[p] \in Chans /\ Lookup(s.table, ch2[p]) \in Seq(Procs)
      BY <2>1, KeyOf DEF Good
    <3>2. Copies(p, Lookup(s.table, ch2[p])) = 0
      BY <1>5, <2>1, <3>1, Spotted
    <3>. QED
      BY <1>4, <3>2 DEF Waiting
  <2>2. CASE ~Contains(s.table, ch2[p])
    BY <1>4, <2>2 DEF Waiting
  <2>. QED
    BY <2>1, <2>2
<1>. QED
  BY <1>2, <1>4, <1>7, <1>8, <1>9

\* The queue of the scheduler is replaced.
WithQueue(s, q) == [s EXCEPT !.queue = q]
Requeues(s, r, ch, q) ==
    /\ Good(r, ch) /\ r.queue = q /\ r.state = s.state
    /\ \A x \in Procs : Waiting(r, ch, x) = Waiting(s, ch, x)

\* A new queue leaves states and sleepers as they are.
LEMMA Requeued ==
    ASSUME NEW s, NEW ch, Good(s, ch), NEW q \in Seq(Procs)
    PROVE  Requeues(s, WithQueue(s, q), ch, q)
<1> SUFFICES ASSUME NEW r, r = WithQueue(s, q)
             PROVE  /\ Good(r, ch) /\ r.queue = q /\ r.state = s.state
                    /\ \A x \in Procs : Waiting(r, ch, x) = Waiting(s, ch, x)
  BY DEF Requeues
<1>1. /\ s.state \in [Procs -> States] /\ s.table \in Seq(Nodes)
      /\ s = Record(s.state, s.queue, s.table)
  BY Fields DEF Good
<1>2. r = Record(s.state, q, s.table)
  BY <1>1, SMT DEF WithQueue, Record
<1>3. r \in Scheds /\ r.state = s.state /\ r.queue = q /\ r.table = s.table
  <2>1. /\ Record(s.state, q, s.table) \in Scheds /\ Record(s.state, q, s.table).state = s.state
        /\ Record(s.state, q, s.table).queue = q /\ Record(s.state, q, s.table).table = s.table
    <3>1. s.state \in [Procs -> States] /\ s.table \in Seq(Nodes)
      BY <1>1
    <3>. QED
      BY <3>1, Made, SMTT(30)
  <2>. QED
    BY <1>2, <2>1
<1>. QED
  BY <1>3 DEF Good, Asleep, Waiting

\* One more copy of p, in the queue or in the table.
EntersQueue(s, r, ch, p) ==
    /\ Good(r, ch) /\ r.state = s.state
    /\ \A x \in Procs : /\ In(x, r.queue) <=> In(x, s.queue) \/ x = p
                        /\ Load(r, ch, x) = Load(s, ch, x) + (IF x = p THEN 1 ELSE 0)
EntersTable(s, r, ch, p) ==
    /\ Good(r, ch) /\ r.state = s.state /\ r.queue = s.queue
    /\ \A x \in Procs : Load(r, ch, x) <= Load(s, ch, x) + (IF x = p THEN 1 ELSE 0)

\* registerProcess, of a process that is ready, of one that sleeps and of another.
LEMMA RegisteredReady ==
    ASSUME NEW s, NEW ch, Good(s, ch), NEW p \in Procs, s.state[p] = "Ready", NEW c
    PROVE  EntersQueue(s, Registered(s, p, c), ch, p)
<1> SUFFICES ASSUME NEW r, r = Registered(s, p, c)
             PROVE  /\ Good(r, ch) /\ r.state = s.state
                    /\ \A x \in Procs :
                          /\ In(x, r.queue) <=> In(x, s.queue) \/ x = p
                          /\ Load(r, ch, x) = Load(s, ch, x) + (IF x = p THEN 1 ELSE 0)
  BY DEF EntersQueue
<1>1. r = WithQueue(s, Append(s.queue, p))
  BY DEF Registered, WithQueue
<1>2. s.queue \in Seq(Procs)
  BY Fields DEF Good
<1>3. /\ Append(s.queue, p) \in Seq(Procs)
      /\ \A x : /\ In(x, Append(s.queue, p)) <=> In(x, s.queue) \/ x = p
                /\ Copies(x, Append(s.queue, p)) = Copies(x, s.queue) + (IF x = p THEN 1 ELSE 0)
  BY <1>2, Appended, SMTT(30)
<1>4. /\ Good(r, ch) /\ r.queue = Append(s.queue, p) /\ r.state = s.state
      /\ \A x \in Procs : Waiting(r, ch, x) = Waiting(s, ch, x)
  <2>1. Requeues(s, WithQueue(s, Append(s.queue, p)), ch, Append(s.queue, p))
    BY <1>3, Requeued
  <2>2. Requeues(s, r, ch, Append(s.queue, p))
    BY <1>1, <2>1
  <2>. QED
    BY <2>2 DEF Requeues
<1>5. ASSUME NEW x \in Procs
      PROVE  Load(r, ch, x) = Load(s, ch, x) + (IF x = p THEN 1 ELSE 0)
  <2>1. /\ Load(r, ch, x) = Copies(x, r.queue) + Waiting(r, ch, x)
        /\ Load(s, ch, x) = Copies(x, s.queue) + Waiting(s, ch, x)
        /\ Copies(x, s.queue) \in Nat /\ Waiting(s, ch, x) \in Nat
    BY <1>4, Loads
  <2>2. Copies(x, r.queue) = Copies(x, s.queue) + (IF x = p THEN 1 ELSE 0)
    BY <1>3, <1>4
  <2>3. Waiting(r, ch, x) = Waiting(s, ch, x)
    BY <1>4
  <2>. QED
    BY <2>1, <2>2, <2>3, SMTT(30)
<1>. QED
  BY <1>3, <1>4, <1>5

\* registerProcess does nothing with a process that is neither ready nor sleeping.
LEMMA RegisteredOther ==
    ASSUME NEW s, NEW p, s.state[p] # "Ready", s.state[p] # "Sleeping", NEW c
    PROVE  Registered(s, p, c) = s
BY DEF Registered

\* The table of the scheduler is replaced.
WithTable(s, t) == [s EXCEPT !.table = t]

\* A new table leaves states and queue as they are.
LEMMA Retabled ==
    ASSUME NEW s \in Scheds, NEW t \in Seq(Nodes), NEW r, r = WithTable(s, t)
    PROVE  r \in Scheds /\ r.queue = s.queue /\ r.state = s.state /\ r.table = t
<1>1. /\ s.state \in [Procs -> States] /\ s.queue \in Seq(Procs)
      /\ s = Record(s.state, s.queue, s.table)
  BY Fields
<1>2. r = Record(s.state, s.queue, t)
  BY <1>1, SMTT(30) DEF WithTable, Record
<1>3. /\ Record(s.state, s.queue, t) \in Scheds /\ Record(s.state, s.queue, t).state = s.state
      /\ Record(s.state, s.queue, t).queue = s.queue /\ Record(s.state, s.queue, t).table = t
  <2>1. s.state \in [Procs -> States] /\ s.queue \in Seq(Procs)
    BY <1>1
  <2>. QED
    BY <2>1, Made, SMTT(30)
<1>. QED
  BY <1>2, <1>3

\* registerProcess of a sleeper adds one copy of it to the table, and may make the
\* table forget others.
LEMMA RegisteredSleeping ==
    ASSUME NEW s, NEW ch, Good(s, ch), NEW p \in Procs, s.state[p] = "Sleeping",
           NEW c \in Chans, ch[p] = c
    PROVE  EntersTable(s, Registered(s, p, c), ch, p)
<1> SUFFICES ASSUME NEW r, r = Registered(s, p, c)
             PROVE  /\ Good(r, ch) /\ r.state = s.state /\ r.queue = s.queue
                    /\ \A x \in Procs :
                          Load(r, ch, x) <= Load(s, ch, x) + (IF x = p THEN 1 ELSE 0)
  BY DEF EntersTable
<1> DEFINE t == Index(s.table, c, <<>>)
           old == Lookup(t, c)
           u == Assign(t, c, <<>>, Append(old, p))
<1>1. r = WithTable(s, u)
  BY DEF Registered, WithTable
<1>2. s \in Scheds /\ Chain(s.table) /\ Asleep(s, ch)
  BY DEF Good
<1>3. /\ Chain(t) /\ Contains(t, c) /\ Keeps(t, s.table, c)
      /\ old = IF Contains(s.table, c) THEN Lookup(s.table, c) ELSE <<>>
  BY <1>2, Indexed, SMTT(30)
<1>4. old \in Seq(Procs)
  BY <1>3, KeyOf
<1>5. /\ Append(old, p) \in Seq(Procs)
      /\ \A x : /\ In(x, Append(old, p)) <=> In(x, old) \/ x = p
                /\ Copies(x, Append(old, p)) = Copies(x, old) + (IF x = p THEN 1 ELSE 0)
  BY <1>4, Appended, SMTT(30)
<1> HIDE DEF t, old
<1>6. Chain(u) /\ Contains(u, c) /\ Keeps(u, t, c) /\ Lookup(u, c) = Append(old, p)
  <2> DEFINE v == Append(old, p)
  <2>1. Chain(t) /\ Contains(t, c) /\ v \in Seq(Procs) /\ u = Assign(t, c, <<>>, v)
    BY <1>3, <1>5
  <2> HIDE DEF v, u
  <2>2. Chain(u) /\ Contains(u, c) /\ Keeps(u, t, c) /\ Lookup(u, c) = v
    BY <2>1, Assigned, SMTT(30)
  <2>. QED
    BY <2>2 DEF v
<1> HIDE DEF u
<1>7. r \in Scheds /\ r.queue = s.queue /\ r.state = s.state /\ r.table = u
  <2>1. u \in Seq(Nodes)
    BY <1>6 DEF Chain
  <2>. QED
    BY <1>1, <1>2, <2>1, Retabled, SMTT(30)
<1>8. Keeps(u, s.table, c)
  BY <1>3, <1>6 DEF Keeps
<1>9. \A x : In(x, old) => Contains(s.table, c) /\ In(x, Lookup(s.table, c))
  <2>1. \A x : ~In(x, <<>>)
    BY SMT DEF In
  <2>. QED
    BY <1>3, <2>1
<1>10. Asleep(r, ch)
  <2>1. SUFFICES ASSUME NEW a \in Chans, Contains(u, a), NEW x \in Procs, In(x, Lookup(u, a))
                 PROVE  s.state[x] = "Sleeping" /\ ch[x] = a
    BY <1>7 DEF Asleep
  <2>2. CASE a = c
    BY <1>2, <1>5, <1>6, <1>9, <2>1, <2>2 DEF Asleep
  <2>3. CASE a # c
    BY <1>2, <1>8, <2>1, <2>3 DEF Asleep, Keeps
  <2>. QED
    BY <2>2, <2>3
<1>11. Good(r, ch)
  BY <1>6, <1>7, <1>10 DEF Good
<1>12. ASSUME NEW x \in Procs
       PROVE  Load(r, ch, x) <= Load(s, ch, x) + (IF x = p THEN 1 ELSE 0)
  <2>1. /\ Load(r, ch, x) = Copies(x, r.queue) + Waiting(r, ch, x) /\ Waiting(r, ch, x) \in Nat
        /\ Load(s, ch, x) = Copies(x, s.queue) + Waiting(s, ch, x)
        /\ Copies(x, s.queue) \in Nat /\ Waiting(s, ch, x) \in Nat
    BY <1>11, Loads
  <2>2. Waiting(r, ch, x) <= Waiting(s, ch, x) + (IF x = p THEN 1 ELSE 0)
    <3>1. CASE ~(s.state[x] = "Sleeping" /\ Contains(u, ch[x]))
      <4>1. Waiting(r, ch, x) = 0
        BY <1>7, <3>1 DEF Waiting
      <4>. QED
        BY <2>1, <4>1, SMTT(30)
    <3>2. CASE s.state[x] = "Sleeping" /\ Contains(u, ch[x]) /\ ch[x] # c
      <4>1. ch[x] \in Chans \ {c}
        BY <1>6, <3>2, KeyOf
      <4>2. Contains(s.table, ch[x]) /\ Lookup(u, ch[x]) = Lookup(s.table, ch[x])
        BY <1>8, <3>2, <4>1 DEF Keeps
      <4>3. Waiting(r, ch, x) = Waiting(s, ch, x)
        BY <1>7, <3>2, <4>2 DEF Waiting
      <4>. QED
        BY <2>1, <4>3, SMTT(30)
    <3>3. CASE s.state[x] = "Sleeping" /\ ch[x] = c
      <4>1. Waiting(r, ch, x) = Copies(x, old) + (IF x = p THEN 1 ELSE 0)
        <5>1. Waiting(r, ch, x) = Copies(x, Lookup(u, c))
          BY <1>6, <1>7, <3>3 DEF Waiting
        <5>. QED
          BY <1>5, <1>6, <5>1
      <4>2. Copies(x, old) = Waiting(s, ch, x)
        <5>1. Copies(x, <<>>) = 0
          <6>1. ~In(x, <<>>) /\ <<>> \in Seq(Procs)
            BY EmptySeq, SMTT(30) DEF In
          <6>. QED
            BY <6>1, Spotted
        <5>. QED
          BY <1>3, <3>3, <5>1 DEF Waiting
      <4>. QED
        BY <2>1, <4>1, <4>2, SMTT(30)
    <3>. QED
      BY <3>1, <3>2, <3>3
  <2>. QED
    BY <1>7, <2>1, <2>2, SMTT(30)
<1>. QED
  BY <1>7, <1>11, <1>12

\* wakeup makes sleepers ready and moves their copies to the queue.
Woke(s, w, ch) ==
    /\ Good(w, ch)
    /\ \A x \in Procs :
          /\ \/ w.state[x] = s.state[x]
             \/ s.state[x] = "Sleeping" /\ w.state[x] = "Ready" /\ In(x, w.queue)
          /\ In(x, s.queue) => In(x, w.queue)
          /\ In(x, w.queue) => In(x, s.queue) \/ s.state[x] = "Sleeping"
          /\ Load(w, ch, x) <= Load(s, ch, x)

\* wakeup is such a change, whether anybody sleeps on the channel or not.
LEMMA Wakes ==
    ASSUME NEW s, NEW ch, Good(s, ch), NEW c \in Chans
    PROVE  Woke(s, Wakeup(s, c), ch)
<1> SUFFICES ASSUME NEW w, w = Wakeup(s, c) PROVE Woke(s, w, ch)
  OBVIOUS
<1> DEFINE t == Index(s.table, c, <<>>)
           old == Lookup(t, c)
           u == Erase(t, c)
           a == [p \in Procs |-> IF \E i \in DOMAIN old : old[i] = p
                                 THEN "Ready" ELSE s.state[p]]
<1>1. w = Record(a, s.queue \o old, u)
  BY DEF Wakeup, Record
<1>2. s \in Scheds /\ Chain(s.table) /\ Asleep(s, ch)
  BY DEF Good
<1>3. /\ Chain(t) /\ Contains(t, c) /\ Keeps(t, s.table, c)
      /\ old = IF Contains(s.table, c) THEN Lookup(s.table, c) ELSE <<>>
  BY <1>2, Indexed
<1>4. old \in Seq(Procs) /\ s.queue \in Seq(Procs) /\ s.state \in [Procs -> States]
  BY <1>2, <1>3, KeyOf, Fields
<1>5. Chain(u) /\ ~Contains(u, c) /\ Keeps(u, t, c)
  <2> HIDE DEF t
  <2>. QED
    BY <1>3, Erased
<1> HIDE DEF t, old, u
<1>6. /\ s.queue \o old \in Seq(Procs)
      /\ \A x : /\ In(x, s.queue \o old) <=> In(x, s.queue) \/ In(x, old)
                /\ Copies(x, s.queue \o old) <= Copies(x, s.queue) + Copies(x, old)
  BY <1>4, Joined
<1>7. /\ a \in [Procs -> States]
      /\ \A x \in Procs : /\ In(x, old) => a[x] = "Ready"
                          /\ ~In(x, old) => a[x] = s.state[x]
  BY <1>4 DEF In, States
<1> HIDE DEF a
<1>8. w \in Scheds /\ w.state = a /\ w.queue = s.queue \o old /\ w.table = u
  <2> DEFINE q == s.queue \o old
  <2>1. q \in Seq(Procs) /\ u \in Seq(Nodes) /\ w = Record(a, q, u)
    BY <1>1, <1>5, <1>6 DEF Chain
  <2> HIDE DEF q
  <2>2. /\ Record(a, q, u) \in Scheds /\ Record(a, q, u).state = a
        /\ Record(a, q, u).queue = q /\ Record(a, q, u).table = u
    <3>1. a \in [Procs -> States] /\ q \in Seq(Procs) /\ u \in Seq(Nodes)
      BY <1>7, <2>1
    <3>. QED
      BY <3>1, Made, SMTT(30)
  <2>. QED
    BY <2>1, <2>2 DEF q
<1>9. Keeps(u, s.table, c)
  BY <1>3, <1>5 DEF Keeps
<1>10. /\ \A x : In(x, old) => Contains(s.table, c) /\ In(x, Lookup(s.table, c))
       /\ \A x \in Procs : In(x, old) => s.state[x] = "Sleeping" /\ ch[x] = c
  <2>1. \A x : ~In(x, <<>>)
    BY SMT DEF In
  <2>2. \A x : In(x, old) => Contains(s.table, c) /\ In(x, Lookup(s.table, c))
    BY <1>3, <2>1
  <2>. QED
    BY <1>2, <2>2 DEF Asleep
<1>11. Good(w, ch)
  <2>1. ASSUME NEW d \in Chans, Contains(u, d), NEW x \in Procs, In(x, Lookup(u, d))
        PROVE  a[x] = "Sleeping" /\ ch[x] = d
    <3>1. d # c
      BY <1>5, <2>1
    <3>2. s.state[x] = "Sleeping" /\ ch[x] = d
      BY <1>2, <1>9, <2>1, <3>1 DEF Asleep, Keeps
    <3>3. ~In(x, old)
      BY <1>10, <3>1, <3>2
    <3>. QED
      BY <1>7, <3>2, <3>3
  <2>. QED
    BY <1>5, <1>8, <2>1 DEF Good, Asleep
<1>12. ASSUME NEW x \in Procs
       PROVE  Load(w, ch, x) <= Load(s, ch, x)
  <2>1. /\ Load(w, ch, x) = Copies(x, w.queue) + Waiting(w, ch, x) /\ Waiting(w, ch, x) \in Nat
        /\ Load(s, ch, x) = Copies(x, s.queue) + Waiting(s, ch, x)
        /\ Copies(x, s.queue) \in Nat /\ Waiting(s, ch, x) \in Nat /\ Copies(x, w.queue) \in Nat
    BY <1>11, Loads
  <2>2. Copies(x, w.queue) <= Copies(x, s.queue) + Copies(x, old) /\ Copies(x, old) \in Nat
        /\ (Copies(x, old) = 0 <=> ~In(x, old))
    BY <1>4, <1>6, <1>8, Spotted
  <2>3. CASE In(x, old)
    <3>1. Waiting(w, ch, x) = 0
      BY <1>7, <1>8, <2>3 DEF Waiting
    <3>2. Waiting(s, ch, x) = Copies(x, old)
      BY <1>3, <1>10, <2>3 DEF Waiting
    <3>. QED
      BY <2>1, <2>2, <3>1, <3>2, SMTT(30)
  <2>4. CASE ~In(x, old)
    <3>1. Waiting(w, ch, x) <= Waiting(s, ch, x)
      <4>1. CASE s.state[x] = "Sleeping" /\ Contains(u, ch[x])
        <5>1. ch[x] \in Chans \ {c}
          BY <1>5, <4>1, KeyOf
        <5>2. Contains(s.table, ch[x]) /\ Lookup(u, ch[x]) = Lookup(s.table, ch[x])
          BY <1>9, <4>1, <5>1 DEF Keeps
        <5>3. Waiting(w, ch, x) = Waiting(s, ch, x)
          BY <1>7, <1>8, <2>4, <4>1, <5>2 DEF Waiting
        <5>. QED
          BY <2>1, <5>3, SMTT(30)
      <4>2. CASE ~(s.state[x] = "Sleeping" /\ Contains(u, ch[x]))
        <5>1. Waiting(w, ch, x) = 0
          BY <1>7, <1>8, <2>4, <4>2 DEF Waiting
        <5>. QED
          BY <2>1, <5>1, SMTT(30)
      <4>. QED
        BY <4>1, <4>2
    <3>. QED
      BY <2>1, <2>2, <2>4, <3>1, SMTT(30)
  <2>. QED
    BY <2>3, <2>4
<1>13. ASSUME NEW x \in Procs
       PROVE  /\ \/ w.state[x] = s.state[x]
                 \/ s.state[x] = "Sleeping" /\ w.state[x] = "Ready" /\ In(x, w.queue)
              /\ In(x, s.queue) => In(x, w.queue)
              /\ In(x, w.queue) => In(x, s.queue) \/ s.state[x] = "Sleeping"
  BY <1>6, <1>7, <1>8, <1>10
<1>. QED
  BY <1>11, <1>12, <1>13 DEF Woke

\* Two wakeups in a row, as those of the parent and of the init process by exit.
LEMMA WokeTwice ==
    ASSUME NEW s, NEW w, NEW y, NEW ch, Good(s, ch), Woke(s, w, ch), Woke(w, y, ch)
    PROVE  Woke(s, y, ch)
<1>1. ASSUME NEW x \in Procs PROVE Load(y, ch, x) <= Load(s, ch, x)
  <2>1. Load(y, ch, x) <= Load(w, ch, x) /\ Load(w, ch, x) <= Load(s, ch, x)
    BY DEF Woke
  <2>2. Load(y, ch, x) \in Nat /\ Load(w, ch, x) \in Nat /\ Load(s, ch, x) \in Nat
    BY Loads DEF Woke
  <2>. QED
    BY <2>1, <2>2, SMTT(30)
<1>2. ASSUME NEW x \in Procs
      PROVE  /\ \/ y.state[x] = s.state[x]
                \/ s.state[x] = "Sleeping" /\ y.state[x] = "Ready" /\ In(x, y.queue)
             /\ In(x, s.queue) => In(x, y.queue)
             /\ In(x, y.queue) => In(x, s.queue) \/ s.state[x] = "Sleeping"
  BY DEF Woke
<1>. QED
  BY <1>1, <1>2 DEF Woke

-----------------------------------------------------------------------------
(***************************************************************************)
(* The inductive invariant.                                                *)
(***************************************************************************)
Typed ==
    /\ chan \in [Procs -> Chans \cup {Nil}]
    /\ parent \in [Procs -> Procs \cup {Nil}]
    /\ children \in [Procs -> Seq(Procs)]
    /\ created \in 1 .. NumProcs
    /\ cpu \in Procs \cup {Nil}
    /\ spc \in {"take", "look", "put", "dispatch", "back"}
    /\ proc \in Procs \cup {Nil}
    /\ pc \in [Procs -> {"user", "fork", "wait", "disk", "gone"}]
    /\ io \subseteq DoesIo
    /\ slept \in [Procs -> Nat]

\* Who has the hart, and what the scheduler has in its hands.
OnHart ==
    /\ \A p \in Procs : sched.state[p] = "Running" <=> cpu = p
    /\ cpu # Nil => proc = cpu /\ spc = "dispatch"
    /\ spc = "dispatch" /\ cpu = Nil => sched.state[proc] = "Ready"
    /\ spc # "take" => proc \in Procs

\* Which processes there are.
Born ==
    \A p \in Procs : /\ p >= created <=> sched.state[p] = "Unborn"
                     /\ p >= created => ~In(p, sched.queue) /\ proc # p
                     /\ p # InitProc /\ p < created => parent[p] \in Procs

OnChannel == \A p \in Procs : sched.state[p] = "Sleeping" => chan[p] \in Chans

\* A process that has not exited is the parent of its children.
Kin ==
    \A p \in Procs : pc[p] # "gone" =>
        \A i \in DOMAIN children[p] : parent[children[p][i]] = p /\ children[p][i] < created

\* The child that fork has still to register has never been in the queue.
Last(p) == children[p][Len(children[p])]
Forks ==
    \A p \in Procs : pc[p] = "fork" =>
        /\ children[p] # <<>>
        /\ sched.state[Last(p)] = "Ready" /\ ~In(Last(p), sched.queue) /\ proc # Last(p)

Found ==
    \A p \in Procs : sched.state[p] = "Ready" =>
        \/ In(p, sched.queue)
        \/ proc = p /\ cpu = Nil /\ spc \in {"look", "put", "dispatch"}
        \/ \E r \in Procs : pc[r] = "fork" /\ Last(r) = p

\* The copies of a process, with the one the scheduler holds, which it may register
\* once more.
Hand(p) == IF proc = p /\ spc # "take" THEN 1 ELSE 0
Bounded == \A p \in Procs : Load(sched, chan, p) + Hand(p) <= 2 + slept[p]

ProcInv ==
    /\ Good(sched, chan) /\ Typed /\ OnHart /\ Born /\ OnChannel /\ Kin /\ Forks
    /\ Found /\ Bounded

\* What a step does not do to a process that has exited.
Stays == \A p \in Procs : sched.state[p] = "Zombie" => sched'.state[p] = "Zombie"

\* The numbers of processes and channels.
LEMMA Numbers ==
    /\ NumProcs \in Nat \ {0} /\ InitProc \in Procs /\ Nil \notin Procs
    /\ Procs \subseteq Nat /\ Procs \subseteq Chans /\ \A p \in Procs : Buffer(p) \in Chans
BY ProcessAssumption, SMTT(30) DEF Procs, InitProc, Chans, Buffer

\* The last child of a process that has some.
LEMMA LastChild ==
    ASSUME Typed, NEW p \in Procs, children[p] # <<>>
    PROVE  Len(children[p]) \in DOMAIN children[p] /\ Last(p) \in Procs
<1>1. children[p] \in Seq(Procs)
  BY DEF Typed
<1> DEFINE c == children[p]
<1>2. c \in Seq(Procs) /\ c # <<>>
  BY <1>1
<1> HIDE DEF c
<1>3. Len(c) \in DOMAIN c /\ c[Len(c)] \in Procs
  BY <1>2, SMTT(30)
<1>. QED
  BY <1>3 DEF c, Last

\* The process that runs.
LEMMA Running ==
    ASSUME ProcInv, NEW p \in Procs, cpu = p
    PROVE  /\ sched.state[p] = "Running" /\ proc = p /\ spc = "dispatch" /\ cpu # Nil
           /\ \A x \in Procs : sched.state[x] = "Running" => x = p
           /\ ~(p >= created) /\ created \in Nat /\ Hand(p) = 1
<1>1. cpu # Nil
  BY Numbers
<1>2. sched.state[p] = "Running" /\ proc = p /\ spc = "dispatch"
  BY <1>1 DEF ProcInv, OnHart
<1>3. ~(p >= created)
  BY <1>2 DEF ProcInv, Born
<1>4. created \in Nat
  BY SMT DEF ProcInv, Typed
<1>. QED
  BY <1>1, <1>2, <1>3, <1>4 DEF ProcInv, OnHart, Hand

\* A process the scheduler does not know yet, and what holds when a step leaves
\* such processes and the families alone.
Unknown(x) == /\ sched.state[x] \in {"Ready", "Unborn"}
              /\ ~In(x, sched.queue) /\ proc # x

\* A step that leaves the families, and the processes the scheduler does not know,
\* alone keeps the invariants about them.
LEMMA Rest ==
    ASSUME ProcInv, UNCHANGED family,
           \A x \in Procs : Unknown(x) => /\ sched'.state[x] = sched.state[x]
                                          /\ ~In(x, sched'.queue) /\ proc' # x,
           \A x \in Procs : sched'.state[x] = "Unborn" => sched.state[x] = "Unborn",
           \A q \in Procs : pc'[q] = "fork" => pc[q] = "fork",
           \A q \in Procs : pc'[q] # "gone" => pc[q] # "gone"
    PROVE  Born' /\ Kin' /\ Forks'
<1>1. parent' = parent /\ children' = children /\ created' = created
  BY DEF family
<1>2. Born'
  BY <1>1 DEF ProcInv, Born, Unknown
<1>3. Kin'
  BY <1>1 DEF ProcInv, Kin
<1>4. ASSUME NEW q \in Procs, pc'[q] = "fork"
      PROVE  /\ children'[q] # <<>>
             /\ sched'.state[Last(q)'] = "Ready" /\ ~In(Last(q)', sched'.queue) /\ proc' # Last(q)'
  <2>1. /\ children[q] # <<>> /\ sched.state[Last(q)] = "Ready"
        /\ ~In(Last(q), sched.queue) /\ proc # Last(q)
    BY <1>4 DEF ProcInv, Forks
  <2>2. Last(q)' = Last(q)
    BY <1>1 DEF Last
  <2>3. Last(q) \in Procs
    BY <2>1, LastChild DEF ProcInv
  <2>. QED
    BY <1>1, <2>1, <2>2, <2>3 DEF Unknown
<1>5. Forks'
  BY <1>4 DEF Forks
<1>. QED
  BY <1>2, <1>3, <1>5

\* The invariant holds at the start.
LEMMA InitProcInv == Init => ProcInv
<1>1. SUFFICES ASSUME Init PROVE ProcInv
  OBVIOUS
<1> DEFINE a == [p \in Procs |-> IF p = InitProc THEN "Ready" ELSE "Unborn"]
<1>2. /\ sched = Record(a, <<InitProc>>, <<>>) /\ chan = [p \in Procs |-> Nil] /\ created = 1
      /\ parent = [p \in Procs |-> Nil] /\ children = [p \in Procs |-> <<>>] /\ cpu = Nil
      /\ spc = "take" /\ proc = Nil /\ pc = [p \in Procs |-> "user"] /\ io = {}
      /\ slept = [p \in Procs |-> 0]
  BY <1>1 DEF Init, Record
<1>3. a \in [Procs -> States] /\ \A p \in Procs : a[p] = IF p = InitProc THEN "Ready" ELSE "Unborn"
  BY DEF States
<1>4. <<InitProc>> \in Seq(Procs) /\ DOMAIN <<InitProc>> = {1} /\ <<InitProc>>[1] = InitProc
  BY Numbers, OneNode
<1>5. <<>> \in Seq(Nodes) /\ <<>> \in Seq(Procs) /\ DOMAIN <<>> = {}
  BY EmptySeq, SMTT(30)
<1> HIDE DEF a
<1>6. sched \in Scheds /\ sched.state = a /\ sched.queue = <<InitProc>> /\ sched.table = <<>>
  <2> DEFINE b == <<InitProc>>
             c == <<>>
  <2>1. a \in [Procs -> States] /\ b \in Seq(Procs) /\ c \in Seq(Nodes)
    BY <1>3, <1>4, <1>5
  <2>2. sched = Record(a, b, c)
    BY <1>2
  <2> HIDE DEF b, c
  <2>3. /\ Record(a, b, c) \in Scheds /\ Record(a, b, c).state = a
        /\ Record(a, b, c).queue = b /\ Record(a, b, c).table = c
    BY <2>1, Made, SMTT(30)
  <2>4. sched \in Scheds /\ sched.state = a /\ sched.queue = b /\ sched.table = c
    BY <2>2, <2>3
  <2>. QED
    BY <2>4 DEF b, c
<1>7. Chain(<<>>) /\ \A c : ~Contains(<<>>, c)
  BY <1>5 DEF Chain, Contains
<1>8. Good(sched, chan)
  BY <1>6, <1>7 DEF Good, Asleep
<1>9. Typed
  <2>1. created \in 1 .. NumProcs
    BY <1>2, Numbers, SMTT(30)
  <2>2. slept \in [Procs -> Nat]
    BY <1>2, SMTT(30)
  <2>. QED
    BY <1>2, <1>5, <2>1, <2>2 DEF Typed
<1>10. OnHart
  BY <1>2, <1>3, <1>6, Numbers DEF OnHart
<1>11. \A p \in Procs : p >= 1 <=> p # InitProc
  BY Numbers, SMTT(30) DEF InitProc
<1>12. \A p : In(p, <<InitProc>>) <=> p = InitProc
  BY <1>4 DEF In
<1>13. Born
  <2>1. \A p \in Procs : ~(p >= 1) <=> p < 1
    BY Numbers, SMTT(30)
  <2>. QED
    BY <1>2, <1>3, <1>6, <1>11, <1>12, <2>1, Numbers DEF Born
<1>14. OnChannel /\ Forks /\ Found
  BY <1>2, <1>3, <1>6, <1>12 DEF OnChannel, Forks, Found
<1>15. Kin
  BY <1>2, <1>5 DEF Kin
<1>16. ASSUME NEW p \in Procs PROVE Load(sched, chan, p) + Hand(p) <= 2 + slept[p]
  <2>1. Hand(p) = 0 /\ slept[p] = 0
    BY <1>2 DEF Hand
  <2>2. Waiting(sched, chan, p) = 0
    BY <1>6, <1>7 DEF Waiting
  <2>3. Copies(p, sched.queue) <= 1
    <3>1. Spots(<<InitProc>>, p) \in SUBSET {1}
      BY <1>4 DEF Spots
    <3>2. Cardinality(Spots(<<InitProc>>, p)) <= Cardinality({1}) /\ Cardinality({1}) = 1
      BY <3>1, FS_Singleton, FS_Subset
    <3>. QED
      BY <1>6, <3>2 DEF Copies, Spots
  <2>4. Load(sched, chan, p) = Copies(p, sched.queue) + Waiting(sched, chan, p)
        /\ Copies(p, sched.queue) \in Nat
    BY <1>8, Loads
  <2>. QED
    BY <2>1, <2>2, <2>3, <2>4, SMTT(30)
<1>. QED
  BY <1>8, <1>9, <1>10, <1>13, <1>14, <1>15, <1>16 DEF ProcInv, Bounded

-----------------------------------------------------------------------------
(***************************************************************************)
(* The steps of Scheduler::run.                                            *)
(***************************************************************************)
LEMMA TakeStep == ASSUME ProcInv, Take PROVE ProcInv' /\ Stays
<1> DEFINE q == sched.queue
           t == CutOut(q, 1)
<1>1. /\ cpu = Nil /\ spc = "take" /\ q # <<>> /\ proc' = q[1] /\ spc' = "look" /\ cpu' = cpu
      /\ sched' = WithQueue(sched, t) /\ UNCHANGED <<chan, family, pc, io, slept>>
  BY DEF Take, End, CutOut, WithQueue
<1>2. Good(sched, chan) /\ q \in Seq(Procs)
  BY Fields DEF ProcInv, Good
<1> HIDE DEF q, t
<1>3. 1 \in 1 .. Len(q) /\ q[1] \in Procs /\ In(q[1], q)
  BY <1>1, <1>2, SMTT(30) DEF In
<1>4. t \in Seq(Procs) /\ Cuts(t, q, 1)
  BY <1>2, <1>3, CutPlaces DEF t
<1>5. ASSUME NEW x
      PROVE  /\ In(x, t) => In(x, q)
             /\ In(x, q) => In(x, t) \/ x = q[1]
             /\ Copies(x, t) + (IF x = q[1] THEN 1 ELSE 0) <= Copies(x, q)
  BY <1>2, <1>3, <1>4, CutCopies
<1>6. /\ Good(sched', chan) /\ sched'.queue = t /\ sched'.state = sched.state
      /\ \A x \in Procs : Waiting(sched', chan, x) = Waiting(sched, chan, x)
  <2>1. Good(sched, chan) /\ t \in Seq(Procs) /\ sched' = WithQueue(sched, t)
    BY <1>1, <1>2, <1>4
  <2>2. Requeues(sched, WithQueue(sched, t), chan, t)
    BY <2>1, Requeued
  <2>3. Requeues(sched, sched', chan, t)
    BY <2>1, <2>2
  <2>. QED
    BY <2>3 DEF Requeues
<1>7. Typed'
  BY <1>1, <1>3 DEF ProcInv, Typed, family
<1>8. OnHart'
  BY <1>1, <1>3, <1>6 DEF ProcInv, OnHart
<1>9. ASSUME NEW x \in Procs, Unknown(x) PROVE ~In(x, sched'.queue) /\ proc' # x
  BY <1>1, <1>3, <1>5, <1>6, <1>9 DEF Unknown, q
<1>10. Born' /\ Kin' /\ Forks'
  <2>1. UNCHANGED family /\ pc' = pc
    BY <1>1
  <2>. QED
    BY <1>6, <1>9, <2>1, Rest
<1>11. OnChannel'
  BY <1>1, <1>6 DEF ProcInv, OnChannel
<1>12. Found'
  <2>1. \A r : Last(r)' = Last(r)
    BY <1>1 DEF Last, family
  <2>. QED
    BY <1>1, <1>5, <1>6, <2>1 DEF ProcInv, Found, q
<1>13. ASSUME NEW x \in Procs PROVE Load(sched', chan, x) + Hand(x)' <= 2 + slept[x]
  <2>1. /\ Load(sched', chan, x) = Copies(x, t) + Waiting(sched, chan, x)
        /\ Load(sched, chan, x) = Copies(x, q) + Waiting(sched, chan, x)
        /\ Copies(x, t) \in Nat /\ Copies(x, q) \in Nat /\ Waiting(sched, chan, x) \in Nat
    BY <1>2, <1>6, Loads DEF q
  <2>2. Load(sched, chan, x) + Hand(x) <= 2 + slept[x] /\ slept[x] \in Nat
    BY DEF ProcInv, Bounded, Typed
  <2>3. Hand(x) = 0 /\ Hand(x)' = IF x = q[1] THEN 1 ELSE 0
    BY <1>1 DEF Hand
  <2>. QED
    BY <1>5, <2>1, <2>2, <2>3, SMTT(30)
<1>14. chan' = chan /\ slept' = slept
  BY <1>1
<1>. QED
  BY <1>6, <1>7, <1>8, <1>10, <1>11, <1>12, <1>13, <1>14 DEF ProcInv, Bounded, Stays

\* Scheduler::run looks at the state of the process it took.
LEMMA LookStep == ASSUME ProcInv, Look PROVE ProcInv' /\ Stays
<1>1. /\ cpu = Nil /\ spc = "look" /\ UNCHANGED <<sched, chan, family, cpu, proc, pc, io, slept>>
      /\ spc' \in {"dispatch", "take", "put"} /\ (spc' = "dispatch" => sched.state[proc] = "Ready")
      /\ (sched.state[proc] = "Ready" => spc' = "dispatch")
  BY DEF Look, Dispatchable
<1>2. Good(sched', chan')
  BY <1>1 DEF ProcInv
<1>3. Typed'
  BY <1>1 DEF ProcInv, Typed, family
<1>4. OnHart'
  BY <1>1 DEF ProcInv, OnHart
<1>5. Born' /\ Kin' /\ Forks'
  <2>1. UNCHANGED <<sched, proc, family, pc>>
    BY <1>1
  <2>. QED
    BY <2>1, Rest DEF Unknown
<1>6. OnChannel'
  BY <1>1 DEF ProcInv, OnChannel
<1>7. Found'
  <2>1. \A r : Last(r)' = Last(r)
    BY <1>1 DEF Last, family
  <2>. QED
    BY <1>1, <2>1 DEF ProcInv, Found
<1>8. ASSUME NEW x \in Procs PROVE Load(sched, chan, x) + Hand(x)' <= 2 + slept[x]
  <2>1. Load(sched, chan, x) + Hand(x) <= 2 + slept[x] /\ slept[x] \in Nat /\ Load(sched, chan, x) \in Nat
    BY Loads DEF ProcInv, Bounded, Typed
  <2>2. (Hand(x)' = Hand(x) \/ Hand(x)' = 0) /\ Hand(x) \in {0, 1}
    BY <1>1 DEF Hand
  <2>. QED
    BY <2>1, <2>2, SMTT(30)
<1>. QED
  BY <1>1, <1>2, <1>3, <1>4, <1>5, <1>6, <1>7, <1>8 DEF ProcInv, Bounded, Stays

\* Scheduler::run registers a process that is not ready, or that has left the hart.
LEMMA PutStep == ASSUME ProcInv, Put PROVE ProcInv' /\ Stays
<1>1. /\ cpu = Nil /\ spc \in {"put", "back"} /\ UNCHANGED <<chan, family, cpu, proc, pc, io, slept>>
      /\ sched' = Registered(sched, proc, chan[proc]) /\ spc' = "take"
  BY DEF Put
<1>2. Good(sched, chan) /\ proc \in Procs
  BY <1>1 DEF ProcInv, OnHart
<1>3. /\ Good(sched', chan) /\ sched'.state = sched.state
      /\ \A x \in Procs : /\ In(x, sched.queue) => In(x, sched'.queue)
                          /\ In(x, sched'.queue) => In(x, sched.queue) \/ x = proc
                          /\ Load(sched', chan, x) <= Load(sched, chan, x) + (IF x = proc THEN 1 ELSE 0)
      /\ sched.state[proc] = "Ready" => In(proc, sched'.queue)
  <2>1. CASE sched.state[proc] = "Ready"
    <3>1. /\ Good(sched', chan) /\ sched'.state = sched.state
          /\ \A x \in Procs : /\ In(x, sched'.queue) <=> In(x, sched.queue) \/ x = proc
                              /\ Load(sched', chan, x) = Load(sched, chan, x) + (IF x = proc THEN 1 ELSE 0)
      <4>1. sched' = Registered(sched, proc, chan[proc])
        BY <1>1
      <4>2. EntersQueue(sched, Registered(sched, proc, chan[proc]), chan, proc)
        BY <1>2, <2>1, RegisteredReady
      <4>3. EntersQueue(sched, sched', chan, proc)
        BY <4>1, <4>2
      <4>. QED
        BY <4>3 DEF EntersQueue
    <3>2. \A x \in Procs : Load(sched', chan, x) \in Nat
      BY <3>1, Loads
    <3>3. \A n \in Nat : n <= n
      BY SMT
    <3>. QED
      BY <1>2, <3>1, <3>2, <3>3
  <2>2. CASE sched.state[proc] = "Sleeping"
    <3>1. chan[proc] \in Chans
      BY <1>2, <2>2 DEF ProcInv, OnChannel
    <3>2. /\ Good(sched', chan) /\ sched'.state = sched.state /\ sched'.queue = sched.queue
          /\ \A x \in Procs : Load(sched', chan, x) <= Load(sched, chan, x) + (IF x = proc THEN 1 ELSE 0)
      <4>1. sched' = Registered(sched, proc, chan[proc])
        BY <1>1
      <4>2. EntersTable(sched, Registered(sched, proc, chan[proc]), chan, proc)
        BY <1>2, <2>2, <3>1, RegisteredSleeping
      <4>3. EntersTable(sched, sched', chan, proc)
        BY <4>1, <4>2
      <4>. QED
        BY <4>3 DEF EntersTable
    <3>. QED
      BY <2>2, <3>2
  <2>3. CASE sched.state[proc] # "Ready" /\ sched.state[proc] # "Sleeping"
    <3>1. sched' = sched
      BY <1>1, <2>3, RegisteredOther
    <3>2. \A x \in Procs : Load(sched, chan, x) \in Nat
      BY <1>2, Loads
    <3>3. \A n \in Nat : n <= n + 0 /\ n <= n + 1
      BY SMTT(30)
    <3>. QED
      BY <1>2, <2>3, <3>1, <3>2, <3>3
  <2>. QED
    BY <2>1, <2>2, <2>3
<1>4. Typed'
  BY <1>1 DEF ProcInv, Typed, family
<1>5. OnHart'
  BY <1>1, <1>3 DEF ProcInv, OnHart
<1>6. Born' /\ Kin' /\ Forks'
  <2>1. UNCHANGED <<proc, family, pc>>
    BY <1>1
  <2>2. ASSUME NEW x \in Procs, Unknown(x) PROVE ~In(x, sched'.queue) /\ proc' # x
    BY <1>3, <2>1, <2>2 DEF Unknown
  <2>. QED
    BY <1>3, <2>1, <2>2, Rest
<1>7. OnChannel'
  BY <1>1, <1>3 DEF ProcInv, OnChannel
<1>8. Found'
  <2>1. \A r : Last(r)' = Last(r)
    BY <1>1 DEF Last, family
  <2>. QED
    BY <1>1, <1>3, <2>1 DEF ProcInv, Found
<1>9. ASSUME NEW x \in Procs PROVE Load(sched', chan, x) + Hand(x)' <= 2 + slept[x]
  <2>1. /\ Load(sched, chan, x) + Hand(x) <= 2 + slept[x] /\ slept[x] \in Nat
        /\ Load(sched, chan, x) \in Nat /\ Load(sched', chan, x) \in Nat
    BY <1>3, Loads DEF ProcInv, Bounded, Typed
  <2>2. Hand(x) = (IF x = proc THEN 1 ELSE 0) /\ Hand(x)' = 0
    BY <1>1 DEF Hand
  <2>3. Load(sched', chan, x) <= Load(sched, chan, x) + (IF x = proc THEN 1 ELSE 0)
    BY <1>3
  <2>. QED
    BY <2>1, <2>2, <2>3, SMTT(30)
<1>10. chan' = chan /\ slept' = slept
  BY <1>1
<1>. QED
  BY <1>3, <1>4, <1>5, <1>6, <1>7, <1>8, <1>9, <1>10 DEF ProcInv, Bounded, Stays

\* Scheduler::run gives the hart to the process it took.
LEMMA DispatchStep == ASSUME ProcInv, Dispatch PROVE ProcInv' /\ Stays
<1>1. /\ cpu = Nil /\ spc = "dispatch" /\ UNCHANGED <<family, spc, proc, pc, io, slept>>
      /\ sched' = SetState(sched, proc, "Running") /\ cpu' = proc
      /\ chan' = [chan EXCEPT ![proc] = Nil]
  BY DEF Dispatch, Dispatched
<1>2. Good(sched, chan) /\ proc \in Procs /\ sched.state[proc] = "Ready" /\ "Running" \in States
  BY <1>1 DEF ProcInv, OnHart, States
<1>3. chan' \in [Procs -> Chans \cup {Nil}] /\ \A x \in Procs \ {proc} : chan'[x] = chan[x]
  BY <1>1, <1>2 DEF ProcInv, Typed
<1>4. /\ Good(sched', chan') /\ sched'.queue = sched.queue /\ sched'.state[proc] = "Running"
      /\ \A x \in Procs \ {proc} : /\ sched'.state[x] = sched.state[x]
                                   /\ Waiting(sched', chan', x) = Waiting(sched, chan, x)
      /\ Waiting(sched', chan', proc) = 0
  <2>1. sched.state[proc] # "Sleeping"
    BY <1>2
  <2>. QED
    <3>1. sched' = SetState(sched, proc, "Running")
      BY <1>1
    <3>2. \A x \in Procs \ {proc} : chan'[x] = chan[x]
      BY <1>3
    <3>3. "Running" \in States
      BY DEF States
    <3>4. Restates(sched, chan, SetState(sched, proc, "Running"), chan', proc, "Running")
      BY <1>2, <2>1, <3>2, <3>3, Moved
    <3>5. Restates(sched, chan, sched', chan', proc, "Running")
      BY <3>1, <3>4
    <3>. QED
      BY <3>5 DEF Restates
<1>5. Typed'
  BY <1>1, <1>2, <1>3 DEF ProcInv, Typed, family
<1>6. OnHart'
  BY <1>1, <1>2, <1>4, Numbers DEF ProcInv, OnHart
<1>7. Born' /\ Kin' /\ Forks'
  <2>1. UNCHANGED <<proc, family, pc>>
    BY <1>1
  <2>2. ASSUME NEW x \in Procs, Unknown(x)
        PROVE  sched'.state[x] = sched.state[x] /\ ~In(x, sched'.queue) /\ proc' # x
    BY <1>4, <2>1, <2>2 DEF Unknown
  <2>3. \A x \in Procs : sched'.state[x] = "Unborn" => sched.state[x] = "Unborn"
    BY <1>4
  <2>. QED
    BY <2>1, <2>2, <2>3, Rest
<1>8. OnChannel'
  BY <1>3, <1>4 DEF ProcInv, OnChannel
<1>9. Found'
  <2>1. \A r : Last(r)' = Last(r)
    BY <1>1 DEF Last, family
  <2>2. ASSUME NEW x \in Procs, sched'.state[x] = "Ready"
        PROVE  In(x, sched'.queue) \/ \E r \in Procs : pc'[r] = "fork" /\ Last(r)' = x
    <3>1. x # proc /\ sched.state[x] = "Ready"
      BY <1>4, <2>2
    <3>. QED
      BY <1>1, <1>4, <2>1, <3>1 DEF ProcInv, Found
  <2>. QED
    BY <2>2 DEF Found
<1>10. ASSUME NEW x \in Procs PROVE Load(sched', chan', x) + Hand(x)' <= 2 + slept[x]
  <2>1. /\ Load(sched', chan', x) = Copies(x, sched.queue) + Waiting(sched', chan', x)
        /\ Load(sched, chan, x) = Copies(x, sched.queue) + Waiting(sched, chan, x)
        /\ Copies(x, sched.queue) \in Nat /\ Waiting(sched, chan, x) \in Nat
    BY <1>2, <1>4, Loads
  <2>2. Waiting(sched', chan', x) = 0 \/ Waiting(sched', chan', x) = Waiting(sched, chan, x)
    BY <1>4
  <2>3. Load(sched, chan, x) + Hand(x) <= 2 + slept[x] /\ slept[x] \in Nat
    BY DEF ProcInv, Bounded, Typed
  <2>4. Hand(x)' = Hand(x) /\ Hand(x) \in {0, 1}
    BY <1>1 DEF Hand
  <2>. QED
    BY <2>1, <2>2, <2>3, <2>4, SMTT(30)
<1>11. slept' = slept
  BY <1>1
<1>12. Stays
  BY <1>2, <1>4 DEF Stays
<1>. QED
  BY <1>4, <1>5, <1>6, <1>7, <1>8, <1>9, <1>10, <1>11, <1>12 DEF ProcInv, Bounded

-----------------------------------------------------------------------------
(***************************************************************************)
(* The steps in which a process gives up the hart, and wakeups.            *)
(***************************************************************************)
\* After yield or sleep the process is registered and in the scheduler's hands.
LEMMA GivesUp ==
    ASSUME ProcInv, NEW p \in Procs, cpu = p, UNCHANGED <<family, proc>>, cpu' = Nil, spc' = "back",
           NEW v \in {"Ready", "Sleeping"}, sched'.state[p] = v,
           \A x \in Procs \ {p} : sched'.state[x] = sched.state[x],
           \A x \in Procs \ {p} : In(x, sched'.queue) <=> In(x, sched.queue),
           v = "Ready" => In(p, sched'.queue),
           \A q \in Procs \ {p} : pc'[q] = pc[q],
           pc'[p] = pc[p] \/ (pc[p] \in {"user", "wait", "disk"} /\ pc'[p] \in {"user", "wait", "disk"})
    PROVE  OnHart' /\ Born' /\ Kin' /\ Forks' /\ Found' /\ Stays
<1>1. /\ sched.state[p] = "Running" /\ proc = p /\ spc = "dispatch" /\ cpu # Nil
      /\ \A x \in Procs : sched.state[x] = "Running" => x = p
  BY Running
<1>2. OnHart'
  BY <1>1, Numbers DEF ProcInv, OnHart
<1>3. Born' /\ Kin' /\ Forks'
  <2>1. \A x \in Procs : Unknown(x) => /\ sched'.state[x] = sched.state[x]
                                       /\ ~In(x, sched'.queue) /\ proc' # x
    BY <1>1 DEF Unknown
  <2>2. \A x \in Procs : sched'.state[x] = "Unborn" => sched.state[x] = "Unborn"
    OBVIOUS
  <2>3. /\ \A q \in Procs : pc'[q] = "fork" => pc[q] = "fork"
        /\ \A q \in Procs : pc'[q] # "gone" => pc[q] # "gone"
    OBVIOUS
  <2>. QED
    BY <2>1, <2>2, <2>3, Rest
<1>4. Found'
  <2>1. \A r : Last(r)' = Last(r)
    BY DEF Last, family
  <2>2. ASSUME NEW x \in Procs, sched'.state[x] = "Ready"
        PROVE  In(x, sched'.queue) \/ \E r \in Procs : pc'[r] = "fork" /\ Last(r)' = x
    <3>1. CASE x = p
      BY <2>2, <3>1
    <3>2. CASE x # p
      <4>1. In(x, sched.queue) \/ \E r \in Procs : pc[r] = "fork" /\ Last(r) = x
        BY <1>1, <2>2, <3>2 DEF ProcInv, Found
      <4>2. \A r \in Procs : pc[r] = "fork" => pc'[r] = "fork"
        OBVIOUS
      <4>. QED
        BY <2>1, <3>2, <4>1, <4>2
    <3>. QED
      BY <3>1, <3>2
  <2>. QED
    BY <2>2 DEF Found
<1>5. Stays
  BY <1>1 DEF Stays
<1>. QED
  BY <1>2, <1>3, <1>4, <1>5

\* A process yields, and goes back to the queue.
LEMMA YieldStep == ASSUME ProcInv, NEW p \in Procs, Yield(p) PROVE ProcInv' /\ Stays
<1> DEFINE q == Without(sched.queue, p)
           s == WithQueue(sched, q)
           w == SetState(s, p, "Ready")
<1>1. /\ cpu = p /\ sched' = Registered(w, p, Nil) /\ cpu' = Nil /\ spc' = "back"
      /\ UNCHANGED <<proc, chan, family, pc, io>> /\ slept' = [slept EXCEPT ![p] = 0]
  BY DEF Yield, Reschedule, Unregistered, WithQueue
<1>2. /\ sched.state[p] = "Running" /\ proc = p /\ spc = "dispatch" /\ Hand(p) = 1
  BY <1>1, Running
<1>3. Good(sched, chan) /\ sched.queue \in Seq(Procs)
  BY Fields DEF ProcInv, Good
<1>4. /\ q \in Seq(Procs)
      /\ \A x : (In(x, q) <=> In(x, sched.queue) /\ x # p) /\ Copies(x, q) <= Copies(x, sched.queue)
  BY <1>3, LeftOut
<1> HIDE DEF q
<1>5. /\ Good(s, chan) /\ s.queue = q /\ s.state = sched.state
      /\ \A x \in Procs : Waiting(s, chan, x) = Waiting(sched, chan, x)
  <2>1. Requeues(sched, s, chan, q)
    BY <1>3, <1>4, Requeued
  <2>. QED
    BY <2>1 DEF Requeues
<1> HIDE DEF s
<1>6. /\ Good(w, chan) /\ w.queue = q /\ w.state[p] = "Ready"
      /\ \A x \in Procs \ {p} : /\ w.state[x] = sched.state[x]
                                /\ Waiting(w, chan, x) = Waiting(sched, chan, x)
      /\ Waiting(w, chan, p) = 0
  <2>1. s.state[p] # "Sleeping" /\ "Ready" \in States /\ \A x \in Procs \ {p} : chan[x] = chan[x]
    BY <1>2, <1>5 DEF States
  <2>2. /\ Good(w, chan) /\ w.queue = s.queue /\ w.state[p] = "Ready"
        /\ \A x \in Procs \ {p} : /\ w.state[x] = s.state[x]
                                  /\ Waiting(w, chan, x) = Waiting(s, chan, x)
        /\ Waiting(w, chan, p) = 0
    <3>1. Good(s, chan)
      BY <1>5
    <3>2. Restates(s, chan, w, chan, p, "Ready")
      BY <2>1, <3>1, Moved
    <3>. QED
      BY <3>2 DEF Restates
  <2>. QED
    BY <1>5, <2>2
<1> HIDE DEF w
<1>7. /\ Good(sched', chan) /\ sched'.state = w.state
      /\ \A x \in Procs : /\ In(x, sched'.queue) <=> In(x, w.queue) \/ x = p
                          /\ Load(sched', chan, x) = Load(w, chan, x) + (IF x = p THEN 1 ELSE 0)
  <2>1. Good(w, chan) /\ w.state[p] = "Ready" /\ sched' = Registered(w, p, Nil)
    BY <1>1, <1>6
  <2>2. EntersQueue(w, Registered(w, p, Nil), chan, p)
    BY <2>1, RegisteredReady
  <2>3. EntersQueue(w, sched', chan, p)
    BY <2>1, <2>2
  <2>. QED
    BY <2>3 DEF EntersQueue
<1>8. Typed'
  <2>1. slept' \in [Procs -> Nat]
    BY <1>1, SMTT(30) DEF ProcInv, Typed
  <2>. QED
    BY <1>1, <2>1 DEF ProcInv, Typed, family
<1>9. OnHart' /\ Born' /\ Kin' /\ Forks' /\ Found' /\ Stays
  <2>1. /\ sched'.state[p] = "Ready" /\ In(p, sched'.queue)
        /\ \A x \in Procs \ {p} : sched'.state[x] = sched.state[x]
        /\ \A x \in Procs \ {p} : In(x, sched'.queue) <=> In(x, sched.queue)
    BY <1>4, <1>6, <1>7
  <2>2. UNCHANGED <<family, proc>> /\ pc' = pc
    BY <1>1
  <2>. QED
    BY <1>1, <2>1, <2>2, GivesUp
<1>10. OnChannel'
  BY <1>1, <1>6, <1>7 DEF ProcInv, OnChannel
<1>11. ASSUME NEW x \in Procs PROVE Load(sched', chan, x) + Hand(x)' <= 2 + slept'[x]
  <2>1. /\ Load(sched', chan, x) = Load(w, chan, x) + (IF x = p THEN 1 ELSE 0)
        /\ Load(w, chan, x) = Copies(x, q) + Waiting(w, chan, x)
        /\ Load(sched, chan, x) = Copies(x, sched.queue) + Waiting(sched, chan, x)
        /\ Copies(x, q) \in Nat /\ Copies(x, sched.queue) \in Nat /\ Waiting(sched, chan, x) \in Nat
    BY <1>3, <1>6, <1>7, Loads
  <2>2. Load(sched, chan, x) + Hand(x) <= 2 + slept[x] /\ slept[x] \in Nat
    BY DEF ProcInv, Bounded, Typed
  <2>3. Hand(x) = (IF x = p THEN 1 ELSE 0) /\ Hand(x)' = Hand(x)
    BY <1>1, <1>2 DEF Hand
  <2>4. CASE x = p
    <3>1. Copies(x, q) = 0 /\ Waiting(w, chan, x) = 0
      BY <1>4, <1>6, <2>4, Spotted
    <3>2. slept'[x] = 0
      BY <1>1, <2>4 DEF ProcInv, Typed
    <3>. QED
      BY <2>1, <2>3, <2>4, <3>1, <3>2, SMTT(30)
  <2>5. CASE x # p
    <3>1. Waiting(w, chan, x) = Waiting(sched, chan, x) /\ Copies(x, q) <= Copies(x, sched.queue)
      BY <1>4, <1>6, <2>5
    <3>2. slept'[x] = slept[x]
      BY <1>1, <2>5 DEF ProcInv, Typed
    <3>. QED
      BY <2>1, <2>2, <2>3, <2>5, <3>1, <3>2, SMTT(30)
  <2>. QED
    BY <2>4, <2>5
<1>12. chan' = chan
  BY <1>1
<1>. QED
  BY <1>7, <1>8, <1>9, <1>10, <1>11, <1>12 DEF ProcInv, Bounded

\* sleep, from where the process is in the kernel.
LEMMA SleepStep ==
    ASSUME ProcInv, NEW p \in Procs, cpu = p, NEW c \in Chans, NEW at \in {"wait", "disk"},
           Sleep(p, c, at), pc[p] \in {"user", "wait", "disk"}, UNCHANGED family, io' \subseteq DoesIo
    PROVE  ProcInv' /\ Stays
<1> DEFINE s == SetState(sched, p, "Sleeping")
<1>1. /\ sched' = Registered(s, p, c) /\ cpu' = Nil /\ spc' = "back" /\ proc' = proc
      /\ chan' = [chan EXCEPT ![p] = c] /\ pc' = [pc EXCEPT ![p] = at]
      /\ slept' = [slept EXCEPT ![p] = @ + 1]
  BY DEF Sleep, Reschedule
<1>2. /\ sched.state[p] = "Running" /\ proc = p /\ spc = "dispatch" /\ Hand(p) = 1
  BY Running
<1>3. Good(sched, chan)
  BY DEF ProcInv
<1>4. /\ chan' \in [Procs -> Chans \cup {Nil}] /\ chan'[p] = c
      /\ \A x \in Procs \ {p} : chan'[x] = chan[x]
  BY <1>1 DEF ProcInv, Typed
<1>5. /\ Good(s, chan') /\ s.queue = sched.queue /\ s.state[p] = "Sleeping"
      /\ \A x \in Procs \ {p} : /\ s.state[x] = sched.state[x]
                                /\ Waiting(s, chan', x) = Waiting(sched, chan, x)
      /\ Waiting(s, chan', p) = 0
  <2>1. sched.state[p] # "Sleeping" /\ "Sleeping" \in States /\ \A x \in Procs \ {p} : chan'[x] = chan[x]
    BY <1>2, <1>4 DEF States
  <2>2. Restates(sched, chan, s, chan', p, "Sleeping")
    BY <1>3, <2>1, Moved
  <2>. QED
    BY <2>2 DEF Restates
<1> HIDE DEF s
<1>6. /\ Good(sched', chan') /\ sched'.state = s.state /\ sched'.queue = s.queue
      /\ \A x \in Procs : Load(sched', chan', x) <= Load(s, chan', x) + (IF x = p THEN 1 ELSE 0)
  <2>1. Good(s, chan') /\ s.state[p] = "Sleeping" /\ chan'[p] = c /\ sched' = Registered(s, p, c)
    BY <1>1, <1>4, <1>5
  <2>2. EntersTable(s, Registered(s, p, c), chan', p)
    BY <2>1, RegisteredSleeping
  <2>3. EntersTable(s, sched', chan', p)
    BY <2>1, <2>2
  <2>. QED
    BY <2>3 DEF EntersTable
<1>7. Typed'
  <2>1. slept' \in [Procs -> Nat]
    BY <1>1, SMTT(30) DEF ProcInv, Typed
  <2>2. pc' \in [Procs -> {"user", "fork", "wait", "disk", "gone"}]
    BY <1>1 DEF ProcInv, Typed
  <2>. QED
    BY <1>1, <1>4, <2>1, <2>2 DEF ProcInv, Typed, family
<1>8. OnHart' /\ Born' /\ Kin' /\ Forks' /\ Found' /\ Stays
  <2>1. /\ sched'.state[p] = "Sleeping"
        /\ \A x \in Procs \ {p} : sched'.state[x] = sched.state[x]
        /\ \A x \in Procs \ {p} : In(x, sched'.queue) <=> In(x, sched.queue)
    BY <1>5, <1>6
  <2>2. UNCHANGED <<family, proc>> /\ pc'[p] \in {"user", "wait", "disk"}
        /\ \A x \in Procs \ {p} : pc'[x] = pc[x]
    BY <1>1 DEF ProcInv, Typed
  <2>. QED
    BY <1>1, <2>1, <2>2, GivesUp
<1>9. OnChannel'
  BY <1>4, <1>5, <1>6 DEF ProcInv, OnChannel
<1>10. ASSUME NEW x \in Procs PROVE Load(sched', chan', x) + Hand(x)' <= 2 + slept'[x]
  <2>1. /\ Load(sched', chan', x) <= Load(s, chan', x) + (IF x = p THEN 1 ELSE 0)
        /\ Load(sched', chan', x) \in Nat
        /\ Load(s, chan', x) = Copies(x, sched.queue) + Waiting(s, chan', x)
        /\ Load(sched, chan, x) = Copies(x, sched.queue) + Waiting(sched, chan, x)
        /\ Copies(x, sched.queue) \in Nat /\ Waiting(sched, chan, x) \in Nat
    BY <1>3, <1>5, <1>6, Loads
  <2>2. Load(sched, chan, x) + Hand(x) <= 2 + slept[x] /\ slept[x] \in Nat
    BY DEF ProcInv, Bounded, Typed
  <2>3. Hand(x) = (IF x = p THEN 1 ELSE 0) /\ Hand(x)' = Hand(x)
    BY <1>1, <1>2 DEF Hand
  <2>4. slept'[x] = slept[x] + (IF x = p THEN 1 ELSE 0)
    BY <1>1, SMTT(30) DEF ProcInv, Typed
  <2>5. Waiting(s, chan', x) = (IF x = p THEN 0 ELSE Waiting(sched, chan, x))
    BY <1>5
  <2>. QED
    BY <2>1, <2>2, <2>3, <2>4, <2>5, SMTT(30)
<1>. QED
  BY <1>6, <1>7, <1>8, <1>9, <1>10 DEF ProcInv, Bounded

\* wait sleeps on the process itself.
LEMMA WaitSleepsStep == ASSUME ProcInv, NEW p \in Procs, WaitSleeps(p) PROVE ProcInv' /\ Stays
<1>1. /\ cpu = p /\ pc[p] \in {"user", "wait", "disk"} /\ Sleep(p, p, "wait")
      /\ UNCHANGED family /\ io' = io
  BY DEF WaitSleeps
<1>2. p \in Chans /\ io' \subseteq DoesIo
  BY <1>1, Numbers DEF ProcInv, Typed
<1>. QED
  BY <1>1, <1>2, SleepStep

\* A process sleeps on its buffer until the disk is done.
LEMMA DiskSleepsStep == ASSUME ProcInv, NEW p \in Procs, DiskSleeps(p) PROVE ProcInv' /\ Stays
<1>1. /\ cpu = p /\ pc[p] \in {"user", "wait", "disk"} /\ Sleep(p, Buffer(p), "disk")
      /\ UNCHANGED family /\ io' = io \cup {p} /\ (p \in DoesIo \/ p \in io)
  BY DEF DiskSleeps, StartsTransfer, AwaitsTransfer
<1>2. Buffer(p) \in Chans /\ io' \subseteq DoesIo
  BY <1>1, Numbers DEF ProcInv, Typed
<1>. QED
  BY <1>1, <1>2, SleepStep

\* The interrupt of the disk wakes who sleeps on the buffer.
LEMMA DiskInterruptStep == ASSUME ProcInv, NEW p \in Procs, DiskInterrupt(p) PROVE ProcInv' /\ Stays
<1>1. /\ sched' = Wakeup(sched, Buffer(p)) /\ io' = io \ {p}
      /\ UNCHANGED <<chan, family, cpu, spc, proc, pc, slept>>
  BY DEF DiskInterrupt
<1>2. Woke(sched, sched', chan)
  <2>1. Good(sched, chan) /\ Buffer(p) \in Chans /\ sched' = Wakeup(sched, Buffer(p))
    BY <1>1, Numbers DEF ProcInv
  <2>2. Woke(sched, Wakeup(sched, Buffer(p)), chan)
    BY <2>1, Wakes
  <2>. QED
    BY <2>1, <2>2
<1>3. Good(sched', chan')
  BY <1>1, <1>2 DEF Woke
<1>4. \A x \in Procs :
         /\ \/ sched'.state[x] = sched.state[x]
            \/ sched.state[x] = "Sleeping" /\ sched'.state[x] = "Ready" /\ In(x, sched'.queue)
         /\ In(x, sched.queue) => In(x, sched'.queue)
         /\ In(x, sched'.queue) => In(x, sched.queue) \/ sched.state[x] = "Sleeping"
  BY <1>2 DEF Woke
<1>5. Typed'
  BY <1>1 DEF ProcInv, Typed, family
<1>6. OnHart'
  <2>1. \A x \in Procs : sched'.state[x] = "Running" <=> sched.state[x] = "Running"
    BY <1>4
  <2>2. spc = "dispatch" /\ cpu = Nil => sched'.state[proc] = "Ready"
    <3>1. spc = "dispatch" => proc \in Procs
      BY DEF ProcInv, OnHart
    <3>. QED
      BY <1>4, <3>1 DEF ProcInv, OnHart
  <2>. QED
    BY <1>1, <2>1, <2>2 DEF ProcInv, OnHart
<1>7. Born' /\ Kin' /\ Forks'
  <2>1. UNCHANGED <<proc, family, pc>>
    BY <1>1
  <2>2. ASSUME NEW x \in Procs, Unknown(x)
        PROVE  sched'.state[x] = sched.state[x] /\ ~In(x, sched'.queue) /\ proc' # x
    BY <1>4, <2>1, <2>2 DEF Unknown
  <2>3. \A x \in Procs : sched'.state[x] = "Unborn" => sched.state[x] = "Unborn"
    BY <1>4
  <2>. QED
    BY <2>1, <2>2, <2>3, Rest
<1>8. OnChannel'
  BY <1>1, <1>4 DEF ProcInv, OnChannel
<1>9. Found'
  <2>1. \A r : Last(r)' = Last(r)
    BY <1>1 DEF Last, family
  <2>2. ASSUME NEW x \in Procs, sched'.state[x] = "Ready", ~In(x, sched'.queue)
        PROVE  \/ proc = x /\ cpu = Nil /\ spc \in {"look", "put", "dispatch"}
               \/ \E r \in Procs : pc[r] = "fork" /\ Last(r) = x
    BY <1>4, <2>2 DEF ProcInv, Found
  <2>. QED
    BY <1>1, <2>1, <2>2 DEF Found
<1>10. ASSUME NEW x \in Procs PROVE Load(sched', chan, x) + Hand(x)' <= 2 + slept[x]
  <2>1. /\ Load(sched', chan, x) <= Load(sched, chan, x) /\ Load(sched', chan, x) \in Nat
        /\ Load(sched, chan, x) + Hand(x) <= 2 + slept[x] /\ slept[x] \in Nat
        /\ Load(sched, chan, x) \in Nat
    BY <1>2, Loads DEF ProcInv, Bounded, Typed, Woke
  <2>2. Hand(x)' = Hand(x) /\ Hand(x) \in {0, 1}
    BY <1>1 DEF Hand
  <2>. QED
    BY <2>1, <2>2, SMTT(30)
<1>11. chan' = chan /\ slept' = slept
  BY <1>1
<1>12. Stays
  BY <1>4 DEF Stays
<1>. QED
  BY <1>3, <1>5, <1>6, <1>7, <1>8, <1>9, <1>10, <1>11, <1>12 DEF ProcInv, Bounded
-----------------------------------------------------------------------------
(***************************************************************************)
(* The steps of a process that keeps the hart, and exit.                   *)
(***************************************************************************)
LEMMA GotoStep ==
    ASSUME ProcInv, NEW p \in Procs, NEW at \in {"user", "wait"}, Goto(p, at),
           pc[p] \in {"user", "wait", "disk"}, UNCHANGED <<parent, created>>,
           children' \in [Procs -> Seq(Procs)],
           \A q \in Procs \ {p} : children'[q] = children[q],
           \A i \in DOMAIN children'[p] : \E j \in DOMAIN children[p] : children'[p][i] = children[p][j]
    PROVE  ProcInv' /\ Stays
<1>1. UNCHANGED <<sched, chan, cpu, spc, proc, io, slept>> /\ pc' = [pc EXCEPT ![p] = at]
  BY DEF Goto
<1>2. /\ pc' \in [Procs -> {"user", "fork", "wait", "disk", "gone"}]
      /\ pc'[p] = at /\ \A q \in Procs \ {p} : pc'[q] = pc[q]
  BY <1>1 DEF ProcInv, Typed
<1>3. Typed'
  BY <1>1, <1>2 DEF ProcInv, Typed
<1>4. OnHart' /\ Born' /\ OnChannel'
  BY <1>1 DEF ProcInv, OnHart, Born, OnChannel
<1>5. Kin'
  <2>1. SUFFICES ASSUME NEW q \in Procs, pc'[q] # "gone", NEW i \in DOMAIN children'[q]
                 PROVE  parent[children'[q][i]] = q /\ children'[q][i] < created
    BY DEF Kin
  <2>2. pc[q] # "gone"
    BY <1>2, <2>1
  <2>3. PICK j \in DOMAIN children[q] : children'[q][i] = children[q][j]
    OBVIOUS
  <2>4. parent[children[q][j]] = q /\ children[q][j] < created
    BY <2>2 DEF ProcInv, Kin
  <2>. QED
    BY <2>3, <2>4
<1>6. \A q \in Procs : pc'[q] = "fork" <=> pc[q] = "fork"
  BY <1>2
<1>7. \A q \in Procs : pc[q] = "fork" => Last(q)' = Last(q) /\ children'[q] = children[q]
  BY DEF Last
<1>8. Forks'
  BY <1>1, <1>6, <1>7 DEF ProcInv, Forks
<1>9. Found'
  <2>1. SUFFICES ASSUME NEW q \in Procs, sched.state[q] = "Ready"
                 PROVE  \/ In(q, sched.queue)
                        \/ proc = q /\ cpu = Nil /\ spc \in {"look", "put", "dispatch"}
                        \/ \E r \in Procs : pc'[r] = "fork" /\ Last(r)' = q
    BY <1>1 DEF Found
  <2>2. CASE \E r \in Procs : pc[r] = "fork" /\ Last(r) = q
    BY <1>6, <1>7, <2>2
  <2>. QED
    BY <2>1, <2>2 DEF ProcInv, Found
<1>10. Bounded' /\ Good(sched', chan') /\ Stays
  BY <1>1 DEF ProcInv, Bounded, Hand, Stays
<1>. QED
  BY <1>3, <1>4, <1>5, <1>8, <1>9, <1>10 DEF ProcInv

\* The steps that only move the process that runs from one place to another.
LEMMA StayStep ==
    ASSUME ProcInv, NEW p \in Procs, WaitCall(p) \/ WaitFails(p) \/ DiskReturns(p)
    PROVE  ProcInv' /\ Stays
<1>1. UNCHANGED family /\ pc[p] \in {"user", "wait", "disk"} /\ \E at \in {"user", "wait"} : Goto(p, at)
  BY DEF WaitCall, WaitFails, DiskReturns
<1>2. parent' = parent /\ created' = created /\ children' = children
  BY <1>1 DEF family
<1>3. children' \in [Procs -> Seq(Procs)]
  BY <1>2 DEF ProcInv, Typed
<1>. QED
  BY <1>1, <1>2, <1>3, GotoStep

\* wait takes a child that has exited from its children.
LEMMA WaitReapsStep == ASSUME ProcInv, NEW p \in Procs, WaitReaps(p) PROVE ProcInv' /\ Stays
<1>1. pc[p] \in {"user", "wait", "disk"} /\ Goto(p, "user") /\ UNCHANGED <<parent, created>>
  BY DEF WaitReaps
<1>2. children \in [Procs -> Seq(Procs)] /\ children[p] \in Seq(Procs)
  BY DEF ProcInv, Typed
<1>3. PICK i \in DOMAIN children[p] : children' = [children EXCEPT ![p] = CutOut(children[p], i)]
  BY DEF WaitReaps, Zombies, CutOut
<1> DEFINE c == children[p]
           t == CutOut(c, i)
<1>4. c \in Seq(Procs) /\ i \in 1 .. Len(c)
  BY <1>2, LenProperties
<1> HIDE DEF c
<1>5. t \in Seq(Procs) /\ Cuts(t, c, i)
  BY <1>4, CutPlaces
<1>6. children' = [children EXCEPT ![p] = t]
  BY <1>3 DEF c
<1> HIDE DEF t
<1>7. /\ children' \in [Procs -> Seq(Procs)] /\ children'[p] = t
      /\ \A q \in Procs \ {p} : children'[q] = children[q]
  BY <1>2, <1>5, <1>6
<1>8. \A k \in DOMAIN t : \E j \in DOMAIN c : t[k] = c[j]
  BY <1>5 DEF Cuts
<1>9. \A k \in DOMAIN children'[p] : \E j \in DOMAIN children[p] : children'[p][k] = children[p][j]
  BY <1>7, <1>8 DEF c
<1>. QED
  BY <1>1, <1>7, <1>9, GotoStep

\* fork makes the child, which nobody has registered yet.
LEMMA ForkStep == ASSUME ProcInv, NEW p \in Procs, Fork(p) PROVE ProcInv' /\ Stays
<1> DEFINE c == created
<1>1. /\ cpu = p /\ pc[p] = "user" /\ created < NumProcs /\ created' = created + 1
      /\ parent' = [parent EXCEPT ![c] = p]
      /\ children' = [children EXCEPT ![p] = Append(children[p], c)]
      /\ sched' = SetState(sched, c, "Ready") /\ pc' = [pc EXCEPT ![p] = "fork"]
      /\ UNCHANGED <<chan, cpu, spc, proc, io, slept>>
  BY DEF Fork
<1>2. /\ c \in Procs /\ c >= created /\ created + 1 \in 1 .. NumProcs /\ created \in Nat
      /\ \A x \in Procs : (x >= created + 1 <=> x >= created /\ x # c)
      /\ \A x \in Procs : (x < created + 1 <=> x < created \/ x = c) /\ ~(c < created)
  <2>1. created \in 1 .. NumProcs /\ NumProcs \in Nat
    BY Numbers DEF ProcInv, Typed
  <2>2. \A x \in Procs : x \in Nat
    BY Numbers
  <2>3. c \in Procs
    BY <1>1, <2>1, SMTT(30) DEF Procs
  <2>. QED
    BY <1>1, <2>1, <2>2, <2>3, SMTT(30)
<1>3. sched.state[c] = "Unborn" /\ ~In(c, sched.queue) /\ proc # c
  BY <1>2 DEF ProcInv, Born
<1>4. /\ Good(sched', chan) /\ sched'.queue = sched.queue /\ sched'.state[c] = "Ready"
      /\ \A x \in Procs \ {c} : /\ sched'.state[x] = sched.state[x]
                                /\ Waiting(sched', chan, x) = Waiting(sched, chan, x)
      /\ Waiting(sched', chan, c) = 0
  <2>1. Good(sched, chan) /\ sched.state[c] # "Sleeping" /\ "Ready" \in States
        /\ c \in Procs /\ sched' = SetState(sched, c, "Ready")
        /\ \A x \in Procs \ {c} : chan[x] = chan[x]
    BY <1>1, <1>2, <1>3 DEF ProcInv, States
  <2>2. Restates(sched, chan, SetState(sched, c, "Ready"), chan, c, "Ready")
    BY <2>1, Moved
  <2>3. Restates(sched, chan, sched', chan, c, "Ready")
    BY <2>1, <2>2
  <2>. QED
    BY <2>3 DEF Restates
<1>5. children \in [Procs -> Seq(Procs)] /\ children[p] \in Seq(Procs)
  BY DEF ProcInv, Typed
<1> DEFINE d == children[p]
           e == Append(d, c)
<1>6. d \in Seq(Procs)
  BY <1>5
<1> HIDE DEF d
<1>7. /\ e \in Seq(Procs) /\ e # <<>> /\ e[Len(e)] = c
      /\ \A i \in DOMAIN e : e[i] = c \/ (i \in DOMAIN d /\ e[i] = d[i])
  <2> HIDE DEF c
  <2>1. c \in Procs
    BY <1>2
  <2>. QED
    BY <1>6, <2>1, SMTT(30)
<1>8. children' = [children EXCEPT ![p] = e]
  BY <1>1 DEF d
<1> HIDE DEF e
<1>9. /\ children' \in [Procs -> Seq(Procs)] /\ children'[p] = e
      /\ \A q \in Procs \ {p} : children'[q] = children[q]
  BY <1>5, <1>7, <1>8
<1> HIDE DEF c
<1>10. /\ parent' \in [Procs -> Procs \cup {Nil}] /\ parent'[c] = p
       /\ \A x \in Procs \ {c} : parent'[x] = parent[x]
  BY <1>1, <1>2 DEF ProcInv, Typed
<1>11. /\ pc' \in [Procs -> {"user", "fork", "wait", "disk", "gone"}]
       /\ pc'[p] = "fork" /\ \A q \in Procs \ {p} : pc'[q] = pc[q]
  BY <1>1 DEF ProcInv, Typed
<1>12. Typed'
  <2>1. created' \in 1 .. NumProcs
    BY <1>1, <1>2
  <2>. QED
    BY <1>1, <1>9, <1>10, <1>11, <2>1 DEF ProcInv, Typed
<1>13. OnHart'
  <2>1. \A x \in Procs : sched'.state[x] = "Running" <=> sched.state[x] = "Running"
    BY <1>3, <1>4
  <2>2. cpu # Nil
    BY <1>1, Running
  <2>. QED
    BY <1>1, <2>1, <2>2 DEF ProcInv, OnHart
<1>14. Born'
  <2>1. ASSUME NEW x \in Procs
        PROVE  /\ x >= created + 1 <=> sched'.state[x] = "Unborn"
               /\ x >= created + 1 => ~In(x, sched'.queue) /\ proc # x
               /\ x # InitProc /\ x < created + 1 => parent'[x] \in Procs
    <3>1. CASE x = c
      BY <1>2, <1>4, <1>10, <3>1
    <3>2. CASE x # c
      BY <1>2, <1>4, <1>10, <3>2 DEF ProcInv, Born
    <3>. QED
      BY <3>1, <3>2
  <2>. QED
    BY <1>1, <2>1 DEF Born
<1>15. OnChannel'
  BY <1>1, <1>3, <1>4 DEF ProcInv, OnChannel
<1>16. Kin'
  <2>0. SUFFICES ASSUME NEW q \in Procs, pc'[q] # "gone", NEW i \in DOMAIN children'[q]
                 PROVE  parent'[children'[q][i]] = q /\ children'[q][i] < created'
    BY DEF Kin
  <2>1. SUFFICES parent'[children'[q][i]] = q /\ children'[q][i] < created + 1
    BY <1>1
  <2>2. pc[q] # "gone"
    BY <1>1, <1>11, <2>0
  <2>3. CASE q = p /\ children'[q][i] = c
    BY <1>2, <1>10, <2>3
  <2>4. CASE ~(q = p /\ children'[q][i] = c)
    <3>1. i \in DOMAIN children[q] /\ children'[q][i] = children[q][i]
      BY <1>7, <1>9, <2>0, <2>4 DEF d
    <3>2. parent[children[q][i]] = q /\ children[q][i] < created
      BY <2>2, <3>1 DEF ProcInv, Kin
    <3>3. children[q][i] \in Procs
      BY <1>5, <3>1, LenProperties
    <3>4. children[q][i] # c
      BY <1>2, <3>2
    <3>. QED
      BY <1>2, <1>10, <3>1, <3>2, <3>3, <3>4
  <2>. QED
    BY <2>3, <2>4
<1>17. Last(p)' = c /\ \A q \in Procs \ {p} : Last(q)' = Last(q)
  BY <1>7, <1>9 DEF Last
<1>18. Forks'
  <2>1. SUFFICES ASSUME NEW q \in Procs, pc'[q] = "fork"
                 PROVE  /\ children'[q] # <<>> /\ sched'.state[Last(q)'] = "Ready"
                        /\ ~In(Last(q)', sched'.queue) /\ proc # Last(q)'
    BY <1>1 DEF Forks
  <2>2. CASE q = p
    BY <1>3, <1>4, <1>7, <1>9, <1>17, <2>2
  <2>3. CASE q # p
    <3>1. pc[q] = "fork" /\ Last(q)' = Last(q) /\ children'[q] = children[q]
      BY <1>9, <1>11, <1>17, <2>1, <2>3
    <3>2. /\ children[q] # <<>> /\ sched.state[Last(q)] = "Ready"
          /\ ~In(Last(q), sched.queue) /\ proc # Last(q)
      BY <3>1 DEF ProcInv, Forks
    <3>3. Last(q) \in Procs
      BY <3>2, LastChild DEF ProcInv
    <3>4. Last(q) # c
      BY <1>3, <3>2
    <3>. QED
      BY <1>4, <3>1, <3>2, <3>3, <3>4
  <2>. QED
    BY <2>2, <2>3
<1>19. Found'
  <2>1. ASSUME NEW x \in Procs, sched'.state[x] = "Ready", x # c
        PROVE  \/ In(x, sched.queue)
               \/ proc = x /\ cpu = Nil /\ spc \in {"look", "put", "dispatch"}
               \/ \E r \in Procs : pc'[r] = "fork" /\ Last(r)' = x
    <3>1. sched.state[x] = "Ready"
      BY <1>4, <2>1
    <3>2. \A r \in Procs : pc[r] = "fork" => pc'[r] = "fork" /\ Last(r)' = Last(r)
      BY <1>1, <1>11, <1>17
    <3>. QED
      BY <3>1, <3>2 DEF ProcInv, Found
  <2>. QED
    BY <1>1, <1>4, <1>11, <1>17, <2>1 DEF Found
<1>20. ASSUME NEW x \in Procs PROVE Load(sched', chan, x) + Hand(x)' <= 2 + slept[x]
  <2>1. /\ Load(sched', chan, x) = Copies(x, sched.queue) + Waiting(sched', chan, x)
        /\ Load(sched, chan, x) = Copies(x, sched.queue) + Waiting(sched, chan, x)
        /\ Copies(x, sched.queue) \in Nat /\ Waiting(sched, chan, x) \in Nat
    BY <1>4, Loads DEF ProcInv
  <2>2. Waiting(sched', chan, x) = 0 \/ Waiting(sched', chan, x) = Waiting(sched, chan, x)
    BY <1>4
  <2>3. Load(sched, chan, x) + Hand(x) <= 2 + slept[x] /\ slept[x] \in Nat
    BY DEF ProcInv, Bounded, Typed
  <2>4. Hand(x)' = Hand(x) /\ Hand(x) \in {0, 1}
    BY <1>1 DEF Hand
  <2>. QED
    BY <2>1, <2>2, <2>3, <2>4, SMTT(30)
<1>21. chan' = chan /\ slept' = slept
  BY <1>1
<1>22. Stays
  BY <1>3, <1>4 DEF Stays
<1>. QED
  BY <1>4, <1>12, <1>13, <1>14, <1>15, <1>16, <1>18, <1>19, <1>20, <1>21, <1>22 DEF ProcInv, Bounded

\* fork registers the child.
LEMMA ForkRegistersStep == ASSUME ProcInv, NEW p \in Procs, ForkRegisters(p) PROVE ProcInv' /\ Stays
<1> DEFINE c == Last(p)
<1>1. /\ cpu = p /\ pc[p] = "fork" /\ sched' = Registered(sched, c, Nil)
      /\ pc' = [pc EXCEPT ![p] = "user"] /\ UNCHANGED <<chan, family, cpu, spc, proc, io, slept>>
  BY DEF ForkRegisters, Last
<1>2. /\ children[p] # <<>> /\ sched.state[c] = "Ready" /\ ~In(c, sched.queue) /\ proc # c
  BY <1>1 DEF ProcInv, Forks
<1>3. c \in Procs /\ Len(children[p]) \in DOMAIN children[p]
  BY <1>2, LastChild DEF ProcInv
<1>4. parent[c] = p
  BY <1>1, <1>3 DEF ProcInv, Kin, Last
<1> HIDE DEF c
<1>5. /\ Good(sched', chan) /\ sched'.state = sched.state
      /\ \A x \in Procs : /\ In(x, sched'.queue) <=> In(x, sched.queue) \/ x = c
                          /\ Load(sched', chan, x) = Load(sched, chan, x) + (IF x = c THEN 1 ELSE 0)
  <2>1. Good(sched, chan) /\ c \in Procs /\ sched.state[c] = "Ready" /\ sched' = Registered(sched, c, Nil)
    BY <1>1, <1>2, <1>3 DEF ProcInv
  <2>2. EntersQueue(sched, Registered(sched, c, Nil), chan, c)
    BY <2>1, RegisteredReady
  <2>3. EntersQueue(sched, sched', chan, c)
    BY <2>1, <2>2
  <2>. QED
    BY <2>3 DEF EntersQueue
<1>6. /\ pc' \in [Procs -> {"user", "fork", "wait", "disk", "gone"}]
      /\ pc'[p] = "user" /\ \A q \in Procs \ {p} : pc'[q] = pc[q]
  BY <1>1 DEF ProcInv, Typed
<1>7. parent' = parent /\ children' = children /\ created' = created /\ \A r : Last(r)' = Last(r)
  BY <1>1 DEF family, Last
<1>8. Typed'
  BY <1>1, <1>6, <1>7 DEF ProcInv, Typed
<1>9. OnHart' /\ OnChannel'
  BY <1>1, <1>5 DEF ProcInv, OnHart, OnChannel
<1>10. Born'
  BY <1>1, <1>2, <1>5, <1>7 DEF ProcInv, Born
<1>11. Kin'
  <2>1. \A q \in Procs : pc'[q] # "gone" => pc[q] # "gone"
    BY <1>1, <1>6
  <2>. QED
    BY <1>7, <2>1 DEF ProcInv, Kin
<1>12. Forks'
  <2>1. SUFFICES ASSUME NEW q \in Procs, pc'[q] = "fork"
                 PROVE  /\ children[q] # <<>> /\ sched.state[Last(q)] = "Ready"
                        /\ ~In(Last(q), sched'.queue) /\ proc # Last(q)
    BY <1>1, <1>5, <1>7 DEF Forks
  <2>2. q # p /\ pc[q] = "fork"
    BY <1>6, <2>1
  <2>3. /\ children[q] # <<>> /\ sched.state[Last(q)] = "Ready"
        /\ ~In(Last(q), sched.queue) /\ proc # Last(q)
    BY <2>2 DEF ProcInv, Forks
  <2>4. Last(q) \in Procs /\ Len(children[q]) \in DOMAIN children[q]
    BY <2>3, LastChild DEF ProcInv
  <2>5. parent[Last(q)] = q
    BY <2>2, <2>4 DEF ProcInv, Kin, Last
  <2>6. Last(q) # c
    BY <1>4, <2>2, <2>5
  <2>. QED
    BY <1>5, <2>3, <2>4, <2>6
<1>13. Found'
  <2>1. ASSUME NEW x \in Procs, sched.state[x] = "Ready", x # c
        PROVE  \/ In(x, sched.queue)
               \/ proc = x /\ cpu = Nil /\ spc \in {"look", "put", "dispatch"}
               \/ \E r \in Procs : pc'[r] = "fork" /\ Last(r)' = x
    <3>1. \A r \in Procs : pc[r] = "fork" /\ Last(r) = x => pc'[r] = "fork" /\ Last(r)' = x
      BY <1>6, <1>7, <2>1 DEF c
    <3>. QED
      BY <2>1, <3>1 DEF ProcInv, Found
  <2>. QED
    BY <1>1, <1>5, <2>1 DEF Found
<1>14. ASSUME NEW x \in Procs PROVE Load(sched', chan, x) + Hand(x)' <= 2 + slept[x]
  <2>1. /\ Load(sched', chan, x) = Load(sched, chan, x) + (IF x = c THEN 1 ELSE 0)
        /\ Load(sched, chan, x) = Copies(x, sched.queue) + Waiting(sched, chan, x)
        /\ Load(sched, chan, x) \in Nat /\ sched.queue \in Seq(Procs)
    BY <1>5, Loads, Fields DEF ProcInv, Good
  <2>2. Load(sched, chan, x) + Hand(x) <= 2 + slept[x] /\ slept[x] \in Nat
    BY DEF ProcInv, Bounded, Typed
  <2>3. Hand(x)' = Hand(x) /\ Hand(x) \in {0, 1} /\ (x = c => Hand(x) = 0)
    BY <1>1, <1>2 DEF Hand
  <2>4. x = c => Copies(x, sched.queue) = 0 /\ Waiting(sched, chan, x) = 0
    BY <1>2, <2>1, Spotted DEF Waiting
  <2>. QED
    BY <2>1, <2>2, <2>3, <2>4, SMTT(30)
<1>15. chan' = chan /\ slept' = slept
  BY <1>1
<1>16. Stays
  BY <1>5 DEF Stays
<1>. QED
  BY <1>5, <1>8, <1>9, <1>10, <1>11, <1>12, <1>13, <1>14, <1>15, <1>16 DEF ProcInv, Bounded

\* exit makes the init process the parent of the children, wakes it and the parent,
\* and leaves the hart for good.
LEMMA ExitStep == ASSUME ProcInv, NEW p \in Procs, Exit(p) PROVE ProcInv' /\ Stays
<1> DEFINE s == IF children[p] = <<>> THEN sched ELSE Wakeup(sched, InitProc)
           w == Wakeup(s, parent[p])
           z == SetState(w, p, "Zombie")
<1>1. /\ cpu = p /\ pc[p] = "user" /\ p # InitProc
      /\ parent' = [c \in Procs |-> IF \E i \in DOMAIN children[p] : children[p][i] = c
                                    THEN InitProc ELSE parent[c]]
      /\ sched' = Registered(z, p, Nil) /\ cpu' = Nil /\ spc' = "back" /\ proc' = proc
      /\ pc' = [pc EXCEPT ![p] = "gone"] /\ UNCHANGED <<chan, children, created, io, slept>>
  BY DEF Exit, Reschedule, ExitWakes
<1>2. /\ sched.state[p] = "Running" /\ proc = p /\ spc = "dispatch" /\ cpu # Nil
      /\ \A x \in Procs : sched.state[x] = "Running" => x = p
      /\ ~(p >= created) /\ created \in Nat
  BY <1>1, Running
<1>3. Good(sched, chan) /\ InitProc \in Chans
  BY Numbers DEF ProcInv
<1>4. parent[p] \in Procs /\ parent[p] \in Chans
  <2>1. p < created
    <3>1. p \in Nat
      BY Numbers
    <3>. QED
      BY <1>2, <3>1, SMTT(30)
  <2>. QED
    BY <1>1, <2>1, Numbers DEF ProcInv, Born
<1>5. s = sched \/ s = Wakeup(sched, InitProc)
  OBVIOUS
<1> HIDE DEF s
<1>6. Good(s, chan) /\ (s = sched \/ Woke(sched, s, chan))
  <2>1. CASE s = sched
    BY <1>3, <2>1
  <2>2. CASE s = Wakeup(sched, InitProc)
    <3>1. Woke(sched, Wakeup(sched, InitProc), chan)
      BY <1>3, Wakes
    <3>2. Woke(sched, s, chan)
      BY <2>2, <3>1
    <3>. QED
      BY <3>2 DEF Woke
  <2>. QED
    BY <1>5, <2>1, <2>2
<1>7. Woke(s, w, chan)
  BY <1>4, <1>6, Wakes
<1> HIDE DEF w
<1>8. Woke(sched, w, chan)
  BY <1>3, <1>6, <1>7, WokeTwice
<1>9. /\ Good(w, chan)
      /\ \A x \in Procs :
            /\ \/ w.state[x] = sched.state[x]
               \/ sched.state[x] = "Sleeping" /\ w.state[x] = "Ready" /\ In(x, w.queue)
            /\ In(x, sched.queue) => In(x, w.queue)
            /\ In(x, w.queue) => In(x, sched.queue) \/ sched.state[x] = "Sleeping"
            /\ Load(w, chan, x) <= Load(sched, chan, x)
  BY <1>8 DEF Woke
<1>10. /\ Good(z, chan) /\ z.queue = w.queue /\ z.state[p] = "Zombie"
       /\ \A x \in Procs \ {p} : /\ z.state[x] = w.state[x]
                                 /\ Waiting(z, chan, x) = Waiting(w, chan, x)
       /\ Waiting(z, chan, p) = 0
  <2>1. Good(w, chan) /\ w.state[p] # "Sleeping" /\ "Zombie" \in States
        /\ \A x \in Procs \ {p} : chan[x] = chan[x]
    BY <1>2, <1>9 DEF States
  <2>2. Restates(w, chan, z, chan, p, "Zombie")
    BY <2>1, Moved
  <2>. QED
    BY <2>2 DEF Restates
<1> HIDE DEF z
<1>11. sched' = z
  <2>1. z.state[p] # "Ready" /\ z.state[p] # "Sleeping"
    BY <1>10
  <2>. QED
    BY <1>1, <2>1, RegisteredOther
<1>12. /\ sched'.state[p] = "Zombie"
       /\ \A x \in Procs \ {p} :
             \/ sched'.state[x] = sched.state[x]
             \/ sched.state[x] = "Sleeping" /\ sched'.state[x] = "Ready" /\ In(x, sched'.queue)
       /\ \A x \in Procs :
             /\ In(x, sched.queue) => In(x, sched'.queue)
             /\ In(x, sched'.queue) => In(x, sched.queue) \/ sched.state[x] = "Sleeping"
  BY <1>9, <1>10, <1>11
<1>13. /\ parent' \in [Procs -> Procs \cup {Nil}]
       /\ \A x \in Procs : /\ In(x, children[p]) => parent'[x] = InitProc
                           /\ ~In(x, children[p]) => parent'[x] = parent[x]
  BY <1>1, Numbers DEF ProcInv, Typed, In
<1>14. /\ pc' \in [Procs -> {"user", "fork", "wait", "disk", "gone"}]
       /\ pc'[p] = "gone" /\ \A q \in Procs \ {p} : pc'[q] = pc[q]
  BY <1>1 DEF ProcInv, Typed
<1>15. Typed'
  BY <1>1, <1>13, <1>14 DEF ProcInv, Typed
<1>16. OnHart'
  <2>1. \A x \in Procs : sched'.state[x] # "Running"
    BY <1>2, <1>12
  <2>. QED
    BY <1>1, <1>2, <2>1, Numbers DEF ProcInv, OnHart
<1>17. Born'
  <2>1. ASSUME NEW x \in Procs
        PROVE  /\ x >= created <=> sched'.state[x] = "Unborn"
               /\ x >= created => ~In(x, sched'.queue) /\ proc # x
    <3>1. CASE x = p
      BY <1>2, <1>12, <3>1
    <3>2. CASE x # p
      BY <1>12, <3>2 DEF ProcInv, Born
    <3>. QED
      BY <3>1, <3>2
  <2>2. ASSUME NEW x \in Procs, x # InitProc, x < created PROVE parent'[x] \in Procs
    BY <1>13, <2>2, Numbers DEF ProcInv, Born
  <2>. QED
    BY <1>1, <2>1, <2>2 DEF Born
<1>18. OnChannel'
  BY <1>1, <1>12 DEF ProcInv, OnChannel
<1>19. Kin'
  <2>0. SUFFICES ASSUME NEW q \in Procs, pc'[q] # "gone", NEW i \in DOMAIN children'[q]
                 PROVE  parent'[children'[q][i]] = q /\ children'[q][i] < created'
    BY DEF Kin
  <2>a. children' = children /\ created' = created
    BY <1>1
  <2>b. i \in DOMAIN children[q]
    BY <2>0, <2>a
  <2>1. SUFFICES parent'[children[q][i]] = q /\ children[q][i] < created
    BY <2>a
  <2>2. q # p /\ pc[q] # "gone" /\ pc[p] # "gone"
    BY <1>1, <1>14, <2>0
  <2>3. parent[children[q][i]] = q /\ children[q][i] < created
    BY <2>2, <2>b DEF ProcInv, Kin
  <2>4. children[q][i] \in Procs
    <3>1. children[q] \in Seq(Procs)
      BY DEF ProcInv, Typed
    <3>. QED
      BY <2>b, <3>1, LenProperties
  <2>5. ~In(children[q][i], children[p])
    <3>1. SUFFICES ASSUME NEW j \in DOMAIN children[p], children[p][j] = children[q][i] PROVE FALSE
      BY DEF In
    <3>2. parent[children[p][j]] = p
      BY <2>2 DEF ProcInv, Kin
    <3>. QED
      BY <2>2, <2>3, <3>1, <3>2
  <2>. QED
    BY <1>13, <2>3, <2>4, <2>5
<1>20. \A r : Last(r)' = Last(r)
  BY <1>1 DEF Last
<1>21. Forks'
  <2>1. SUFFICES ASSUME NEW q \in Procs, pc'[q] = "fork"
                 PROVE  /\ children[q] # <<>> /\ sched'.state[Last(q)] = "Ready"
                        /\ ~In(Last(q), sched'.queue) /\ proc # Last(q)
    BY <1>1, <1>20 DEF Forks
  <2>2. q # p /\ pc[q] = "fork"
    BY <1>14, <2>1
  <2>3. /\ children[q] # <<>> /\ sched.state[Last(q)] = "Ready"
        /\ ~In(Last(q), sched.queue) /\ proc # Last(q)
    BY <2>2 DEF ProcInv, Forks
  <2>4. Last(q) \in Procs
    BY <2>3, LastChild DEF ProcInv
  <2>. QED
    BY <1>2, <1>12, <2>3, <2>4
<1>22. Found'
  <2>1. ASSUME NEW x \in Procs, sched'.state[x] = "Ready", ~In(x, sched'.queue)
        PROVE  \E r \in Procs : pc'[r] = "fork" /\ Last(r)' = x
    <3>1. x # p /\ sched.state[x] = "Ready" /\ ~In(x, sched.queue)
      BY <1>12, <2>1
    <3>2. \A r \in Procs : pc[r] = "fork" => pc'[r] = "fork" /\ Last(r)' = Last(r)
      BY <1>1, <1>14, <1>20
    <3>. QED
      BY <1>2, <3>1, <3>2 DEF ProcInv, Found
  <2>. QED
    BY <2>1 DEF Found
<1>23. ASSUME NEW x \in Procs PROVE Load(sched', chan, x) + Hand(x)' <= 2 + slept[x]
  <2>1. /\ Load(sched', chan, x) = Copies(x, w.queue) + Waiting(z, chan, x)
        /\ Load(w, chan, x) = Copies(x, w.queue) + Waiting(w, chan, x)
        /\ Copies(x, w.queue) \in Nat /\ Waiting(w, chan, x) \in Nat /\ Load(sched, chan, x) \in Nat
    BY <1>3, <1>9, <1>10, <1>11, Loads
  <2>2. Waiting(z, chan, x) = 0 \/ Waiting(z, chan, x) = Waiting(w, chan, x)
    BY <1>10
  <2>3. Load(sched, chan, x) + Hand(x) <= 2 + slept[x] /\ slept[x] \in Nat
    BY DEF ProcInv, Bounded, Typed
  <2>4. Hand(x)' = Hand(x) /\ Hand(x) \in {0, 1}
    BY <1>1, <1>2 DEF Hand
  <2>5. Load(w, chan, x) <= Load(sched, chan, x)
    BY <1>9
  <2>. QED
    BY <2>1, <2>2, <2>3, <2>4, <2>5, SMTT(30)
<1>24. chan' = chan /\ slept' = slept
  BY <1>1
<1>25. Stays
  BY <1>12 DEF Stays
<1>26. Good(sched', chan)
  BY <1>10, <1>11
<1>. QED
  BY <1>15, <1>16, <1>17, <1>18, <1>19, <1>21, <1>22, <1>23, <1>24, <1>25, <1>26 DEF ProcInv, Bounded

\* Every step keeps the invariant, and the processes that have exited as they are.
LEMMA ProcStep == ASSUME ProcInv, Next PROVE ProcInv' /\ Stays
<1>1. CASE Run
  BY <1>1, TakeStep, LookStep, PutStep, DispatchStep DEF Run
<1>2. ASSUME NEW p \in Procs, Yield(p) \/ Kernel(p) \/ User(p) \/ DiskInterrupt(p)
      PROVE  ProcInv' /\ Stays
  <2>1. CASE Kernel(p)
    BY <2>1, ForkRegistersStep, StayStep, WaitReapsStep, WaitSleepsStep DEF Kernel
  <2>2. CASE User(p)
    BY <2>2, ForkStep, StayStep, DiskSleepsStep, ExitStep DEF User
  <2>. QED
    BY <1>2, <2>1, <2>2, YieldStep, DiskInterruptStep
<1>. QED
  BY <1>1, <1>2 DEF Next

\* A step that changes nothing keeps the invariant.
LEMMA ProcStutter == ASSUME ProcInv, UNCHANGED vars PROVE ProcInv'
<1>1. UNCHANGED <<sched, chan, parent, children, created, cpu, spc, proc, pc, io, slept>>
  BY DEF vars
<1>2. Good(sched', chan') /\ Typed' /\ OnHart' /\ Born' /\ OnChannel' /\ Kin'
  BY <1>1 DEF ProcInv, Typed, OnHart, Born, OnChannel, Kin
<1>3. Forks' /\ Found' /\ Bounded'
  BY <1>1 DEF ProcInv, Forks, Found, Bounded, Last, Hand
<1>. QED
  BY <1>2, <1>3 DEF ProcInv

\* The invariant holds in every state.
LEMMA ProcInvariance == Spec => []ProcInv
<1>1. ProcInv /\ [Next]_vars => ProcInv'
  BY ProcStep, ProcStutter
<1>. QED
  BY <1>1, InitProcInv, PTL DEF Spec

\* A process that is ready can always be found by the scheduler: it is in the ready
\* queue, in the hands of Scheduler::run, or about to be registered by fork.
THEOREM ProcessReadyIsQueued == Spec => []ReadyIsQueued
<1>1. ProcInv => ReadyIsQueued
  <2>1. SUFFICES ASSUME ProcInv, NEW p \in Procs, sched.state[p] = "Ready"
                 PROVE  \/ In(p, sched.queue)
                        \/ proc = p /\ cpu = Nil /\ spc \in {"look", "put", "dispatch"}
                        \/ parent[p] \in Procs /\ pc[parent[p]] = "fork" /\ Last(parent[p]) = p
    BY DEF ReadyIsQueued, Last
  <2>2. ASSUME NEW r \in Procs, pc[r] = "fork", Last(r) = p PROVE parent[p] = r
    <3>1. children[r] # <<>>
      BY <2>1, <2>2 DEF ProcInv, Forks
    <3>2. Len(children[r]) \in DOMAIN children[r]
      BY <2>1, <3>1, LastChild DEF ProcInv
    <3>. QED
      BY <2>1, <2>2, <3>2 DEF ProcInv, Kin, Last
  <2>. QED
    BY <2>1, <2>2 DEF ProcInv, Found
<1>. QED
  BY <1>1, ProcInvariance, PTL

\* However often registerProcess enters a process twice, its copies in the queue and
\* the sleep table are at most two plus the number of its sleeps since it last yielded.
THEOREM ProcessCopiesBounded == Spec => []CopiesBounded
<1>1. ProcInv => CopiesBounded
  <2>1. SUFFICES ASSUME ProcInv, NEW p \in Procs
                 PROVE  Copies(p, sched.queue)
                          + (IF sched.state[p] = "Sleeping" /\ Tabled(p)
                             THEN Copies(p, Lookup(sched.table, chan[p])) ELSE 0)
                        <= 2 + slept[p]
    BY DEF CopiesBounded
  <2>2. /\ Load(sched, chan, p) = Copies(p, sched.queue) + Waiting(sched, chan, p)
        /\ Copies(p, sched.queue) \in Nat /\ Waiting(sched, chan, p) \in Nat
    BY <2>1, Loads DEF ProcInv
  <2>3. Load(sched, chan, p) + Hand(p) <= 2 + slept[p] /\ slept[p] \in Nat
    BY <2>1 DEF ProcInv, Bounded, Typed
  <2>4. Hand(p) \in {0, 1}
    BY DEF Hand
  <2> DEFINE n == IF sched.state[p] = "Sleeping" /\ Tabled(p)
                  THEN Copies(p, Lookup(sched.table, chan[p])) ELSE 0
  <2>5. n = 0 \/ n = Waiting(sched, chan, p)
    BY DEF Waiting, Tabled
  <2> HIDE DEF n
  <2>6. Copies(p, sched.queue) + n <= 2 + slept[p]
    BY <2>2, <2>3, <2>4, <2>5, SMTT(30)
  <2>. QED
    BY <2>6 DEF n
<1>. QED
  BY <1>1, ProcInvariance, PTL

\* No wakeup, interrupt or pass of Scheduler::run makes a process that has exited
\* ready or running again.
THEOREM ProcessZombieStays == Spec => ZombieStays
<1>1. ProcInv /\ [Next]_vars
        => [\A p \in Procs : sched.state[p] = "Zombie" => sched'.state[p] = "Zombie"]_vars
  BY ProcStep DEF Stays
<1>. QED
  BY <1>1, ProcInvariance, PTL DEF Spec, ZombieStays

\* The state keeps its type, and a process is Running exactly while it has the hart.
THEOREM ProcessTypeCorrect == Spec => []TypeOK
<1>1. ProcInv => TypeOK
  <2>1. SUFFICES ASSUME ProcInv PROVE TypeOK
    OBVIOUS
  <2>2. sched.state \in [Procs -> States] /\ sched.queue \in Seq(Procs) /\ Chain(sched.table)
    BY <2>1, Fields DEF ProcInv, Good
  <2>3. \A i \in DOMAIN sched.table :
           sched.table[i].key \in Chans /\ sched.table[i].value \in Seq(Procs)
    BY <2>2, NodeOf
  <2>. QED
    BY <2>1, <2>2, <2>3 DEF ProcInv, Typed, OnHart, TypeOK
<1>. QED
  BY <1>1, ProcInvariance, PTL
=============================================================================
