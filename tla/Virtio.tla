------------------------------- MODULE Virtio -------------------------------
(***************************************************************************)
(* The virtio block driver, kernel/fs/virtio.cpp: diskrw, which any number *)
(* of processes execute for a buffer each, diskInterrupt, and the device   *)
(* they share the descriptor table and the two rings with.                 *)
(*                                                                         *)
(* disk.mutex is a spin mutex: `holder` owns it.  The device does not take *)
(* it and reads and writes the rings at any time, so a step of the driver  *)
(* ends where the device could observe it: diskrw fills the descriptors    *)
(* and the ring slot in one step and moves the index in another.  A buffer *)
(* is locked by the process that transfers it, so it is named by that      *)
(* process.  The data and the direction of a transfer are left out.        *)
(*                                                                         *)
(* An operator whose name ends in Variant is a faulty form of the operator *)
(* that follows it; no specification uses it.                              *)
(***************************************************************************)
EXTENDS Integers, FiniteSets

CONSTANTS Procs,     \* the processes that call diskrw
          Handler,   \* diskInterrupt, as an owner of disk.mutex
          Nil,       \* no process, no descriptor, an empty ring slot
          NUM_DESCS, \* the number of descriptors (8 in the code)
          IndexMod   \* the ring indices wrap here (they are uint16_t: 65536)

\* A chain takes three descriptors, and the driver relies on their number not
\* being a multiple of three: see NeverOutOfDescriptors.
ASSUME VirtioAssumption ==
    /\ IsFiniteSet(Procs)
    /\ Handler \notin Procs
    /\ NUM_DESCS \in Nat /\ NUM_DESCS >= 3 /\ NUM_DESCS % 3 # 0
    /\ IndexMod \in Nat \ {0} /\ IndexMod % NUM_DESCS = 0
    /\ Nil \notin Procs \cup {Handler} \cup (0 .. NUM_DESCS - 1)

VARIABLES free,      \* the descriptors i with disk.free[i]
          next,      \* descriptor[i].next when its flag says there is one, or Nil
          buffer,    \* disk.info[i].buffer
          status,    \* disk.info[i].status: "pending" (0xff) or "ok" (0)
          avail,     \* disk.avail: [ring, index]
          used,      \* disk.used: [ring, index]
          usedIndex, \* disk.usedIndex: what the handler has seen of used
          busy,      \* buf->disk
          holder,    \* the owner of disk.mutex, or Nil
          pc,        \* where each process is in diskrw
          index,     \* diskrw's index[3]
          taken,     \* the device: how much of avail it has read
          working,   \* the device: the requests it works on
          irq,       \* the device: it asks for an interrupt
          moved      \* the processes whose data the device has transferred

driver == <<free, next, buffer, status, busy, index>>
device == <<taken, working, irq, moved>>
vars == <<driver, device, avail, used, usedIndex, holder, pc>>

Desc == 0 .. NUM_DESCS - 1
PCs == {"idle", "alloc", "publish", "wait", "corrupt",
        "sleepFree", "wokenFree", "sleepBuf", "wokenBuf"}

Empty == [ring |-> [s \in Desc |-> Nil], index |-> 0]

\* initializeVirtio, once the device has accepted the driver.
Init ==
    /\ free = Desc
    /\ next = [i \in Desc |-> Nil]
    /\ buffer = [i \in Desc |-> Nil]
    /\ status = [i \in Desc |-> "ok"]
    /\ avail = Empty
    /\ used = Empty
    /\ usedIndex = 0
    /\ busy = [p \in Procs |-> FALSE]
    /\ holder = Nil
    /\ pc = [p \in Procs |-> "idle"]
    /\ index = [p \in Procs |-> <<0, 0, 0>>]
    /\ taken = 0
    /\ working = {}
    /\ irq = FALSE
    /\ moved = {}

Succ(i) == (i + 1) % IndexMod
Slot(i) == i % NUM_DESCS

\* wakeup(chan): every process asleep for this reason becomes runnable.
WakeFree(f) == [p \in Procs |-> IF f[p] = "sleepFree" THEN "wokenFree" ELSE f[p]]
WakeBufVariant(f, b) == f
WakeBuf(f, b) == [p \in Procs |-> IF p = b /\ f[p] = "sleepBuf" THEN "wokenBuf" ELSE f[p]]
-----------------------------------------------------------------------------
(***************************************************************************)
(* diskrw.                                                                 *)
(***************************************************************************)
Call(p) ==
    /\ pc[p] = "idle"
    /\ holder = Nil
    /\ holder' = p
    /\ pc' = [pc EXCEPT ![p] = "alloc"]
    /\ moved' = moved \ {p}
    /\ UNCHANGED <<driver, taken, working, irq, avail, used, usedIndex>>

\* allocateDescriptor takes the first free descriptor.
First(S) == CHOOSE i \in S : \A j \in S : i <= j

\* Three descriptors are free: they become a chain, and its head is put into
\* the ring behind the published part.
Fill(p) ==
    LET i == First(free)
        j == First(free \ {i})
        k == First(free \ {i, j})
    IN  /\ pc[p] = "alloc"
        /\ Cardinality(free) >= 3
        /\ free' = free \ {i, j, k}
        /\ index' = [index EXCEPT ![p] = <<i, j, k>>]
        /\ next' = [next EXCEPT ![i] = j, ![j] = k, ![k] = Nil]
        /\ status' = [status EXCEPT ![i] = "pending"]
        /\ busy' = [busy EXCEPT ![p] = TRUE]
        /\ buffer' = [buffer EXCEPT ![i] = p]
        /\ avail' = [avail EXCEPT !.ring[Slot(avail.index)] = i]
        /\ pc' = [pc EXCEPT ![p] = "publish"]
        /\ UNCHANGED <<device, used, usedIndex, holder>>

\* A descriptor is missing.  What was allocated is freed again, which wakes the
\* other waiters, and the process sleeps on disk.free.  But `ok` is only cleared
\* in the loop that gives descriptors back: when already the first is missing
\* diskrw goes on, with an index of -1 and two that were never assigned.
AllocateFails(p) ==
    /\ pc[p] = "alloc"
    /\ Cardinality(free) < 3
    /\ next' = [d \in Desc |-> IF d \in free THEN Nil ELSE next[d]]
    /\ pc' = IF free = {} THEN [pc EXCEPT ![p] = "corrupt"]
                          ELSE [WakeFree(pc) EXCEPT ![p] = "sleepFree"]
    /\ holder' = IF free = {} THEN p ELSE Nil
    /\ UNCHANGED <<free, buffer, status, busy, index, device, avail, used, usedIndex>>

Publish(p) ==
    /\ pc[p] = "publish"
    /\ avail' = [avail EXCEPT !.index = Succ(@)]
    /\ pc' = [pc EXCEPT ![p] = "wait"]
    /\ UNCHANGED <<driver, device, used, usedIndex, holder>>

FinishedVariant(p) == TRUE
Finished(p) == ~busy[p]

\* The transfer is not complete: sleep on the buffer.
Wait(p) ==
    /\ pc[p] = "wait"
    /\ ~Finished(p)
    /\ pc' = [pc EXCEPT ![p] = "sleepBuf"]
    /\ holder' = Nil
    /\ UNCHANGED <<driver, device, avail, used, usedIndex>>

\* freeChain follows the chain from its head.
ChainVariant(i) == {i, next[i]}
Chain(i) ==
    LET j == next[i]
    IN  IF j = Nil THEN {i}
        ELSE IF next[j] = Nil THEN {i, j} ELSE {i, j, next[j]}

FreedWakesVariant(f) == f
FreedWakes(f) == WakeFree(f)

Finish(p) ==
    LET i == index[p][1]
    IN  /\ pc[p] = "wait"
        /\ Finished(p)
        /\ buffer' = [buffer EXCEPT ![i] = Nil]
        /\ free' = free \cup Chain(i)
        /\ next' = [d \in Desc |-> IF d \in Chain(i) THEN Nil ELSE next[d]]
        /\ pc' = [FreedWakes(pc) EXCEPT ![p] = "idle"]
        /\ holder' = Nil
        /\ UNCHANGED <<status, busy, index, device, avail, used, usedIndex>>

\* sleep() takes disk.mutex again before it returns.
Wake(p) ==
    /\ holder = Nil
    /\ pc[p] \in {"wokenFree", "wokenBuf"}
    /\ holder' = p
    /\ pc' = [pc EXCEPT ![p] = IF @ = "wokenFree" THEN "alloc" ELSE "wait"]
    /\ UNCHANGED <<driver, device, avail, used, usedIndex>>

Step(p) ==
    \/ Fill(p) \/ AllocateFails(p) \/ Publish(p)
    \/ Wait(p) \/ Finish(p) \/ Wake(p)
-----------------------------------------------------------------------------
(***************************************************************************)
(* The device (external): it takes published requests in order, completes  *)
(* them in any order, and raises its interrupt.  A ring slot that has been *)
(* read is forgotten: nothing reads it before it is written again.         *)
(***************************************************************************)
Take ==
    /\ taken # avail.index
    /\ working' = working \cup {avail.ring[Slot(taken)]}
    /\ avail' = [avail EXCEPT !.ring[Slot(taken)] = Nil]
    /\ taken' = Succ(taken)
    /\ UNCHANGED <<driver, irq, moved, used, usedIndex, holder, pc>>

Complete(i) ==
    /\ i \in working
    /\ working' = working \ {i}
    /\ moved' = moved \cup {buffer[i]}
    /\ status' = [status EXCEPT ![i] = "ok"]
    /\ used' = [ring |-> [used.ring EXCEPT ![Slot(used.index)] = i],
                index |-> Succ(used.index)]
    /\ irq' = TRUE
    /\ UNCHANGED <<free, next, buffer, busy, index, taken, avail, usedIndex, holder, pc>>
-----------------------------------------------------------------------------
(***************************************************************************)
(* diskInterrupt: acknowledge, then one turn of the loop per used element. *)
(***************************************************************************)
Acknowledge ==
    /\ irq
    /\ holder = Nil
    /\ holder' = Handler
    /\ irq' = FALSE
    /\ UNCHANGED <<driver, taken, working, moved, avail, used, usedIndex, pc>>

HandledVariant == Slot(used.index)
Handled == Slot(usedIndex)

Handle ==
    LET id == used.ring[Handled]
    IN  /\ holder = Handler
        /\ usedIndex # used.index
        /\ busy' = [busy EXCEPT ![buffer[id]] = FALSE]
        /\ pc' = WakeBuf(pc, buffer[id])
        /\ used' = [used EXCEPT !.ring[Handled] = Nil]
        /\ usedIndex' = Succ(usedIndex)
        /\ UNCHANGED <<free, next, buffer, status, index, device, avail, holder>>

Leave ==
    /\ holder = Handler
    /\ usedIndex = used.index
    /\ holder' = Nil
    /\ UNCHANGED <<driver, device, avail, used, usedIndex, pc>>

Interrupt == Acknowledge \/ Handle \/ Leave
-----------------------------------------------------------------------------
Next ==
    \/ \E p \in Procs : Call(p) \/ Step(p)
    \/ Take
    \/ \E i \in Desc : Complete(i)
    \/ Interrupt

Spec == Init /\ [][Next]_vars

\* The device finishes what it was given; a pending interrupt is taken when
\* interrupts are enabled, which no spin mutex prevents for ever; a runnable
\* process gets the hart again and again and finds the mutex free.
Fairness ==
    /\ WF_vars(Take)
    /\ \A i \in Desc : WF_vars(Complete(i))
    /\ WF_vars(Interrupt) /\ SF_vars(Acknowledge)
    /\ \A p \in Procs : WF_vars(Step(p)) /\ SF_vars(Wake(p))

FairSpec == Spec /\ Fairness
-----------------------------------------------------------------------------
(***************************************************************************)
(* Properties.                                                             *)
(***************************************************************************)
Ring == [ring : [Desc -> Desc \cup {Nil}], index : 0 .. IndexMod - 1]

\* The type of the driver's and the device's state: the ring indices stay in
\* their range, and disk.mutex has one owner at most.
TypeOK ==
    /\ free \subseteq Desc
    /\ next \in [Desc -> Desc \cup {Nil}]
    /\ buffer \in [Desc -> Procs \cup {Nil}]
    /\ status \in [Desc -> {"pending", "ok"}]
    /\ avail \in Ring /\ used \in Ring
    /\ usedIndex \in 0 .. IndexMod - 1
    /\ busy \in [Procs -> BOOLEAN]
    /\ holder \in Procs \cup {Handler, Nil}
    /\ pc \in [Procs -> PCs]
    /\ index \in [Procs -> Desc \X Desc \X Desc]
    /\ taken \in 0 .. IndexMod - 1
    /\ working \subseteq Desc
    /\ irq \in BOOLEAN
    /\ moved \subseteq Procs

\* The calls of diskrw that own a chain, and the descriptors of one.
Owners == {p \in Procs : pc[p] \in {"publish", "wait", "sleepBuf", "wokenBuf"}}
Owned(p) == {index[p][1], index[p][2], index[p][3]}

\* Every descriptor is free or belongs to exactly one call of diskrw, whose
\* chain the descriptor table links from head to tail: no descriptor leaks, is
\* in two chains, or is freed twice (the assertion of freeDescriptor).
DescriptorsAccounted ==
    /\ Cardinality(free) + 3 * Cardinality(Owners) = NUM_DESCS
    /\ \A p \in Owners :
          /\ Owned(p) \cap free = {}
          /\ Chain(index[p][1]) = Owned(p)
    /\ \A p, q \in Owners : p # q => Owned(p) \cap Owned(q) = {}

\* diskrw never goes on without a chain, although its retry loop only notices
\* the lack of the second or the third descriptor: whatever the requests, one
\* descriptor at least is free whenever a process allocates.
NeverOutOfDescriptors == \A p \in Procs : pc[p] # "corrupt"

\* A process sleeps on its buffer only while the transfer is outstanding, and
\* on disk.free only while no chain could be allocated: neither wakeup is lost.
NoLostWakeup ==
    \A p \in Procs :
        /\ pc[p] = "sleepBuf" => busy[p]
        /\ pc[p] = "sleepFree" => Cardinality(free) < 3

\* What diskInterrupt finds in the used ring is a completed request of a buffer
\* that is waiting for it: its assertion on the status holds and the buffer it
\* dereferences is there, however far the device is ahead.
HandlerFindsCompletion ==
    (holder = Handler /\ usedIndex # used.index) =>
        LET id == used.ring[Handled]
        IN  /\ id \in Desc
            /\ status[id] = "ok"
            /\ buffer[id] \in Procs
            /\ busy[buffer[id]]

\* diskrw returns only after the device has moved the data of this very call.
ReturnsAfterTransfer ==
    [][\A p \in Procs : (pc[p] = "wait" /\ pc'[p] = "idle") => p \in moved]_vars

\* Every request that was put into the ring is served and its diskrw returns.
RequestReturns == \A p \in Procs : pc[p] = "publish" ~> pc[p] = "idle"
=============================================================================
