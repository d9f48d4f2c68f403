----------------------------- MODULE SpinMutex -----------------------------
(***************************************************************************)
(* Spin mutexes, interrupts and context switches on one hart               *)
(* (kernel/mutex/spin_mutex.cpp, scheduler.cpp, sleep.cpp,                 *)
(* kernel/ie/kernel_trap.cpp, user_trap.cpp).                              *)
(*                                                                         *)
(* A spin mutex turns interrupts off when the hart takes its first one and *)
(* restores them when it releases its last.  Between the two the hart may  *)
(* switch to another context, which has its own idea of whether interrupts *)
(* were on.  A context is the scheduler's or a process's; the code that    *)
(* runs in it takes and releases mutexes in any order (sleep and wakeup do *)
(* not release in the order they take), and an interrupt may come whenever *)
(* interrupts are on and run a handler in the same context.                *)
(*                                                                         *)
(* The variables kind, held and under say what the code that runs in a     *)
(* context is, which mutexes it has itself taken, and what it interrupted. *)
(*                                                                         *)
(* An operator whose name ends in Variant is a faulty form of the operator *)
(* that follows it; no specification uses it.                              *)
(***************************************************************************)
EXTENDS Naturals, FiniteSets

CONSTANTS Threads, \* the processes; p is also the name of p's Process::mutex
          Mutexes, \* the other spin mutexes of the kernel
          Sched    \* the context of Scheduler::run

ASSUME SpinMutexAssumption == Sched \notin Threads

VARIABLES sie,      \* the bit of sstatus: interrupts are on
          numLocks, \* Cpu::numLocks
          enabled,  \* Cpu::interruptEnabled
          locked,   \* the mutexes whose flag is set
          cur,      \* the context the hart is in
          saved,    \* the local variable interruptEnabled of reschedule
          kind, held, under

mutexVars == <<sie, numLocks, enabled, locked, cur, saved, kind, held, under>>

Contexts == Threads \cup {Sched}
Locks == Threads \cup Mutexes

\* Code that an interrupt can come into: a system call; a new process before
\* its first return to user mode; the scheduler.  "timer" is the trap handler
\* for an interrupt in user mode and "handler" the one for the kernel; "fork"
\* is a process that has not been switched to yet.
Interruptible == {"syscall", "new", "run"}
Kinds == Interruptible \cup {"user", "timer", "handler", "fork"}
Nothing == [kind |-> "user", held |-> {}]

\* A new process starts in returnFork, which unlocks it.
MutexInit ==
    /\ sie = FALSE
    /\ numLocks = 0
    /\ enabled = FALSE
    /\ locked = {}
    /\ cur = Sched
    /\ saved = [p \in Threads |-> FALSE]
    /\ kind = [c \in Contexts |-> IF c = Sched THEN "run" ELSE "fork"]
    /\ held = [c \in Contexts |-> IF c = Sched THEN {} ELSE {c}]
    /\ under = [c \in Contexts |-> Nothing]
-----------------------------------------------------------------------------
(***************************************************************************)
(* SpinMutex::lock, with push, and SpinMutex::unlock, with pop.            *)
(***************************************************************************)
PushedVariant == sie
Pushed == FALSE
Counted == numLocks + 1

Lock(m) ==
    /\ kind[cur] # "user"
    /\ m \notin held[cur]
    /\ m \notin locked
    /\ sie' = Pushed
    /\ enabled' = IF numLocks = 0 THEN sie ELSE enabled
    /\ numLocks' = Counted
    /\ locked' = locked \cup {m}
    /\ held' = [held EXCEPT ![cur] = @ \cup {m}]
    /\ UNCHANGED <<cur, saved, kind, under>>

PoppedVariant == IF enabled THEN TRUE ELSE sie
Popped == IF numLocks = 1 /\ enabled THEN TRUE ELSE sie

Unlock(m) ==
    /\ m \in held[cur]
    /\ locked' = locked \ {m}
    /\ numLocks' = numLocks - 1
    /\ sie' = Popped
    /\ held' = [held EXCEPT ![cur] = @ \ {m}]
    /\ UNCHANGED <<enabled, cur, saved, kind, under>>
-----------------------------------------------------------------------------
(***************************************************************************)
(* Context switches.                                                       *)
(***************************************************************************)
\* run() locks a process and switches to it; a process that has been switched
\* from returns into reschedule, which restores the flag of the Cpu.
RestoredVariant(p) == enabled
Restored(p) == IF kind[p] = "fork" THEN enabled ELSE saved[p]

SwitchToProcess(p) ==
    /\ cur = Sched /\ kind[Sched] = "run" /\ held[Sched] = {p}
    /\ cur' = p
    /\ enabled' = Restored(p)
    /\ kind' = [kind EXCEPT ![p] = IF @ = "fork" THEN "new" ELSE @]
    /\ UNCHANGED <<sie, numLocks, locked, saved, held, under>>

\* reschedule, called by yield, sleep and exit with the process's own mutex.
SwitchToScheduler(p) ==
    /\ cur = p /\ kind[p] # "user" /\ held[p] = {p}
    /\ saved' = [saved EXCEPT ![p] = enabled]
    /\ cur' = Sched
    /\ UNCHANGED <<sie, numLocks, enabled, locked, kind, held, under>>

\* The top of the outer loop of run().
EnableInterrupts ==
    /\ cur = Sched /\ kind[Sched] = "run" /\ held[Sched] = {}
    /\ sie' = TRUE
    /\ UNCHANGED <<numLocks, enabled, locked, cur, saved, kind, held, under>>
-----------------------------------------------------------------------------
(***************************************************************************)
(* Traps.  The hardware turns interrupts off when it takes one.            *)
(***************************************************************************)
\* From user mode, where interrupts are always taken: a system call, for which
\* userTrap turns them on again, or an interrupt.
UserTrap(k) ==
    /\ kind[cur] = "user"
    /\ kind' = [kind EXCEPT ![cur] = k]
    /\ sie' = (k = "syscall")
    /\ UNCHANGED <<numLocks, enabled, locked, cur, saved, held, under>>

\* returnUserTrap.
ReturnUserTrap ==
    /\ kind[cur] \in {"syscall", "new", "timer"} /\ held[cur] = {}
    /\ kind' = [kind EXCEPT ![cur] = "user"]
    /\ sie' = FALSE
    /\ UNCHANGED <<numLocks, enabled, locked, cur, saved, held, under>>

\* An interrupt in the kernel, and the end of kernelTrap: sstatus is restored,
\* and sret turns interrupts on as they were.
KernelTrap ==
    /\ sie /\ kind[cur] \in Interruptible
    /\ under' = [under EXCEPT ![cur] = [kind |-> kind[cur], held |-> held[cur]]]
    /\ kind' = [kind EXCEPT ![cur] = "handler"]
    /\ held' = [held EXCEPT ![cur] = {}]
    /\ sie' = FALSE
    /\ UNCHANGED <<numLocks, enabled, locked, cur, saved>>

KernelTrapReturns ==
    /\ kind[cur] = "handler" /\ held[cur] = {}
    /\ kind' = [kind EXCEPT ![cur] = under[cur].kind]
    /\ held' = [held EXCEPT ![cur] = under[cur].held]
    /\ under' = [under EXCEPT ![cur] = Nothing]
    /\ sie' = TRUE
    /\ UNCHANGED <<numLocks, enabled, locked, cur, saved>>
-----------------------------------------------------------------------------
MutexNext ==
    \/ \E m \in Locks : Lock(m) \/ Unlock(m)
    \/ \E p \in Threads : SwitchToProcess(p) \/ SwitchToScheduler(p)
    \/ EnableInterrupts
    \/ UserTrap("syscall") \/ UserTrap("timer") \/ ReturnUserTrap
    \/ KernelTrap \/ KernelTrapReturns

MutexSpec == MutexInit /\ [][MutexNext]_mutexVars
-----------------------------------------------------------------------------
(***************************************************************************)
(* Properties.                                                             *)
(***************************************************************************)
\* The type of the state.
MutexTypeOK ==
    /\ sie \in BOOLEAN
    /\ numLocks \in Nat
    /\ enabled \in BOOLEAN
    /\ locked \subseteq Locks
    /\ cur \in Contexts
    /\ saved \in [Threads -> BOOLEAN]
    /\ kind \in [Contexts -> Kinds]
    /\ held \in [Contexts -> SUBSET Locks]
    /\ under \in [Contexts -> [kind : Kinds, held : SUBSET Locks]]

\* On one hart nobody ever spins: whatever mutex the running code has not taken
\* itself is free, also in an interrupt handler and after a context switch.
NeverSpins == locked = held[cur]

\* Interrupts are off while a mutex is held and in the handlers, and a system
\* call that holds none has them on, however often it has been interrupted and
\* switched from since it started.
InterruptsRight ==
    /\ held[cur] # {} => ~sie
    /\ kind[cur] \in {"timer", "handler"} => ~sie
    /\ kind[cur] = "syscall" /\ held[cur] = {} => sie

\* The assertions of reschedule: exactly one mutex is counted, and interrupts
\* are off.
RescheduleAsserts ==
    cur \in Threads /\ kind[cur] # "user" /\ held[cur] = {cur} => numLocks = 1 /\ ~sie
=============================================================================
