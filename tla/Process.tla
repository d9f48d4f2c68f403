------------------------------ MODULE Process ------------------------------
(***************************************************************************)
(* Processes and the scheduler on one hart: kernel/process/process.cpp,    *)
(* scheduler.cpp and sleep.cpp.                                            *)
(*                                                                         *)
(* A spin mutex turns interrupts off while it is held, so on one hart what *)
(* happens under one is a single step.  Between the steps the hart takes   *)
(* interrupts: the timer, which makes the running process yield wherever   *)
(* it is in the kernel, and the disk, which wakes the process that waits   *)
(* for its buffer, also while the scheduler runs.                          *)
(*                                                                         *)
(* The channels processes sleep on are addresses of Process and Buffer     *)
(* objects.  Those are page-aligned, so their hashes end in the same eight *)
(* bits and the sleep table keeps them all in one bucket: it is a chain of *)
(* HashChain.  Processes are numbered by their pid, from 0; memory is      *)
(* never reused, so neither is a number.                                   *)
(*                                                                         *)
(* An operator whose name ends in Variant is a faulty form of the operator *)
(* that follows it; no specification uses it.                              *)
(***************************************************************************)
EXTENDS HashChain, FiniteSets

CONSTANTS NumProcs,  \* how many processes are ever created
          Nil,       \* no process, no channel
          DoesIo,    \* the processes that use the disk
          MaxSleeps  \* the disk accesses a process makes between two yields

Procs == 0 .. NumProcs - 1
InitProc == 0

ASSUME ProcessAssumption ==
    /\ NumProcs \in Nat \ {0}
    /\ Nil \notin 0 .. 2 * NumProcs - 1
    /\ DoesIo \subseteq Procs
    /\ MaxSleeps \in Nat

VARIABLES sched,    \* [state, queue, table]: the states, readyQueue, sleepTable
          chan,     \* Process::chan
          parent,   \* Process::parent
          children, \* Process::children
          created,  \* nextPid: how many processes there are
          cpu,      \* Cpu::process
          spc,      \* where Scheduler::run is
          proc,     \* its local variable of that name
          pc,       \* where each process continues
          io,       \* the processes whose buffer is with the disk
          slept     \* how often each process has slept since it last yielded

vars == <<sched, chan, parent, children, created, cpu, spc, proc, pc, io, slept>>
family == <<parent, children, created>>

States == {"Unborn", "Ready", "Running", "Sleeping", "Zombie"}

\* The channels: a process's own address, and its buffer's.
Buffer(p) == NumProcs + p
Chans == 0 .. 2 * NumProcs - 1

Init ==
    /\ sched = [state |-> [p \in Procs |-> IF p = InitProc THEN "Ready" ELSE "Unborn"],
                queue |-> <<InitProc>>,
                table |-> <<>>]
    /\ chan = [p \in Procs |-> Nil]
    /\ parent = [p \in Procs |-> Nil]
    /\ children = [p \in Procs |-> <<>>]
    /\ created = 1
    /\ cpu = Nil
    /\ spc = "take"
    /\ proc = Nil
    /\ pc = [p \in Procs |-> "user"]
    /\ io = {}
    /\ slept = [p \in Procs |-> 0]
-----------------------------------------------------------------------------
(***************************************************************************)
(* The operations of the Scheduler, as functions of its state.             *)
(***************************************************************************)
SetState(s, p, v) == [s EXCEPT !.state[p] = v]

\* registerProcess; c is the channel of p.
Registered(s, p, c) ==
    CASE s.state[p] = "Ready" -> [s EXCEPT !.queue = Append(@, p)]
      [] s.state[p] = "Sleeping" ->
            LET t == Index(s.table, c, <<>>)
            IN  [s EXCEPT !.table = Assign(t, c, <<>>, Append(Lookup(t, c), p))]
      [] OTHER -> s

\* unregisterProcess: the others stay in the queue in their order, the n-th of them
\* being the one with n of them up to its place.
Others(q, p) == {i \in DOMAIN q : q[i] # p}
UpTo(places, i) == {j \in places : j <= i}
Without(q, p) ==
    LET places == Others(q, p)
    IN  [n \in 1 .. Cardinality(places) |->
            q[CHOOSE i \in places : Cardinality(UpTo(places, i)) = n]]
UnregisteredVariant(s, p) == s
Unregistered(s, p) == [s EXCEPT !.queue = Without(@, p)]

\* wakeup: operator[] makes a node for the channel when nobody sleeps on it.
WakeupVariant(s, c) ==
    LET t == Index(s.table, c, <<>>)
    IN  [state |-> [p \in Procs |-> IF \E i \in DOMAIN Lookup(t, c) : Lookup(t, c)[i] = p
                                    THEN "Ready" ELSE s.state[p]],
         queue |-> s.queue,
         table |-> Erase(t, c)]
Wakeup(s, c) ==
    LET t == Index(s.table, c, <<>>)
        sleepers == Lookup(t, c)
    IN  [state |-> [p \in Procs |-> IF \E i \in DOMAIN sleepers : sleepers[i] = p
                                    THEN "Ready" ELSE s.state[p]],
         queue |-> s.queue \o sleepers,
         table |-> Erase(t, c)]
-----------------------------------------------------------------------------
(***************************************************************************)
(* Scheduler::run.                                                         *)
(***************************************************************************)
\* Where the queue is taken from.
EndVariant(q) == Len(q)
End(q) == 1

Take ==
    /\ cpu = Nil /\ spc = "take"
    /\ sched.queue # <<>>
    /\ proc' = sched.queue[End(sched.queue)]
    /\ sched' = [sched EXCEPT !.queue = SubSeq(@, 1, End(@) - 1) \o SubSeq(@, End(@) + 1, Len(@))]
    /\ spc' = "look"
    /\ UNCHANGED <<chan, family, cpu, pc, io, slept>>

\* The state is read without the process's mutex.
DispatchableVariant(s) == s # "Sleeping"
Dispatchable(s) == s = "Ready"

Look ==
    /\ cpu = Nil /\ spc = "look"
    /\ spc' = IF Dispatchable(sched.state[proc]) THEN "dispatch"
              ELSE IF sched.state[proc] = "Zombie" THEN "take" ELSE "put"
    /\ UNCHANGED <<sched, chan, family, cpu, proc, pc, io, slept>>

\* registerProcess puts back a process that is not ready; after a process has
\* given up the hart it is registered here once more.
Put ==
    /\ cpu = Nil /\ spc \in {"put", "back"}
    /\ sched' = Registered(sched, proc, chan[proc])
    /\ spc' = "take"
    /\ UNCHANGED <<chan, family, cpu, proc, pc, io, slept>>

Dispatched(s, p) == SetState(s, p, "Running")

Dispatch ==
    /\ cpu = Nil /\ spc = "dispatch"
    /\ sched' = Dispatched(sched, proc)
    /\ cpu' = proc
    /\ chan' = [chan EXCEPT ![proc] = Nil]
    /\ UNCHANGED <<family, spc, proc, pc, io, slept>>

Run == Take \/ Look \/ Put \/ Dispatch

\* reschedule: the process, in its new state, is registered and the scheduler
\* goes on behind its switchContext.
Reschedule(s, p, c) ==
    /\ sched' = Registered(s, p, c)
    /\ cpu' = Nil
    /\ spc' = "back"
    /\ UNCHANGED proc
-----------------------------------------------------------------------------
(***************************************************************************)
(* What the running process does.                                          *)
(***************************************************************************)
Yield(p) ==
    /\ cpu = p
    /\ Reschedule(SetState(Unregistered(sched, p), p, "Ready"), p, Nil)
    /\ slept' = [slept EXCEPT ![p] = 0]
    /\ UNCHANGED <<chan, family, pc, io>>

\* sleep(chan, mutex), by a process that goes on at `at`.
Sleep(p, c, at) ==
    /\ Reschedule(SetState(sched, p, "Sleeping"), p, c)
    /\ chan' = [chan EXCEPT ![p] = c]
    /\ pc' = [pc EXCEPT ![p] = at]
    /\ slept' = [slept EXCEPT ![p] = @ + 1]

Goto(p, at) ==
    /\ pc' = [pc EXCEPT ![p] = at]
    /\ UNCHANGED <<sched, chan, cpu, spc, proc, io, slept>>

\* fork makes the child and marks it ready, and registers it afterwards.
Fork(p) ==
    /\ cpu = p /\ pc[p] = "user"
    /\ created < NumProcs
    /\ created' = created + 1
    /\ parent' = [parent EXCEPT ![created] = p]
    /\ children' = [children EXCEPT ![p] = Append(@, created)]
    /\ sched' = SetState(sched, created, "Ready")
    /\ pc' = [pc EXCEPT ![p] = "fork"]
    /\ UNCHANGED <<chan, cpu, spc, proc, io, slept>>

ForkRegisters(p) ==
    /\ cpu = p /\ pc[p] = "fork"
    /\ sched' = Registered(sched, children[p][Len(children[p])], Nil)
    /\ pc' = [pc EXCEPT ![p] = "user"]
    /\ UNCHANGED <<chan, family, cpu, spc, proc, io, slept>>

\* The places of p's children that have exited.
Zombies(p) == {i \in DOMAIN children[p] : sched.state[children[p][i]] = "Zombie"}

WaitCall(p) == cpu = p /\ pc[p] = "user" /\ Goto(p, "wait") /\ UNCHANGED family

\* There is no child, or the exit status of the first zombie cannot be copied.
WaitFails(p) ==
    /\ cpu = p /\ pc[p] = "wait"
    /\ children[p] = <<>> \/ Zombies(p) # {}
    /\ Goto(p, "user")
    /\ UNCHANGED family

WaitReaps(p) ==
    /\ cpu = p /\ pc[p] = "wait"
    /\ \E i \in Zombies(p) :
          /\ \A j \in Zombies(p) : i <= j
          /\ children' = [children EXCEPT ![p] =
                             SubSeq(@, 1, i - 1) \o SubSeq(@, i + 1, Len(@))]
    /\ Goto(p, "user")
    /\ UNCHANGED <<parent, created>>

WaitSleeps(p) ==
    /\ cpu = p /\ pc[p] = "wait"
    /\ children[p] # <<>>
    /\ Zombies(p) = {}
    /\ Sleep(p, p, "wait")
    /\ UNCHANGED <<family, io>>

StartsTransfer(p) == pc[p] = "user" /\ p \in DoesIo /\ slept[p] < MaxSleeps
AwaitsTransfer(p) == pc[p] = "disk" /\ p \in io

\* A disk access: diskrw sleeps on the buffer until the interrupt.
DiskSleeps(p) ==
    /\ cpu = p
    /\ StartsTransfer(p) \/ AwaitsTransfer(p)
    /\ io' = io \cup {p}
    /\ Sleep(p, Buffer(p), "disk")
    /\ UNCHANGED family

DiskReturns(p) ==
    /\ cpu = p /\ pc[p] = "disk"
    /\ p \notin io
    /\ Goto(p, "user")
    /\ UNCHANGED family

DiskInterrupt(p) ==
    /\ p \in io
    /\ io' = io \ {p}
    /\ sched' = Wakeup(sched, Buffer(p))
    /\ UNCHANGED <<chan, family, cpu, spc, proc, pc, slept>>

ExitWakesVariant(s, c) == s
ExitWakes(s, c) == Wakeup(s, c)

\* reparent, the wakeups and the change of state happen under waitMutex.  The
\* children are not moved to the list of the init process, which never exits.
Exit(p) ==
    /\ cpu = p /\ pc[p] = "user" /\ p # InitProc
    /\ parent' = [c \in Procs |-> IF \E i \in DOMAIN children[p] : children[p][i] = c
                                  THEN InitProc ELSE parent[c]]
    /\ LET s == IF children[p] = <<>> THEN sched ELSE Wakeup(sched, InitProc)
       IN  Reschedule(SetState(ExitWakes(s, parent[p]), p, "Zombie"), p, Nil)
    /\ pc' = [pc EXCEPT ![p] = "gone"]
    /\ UNCHANGED <<chan, children, created, io, slept>>

\* What a process in the kernel does next.
Kernel(p) ==
    \/ ForkRegisters(p) \/ WaitFails(p) \/ WaitReaps(p) \/ WaitSleeps(p)
    \/ DiskReturns(p)

User(p) == Fork(p) \/ WaitCall(p) \/ DiskSleeps(p) \/ Exit(p)
-----------------------------------------------------------------------------
Next == Run \/ \E p \in Procs : Yield(p) \/ Kernel(p) \/ User(p) \/ DiskInterrupt(p)

Spec == Init /\ [][Next]_vars

\* The scheduler and the disk go on; the timer makes a process yield that runs
\* for ever; a time slice lets a process in the kernel come to its next step.
Fairness ==
    /\ WF_vars(Run)
    /\ \A p \in Procs :
          WF_vars(Yield(p)) /\ SF_vars(Kernel(p)) /\ WF_vars(DiskInterrupt(p))

FairSpec == Spec /\ Fairness
-----------------------------------------------------------------------------
(***************************************************************************)
(* Properties.                                                             *)
(***************************************************************************)
In(p, s) == \E i \in DOMAIN s : s[i] = p

\* The type of the state; a process is Running exactly while it has the hart.
TypeOK ==
    /\ sched.state \in [Procs -> States]
    /\ sched.queue \in Seq(Procs)
    /\ \A i \in DOMAIN sched.table :
          sched.table[i].key \in Chans /\ sched.table[i].value \in Seq(Procs)
    /\ chan \in [Procs -> Chans \cup {Nil}]
    /\ parent \in [Procs -> Procs \cup {Nil}]
    /\ children \in [Procs -> Seq(Procs)]
    /\ created \in 1 .. NumProcs
    /\ cpu \in Procs \cup {Nil}
    /\ spc \in {"take", "look", "put", "dispatch", "back"}
    /\ proc \in Procs \cup {Nil}
    /\ pc \in [Procs -> {"user", "fork", "wait", "disk", "gone"}]
    /\ io \subseteq DoesIo
    /\ slept \in [Procs -> Nat]
    /\ \A p \in Procs : sched.state[p] = "Running" <=> cpu = p

\* A ready process can be found by the scheduler: it is queued, or in the
\* scheduler's hands, or about to be registered by the fork that made it.
ReadyIsQueued ==
    \A p \in Procs : sched.state[p] = "Ready" =>
        \/ In(p, sched.queue)
        \/ proc = p /\ cpu = Nil /\ spc \in {"look", "put", "dispatch"}
        \/ parent[p] \in Procs /\ pc[parent[p]] = "fork"
           /\ children[parent[p]][Len(children[parent[p]])] = p

SleepsOn(p, c) == sched.state[p] = "Sleeping" /\ chan[p] = c
Tabled(p) == Contains(sched.table, chan[p]) /\ In(p, Lookup(sched.table, chan[p]))

\* A sleeping process can be found by the wakeup of its channel.
SleeperIsTabled == \A p \in Procs : sched.state[p] = "Sleeping" => Tabled(p)

\* A process that has exited never runs or becomes ready again.
ZombieStays ==
    [][\A p \in Procs : sched.state[p] = "Zombie" => sched'.state[p] = "Zombie"]_vars

\* No process sleeps in wait while one of its children is a zombie, and none
\* sleeps on a buffer that the disk has given back.
NoSleepOverEvent ==
    \A p \in Procs :
        /\ SleepsOn(p, p) => Zombies(p) = {}
        /\ SleepsOn(p, Buffer(p)) => p \in io

\* A process is registered twice whenever it gives up the hart, so the copies
\* of it in the queue and in the table pile up; but they number no more than
\* two and one for every time it has slept since it last yielded.
Copies(p, s) == Cardinality({i \in DOMAIN s : s[i] = p})
CopiesBounded ==
    \A p \in Procs :
        Copies(p, sched.queue)
          + (IF sched.state[p] = "Sleeping" /\ Tabled(p)
             THEN Copies(p, Lookup(sched.table, chan[p])) ELSE 0)
        <= 2 + slept[p]

\* A ready process gets the hart.
ReadyRuns ==
    \A p \in Procs : sched.state[p] = "Ready" ~> sched.state[p] = "Running"

\* wait returns when a child has exited.
WaitReturns ==
    \A p \in Procs : (pc[p] = "wait" /\ Zombies(p) # {}) ~> pc[p] = "user"
=============================================================================
