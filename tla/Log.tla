-------------------------------- MODULE Log --------------------------------
(***************************************************************************)
(* The write-ahead log, kernel/fs/log.cpp, with the part of the buffer     *)
(* cache it relies on (pinned buffers) and crashes of the machine.         *)
(*                                                                         *)
(* log.mutex is a spin mutex, so what happens under it is one step.  The   *)
(* commit runs without it, as one step per block written; a crash can come *)
(* between any two of them, and inside one: a block is two sectors, so a   *)
(* log or home block being written may be left torn.  The header fits into *)
(* one sector (LogHeader has 128 bytes) and is written whole or not at all.*)
(* A buffer is locked from get to release, and changed and logged in       *)
(* between, so that an update of a block is one step as well.              *)
(*                                                                         *)
(* An operator whose name ends in Variant is a faulty form of the operator *)
(* that follows it; no specification uses it.                              *)
(***************************************************************************)
EXTENDS Naturals, Sequences, FiniteSets

CONSTANTS Procs,         \* the processes that run operations
          Blocks,        \* the blocks that have a home outside the log
          Data,          \* what a block can hold
          Torn,          \* what a write that a crash cut short leaves
          Absent,        \* not in the buffer cache
          MAX_OP_BLOCKS, \* the blocks reserved for an operation
          LOG_SIZE,      \* the entries of a LogHeader
          LogLen,        \* log.size, from the super block
          OpBlocks,      \* the different blocks an operation really writes
          Leaks          \* whether some callers forget endOp (Process::open)

\* make_disk sets numLogs to LOG_SIZE, and no operation of the file system
\* logs more than seven of the ten blocks reserved for it.
ASSUME LogAssumption ==
    /\ IsFiniteSet(Procs) /\ IsFiniteSet(Blocks)
    /\ Data # {} /\ Torn \notin Data /\ Absent \notin Data \cup {Torn}
    /\ {MAX_OP_BLOCKS, LOG_SIZE, LogLen, OpBlocks} \subseteq Nat
    /\ LogLen = LOG_SIZE
    /\ OpBlocks + 2 <= MAX_OP_BLOCKS
    /\ Leaks \in BOOLEAN

VARIABLES disk,        \* the home blocks
          logDisk,     \* the log blocks behind the header
          head,        \* the block list in the header on the disk
          cache,       \* the data of the buffers that are in the cache
          pins,        \* how often the log has pinned a block's buffer
          header,      \* log.header, as the list of its n blocks
          outstanding, \* log.outstanding
          committing,  \* log.committing
          tail,        \* the loop variable of the writer of the log
          pc,          \* where each process is
          wrote,       \* the blocks each open operation has written
          mode         \* "boot", "recover" or "up"

stable == <<disk, logDisk, head>>
memory == <<cache, pins, header, outstanding, committing, tail, wrote>>
vars == <<stable, memory, pc, mode>>

PCs == {"idle", "begin", "asleep", "op", "log", "head", "install", "clear", "done"}
Entries == 1 .. LOG_SIZE

\* The first boot finds the image that make_disk wrote, with an empty log.
Init ==
    /\ disk \in [Blocks -> Data]
    /\ logDisk = [i \in Entries |-> Torn]
    /\ head = <<>>
    /\ cache = [b \in Blocks |-> Absent]
    /\ pins = [b \in Blocks |-> 0]
    /\ header = <<>>
    /\ outstanding = 0
    /\ committing = FALSE
    /\ tail = 1
    /\ pc = [p \in Procs |-> "idle"]
    /\ wrote = [p \in Procs |-> {}]
    /\ mode = "boot"

\* What get(b) followed by read() finds.
Cached(b) == IF cache[b] = Absent THEN disk[b] ELSE cache[b]

\* wakeup(&log).
Woken(f) == [p \in Procs |-> IF f[p] = "asleep" THEN "begin" ELSE f[p]]
-----------------------------------------------------------------------------
(***************************************************************************)
(* initializeLog: recover() installs what the header lists.                *)
(***************************************************************************)
ReadHead ==
    /\ mode = "boot"
    /\ header' = head
    /\ tail' = 1
    /\ mode' = "recover"
    /\ UNCHANGED <<stable, cache, pins, outstanding, committing, wrote, pc>>

InstalledVariant == tail >= Len(header)
Installed == tail > Len(header)

RecoverInstall ==
    /\ mode = "recover"
    /\ ~Installed
    /\ disk' = [disk EXCEPT ![header[tail]] = logDisk[tail]]
    /\ tail' = tail + 1
    /\ UNCHANGED <<logDisk, head, cache, pins, header, outstanding, committing, wrote, pc, mode>>

RecoverClear ==
    /\ mode = "recover"
    /\ Installed
    /\ header' = <<>>
    /\ head' = <<>>
    /\ mode' = "up"
    /\ UNCHANGED <<disk, logDisk, cache, pins, outstanding, committing, tail, wrote, pc>>

Recover == ReadHead \/ RecoverInstall \/ RecoverClear
-----------------------------------------------------------------------------
(***************************************************************************)
(* The operations of the processes.                                        *)
(***************************************************************************)
Call(p) ==
    /\ mode = "up"
    /\ pc[p] = "idle"
    /\ pc' = [pc EXCEPT ![p] = "begin"]
    /\ UNCHANGED <<stable, memory, mode>>

NoSpace == Len(header) + (outstanding + 1) * MAX_OP_BLOCKS > LOG_SIZE

BeginOp(p) ==
    /\ pc[p] = "begin"
    /\ ~committing
    /\ ~NoSpace
    /\ outstanding' = outstanding + 1
    /\ pc' = [pc EXCEPT ![p] = "op"]
    /\ UNCHANGED <<stable, cache, pins, header, committing, tail, wrote, mode>>

BeginOpSleeps(p) ==
    /\ pc[p] = "begin"
    /\ committing \/ NoSpace
    /\ pc' = [pc EXCEPT ![p] = "asleep"]
    /\ UNCHANGED <<stable, memory, mode>>

Logged == {header[i] : i \in DOMAIN header}

\* Whether writeLog(buf) appends the block and pins its buffer.
NewEntryVariant(b) == TRUE
NewEntry(b) == b \notin Logged

\* A buffer is taken from the cache or read, changed, logged and released.
Update(p, b, d) ==
    /\ pc[p] = "op"
    /\ b \in wrote[p] \/ Cardinality(wrote[p]) < OpBlocks
    /\ wrote' = [wrote EXCEPT ![p] = @ \cup {b}]
    /\ cache' = [cache EXCEPT ![b] = d]
    /\ header' = IF NewEntry(b) THEN Append(header, b) ELSE header
    /\ pins' = IF NewEntry(b) THEN [pins EXCEPT ![b] = @ + 1] ELSE pins
    /\ UNCHANGED <<stable, outstanding, committing, tail, pc, mode>>

LastVariant == TRUE
Last == outstanding = 1

EndOp(p) ==
    /\ pc[p] = "op"
    /\ outstanding' = outstanding - 1
    /\ wrote' = [wrote EXCEPT ![p] = {}]
    /\ IF Last THEN /\ committing' = TRUE
                    /\ tail' = 1
                    /\ pc' = [pc EXCEPT ![p] = IF header = <<>> THEN "done" ELSE "log"]
               ELSE /\ pc' = [Woken(pc) EXCEPT ![p] = "idle"]
                    /\ UNCHANGED <<committing, tail>>
    /\ UNCHANGED <<stable, cache, pins, header, mode>>

\* Process::open returns without endOp when a device file has a bad number.
ForgetEndOp(p) ==
    /\ Leaks
    /\ pc[p] = "op"
    /\ pc' = [pc EXCEPT ![p] = "idle"]
    /\ wrote' = [wrote EXCEPT ![p] = {}]
    /\ UNCHANGED <<stable, cache, pins, header, outstanding, committing, tail, mode>>
-----------------------------------------------------------------------------
(***************************************************************************)
(* commit(), by the process that closed the last operation.                *)
(***************************************************************************)
WriteLog(p) ==
    /\ pc[p] = "log"
    /\ logDisk' = [logDisk EXCEPT ![tail] = Cached(header[tail])]
    /\ tail' = tail + 1
    /\ pc' = [pc EXCEPT ![p] = IF tail = Len(header) THEN "head" ELSE "log"]
    /\ UNCHANGED <<disk, head, cache, pins, header, outstanding, committing, wrote, mode>>

WriteHead(p) ==
    /\ pc[p] = "head"
    /\ head' = header
    /\ tail' = 1
    /\ pc' = [pc EXCEPT ![p] = "install"]
    /\ UNCHANGED <<disk, logDisk, cache, pins, header, outstanding, committing, wrote, mode>>

\* The home block is written, unpinned and released: with no reference left its
\* buffer leaves the cache.
Install(p) ==
    LET b == header[tail]
    IN  /\ pc[p] = "install"
        /\ disk' = [disk EXCEPT ![b] = logDisk[tail]]
        /\ pins' = [pins EXCEPT ![b] = @ - 1]
        /\ cache' = [cache EXCEPT ![b] = IF pins[b] = 1 THEN Absent ELSE logDisk[tail]]
        /\ tail' = tail + 1
        /\ pc' = [pc EXCEPT ![p] = IF tail = Len(header) THEN "clear" ELSE "install"]
        /\ UNCHANGED <<logDisk, head, header, outstanding, committing, wrote, mode>>

ClearHead(p) ==
    /\ pc[p] = "clear"
    /\ header' = <<>>
    /\ head' = <<>>
    /\ pc' = [pc EXCEPT ![p] = "done"]
    /\ UNCHANGED <<disk, logDisk, cache, pins, outstanding, committing, tail, wrote, mode>>

Done(p) ==
    /\ pc[p] = "done"
    /\ committing' = FALSE
    /\ pc' = [Woken(pc) EXCEPT ![p] = "idle"]
    /\ UNCHANGED <<stable, cache, pins, header, outstanding, tail, wrote, mode>>

Commit(p) ==
    WriteLog(p) \/ WriteHead(p) \/ Install(p) \/ ClearHead(p) \/ Done(p)
-----------------------------------------------------------------------------
(***************************************************************************)
(* The machine crashes: memory is lost, and the log or home block that was *)
(* being written may be torn.                                              *)
(***************************************************************************)
Writing(s) == \E p \in Procs : pc[p] = s

Crash ==
    /\ cache' = [b \in Blocks |-> Absent]
    /\ pins' = [b \in Blocks |-> 0]
    /\ header' = <<>>
    /\ outstanding' = 0
    /\ committing' = FALSE
    /\ tail' = 1
    /\ pc' = [p \in Procs |-> "idle"]
    /\ wrote' = [p \in Procs |-> {}]
    /\ mode' = "boot"
    /\ UNCHANGED head
    /\ \/ UNCHANGED <<disk, logDisk>>
       \/ /\ Writing("log")
          /\ logDisk' = [logDisk EXCEPT ![tail] = Torn]
          /\ UNCHANGED disk
       \/ /\ Writing("install") \/ (mode = "recover" /\ ~Installed)
          /\ disk' = [disk EXCEPT ![header[tail]] = Torn]
          /\ UNCHANGED logDisk
-----------------------------------------------------------------------------
Step(p) == BeginOp(p) \/ BeginOpSleeps(p) \/ EndOp(p) \/ Commit(p)

Next ==
    \/ Recover
    \/ \E p \in Procs : Call(p) \/ Step(p) \/ ForgetEndOp(p)
    \/ \E p \in Procs, b \in Blocks, d \in Data : Update(p, b, d)
    \/ Crash

Spec == Init /\ [][Next]_vars
-----------------------------------------------------------------------------
(***************************************************************************)
(* Properties.                                                             *)
(***************************************************************************)
\* The type of the state: the loop variable and the log stay within the header,
\* and no torn block is ever read into the cache.
TypeOK ==
    /\ disk \in [Blocks -> Data \cup {Torn}]
    /\ logDisk \in [Entries -> Data \cup {Torn}]
    /\ head \in Seq(Blocks) /\ Len(head) <= LOG_SIZE
    /\ cache \in [Blocks -> Data \cup {Absent}]
    /\ pins \in [Blocks -> Nat]
    /\ header \in Seq(Blocks) /\ Len(header) <= LOG_SIZE
    /\ outstanding \in Nat
    /\ committing \in BOOLEAN
    /\ tail \in 1 .. LOG_SIZE + 1
    /\ pc \in [Procs -> PCs]
    /\ wrote \in [Procs -> SUBSET Blocks]
    /\ mode \in {"boot", "recover", "up"}

\* The assertions of writeLog(buf) and endOp hold whenever an operation is open
\* and might call them: what beginOp admits always fits into the log.
AssertionsHold ==
    \A p \in Procs : pc[p] = "op" =>
        /\ Len(header) < LOG_SIZE
        /\ Len(header) < LogLen - 1
        /\ outstanding >= 1
        /\ ~committing

\* A commit writes the log blocks and the home blocks of nobody but its own
\* transaction: one process commits at a time, and no operation is open.
OneCommitter ==
    \A p, q \in Procs :
        pc[p] \in {"log", "head", "install", "clear", "done"} =>
            committing /\ pc[q] # "op" /\ (pc[q] = pc[p] => p = q)

\* Blocks that wait to be installed are pinned exactly once, and no other is:
\* the cache neither drops a logged block nor keeps one for ever.
PinsMatchLog ==
    mode = "up" =>
        \A b \in Blocks :
            /\ pins[b] = IF \E i \in DOMAIN header :
                               header[i] = b /\ ~(Writing("install") /\ i < tail)
                                            /\ ~Writing("clear")
                         THEN 1 ELSE 0
            /\ cache[b] # Absent <=> pins[b] > 0

\* The operations are atomic with respect to crashes: the disk as recovery would
\* leave it changes in one step, which takes over the complete effect of all the
\* operations closed since the last one, and never while an operation is open;
\* and what the cache serves is always the latest write.
Durable ==
    [b \in Blocks |->
        IF \E i \in DOMAIN head : head[i] = b
        THEN logDisk[CHOOSE i \in DOMAIN head : head[i] = b]
        ELSE disk[b]]
Current == IF mode = "up" THEN [b \in Blocks |-> Cached(b)] ELSE Durable
Atomic == INSTANCE AtomicDisk WITH durable <- Durable, current <- Current,
                                   open <- outstanding
ImplementsAtomicDisk == Atomic!Spec
=============================================================================
