---------------------------- MODULE BufferCache ----------------------------
(***************************************************************************)
(* The buffer cache, kernel/fs/buffer.cpp, under the log, kernel/fs/log.cpp,*)
(* and the sleep mutexes of the buffers, kernel/mutex/sleep_mutex.cpp.     *)
(*                                                                         *)
(* Processes read blocks, inside an operation of the log or outside, and   *)
(* change blocks inside one; the last to end its operation commits.  What  *)
(* happens under the cache's or the log's spin mutex is one step.  A       *)
(* buffer's sleep mutex is taken after the cache's is given up, its count  *)
(* goes down after its mutex is released, and unpin changes the count with *)
(* neither, by a load and a store.  SleepMutex::unlock wakes nobody, so    *)
(* that a process that finds a buffer locked sleeps for ever ("lost").     *)
(*                                                                         *)
(* The blocks share one bucket of the table.  The log's own blocks, which  *)
(* only the committer uses, are left out, and so are crashes (see Log); a  *)
(* process has one buffer at a time.  operator delete does nothing, so a   *)
(* buffer lasts as long as somebody refers to it.                          *)
(*                                                                         *)
(* An operator whose name ends in Variant is a faulty form of the operator *)
(* that follows it; no specification uses it.                              *)
(***************************************************************************)
EXTENDS HashChain, FiniteSets

CONSTANTS Readers,       \* processes that read blocks outside of operations
          Writers,       \* processes that run operations
          Blocks,        \* the home blocks of a bucket
          Data, First,   \* what a block can hold, and what all do at first
          MAX_OP_BLOCKS, \* the blocks reserved for an operation
          LOG_SIZE,      \* the entries of a LogHeader
          OpBlocks,      \* the different blocks an operation really writes
          REF_MOD,       \* refCount is a uint32_t
          Nil

\* Two keys of a chain are safe, see HashChain.
ASSUME BufferAssumption ==
    /\ IsFiniteSet(Readers) /\ IsFiniteSet(Writers)
    /\ IsFiniteSet(Blocks) /\ Cardinality(Blocks) <= 2
    /\ Nil \notin Readers \cup Writers \cup Blocks \cup Data
    /\ {MAX_OP_BLOCKS, LOG_SIZE, OpBlocks, REF_MOD} \subseteq Nat
    /\ First \in Data
    /\ Cardinality(Readers \cup Writers) + 1 < REF_MOD
    /\ OpBlocks + 2 <= MAX_OP_BLOCKS

\* A buffer for every block in the table and for every process that has one which
\* is not in it.
Procs == Readers \cup Writers
Ids == 1 .. Cardinality(Blocks) + Cardinality(Procs)

VARIABLES table,       \* a chain of BufferCache::bufferTable
          buf,         \* the buffers
          disk,        \* the home blocks
          header,      \* log.header, as the list of its n blocks
          entry,       \* the log blocks
          outstanding, \* log.outstanding
          committing,  \* log.committing
          pc,          \* where each process is
          local,       \* its buffer, what it wants with it and the rest of its locals
          wrote,       \* the blocks each open operation has written
          latest,      \* what was last written to a block, for the properties
          raced        \* whether unpin has overwritten an increment

cacheVars == <<table, buf, disk>>
logVars == <<header, entry, outstanding, committing>>
vars == <<cacheVars, logVars, pc, local, wrote, latest, raced>>

Blank == [block |-> Nil, refs |-> 0, valid |-> FALSE, owner |-> Nil, data |-> Nil]
NoLocals == [block |-> Nil, buf |-> 0, use |-> "none", back |-> "idle", tail |-> 0, seen |-> 0]

Init ==
    /\ table = <<>>
    /\ buf = [i \in Ids |-> Blank]
    /\ disk = [b \in Blocks |-> First]
    /\ header = <<>> /\ entry = <<>> /\ outstanding = 0 /\ committing = FALSE
    /\ pc = [p \in Procs |-> "idle"]
    /\ local = [p \in Procs |-> NoLocals]
    /\ wrote = [p \in Procs |-> {}]
    /\ latest = disk
    /\ raced = FALSE

Go(p, at) == pc' = [pc EXCEPT ![p] = at]
Mine(p) == local[p].buf
-----------------------------------------------------------------------------
(***************************************************************************)
(* BufferCache::get, Buffer::read and BufferCache::release.                *)
(***************************************************************************)
\* p is about to get the buffer of block b, to return to where it is when it has
\* released it.
Wants(p, b, use, tail) ==
    /\ local' = [local EXCEPT ![p] =
                    [NoLocals EXCEPT !.block = b, !.use = use, !.back = pc[p], !.tail = tail]]
    /\ Go(p, "get")

InUse == {table[i].value : i \in DOMAIN table} \cup {Mine(p) : p \in Procs}
Fresh == CHOOSE i \in Ids \ InUse : \A j \in Ids \ InUse : i <= j

\* Under the cache's mutex the buffer is found or made, and counted.
Get(p) ==
    LET b == local[p].block
        i == IF Contains(table, b) THEN Lookup(table, b) ELSE Fresh
    IN  /\ pc[p] = "get"
        /\ table' = IF Contains(table, b) THEN table ELSE Assign(table, b, Nil, i)
        /\ buf' = IF Contains(table, b) THEN [buf EXCEPT ![i].refs = (@ + 1) % REF_MOD]
                                        ELSE [buf EXCEPT ![i] = [Blank EXCEPT !.block = b, !.refs = 1]]
        /\ local' = [local EXCEPT ![p].buf = i]
        /\ Go(p, "lock")
        /\ UNCHANGED <<disk, logVars, wrote, latest, raced>>

Free(i) == buf[i].owner = Nil

\* Buffer::read.
Valid(f, i) == IF f[i].valid THEN f
               ELSE [f EXCEPT ![i].valid = TRUE, ![i].data = disk[f[i].block]]

\* The caller locks and reads the buffer, and goes on to do what it wants with it.
Lock(p) ==
    /\ pc[p] = "lock"
    /\ IF Free(Mine(p))
       THEN /\ buf' = Valid([buf EXCEPT ![Mine(p)].owner = p], Mine(p))
            /\ Go(p, IF local[p].use = "read" THEN "unlock" ELSE local[p].use)
       ELSE Go(p, "lost") /\ UNCHANGED buf
    /\ UNCHANGED <<table, disk, logVars, local, wrote, latest, raced>>

Unlock(p) ==
    /\ pc[p] = "unlock"
    /\ buf' = [buf EXCEPT ![Mine(p)].owner = Nil]
    /\ Go(p, "drop")
    /\ UNCHANGED <<table, disk, logVars, local, wrote, latest, raced>>

\* The commit goes through the header twice: to copy the blocks to the log, and to
\* install them.  Then the header is emptied.
Continue(p) ==
    LET t == local[p].tail IN
    IF local[p].use \in {"read", "update"}
    THEN Go(p, local[p].back) /\ local' = [local EXCEPT ![p] = NoLocals] /\ UNCHANGED header
    ELSE IF t < Len(header)
    THEN Wants(p, header[t + 1], local[p].use, t + 1) /\ UNCHANGED header
    ELSE IF local[p].use = "copy"
    THEN Wants(p, header[1], "install", 1) /\ UNCHANGED header
    ELSE Go(p, "done") /\ local' = [local EXCEPT ![p] = NoLocals] /\ header' = <<>>

\* A buffer without references leaves the table; it is gone when no process has it.
LastRefVariant(i) == TRUE
LastRef(i) == buf[i].refs = 1

Drop(p) ==
    LET i == Mine(p)
        others == \E q \in Procs \ {p} : Mine(q) = i
        keep == Contains(table', buf[i].block) /\ Lookup(table', buf[i].block) = i
    IN  /\ pc[p] = "drop"
        /\ table' = IF LastRef(i) THEN Erase(table, buf[i].block) ELSE table
        /\ buf' = IF others \/ keep THEN [buf EXCEPT ![i].refs = (@ + REF_MOD - 1) % REF_MOD]
                                    ELSE [buf EXCEPT ![i] = Blank]
        /\ Continue(p)
        /\ UNCHANGED <<disk, entry, outstanding, committing, wrote, latest, raced>>
-----------------------------------------------------------------------------
(***************************************************************************)
(* What processes do with buffers.                                         *)
(***************************************************************************)
ReadCall(p) ==
    /\ p \in Readers /\ pc[p] = "idle"
    /\ \E b \in Blocks : Wants(p, b, "read", 0)
    /\ UNCHANGED <<cacheVars, logVars, wrote, latest, raced>>

Begin(p) ==
    /\ p \in Writers /\ pc[p] = "idle"
    /\ Go(p, "begin")
    /\ UNCHANGED <<cacheVars, logVars, local, wrote, latest, raced>>

NoSpace == Len(header) + (outstanding + 1) * MAX_OP_BLOCKS > LOG_SIZE

BeginOp(p) ==
    /\ pc[p] = "begin"
    /\ IF committing \/ NoSpace
       THEN Go(p, "asleep") /\ UNCHANGED outstanding
       ELSE Go(p, "op") /\ outstanding' = outstanding + 1
    /\ UNCHANGED <<cacheVars, header, entry, committing, local, wrote, latest, raced>>

\* An operation changes a block once: to change it again is like another operation.
UpdateCall(p) ==
    /\ pc[p] = "op"
    /\ \E b \in Blocks :
          /\ b \notin wrote[p] /\ Cardinality(wrote[p]) < OpBlocks
          /\ wrote' = [wrote EXCEPT ![p] = @ \cup {b}]
          /\ Wants(p, b, "update", 0)
    /\ UNCHANGED <<cacheVars, logVars, latest, raced>>

Logged == {header[i] : i \in DOMAIN header}

\* The data is changed and logged; a block that is new to the log is pinned.
PinVariant(f, i) == f
Pin(f, i) == [f EXCEPT ![i].refs = (@ + 1) % REF_MOD]

Update(p) ==
    LET b == buf[Mine(p)].block
    IN  /\ pc[p] = "update"
        /\ \E d \in Data \ {latest[b]} :
              LET written == [buf EXCEPT ![Mine(p)].data = d]
              IN  /\ buf' = IF b \in Logged THEN written ELSE Pin(written, Mine(p))
                  /\ latest' = [latest EXCEPT ![b] = d]
        /\ header' = IF b \in Logged THEN header ELSE Append(header, b)
        /\ Go(p, "unlock")
        /\ UNCHANGED <<table, disk, entry, outstanding, committing, local, wrote, raced>>

\* wakeup(&log).
WokenVariant(f) == f
Woken(f) == [q \in Procs |-> IF f[q] = "asleep" THEN "begin" ELSE f[q]]

EndOp(p) ==
    /\ pc[p] = "op"
    /\ outstanding' = outstanding - 1
    /\ wrote' = [wrote EXCEPT ![p] = {}]
    /\ IF outstanding # 1
       THEN pc' = [Woken(pc) EXCEPT ![p] = "idle"] /\ UNCHANGED <<committing, local>>
       ELSE /\ committing' = TRUE
            /\ IF header = <<>> THEN Go(p, "done") /\ UNCHANGED local
                                ELSE Wants(p, header[1], "copy", 1)
    /\ UNCHANGED <<cacheVars, header, entry, latest, raced>>
-----------------------------------------------------------------------------
(***************************************************************************)
(* What the committer does with a buffer.                                  *)
(***************************************************************************)
Copy(p) ==
    /\ pc[p] = "copy"
    /\ entry' = SubSeq(entry, 1, local[p].tail - 1) \o <<buf[Mine(p)].data>>
    /\ Go(p, "unlock")
    /\ UNCHANGED <<cacheVars, header, outstanding, committing, local, wrote, latest, raced>>

Install(p) ==
    LET d == entry[local[p].tail] IN
    /\ pc[p] = "install"
    /\ buf' = [buf EXCEPT ![Mine(p)].data = d]
    /\ disk' = [disk EXCEPT ![buf[Mine(p)].block] = d]
    /\ Go(p, "unpin")
    /\ UNCHANGED <<table, logVars, local, wrote, latest, raced>>

UnpinLoad(p) ==
    /\ pc[p] = "unpin"
    /\ local' = [local EXCEPT ![p].seen = buf[Mine(p)].refs]
    /\ Go(p, IF buf[Mine(p)].refs >= 1 THEN "store" ELSE "panic")
    /\ UNCHANGED <<cacheVars, logVars, wrote, latest, raced>>

LoweredVariant(n) == n
Lowered(n) == n - 1

UnpinStore(p) ==
    /\ pc[p] = "store"
    /\ buf' = [buf EXCEPT ![Mine(p)].refs = Lowered(local[p].seen)]
    /\ raced' = (buf[Mine(p)].refs # local[p].seen)
    /\ local' = [local EXCEPT ![p].seen = 0]
    /\ Go(p, "unlock")
    /\ UNCHANGED <<table, disk, logVars, wrote, latest>>

Done(p) ==
    /\ pc[p] = "done"
    /\ committing' = FALSE
    /\ entry' = <<>>
    /\ pc' = [Woken(pc) EXCEPT ![p] = "idle"]
    /\ UNCHANGED <<cacheVars, header, outstanding, local, wrote, latest, raced>>
-----------------------------------------------------------------------------
\* A step of a process that is not free to stop where it is.
Step(p) ==
    \/ Get(p) \/ Lock(p) \/ Unlock(p) \/ Drop(p)
    \/ BeginOp(p) \/ Update(p)
    \/ Copy(p) \/ Install(p) \/ UnpinLoad(p) \/ UnpinStore(p) \/ Done(p)

Next ==
    ~raced /\ \E p \in Procs : Step(p) \/ ReadCall(p) \/ Begin(p) \/ UpdateCall(p) \/ EndOp(p)

Spec == Init /\ [][Next]_vars
FairSpec == Spec /\ \A p \in Procs : WF_vars(Step(p)) /\ SF_vars(EndOp(p))
-----------------------------------------------------------------------------
(***************************************************************************)
(* Properties.  They are about the time up to the first increment that     *)
(* unpin loses (raced); a process can then use a buffer that has left the  *)
(* table, and none of the first three holds any more.                      *)
(***************************************************************************)
Tabled(i) == Contains(table, buf[i].block) /\ Lookup(table, buf[i].block) = i
Holds(p) == pc[p] \in {"update", "copy", "install", "unpin", "store", "unlock"}
Unpinned(p, b) == \/ \E i \in 1 .. local[p].tail - 1 : header[i] = b
                  \/ header[local[p].tail] = b /\ pc[p] \in {"unlock", "drop"}
Pinned(b) == /\ b \in Logged
             /\ ~\E p \in Procs : local[p].use = "install" /\ Unpinned(p, b)

\* The type of the state.
TypeOK ==
    /\ table \in Seq([key : Blocks, value : Ids])
    /\ buf \in [Ids -> [block : Blocks \cup {Nil}, refs : 0 .. REF_MOD - 1, valid : BOOLEAN,
                        owner : Procs \cup {Nil}, data : Data \cup {Nil}]]
    /\ disk \in [Blocks -> Data] /\ latest \in [Blocks -> Data]
    /\ header \in Seq(Blocks) /\ Len(header) <= LOG_SIZE /\ entry \in Seq(Data)
    /\ outstanding \in Nat /\ committing \in BOOLEAN /\ raced \in BOOLEAN
    /\ wrote \in [Procs -> SUBSET Blocks]
    /\ pc \in [Procs -> {"idle", "begin", "asleep", "op", "get", "lock", "lost", "update", "copy",
                         "install", "unpin", "store", "unlock", "drop", "done", "panic"}]

\* Whoever has locked a buffer sees what was last written to its block, by whichever
\* process and however often the buffer has left the cache in between; so does the
\* commit, which copies it to the log and home (get, Buffer::read, release).
UsesLatest ==
    ~raced => \A p \in Procs : Holds(p) => buf[Mine(p)].data = latest[buf[Mine(p)].block]

\* A block has one buffer: the one in the table, while a process has it or waits
\* for it, and while it is pinned (get, release, HashMap::erase).
OneBuffer ==
    ~raced => /\ \A p \in Procs : Mine(p) # 0 => Tabled(Mine(p))
              /\ \A b \in Blocks : Pinned(b) => Contains(table, b)

\* The count of a buffer in the table is the number of processes that have it or
\* wait for it, and one for the log that has pinned it: it never goes below zero,
\* and assert(refCount >= 1) in unpin holds.
RefsExact ==
    ~raced => \A i \in {table[k].value : k \in DOMAIN table} :
                 buf[i].refs = Cardinality({p \in Procs : Mine(p) = i})
                               + (IF Pinned(buf[i].block) THEN 1 ELSE 0)

\* Who sleeps in beginOp is woken, by the end of another operation or of the
\* commit, unless a process is lost on the mutex of a buffer: it may be one that
\* has an operation open, or the one that commits.
SleepersWake ==
    \A p \in Procs : pc[p] = "asleep" ~>
                        pc[p] # "asleep" \/ raced \/ \E q \in Procs : pc[q] = "lost"
=============================================================================
