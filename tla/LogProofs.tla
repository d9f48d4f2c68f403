----------------------------- MODULE LogProofs -----------------------------
(***************************************************************************)
(* Proofs about Log, for every number of processes and blocks and every    *)
(* size of the log: one process commits at a time, what beginOp admits     *)
(* fits into the log, the buffers of logged blocks are pinned exactly once *)
(* and the log implements AtomicDisk, whenever the machine crashes.        *)
(***************************************************************************)
EXTENDS Log, FiniteSetTheorems, TLAPS

\* Zenon proves most leaves; those that reason about numbers, sequences or
\* functions cite SMT.
USE ZenonT(30)

-----------------------------------------------------------------------------
(***************************************************************************)
(* The inductive invariant, part by part.                                  *)
(***************************************************************************)
\* The types; how long the log may get is the business of Budget.
Types ==
    /\ disk \in [Blocks -> Data \cup {Torn}]
    /\ logDisk \in [Entries -> Data \cup {Torn}]
    /\ head \in Seq(Blocks)
    /\ cache \in [Blocks -> Data \cup {Absent}]
    /\ pins \in [Blocks -> Nat]
    /\ header \in Seq(Blocks)
    /\ outstanding \in Nat
    /\ committing \in BOOLEAN
    /\ tail \in Nat \ {0}
    /\ pc \in [Procs -> PCs]
    /\ wrote \in [Procs -> SUBSET Blocks]
    /\ mode \in {"boot", "recover", "up"}

Open == {p \in Procs : pc[p] = "op"}
Commits(p) == pc[p] \in {"log", "head", "install", "clear", "done"}

\* Who is where: log.outstanding counts the open operations at least, a commit
\* excludes them and other commits, and nobody runs before the log is recovered.
Control ==
    /\ Cardinality(Open) <= outstanding
    /\ committing => outstanding = 0
    /\ \A p \in Procs : Commits(p) => committing
    /\ \A p, q \in Procs : Commits(p) /\ Commits(q) => p = q
    /\ mode # "up" => /\ \A p \in Procs : pc[p] = "idle"
                      /\ outstanding = 0 /\ ~committing

\* What the open operations may still write, one element per block.
Slack == {s \in Procs \X (1 .. OpBlocks) :
             pc[s[1]] = "op" /\ Cardinality(wrote[s[1]]) < s[2]}

\* The log has room for what the open operations may still write.
Budget ==
    /\ \A p \in Procs : wrote[p] \subseteq IF pc[p] = "op" THEN Logged ELSE {}
    /\ Len(header) <= LOG_SIZE
    /\ Open # {} => Len(header) + Cardinality(Slack) + 2 <= LOG_SIZE

OneToOne(s) == \A i, j \in DOMAIN s : s[i] = s[j] => i = j

\* The blocks that wait to be installed.
Pending(b) == \E i \in DOMAIN header : /\ header[i] = b
                                       /\ ~(Writing("install") /\ i < tail)
                                       /\ ~Writing("clear")

\* The log on the disk is complete once its header is written.
Complete ==
    /\ OneToOne(header) /\ OneToOne(head)
    /\ Len(head) <= LOG_SIZE
    /\ \A i \in DOMAIN head : logDisk[i] \in Data
    /\ \A b \in Blocks : (\A i \in DOMAIN head : head[i] # b) => disk[b] \in Data

\* The cache has the blocks that wait to be installed, pinned once, and no other.
Pinned ==
    \A b \in Blocks :
       /\ pins[b] = IF mode = "up" /\ Pending(b) THEN 1 ELSE 0
       /\ cache[b] # Absent <=> mode = "up" /\ Pending(b)

\* How far recovery or a commit has got: home blocks agree with the log as far as
\* they are installed, and the log with the cache as far as it is written.
Progress ==
    /\ mode = "boot" => header = <<>>
    /\ mode = "recover" => /\ header = head
                           /\ tail <= Len(header) + 1
                           /\ \A i \in 1 .. tail - 1 : disk[header[i]] = logDisk[i]
    /\ mode = "up" /\ head # <<>> => Writing("install") \/ Writing("clear")
    /\ Writing("log") => /\ tail <= Len(header)
                         /\ \A i \in 1 .. tail - 1 : logDisk[i] = cache[header[i]]
    /\ Writing("head") => /\ 1 <= Len(header)
                          /\ \A i \in 1 .. Len(header) : logDisk[i] = cache[header[i]]
    /\ Writing("install") => /\ head = header
                             /\ tail <= Len(header)
                             /\ \A i \in 1 .. tail - 1 : disk[header[i]] = logDisk[i]
                             /\ \A i \in tail .. Len(header) : cache[header[i]] = logDisk[i]
    /\ Writing("clear") => /\ head = header
                           /\ \A i \in 1 .. Len(header) : disk[header[i]] = logDisk[i]
    /\ Writing("done") => header = <<>>

Contents == Complete /\ Pinned /\ Progress

IInv == Types /\ Control /\ Budget /\ Contents
-----------------------------------------------------------------------------
(***************************************************************************)
(* Control.                                                                *)
(***************************************************************************)
\* How the size of a finite set changes with an element more or less.
LEMMA SizeSteps ==
    ASSUME NEW S, IsFiniteSet(S), NEW x
    PROVE  /\ Cardinality(S) \in Nat
           /\ Cardinality(S) = 0 <=> S = {}
           /\ \A T : T \subseteq S => Cardinality(T) <= Cardinality(S)
           /\ IsFiniteSet(S \cup {x}) /\ Cardinality(S \cup {x}) <= Cardinality(S) + 1
           /\ x \in S => \A T : T \subseteq S \ {x} => Cardinality(T) <= Cardinality(S) - 1
<1>1. Cardinality(S) \in Nat
  BY FS_CardinalityType
<1>2. Cardinality(S) = 0 <=> S = {}
  BY FS_EmptySet
<1>3. \A T : T \subseteq S => Cardinality(T) <= Cardinality(S)
  BY FS_Subset
<1>4. IsFiniteSet(S \cup {x}) /\ Cardinality(S \cup {x}) <= Cardinality(S) + 1
  <2>1. CASE x \in S
    <3>1. S \cup {x} = S
      BY <2>1
    <3>2. IsFiniteSet(S \cup {x}) /\ Cardinality(S \cup {x}) = Cardinality(S)
      BY <3>1
    <3> QED
      BY <3>2, <1>1, SMT
  <2>2. CASE x \notin S
    BY <2>2, <1>1, FS_AddElement, SMT
  <2> QED
    BY <2>1, <2>2
<1>5. ASSUME x \in S, NEW T, T \subseteq S \ {x}
      PROVE  Cardinality(T) <= Cardinality(S) - 1
  <2>1. IsFiniteSet(S \ {x}) /\ Cardinality(S \ {x}) = Cardinality(S) - 1
    BY <1>5, FS_RemoveElement
  <2>2. Cardinality(T) <= Cardinality(S \ {x})
    BY <1>5, <2>1, FS_Subset
  <2> QED
    BY <2>1, <2>2
<1> QED
  BY <1>1, <1>2, <1>3, <1>4, <1>5

\* The open operations are finitely many.
LEMMA OpenFinite == IsFiniteSet(Open)
  BY LogAssumption, FS_Subset DEF Open

\* A process that writes home blocks is the only one that commits; the block it
\* writes is in the log, pinned once and the same in the cache and in the log.
LEMMA InstallFacts ==
    ASSUME IInv, NEW p \in Procs, pc[p] = "install"
    PROVE  /\ mode = "up" /\ Writing("install") /\ ~Writing("clear")
           /\ ~Writing("log") /\ ~Writing("head") /\ ~Writing("done")
           /\ tail \in DOMAIN header /\ header[tail] \in Blocks /\ tail \in Entries
           /\ DOMAIN header = 1 .. Len(header) /\ Len(header) \in Nat
           /\ pins[header[tail]] = 1
           /\ logDisk[tail] \in Data
           /\ cache[header[tail]] = logDisk[tail]
<1>1. mode = "up" /\ Writing("install") /\ ~Writing("clear")
      /\ ~Writing("log") /\ ~Writing("head") /\ ~Writing("done")
  BY DEF IInv, Control, Commits, Writing
<1>2. /\ head = header /\ tail <= Len(header)
      /\ \A i \in tail .. Len(header) : cache[header[i]] = logDisk[i]
      /\ \A i \in DOMAIN head : logDisk[i] \in Data
      /\ Len(header) <= LOG_SIZE
      /\ \A b \in Blocks : Pending(b) => pins[b] = 1
  BY <1>1 DEF IInv, Contents, Complete, Pinned, Progress, Budget
<1>3. /\ Len(header) \in Nat /\ DOMAIN header = 1 .. Len(header)
      /\ tail \in Nat \ {0} /\ header \in Seq(Blocks)
  BY SMT DEF IInv, Types
<1>4. tail \in DOMAIN header /\ header[tail] \in Blocks
  BY <1>2, <1>3, SMT
<1>5. tail \in Entries /\ logDisk[tail] \in Data /\ cache[header[tail]] = logDisk[tail]
  BY <1>2, <1>3, <1>4, LogAssumption, SMT DEF Entries
<1>6. Pending(header[tail])
  BY <1>1, <1>3, <1>4, SMT DEF Pending
<1> QED
  BY <1>1, <1>2, <1>3, <1>4, <1>5, <1>6

\* A process that writes log blocks has one to write.
LEMMA WriteLogFacts ==
    ASSUME IInv, NEW p \in Procs, pc[p] = "log"
    PROVE  /\ mode = "up" /\ Writing("log")
           /\ ~Writing("install") /\ ~Writing("clear") /\ ~Writing("head") /\ ~Writing("done")
           /\ head = <<>>
           /\ tail \in DOMAIN header /\ header[tail] \in Blocks /\ tail \in Entries
           /\ DOMAIN header = 1 .. Len(header) /\ Len(header) \in Nat
           /\ cache[header[tail]] \in Data /\ Cached(header[tail]) = cache[header[tail]]
<1>1. mode = "up" /\ Writing("log")
      /\ ~Writing("install") /\ ~Writing("clear") /\ ~Writing("head") /\ ~Writing("done")
  BY DEF IInv, Control, Commits, Writing
<1>2. /\ head = <<>> /\ tail <= Len(header) /\ Len(header) <= LOG_SIZE
      /\ \A b \in Blocks : Pending(b) => cache[b] # Absent
  BY <1>1 DEF IInv, Contents, Complete, Pinned, Progress, Budget
<1>3. /\ Len(header) \in Nat /\ DOMAIN header = 1 .. Len(header)
      /\ tail \in Nat \ {0} /\ header \in Seq(Blocks)
      /\ cache \in [Blocks -> Data \cup {Absent}]
  BY SMT DEF IInv, Types
<1>4. tail \in DOMAIN header /\ header[tail] \in Blocks
  BY <1>2, <1>3, SMT
<1>5. tail \in Entries
  BY <1>2, <1>3, <1>4, LogAssumption, SMT DEF Entries
<1>6. Pending(header[tail])
  BY <1>1, <1>3, <1>4 DEF Pending
<1>7. cache[header[tail]] \in Data /\ Cached(header[tail]) = cache[header[tail]]
  BY <1>2, <1>3, <1>4, <1>6 DEF Cached
<1> QED
  BY <1>1, <1>2, <1>3, <1>4, <1>5, <1>7

\* Recovery writes a block that is in the header it has read.
LEMMA RecoverFacts ==
    ASSUME IInv, mode = "recover"
    PROVE  /\ header = head
           /\ \A s \in PCs : s # "idle" => ~Writing(s)
           /\ DOMAIN header = 1 .. Len(header) /\ Len(header) \in Nat
           /\ ~Installed => /\ tail \in DOMAIN header /\ header[tail] \in Blocks
                            /\ tail \in Entries /\ logDisk[tail] \in Data
<1>1. /\ header = head /\ \A i \in DOMAIN head : logDisk[i] \in Data
      /\ Len(header) <= LOG_SIZE
  BY DEF IInv, Contents, Complete, Pinned, Progress, Budget
<1>2. \A s \in PCs : s # "idle" => ~Writing(s)
  BY DEF IInv, Control, Writing
<1>3. /\ Len(header) \in Nat /\ DOMAIN header = 1 .. Len(header)
      /\ tail \in Nat \ {0} /\ header \in Seq(Blocks)
  BY SMT DEF IInv, Types
<1>4. ~Installed => tail \in DOMAIN header /\ header[tail] \in Blocks
  BY <1>3, SMT DEF Installed
<1>5. ~Installed => tail \in Entries /\ logDisk[tail] \in Data
  BY <1>1, <1>3, <1>4, LogAssumption, SMT DEF Entries
<1> QED
  BY <1>1, <1>2, <1>3, <1>4, <1>5

\* A step is one of the actions.
LEMMA NextCases ==
    ASSUME Next
    PROVE  \/ ReadHead \/ RecoverInstall \/ RecoverClear \/ Crash
           \/ \E p \in Procs : \/ Call(p) \/ BeginOp(p) \/ BeginOpSleeps(p)
                               \/ EndOp(p) \/ ForgetEndOp(p)
                               \/ WriteLog(p) \/ WriteHead(p) \/ Install(p)
                               \/ ClearHead(p) \/ Done(p)
                               \/ \E b \in Blocks, d \in Data : Update(p, b, d)
  BY DEF Next, Recover, Step, Commit

\* Every step keeps the types: no torn block gets into the cache, and no counter
\* goes below zero.
LEMMA TypesStep ==
    ASSUME IInv, [Next]_vars
    PROVE  Types'
<1> USE DEF Types
<1>0. Types
  BY DEF IInv
<1>1. CASE ReadHead
  BY <1>0, <1>1, SMT DEF ReadHead, stable
<1>2. CASE RecoverInstall
  <2>1. header[tail] \in Blocks /\ tail \in Entries
    BY <1>2, RecoverFacts DEF RecoverInstall
  <2> QED
    BY <1>0, <1>2, <2>1, SMT DEF RecoverInstall
<1>3. CASE RecoverClear
  BY <1>0, <1>3, SMT DEF RecoverClear
<1>4. CASE Crash
  <2>1. /\ cache' \in [Blocks -> Data \cup {Absent}] /\ pins' \in [Blocks -> Nat]
        /\ header' \in Seq(Blocks) /\ head' \in Seq(Blocks)
        /\ wrote' \in [Procs -> SUBSET Blocks]
        /\ outstanding' \in Nat /\ tail' \in Nat \ {0}
    BY <1>0, <1>4, SMT DEF Crash
  <2>3. /\ committing' \in BOOLEAN
        /\ pc' \in [Procs -> PCs]
        /\ mode' \in {"boot", "recover", "up"}
    BY <1>4 DEF Crash, PCs
  <2>2. /\ disk' \in [Blocks -> Data \cup {Torn}]
        /\ logDisk' \in [Entries -> Data \cup {Torn}]
    BY <1>0, <1>4 DEF Crash
  <2> QED
    BY <2>1, <2>2, <2>3
<1>5. ASSUME NEW p \in Procs, Call(p) \/ BeginOp(p) \/ BeginOpSleeps(p) \/ ForgetEndOp(p)
      PROVE  Types'
  <2>1. pc' \in [Procs -> PCs]
    BY <1>0, <1>5 DEF Call, BeginOp, BeginOpSleeps, ForgetEndOp, PCs
  <2>2. CASE Call(p) \/ BeginOpSleeps(p)
    BY <1>0, <2>1, <2>2 DEF Call, BeginOpSleeps, stable, memory
  <2>3. CASE BeginOp(p)
    BY <1>0, <2>1, <2>3, SMT DEF BeginOp, stable
  <2>4. CASE ForgetEndOp(p)
    BY <1>0, <2>1, <2>4 DEF ForgetEndOp, stable
  <2> QED
    BY <1>5, <2>2, <2>3, <2>4
<1>6. ASSUME NEW p \in Procs, EndOp(p)
      PROVE  Types'
  <2>1. outstanding - 1 \in Nat
    <3>1. Open # {} /\ Cardinality(Open) <= outstanding
      BY <1>6 DEF IInv, Control, Open, EndOp
    <3> QED
      BY <3>1, <1>0, OpenFinite, SizeSteps, SMT
  <2>2. Woken(pc) \in [Procs -> PCs]
    BY <1>0 DEF Woken, PCs
  <2>3. pc' \in [Procs -> PCs]
    BY <1>0, <1>6, <2>2 DEF EndOp, PCs
  <2>4. \/ committing' = TRUE /\ tail' = 1
        \/ committing' = committing /\ tail' = tail
    BY <1>6 DEF EndOp
  <2>5. committing' \in BOOLEAN
    BY <1>0, <2>4
  <2>6. tail' \in Nat \ {0}
    BY <1>0, <2>4, SMT
  <2>7. /\ wrote' \in [Procs -> SUBSET Blocks] /\ outstanding' \in Nat
        /\ UNCHANGED <<disk, logDisk, head, cache, pins, header, mode>>
    BY <1>0, <1>6, <2>1 DEF EndOp, stable
  <2> QED
    BY <1>0, <2>3, <2>5, <2>6, <2>7
<1>7. ASSUME NEW p \in Procs, WriteLog(p)
      PROVE  Types'
  <2>1. /\ tail \in Entries /\ Cached(header[tail]) \in Data
    BY <1>7, WriteLogFacts DEF WriteLog
  <2> QED
    BY <1>0, <1>7, <2>1, SMT DEF WriteLog, PCs
<1>8. ASSUME NEW p \in Procs, WriteHead(p) \/ ClearHead(p)
      PROVE  Types'
  <2>1. pc' \in [Procs -> PCs]
    BY <1>0, <1>8 DEF WriteHead, ClearHead, PCs
  <2>2. CASE WriteHead(p)
    BY <1>0, <2>1, <2>2, SMT DEF WriteHead
  <2>3. CASE ClearHead(p)
    BY <1>0, <2>1, <2>3, SMT DEF ClearHead
  <2> QED
    BY <1>8, <2>2, <2>3
<1>9. ASSUME NEW p \in Procs, Install(p)
      PROVE  Types'
  <2>1. /\ header[tail] \in Blocks /\ pins[header[tail]] = 1
        /\ logDisk[tail] \in Data
    BY <1>9, InstallFacts DEF Install
  <2> QED
    BY <1>0, <1>9, <2>1, SMT DEF Install, PCs
<1>10. ASSUME NEW p \in Procs, Done(p)
       PROVE  Types'
  <2>1. Woken(pc) \in [Procs -> PCs]
    BY <1>0 DEF Woken, PCs
  <2> QED
    BY <1>0, <1>10, <2>1 DEF Done, stable, PCs
<1>11. ASSUME NEW p \in Procs, NEW b \in Blocks, NEW d \in Data, Update(p, b, d)
       PROVE  Types'
  BY <1>0, <1>11, SMT DEF Update, stable
<1>12. CASE UNCHANGED vars
  BY <1>0, <1>12 DEF vars, stable, memory
<1> QED
  BY <1>1, <1>2, <1>3, <1>4, <1>5, <1>6, <1>7, <1>8, <1>9, <1>10, <1>11, <1>12, NextCases

\* Every step keeps Control: operations and commits exclude each other.
LEMMA ControlStep ==
    ASSUME IInv, [Next]_vars
    PROVE  Control'
<1> USE DEF Control
<1>0. Types /\ Control /\ IsFiniteSet(Open)
  BY OpenFinite DEF IInv
<1>a. Cardinality(Open) \in Nat
  BY <1>0, SizeSteps
\* A step that opens no operation, starts no commit and leaves the counters alone.
<1>b. ASSUME NEW p \in Procs, pc' \in [Procs -> PCs],
             \A q \in Procs : pc'[q] \in {"op", "log", "head", "install", "clear", "done"} =>
                                 pc[q] = pc'[q] \/ (q = p /\ Commits(p) /\ pc'[p] # "op"),
             mode' = mode, mode = "up",
             outstanding' = outstanding, committing' = committing
      PROVE  Control'
  <2>1. Open' \subseteq Open
    BY <1>b DEF Open
  <2>2. Cardinality(Open') <= Cardinality(Open)
    BY <2>1, <1>0, SizeSteps
  <2>3. Cardinality(Open') \in Nat
    BY <2>1, <1>0, FS_Subset, SizeSteps
  <2>4. \A q \in Procs : Commits(q)' => Commits(q)
    BY <1>b DEF Commits
  <2> QED
    BY <1>0, <1>a, <1>b, <2>2, <2>3, <2>4, SMT DEF Types
<1>1. CASE ReadHead \/ RecoverInstall \/ RecoverClear
  <2>1. /\ UNCHANGED <<pc, outstanding, committing>> /\ mode # "up"
    BY <1>1 DEF ReadHead, RecoverInstall, RecoverClear, stable
  <2>2. Open' = Open
    BY <2>1 DEF Open
  <2> QED
    BY <1>0, <2>1, <2>2 DEF Commits
<1>2. CASE Crash
  <2>1. /\ \A p \in Procs : pc'[p] = "idle"
        /\ outstanding' = 0 /\ committing' = FALSE
    BY <1>2 DEF Crash
  <2>2. Open' = {}
    BY <2>1 DEF Open
  <2>3. Cardinality(Open') = 0
    BY <2>2, FS_EmptySet
  <2> QED
    BY <2>1, <2>3, SMT DEF Commits
<1>3. ASSUME NEW p \in Procs, BeginOp(p)
      PROVE  Control'
  <2>1. Open' = Open \cup {p}
    BY <1>0, <1>3 DEF BeginOp, Open, Types
  <2>2. Cardinality(Open') <= Cardinality(Open) + 1
    BY <2>1, <1>0, SizeSteps
  <2>3. Cardinality(Open') \in Nat
    BY <2>1, <1>0, SizeSteps
  <2>4. outstanding' = outstanding + 1 /\ ~committing /\ ~committing' /\ mode = "up" /\ mode' = "up"
    BY <1>0, <1>3 DEF BeginOp
  <2>5. \A q \in Procs : Commits(q)' => Commits(q)
    BY <1>0, <1>3 DEF BeginOp, Commits, Types
  <2> QED
    BY <1>0, <1>a, <2>2, <2>3, <2>4, <2>5, SMT DEF Types
<1>4. ASSUME NEW p \in Procs, EndOp(p)
      PROVE  Control'
  <2>1. Open' \subseteq Open \ {p} /\ p \in Open
    BY <1>0, <1>4 DEF EndOp, Open, Woken, Types
  <2>2. Cardinality(Open') <= Cardinality(Open) - 1
    BY <2>1, <1>0, SizeSteps
  <2>3. Cardinality(Open') \in Nat
    <3>1. IsFiniteSet(Open')
      BY <2>1, <1>0, FS_Subset
    <3> QED
      BY <3>1, SizeSteps
  <2>4. outstanding # 0 /\ ~committing /\ outstanding' = outstanding - 1
    BY <1>0, <1>a, <1>4, <2>2, <2>3, SMT DEF EndOp, Types
  <2>5. \A q \in Procs : ~Commits(q)
    BY <1>0, <2>4
  <2>6. mode = "up" /\ mode' = "up"
    BY <1>0, <1>4 DEF EndOp
  <2>7. CASE Last
    <3>1. outstanding' = 0 /\ committing' = TRUE
      BY <1>4, <2>4, <2>7, <1>0, SMT DEF EndOp, Last, Types
    <3>2. \A q \in Procs : Commits(q)' => q = p
      BY <1>0, <1>4, <2>5, <2>7 DEF EndOp, Commits, Types
    <3> QED
      BY <1>0, <1>a, <2>2, <2>3, <2>4, <2>6, <3>1, <3>2, SMT DEF Types
  <2>8. CASE ~Last
    <3>1. committing' = committing
      BY <1>4, <2>8 DEF EndOp
    <3>2. \A q \in Procs : ~Commits(q)'
      BY <1>0, <1>4, <2>5, <2>8 DEF EndOp, Commits, Types, Woken
    <3> QED
      BY <1>0, <1>a, <2>2, <2>3, <2>4, <2>6, <3>1, <3>2, SMT DEF Types
  <2> QED
    BY <2>7, <2>8
<1>5. ASSUME NEW p \in Procs, Call(p) \/ BeginOpSleeps(p) \/ ForgetEndOp(p)
      PROVE  Control'
  <2>1. pc' \in [Procs -> PCs]
    BY TypesStep DEF Types
  <2>2. mode = "up"
    BY <1>0, <1>5 DEF Call, BeginOpSleeps, ForgetEndOp
  <2>3. UNCHANGED <<mode, outstanding, committing>>
    BY <1>5 DEF Call, BeginOpSleeps, ForgetEndOp, memory
  <2>4. \A q \in Procs : pc'[q] \in {"op", "log", "head", "install", "clear", "done"} =>
                            pc[q] = pc'[q]
    BY <1>0, <1>5 DEF Call, BeginOpSleeps, ForgetEndOp, Types
  <2> QED
    BY <1>b, <2>1, <2>2, <2>3, <2>4
<1>6. ASSUME NEW p \in Procs, WriteLog(p) \/ WriteHead(p) \/ Install(p) \/ ClearHead(p)
      PROVE  Control'
  <2>1. pc' \in [Procs -> PCs]
    BY TypesStep DEF Types
  <2>2. mode = "up" /\ Commits(p)
    BY <1>0, <1>6 DEF WriteLog, WriteHead, Install, ClearHead, Commits
  <2>3. UNCHANGED <<mode, outstanding, committing>>
    BY <1>6 DEF WriteLog, WriteHead, Install, ClearHead
  <2>4. \A q \in Procs : q # p => pc'[q] = pc[q]
    BY <1>0, <1>6 DEF WriteLog, WriteHead, Install, ClearHead, Types
  <2>5. pc'[p] # "op"
    BY <1>0, <1>6 DEF WriteLog, WriteHead, Install, ClearHead, Types
  <2> QED
    BY <1>b, <2>1, <2>2, <2>3, <2>4, <2>5
<1>7. ASSUME NEW p \in Procs, Done(p)
      PROVE  Control'
  <2>1. Open' \subseteq Open
    BY <1>0, <1>7 DEF Done, Open, Woken, Types
  <2>2. Cardinality(Open') <= Cardinality(Open)
    BY <2>1, <1>0, SizeSteps
  <2>3. Cardinality(Open') \in Nat
    BY <2>1, <1>0, FS_Subset, SizeSteps
  <2>4. Commits(p) /\ mode = "up"
    BY <1>0, <1>7 DEF Done, Commits
  <2>5. \A q \in Procs : ~Commits(q)'
    BY <1>0, <1>7, <2>4 DEF Done, Commits, Types, Woken
  <2> QED
    BY <1>0, <1>a, <1>7, <2>2, <2>3, <2>4, <2>5, SMT DEF Types, Done
<1>8. ASSUME NEW p \in Procs, NEW b \in Blocks, NEW d \in Data, Update(p, b, d)
      PROVE  Control'
  <2>1. UNCHANGED <<pc, outstanding, committing, mode>>
    BY <1>8 DEF Update
  <2>2. Open' = Open
    BY <2>1 DEF Open
  <2> QED
    BY <1>0, <2>1, <2>2 DEF Commits
<1>9. CASE UNCHANGED vars
  <2>1. UNCHANGED <<pc, outstanding, committing, mode>>
    BY <1>9 DEF vars, memory
  <2>2. Open' = Open
    BY <2>1 DEF Open
  <2> QED
    BY <1>0, <2>1, <2>2 DEF Commits
<1> QED
  BY <1>1, <1>2, <1>3, <1>4, <1>5, <1>6, <1>7, <1>8, <1>9, NextCases
-----------------------------------------------------------------------------
(***************************************************************************)
(* Budget.                                                                 *)
(***************************************************************************)
\* What the open operations may still write is bounded by their number.
LEMMA SlackFinite ==
    /\ IsFiniteSet(Slack) /\ Cardinality(Slack) \in Nat
    /\ Cardinality(Slack) <= Cardinality(Open) * OpBlocks
<1>1. IsFiniteSet(1 .. OpBlocks) /\ Cardinality(1 .. OpBlocks) = OpBlocks
  <2>1. OpBlocks \in Nat
    BY LogAssumption
  <2> QED
    BY <2>1, FS_Interval, SMT
<1>2. /\ IsFiniteSet(Open \X (1 .. OpBlocks))
      /\ Cardinality(Open \X (1 .. OpBlocks)) = Cardinality(Open) * OpBlocks
  BY <1>1, OpenFinite, FS_Product
<1>3. Slack \subseteq Open \X (1 .. OpBlocks)
  BY DEF Slack, Open
<1> QED
  BY <1>2, <1>3, FS_Subset, FS_CardinalityType

\* What beginOp reserves for an operation is more than it may write.
LEMMA Reserved ==
    ASSUME NEW n \in Nat, NEW o \in Nat, NEW c \in Nat, c <= o + 1,
           n + (o + 1) * MAX_OP_BLOCKS <= LOG_SIZE
    PROVE  n + c * OpBlocks + 2 <= LOG_SIZE
<1>1. /\ OpBlocks \in Nat /\ MAX_OP_BLOCKS \in Nat /\ LOG_SIZE \in Nat
      /\ OpBlocks + 2 <= MAX_OP_BLOCKS
  BY LogAssumption
<1>2. c * OpBlocks <= (o + 1) * OpBlocks
  BY <1>1, SMT
<1>3. (o + 1) * (OpBlocks + 2) <= (o + 1) * MAX_OP_BLOCKS
  BY <1>1, SMT
<1>4. (o + 1) * (OpBlocks + 2) = (o + 1) * OpBlocks + 2 * o + 2
  BY <1>1, SMT
<1>5. c * OpBlocks \in Nat /\ (o + 1) * OpBlocks \in Nat /\ (o + 1) * MAX_OP_BLOCKS \in Nat
  BY <1>1, SMT
<1> QED
  BY <1>1, <1>2, <1>3, <1>4, <1>5, SMT

\* What an operation has written is finite, being in the log.
LEMMA WroteFinite ==
    ASSUME Types, NEW p \in Procs
    PROVE  IsFiniteSet(wrote[p]) /\ Cardinality(wrote[p]) \in Nat
<1>1. wrote[p] \subseteq Blocks
  BY DEF Types
<1> QED
  BY <1>1, LogAssumption, FS_Subset, FS_CardinalityType

\* Every step keeps Budget: what beginOp admits is what the log still has room for.
LEMMA BudgetStep ==
    ASSUME IInv, [Next]_vars
    PROVE  Budget'
<1>0. Types /\ Control /\ Budget /\ Types' /\ Control'
  BY TypesStep, ControlStep DEF IInv
<1>1. LOG_SIZE \in Nat /\ Len(header) \in Nat
  BY <1>0, LogAssumption, SMT DEF Types
\* Steps after which no operation is open.
<1>a. ASSUME \A p \in Procs : pc'[p] # "op" /\ wrote'[p] = {},
             Len(header') <= LOG_SIZE
      PROVE  Budget'
  BY <1>a DEF Budget, Open
\* Steps that leave the log alone and open no operation.
<1>b. ASSUME header' = header,
             \A p \in Procs : \/ pc'[p] = "op" /\ pc[p] = "op" /\ wrote'[p] = wrote[p]
                              \/ pc'[p] # "op" /\ wrote'[p] = {}
      PROVE  Budget'
  <2>1. Open' \subseteq Open /\ Slack' \subseteq Slack
    BY <1>b DEF Open, Slack
  <2>2. Cardinality(Slack') <= Cardinality(Slack) /\ Cardinality(Slack') \in Nat
    BY <2>1, SlackFinite, SizeSteps, FS_Subset
  <2>3. Logged' = Logged
    BY <1>b DEF Logged
  <2>4. \A p \in Procs : wrote'[p] \subseteq IF pc'[p] = "op" THEN Logged' ELSE {}
    BY <1>0, <1>b, <2>3 DEF Budget
  <2>5. Len(header') <= LOG_SIZE
    BY <1>0, <1>b DEF Budget
  <2>6. Open' # {} => Len(header') + Cardinality(Slack') + 2 <= LOG_SIZE
    BY <1>0, <1>1, <1>b, <2>1, <2>2, SlackFinite, SMT DEF Budget
  <2> QED
    BY <2>4, <2>5, <2>6 DEF Budget
<1>c. ASSUME mode # "up" \/ \E p \in Procs : Commits(p)
      PROVE  \A p \in Procs : pc[p] # "op" /\ wrote[p] = {}
  <2>1. outstanding = 0
    BY <1>0, <1>c DEF Control
  <2>2. Open = {}
    BY <1>0, <2>1, OpenFinite, SizeSteps, SMT DEF Control
  <2> QED
    BY <1>0, <2>2 DEF Budget, Open
<1>2. CASE ReadHead \/ RecoverInstall \/ RecoverClear
  <2>1. UNCHANGED <<pc, wrote>> /\ mode # "up"
    BY <1>2 DEF ReadHead, RecoverInstall, RecoverClear
  <2>2. header' \in {head, header, <<>>}
    BY <1>2 DEF ReadHead, RecoverInstall, RecoverClear
  <2>3. Len(header') <= LOG_SIZE
    BY <1>0, <1>1, <2>2, SMT DEF IInv, Contents, Complete, Pinned, Progress, Budget
  <2> QED
    BY <1>a, <1>c, <2>1, <2>3
<1>3. CASE Crash
  BY <1>a, <1>1, <1>3, SMT DEF Crash
<1>4. ASSUME NEW p \in Procs, WriteLog(p) \/ WriteHead(p) \/ Install(p) \/ ClearHead(p) \/ Done(p)
      PROVE  Budget'
  <2>1. Commits(p) /\ wrote' = wrote
    BY <1>4 DEF WriteLog, WriteHead, Install, ClearHead, Done, Commits
  <2>2. \A q \in Procs : pc[q] # "op" /\ wrote[q] = {}
    BY <1>c, <2>1
  <2>3. \A q \in Procs : pc'[q] # "op"
    BY <1>0, <1>4, <2>2 DEF WriteLog, WriteHead, Install, ClearHead, Done, Types, Woken
  <2>4. header' \in {header, <<>>}
    BY <1>4 DEF WriteLog, WriteHead, Install, ClearHead, Done
  <2>5. Len(header') <= LOG_SIZE
    BY <1>0, <1>1, <2>4, SMT DEF Budget
  <2> QED
    BY <1>a, <2>1, <2>2, <2>3, <2>5
<1>5. ASSUME NEW p \in Procs, Call(p) \/ BeginOpSleeps(p)
      PROVE  Budget'
  <2>1. header' = header /\ wrote' = wrote
    BY <1>5 DEF Call, BeginOpSleeps, memory
  <2>2. \A q \in Procs : pc'[q] = "op" <=> pc[q] = "op"
    BY <1>0, <1>5 DEF Call, BeginOpSleeps, Types
  <2>3. \A q \in Procs : pc[q] # "op" => wrote[q] = {}
    BY <1>0 DEF Budget
  <2> QED
    BY <1>b, <2>1, <2>2, <2>3
<1>6. ASSUME NEW p \in Procs, EndOp(p) \/ ForgetEndOp(p)
      PROVE  Budget'
  <2>1. header' = header
    BY <1>6 DEF EndOp, ForgetEndOp
  <2>2. pc'[p] # "op" /\ wrote'[p] = {}
    BY <1>0, <1>6 DEF EndOp, ForgetEndOp, Types
  <2>3. \A q \in Procs : q # p => (pc'[q] = "op" <=> pc[q] = "op") /\ wrote'[q] = wrote[q]
    BY <1>0, <1>6 DEF EndOp, ForgetEndOp, Types, Woken
  <2>4. \A q \in Procs : pc[q] # "op" => wrote[q] = {}
    BY <1>0 DEF Budget
  <2> QED
    BY <1>b, <2>1, <2>2, <2>3, <2>4
<1>7. ASSUME NEW p \in Procs, BeginOp(p)
      PROVE  Budget'
  <2>1. /\ header' = header /\ wrote' = wrote /\ outstanding' = outstanding + 1
        /\ Len(header) + (outstanding + 1) * MAX_OP_BLOCKS <= LOG_SIZE
    <3>1. (outstanding + 1) * MAX_OP_BLOCKS \in Nat
      BY <1>0, LogAssumption, SMT DEF Types
    <3> QED
      BY <1>7, <1>1, <3>1, SMT DEF BeginOp, NoSpace
  <2>2. /\ Cardinality(Open') \in Nat /\ Cardinality(Open') <= outstanding + 1
        /\ outstanding \in Nat
    <3>1. IsFiniteSet(Open')
      BY LogAssumption, FS_Subset DEF Open
    <3> QED
      BY <1>0, <2>1, <3>1, FS_CardinalityType DEF Control, Types
  <2>3. Len(header) + Cardinality(Open') * OpBlocks + 2 <= LOG_SIZE
    BY <1>1, <2>1, <2>2, Reserved
  <2>4. Cardinality(Slack') \in Nat /\ Cardinality(Slack') <= Cardinality(Open') * OpBlocks
    <3>1. (/\ IsFiniteSet(Slack) /\ Cardinality(Slack) \in Nat
           /\ Cardinality(Slack) <= Cardinality(Open) * OpBlocks)'
      BY SlackFinite, PTL
    <3> QED
      BY <3>1
  <2>5. Len(header) + Cardinality(Slack') + 2 <= LOG_SIZE
    <3>1. Cardinality(Open') * OpBlocks \in Nat
      BY <2>2, LogAssumption, SMT
    <3> QED
      BY <1>1, <2>3, <2>4, <3>1, SMT
  <2>6. \A q \in Procs : wrote'[q] \subseteq IF pc'[q] = "op" THEN Logged' ELSE {}
    <3>1. Logged' = Logged
      BY <2>1 DEF Logged
    <3>2. \A q \in Procs : (pc[q] = "op" => pc'[q] = "op")
      BY <1>0, <1>7 DEF BeginOp, Types
    <3> QED
      BY <1>0, <2>1, <3>1, <3>2 DEF Budget
  <2> QED
    BY <1>0, <2>1, <2>5, <2>6 DEF Budget
<1>8. ASSUME NEW p \in Procs, NEW b \in Blocks, NEW d \in Data, Update(p, b, d)
      PROVE  Budget'
  <2>1. UNCHANGED pc /\ pc[p] = "op" /\ p \in Open
    BY <1>8 DEF Update, Open
  <2>2. /\ wrote'[p] = wrote[p] \cup {b}
        /\ \A q \in Procs : q # p => wrote'[q] = wrote[q]
    BY <1>0, <1>8 DEF Update, Types
  <2>3. Logged' = Logged \cup {b}
    <3>1. CASE b \in Logged
      BY <1>8, <3>1 DEF Update, NewEntry, Logged
    <3>2. CASE b \notin Logged
      <4>1. header' = Append(header, b) /\ header \in Seq(Blocks)
        BY <1>0, <1>8, <3>2 DEF Update, NewEntry, Types
      <4>2. /\ DOMAIN header' = DOMAIN header \cup {Len(header) + 1}
            /\ header'[Len(header) + 1] = b
            /\ \A i \in DOMAIN header : header'[i] = header[i]
        BY <4>1, SMT
      <4> QED
        BY <4>2, SMT DEF Logged
    <3> QED
      BY <3>1, <3>2
  <2>4. \A q \in Procs : wrote'[q] \subseteq IF pc'[q] = "op" THEN Logged' ELSE {}
    BY <1>0, <2>1, <2>2, <2>3 DEF Budget
  <2>5. /\ Len(header) + Cardinality(Slack) + 2 <= LOG_SIZE
        /\ Cardinality(Slack) \in Nat
    BY <1>0, <2>1, SlackFinite DEF Budget
  <2>6. CASE b \in Logged
    <3>1. header' = header
      BY <1>8, <2>6 DEF Update, NewEntry
    <3>2. Cardinality(wrote[p]) <= Cardinality(wrote'[p])
      BY <1>0, <2>2, WroteFinite, SizeSteps
    <3>3. Slack' \subseteq Slack
      <4>1. \A s \in Slack' : s \in Slack
        <5> SUFFICES ASSUME NEW s \in Slack' PROVE s \in Slack
          OBVIOUS
        <5>1. /\ s \in Procs \X (1 .. OpBlocks) /\ pc[s[1]] = "op"
              /\ Cardinality(wrote'[s[1]]) < s[2]
          BY <2>1 DEF Slack
        <5>2. Cardinality(wrote[s[1]]) <= Cardinality(wrote'[s[1]])
          <6>1. CASE s[1] = p
            BY <3>2, <6>1
          <6>2. CASE s[1] # p
            <7>1. wrote'[s[1]] = wrote[s[1]]
              BY <2>2, <5>1, <6>2
            <7>2. Cardinality(wrote[s[1]]) \in Nat
              BY <1>0, <5>1, WroteFinite
            <7> QED
              BY <7>1, <7>2, SMT
          <6> QED
            BY <6>1, <6>2
        <5>3. Cardinality(wrote[s[1]]) \in Nat /\ Cardinality(wrote'[s[1]]) \in Nat
          BY <1>0, <5>1, WroteFinite, <2>2, SizeSteps
        <5>4. Cardinality(wrote[s[1]]) < s[2]
          BY <5>1, <5>2, <5>3, SMT
        <5> QED
          BY <5>1, <5>4 DEF Slack
      <4> QED
        BY <4>1
    <3>4. Cardinality(Slack') <= Cardinality(Slack) /\ Cardinality(Slack') \in Nat
      BY <3>3, SlackFinite, SizeSteps, FS_Subset
    <3> QED
      BY <1>0, <1>1, <2>4, <2>5, <3>1, <3>4, SMT DEF Budget
  <2>7. CASE b \notin Logged
    <3>1. Len(header') = Len(header) + 1
      BY <1>0, <1>8, <2>7, SMT DEF Update, NewEntry, Types
    <3>2. b \notin wrote[p] /\ Cardinality(wrote[p]) < OpBlocks
      BY <1>0, <1>8, <2>1, <2>7 DEF Update, Budget
    <3>3. Cardinality(wrote'[p]) = Cardinality(wrote[p]) + 1 /\ Cardinality(wrote[p]) \in Nat
      <4>1. IsFiniteSet(wrote[p]) /\ wrote'[p] = wrote[p] \cup {b}
        BY <1>0, <2>2, WroteFinite
      <4> QED
        BY <3>2, <4>1, FS_AddElement, FS_CardinalityType
    <3>4. <<p, Cardinality(wrote[p]) + 1>> \in Slack
      <4>1. Cardinality(wrote[p]) + 1 \in 1 .. OpBlocks
        BY <3>2, <3>3, LogAssumption, SMT
      <4> QED
        BY <2>1, <3>3, <4>1, SMT DEF Slack
    <3>5. Slack' \subseteq Slack \ {<<p, Cardinality(wrote[p]) + 1>>}
      <4>1. \A s \in Slack' : s \in Slack /\ s # <<p, Cardinality(wrote[p]) + 1>>
        <5> SUFFICES ASSUME NEW s \in Slack'
                     PROVE  s \in Slack /\ s # <<p, Cardinality(wrote[p]) + 1>>
          OBVIOUS
        <5>1. /\ s \in Procs \X (1 .. OpBlocks) /\ pc[s[1]] = "op"
              /\ Cardinality(wrote'[s[1]]) < s[2]
          BY <2>1 DEF Slack
        <5>2. CASE s[1] = p
          BY <3>3, <5>1, <5>2, SMT DEF Slack
        <5>3. CASE s[1] # p
          BY <2>2, <5>1, <5>3, SMT DEF Slack
        <5> QED
          BY <5>2, <5>3
      <4> QED
        BY <4>1
    <3>6. Cardinality(Slack') <= Cardinality(Slack) - 1 /\ Cardinality(Slack') \in Nat
      <4>1. IsFiniteSet(Slack \ {<<p, Cardinality(wrote[p]) + 1>>})
        BY SlackFinite, FS_Subset
      <4>2. Cardinality(Slack') \in Nat
        BY <3>5, <4>1, FS_Subset, FS_CardinalityType
      <4> QED
        BY <3>4, <3>5, <4>2, SlackFinite, SizeSteps
    <3> QED
      BY <1>0, <1>1, <2>4, <2>5, <3>1, <3>6, SMT DEF Budget
  <2> QED
    BY <2>6, <2>7
<1>9. CASE UNCHANGED vars
  <2>1. header' = header /\ wrote' = wrote /\ pc' = pc
    BY <1>9 DEF vars, memory
  <2>2. \A q \in Procs : pc[q] # "op" => wrote[q] = {}
    BY <1>0 DEF Budget
  <2> QED
    BY <1>b, <2>1, <2>2
<1> QED
  BY <1>2, <1>3, <1>4, <1>5, <1>6, <1>7, <1>8, <1>9, NextCases
-----------------------------------------------------------------------------
(***************************************************************************)
(* Contents.                                                               *)
(***************************************************************************)
Phases == {"log", "head", "install", "clear", "done"}

\* A process that commits is the only one, so that its step decides what is
\* being written.
LEMMA WritingStep ==
    ASSUME IInv, NEW p \in Procs, Commits(p), NEW s,
           pc' = [pc EXCEPT ![p] = s]
    PROVE  /\ mode = "up"
           /\ \A t \in Phases : (Writing(t)' <=> s = t) /\ (Writing(t) <=> pc[p] = t)
<1>1. /\ pc \in [Procs -> PCs]
      /\ \A q \in Procs : Commits(q) => q = p
      /\ mode = "up"
  BY DEF IInv, Types, Control, Commits
<1>2. ASSUME NEW t \in Phases
      PROVE  (Writing(t)' <=> s = t) /\ (Writing(t) <=> pc[p] = t)
  BY <1>1 DEF Writing, Commits, Phases
<1> QED
  BY <1>1, <1>2

\* A step of a process that neither commits nor starts to.
LEMMA ContentsFrame ==
    ASSUME IInv,
           UNCHANGED <<disk, logDisk, head, cache, pins, header, mode>>,
           tail' = tail \/ ~Writing("install"),
           tail' = tail \/ mode = "up",
           \A t \in Phases : Writing(t)' => Writing(t) /\ tail' = tail,
           \A t \in {"install", "clear"} : Writing(t)' <=> Writing(t)
    PROVE  Contents'
<1>0. Complete /\ Pinned /\ Progress
  BY DEF IInv, Contents
<1>1. Complete'
  BY <1>0 DEF Complete, OneToOne
<1>2. Pinned'
  <2>1. \A b \in Blocks : Pending(b)' <=> Pending(b)
    BY DEF Pending
  <2> QED
    BY <1>0, <2>1 DEF Pinned
<1>3. Progress'
  BY <1>0 DEF Progress, Phases
<1> QED
  BY <1>1, <1>2, <1>3 DEF Contents

\* Recovery copies the log to the home blocks, then empties it.
LEMMA ContentsRecovery ==
    ASSUME IInv, ReadHead \/ RecoverInstall \/ RecoverClear
    PROVE  Contents'
<1>0. /\ Complete /\ Pinned /\ Progress
      /\ header \in Seq(Blocks) /\ head \in Seq(Blocks) /\ tail \in Nat \ {0}
      /\ disk \in [Blocks -> Data \cup {Torn}] /\ pc \in [Procs -> PCs]
  BY DEF IInv, Contents, Types
<1>a. pc' = pc /\ mode # "up" /\ \A p \in Procs : pc[p] = "idle"
  BY DEF IInv, Control, ReadHead, RecoverInstall, RecoverClear
<1>b. \A t \in Phases : ~Writing(t) /\ ~Writing(t)'
  BY <1>a DEF Phases, Writing
<1>1. CASE ReadHead
  <2>1. Complete'
    BY <1>0, <1>1 DEF ReadHead, Complete, OneToOne, stable
  <2>2. Pinned'
    BY <1>0, <1>1 DEF ReadHead, Pinned
  <2>3. Progress'
    BY <1>0, <1>1, <1>b, SMT DEF ReadHead, Progress, Phases, stable
  <2> QED
    BY <2>1, <2>2, <2>3 DEF Contents
<1>2. CASE RecoverInstall
  <2>1. /\ header = head /\ tail \in DOMAIN header /\ header[tail] \in Blocks
        /\ DOMAIN header = 1 .. Len(header) /\ Len(header) \in Nat
        /\ disk' = [disk EXCEPT ![header[tail]] = logDisk[tail]]
        /\ tail' = tail + 1 /\ mode = "recover"
        /\ UNCHANGED <<logDisk, head, cache, pins, header, mode>>
    BY <1>2, RecoverFacts DEF RecoverInstall
  <2>2. \A b \in Blocks : b # header[tail] => disk'[b] = disk[b]
    BY <1>0, <2>1
  <2>3. Complete'
    BY <1>0, <2>1, <2>2 DEF Complete, OneToOne
  <2>4. Pinned'
    BY <1>0, <2>1 DEF Pinned
  <2>5. \A i \in 1 .. tail' - 1 : disk'[header'[i]] = logDisk'[i]
    <3> SUFFICES ASSUME NEW i \in 1 .. tail PROVE disk'[header[i]] = logDisk[i]
      BY <1>0, <2>1, SMT
    <3>1. i \in DOMAIN header /\ header[i] \in Blocks
      BY <1>0, <2>1, SMT
    <3>2. CASE i = tail
      BY <1>0, <2>1, <3>2
    <3>3. CASE i # tail
      <4>1. header[i] # header[tail]
        BY <1>0, <2>1, <3>1, <3>3 DEF Complete, OneToOne
      <4>2. disk[header[i]] = logDisk[i]
        BY <1>0, <2>1, <3>3, SMT DEF Progress
      <4> QED
        BY <2>2, <3>1, <4>1, <4>2
    <3> QED
      BY <3>2, <3>3
  <2>6. Progress'
    BY <1>0, <2>1, <2>5, <1>b, SMT DEF Progress, Phases
  <2> QED
    BY <2>3, <2>4, <2>6 DEF Contents
<1>3. CASE RecoverClear
  <2>1. /\ header = head /\ tail > Len(header) /\ mode = "recover" /\ mode' = "up"
        /\ DOMAIN header = 1 .. Len(header) /\ Len(header) \in Nat
        /\ header' = <<>> /\ head' = <<>>
        /\ UNCHANGED <<disk, logDisk, cache, pins>>
    BY <1>3, RecoverFacts DEF RecoverClear, Installed
  <2>2. \A b \in Blocks : disk[b] \in Data
    <3> SUFFICES ASSUME NEW b \in Blocks PROVE disk[b] \in Data
      OBVIOUS
    <3>1. CASE \E i \in DOMAIN head : head[i] = b
      <4> PICK i \in DOMAIN head : head[i] = b
        BY <3>1
      <4>1. disk[b] = logDisk[i] /\ logDisk[i] \in Data
        BY <1>0, <2>1, SMT DEF Progress, Complete
      <4> QED
        BY <4>1
    <3>2. CASE \A i \in DOMAIN head : head[i] # b
      BY <1>0, <3>2 DEF Complete
    <3> QED
      BY <3>1, <3>2
  <2>3. Complete'
    BY <2>1, <2>2, LogAssumption, SMT DEF Complete, OneToOne
  <2>4. Pinned'
    BY <1>0, <2>1, SMT DEF Pinned, Pending
  <2>5. Progress'
    BY <2>1, <1>b DEF Progress, Phases
  <2> QED
    BY <2>3, <2>4, <2>5 DEF Contents
<1> QED
  BY <1>1, <1>2, <1>3

\* A crash tears at most a block of a log that is not complete, or a home block
\* that the complete log still has.
LEMMA ContentsCrash ==
    ASSUME IInv, Crash
    PROVE  Contents'
<1>0. /\ Complete /\ Pinned /\ Progress
      /\ header \in Seq(Blocks) /\ head \in Seq(Blocks) /\ tail \in Nat \ {0}
      /\ disk \in [Blocks -> Data \cup {Torn}]
  BY DEF IInv, Contents, Types
<1>1. /\ header' = <<>> /\ head' = head /\ mode' = "boot"
      /\ cache' = [b \in Blocks |-> Absent] /\ pins' = [b \in Blocks |-> 0]
      /\ \A t \in Phases : ~Writing(t)'
  BY DEF Crash, Writing, Phases
<1>2. Pinned' /\ Progress'
  BY <1>1 DEF Pinned, Progress, Phases
<1>3. Complete'
  <2>1. CASE UNCHANGED <<disk, logDisk>>
    BY <1>0, <1>1, <2>1, SMT DEF Complete, OneToOne
  <2>2. CASE Writing("log") /\ UNCHANGED disk
    <3>1. head = <<>>
      BY <2>2, WriteLogFacts DEF Writing
    <3> QED
      BY <1>0, <1>1, <2>2, <3>1, SMT DEF Complete, OneToOne
  <2>3. CASE /\ Writing("install") \/ (mode = "recover" /\ ~Installed)
             /\ disk' = [disk EXCEPT ![header[tail]] = Torn]
             /\ UNCHANGED logDisk
    <3>1. tail \in DOMAIN header /\ header = head
      <4>1. CASE Writing("install")
        <5>1. header = head
          BY <1>0, <4>1 DEF Progress
        <5>2. tail \in DOMAIN header
          BY <4>1, InstallFacts DEF Writing
        <5> QED
          BY <5>1, <5>2
      <4>2. CASE mode = "recover" /\ ~Installed
        BY <4>2, RecoverFacts
      <4> QED
        BY <2>3, <4>1, <4>2
    <3>2. \A b \in Blocks : b # header[tail] => disk'[b] = disk[b]
      BY <1>0, <2>3
    <3> QED
      BY <1>0, <1>1, <2>3, <3>1, <3>2, SMT DEF Complete, OneToOne
  <2> QED
    BY <2>1, <2>2, <2>3 DEF Crash
<1> QED
  BY <1>2, <1>3 DEF Contents

\* An operation that ends starts the commit, with the log still empty on the disk,
\* or leaves everything to the others.
LEMMA ContentsEndOp ==
    ASSUME IInv, NEW p \in Procs, EndOp(p)
    PROVE  Contents'
<1>0. /\ Complete /\ Pinned /\ Progress
      /\ header \in Seq(Blocks) /\ pc \in [Procs -> PCs] /\ tail \in Nat \ {0}
  BY DEF IInv, Contents, Types
<1>1. /\ pc[p] = "op" /\ mode = "up" /\ mode' = "up"
      /\ UNCHANGED <<disk, logDisk, head, cache, pins, header>>
  BY DEF EndOp, IInv, Control, stable
<1>2. \A q \in Procs : ~Commits(q)
  <2>1. p \in Open /\ Cardinality(Open) <= outstanding /\ outstanding \in Nat
    BY <1>1 DEF Open, IInv, Control, Types
  <2>2. Cardinality(Open) \in Nat /\ Cardinality(Open) # 0
    BY <2>1, OpenFinite, SizeSteps
  <2>3. outstanding # 0
    BY <2>1, <2>2, SMT
  <2> QED
    BY <2>3 DEF IInv, Control
<1>3. \A t \in Phases : ~Writing(t)
  BY <1>2 DEF Writing, Commits, Phases
<1>4. CASE Last
  <2>1. /\ tail' = 1
        /\ pc' = [pc EXCEPT ![p] = IF header = <<>> THEN "done" ELSE "log"]
    BY <1>4 DEF EndOp
  <2>2. /\ \A t \in Phases \ {"done", "log"} : ~Writing(t)'
        /\ Writing("done")' => header = <<>>
        /\ Writing("log")' => header # <<>>
    BY <1>0, <1>2, <2>1 DEF Writing, Phases, Commits
  <2>3. \A b \in Blocks : Pending(b)' <=> Pending(b)
    BY <1>1, <1>3, <2>2 DEF Pending, Phases
  <2>4. Complete' /\ Pinned'
    BY <1>0, <1>1, <2>3 DEF Complete, OneToOne, Pinned
  <2>5. header # <<>> => 1 <= Len(header)
    BY <1>0, SMT
  <2>6. Progress'
    BY <1>0, <1>1, <1>3, <2>1, <2>2, <2>5, SMT DEF Progress, Phases
  <2> QED
    BY <2>4, <2>6 DEF Contents
<1>5. CASE ~Last
  <2>1. pc' = [Woken(pc) EXCEPT ![p] = "idle"] /\ tail' = tail
    BY <1>5 DEF EndOp
  <2>2. \A q \in Procs : ~Commits(q)'
    BY <1>0, <1>2, <2>1 DEF Woken, Commits
  <2>3. \A t \in Phases : ~Writing(t)'
    BY <2>2 DEF Writing, Commits, Phases
  <2> QED
    BY <1>1, <1>3, <2>1, <2>3, ContentsFrame DEF Phases
<1> QED
  BY <1>4, <1>5

\* A log block takes over what the cache has.
LEMMA ContentsWriteLog ==
    ASSUME IInv, NEW p \in Procs, WriteLog(p)
    PROVE  Contents'
<1>0. /\ Complete /\ Pinned /\ Progress
      /\ header \in Seq(Blocks) /\ tail \in Nat \ {0}
      /\ logDisk \in [Entries -> Data \cup {Torn}]
  BY DEF IInv, Contents, Types
<1>1. /\ head = <<>> /\ tail \in DOMAIN header /\ tail \in Entries
      /\ DOMAIN header = 1 .. Len(header) /\ Len(header) \in Nat
      /\ Cached(header[tail]) = cache[header[tail]]
      /\ mode = "up" /\ Writing("log") /\ ~Writing("install") /\ ~Writing("clear")
  BY WriteLogFacts DEF WriteLog
<1>2. /\ logDisk' = [logDisk EXCEPT ![tail] = cache[header[tail]]]
      /\ tail' = tail + 1 /\ mode' = "up"
      /\ UNCHANGED <<disk, head, cache, pins, header>>
  BY <1>1 DEF WriteLog
<1>3. /\ Writing("log")' <=> tail # Len(header)
      /\ Writing("head")' <=> tail = Len(header)
      /\ ~Writing("install")' /\ ~Writing("clear")' /\ ~Writing("done")'
  <2>1. Commits(p) /\ pc' = [pc EXCEPT ![p] = IF tail = Len(header) THEN "head" ELSE "log"]
    BY DEF WriteLog, Commits
  <2>2. \A t \in Phases :
           Writing(t)' <=> (IF tail = Len(header) THEN "head" ELSE "log") = t
    BY <2>1, WritingStep
  <2> QED
    BY <2>2 DEF Phases
<1>4. \A b \in Blocks : Pending(b)' <=> Pending(b)
  BY <1>1, <1>2, <1>3 DEF Pending
<1>5. Complete' /\ Pinned'
  BY <1>0, <1>1, <1>2, <1>4, SMT DEF Complete, OneToOne, Pinned
<1>6. \A i \in 1 .. tail : logDisk'[i] = cache'[header'[i]]
  <2> SUFFICES ASSUME NEW i \in 1 .. tail PROVE logDisk'[i] = cache[header[i]]
    BY <1>2
  <2>1. i \in Entries
    BY <1>0, <1>1, LogAssumption, SMT DEF Entries
  <2>2. CASE i = tail
    BY <1>0, <1>1, <1>2, <2>2
  <2>3. CASE i # tail
    <3>1. logDisk[i] = cache[header[i]]
      BY <1>0, <1>1, <2>3, SMT DEF Progress
    <3> QED
      BY <1>0, <1>2, <2>1, <2>3, <3>1
  <2> QED
    BY <2>2, <2>3
<1>7. Progress'
  <2>1. /\ Writing("log")' => tail' <= Len(header')
        /\ Writing("head")' => tail = Len(header') /\ 1 <= Len(header')
        /\ tail' - 1 = tail
    BY <1>0, <1>1, <1>2, <1>3, SMT
  <2>2. head' = <<>> /\ mode' = "up"
    BY <1>1, <1>2
  <2> QED
    BY <1>3, <1>6, <2>1, <2>2 DEF Progress
<1> QED
  BY <1>5, <1>7 DEF Contents

\* The commit point: the header lists the blocks of a log that is written.
LEMMA ContentsWriteHead ==
    ASSUME IInv, NEW p \in Procs, WriteHead(p)
    PROVE  Contents'
<1>0. /\ Complete /\ Pinned /\ Progress
      /\ header \in Seq(Blocks) /\ Len(header) <= LOG_SIZE
      /\ cache \in [Blocks -> Data \cup {Absent}]
  BY DEF IInv, Contents, Types, Budget
<1>1. /\ Commits(p) /\ pc' = [pc EXCEPT ![p] = "install"] /\ pc[p] = "head"
      /\ head' = header /\ tail' = 1
      /\ UNCHANGED <<disk, logDisk, cache, pins, header, mode>>
  BY DEF WriteHead, Commits
<1>2. /\ \A t \in Phases : Writing(t)' <=> "install" = t
      /\ \A t \in Phases : Writing(t) <=> "head" = t
      /\ mode = "up"
  <2>1. /\ \A t \in Phases : (Writing(t)' <=> "install" = t) /\ (Writing(t) <=> pc[p] = t)
        /\ mode = "up"
    BY <1>1, WritingStep
  <2> QED
    BY <1>1, <2>1
<1>3. /\ head = <<>> /\ 1 <= Len(header)
      /\ \A i \in 1 .. Len(header) : logDisk[i] = cache[header[i]]
  BY <1>0, <1>2 DEF Progress, Phases
<1>4. DOMAIN header = 1 .. Len(header) /\ Len(header) \in Nat
  BY <1>0, SMT
<1>5. \A b \in Blocks : Pending(b)' <=> Pending(b)
  BY <1>1, <1>2, <1>4, SMT DEF Pending, Phases
<1>6. \A i \in DOMAIN header : logDisk[i] \in Data
  <2> SUFFICES ASSUME NEW i \in DOMAIN header PROVE logDisk[i] \in Data
    OBVIOUS
  <2>1. header[i] \in Blocks /\ Pending(header[i])
    BY <1>0, <1>2, SMT DEF Pending, Phases
  <2>2. cache[header[i]] \in Data
    BY <1>0, <1>2, <2>1 DEF Pinned
  <2> QED
    BY <1>3, <1>4, <2>2
<1>7. Complete'
  <2>1. \A b \in Blocks : disk[b] \in Data
    BY <1>0, <1>3, SMT DEF Complete
  <2> QED
    BY <1>0, <1>1, <1>6, <2>1 DEF Complete, OneToOne
<1>8. Pinned'
  BY <1>0, <1>1, <1>5 DEF Pinned
<1>9. Progress'
  BY <1>1, <1>2, <1>3, <1>4, SMT DEF Progress, Phases
<1> QED
  BY <1>7, <1>8, <1>9 DEF Contents

\* The loop over the log: the entries left are this one and those behind it.
LEMMA LoopStep ==
    ASSUME NEW i \in Nat, NEW t \in Nat, NEW n \in Nat, i <= n
    PROVE  /\ ~(i < t) <=> i = t \/ ~(i < t + 1)
           /\ ~(i < t + 1) => i # t /\ (t <= n => t # n)
  BY SMT

\* A home block takes over what the log has, and its buffer leaves the cache.
LEMMA ContentsInstall ==
    ASSUME IInv, NEW p \in Procs, Install(p)
    PROVE  Contents'
<1>0. /\ Complete /\ Pinned /\ Progress
      /\ header \in Seq(Blocks) /\ tail \in Nat \ {0}
      /\ disk \in [Blocks -> Data \cup {Torn}]
      /\ cache \in [Blocks -> Data \cup {Absent}]
      /\ pins \in [Blocks -> Nat]
  BY DEF IInv, Contents, Types
<1> DEFINE h == header[tail]
<1>1. /\ mode = "up" /\ Writing("install") /\ ~Writing("clear")
      /\ tail \in DOMAIN header /\ h \in Blocks
      /\ DOMAIN header = 1 .. Len(header) /\ Len(header) \in Nat
      /\ pins[h] = 1 /\ logDisk[tail] \in Data
  BY InstallFacts DEF Install
<1>2. /\ disk' = [disk EXCEPT ![h] = logDisk[tail]]
      /\ pins' = [pins EXCEPT ![h] = 0]
      /\ cache' = [cache EXCEPT ![h] = Absent]
      /\ tail' = tail + 1
      /\ UNCHANGED <<logDisk, head, header, mode>>
  <2>1. /\ disk' = [disk EXCEPT ![h] = logDisk[tail]]
        /\ pins' = [pins EXCEPT ![h] = pins[h] - 1]
        /\ cache' = [cache EXCEPT ![h] = IF pins[h] = 1 THEN Absent ELSE logDisk[tail]]
        /\ tail' = tail + 1
        /\ UNCHANGED <<logDisk, head, header, mode>>
    BY DEF Install
  <2> HIDE DEF h
  <2>2. pins[h] - 1 = 0
    BY <1>1, SMT
  <2> QED
    BY <1>1, <2>1, <2>2
<1> HIDE DEF h
<1>3. /\ Writing("install")' <=> tail # Len(header)
      /\ Writing("clear")' <=> tail = Len(header)
      /\ ~Writing("log")' /\ ~Writing("head")' /\ ~Writing("done")'
  <2>1. Commits(p) /\ pc' = [pc EXCEPT ![p] = IF tail = Len(header) THEN "clear" ELSE "install"]
    BY DEF Install, Commits
  <2>2. \A t \in Phases :
           Writing(t)' <=> (IF tail = Len(header) THEN "clear" ELSE "install") = t
    BY <2>1, WritingStep
  <2> QED
    BY <2>2 DEF Phases
<1>4. /\ head = header
      /\ \A i \in 1 .. tail - 1 : disk[header[i]] = logDisk[i]
      /\ \A i \in tail .. Len(header) : cache[header[i]] = logDisk[i]
  BY <1>0, <1>1 DEF Progress
<1>5. \A i \in DOMAIN header : header[i] \in Blocks /\ (header[i] = h <=> i = tail)
  BY <1>0, <1>1, SMT DEF Complete, OneToOne, h
<1>6. \A i \in DOMAIN header : /\ ~(i < tail) <=> i = tail \/ ~(i < tail + 1)
                               /\ ~(i < tail + 1) => i # tail /\ tail # Len(header)
  <2>1. tail \in 1 .. Len(header) /\ Len(header) \in Nat /\ DOMAIN header = 1 .. Len(header)
    BY <1>1
  <2> SUFFICES ASSUME NEW i \in 1 .. Len(header)
               PROVE  /\ ~(i < tail) <=> i = tail \/ ~(i < tail + 1)
                      /\ ~(i < tail + 1) => i # tail /\ tail # Len(header)
    BY <2>1
  <2>2. i \in Nat /\ tail \in Nat /\ i <= Len(header) /\ tail <= Len(header)
    BY <2>1, SMT
  <2> QED
    BY <2>1, <2>2, LoopStep
<1>7. \A b \in Blocks : Pending(b)' <=> \E i \in DOMAIN header : header[i] = b /\ ~(i < tail + 1)
  <2>1. CASE tail = Len(header)
    BY <1>3, <1>6, <2>1 DEF Pending
  <2>2. CASE tail # Len(header)
    BY <1>2, <1>3, <2>2 DEF Pending
  <2> QED
    BY <2>1, <2>2
<1>8. \A b \in Blocks : Pending(b)' <=> Pending(b) /\ b # h
  <2> SUFFICES ASSUME NEW b \in Blocks PROVE Pending(b)' <=> Pending(b) /\ b # h
    OBVIOUS
  <2>1. Pending(b) <=> \E i \in DOMAIN header : header[i] = b /\ ~(i < tail)
    BY <1>1 DEF Pending
  <2> QED
    BY <1>5, <1>6, <1>7, <2>1
<1>9. Pinned'
  BY <1>0, <1>1, <1>2, <1>8 DEF Pinned
<1>10. Complete'
  BY <1>0, <1>1, <1>2, <1>4, <1>5 DEF Complete, OneToOne
<1>11. \A i \in 1 .. tail : disk'[header[i]] = logDisk[i]
  <2> SUFFICES ASSUME NEW i \in 1 .. tail PROVE disk'[header[i]] = logDisk[i]
    OBVIOUS
  <2>1. i \in DOMAIN header /\ header[i] \in Blocks
    BY <1>0, <1>1, <1>5, SMT
  <2>2. CASE i = tail
    BY <1>0, <1>1, <1>2, <2>2 DEF h
  <2>3. CASE i # tail
    <3>1. disk[header[i]] = logDisk[i]
      BY <1>0, <1>4, <2>3, SMT
    <3>2. header[i] # h
      BY <1>5, <2>1, <2>3
    <3> QED
      BY <1>0, <1>2, <2>1, <3>1, <3>2
  <2> QED
    BY <2>2, <2>3
<1>12. \A i \in tail + 1 .. Len(header) : cache'[header[i]] = logDisk[i]
  <2> SUFFICES ASSUME NEW i \in tail + 1 .. Len(header) PROVE cache'[header[i]] = logDisk[i]
    OBVIOUS
  <2>1. i \in tail .. Len(header) /\ i # tail /\ i \in DOMAIN header
    BY <1>0, <1>1, SMT
  <2>2. cache[header[i]] = logDisk[i]
    BY <1>4, <2>1
  <2>3. header[i] \in Blocks /\ header[i] # h
    BY <1>5, <2>1
  <2> QED
    BY <1>0, <1>2, <2>2, <2>3
<1>13. Progress'
  <2>1. /\ tail # Len(header) => tail' <= Len(header')
        /\ tail' - 1 = tail
    <3>1. /\ tail \in 1 .. Len(header) /\ Len(header) \in Nat
          /\ tail' = tail + 1 /\ header' = header
      BY <1>1, <1>2
    <3> QED
      BY <3>1, SMT
  <2>2. mode' = "up" /\ head' = header' /\ (Writing("install")' \/ Writing("clear")')
    BY <1>1, <1>2, <1>3, <1>4
  <2> QED
    BY <1>1, <1>2, <1>3, <1>4, <1>11, <1>12, <2>1, <2>2, SMT DEF Progress
<1> QED
  BY <1>9, <1>10, <1>13 DEF Contents

\* Once every block is at home, the log is emptied.
LEMMA ContentsClear ==
    ASSUME IInv, NEW p \in Procs, ClearHead(p)
    PROVE  Contents'
<1>0. /\ Complete /\ Pinned /\ Progress
      /\ header \in Seq(Blocks)
  BY DEF IInv, Contents, Types
<1>1. /\ Commits(p) /\ pc' = [pc EXCEPT ![p] = "done"] /\ pc[p] = "clear"
      /\ header' = <<>> /\ head' = <<>>
      /\ UNCHANGED <<disk, logDisk, cache, pins, mode>>
  BY DEF ClearHead, Commits
<1>2. /\ \A t \in Phases : (Writing(t)' <=> "done" = t) /\ (Writing(t) <=> pc[p] = t)
      /\ mode = "up"
  BY <1>1, WritingStep
<1>3. Writing("clear") /\ \A t \in Phases \ {"done"} : ~Writing(t)'
  BY <1>1, <1>2 DEF Phases
<1>4. /\ head = header /\ DOMAIN header = 1 .. Len(header)
      /\ \A i \in 1 .. Len(header) : disk[header[i]] = logDisk[i]
  BY <1>0, <1>3, SMT DEF Progress
<1>5. \A b \in Blocks : disk[b] \in Data
  <2> SUFFICES ASSUME NEW b \in Blocks PROVE disk[b] \in Data
    OBVIOUS
  <2>1. CASE \E i \in DOMAIN head : head[i] = b
    <3> PICK i \in DOMAIN head : head[i] = b
      BY <2>1
    <3>1. disk[b] = logDisk[i] /\ logDisk[i] \in Data
      BY <1>0, <1>4 DEF Complete
    <3> QED
      BY <3>1
  <2>2. CASE \A i \in DOMAIN head : head[i] # b
    BY <1>0, <2>2 DEF Complete
  <2> QED
    BY <2>1, <2>2
<1>6. Complete'
  BY <1>1, <1>5, LogAssumption, SMT DEF Complete, OneToOne
<1>7. Pinned'
  <2>1. \A b \in Blocks : ~Pending(b) /\ ~Pending(b)'
    BY <1>1, <1>3, SMT DEF Pending
  <2> QED
    BY <1>0, <1>1, <2>1 DEF Pinned
<1>8. Progress'
  BY <1>1, <1>2, <1>3 DEF Progress, Phases
<1> QED
  BY <1>6, <1>7, <1>8 DEF Contents

\* An update pins the buffer of a block that was not in the log, and the log on
\* the disk stays empty.
LEMMA ContentsUpdate ==
    ASSUME IInv, NEW p \in Procs, NEW b \in Blocks, NEW d \in Data, Update(p, b, d)
    PROVE  Contents'
<1>0. /\ Complete /\ Pinned /\ Progress
      /\ header \in Seq(Blocks) /\ pc \in [Procs -> PCs]
      /\ cache \in [Blocks -> Data \cup {Absent}]
      /\ pins \in [Blocks -> Nat]
  BY DEF IInv, Contents, Types
<1>1. /\ pc[p] = "op" /\ mode = "up"
      /\ cache' = [cache EXCEPT ![b] = d]
      /\ header' = IF NewEntry(b) THEN Append(header, b) ELSE header
      /\ pins' = IF NewEntry(b) THEN [pins EXCEPT ![b] = @ + 1] ELSE pins
      /\ UNCHANGED <<disk, logDisk, head, tail, pc, mode>>
  BY DEF Update, IInv, Control, stable
<1>2. \A q \in Procs : ~Commits(q)
  <2>1. p \in Open /\ Cardinality(Open) <= outstanding /\ outstanding \in Nat
    BY <1>1 DEF Open, IInv, Control, Types
  <2>2. Cardinality(Open) \in Nat /\ Cardinality(Open) # 0
    BY <2>1, OpenFinite, SizeSteps
  <2>3. outstanding # 0
    BY <2>1, <2>2, SMT
  <2> QED
    BY <2>3 DEF IInv, Control
<1>3. \A t \in Phases : ~Writing(t) /\ ~Writing(t)'
  BY <1>1, <1>2 DEF Writing, Commits, Phases
<1>4. \A c \in Blocks : (Pending(c) <=> c \in Logged) /\ (Pending(c)' <=> c \in Logged')
  BY <1>3 DEF Pending, Logged, Phases
<1>5. /\ DOMAIN header = 1 .. Len(header) /\ Len(header) \in Nat
      /\ \A i \in DOMAIN header : header[i] \in Blocks
  BY <1>0, SMT
<1>6. Logged' = Logged \cup {b} /\ OneToOne(header')
  <2>1. CASE NewEntry(b)
    <3>1. /\ DOMAIN header' = 1 .. Len(header) + 1
          /\ \A i \in 1 .. Len(header) : header'[i] = header[i]
          /\ header'[Len(header) + 1] = b
      BY <1>0, <1>1, <1>5, <2>1, SMT
    <3>2. DOMAIN header' = DOMAIN header \cup {Len(header) + 1}
      BY <1>5, <3>1, SMT
    <3>3. Logged' = Logged \cup {b}
      BY <1>5, <3>1, <3>2, SMT DEF Logged
    <3>4. OneToOne(header')
      BY <1>0, <1>5, <2>1, <3>1, <3>2 DEF OneToOne, Complete, NewEntry, Logged
    <3> QED
      BY <3>3, <3>4
  <2>2. CASE ~NewEntry(b)
    BY <1>0, <1>1, <2>2, SMT DEF NewEntry, Logged, Complete, OneToOne
  <2> QED
    BY <2>1, <2>2
<1>7. Complete'
  BY <1>0, <1>1, <1>6 DEF Complete, OneToOne
<1>8. Pinned'
  <2> SUFFICES ASSUME NEW c \in Blocks
               PROVE  /\ pins'[c] = IF c \in Logged' THEN 1 ELSE 0
                      /\ cache'[c] # Absent <=> c \in Logged'
    BY <1>1, <1>4 DEF Pinned
  <2>1. /\ pins[c] = IF c \in Logged THEN 1 ELSE 0
        /\ cache[c] # Absent <=> c \in Logged
    BY <1>0, <1>1, <1>4 DEF Pinned
  <2>2. CASE c = b
    <3>1. cache'[c] # Absent
      BY <1>0, <1>1, <2>2, LogAssumption
    <3>2. pins'[c] = 1
      BY <1>0, <1>1, <2>1, <2>2, SMT DEF NewEntry
    <3> QED
      BY <1>6, <2>2, <3>1, <3>2
  <2>3. CASE c # b
    BY <1>0, <1>1, <1>6, <2>1, <2>3
  <2> QED
    BY <2>2, <2>3
<1>9. Progress'
  BY <1>0, <1>1, <1>3 DEF Progress, Phases
<1> QED
  BY <1>7, <1>8, <1>9 DEF Contents

\* Every step keeps Contents.
LEMMA ContentsStep ==
    ASSUME IInv, [Next]_vars
    PROVE  Contents'
<1>0. pc \in [Procs -> PCs]
  BY DEF IInv, Types
<1>1. ASSUME NEW p \in Procs, Call(p) \/ BeginOp(p) \/ BeginOpSleeps(p) \/ ForgetEndOp(p)
      PROVE  Contents'
  <2>1. /\ UNCHANGED <<disk, logDisk, head, cache, pins, header, mode, tail>>
        /\ ~Commits(p) /\ ~Commits(p)' /\ \A q \in Procs \ {p} : pc'[q] = pc[q]
    BY <1>0, <1>1 DEF Call, BeginOp, BeginOpSleeps, ForgetEndOp, stable, memory, Commits
  <2>2. \A t \in Phases : Writing(t)' <=> Writing(t)
    BY <2>1 DEF Writing, Commits, Phases
  <2> QED
    BY <2>1, <2>2, ContentsFrame DEF Phases
<1>2. ASSUME NEW p \in Procs, Done(p)
      PROVE  Contents'
  <2>1. /\ UNCHANGED <<disk, logDisk, head, cache, pins, header, mode, tail>>
        /\ pc[p] = "done" /\ pc' = [Woken(pc) EXCEPT ![p] = "idle"]
    BY <1>2 DEF Done, stable
  <2>2. \A q \in Procs : ~Commits(q)'
    BY <1>0, <2>1 DEF IInv, Control, Commits, Woken
  <2>3. \A t \in Phases : ~Writing(t)'
    BY <2>2 DEF Writing, Commits, Phases
  <2>4. ~Writing("install") /\ ~Writing("clear")
    BY <2>1 DEF IInv, Control, Commits, Writing
  <2> QED
    BY <2>1, <2>3, <2>4, ContentsFrame DEF Phases
<1>3. CASE UNCHANGED vars
  <2>1. /\ UNCHANGED <<disk, logDisk, head, cache, pins, header, mode, tail>>
        /\ pc' = pc
    BY <1>3 DEF vars, stable, memory
  <2>2. \A t \in Phases : Writing(t)' <=> Writing(t)
    BY <2>1 DEF Writing
  <2> QED
    BY <2>1, <2>2, ContentsFrame DEF Phases
<1> QED
  BY <1>1, <1>2, <1>3, NextCases, ContentsRecovery, ContentsCrash, ContentsEndOp,
     ContentsWriteLog, ContentsWriteHead, ContentsInstall, ContentsClear, ContentsUpdate
-----------------------------------------------------------------------------
(***************************************************************************)
(* The theorems.                                                           *)
(***************************************************************************)
\* A machine that boots from a fresh disk.
LEMMA InitInv == Init => IInv
<1> SUFFICES ASSUME Init PROVE IInv
  OBVIOUS
<1>a. \A p \in Procs : pc[p] = "idle" /\ wrote[p] = {}
  BY DEF Init
<1>1. Types
  <2>1. committing \in BOOLEAN /\ pc \in [Procs -> PCs] /\ mode \in {"boot", "recover", "up"}
    BY DEF Init, PCs
  <2> QED
    BY <2>1, SMT DEF Init, Types
<1>2. Open = {}
  BY <1>a DEF Open
<1>3. Control
  <2>1. Cardinality(Open) = 0
    BY <1>2, FS_EmptySet
  <2> QED
    BY <1>a, <2>1, SMT DEF Init, Control, Commits
<1>4. Budget
  BY <1>a, <1>2, LogAssumption, SMT DEF Init, Budget
<1>5. Contents
  <2>1. \A t \in Phases : ~Writing(t)
    BY <1>a DEF Writing, Phases
  <2>2. Complete
    BY LogAssumption, SMT DEF Init, Complete, OneToOne
  <2>3. Pinned
    BY DEF Init, Pinned
  <2>4. Progress
    BY <2>1 DEF Init, Progress, Phases
  <2> QED
    BY <2>2, <2>3, <2>4 DEF Contents
<1> QED
  BY <1>1, <1>3, <1>4, <1>5 DEF IInv

\* The invariant is inductive: it holds from the first boot, through every step
\* of the log and every crash.
THEOREM LogInvariant == Spec => []IInv
<1>1. IInv /\ [Next]_vars => IInv'
  BY TypesStep, ControlStep, BudgetStep, ContentsStep DEF IInv
<1> QED
  BY InitInv, <1>1, PTL DEF Spec

\* endOp lets one process commit at a time, and none while an operation is open.
THEOREM LogOneCommitter == Spec => []OneCommitter
<1>1. IInv => OneCommitter
  <2> SUFFICES ASSUME IInv, NEW p \in Procs, NEW q \in Procs, Commits(p)
               PROVE  committing /\ pc[q] # "op" /\ (pc[q] = pc[p] => p = q)
    BY DEF OneCommitter, Commits
  <2>1. committing /\ outstanding = 0 /\ Cardinality(Open) <= outstanding
    BY DEF IInv, Control
  <2>2. Open = {}
    BY <2>1, OpenFinite, SizeSteps, SMT
  <2>3. pc[q] = pc[p] => p = q
    BY DEF IInv, Control, Commits
  <2> QED
    BY <2>1, <2>2, <2>3 DEF Open
<1> QED
  BY LogInvariant, <1>1, PTL

\* Whatever beginOp admits fits into the log, whichever operations are open and
\* however many of them were never closed: the assertions of writeLog and endOp
\* never fail.
THEOREM LogAssertions == Spec => []AssertionsHold
<1>1. IInv => AssertionsHold
  <2> SUFFICES ASSUME IInv, NEW p \in Procs, pc[p] = "op"
               PROVE  /\ Len(header) < LOG_SIZE /\ Len(header) < LogLen - 1
                      /\ outstanding >= 1 /\ ~committing
    BY DEF AssertionsHold
  <2>1. p \in Open /\ Cardinality(Open) <= outstanding /\ outstanding \in Nat
    BY DEF Open, IInv, Control, Types
  <2>2. Cardinality(Open) \in Nat /\ Cardinality(Open) # 0
    BY <2>1, OpenFinite, SizeSteps
  <2>3. outstanding >= 1
    BY <2>1, <2>2, SMT
  <2>4. ~committing
    BY <2>1, <2>3, SMT DEF IInv, Control
  <2>5. Len(header) + Cardinality(Slack) + 2 <= LOG_SIZE
    BY <2>1 DEF IInv, Budget
  <2>6. Cardinality(Slack) \in Nat /\ Len(header) \in Nat
    BY SlackFinite, SizeSteps, SMT DEF IInv, Types
  <2>7. Len(header) < LOG_SIZE /\ Len(header) < LogLen - 1
    BY <2>5, <2>6, LogAssumption, SMT
  <2> QED
    BY <2>3, <2>4, <2>7
<1> QED
  BY LogInvariant, <1>1, PTL

\* The log pins the buffers of the blocks that wait to be installed, each once.
THEOREM LogPins == Spec => []PinsMatchLog
<1>1. IInv => PinsMatchLog
  <2> SUFFICES ASSUME IInv, mode = "up", NEW b \in Blocks
               PROVE  /\ pins[b] = IF Pending(b) THEN 1 ELSE 0
                      /\ cache[b] # Absent <=> pins[b] > 0
    BY DEF PinsMatchLog, Pending
  <2>1. /\ pins[b] = IF Pending(b) THEN 1 ELSE 0
        /\ cache[b] # Absent <=> Pending(b)
    BY DEF IInv, Contents, Pinned
  <2> QED
    BY <2>1, SMT
<1> QED
  BY LogInvariant, <1>1, PTL
-----------------------------------------------------------------------------
(***************************************************************************)
(* The refinement of AtomicDisk.  Recovery, the writes of the log blocks,  *)
(* of the home blocks and of the empty header are invisible; writing the   *)
(* header is the commit.                                                   *)
(***************************************************************************)
\* What a recovery would leave on the disk: the log as far as its header lists it,
\* the home blocks elsewhere.
LEMMA DurableValue ==
    IInv => /\ Durable \in [Blocks -> Data]
            /\ \A b \in Blocks, i \in DOMAIN head : head[i] = b => Durable[b] = logDisk[i]
            /\ \A b \in Blocks : (\A i \in DOMAIN head : head[i] # b) => Durable[b] = disk[b]
<1> SUFFICES ASSUME IInv
             PROVE  /\ Durable \in [Blocks -> Data]
                    /\ \A b \in Blocks, i \in DOMAIN head : head[i] = b => Durable[b] = logDisk[i]
                    /\ \A b \in Blocks : (\A i \in DOMAIN head : head[i] # b) => Durable[b] = disk[b]
  OBVIOUS
<1>0. Complete
  BY DEF IInv, Contents
<1>1. ASSUME NEW b \in Blocks, NEW i \in DOMAIN head, head[i] = b
      PROVE  Durable[b] = logDisk[i]
  <2>1. (CHOOSE j \in DOMAIN head : head[j] = b) = i
    BY <1>0, <1>1 DEF Complete, OneToOne
  <2> QED
    BY <1>1, <2>1 DEF Durable
<1>2. ASSUME NEW b \in Blocks, \A i \in DOMAIN head : head[i] # b
      PROVE  Durable[b] = disk[b]
  BY <1>2 DEF Durable
<1>3. \A b \in Blocks : Durable[b] \in Data
  BY <1>0, <1>1, <1>2 DEF Complete
<1>4. Durable \in [Blocks -> Data]
  <2>1. Durable = [b \in Blocks |-> Durable[b]]
    BY DEF Durable
  <2> QED
    BY <1>3, <2>1
<1> QED
  BY <1>1, <1>2, <1>4

\* What the file system reads: the cache where a block waits to be installed, its
\* home elsewhere; before the system is up, what recovery will leave.
LEMMA CurrentValue ==
    /\ mode # "up" => Current = Durable
    /\ mode = "up" => Current = [b \in Blocks |-> Cached(b)]
    /\ \A b \in Blocks : Cached(b) = IF cache[b] = Absent THEN disk[b] ELSE cache[b]
  BY DEF Current, Cached

\* Every step keeps the invariant.
LEMMA InvStep ==
    ASSUME IInv, [Next]_vars
    PROVE  IInv'
  BY TypesStep, ControlStep, BudgetStep, ContentsStep DEF IInv

\* A recovery goes on with the same durable disk, and offers it in the end.
LEMMA RecoveryInvisible ==
    ASSUME IInv, ReadHead \/ RecoverInstall \/ RecoverClear
    PROVE  Durable' = Durable /\ Current' = Current /\ outstanding' = outstanding
<1>0. IInv' /\ Complete /\ Pinned /\ Progress
  BY InvStep DEF Next, Recover, IInv, Contents
<1>1. (IInv => /\ Durable \in [Blocks -> Data]
               /\ \A b \in Blocks, i \in DOMAIN head : head[i] = b => Durable[b] = logDisk[i]
               /\ \A b \in Blocks : (\A i \in DOMAIN head : head[i] # b) => Durable[b] = disk[b])'
  BY DurableValue, PTL
<1>2. (/\ mode # "up" => Current = Durable
       /\ mode = "up" => Current = [b \in Blocks |-> Cached(b)]
       /\ \A b \in Blocks : Cached(b) = IF cache[b] = Absent THEN disk[b] ELSE cache[b])'
  BY CurrentValue, PTL
<1>a. outstanding' = outstanding /\ mode # "up" /\ Current = Durable
  BY CurrentValue DEF ReadHead, RecoverInstall, RecoverClear
<1>3. CASE ReadHead
  <2>1. Durable' = Durable /\ mode' # "up"
    BY <1>3 DEF ReadHead, stable, Durable
  <2> QED
    BY <1>2, <1>a, <2>1
<1>4. CASE RecoverInstall
  <2>1. /\ header = head /\ tail \in DOMAIN head /\ header[tail] \in Blocks
        /\ disk' = [disk EXCEPT ![header[tail]] = logDisk[tail]]
        /\ mode' # "up" /\ UNCHANGED <<logDisk, head>>
    BY <1>4, RecoverFacts DEF RecoverInstall
  <2>2. ASSUME NEW b \in Blocks PROVE Durable'[b] = Durable[b]
    <3>1. CASE \E i \in DOMAIN head : head[i] = b
      BY <1>0, <1>1, <2>1, <3>1, DurableValue, SMT
    <3>2. CASE \A i \in DOMAIN head : head[i] # b
      <4>1. disk'[b] = disk[b]
        BY <2>1, <3>2 DEF IInv, Types
      <4> QED
        BY <1>0, <1>1, <2>1, <3>2, <4>1, DurableValue
    <3> QED
      BY <3>1, <3>2
  <2>3. Durable' = Durable
    BY <1>0, <1>1, <2>2, DurableValue, SMT
  <2> QED
    BY <1>2, <1>a, <2>1, <2>3
<1>5. CASE RecoverClear
  <2>1. /\ header = head /\ tail > Len(header) /\ mode = "recover" /\ mode' = "up"
        /\ DOMAIN head = 1 .. Len(head) /\ Len(head) \in Nat
        /\ head' = <<>> /\ UNCHANGED <<disk, logDisk, cache>>
    BY <1>5, RecoverFacts DEF RecoverClear, Installed
  <2>2. ASSUME NEW b \in Blocks PROVE Durable[b] = disk[b]
    <3>1. CASE \E i \in DOMAIN head : head[i] = b
      <4> PICK i \in DOMAIN head : head[i] = b
        BY <3>1
      <4>1. disk[b] = logDisk[i]
        BY <1>0, <2>1, SMT DEF Progress, IInv, Types
      <4> QED
        BY <4>1, DurableValue
    <3>2. CASE \A i \in DOMAIN head : head[i] # b
      BY <3>2, DurableValue
    <3> QED
      BY <3>1, <3>2
  <2>3. \A b \in Blocks : Durable'[b] = disk[b]
    BY <1>0, <1>1, <2>1, SMT
  <2>4. Durable' = Durable
    BY <1>0, <1>1, <2>2, <2>3, DurableValue, SMT
  <2>5. \A b \in Blocks : Cached(b)' = disk[b]
    BY <1>0, <1>2, <2>1 DEF Pinned
  <2>6. Current' = Durable
    <3>1. Current' = [b \in Blocks |-> Cached(b)']
      BY <1>2, <2>1
    <3> QED
      BY <2>2, <2>5, <3>1, DurableValue
  <2> QED
    BY <1>a, <2>4, <2>6
<1> QED
  BY <1>3, <1>4, <1>5

\* Writing log blocks, home blocks and the empty header changes nothing that
\* the file system or a recovery would see.
LEMMA CommitInvisible ==
    ASSUME IInv, NEW p \in Procs, WriteLog(p) \/ Install(p) \/ ClearHead(p)
    PROVE  Durable' = Durable /\ Current' = Current /\ outstanding' = outstanding
<1>0. IInv' /\ Complete /\ Pinned /\ Progress
  BY InvStep DEF Next, Step, Commit, IInv, Contents
<1>1. (IInv => /\ Durable \in [Blocks -> Data]
               /\ \A b \in Blocks, i \in DOMAIN head : head[i] = b => Durable[b] = logDisk[i]
               /\ \A b \in Blocks : (\A i \in DOMAIN head : head[i] # b) => Durable[b] = disk[b])'
  BY DurableValue, PTL
<1>2. (/\ mode # "up" => Current = Durable
       /\ mode = "up" => Current = [b \in Blocks |-> Cached(b)]
       /\ \A b \in Blocks : Cached(b) = IF cache[b] = Absent THEN disk[b] ELSE cache[b])'
  BY CurrentValue, PTL
<1>a. /\ outstanding' = outstanding /\ mode = "up" /\ mode' = "up"
      /\ disk \in [Blocks -> Data \cup {Torn}]
      /\ cache \in [Blocks -> Data \cup {Absent}]
  BY DEF WriteLog, Install, ClearHead, IInv, Control, Types
<1>b. ASSUME \A b \in Blocks : Cached(b)' = Cached(b)
      PROVE  Current' = Current
  BY <1>2, <1>a, <1>b, CurrentValue
<1>3. CASE WriteLog(p)
  <2>1. head = <<>> /\ UNCHANGED <<disk, head, cache>>
    BY <1>3, WriteLogFacts DEF WriteLog
  <2>2. ASSUME NEW b \in Blocks PROVE Durable'[b] = Durable[b]
    BY <1>0, <1>1, <2>1, DurableValue, SMT
  <2>3. Durable' = Durable
    BY <1>0, <1>1, <2>2, DurableValue, SMT
  <2>4. \A b \in Blocks : Cached(b)' = Cached(b)
    BY <2>1 DEF Cached
  <2> QED
    BY <1>a, <1>b, <2>3, <2>4
<1>4. CASE Install(p)
  <2> DEFINE h == header[tail]
  <2>1. /\ tail \in DOMAIN header /\ h \in Blocks /\ pins[h] = 1
        /\ cache[h] = logDisk[tail] /\ logDisk[tail] \in Data
        /\ Writing("install")
    BY <1>4, InstallFacts DEF Install
  <2>2. /\ disk' = [disk EXCEPT ![h] = logDisk[tail]]
        /\ cache' = [cache EXCEPT ![h] = Absent]
        /\ UNCHANGED <<logDisk, head>>
    BY <1>4, <2>1 DEF Install
  <2>3. head = header
    BY <1>0, <2>1 DEF Progress
  <2>4. ASSUME NEW b \in Blocks PROVE Durable'[b] = Durable[b]
    <3>1. CASE \E i \in DOMAIN head : head[i] = b
      BY <1>0, <1>1, <2>2, <3>1, DurableValue, SMT
    <3>2. CASE \A i \in DOMAIN head : head[i] # b
      <4>1. disk'[b] = disk[b]
        BY <1>a, <2>1, <2>2, <2>3, <3>2
      <4> QED
        BY <1>0, <1>1, <2>2, <3>2, <4>1, DurableValue
    <3> QED
      BY <3>1, <3>2
  <2>5. Durable' = Durable
    BY <1>0, <1>1, <2>4, DurableValue, SMT
  <2>6. ASSUME NEW b \in Blocks PROVE Cached(b)' = Cached(b)
    <3>1. CASE b = h
      <4>1. Cached(b) = logDisk[tail]
        BY <2>1, <3>1, LogAssumption, CurrentValue
      <4>2. cache'[b] = Absent /\ disk'[b] = logDisk[tail]
        BY <1>a, <2>1, <2>2, <3>1
      <4> QED
        BY <1>2, <4>1, <4>2
    <3>2. CASE b # h
      <4>1. cache'[b] = cache[b] /\ disk'[b] = disk[b]
        BY <1>a, <2>2, <3>2
      <4> QED
        BY <1>2, <4>1, CurrentValue
    <3> QED
      BY <3>1, <3>2
  <2> QED
    BY <1>a, <1>b, <2>5, <2>6
<1>5. CASE ClearHead(p)
  <2>1. head' = <<>> /\ UNCHANGED <<disk, cache>> /\ Writing("clear")
    BY <1>5 DEF ClearHead, Writing
  <2>2. /\ head = header /\ DOMAIN head = 1 .. Len(header)
        /\ \A i \in 1 .. Len(header) : disk[header[i]] = logDisk[i]
    BY <1>0, <2>1, SMT DEF Progress, IInv, Types
  <2>3. ASSUME NEW b \in Blocks PROVE Durable'[b] = Durable[b]
    <3>1. Durable[b] = disk[b]
      BY <2>2, DurableValue
    <3>2. Durable'[b] = disk[b]
      BY <1>0, <1>1, <2>1, SMT
    <3> QED
      BY <3>1, <3>2
  <2>4. Durable' = Durable
    BY <1>0, <1>1, <2>3, DurableValue, SMT
  <2>5. \A b \in Blocks : Cached(b)' = Cached(b)
    BY <2>1 DEF Cached
  <2> QED
    BY <1>a, <1>b, <2>4, <2>5
<1> QED
  BY <1>3, <1>4, <1>5

\* With its header written, the log makes durable what the file system sees.
LEMMA HeaderCommits ==
    ASSUME IInv, NEW p \in Procs, WriteHead(p)
    PROVE  Durable' = Current /\ Current' = Current /\ outstanding = 0 /\ outstanding' = 0
<1>0. IInv' /\ Complete /\ Pinned /\ Progress
  BY InvStep DEF Next, Step, Commit, IInv, Contents
<1>1. (IInv => /\ Durable \in [Blocks -> Data]
               /\ \A b \in Blocks, i \in DOMAIN head : head[i] = b => Durable[b] = logDisk[i]
               /\ \A b \in Blocks : (\A i \in DOMAIN head : head[i] # b) => Durable[b] = disk[b])'
  BY DurableValue, PTL
<1>2. /\ Commits(p) /\ pc' = [pc EXCEPT ![p] = "install"] /\ pc[p] = "head"
      /\ head' = header /\ UNCHANGED <<disk, logDisk, cache, outstanding, mode>>
  BY DEF WriteHead, Commits
<1>3. /\ \A t \in Phases : (Writing(t)' <=> "install" = t) /\ (Writing(t) <=> pc[p] = t)
      /\ mode = "up"
  BY <1>2, WritingStep
<1>4. Writing("head") /\ ~Writing("install") /\ ~Writing("clear")
  BY <1>2, <1>3 DEF Phases
<1>5. /\ DOMAIN header = 1 .. Len(header)
      /\ \A i \in 1 .. Len(header) : logDisk[i] = cache[header[i]]
  BY <1>0, <1>4, SMT DEF Progress, IInv, Types
<1>6. Current = [b \in Blocks |-> Cached(b)]
  BY <1>3, CurrentValue
<1>7. ASSUME NEW b \in Blocks PROVE Durable'[b] = Cached(b)
  <2>1. CASE \E i \in DOMAIN header : header[i] = b
    <3> PICK i \in DOMAIN header : header[i] = b
      BY <2>1
    <3>1. Pending(b)
      BY <1>4 DEF Pending
    <3>2. Cached(b) = cache[b]
      BY <1>0, <1>3, <3>1, CurrentValue DEF Pinned
    <3>3. Durable'[b] = logDisk[i]
      BY <1>0, <1>1, <1>2
    <3> QED
      BY <1>5, <3>2, <3>3
  <2>2. CASE \A i \in DOMAIN header : header[i] # b
    <3>1. ~Pending(b)
      BY <2>2 DEF Pending
    <3>2. Cached(b) = disk[b]
      BY <1>0, <1>3, <3>1, CurrentValue DEF Pinned
    <3>3. Durable'[b] = disk[b]
      BY <1>0, <1>1, <1>2, <2>2
    <3> QED
      BY <3>2, <3>3
  <2> QED
    BY <2>1, <2>2
<1>8. Durable' = Current
  BY <1>0, <1>1, <1>6, <1>7
<1>9. Current' = Current
  BY <1>2, <1>3 DEF Current, Cached
<1>10. outstanding = 0
  BY <1>2 DEF IInv, Control
<1> QED
  BY <1>2, <1>8, <1>9, <1>10

\* A crash leaves the durable disk as it was, a torn block included: the log
\* still has what a torn home block should be, and lists no torn log block.
LEMMA CrashFallsBack ==
    ASSUME IInv, Crash
    PROVE  Durable' = Durable /\ Current' = Durable /\ outstanding' = 0
<1>0. IInv' /\ Progress
  BY InvStep DEF Next, IInv, Contents
<1>1. (IInv => /\ Durable \in [Blocks -> Data]
               /\ \A b \in Blocks, i \in DOMAIN head : head[i] = b => Durable[b] = logDisk[i]
               /\ \A b \in Blocks : (\A i \in DOMAIN head : head[i] # b) => Durable[b] = disk[b])'
  BY DurableValue, PTL
<1>2. outstanding' = 0 /\ mode' = "boot" /\ head' = head
  BY DEF Crash
<1>3. Current' = Durable'
  BY <1>2 DEF Current
<1>4. Durable' = Durable
  <2>1. CASE UNCHANGED <<disk, logDisk>>
    BY <1>2, <2>1 DEF Durable
  <2>2. CASE Writing("log") /\ UNCHANGED disk
    <3>1. head = <<>>
      BY <2>2, WriteLogFacts DEF Writing
    <3>2. \A b \in Blocks : Durable'[b] = Durable[b]
      BY <1>0, <1>1, <1>2, <2>2, <3>1, DurableValue, SMT
    <3> QED
      BY <1>0, <1>1, <3>2, DurableValue, SMT
  <2>3. CASE /\ Writing("install") \/ (mode = "recover" /\ ~Installed)
             /\ disk' = [disk EXCEPT ![header[tail]] = Torn]
             /\ UNCHANGED logDisk
    <3>1. tail \in DOMAIN head /\ header = head /\ header[tail] \in Blocks
      <4>1. CASE Writing("install")
        <5>1. header = head
          BY <1>0, <4>1 DEF Progress
        <5>2. tail \in DOMAIN header /\ header[tail] \in Blocks
          BY <4>1, InstallFacts DEF Writing
        <5> QED
          BY <5>1, <5>2
      <4>2. CASE mode = "recover" /\ ~Installed
        BY <4>2, RecoverFacts
      <4> QED
        BY <2>3, <4>1, <4>2
    <3>2. ASSUME NEW b \in Blocks PROVE Durable'[b] = Durable[b]
      <4>1. CASE \E i \in DOMAIN head : head[i] = b
        BY <1>0, <1>1, <1>2, <2>3, <4>1, DurableValue, SMT
      <4>2. CASE \A i \in DOMAIN head : head[i] # b
        <5>1. disk'[b] = disk[b]
          BY <2>3, <3>1, <4>2 DEF IInv, Types
        <5> QED
          BY <1>0, <1>1, <1>2, <4>2, <5>1, DurableValue
      <4> QED
        BY <4>1, <4>2
    <3> QED
      BY <1>0, <1>1, <3>2, DurableValue, SMT
  <2> QED
    BY <2>1, <2>2, <2>3 DEF Crash
<1> QED
  BY <1>2, <1>3, <1>4

\* A step that neither writes the disk nor the cache.
LEMMA ImagesKept ==
    ASSUME UNCHANGED <<disk, logDisk, head, cache, mode>>
    PROVE  Durable' = Durable /\ Current' = Current
  BY DEF Durable, Current, Cached

\* An update changes one block of what the file system sees.
LEMMA UpdateWrites ==
    ASSUME IInv, NEW p \in Procs, NEW b \in Blocks, NEW d \in Data, Update(p, b, d)
    PROVE  /\ Durable' = Durable /\ Current' = [Current EXCEPT ![b] = d]
           /\ outstanding > 0 /\ outstanding' = outstanding
<1>1. /\ cache' = [cache EXCEPT ![b] = d] /\ cache \in [Blocks -> Data \cup {Absent}]
      /\ UNCHANGED <<disk, logDisk, head, mode, outstanding>> /\ mode = "up" /\ pc[p] = "op"
  BY DEF Update, stable, IInv, Types, Control
<1>2. Durable' = Durable
  BY <1>1 DEF Durable
<1>3. Current = [c \in Blocks |-> Cached(c)] /\ Current' = [c \in Blocks |-> Cached(c)']
  BY <1>1 DEF Current
<1>4. ASSUME NEW c \in Blocks PROVE Cached(c)' = IF c = b THEN d ELSE Cached(c)
  BY <1>1, <1>4, LogAssumption DEF Cached
<1>5. Current' = [Current EXCEPT ![b] = d]
  BY <1>3, <1>4
<1>6. outstanding > 0
  <2>1. p \in Open /\ Cardinality(Open) <= outstanding /\ outstanding \in Nat
    BY <1>1 DEF Open, IInv, Control, Types
  <2>2. Cardinality(Open) \in Nat /\ Cardinality(Open) # 0
    BY <2>1, OpenFinite, SizeSteps
  <2> QED
    BY <2>1, <2>2, SMT
<1> QED
  BY <1>1, <1>2, <1>5, <1>6

\* The log implements AtomicDisk: what a crash at any moment leaves after recovery
\* is the disk as of the last time that no operation was open, complete.
THEOREM LogAtomic == Spec => ImplementsAtomicDisk
<1>1. Init => Atomic!Init
  <2> SUFFICES ASSUME Init PROVE Atomic!Init
    OBVIOUS
  <2>1. Durable \in [Blocks -> Data] /\ Current = Durable
    BY InitInv, DurableValue, CurrentValue DEF Init
  <2> QED
    BY <2>1 DEF Init, Atomic!Init, Atomic!Image
<1>2. IInv /\ [Next]_vars => [Atomic!Next]_<<Durable, Current, outstanding>>
  <2> SUFFICES ASSUME IInv, [Next]_vars
               PROVE  Atomic!Next \/ UNCHANGED <<Durable, Current, outstanding>>
    OBVIOUS
  <2>1. CASE ReadHead \/ RecoverInstall \/ RecoverClear
    BY <2>1, RecoveryInvisible
  <2>2. CASE Crash
    BY <2>2, CrashFallsBack DEF Atomic!Next, Atomic!Crash
  <2>3. ASSUME NEW p \in Procs, Call(p) \/ BeginOpSleeps(p) \/ ForgetEndOp(p) \/ Done(p)
        PROVE  UNCHANGED <<Durable, Current, outstanding>>
    <3>1. UNCHANGED <<disk, logDisk, head, cache, mode, outstanding>>
      BY <2>3 DEF Call, BeginOpSleeps, ForgetEndOp, Done, stable, memory
    <3> QED
      BY <3>1, ImagesKept
  <2>4. ASSUME NEW p \in Procs, BeginOp(p)
        PROVE  Atomic!Begin
    <3>1. UNCHANGED <<disk, logDisk, head, cache, mode>> /\ outstanding' = outstanding + 1
      BY <2>4 DEF BeginOp, stable
    <3> QED
      BY <3>1, ImagesKept DEF Atomic!Begin
  <2>5. ASSUME NEW p \in Procs, EndOp(p)
        PROVE  Atomic!End
    <3>1. UNCHANGED <<disk, logDisk, head, cache, mode>> /\ outstanding' = outstanding - 1
      BY <2>5 DEF EndOp, stable
    <3>2. p \in Open /\ Cardinality(Open) <= outstanding /\ outstanding \in Nat
      BY <2>5 DEF EndOp, Open, IInv, Control, Types
    <3>3. Cardinality(Open) \in Nat /\ Cardinality(Open) # 0
      BY <3>2, OpenFinite, SizeSteps
    <3>4. outstanding > 0
      BY <3>2, <3>3, SMT
    <3> QED
      BY <3>1, <3>4, ImagesKept DEF Atomic!End
  <2>6. ASSUME NEW p \in Procs, WriteLog(p) \/ Install(p) \/ ClearHead(p)
        PROVE  UNCHANGED <<Durable, Current, outstanding>>
    BY <2>6, CommitInvisible
  <2>7. ASSUME NEW p \in Procs, WriteHead(p)
        PROVE  Atomic!Commit
    BY <2>7, HeaderCommits DEF Atomic!Commit
  <2>8. ASSUME NEW p \in Procs, NEW b \in Blocks, NEW d \in Data, Update(p, b, d)
        PROVE  Atomic!Write
    BY <2>8, UpdateWrites DEF Atomic!Write
  <2>9. CASE UNCHANGED vars
    <3>1. UNCHANGED <<disk, logDisk, head, cache, mode, outstanding>>
      BY <2>9 DEF vars, stable, memory
    <3> QED
      BY <3>1, ImagesKept
  <2> QED
    BY <2>1, <2>2, <2>3, <2>4, <2>5, <2>6, <2>7, <2>8, <2>9, NextCases DEF Atomic!Next
<1> QED
  BY <1>1, <1>2, LogInvariant, PTL DEF Spec, ImplementsAtomicDisk, Atomic!Spec
=============================================================================
