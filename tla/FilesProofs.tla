---------------------------- MODULE FilesProofs ----------------------------
(***************************************************************************)
(* Proofs about Files, for every finite set of processes, every file table *)
(* and every set of inodes and names: the inductive invariant, that a step *)
(* keeps the types, the places of the calls, the locks, the operations of  *)
(* the log, the counts of files and those of inodes, and the theorems that *)
(* follow.                                                                 *)
(***************************************************************************)
EXTENDS Files, FiniteSetTheorems, TLAPS

\* Zenon proves most leaves; those that reason about numbers, sequences or
\* functions cite SMT.
USE ZenonT(30)

-----------------------------------------------------------------------------
(***************************************************************************)
(* The inductive invariant, and the places of the calls.                   *)
(***************************************************************************)
\* The calls that walk to a name.
Walking == {"open", "exec"} \cup Creates

\* Where a process is goes with what it is doing, with the inode it does it to,
\* and with room for a descriptor while it opens a file.
ShapeAt(at, v, s) ==
    /\ at \in {"walk", "parent", "lookup"} => v.op \in Walking /\ v.name \in Names /\ v.ip = Root
    /\ at = "lock" => v.op \in {"open", "exec"} /\ v.ip \in Inodes
    /\ at = "file" => v.op \in {"open", "create"} /\ v.ip \in Inodes
    /\ at = "drop" => v.op \in Walking \cup {"forget"} /\ v.ip \in Inodes
    /\ at = "io" => v.op \in {"read", "write"} /\ v.ip \in Inodes
    /\ at = "put" => v.op \in {"close", "exit"} /\ v.ip \in Inodes
    /\ at = "asleep" => v.op \in Walking \cup {"read", "write"} /\ v.ip \in Inodes
    /\ at \in {"none", "user", "exit", "gone"} => v = Idle
    /\ v.op \in Walking => Len(s) < MaxFds
    /\ Len(s) <= MaxFds
    /\ at = "none" => s = << >>

Shape == \A p \in Procs : ShapeAt(pc[p], local[p], fds[p])

\* Who has locked an inode is where it will unlock it.
Locks ==
    \A p \in Procs, i \in Inodes :
       owner[i] = p => \/ pc[p] = "lookup" /\ i = Root
                       \/ pc[p] \in {"file", "drop", "io"} /\ i = local[p].ip

\* A free inode is neither the root nor used by anybody.
Unused ==
    \A i \in Inodes :
       disk[i] = "free" => /\ i # Root /\ owner[i] = Nil /\ type[i] = "none"
                           /\ \A n \in Names : entries[n] # i
                           /\ \A f \in FileIds : files[f].ip # i
                           /\ \A p \in Procs : local[p].ip # i

\* The inductive invariant.
IInv ==
    /\ TypeOK
    /\ Shape
    /\ Locks
    /\ Unused
    /\ OperationsCounted
    /\ FileRefsExact
    /\ InodeRefsExact
-----------------------------------------------------------------------------
(***************************************************************************)
(* The type of the state.                                                  *)
(***************************************************************************)
\* Who is an inode, and who is not.
LEMMA InodeFacts ==
    /\ Root \in Inodes /\ Others \subseteq Inodes /\ Nil \notin Inodes /\ Nil \notin Procs
    /\ 0 \notin FileIds
  BY FilesAssumption, SMT DEF Inodes, FileIds

\* What a process is doing.
LEMMA LocalTypes ==
    /\ \A o \in Ops, n \in Names \cup {Nil}, i \in Inodes \cup {Nil} :
          [op |-> o, name |-> n, ip |-> i] \in Locals
    /\ \A v \in Locals, o \in Ops : [v EXCEPT !.op = o] \in Locals
    /\ \A v \in Locals, i \in Inodes : [v EXCEPT !.name = Nil, !.ip = i] \in Locals
    /\ \A v \in Locals : v.op \in Ops /\ v.name \in Names \cup {Nil} /\ v.ip \in Inodes \cup {Nil}
    /\ Idle \in Locals
  <1>1. Idle \in Locals
    BY DEF Locals, Idle, Ops
  <1>2. QED
    BY <1>1 DEF Locals

\* Moving on, and returning to user mode.
LEMMA GoTypes ==
    ASSUME TypeOK, NEW p \in Procs, NEW at \in PCs, Go(p, at)
    PROVE  pc' \in [Procs -> PCs]
  BY DEF TypeOK, Go

\* A call that returns leaves its process in user mode.
LEMMA ReturnTypes ==
    ASSUME TypeOK, NEW p \in Procs, Return(p)
    PROVE  pc' \in [Procs -> PCs] /\ local' \in [Procs -> Locals]
  <1>1. pc' \in [Procs -> PCs]
    BY GoTypes DEF Return, PCs
  <1>2. local' \in [Procs -> Locals]
    BY LocalTypes DEF TypeOK, Return
  <1>3. QED
    BY <1>1, <1>2

\* Counts and mutexes of inodes.
LEMMA CountTypes ==
    ASSUME NEW r \in [Inodes -> Int], NEW i \in Inodes
    PROVE  Got(r, i) \in [Inodes -> Int] /\ Put(r, i) \in [Inodes -> Int]
  BY SMT DEF Got, Put

\* Locking and unlocking an inode, and unlocking the root on the way.
LEMMA OwnerTypes ==
    ASSUME TypeOK, NEW i \in Inodes, NEW p \in Procs \cup {Nil}
    PROVE  /\ RootDone(owner) \in [Inodes -> Procs \cup {Nil}]
           /\ [owner EXCEPT ![i] = p] \in [Inodes -> Procs \cup {Nil}]
           /\ [RootDone(owner) EXCEPT ![i] = p] \in [Inodes -> Procs \cup {Nil}]
  BY DEF TypeOK, RootDone

\* The counts of operations.
LEMMA OperationTypes ==
    ASSUME TypeOK
    PROVE  /\ BeginOp \/ UNCHANGED operations => outstanding' \in Int /\ forgotten' \in Int
           /\ \A o : EndOp(o) => outstanding' \in Int /\ forgotten' \in Int
  BY SMT DEF TypeOK, BeginOp, EndOp, Ended, operations

\* Locking an inode, or sleeping on it.
LEMMA LockTypes ==
    ASSUME TypeOK, NEW p \in Procs, NEW i \in Inodes, NEW at \in PCs, LockInode(p, i, at)
    PROVE  /\ owner' \in [Inodes -> Procs \cup {Nil}]
           /\ type' \in [Inodes -> Kinds \cup {"dir", "free", "none"}]
           /\ pc' \in [Procs -> PCs]
  <1>1. CASE owner[i] # Nil
    <2>1. Go(p, "asleep") /\ "asleep" \in PCs
      BY <1>1 DEF LockInode, PCs
    <2>2. QED
      BY <1>1, <2>1, GoTypes DEF LockInode, TypeOK
  <1>2. CASE owner[i] = Nil
    <2>1. pc' \in [Procs -> PCs]
      BY <1>2, GoTypes DEF LockInode
    <2>2. owner' \in [Inodes -> Procs \cup {Nil}]
      BY <1>2, OwnerTypes, SMT DEF LockInode
    <2>3. Read(i) \in Kinds \cup {"dir", "free", "none"}
      BY DEF TypeOK, Read
    <2>4. QED
      BY <1>2, <2>1, <2>2, <2>3 DEF LockInode, TypeOK
  <1>3. QED
    BY <1>1, <1>2

\* The descriptors of a process that refer to a file.
Uses(s, f) == {k \in DOMAIN s : s[k] = f}

\* There are finitely many.
LEMMA UsesFinite ==
    ASSUME NEW s \in Seq(0 .. NUM_FILES), NEW f
    PROVE  IsFiniteSet(Uses(s, f)) /\ Cardinality(Uses(s, f)) \in Nat
  <1>1. DOMAIN s = 1 .. Len(s) /\ Len(s) \in Nat
    BY SMT
  <1>2. IsFiniteSet(DOMAIN s)
    BY <1>1, FS_Interval, SMT
  <1>3. Uses(s, f) \subseteq DOMAIN s
    BY DEF Uses
  <1>4. IsFiniteSet(Uses(s, f))
    BY <1>2, <1>3, FS_Subset
  <1>5. QED
    BY <1>4, FS_CardinalityType

\* The files after a fork have the types they had, and more references.
LEMMA DuppedFiles ==
    ASSUME TypeOK, NEW s \in Seq(0 .. NUM_FILES)
    PROVE  /\ Dupped(s) \in [FileIds -> [ref : Int, ip : Inodes \cup {Nil}]]
           /\ \A f \in FileIds : /\ Dupped(s)[f].ref = files[f].ref + Cardinality(Uses(s, f))
                                  /\ Dupped(s)[f].ip = files[f].ip
  <1>1. Dupped(s) = [f \in FileIds |-> [files[f] EXCEPT !.ref = @ + Cardinality(Uses(s, f))]]
    BY DEF Dupped, Uses
  <1>2. ASSUME NEW f \in FileIds
        PROVE  /\ [files[f] EXCEPT !.ref = @ + Cardinality(Uses(s, f))] \in
                     [ref : Int, ip : Inodes \cup {Nil}]
               /\ Dupped(s)[f].ref = files[f].ref + Cardinality(Uses(s, f))
               /\ Dupped(s)[f].ip = files[f].ip
    <2>1. Cardinality(Uses(s, f)) \in Nat
      BY UsesFinite
    <2>2. files[f] \in [ref : Int, ip : Inodes \cup {Nil}]
      BY DEF TypeOK
    <2>3. QED
      BY <1>1, <2>1, <2>2, SMT
  <1>3. QED
    BY <1>1, <1>2, SMT

\* The descriptors of a file are finitely many, and a file that has one is in use.
LEMMA DescriptorsFinite ==
    ASSUME NEW f PROVE IsFiniteSet(Descriptors(f)) /\ Cardinality(Descriptors(f)) \in Nat
  <1>1. IsFiniteSet(1 .. MaxFds)
    BY FilesAssumption, FS_Interval, SMT
  <1>2. IsFiniteSet(Procs \X (1 .. MaxFds))
    BY <1>1, FilesAssumption, FS_Product
  <1>3. Descriptors(f) \subseteq Procs \X (1 .. MaxFds)
    BY DEF Descriptors
  <1>4. IsFiniteSet(Descriptors(f))
    BY <1>2, <1>3, FS_Subset
  <1>5. QED
    BY <1>4, FS_CardinalityType

\* A descriptor that is not empty refers to a file that has a reference and an inode.
LEMMA DescriptorFile ==
    ASSUME IInv, NEW p \in Procs, NEW k \in DOMAIN fds[p], fds[p][k] # 0
    PROVE  /\ k \in 1 .. MaxFds /\ fds[p][k] \in FileIds
           /\ <<p, k>> \in Descriptors(fds[p][k])
           /\ files[fds[p][k]].ref >= 1 /\ files[fds[p][k]].ip \in Inodes
  <1> DEFINE f == fds[p][k]
  <1>1. fds[p] \in Seq(0 .. NUM_FILES) /\ Len(fds[p]) <= MaxFds
    BY DEF IInv, TypeOK, Shape, ShapeAt
  <1>2. k \in 1 .. MaxFds /\ f \in FileIds
    BY <1>1, FilesAssumption, SMT DEF FileIds
  <1>3. <<p, k>> \in Descriptors(f)
    BY <1>2 DEF Descriptors
  <1>4. Cardinality(Descriptors(f)) \in Nat /\ Cardinality(Descriptors(f)) # 0
    BY <1>3, DescriptorsFinite, FS_EmptySet
  <1>5. files[f].ref = Cardinality(Descriptors(f)) /\ files[f].ip # Nil
    BY <1>2, <1>4 DEF IInv, FileRefsExact
  <1>6. files[f].ip \in Inodes \cup {Nil}
    BY <1>2 DEF IInv, TypeOK
  <1>7. QED
    BY <1>2, <1>3, <1>4, <1>5, <1>6, SMT

\* File::close takes a reference, and the inode with the last one.
LEMMA ClosedFiles ==
    ASSUME TypeOK, NEW f \in FileIds
    PROVE  /\ Closed(f) \in [FileIds -> [ref : Int, ip : Inodes \cup {Nil}]]
           /\ \A g \in FileIds : g # f => Closed(f)[g] = files[g]
           /\ files[f].ref > 1 => /\ Closed(f)[f].ref = files[f].ref - 1
                                 /\ Closed(f)[f].ip = files[f].ip
           /\ ~(files[f].ref > 1) => Closed(f)[f].ref = 0 /\ Closed(f)[f].ip = Nil
  <1>1. files \in [FileIds -> [ref : Int, ip : Inodes \cup {Nil}]]
    BY DEF TypeOK
  <1>2. CASE files[f].ref > 1
    <2>1. Closed(f) = [files EXCEPT ![f] = [files[f] EXCEPT !.ref = files[f].ref - 1]]
      BY <1>2 DEF Closed
    <2>2. [files[f] EXCEPT !.ref = files[f].ref - 1] \in [ref : Int, ip : Inodes \cup {Nil}]
      BY <1>1, SMT
    <2>3. QED
      BY <1>1, <1>2, <2>1, <2>2
  <1>3. CASE ~(files[f].ref > 1)
    BY <1>1, <1>3, SMT DEF Closed
  <1>4. QED
    BY <1>2, <1>3

\* File::close.
LEMMA CloseTypes ==
    ASSUME IInv, NEW p \in Procs, NEW k \in DOMAIN fds[p], NEW op \in {"close", "exit"}, Close(p, k, op)
    PROVE  TypeOK'
  <1> DEFINE f == fds[p][k]
  <1>0. TypeOK
    BY DEF IInv
  <1>1. f \in FileIds /\ files[f].ip \in Inodes
    BY DescriptorFile DEF Close
  <1>2. fds' \in [Procs -> Seq(0 .. NUM_FILES)]
    <2>1. fds[p] \in Seq(0 .. NUM_FILES) /\ 0 \in 0 .. NUM_FILES
      BY <1>0, FilesAssumption, SMT DEF TypeOK
    <2>2. [fds[p] EXCEPT ![k] = 0] \in Seq(0 .. NUM_FILES)
      BY <2>1, SMT
    <2>3. QED
      BY <1>0, <2>2 DEF TypeOK, Close
  <1>3. files' \in [FileIds -> [ref : Int, ip : Inodes \cup {Nil}]]
    BY <1>0, <1>1, ClosedFiles DEF Close
  <1>4. pc' \in [Procs -> PCs]
    BY <1>0 DEF TypeOK, Close, Go, PCs
  <1>5. local' \in [Procs -> Locals]
    <2>1. op \in Ops
      BY DEF Ops
    <2>2. [op |-> op, name |-> Nil, ip |-> files[f].ip] \in Locals
      BY <1>1, <2>1, LocalTypes
    <2>3. QED
      BY <1>0, <2>2 DEF TypeOK, Close
  <1>6. QED
    BY <1>0, <1>2, <1>3, <1>4, <1>5 DEF TypeOK, Close, operations

\* Every step keeps the types.
LEMMA TypesStep == ASSUME IInv, NEW p \in Procs, Step(p) PROVE TypeOK'
  <1>0. TypeOK /\ Shape
    BY DEF IInv
  <1>a. local[p] \in Locals
    BY <1>0 DEF TypeOK
  <1>b. Root \in Inodes
    BY InodeFacts
  <1>1. CASE OpenCall(p)
    <2>1. PICK o \in Ops, n \in Names \cup {Nil} :
             local' = [local EXCEPT ![p] = [op |-> o, name |-> n, ip |-> Root]]
      BY <1>1 DEF OpenCall, Ops, Creates
    <2>2. local' \in [Procs -> Locals]
      <3>1. [op |-> o, name |-> n, ip |-> Root] \in Locals
        BY <1>b DEF Locals
      <3>2. QED
        BY <1>0, <2>1, <3>1 DEF TypeOK
    <2>3. pc' \in [Procs -> PCs]
      BY <1>0, <1>1, GoTypes DEF OpenCall, PCs
    <2>4. ref' \in [Inodes -> Int]
      BY <1>0, <1>1, <1>b, CountTypes DEF TypeOK, OpenCall
    <2>5. outstanding' \in Int /\ forgotten' \in Int
      BY <1>0, <1>1, OperationTypes DEF OpenCall
    <2>6. QED
      BY <1>0, <1>1, <2>2, <2>3, <2>4, <2>5 DEF TypeOK, OpenCall
  <1>2. CASE Walk(p)
    <2>1. /\ owner' \in [Inodes -> Procs \cup {Nil}]
          /\ type' \in [Inodes -> Kinds \cup {"dir", "free", "none"}]
          /\ pc' \in [Procs -> PCs]
      <3>1. CASE local[p].op \in Creates /\ owner[Root] = Nil
        <4>1. pc' \in [Procs -> PCs]
          BY <1>0, <1>2, <3>1, GoTypes DEF Walk, PCs
        <4>2. Read(Root) \in Kinds \cup {"dir", "free", "none"}
          BY <1>0, <1>b DEF TypeOK, Read
        <4>3. QED
          BY <1>0, <1>2, <3>1, <4>1, <4>2 DEF TypeOK, Walk
      <3>2. CASE ~(local[p].op \in Creates /\ owner[Root] = Nil)
        BY <1>0, <1>b, <1>2, <3>2, LockTypes DEF Walk, PCs
      <3>3. QED
        BY <3>1, <3>2
    <2>2. QED
      BY <1>0, <1>2, <2>1 DEF TypeOK, Walk, operations
  <1>3. CASE LockParent(p)
    <2>1. LockInode(p, Root, "lookup") /\ "lookup" \in PCs
      BY <1>3 DEF LockParent, PCs
    <2>2. QED
      BY <1>0, <1>b, <1>3, <2>1, LockTypes DEF TypeOK, LockParent, operations
  <1>4. CASE LookupFinds(p)
    <2> DEFINE i == DirLookup(local[p].name)
    <2>1. i \in Inodes
      BY <1>0, <1>4, InodeFacts DEF TypeOK, LookupFinds, DirLookup, Shape, ShapeAt
    <2>2. local' = [local EXCEPT ![p] = [local[p] EXCEPT !.name = Nil, !.ip = i]]
      BY <1>0, <1>4 DEF TypeOK, LookupFinds
    <2>3. local' \in [Procs -> Locals]
      BY <1>0, <1>a, <2>1, <2>2, LocalTypes DEF TypeOK
    <2>4. \E at \in PCs : Go(p, at)
      BY <1>4 DEF LookupFinds, PCs
    <2>5. pc' \in [Procs -> PCs]
      BY <1>0, <2>4, GoTypes
    <2>6. ref' \in [Inodes -> Int]
      BY <1>0, <1>b, <1>4, <2>1, CountTypes DEF TypeOK, LookupFinds
    <2>7. owner' \in [Inodes -> Procs \cup {Nil}]
      BY <1>0, <1>b, <1>4, OwnerTypes DEF LookupFinds
    <2>8. QED
      BY <1>0, <1>4, <2>1, <2>3, <2>5, <2>6, <2>7 DEF TypeOK, LookupFinds, operations
  <1>5. CASE LookupMisses(p)
    <2>1. pc' \in [Procs -> PCs] /\ local' \in [Procs -> Locals]
      BY <1>0, <1>5, ReturnTypes DEF LookupMisses
    <2>2. ref' \in [Inodes -> Int]
      BY <1>0, <1>b, <1>5, CountTypes DEF TypeOK, LookupMisses
    <2>3. owner' \in [Inodes -> Procs \cup {Nil}]
      BY <1>0, <1>b, <1>5, OwnerTypes DEF LookupMisses
    <2>4. outstanding' \in Int /\ forgotten' \in Int
      BY <1>0, <1>5, OperationTypes DEF LookupMisses
    <2>5. QED
      BY <1>0, <1>5, <2>1, <2>2, <2>3, <2>4 DEF TypeOK, LookupMisses
  <1>6. CASE CreateLinks(p)
    <2>1. PICK i \in FreeInodes, t \in Kinds :
             /\ disk' = Linked(i, t)
             /\ type' = [type EXCEPT ![i] = t]
             /\ entries' = DirLink(local[p].name, i)
             /\ ref' = Put(Got(ref, i), Root)
             /\ owner' = [RootDone(owner) EXCEPT ![i] = p]
             /\ local' = [local EXCEPT ![p].name = Nil, ![p].ip = i]
      BY <1>6 DEF CreateLinks, Kinds
    <2>2. i \in Others /\ i \in Inodes
      BY <2>1, InodeFacts DEF FreeInodes
    <2>3. local' = [local EXCEPT ![p] = [local[p] EXCEPT !.name = Nil, !.ip = i]]
      BY <1>0, <2>1 DEF TypeOK
    <2>4. local' \in [Procs -> Locals]
      BY <1>0, <1>a, <2>2, <2>3, LocalTypes DEF TypeOK
    <2>5. \E at \in PCs : Go(p, at)
      BY <1>6 DEF CreateLinks, PCs
    <2>6. pc' \in [Procs -> PCs]
      BY <1>0, <2>5, GoTypes
    <2>7. entries' \in [Names -> Others \cup {Nil}]
      BY <1>0, <2>1, <2>2 DEF TypeOK, DirLink
    <2>8. /\ disk' \in [Inodes -> Kinds \cup {"dir", "free"}]
          /\ type' \in [Inodes -> Kinds \cup {"dir", "free", "none"}]
      BY <1>0, <2>1, <2>2 DEF TypeOK, Linked
    <2>9. owner' \in [Inodes -> Procs \cup {Nil}]
      BY <1>0, <2>1, <2>2, OwnerTypes
    <2>10. ref' \in [Inodes -> Int]
      BY <1>0, <1>b, <2>1, <2>2, CountTypes DEF TypeOK
    <2>11. QED
      BY <1>0, <1>6, <2>4, <2>6, <2>7, <2>8, <2>9, <2>10 DEF TypeOK, CreateLinks, operations
  <1>7. CASE CreateFails(p)
    <2>1. disk' \in [Inodes -> Kinds \cup {"dir", "free"}]
      BY <1>0, <1>7 DEF TypeOK, CreateFails, Linked
    <2>2. pc' \in [Procs -> PCs] /\ local' \in [Procs -> Locals]
      BY <1>0, <1>7, ReturnTypes DEF CreateFails
    <2>3. ref' \in [Inodes -> Int]
      BY <1>0, <1>b, <1>7, CountTypes DEF TypeOK, CreateFails
    <2>4. owner' \in [Inodes -> Procs \cup {Nil}]
      BY <1>0, <1>b, <1>7, OwnerTypes DEF CreateFails
    <2>5. outstanding' \in Int /\ forgotten' \in Int
      BY <1>0, <1>7, OperationTypes DEF CreateFails
    <2>6. QED
      BY <1>0, <1>7, <2>1, <2>2, <2>3, <2>4, <2>5 DEF TypeOK, CreateFails
  <1>8. CASE LockFound(p)
    <2>1. \E at \in PCs : LockInode(p, local[p].ip, at)
      BY <1>8 DEF LockFound, PCs
    <2>2. local[p].ip \in Inodes
      BY <1>0, <1>8 DEF LockFound, Shape, ShapeAt
    <2>3. /\ owner' \in [Inodes -> Procs \cup {Nil}]
          /\ type' \in [Inodes -> Kinds \cup {"dir", "free", "none"}]
          /\ pc' \in [Procs -> PCs]
      BY <1>0, <2>1, <2>2, LockTypes
    <2>4. QED
      BY <1>0, <1>8, <2>3 DEF TypeOK, LockFound, operations
  <1>9. CASE AllocateFile(p)
    <2>1. PICK f \in FreeFiles :
             /\ files' = [files EXCEPT ![f] = [ref |-> 1, ip |-> local[p].ip]]
             /\ fds' = [fds EXCEPT ![p] = Append(@, f)]
      BY <1>9 DEF AllocateFile
    <2>2. f \in FileIds
      BY <2>1 DEF FreeFiles
    <2>3. f \in 0 .. NUM_FILES
      BY <2>2, FilesAssumption, SMT DEF FileIds
    <2>4. Append(fds[p], f) \in Seq(0 .. NUM_FILES)
      BY <1>0, <2>3, SMT DEF TypeOK
    <2>5. fds' \in [Procs -> Seq(0 .. NUM_FILES)]
      BY <1>0, <2>1, <2>4 DEF TypeOK
    <2>6. [ref |-> 1, ip |-> local[p].ip] \in [ref : Int, ip : Inodes \cup {Nil}]
      BY <1>a, SMT DEF Locals
    <2>7. files' \in [FileIds -> [ref : Int, ip : Inodes \cup {Nil}]]
      BY <1>0, <2>1, <2>2, <2>6 DEF TypeOK
    <2>8. local' = [local EXCEPT ![p] = [local[p] EXCEPT !.op = "write"]] /\ "write" \in Ops
      BY <1>0, <1>9 DEF TypeOK, AllocateFile, Ops
    <2>9. local' \in [Procs -> Locals]
      BY <1>0, <1>a, <2>8, LocalTypes DEF TypeOK
    <2>10. pc' \in [Procs -> PCs]
      BY <1>0, <1>9, GoTypes DEF AllocateFile, PCs
    <2>11. QED
      BY <1>0, <1>9, <2>5, <2>7, <2>9, <2>10 DEF TypeOK, AllocateFile, operations
  <1>10. CASE RefuseFile(p)
    <2> DEFINE o == IF type[local[p].ip] = "bad" THEN "forget" ELSE local[p].op
    <2>1. o \in Ops
      BY <1>a, LocalTypes DEF Ops
    <2>2. local' = [local EXCEPT ![p] = [local[p] EXCEPT !.op = o]]
      BY <1>0, <1>10 DEF TypeOK, RefuseFile
    <2>3. local' \in [Procs -> Locals]
      BY <1>0, <1>a, <2>1, <2>2, LocalTypes DEF TypeOK
    <2>4. pc' \in [Procs -> PCs]
      BY <1>0, <1>10, GoTypes DEF RefuseFile, PCs
    <2>5. QED
      BY <1>0, <1>10, <2>3, <2>4 DEF TypeOK, RefuseFile, operations
  <1>11. CASE Drop(p)
    <2>1. CASE UnlockFails(p, local[p].ip)
      BY <1>0, <2>1 DEF TypeOK, UnlockFails, operations
    <2>2. CASE owner[local[p].ip] = p
      <3>1. local[p].ip \in Inodes /\ ~UnlockFails(p, local[p].ip)
        BY <1>0, <1>11, <2>2 DEF Drop, Shape, ShapeAt, UnlockFails
      <3>2. pc' \in [Procs -> PCs] /\ local' \in [Procs -> Locals]
        BY <1>0, <1>11, <3>1, ReturnTypes DEF Drop
      <3>3. ref' \in [Inodes -> Int] /\ owner' \in [Inodes -> Procs \cup {Nil}]
        <4>1. ref' = Put(ref, local[p].ip) /\ owner' = [owner EXCEPT ![local[p].ip] = Nil]
          BY <1>11, <3>1 DEF Drop
        <4>2. ref \in [Inodes -> Int]
          BY <1>0 DEF TypeOK
        <4>3. ref' \in [Inodes -> Int]
          BY <3>1, <4>1, <4>2, CountTypes
        <4>4. owner' \in [Inodes -> Procs \cup {Nil}]
          BY <1>0, <3>1, <4>1, OwnerTypes
        <4>5. QED
          BY <4>3, <4>4
      <3>4. outstanding' \in Int /\ forgotten' \in Int
        BY <1>0, <1>11, <3>1, OperationTypes DEF Drop
      <3>5. QED
        BY <1>0, <1>11, <3>1, <3>2, <3>3, <3>4 DEF TypeOK, Drop
    <2>3. QED
      BY <1>11, <2>1, <2>2 DEF Drop
  <1>12. CASE FileCall(p)
    <2>1. PICK k \in DOMAIN fds[p], o \in {"read", "write"} :
             /\ fds[p][k] # 0
             /\ local' = [local EXCEPT ![p] = [op |-> o, name |-> Nil, ip |-> files[fds[p][k]].ip]]
             /\ LockInode(p, files[fds[p][k]].ip, "io")
             /\ BeginOp \/ UNCHANGED operations
      BY <1>12 DEF FileCall
    <2>2. files[fds[p][k]].ip \in Inodes /\ o \in Ops /\ "io" \in PCs
      BY <2>1, DescriptorFile DEF Ops, PCs
    <2>3. local' \in [Procs -> Locals]
      BY <1>0, <2>1, <2>2, LocalTypes DEF TypeOK
    <2>4. /\ owner' \in [Inodes -> Procs \cup {Nil}]
          /\ type' \in [Inodes -> Kinds \cup {"dir", "free", "none"}]
          /\ pc' \in [Procs -> PCs]
      BY <1>0, <2>1, <2>2, LockTypes
    <2>5. outstanding' \in Int /\ forgotten' \in Int
      BY <1>0, <2>1, OperationTypes
    <2>6. QED
      BY <1>0, <1>12, <2>3, <2>4, <2>5 DEF TypeOK, FileCall
  <1>13. CASE FileReturns(p)
    <2>1. CASE UnlockFails(p, local[p].ip)
      BY <1>0, <2>1 DEF TypeOK, UnlockFails, operations
    <2>2. CASE owner[local[p].ip] = p
      <3>1. local[p].ip \in Inodes /\ ~UnlockFails(p, local[p].ip)
        BY <1>0, <1>13, <2>2 DEF FileReturns, Shape, ShapeAt, UnlockFails
      <3>2. pc' \in [Procs -> PCs] /\ local' \in [Procs -> Locals]
        BY <1>0, <1>13, <3>1, ReturnTypes DEF FileReturns
      <3>3. owner' \in [Inodes -> Procs \cup {Nil}]
        BY <1>0, <1>13, <3>1, OwnerTypes, SMT DEF FileReturns
      <3>4. outstanding' \in Int /\ forgotten' \in Int
        BY <1>0, <1>13, <3>1, OperationTypes DEF FileReturns
      <3>5. QED
        BY <1>0, <1>13, <3>1, <3>2, <3>3, <3>4 DEF TypeOK, FileReturns
    <2>3. QED
      BY <1>13, <2>1, <2>2 DEF FileReturns
  <1>14. CASE CloseCall(p)
    BY <1>14, CloseTypes DEF CloseCall
  <1>15. CASE ClosePuts(p)
    <2>1. local[p].ip \in Inodes
      BY <1>0, <1>15 DEF ClosePuts, Shape, ShapeAt
    <2>2. ref' \in [Inodes -> Int]
      BY <1>0, <1>15, <2>1, CountTypes DEF TypeOK, ClosePuts
    <2>3. \E at \in PCs : Go(p, at)
      BY <1>15 DEF ClosePuts, PCs
    <2>4. pc' \in [Procs -> PCs]
      BY <1>0, <2>3, GoTypes
    <2>5. local' \in [Procs -> Locals]
      BY <1>0, <1>15, LocalTypes DEF TypeOK, ClosePuts
    <2>6. QED
      BY <1>0, <1>15, <2>2, <2>4, <2>5 DEF TypeOK, ClosePuts, operations
  <1>16. CASE Fork(p)
    <2>1. PICK q \in Procs : fds' = [fds EXCEPT ![q] = fds[p]] /\ Go(q, "user")
      BY <1>16 DEF Fork
    <2>2. fds[p] \in Seq(0 .. NUM_FILES) /\ fds' \in [Procs -> Seq(0 .. NUM_FILES)]
      BY <1>0, <2>1 DEF TypeOK
    <2>3. files' \in [FileIds -> [ref : Int, ip : Inodes \cup {Nil}]]
      BY <1>0, <1>16, <2>2, DuppedFiles DEF Fork
    <2>4. pc' \in [Procs -> PCs]
      BY <1>0, <2>1, GoTypes DEF PCs
    <2>5. ref' \in [Inodes -> Int]
      BY <1>0, <1>b, <1>16, CountTypes DEF TypeOK, Fork
    <2>6. QED
      BY <1>0, <1>16, <2>2, <2>3, <2>4, <2>5 DEF TypeOK, Fork, operations
  <1>17. CASE ExitCall(p)
    <2>1. pc' \in [Procs -> PCs]
      BY <1>0, <1>17, GoTypes DEF ExitCall, PCs
    <2>2. QED
      BY <1>0, <1>17, <2>1 DEF TypeOK, ExitCall, operations
  <1>18. CASE ExitCloses(p)
    BY <1>18, CloseTypes DEF ExitCloses
  <1>19. CASE ExitEnds(p)
    <2>1. pc' \in [Procs -> PCs]
      BY <1>0, <1>19, GoTypes DEF ExitEnds, PCs
    <2>2. ref' \in [Inodes -> Int]
      BY <1>0, <1>b, <1>19, CountTypes DEF TypeOK, ExitEnds
    <2>3. fds' \in [Procs -> Seq(0 .. NUM_FILES)]
      BY <1>0, <1>19, SMT DEF TypeOK, ExitEnds
    <2>4. QED
      BY <1>0, <1>19, <2>1, <2>2, <2>3 DEF TypeOK, ExitEnds, operations
  <1>20. QED
    BY <1>1, <1>2, <1>3, <1>4, <1>5, <1>6, <1>7, <1>8, <1>9, <1>10, <1>11, <1>12, <1>13, <1>14,
      <1>15, <1>16, <1>17, <1>18, <1>19 DEF Step
-----------------------------------------------------------------------------
(***************************************************************************)
(* Control: what a process does goes with where it is.                     *)
(***************************************************************************)
\* Setting what one process is doing.
LEMMA SetLocal ==
    ASSUME TypeOK, NEW p \in Procs, NEW v, local' = [local EXCEPT ![p] = v]
    PROVE  local'[p] = v /\ \A q \in Procs \ {p} : local'[q] = local[q]
  BY DEF TypeOK

\* What Go does to the places of the processes.
LEMMA SetPc ==
    ASSUME TypeOK, NEW p \in Procs, NEW at, Go(p, at)
    PROVE  pc'[p] = at /\ \A q \in Procs \ {p} : pc'[q] = pc[q]
  BY DEF TypeOK, Go

\* What an assignment to the descriptors of a process does to the others.
LEMMA SetFds ==
    ASSUME TypeOK, NEW p \in Procs, NEW s, fds' = [fds EXCEPT ![p] = s]
    PROVE  fds'[p] = s /\ \A q \in Procs \ {p} : fds'[q] = fds[q]
  BY DEF TypeOK

\* A step of p is seen in what p does, and where.
Move(p, at, v, s) ==
    /\ pc'[p] = at /\ local'[p] = v /\ fds'[p] = s
    /\ \A q \in Procs \ {p} : pc'[q] = pc[q] /\ local'[q] = local[q] /\ fds'[q] = fds[q]

\* Only p moves, and it gets the locals v.
LEMMA MoveLocal ==
    ASSUME TypeOK, NEW p \in Procs, NEW at, NEW v, local' = [local EXCEPT ![p] = v], Go(p, at),
           UNCHANGED fds
    PROVE  Move(p, at, v, fds[p])
  BY SetLocal, SetPc DEF Move

\* Only p moves, and it gets the locals v and the descriptors s.
LEMMA MoveAll ==
    ASSUME TypeOK, NEW p \in Procs, NEW at, NEW v, NEW s, local' = [local EXCEPT ![p] = v], Go(p, at),
           fds' = [fds EXCEPT ![p] = s]
    PROVE  Move(p, at, v, s)
  <1>1. local'[p] = v /\ \A q \in Procs \ {p} : local'[q] = local[q]
    BY SetLocal
  <1>2. pc'[p] = at /\ \A q \in Procs \ {p} : pc'[q] = pc[q]
    BY SetPc
  <1>3. fds'[p] = s /\ \A q \in Procs \ {p} : fds'[q] = fds[q]
    BY SetFds
  <1> QED
    BY <1>1, <1>2, <1>3 DEF Move

\* One process moves: the place it moves to has to fit.
LEMMA MoveShape ==
    ASSUME Shape, NEW p \in Procs, NEW at, NEW v, NEW s, Move(p, at, v, s), ShapeAt(at, v, s)
    PROVE  Shape'
  <1> SUFFICES ASSUME NEW q \in Procs PROVE ShapeAt(pc'[q], local'[q], fds'[q])
    BY DEF Shape, ShapeAt
  <1>1. CASE q = p
    BY <1>1 DEF Move
  <1>2. CASE q # p
    BY <1>2 DEF Move, Shape
  <1>3. QED
    BY <1>1, <1>2

\* Locking an inode leads on, or to sleep.
LEMMA LockMoves ==
    ASSUME TypeOK, NEW p \in Procs, NEW i \in Inodes, NEW at, LockInode(p, i, at)
    PROVE  /\ \/ owner[i] = Nil /\ pc'[p] = at /\ owner'[i] = p
              \/ owner[i] # Nil /\ pc'[p] = "asleep" /\ owner'[i] = owner[i]
           /\ \A q \in Procs \ {p} : pc'[q] = pc[q]
           /\ \A j \in Inodes \ {i} : owner'[j] = owner[j]
  BY SetPc DEF LockInode, TypeOK

\* A step that locks inode i for the call v.
LEMMA LockShape ==
    ASSUME TypeOK, Shape, NEW p \in Procs, NEW i \in Inodes, NEW at, NEW v, LockInode(p, i, at),
           local'[p] = v, \A q \in Procs \ {p} : local'[q] = local[q], UNCHANGED fds,
           ShapeAt(at, v, fds[p]), ShapeAt("asleep", v, fds[p])
    PROVE  Shape'
  <1>1. pc'[p] = at \/ pc'[p] = "asleep"
    BY LockMoves, SMT
  <1>2. \A q \in Procs \ {p} : pc'[q] = pc[q]
    BY LockMoves
  <1>3. Move(p, at, v, fds[p]) \/ Move(p, "asleep", v, fds[p])
    BY <1>1, <1>2 DEF Move
  <1>4. QED
    BY <1>3, MoveShape

\* File::close leaves p in user mode or with the inode it is to put.
LEMMA CloseShape ==
    ASSUME IInv, NEW p \in Procs, NEW k \in DOMAIN fds[p], NEW op \in {"close", "exit"}, Close(p, k, op),
           pc[p] \in {"user", "exit"}
    PROVE  Shape'
  <1> DEFINE f == fds[p][k]
             s == [fds[p] EXCEPT ![k] = 0]
             v == [op |-> op, name |-> Nil, ip |-> files[f].ip]
  <1>0. TypeOK /\ Shape /\ ShapeAt(pc[p], local[p], fds[p])
    BY DEF IInv, Shape
  <1>1. files[f].ip \in Inodes
    BY DescriptorFile DEF Close
  <1>2. fds' = [fds EXCEPT ![p] = s]
    BY <1>0 DEF Close, TypeOK
  <1>3. Len(s) = Len(fds[p])
    BY <1>0, SMT DEF TypeOK
  <1>4. CASE files[f].ref = 1
    <2>1. local' = [local EXCEPT ![p] = v] /\ Go(p, "put")
      BY <1>4 DEF Close
    <2>2. Move(p, "put", v, s)
      BY <1>0, <1>2, <2>1, MoveAll
    <2>3. ShapeAt("put", v, s)
      BY <1>0, <1>1, <1>3 DEF ShapeAt, Walking, Creates
    <2>4. QED
      BY <1>0, <2>2, <2>3, MoveShape
  <1>5. CASE files[f].ref # 1
    <2>1. Move(p, pc[p], local[p], s)
      BY <1>0, <1>2, <1>5, SetFds DEF Move, Close
    <2>2. ShapeAt(pc[p], local[p], s)
      BY <1>0, <1>3 DEF ShapeAt
    <2>3. QED
      BY <1>0, <2>1, <2>2, MoveShape
  <1>6. QED
    BY <1>4, <1>5

\* A process that is doing nothing fits everywhere a process does nothing.
LEMMA IdleShape ==
    ASSUME NEW s, NEW at \in {"user", "exit", "gone"}, Len(s) <= MaxFds
    PROVE  ShapeAt(at, Idle, s)
  BY DEF ShapeAt, Idle, Walking, Creates

\* Every step of Files keeps the shape.
LEMMA ShapeStep == ASSUME IInv, NEW p \in Procs, Step(p) PROVE Shape'
  <1> DEFINE v == local[p]
  <1>0. TypeOK /\ Shape /\ ShapeAt(pc[p], v, fds[p])
    BY DEF IInv, Shape
  <1>a. v \in Locals /\ Len(fds[p]) <= MaxFds
    BY <1>0 DEF TypeOK, ShapeAt
  <1>b. Root \in Inodes
    BY InodeFacts
  <1>c. ASSUME Return(p), UNCHANGED fds PROVE Shape'
    <2>1. Move(p, "user", Idle, fds[p])
      BY <1>0, <1>c, SetLocal, SetPc DEF Move, Return
    <2>2. QED
      BY <1>0, <1>a, <2>1, IdleShape, MoveShape
  <1>1. CASE OpenCall(p)
    <2>1. CASE \E n \in Names, o \in Walking :
                  /\ local' = [local EXCEPT ![p] = [op |-> o, name |-> n, ip |-> Root]]
                  /\ Go(p, "walk")
      <3>1. PICK n \in Names, o \in Walking :
                  /\ local' = [local EXCEPT ![p] = [op |-> o, name |-> n, ip |-> Root]]
                  /\ Go(p, "walk")
        BY <2>1
      <3>2. Move(p, "walk", [op |-> o, name |-> n, ip |-> Root], fds[p])
        BY <1>0, <1>1, <3>1, MoveLocal DEF OpenCall
      <3>3. ShapeAt("walk", [op |-> o, name |-> n, ip |-> Root], fds[p])
        BY <1>a, <1>1 DEF OpenCall, ShapeAt
      <3>4. QED
        BY <1>0, <3>2, <3>3, MoveShape
    <2>2. CASE /\ local' = [local EXCEPT ![p] = [op |-> "open", name |-> Nil, ip |-> Root]]
               /\ Go(p, "lock")
      <3>1. Move(p, "lock", [op |-> "open", name |-> Nil, ip |-> Root], fds[p])
        BY <1>0, <1>1, <2>2, MoveLocal DEF OpenCall
      <3>2. ShapeAt("lock", [op |-> "open", name |-> Nil, ip |-> Root], fds[p])
        BY <1>a, <1>b, <1>1 DEF OpenCall, ShapeAt
      <3>3. QED
        BY <1>0, <3>1, <3>2, MoveShape
    <2>3. QED
      BY <1>1, <2>1, <2>2 DEF OpenCall, Walking
  <1>2. CASE Walk(p)
    <2>1. v.op \in Walking /\ v.name \in Names /\ v.ip = Root /\ Len(fds[p]) < MaxFds
      BY <1>0, <1>2 DEF Walk, ShapeAt
    <2>2. ShapeAt("parent", v, fds[p]) /\ ShapeAt("lookup", v, fds[p]) /\ ShapeAt("asleep", v, fds[p])
      BY <1>a, <1>b, <2>1 DEF ShapeAt
    <2>3. CASE v.op \in Creates /\ owner[Root] = Nil
      <3>1. Move(p, "parent", v, fds[p])
        BY <1>0, <1>2, <2>3, SetPc DEF Move, Walk
      <3>2. QED
        BY <1>0, <2>2, <3>1, MoveShape
    <2>4. CASE ~(v.op \in Creates /\ owner[Root] = Nil)
      BY <1>0, <1>b, <1>2, <2>2, <2>4, LockShape DEF Walk
    <2>5. QED
      BY <2>3, <2>4
  <1>3. CASE LockParent(p)
    <2>1. ShapeAt("lookup", v, fds[p]) /\ ShapeAt("asleep", v, fds[p])
      BY <1>0, <1>a, <1>b, <1>3 DEF LockParent, ShapeAt
    <2>2. QED
      BY <1>0, <1>b, <1>3, <2>1, LockShape DEF LockParent
  <1>4. CASE LookupFinds(p)
    <2> DEFINE i == DirLookup(v.name)
               w == [v EXCEPT !.name = Nil, !.ip = i]
               at == CASE v.op \notin Creates -> "lock"
                       [] v.op = "create" /\ type[i] \in Kinds -> "file"
                       [] OTHER -> "drop"
    <2>1. v.op \in Walking /\ v.name \in Names /\ Len(fds[p]) < MaxFds
      BY <1>0, <1>4 DEF LookupFinds, ShapeAt
    <2>2. i \in Inodes
      BY <1>0, <1>4, <2>1, InodeFacts DEF TypeOK, LookupFinds, DirLookup
    <2>3. local' = [local EXCEPT ![p] = w] /\ Go(p, at)
      BY <1>0, <1>4 DEF TypeOK, LookupFinds
    <2>4. Move(p, at, w, fds[p])
      <3>1. UNCHANGED fds
        BY <1>4 DEF LookupFinds
      <3> HIDE DEF at, w
      <3> QED
        BY <1>0, <2>3, <3>1, MoveLocal
    <2>5. w.op = v.op /\ w.ip = i
      BY <1>a DEF Locals
    <2>6. \/ at = "lock" /\ v.op \in {"open", "exec"}
          \/ at = "file" /\ v.op = "create"
          \/ at = "drop" /\ v.op \in Walking
      <3>1. CASE v.op \notin Creates
        BY <2>1, <3>1 DEF Walking
      <3>2. CASE v.op \in Creates /\ v.op = "create" /\ type[i] \in Kinds
        BY <3>2
      <3>3. CASE v.op \in Creates /\ ~(v.op = "create" /\ type[i] \in Kinds)
        BY <2>1, <3>3
      <3>4. QED
        BY <3>1, <3>2, <3>3
    <2>7. ShapeAt(at, w, fds[p])
      BY <1>a, <2>1, <2>2, <2>5, <2>6 DEF ShapeAt
    <2>8. QED
      BY <1>0, <2>4, <2>7, MoveShape
  <1>5. CASE LookupMisses(p)
    BY <1>5, <1>c DEF LookupMisses
  <1>6. CASE CreateLinks(p)
    <2>1. PICK i \in Inodes : local' = [local EXCEPT ![p].name = Nil, ![p].ip = i]
      BY <1>6, InodeFacts DEF CreateLinks, FreeInodes
    <2> DEFINE w == [v EXCEPT !.name = Nil, !.ip = i]
               at == IF v.op = "create" THEN "file" ELSE "drop"
    <2>2. v.op \in Walking /\ Len(fds[p]) < MaxFds
      BY <1>0, <1>6 DEF CreateLinks, ShapeAt
    <2>3. local' = [local EXCEPT ![p] = w] /\ Go(p, at)
      BY <1>0, <1>6, <2>1 DEF TypeOK, CreateLinks
    <2>4. Move(p, at, w, fds[p])
      <3>1. UNCHANGED fds
        BY <1>6 DEF CreateLinks
      <3> HIDE DEF at, w
      <3> QED
        BY <1>0, <2>3, <3>1, MoveLocal
    <2>5. w.op = v.op /\ w.ip = i
      BY <1>a DEF Locals
    <2>6. ShapeAt(at, w, fds[p])
      BY <1>a, <2>1, <2>2, <2>5 DEF ShapeAt
    <2>7. QED
      BY <1>0, <2>4, <2>6, MoveShape
  <1>7. CASE CreateFails(p)
    BY <1>7, <1>c DEF CreateFails
  <1>8. CASE LockFound(p)
    <2>1. v.op \in {"open", "exec"} /\ v.ip \in Inodes
      BY <1>0, <1>8 DEF LockFound, ShapeAt
    <2>2. PICK at \in {"file", "drop"} : LockInode(p, v.ip, at) /\ (at = "file" => v.op = "open")
      BY <1>8 DEF LockFound
    <2>3. v.op \in Walking
      BY <2>1 DEF Walking
    <2>4. Len(fds[p]) < MaxFds
      BY <1>0, <2>3 DEF ShapeAt
    <2>5. ShapeAt(at, v, fds[p]) /\ ShapeAt("asleep", v, fds[p])
      BY <1>a, <2>1, <2>2, <2>3, <2>4 DEF ShapeAt
    <2>6. QED
      BY <1>0, <1>8, <2>1, <2>2, <2>5, LockShape DEF LockFound
  <1>9. CASE AllocateFile(p)
    <2>1. PICK f \in FreeFiles : fds' = [fds EXCEPT ![p] = Append(@, f)]
      BY <1>9 DEF AllocateFile
    <2> DEFINE w == [v EXCEPT !.op = "write"]
               s == Append(fds[p], f)
    <2>2. v.op \in {"open", "create"} /\ v.ip \in Inodes
      BY <1>0, <1>9 DEF AllocateFile, ShapeAt
    <2>3. v.op \in Walking
      BY <2>2 DEF Walking, Creates
    <2>4. Len(s) = Len(fds[p]) + 1 /\ Len(fds[p]) < MaxFds /\ Len(fds[p]) \in Nat
      BY <1>0, <2>3, SMT DEF ShapeAt, TypeOK
    <2>5. local' = [local EXCEPT ![p] = w] /\ fds' = [fds EXCEPT ![p] = s] /\ Go(p, "io")
      BY <1>0, <1>9, <2>1 DEF TypeOK, AllocateFile
    <2>6. Move(p, "io", w, s)
      BY <1>0, <2>5, MoveAll
    <2>7. w.op = "write" /\ w.ip = v.ip
      BY <1>a DEF Locals
    <2>8. Len(s) <= MaxFds
      BY <2>4, FilesAssumption, SMT
    <2>9. ShapeAt("io", w, s)
      BY <2>2, <2>7, <2>8 DEF ShapeAt, Walking, Creates
    <2>10. QED
      BY <1>0, <2>6, <2>9, MoveShape
  <1>10. CASE RefuseFile(p)
    <2> DEFINE o == IF type[v.ip] = "bad" THEN "forget" ELSE v.op
               w == [v EXCEPT !.op = o]
    <2>1. v.op \in {"open", "create"} /\ v.ip \in Inodes
      BY <1>0, <1>10 DEF RefuseFile, ShapeAt
    <2>2. v.op \in Walking
      BY <2>1 DEF Walking, Creates
    <2>3. local' = [local EXCEPT ![p] = w] /\ Go(p, "drop")
      BY <1>0, <1>10 DEF TypeOK, RefuseFile
    <2>4. Move(p, "drop", w, fds[p])
      BY <1>0, <1>10, <2>3, MoveLocal DEF RefuseFile
    <2>5. w.op = o /\ w.ip = v.ip
      BY <1>a DEF Locals
    <2>6. ShapeAt("drop", w, fds[p])
      BY <1>0, <1>a, <2>1, <2>2, <2>5 DEF ShapeAt
    <2>7. QED
      BY <1>0, <2>4, <2>6, MoveShape
  <1>11. CASE Drop(p)
    <2>1. CASE UnlockFails(p, v.ip)
      BY <1>0, <2>1 DEF UnlockFails, Shape, ShapeAt
    <2>2. QED
      BY <1>11, <1>c, <2>1 DEF Drop
  <1>12. CASE FileCall(p)
    <2>1. PICK k \in DOMAIN fds[p], o \in {"read", "write"} :
             /\ fds[p][k] # 0
             /\ local' = [local EXCEPT ![p] = [op |-> o, name |-> Nil, ip |-> files[fds[p][k]].ip]]
             /\ LockInode(p, files[fds[p][k]].ip, "io")
      BY <1>12 DEF FileCall
    <2> DEFINE w == [op |-> o, name |-> Nil, ip |-> files[fds[p][k]].ip]
    <2>2. files[fds[p][k]].ip \in Inodes
      BY <2>1, DescriptorFile
    <2>3. ShapeAt("io", w, fds[p]) /\ ShapeAt("asleep", w, fds[p])
      BY <1>a, <2>1, <2>2 DEF ShapeAt, Walking, Creates
    <2>4. local'[p] = w /\ \A q \in Procs \ {p} : local'[q] = local[q]
      BY <1>0, <2>1, SetLocal
    <2>5. QED
      BY <1>0, <1>12, <2>1, <2>2, <2>3, <2>4, LockShape DEF FileCall
  <1>13. CASE FileReturns(p)
    <2>1. CASE UnlockFails(p, v.ip)
      BY <1>0, <2>1 DEF UnlockFails, Shape, ShapeAt
    <2>2. QED
      BY <1>13, <1>c, <2>1 DEF FileReturns
  <1>14. CASE CloseCall(p)
    BY <1>14, CloseShape DEF CloseCall
  <1>15. CASE ClosePuts(p)
    <2> DEFINE at == IF v.op = "close" THEN "user" ELSE "exit"
    <2>1. Move(p, at, Idle, fds[p])
      BY <1>0, <1>15, SetLocal, SetPc DEF Move, ClosePuts
    <2>2. ShapeAt(at, Idle, fds[p])
      BY <1>a, IdleShape
    <2>3. QED
      BY <1>0, <2>1, <2>2, MoveShape
  <1>16. CASE Fork(p)
    <2>1. PICK q \in Procs : pc[q] = "none" /\ fds' = [fds EXCEPT ![q] = fds[p]] /\ Go(q, "user")
      BY <1>16 DEF Fork
    <2>2. local[q] = Idle
      BY <1>0, <2>1 DEF Shape, ShapeAt
    <2>3. Move(q, "user", Idle, fds[p])
      <3>1. UNCHANGED local
        BY <1>16 DEF Fork
      <3>2. pc'[q] = "user" /\ \A r \in Procs \ {q} : pc'[r] = pc[r]
        BY <1>0, <2>1, SetPc
      <3>3. fds'[q] = fds[p] /\ \A r \in Procs \ {q} : fds'[r] = fds[r]
        BY <1>0, <2>1, SetFds
      <3> QED
        BY <2>2, <3>1, <3>2, <3>3 DEF Move
    <2>4. QED
      BY <1>0, <1>a, <2>3, IdleShape, MoveShape
  <1>17. CASE ExitCall(p)
    <2>1. v = Idle
      BY <1>0, <1>17 DEF ExitCall, ShapeAt
    <2>2. Move(p, "exit", Idle, fds[p])
      BY <1>0, <1>17, <2>1, SetPc DEF Move, ExitCall
    <2>3. QED
      BY <1>0, <1>a, <2>2, IdleShape, MoveShape
  <1>18. CASE ExitCloses(p)
    BY <1>18, CloseShape DEF ExitCloses
  <1>19. CASE ExitEnds(p)
    <2>1. v = Idle
      BY <1>0, <1>19 DEF ExitEnds, ShapeAt
    <2>2. Move(p, "gone", Idle, << >>)
      BY <1>0, <1>19, <2>1, SetPc, SetFds DEF Move, ExitEnds
    <2>3. Len(<< >>) <= MaxFds
      BY FilesAssumption, SMT
    <2>4. QED
      BY <1>0, <2>2, <2>3, IdleShape, MoveShape
  <1>20. QED
    BY <1>1, <1>2, <1>3, <1>4, <1>5, <1>6, <1>7, <1>8, <1>9, <1>10, <1>11, <1>12, <1>13, <1>14,
      <1>15, <1>16, <1>17, <1>18, <1>19 DEF Step

-----------------------------------------------------------------------------
(***************************************************************************)
(* The locks, the free inodes and the operations of the log.               *)
(***************************************************************************)
\* Who may have locked inode i, where it is and with what it does.
HoldsAt(at, v, i) == \/ at = "lookup" /\ i = Root
                     \/ at \in {"file", "drop", "io"} /\ i = v.ip

\* A step in which p at most locks or unlocks inodes.
LEMMA LocksKept ==
    ASSUME Locks, NEW p \in Procs,
           \A q \in Procs \ {p} : pc'[q] = pc[q] /\ local'[q] = local[q],
           \A i \in Inodes : owner'[i] \in {owner[i], Nil, p},
           \A i \in Inodes : owner'[i] = p => HoldsAt(pc'[p], local'[p], i)
    PROVE  Locks'
  <1> SUFFICES ASSUME NEW q \in Procs, NEW i \in Inodes, owner'[i] = q
               PROVE  HoldsAt(pc'[q], local'[q], i)
    BY DEF Locks, HoldsAt
  <1>1. CASE q = p
    BY <1>1
  <1>2. CASE q # p
    <2>1. owner[i] = q
      BY <1>2, InodeFacts
    <2>2. HoldsAt(pc[q], local[q], i)
      BY <2>1 DEF Locks, HoldsAt
    <2>3. QED
      BY <1>2, <2>2
  <1>3. QED
    BY <1>1, <1>2

\* A process that has no inode locked locks one.
LEMMA LockLocks ==
    ASSUME TypeOK, Locks, NEW p \in Procs, NEW i \in Inodes, NEW at, LockInode(p, i, at),
           \A j \in Inodes : owner[j] # p, \A q \in Procs \ {p} : local'[q] = local[q],
           HoldsAt(at, local'[p], i)
    PROVE  Locks'
  <1>1. \/ owner[i] = Nil /\ pc'[p] = at /\ owner'[i] = p
        \/ owner[i] # Nil /\ pc'[p] = "asleep" /\ owner'[i] = owner[i]
    BY LockMoves
  <1>2. /\ \A q \in Procs \ {p} : pc'[q] = pc[q]
        /\ \A j \in Inodes \ {i} : owner'[j] = owner[j]
    BY LockMoves, SMT
  <1>3. \A j \in Inodes : owner'[j] \in {owner[j], Nil, p}
    BY <1>1, <1>2
  <1>4. \A j \in Inodes : owner'[j] = p => HoldsAt(pc'[p], local'[p], j)
    BY <1>1, <1>2
  <1>5. QED
    BY <1>2, <1>3, <1>4, LocksKept

\* A process that has no inode locked does something else.
LEMMA IdleLocks ==
    ASSUME Locks, NEW p \in Procs, \A j \in Inodes : owner[j] # p, UNCHANGED owner,
           \A q \in Procs \ {p} : pc'[q] = pc[q] /\ local'[q] = local[q]
    PROVE  Locks'
  BY LocksKept

\* File::close neither locks nor unlocks.
LEMMA CloseLocks ==
    ASSUME TypeOK, Locks, NEW p \in Procs, NEW k \in DOMAIN fds[p], NEW op, Close(p, k, op),
           \A j \in Inodes : owner[j] # p
    PROVE  Locks'
  <1>1. \A q \in Procs \ {p} : pc'[q] = pc[q] /\ local'[q] = local[q]
    <2>1. CASE files[fds[p][k]].ref = 1
      BY <2>1, SetLocal, SetPc DEF Close
    <2>2. CASE files[fds[p][k]].ref # 1
      BY <2>2 DEF Close
    <2>3. QED
      BY <2>1, <2>2
  <1>2. QED
    BY <1>1, IdleLocks DEF Close

\* A process that owns inode i only gives it up and returns to user mode.
LEMMA UnlockLocks ==
    ASSUME TypeOK, Locks, NEW p \in Procs, NEW i \in Inodes, \A j \in Inodes : owner[j] = p => j = i,
           owner' = [owner EXCEPT ![i] = Nil],
           \A q \in Procs \ {p} : pc'[q] = pc[q] /\ local'[q] = local[q]
    PROVE  Locks'
  <1>1. owner'[i] = Nil /\ \A j \in Inodes \ {i} : owner'[j] = owner[j]
    BY DEF TypeOK
  <1>2. \A j \in Inodes : owner'[j] \in {owner[j], Nil, p} /\ owner'[j] # p
    BY <1>1, InodeFacts
  <1>3. QED
    BY <1>2, LocksKept

\* Every step of Files leaves the inodes locked where they will be unlocked.
LEMMA LocksStep == ASSUME IInv, NEW p \in Procs, Step(p) PROVE Locks'
  <1> DEFINE v == local[p]
             Quiet == \A j \in Inodes : owner[j] # p
             Still == \A q \in Procs \ {p} : pc'[q] = pc[q] /\ local'[q] = local[q]
  <1>0. TypeOK /\ Locks /\ ShapeAt(pc[p], v, fds[p])
    BY DEF IInv, Shape
  <1>a. pc[p] \notin {"lookup", "file", "drop", "io"} => Quiet
    BY <1>0 DEF Locks
  <1>b. Root \in Inodes
    BY InodeFacts
  <1>c. pc[p] \in {"lookup", "file", "drop", "io"} => v.ip \in Inodes
    BY <1>0, <1>b DEF ShapeAt
  <1>d. pc[p] = "lookup" => \A j \in Inodes : owner[j] = p => j = Root
    BY <1>0 DEF Locks
  <1>e. pc[p] \in {"file", "drop", "io"} => \A j \in Inodes : owner[j] = p => j = v.ip
    BY <1>0 DEF Locks
  <1>f. Return(p) => Still
    BY <1>0, SetLocal, SetPc DEF Return
  <1>1. CASE OpenCall(p)
    <2>1. Still
      BY <1>0, <1>1, SetLocal, SetPc DEF OpenCall
    <2>2. QED
      BY <1>0, <1>a, <1>1, <2>1, IdleLocks DEF OpenCall
  <1>2. CASE Walk(p)
    <2>1. CASE UNCHANGED owner /\ Go(p, "parent")
      BY <1>0, <1>a, <1>2, <2>1, SetPc, IdleLocks DEF Walk
    <2>2. CASE LockInode(p, Root, "lookup")
      BY <1>0, <1>a, <1>b, <1>2, <2>2, LockLocks DEF Walk, HoldsAt
    <2>3. QED
      BY <1>2, <2>1, <2>2 DEF Walk
  <1>3. CASE LockParent(p)
    BY <1>0, <1>a, <1>b, <1>3, LockLocks DEF LockParent, HoldsAt
  <1>4. CASE LookupFinds(p)
    <2>1. \E w, at : local' = [local EXCEPT ![p] = w] /\ Go(p, at)
      BY <1>0, <1>4 DEF LookupFinds, TypeOK
    <2>2. Still
      BY <1>0, <2>1, SetLocal, SetPc
    <2>3. QED
      BY <1>0, <1>b, <1>d, <1>4, <2>2, UnlockLocks DEF LookupFinds, RootDone
  <1>5. CASE LookupMisses(p)
    BY <1>0, <1>b, <1>d, <1>f, <1>5, UnlockLocks DEF LookupMisses, RootDone
  <1>6. CASE CreateLinks(p)
    <2>1. PICK i \in Inodes : /\ local' = [local EXCEPT ![p].name = Nil, ![p].ip = i]
                              /\ owner' = [RootDone(owner) EXCEPT ![i] = p]
      BY <1>6, InodeFacts DEF CreateLinks, FreeInodes
    <2> DEFINE w == [v EXCEPT !.name = Nil, !.ip = i]
               at == IF v.op = "create" THEN "file" ELSE "drop"
    <2>2. local' = [local EXCEPT ![p] = w] /\ Go(p, at)
      BY <1>0, <1>6, <2>1 DEF TypeOK, CreateLinks
    <2>3. local'[p] = w /\ pc'[p] = at /\ Still
      BY <1>0, <2>2, SetLocal, SetPc
    <2>4. w.ip = i
      BY <1>0 DEF TypeOK, Locals
    <2>5. /\ owner'[i] = p
          /\ \A j \in Inodes \ {i} : owner'[j] = IF j = Root THEN Nil ELSE owner[j]
      BY <1>0, <2>1 DEF TypeOK, RootDone
    <2>6. \A j \in Inodes : owner'[j] \in {owner[j], Nil, p}
      BY <2>5
    <2>7. \A j \in Inodes : owner'[j] = p => j = i
      BY <1>d, <1>6, <2>5, InodeFacts DEF CreateLinks
    <2>8. HoldsAt(at, w, i)
      BY <2>4 DEF HoldsAt
    <2>9. \A j \in Inodes : owner'[j] = p => HoldsAt(pc'[p], local'[p], j)
      BY <2>3, <2>7, <2>8
    <2>10. QED
      BY <1>0, <2>3, <2>6, <2>9, LocksKept
  <1>7. CASE CreateFails(p)
    BY <1>0, <1>b, <1>d, <1>f, <1>7, UnlockLocks DEF CreateFails, RootDone
  <1>8. CASE LockFound(p)
    <2>1. v.ip \in Inodes
      BY <1>0, <1>8 DEF LockFound, ShapeAt
    <2>2. PICK at \in {"file", "drop"} : LockInode(p, v.ip, at)
      BY <1>8 DEF LockFound
    <2>3. HoldsAt(at, local'[p], v.ip)
      BY <1>8 DEF LockFound, HoldsAt
    <2>4. QED
      BY <1>0, <1>a, <1>8, <2>1, <2>2, <2>3, LockLocks DEF LockFound
  <1>g. ASSUME NEW w, NEW at \in {"file", "drop", "io"}, local' = [local EXCEPT ![p] = w], Go(p, at),
               w.ip = v.ip, UNCHANGED owner, pc[p] = "file"
        PROVE  Locks'
    <2>1. local'[p] = w /\ pc'[p] = at /\ Still
      BY <1>0, <1>g, SetLocal, SetPc
    <2>2. \A j \in Inodes : owner'[j] = p => HoldsAt(pc'[p], local'[p], j)
      BY <1>e, <1>g, <2>1 DEF HoldsAt
    <2>3. QED
      BY <1>0, <1>g, <2>1, <2>2, LocksKept
  <1>9. CASE AllocateFile(p)
    <2> DEFINE w == [v EXCEPT !.op = "write"]
    <2>1. local' = [local EXCEPT ![p] = w] /\ w.ip = v.ip
      BY <1>0, <1>9 DEF TypeOK, AllocateFile, Locals
    <2>2. QED
      BY <1>g, <1>9, <2>1 DEF AllocateFile
  <1>10. CASE RefuseFile(p)
    <2> DEFINE o == IF type[v.ip] = "bad" THEN "forget" ELSE v.op
               w == [v EXCEPT !.op = o]
    <2>1. local' = [local EXCEPT ![p] = w] /\ w.ip = v.ip
      BY <1>0, <1>10, SMT DEF TypeOK, RefuseFile, Locals
    <2>2. QED
      BY <1>g, <1>10, <2>1 DEF RefuseFile
  <1>h. UnlockFails(p, v.ip) => Locks'
    BY <1>0 DEF UnlockFails, Locks
  <1>11. CASE Drop(p)
    <2>1. CASE owner' = [owner EXCEPT ![v.ip] = Nil] /\ Return(p)
      BY <1>0, <1>c, <1>e, <1>f, <1>11, <2>1, UnlockLocks DEF Drop
    <2>2. QED
      BY <1>h, <1>11, <2>1 DEF Drop
  <1>12. CASE FileCall(p)
    <2>1. PICK k \in DOMAIN fds[p], o \in {"read", "write"} :
             /\ fds[p][k] # 0
             /\ local' = [local EXCEPT ![p] = [op |-> o, name |-> Nil, ip |-> files[fds[p][k]].ip]]
             /\ LockInode(p, files[fds[p][k]].ip, "io")
      BY <1>12 DEF FileCall
    <2> DEFINE w == [op |-> o, name |-> Nil, ip |-> files[fds[p][k]].ip]
    <2>2. w.ip \in Inodes
      BY <2>1, DescriptorFile
    <2>3. local'[p] = w /\ \A q \in Procs \ {p} : local'[q] = local[q]
      BY <1>0, <2>1, SetLocal
    <2>4. HoldsAt("io", local'[p], w.ip)
      BY <2>3 DEF HoldsAt
    <2>5. Quiet
      BY <1>a, <1>12 DEF FileCall
    <2>6. LockInode(p, w.ip, "io")
      BY <2>1
    <2>7. QED
      BY <1>0, <2>2, <2>3, <2>4, <2>5, <2>6, LockLocks
  <1>13. CASE FileReturns(p)
    <2>1. CASE owner' = [owner EXCEPT ![v.ip] = Nil] /\ Return(p)
      BY <1>0, <1>c, <1>e, <1>f, <1>13, <2>1, UnlockLocks DEF FileReturns
    <2>2. QED
      BY <1>h, <1>13, <2>1 DEF FileReturns
  <1>14. CASE CloseCall(p)
    BY <1>0, <1>a, <1>14, CloseLocks DEF CloseCall
  <1>15. CASE ClosePuts(p)
    <2>1. Still
      BY <1>0, <1>15, SetLocal, SetPc DEF ClosePuts
    <2>2. QED
      BY <1>0, <1>a, <1>15, <2>1, IdleLocks DEF ClosePuts
  <1>16. CASE Fork(p)
    <2>1. PICK q \in Procs : pc[q] = "none" /\ Go(q, "user")
      BY <1>16 DEF Fork
    <2>2. \A j \in Inodes : owner[j] # q
      BY <1>0, <2>1 DEF Locks
    <2>3. \A r \in Procs \ {q} : pc'[r] = pc[r]
      BY <1>0, <2>1, SetPc
    <2>4. QED
      BY <1>0, <1>16, <2>2, <2>3, IdleLocks DEF Fork
  <1>17. CASE ExitCall(p)
    <2>1. Still
      BY <1>0, <1>17, SetPc DEF ExitCall
    <2>2. QED
      BY <1>0, <1>a, <1>17, <2>1, IdleLocks DEF ExitCall
  <1>18. CASE ExitCloses(p)
    BY <1>0, <1>a, <1>18, CloseLocks DEF ExitCloses
  <1>19. CASE ExitEnds(p)
    <2>1. Still
      BY <1>0, <1>19, SetPc DEF ExitEnds
    <2>2. QED
      BY <1>0, <1>a, <1>19, <2>1, IdleLocks DEF ExitEnds
  <1>20. QED
    BY <1>1, <1>2, <1>3, <1>4, <1>5, <1>6, <1>7, <1>8, <1>9, <1>10, <1>11, <1>12, <1>13, <1>14,
      <1>15, <1>16, <1>17, <1>18, <1>19 DEF Step

\* The conjuncts of Unused for one inode.
UnusedAt(i) ==
    /\ owner[i] = Nil /\ type[i] = "none"
    /\ \A n \in Names : entries[n] # i
    /\ \A f \in FileIds : files[f].ip # i
    /\ \A p \in Procs : local[p].ip # i

\* Locking an inode leaves the others alone.
LEMMA LockOther ==
    ASSUME TypeOK, NEW p \in Procs, NEW j \in Inodes, NEW at, LockInode(p, j, at),
           NEW i \in Inodes, i # j
    PROVE  owner'[i] = owner[i] /\ type'[i] = type[i]
  BY DEF TypeOK, LockInode

\* A process turns to something that is not inode i.
LEMMA LocalOther ==
    ASSUME TypeOK, NEW p \in Procs, NEW w, local' = [local EXCEPT ![p] = w],
           NEW i, w.ip # i, \A q \in Procs : local[q].ip # i
    PROVE  \A q \in Procs : local'[q].ip # i
  BY SetLocal, SMT

\* A closed file has the inode it had, or none.
LEMMA CloseUnused ==
    ASSUME IInv, NEW p \in Procs, NEW k \in DOMAIN fds[p], NEW op, Close(p, k, op),
           NEW i \in Inodes, UnusedAt(i)
    PROVE  UnusedAt(i)'
  <1> DEFINE f == fds[p][k]
             w == [op |-> op, name |-> Nil, ip |-> files[f].ip]
  <1>0. TypeOK
    BY DEF IInv
  <1>1. f \in FileIds
    BY DescriptorFile DEF Close
  <1>2. \A g \in FileIds : files'[g].ip \in {files[g].ip, Nil}
    <2>1. CASE files[f].ref > 1
      BY <1>0, <1>1, <2>1 DEF Close, Closed, TypeOK
    <2>2. CASE ~(files[f].ref > 1)
      BY <1>0, <1>1, <2>2 DEF Close, Closed, TypeOK
    <2>3. QED
      BY <2>1, <2>2
  <1>3. \A g \in FileIds : files'[g].ip # i
    BY <1>2, InodeFacts DEF UnusedAt
  <1>4. \A q \in Procs : local'[q].ip # i
    <2>1. CASE files[f].ref = 1
      <3>1. local' = [local EXCEPT ![p] = w] /\ w.ip # i
        BY <1>1, <2>1 DEF Close, UnusedAt
      <3>2. QED
        BY <1>0, <3>1, LocalOther, SMT DEF UnusedAt
    <2>2. CASE files[f].ref # 1
      BY <2>2 DEF Close, UnusedAt
    <2>3. QED
      BY <2>1, <2>2
  <1>5. QED
    BY <1>3, <1>4 DEF Close, UnusedAt

\* No step frees an inode: CreateFails gives back the one that it takes.
LEMMA NoneFreed ==
    ASSUME IInv, NEW p \in Procs, Step(p), NEW i \in Inodes, disk'[i] = "free"
    PROVE  disk[i] = "free"
  <1>0. TypeOK
    BY DEF IInv
  <1>1. CASE CreateLinks(p)
    <2>1. PICK j \in FreeInodes, t \in Kinds : disk' = Linked(j, t)
      BY <1>1 DEF CreateLinks, Kinds
    <2>2. QED
      BY <1>0, <2>1 DEF Linked, TypeOK, Kinds
  <1>2. CASE CreateFails(p)
    <2>1. PICK j \in FreeInodes : disk' = Linked(j, "free")
      BY <1>2 DEF CreateFails
    <2>2. QED
      BY <1>0, <2>1 DEF Linked, TypeOK, FreeInodes
  <1>3. CASE UNCHANGED disk
    BY <1>3
  <1>4. QED
    BY <1>1, <1>2, <1>3 DEF Step, OpenCall, Walk, LockParent, LookupFinds, LookupMisses, LockFound,
      AllocateFile, RefuseFile, Drop, UnlockFails, FileCall, FileReturns, CloseCall, Close, ClosePuts,
      Fork, ExitCall, ExitCloses, ExitEnds

\* Every step of Files leaves the free inodes unused.
LEMMA UnusedStep == ASSUME IInv, NEW p \in Procs, Step(p) PROVE Unused'
  <1> SUFFICES ASSUME NEW i \in Inodes, disk'[i] = "free" PROVE i # Root /\ UnusedAt(i)'
    BY DEF Unused, UnusedAt
  <1> DEFINE v == local[p]
  <1>0. TypeOK /\ ShapeAt(pc[p], v, fds[p])
    BY DEF IInv, Shape
  <1>a. disk[i] = "free"
    BY NoneFreed
  <1>b. i # Root /\ UnusedAt(i) /\ i # Nil /\ Root \in Inodes
    BY <1>a, InodeFacts DEF IInv, Unused, UnusedAt
  <1>c. ASSUME Return(p) PROVE \A q \in Procs : local'[q].ip # i
    <2>1. Idle.ip # i
      BY <1>b DEF Idle
    <2>2. QED
      BY <1>0, <1>b, <1>c, <2>1, LocalOther, SMT DEF Return, UnusedAt
  <1>d. RootDone(owner)[i] = owner[i]
    BY <1>0, <1>b DEF TypeOK, RootDone
  <1>e. v.ip # i
    BY <1>b DEF UnusedAt
  <1>1. CASE OpenCall(p)
    <2>1. PICK n \in Names \cup {Nil}, o \in Walking :
              local' = [local EXCEPT ![p] = [op |-> o, name |-> n, ip |-> Root]]
      BY <1>1 DEF OpenCall, Walking
    <2> DEFINE w == [op |-> o, name |-> n, ip |-> Root]
    <2>2. \A q \in Procs : local'[q].ip # i
      <3>1. w.ip # i
        BY <1>b
      <3>2. QED
        BY <1>0, <1>b, <2>1, <3>1, LocalOther, SMT DEF UnusedAt
    <2>3. QED
      BY <1>b, <1>1, <2>2 DEF OpenCall, UnusedAt
  <1>2. CASE Walk(p)
    <2>1. owner'[i] = owner[i] /\ type'[i] = type[i]
      <3>1. CASE v.op \in Creates /\ owner[Root] = Nil
        BY <1>0, <1>b, <1>2, <3>1 DEF Walk, TypeOK
      <3>2. CASE ~(v.op \in Creates /\ owner[Root] = Nil)
        BY <1>0, <1>b, <1>2, <3>2, LockOther DEF Walk
      <3>3. QED
        BY <3>1, <3>2
    <2>2. QED
      BY <1>b, <1>2, <2>1 DEF Walk, UnusedAt
  <1>3. CASE LockParent(p)
    <2>1. owner'[i] = owner[i] /\ type'[i] = type[i]
      BY <1>0, <1>b, <1>3, LockOther DEF LockParent
    <2>2. QED
      BY <1>b, <1>3, <2>1 DEF LockParent, UnusedAt
  <1>4. CASE LookupFinds(p)
    <2> DEFINE w == [v EXCEPT !.name = Nil, !.ip = DirLookup(v.name)]
    <2>1. local' = [local EXCEPT ![p] = w] /\ w.ip = DirLookup(v.name)
      BY <1>0, <1>4 DEF TypeOK, LookupFinds, Locals
    <2>2. w.ip # i
      BY <1>0, <1>b, <1>4, <2>1 DEF DirLookup, UnusedAt, LookupFinds, ShapeAt
    <2>3. \A q \in Procs : local'[q].ip # i
      BY <1>0, <1>b, <2>1, <2>2, LocalOther, SMT DEF UnusedAt
    <2>4. QED
      BY <1>b, <1>d, <1>4, <2>3 DEF LookupFinds, UnusedAt
  <1>5. CASE LookupMisses(p)
    BY <1>b, <1>c, <1>d, <1>5 DEF LookupMisses, UnusedAt
  <1>6. CASE CreateLinks(p)
    <2>1. PICK j \in FreeInodes, t \in Kinds :
             /\ disk' = Linked(j, t)
             /\ type' = [type EXCEPT ![j] = t]
             /\ entries' = DirLink(local[p].name, j)
             /\ owner' = [RootDone(owner) EXCEPT ![j] = p]
             /\ local' = [local EXCEPT ![p].name = Nil, ![p].ip = j]
      BY <1>6 DEF CreateLinks, Kinds
    <2>2. j \in Inodes /\ i # j
      BY <1>0, <2>1, InodeFacts DEF FreeInodes, Linked, TypeOK, Kinds
    <2> DEFINE w == [v EXCEPT !.name = Nil, !.ip = j]
    <2>3. local' = [local EXCEPT ![p] = w] /\ w.ip = j
      BY <1>0, <2>1 DEF TypeOK, Locals
    <2>4. \A q \in Procs : local'[q].ip # i
      BY <1>0, <1>b, <2>2, <2>3, LocalOther, SMT DEF UnusedAt
    <2>5. owner'[i] = owner[i] /\ type'[i] = type[i]
      BY <1>0, <1>b, <2>1, <2>2 DEF TypeOK, RootDone
    <2>6. \A n \in Names : entries'[n] # i
      BY <1>0, <1>b, <2>1, <2>2 DEF TypeOK, DirLink, UnusedAt
    <2>7. QED
      BY <1>b, <1>6, <2>4, <2>5, <2>6 DEF CreateLinks, UnusedAt
  <1>7. CASE CreateFails(p)
    BY <1>b, <1>c, <1>d, <1>7 DEF CreateFails, UnusedAt
  <1>8. CASE LockFound(p)
    <2>1. v.ip \in Inodes
      BY <1>0, <1>8 DEF LockFound, ShapeAt
    <2>2. owner'[i] = owner[i] /\ type'[i] = type[i]
      BY <1>0, <1>e, <1>8, <2>1, LockOther DEF LockFound
    <2>3. QED
      BY <1>b, <1>8, <2>2 DEF LockFound, UnusedAt
  <1>9. CASE AllocateFile(p)
    <2> DEFINE w == [v EXCEPT !.op = "write"]
    <2>1. local' = [local EXCEPT ![p] = w] /\ w.ip = v.ip
      BY <1>0, <1>9, SMT DEF TypeOK, AllocateFile, Locals
    <2>2. \A q \in Procs : local'[q].ip # i
      BY <1>0, <1>b, <1>e, <2>1, LocalOther, SMT DEF UnusedAt
    <2>3. \E f \in FileIds : files' = [files EXCEPT ![f] = [ref |-> 1, ip |-> v.ip]]
      BY <1>9 DEF AllocateFile, FreeFiles
    <2>4. \A f \in FileIds : files'[f].ip # i
      BY <1>0, <1>b, <1>e, <2>3, SMT DEF TypeOK, UnusedAt
    <2>5. QED
      BY <1>b, <1>9, <2>2, <2>4 DEF AllocateFile, UnusedAt
  <1>10. CASE RefuseFile(p)
    <2> DEFINE o == IF type[v.ip] = "bad" THEN "forget" ELSE v.op
               w == [v EXCEPT !.op = o]
    <2>1. local' = [local EXCEPT ![p] = w] /\ w.ip = v.ip
      BY <1>0, <1>10, SMT DEF TypeOK, RefuseFile, Locals
    <2>2. \A q \in Procs : local'[q].ip # i
      BY <1>0, <1>b, <1>e, <2>1, LocalOther, SMT DEF UnusedAt
    <2>3. QED
      BY <1>b, <1>10, <2>2 DEF RefuseFile, UnusedAt
  <1>f. UnlockFails(p, v.ip) => UnusedAt(i)'
    BY <1>b DEF UnlockFails, UnusedAt
  <1>g. ASSUME owner' = [owner EXCEPT ![v.ip] = Nil] PROVE owner'[i] = owner[i]
    BY <1>0, <1>b, <1>e, <1>g DEF TypeOK
  <1>11. CASE Drop(p)
    <2>1. CASE owner[v.ip] = p
      <3>1. ~UnlockFails(p, v.ip)
        BY <2>1 DEF UnlockFails
      <3>2. QED
        BY <1>b, <1>c, <1>g, <1>11, <3>1 DEF Drop, UnusedAt
    <2>2. QED
      BY <1>b, <1>f, <1>11, <2>1 DEF Drop
  <1>12. CASE FileCall(p)
    <2>1. PICK k \in DOMAIN fds[p], o \in {"read", "write"} :
             /\ fds[p][k] # 0
             /\ local' = [local EXCEPT ![p] = [op |-> o, name |-> Nil, ip |-> files[fds[p][k]].ip]]
             /\ LockInode(p, files[fds[p][k]].ip, "io")
      BY <1>12 DEF FileCall
    <2> DEFINE w == [op |-> o, name |-> Nil, ip |-> files[fds[p][k]].ip]
    <2>2. w.ip \in Inodes /\ fds[p][k] \in FileIds
      BY <2>1, DescriptorFile
    <2>3. w.ip # i
      BY <1>b, <2>2 DEF UnusedAt
    <2>4. \A q \in Procs : local'[q].ip # i
      BY <1>0, <1>b, <2>1, <2>3, LocalOther, SMT DEF UnusedAt
    <2>5. owner'[i] = owner[i] /\ type'[i] = type[i]
      BY <1>0, <2>1, <2>2, <2>3, LockOther
    <2>6. QED
      BY <1>b, <1>12, <2>4, <2>5 DEF FileCall, UnusedAt
  <1>13. CASE FileReturns(p)
    <2>1. CASE owner[v.ip] = p
      <3>1. ~UnlockFails(p, v.ip)
        BY <2>1 DEF UnlockFails
      <3>2. QED
        BY <1>b, <1>c, <1>g, <1>13, <3>1 DEF FileReturns, UnusedAt
    <2>2. QED
      BY <1>b, <1>f, <1>13, <2>1 DEF FileReturns
  <1>14. CASE CloseCall(p)
    BY <1>b, <1>14, CloseUnused DEF CloseCall
  <1>15. CASE ClosePuts(p)
    <2>1. Idle.ip # i
      BY <1>b DEF Idle
    <2>2. \A q \in Procs : local'[q].ip # i
      BY <1>0, <1>b, <1>15, <2>1, LocalOther, SMT DEF ClosePuts, UnusedAt
    <2>3. QED
      BY <1>b, <1>15, <2>2 DEF ClosePuts, UnusedAt
  <1>16. CASE Fork(p)
    <2>1. \A f \in FileIds : files'[f].ip = files[f].ip
      BY <1>0, <1>16, SMT DEF Fork, Dupped, TypeOK
    <2>2. QED
      BY <1>b, <1>16, <2>1 DEF Fork, UnusedAt
  <1>17. CASE ExitCall(p)
    BY <1>b, <1>17 DEF ExitCall, UnusedAt
  <1>18. CASE ExitCloses(p)
    BY <1>b, <1>18, CloseUnused DEF ExitCloses
  <1>19. CASE ExitEnds(p)
    BY <1>b, <1>19 DEF ExitEnds, UnusedAt
  <1>20. QED
    BY <1>1, <1>2, <1>3, <1>4, <1>5, <1>6, <1>7, <1>8, <1>9, <1>10, <1>11, <1>12, <1>13, <1>14,
      <1>15, <1>16, <1>17, <1>18, <1>19 DEF Step

\* The calls inside an operation of the log.
Logging == {"open", "exec", "write", "forget"} \cup Creates

\* A call joins the operations, leaves them, or neither.
LEMMA OperationSets ==
    ASSUME TypeOK, NEW p \in Procs, NEW w, local' = [local EXCEPT ![p] = w]
    PROVE  /\ local[p].op \notin Logging /\ w.op \in Logging =>
                Cardinality(InOperation') = Cardinality(InOperation) + 1
           /\ local[p].op \in Logging /\ w.op \notin Logging =>
                Cardinality(InOperation') = Cardinality(InOperation) - 1
           /\ (local[p].op \in Logging <=> w.op \in Logging) => InOperation' = InOperation
  <1>1. local'[p] = w /\ \A q \in Procs \ {p} : local'[q] = local[q]
    BY SetLocal
  <1>2. IsFiniteSet(InOperation)
    <2>1. IsFiniteSet(Procs) /\ InOperation \subseteq Procs
      BY FilesAssumption DEF InOperation
    <2>2. QED
      BY <2>1, FS_Subset
  <1>3. CASE local[p].op \notin Logging /\ w.op \in Logging
    <2>1. p \notin InOperation /\ InOperation' = InOperation \cup {p}
      BY <1>1, <1>3 DEF InOperation, Logging
    <2>2. QED
      BY <1>2, <1>3, <2>1, FS_AddElement
  <1>4. CASE local[p].op \in Logging /\ w.op \notin Logging
    <2>1. p \in InOperation /\ InOperation' = InOperation \ {p}
      BY <1>1, <1>4 DEF InOperation, Logging
    <2>2. QED
      BY <1>2, <1>4, <2>1, FS_RemoveElement
  <1>5. CASE local[p].op \in Logging <=> w.op \in Logging
    <2>1. InOperation' = InOperation
      BY <1>1, <1>5 DEF InOperation, Logging
    <2>2. QED
      BY <1>5, <2>1
  <1>6. QED
    BY <1>3, <1>4, <1>5

\* A step that neither begins nor ends an operation.
LEMMA SameOperations ==
    ASSUME OperationsCounted, UNCHANGED operations, InOperation' = InOperation
    PROVE  OperationsCounted'
  BY DEF OperationsCounted, operations

\* The number of calls in an operation.
LEMMA OperationsNumber == Cardinality(InOperation) \in Nat
  <1>1. IsFiniteSet(Procs) /\ InOperation \subseteq Procs
    BY FilesAssumption DEF InOperation
  <1>2. QED
    BY <1>1, FS_Subset, FS_CardinalityType

\* A call o returns from an operation, or from a read.
LEMMA EndOperation ==
    ASSUME TypeOK, OperationsCounted, NEW p \in Procs, Return(p), EndOp(local[p].op),
           local[p].op \in Logging \cup {"read"}
    PROVE  OperationsCounted'
  <1> DEFINE o == local[p].op
  <1>0. Idle.op \notin Logging /\ local' = [local EXCEPT ![p] = Idle]
    BY DEF Idle, Logging, Creates, Return
  <1>1. outstanding \in Int /\ forgotten \in Int /\ Cardinality(InOperation) \in Nat
    BY OperationsNumber DEF TypeOK
  <1>2. CASE o = "read"
    <2>1. InOperation' = InOperation
      BY <1>0, <1>2, OperationSets DEF Logging, Creates
    <2>2. outstanding' = outstanding /\ forgotten' = forgotten
      BY <1>1, <1>2, SMT DEF EndOp, Ended
    <2>3. QED
      BY <2>1, <2>2 DEF OperationsCounted
  <1>3. CASE o # "read"
    <2>1. Cardinality(InOperation') = Cardinality(InOperation) - 1
      BY <1>0, <1>3, OperationSets
    <2>2. outstanding' - forgotten' = outstanding - forgotten - 1
      BY <1>1, <1>3, SMT DEF EndOp, Ended
    <2>3. outstanding' \in Int /\ forgotten' \in Int
      BY OperationTypes
    <2>4. outstanding = forgotten + Cardinality(InOperation)
      BY DEF OperationsCounted
    <2>5. outstanding' = forgotten' + Cardinality(InOperation')
      BY <1>1, <2>1, <2>2, <2>3, <2>4, SMT
    <2>6. QED
      BY <2>5 DEF OperationsCounted
  <1>4. QED
    BY <1>2, <1>3

\* A call w begins an operation.
LEMMA BeginOperation ==
    ASSUME TypeOK, OperationsCounted, NEW p \in Procs, NEW w, local' = [local EXCEPT ![p] = w],
           BeginOp, local[p].op \notin Logging, w.op \in Logging
    PROVE  OperationsCounted'
  <1>1. outstanding \in Int /\ forgotten \in Int /\ Cardinality(InOperation) \in Nat
    BY OperationsNumber DEF TypeOK
  <1>2. Cardinality(InOperation') = Cardinality(InOperation) + 1
    BY OperationSets
  <1>3. QED
    BY <1>1, <1>2, SMT DEF OperationsCounted, BeginOp

\* File::close begins an operation exactly when it has an inode to put.
LEMMA CloseOperations ==
    ASSUME IInv, NEW p \in Procs, NEW k \in DOMAIN fds[p], NEW op \in {"close", "exit"}, Close(p, k, op),
           local[p] = Idle
    PROVE  OperationsCounted'
  <1> DEFINE w == [op |-> op, name |-> Nil, ip |-> files[fds[p][k]].ip]
  <1>0. TypeOK /\ OperationsCounted /\ UNCHANGED operations
    BY DEF IInv, Close
  <1>1. CASE files[fds[p][k]].ref = 1
    <2>1. local' = [local EXCEPT ![p] = w]
      BY <1>1 DEF Close
    <2>2. local[p].op \notin Logging /\ w.op \notin Logging
      BY SMT DEF Idle, Logging, Creates
    <2>3. QED
      BY <1>0, <2>1, <2>2, OperationSets, SameOperations
  <1>2. CASE files[fds[p][k]].ref # 1
    <2>1. InOperation' = InOperation
      BY <1>2 DEF Close, InOperation
    <2>2. QED
      BY <1>0, <2>1, SameOperations
  <1>3. QED
    BY <1>1, <1>2

\* Every step of Files counts the operations it begins, ends and forgets.
LEMMA OperationsStep == ASSUME IInv, NEW p \in Procs, Step(p) PROVE OperationsCounted'
  <1> DEFINE v == local[p]
  <1>0. TypeOK /\ OperationsCounted /\ ShapeAt(pc[p], v, fds[p])
    BY DEF IInv, Shape
  <1>a. ASSUME UNCHANGED local, UNCHANGED operations PROVE OperationsCounted'
    <2>1. InOperation' = InOperation
      BY <1>a DEF InOperation
    <2>2. QED
      BY <1>0, <1>a, <2>1, SameOperations
  <1>b. ASSUME NEW w, local' = [local EXCEPT ![p] = w], UNCHANGED operations, v.op \in Logging <=> w.op \in Logging
        PROVE  OperationsCounted'
    BY <1>0, <1>b, OperationSets, SameOperations
  <1>c. Walking \subseteq Logging /\ Idle.op \notin Logging
    BY DEF Walking, Logging, Idle, Creates
  <1>1. CASE OpenCall(p)
    <2>1. PICK n \in Names \cup {Nil}, o \in Walking :
              local' = [local EXCEPT ![p] = [op |-> o, name |-> n, ip |-> Root]]
      BY <1>1 DEF OpenCall, Walking
    <2> DEFINE w == [op |-> o, name |-> n, ip |-> Root]
    <2>2. v.op \notin Logging
      BY <1>0, <1>c, <1>1 DEF OpenCall, ShapeAt
    <2>3. w.op \in Logging
      BY <1>c, <2>1
    <2>4. QED
      BY <1>0, <1>1, <2>1, <2>2, <2>3, BeginOperation DEF OpenCall
  <1>2. CASE Walk(p)
    BY <1>a, <1>2 DEF Walk
  <1>3. CASE LockParent(p)
    BY <1>a, <1>3 DEF LockParent
  <1>4. CASE LookupFinds(p)
    <2> DEFINE w == [v EXCEPT !.name = Nil, !.ip = DirLookup(v.name)]
    <2>1. local' = [local EXCEPT ![p] = w] /\ w.op = v.op
      BY <1>0, <1>4 DEF TypeOK, LookupFinds, Locals
    <2>2. QED
      BY <1>b, <1>4, <2>1 DEF LookupFinds
  <1>5. CASE LookupMisses(p)
    <2>1. v.op \in Logging
      BY <1>0, <1>c, <1>5 DEF LookupMisses, ShapeAt
    <2>2. QED
      BY <1>0, <1>5, <2>1, EndOperation DEF LookupMisses
  <1>6. CASE CreateLinks(p)
    <2>1. PICK j \in FreeInodes : local' = [local EXCEPT ![p].name = Nil, ![p].ip = j]
      BY <1>6 DEF CreateLinks
    <2> DEFINE w == [v EXCEPT !.name = Nil, !.ip = j]
    <2>2. local' = [local EXCEPT ![p] = w] /\ w.op = v.op
      BY <1>0, <2>1 DEF TypeOK, Locals
    <2>3. QED
      BY <1>b, <1>6, <2>2 DEF CreateLinks
  <1>7. CASE CreateFails(p)
    <2>1. v.op \in Logging
      BY <1>0, <1>c, <1>7 DEF CreateFails, ShapeAt
    <2>2. QED
      BY <1>0, <1>7, <2>1, EndOperation DEF CreateFails
  <1>8. CASE LockFound(p)
    BY <1>a, <1>8 DEF LockFound
  <1>9. CASE AllocateFile(p)
    <2> DEFINE w == [v EXCEPT !.op = "write"]
    <2>1. local' = [local EXCEPT ![p] = w] /\ w.op = "write"
      BY <1>0, <1>9, SMT DEF TypeOK, AllocateFile, Locals
    <2>2. v.op \in Logging /\ w.op \in Logging
      BY <1>0, <1>9, <2>1 DEF AllocateFile, ShapeAt, Logging, Creates
    <2>3. QED
      BY <1>b, <1>9, <2>1, <2>2 DEF AllocateFile
  <1>10. CASE RefuseFile(p)
    <2> DEFINE o == IF type[v.ip] = "bad" THEN "forget" ELSE v.op
               w == [v EXCEPT !.op = o]
    <2>1. local' = [local EXCEPT ![p] = w] /\ w.op = o
      BY <1>0, <1>10 DEF TypeOK, RefuseFile, Locals
    <2>2. v.op \in Logging /\ w.op \in Logging
      BY <1>0, <1>10, <2>1 DEF RefuseFile, ShapeAt, Logging, Creates
    <2>3. QED
      BY <1>b, <1>10, <2>1, <2>2 DEF RefuseFile
  <1>11. CASE Drop(p)
    <2>1. v.op \in Logging
      BY <1>0, <1>c, <1>11 DEF Drop, ShapeAt, Logging
    <2>2. CASE UnlockFails(p, v.ip)
      BY <1>a, <2>2 DEF UnlockFails
    <2>3. QED
      BY <1>0, <1>11, <2>1, <2>2, EndOperation DEF Drop
  <1>12. CASE FileCall(p)
    <2>1. PICK k \in DOMAIN fds[p], o \in {"read", "write"} :
             /\ local' = [local EXCEPT ![p] = [op |-> o, name |-> Nil, ip |-> files[fds[p][k]].ip]]
             /\ IF o = "write" THEN BeginOp ELSE UNCHANGED operations
      BY <1>12 DEF FileCall
    <2> DEFINE w == [op |-> o, name |-> Nil, ip |-> files[fds[p][k]].ip]
    <2>2. v.op \notin Logging
      BY <1>0, <1>c, <1>12 DEF FileCall, ShapeAt
    <2>3. w.op \in Logging <=> o = "write"
      BY DEF Logging, Creates
    <2>4. CASE o = "write"
      BY <1>0, <2>1, <2>2, <2>3, <2>4, BeginOperation
    <2>5. CASE o # "write"
      BY <1>b, <2>1, <2>2, <2>3, <2>5
    <2>6. QED
      BY <2>4, <2>5
  <1>13. CASE FileReturns(p)
    <2>1. v.op \in Logging \cup {"read"}
      BY <1>0, <1>13 DEF FileReturns, ShapeAt, Logging
    <2>2. CASE UnlockFails(p, v.ip)
      BY <1>a, <2>2 DEF UnlockFails
    <2>3. QED
      BY <1>0, <1>13, <2>1, <2>2, EndOperation DEF FileReturns
  <1>14. CASE CloseCall(p)
    <2>1. v = Idle
      BY <1>0, <1>14 DEF CloseCall, ShapeAt
    <2>2. QED
      BY <1>14, <2>1, CloseOperations DEF CloseCall
  <1>15. CASE ClosePuts(p)
    <2>1. v.op \notin Logging
      BY <1>0, <1>15 DEF ClosePuts, ShapeAt, Logging, Creates
    <2>2. QED
      BY <1>b, <1>c, <1>15, <2>1 DEF ClosePuts
  <1>16. CASE Fork(p)
    BY <1>a, <1>16 DEF Fork
  <1>17. CASE ExitCall(p)
    BY <1>a, <1>17 DEF ExitCall
  <1>18. CASE ExitCloses(p)
    <2>1. v = Idle
      BY <1>0, <1>18 DEF ExitCloses, ShapeAt
    <2>2. QED
      BY <1>18, <2>1, CloseOperations DEF ExitCloses
  <1>19. CASE ExitEnds(p)
    BY <1>a, <1>19 DEF ExitEnds
  <1>20. QED
    BY <1>1, <1>2, <1>3, <1>4, <1>5, <1>6, <1>7, <1>8, <1>9, <1>10, <1>11, <1>12, <1>13, <1>14,
      <1>15, <1>16, <1>17, <1>18, <1>19 DEF Step

-----------------------------------------------------------------------------
(***************************************************************************)
(* The counts of files.                                                    *)
(***************************************************************************)
\* A descriptor is added for the file that AllocateFile takes.
LEMMA AllocateRefs ==
    ASSUME IInv, NEW p \in Procs, AllocateFile(p)
    PROVE  FileRefsExact'
  <1> DEFINE v == local[p]
  <1>0. TypeOK /\ FileRefsExact /\ ShapeAt(pc[p], v, fds[p])
    BY DEF IInv, Shape
  <1>1. PICK f \in FreeFiles : /\ files' = [files EXCEPT ![f] = [ref |-> 1, ip |-> v.ip]]
                               /\ fds' = [fds EXCEPT ![p] = Append(@, f)]
    BY DEF AllocateFile
  <1>2. f \in FileIds /\ files[f].ref = 0
    BY DEF FreeFiles
  <1>3. v.op \in Walking /\ v.ip \in Inodes
    BY <1>0 DEF AllocateFile, ShapeAt, Walking, Creates
  <1>4. fds[p] \in Seq(0 .. NUM_FILES) /\ Len(fds[p]) < MaxFds /\ Len(fds[p]) \in Nat
    BY <1>0, <1>3, SMT DEF ShapeAt, TypeOK
  <1> DEFINE s == Append(fds[p], f)
             k == Len(fds[p]) + 1
  <1>5. /\ DOMAIN s = 1 .. k /\ DOMAIN fds[p] = 1 .. k - 1
        /\ s[k] = f /\ \A j \in 1 .. k - 1 : s[j] = fds[p][j]
    BY <1>2, <1>4, SMT
  <1>6. k \in 1 .. MaxFds
    BY <1>4, FilesAssumption, SMT
  <1>7. fds'[p] = s /\ \A q \in Procs \ {p} : fds'[q] = fds[q]
    BY <1>0, <1>1, SetFds
  <1>8. Descriptors(f)' = Descriptors(f) \cup {<<p, k>>} /\ <<p, k>> \notin Descriptors(f)
    BY <1>5, <1>6, <1>7, SMT DEF Descriptors
  <1>9. \A g \in FileIds : g # f => Descriptors(g)' = Descriptors(g)
    BY <1>5, <1>6, <1>7, SMT DEF Descriptors
  <1>10. Cardinality(Descriptors(f)') = 1
    <2>1. Cardinality(Descriptors(f)) = 0
      BY <1>0, <1>2 DEF FileRefsExact
    <2>2. QED
      <3>1. IsFiniteSet(Descriptors(f))
        BY DescriptorsFinite
      <3>2. Cardinality(Descriptors(f) \cup {<<p, k>>}) = Cardinality(Descriptors(f)) + 1
        BY <1>8, <3>1, FS_AddElement
      <3>3. QED
        BY <1>8, <2>1, <3>2, SMT
  <1>11. files'[f].ref = 1 /\ files'[f].ip = v.ip /\ \A g \in FileIds : g # f => files'[g] = files[g]
    BY <1>0, <1>1, <1>2 DEF TypeOK
  <1>12. QED
    BY <1>0, <1>3, <1>9, <1>10, <1>11, InodeFacts, SMT DEF FileRefsExact

\* The descriptor that is closed is gone.
LEMMA CloseRefs ==
    ASSUME IInv, NEW p \in Procs, NEW k \in DOMAIN fds[p], NEW op, Close(p, k, op)
    PROVE  FileRefsExact'
  <1> DEFINE s == [fds[p] EXCEPT ![k] = 0]
  <1>0. TypeOK /\ FileRefsExact /\ fds[p] \in Seq(0 .. NUM_FILES)
    BY DEF IInv, TypeOK
  <1>1. PICK f \in FileIds : /\ f = fds[p][k] /\ k \in 1 .. MaxFds /\ <<p, k>> \in Descriptors(f)
                             /\ files[f].ref >= 1 /\ files[f].ip \in Inodes
    BY DescriptorFile DEF Close
  <1>2. fds'[p] = s /\ \A q \in Procs \ {p} : fds'[q] = fds[q]
    <2>1. fds' = [fds EXCEPT ![p] = s]
      BY <1>0 DEF Close, TypeOK
    <2>2. QED
      BY <1>0, <2>1, SetFds
  <1>3. DOMAIN s = DOMAIN fds[p] /\ s[k] = 0 /\ \A j \in DOMAIN fds[p] : j # k => s[j] = fds[p][j]
    BY <1>0
  <1>4. Descriptors(f)' = Descriptors(f) \ {<<p, k>>}
    BY <1>1, <1>2, <1>3, InodeFacts, SMT DEF Descriptors
  <1>5. \A g \in FileIds : g # f => Descriptors(g)' = Descriptors(g)
    BY <1>1, <1>2, <1>3, InodeFacts, SMT DEF Descriptors
  <1>6. Cardinality(Descriptors(f)') = files[f].ref - 1
    <2>1. IsFiniteSet(Descriptors(f)) /\ Cardinality(Descriptors(f)) = files[f].ref
      BY <1>0, DescriptorsFinite DEF FileRefsExact
    <2>2. Cardinality(Descriptors(f) \ {<<p, k>>}) = Cardinality(Descriptors(f)) - 1
      BY <1>1, <2>1, FS_RemoveElement
    <2>3. QED
      BY <1>4, <2>1, <2>2
  <1>7. files' = Closed(f)
    BY <1>1 DEF Close
  <1>8. \A g \in FileIds : g # f => files'[g] = files[g]
    BY <1>0, <1>1, <1>7, ClosedFiles
  <1>9. files[f].ref \in Int
    BY <1>0, <1>1 DEF TypeOK
  <1>10. files'[f].ref = files[f].ref - 1 /\ (files'[f].ref = 0 <=> files'[f].ip = Nil)
    <2>1. CASE files[f].ref > 1
      <3>1. files'[f].ref = files[f].ref - 1 /\ files'[f].ip = files[f].ip
        BY <1>0, <1>1, <1>7, <2>1, ClosedFiles
      <3>2. QED
        BY <1>1, <1>9, <2>1, <3>1, InodeFacts, SMT
    <2>2. CASE ~(files[f].ref > 1)
      <3>1. files'[f].ref = 0 /\ files'[f].ip = Nil
        BY <1>0, <1>1, <1>7, <2>2, ClosedFiles
      <3>2. files[f].ref = 1
        BY <1>1, <1>9, <2>2, SMT
      <3>3. QED
        BY <3>1, <3>2, SMT
    <2>3. QED
      BY <2>1, <2>2
  <1>11. QED
    BY <1>0, <1>5, <1>6, <1>8, <1>10 DEF FileRefsExact

\* The child has the descriptors of its parent.
LEMMA ForkRefs ==
    ASSUME IInv, NEW p \in Procs, Fork(p)
    PROVE  FileRefsExact'
  <1>0. TypeOK /\ FileRefsExact /\ fds[p] \in Seq(0 .. NUM_FILES)
    BY DEF IInv, TypeOK
  <1>1. PICK q \in Procs : pc[q] = "none" /\ fds' = [fds EXCEPT ![q] = fds[p]]
    BY DEF Fork
  <1>2. q # p /\ fds[q] = << >> /\ Len(fds[p]) <= MaxFds
    BY <1>1 DEF Fork, IInv, Shape, ShapeAt
  <1>3. fds'[q] = fds[p] /\ \A r \in Procs \ {q} : fds'[r] = fds[r]
    BY <1>0, <1>1, SetFds
  <1>4. DOMAIN fds[p] \subseteq 1 .. MaxFds /\ DOMAIN fds[q] = {}
    BY <1>0, <1>2, FilesAssumption, SMT
  <1> SUFFICES ASSUME NEW f \in FileIds
               PROVE  /\ files'[f].ref = Cardinality(Descriptors(f)')
                      /\ files'[f].ref = 0 <=> files'[f].ip = Nil
    BY DEF FileRefsExact
  <1> DEFINE D == {q} \X Uses(fds[p], f)
  <1>5. Descriptors(f)' = Descriptors(f) \cup D
    BY <1>3, <1>4 DEF Descriptors, Uses
  <1>6. Descriptors(f) \cap D = {}
    BY <1>4 DEF Descriptors, Uses
  <1>7. IsFiniteSet(D) /\ Cardinality(D) = Cardinality(Uses(fds[p], f))
    <2>1. IsFiniteSet({q}) /\ Cardinality({q}) = 1
      BY FS_Singleton
    <2>2. IsFiniteSet(Uses(fds[p], f)) /\ Cardinality(Uses(fds[p], f)) \in Nat
      BY <1>0, UsesFinite
    <2>3. IsFiniteSet(D) /\ Cardinality(D) = 1 * Cardinality(Uses(fds[p], f))
      BY <2>1, <2>2, FS_Product
    <2>4. QED
      BY <2>2, <2>3, SMT
  <1>8. Cardinality(Descriptors(f)') = Cardinality(Descriptors(f)) + Cardinality(Uses(fds[p], f))
    <2>1. Cardinality(Descriptors(f) \cup D) =
             Cardinality(Descriptors(f)) + Cardinality(D) - Cardinality(Descriptors(f) \cap D)
      BY <1>7, DescriptorsFinite, FS_Union
    <2>2. Cardinality(Descriptors(f) \cap D) = 0
      BY <1>6, FS_EmptySet
    <2>3. Cardinality(Descriptors(f)) \in Nat /\ Cardinality(Uses(fds[p], f)) \in Nat
      BY <1>0, DescriptorsFinite, UsesFinite
    <2>4. QED
      BY <1>5, <1>7, <2>1, <2>2, <2>3, SMT
  <1>9. files'[f].ref = files[f].ref + Cardinality(Uses(fds[p], f)) /\ files'[f].ip = files[f].ip
    BY <1>0, DuppedFiles DEF Fork
  <1>10. files[f].ref = Cardinality(Descriptors(f)) /\ (files[f].ref = 0 <=> files[f].ip = Nil)
    BY <1>0 DEF FileRefsExact
  <1>11. files[f].ref = 0 => Cardinality(Uses(fds[p], f)) = 0
    <2>1. ASSUME Uses(fds[p], f) # {} PROVE Descriptors(f) # {}
      <3>1. PICK k \in DOMAIN fds[p] : fds[p][k] = f
        BY <2>1 DEF Uses
      <3>2. <<p, k>> \in Descriptors(f)
        BY <1>4, <3>1 DEF Descriptors
      <3>3. QED
        BY <3>2
    <2>2. QED
      BY <1>10, <2>1, DescriptorsFinite, FS_EmptySet
  <1>12. Cardinality(Descriptors(f)) \in Nat /\ Cardinality(Uses(fds[p], f)) \in Nat
    BY <1>0, DescriptorsFinite, UsesFinite
  <1>13. QED
    BY <1>8, <1>9, <1>10, <1>11, <1>12, SMT

\* A process that ends has closed its descriptors.
LEMMA ExitRefs ==
    ASSUME IInv, NEW p \in Procs, ExitEnds(p)
    PROVE  FileRefsExact'
  <1>0. TypeOK /\ FileRefsExact
    BY DEF IInv
  <1>1. fds'[p] = << >> /\ \A q \in Procs \ {p} : fds'[q] = fds[q]
    BY <1>0, SetFds DEF ExitEnds
  <1>2. \A k \in DOMAIN fds[p] : fds[p][k] = 0
    BY DEF ExitEnds
  <1>3. DOMAIN fds'[p] = {}
    BY <1>1, SMT
  <1>4. \A f \in FileIds : Descriptors(f)' = Descriptors(f)
    BY <1>1, <1>2, <1>3, InodeFacts, SMT DEF Descriptors
  <1>5. QED
    BY <1>0, <1>4 DEF FileRefsExact, ExitEnds

\* Every step of Files keeps the counts of the files exact.
LEMMA FileRefsStep == ASSUME IInv, NEW p \in Procs, Step(p) PROVE FileRefsExact'
  <1>1. CASE UNCHANGED <<fds, files>>
    <2>1. \A f \in FileIds : Descriptors(f)' = Descriptors(f)
      BY <1>1 DEF Descriptors
    <2>2. QED
      BY <1>1, <2>1 DEF IInv, FileRefsExact
  <1>2. CASE AllocateFile(p)
    BY <1>2, AllocateRefs
  <1>3. CASE CloseCall(p) \/ ExitCloses(p)
    BY <1>3, CloseRefs DEF CloseCall, ExitCloses
  <1>4. CASE Fork(p)
    BY <1>4, ForkRefs
  <1>5. CASE ExitEnds(p)
    BY <1>5, ExitRefs
  <1>6. QED
    BY <1>1, <1>2, <1>3, <1>4, <1>5 DEF Step, OpenCall, Walk, LockParent, LookupFinds, LookupMisses,
      CreateLinks, CreateFails, LockFound, RefuseFile, Drop, UnlockFails, FileCall, FileReturns,
      ClosePuts, ExitCall
-----------------------------------------------------------------------------
(***************************************************************************)
(* The counts of inodes.  A step adds to the count of an inode what it     *)
(* adds to its open files, to the calls that hold it and to the processes  *)
(* that have it as their directory.                                        *)
(***************************************************************************)
One(b) == IF b THEN 1 ELSE 0

\* A call holds its inode.
Holds(v, i) == v.ip = i /\ v.op \notin {"read", "write"}

\* The three sets are finite.
LEMMA HoldersFinite ==
    ASSUME NEW i
    PROVE  /\ IsFiniteSet(OpenFiles(i)) /\ Cardinality(OpenFiles(i)) \in Nat
           /\ IsFiniteSet(Calls(i)) /\ Cardinality(Calls(i)) \in Nat
           /\ IsFiniteSet(Cwds(i)) /\ Cardinality(Cwds(i)) \in Nat
  <1>1. IsFiniteSet(FileIds) /\ IsFiniteSet(Procs)
    BY FilesAssumption, FS_Interval, SMT DEF FileIds
  <1>2. OpenFiles(i) \subseteq FileIds /\ Calls(i) \subseteq Procs /\ Cwds(i) \subseteq Procs
    BY DEF OpenFiles, Calls, Cwds
  <1>3. IsFiniteSet(OpenFiles(i)) /\ IsFiniteSet(Calls(i)) /\ IsFiniteSet(Cwds(i))
    BY <1>1, <1>2, FS_Subset
  <1>4. QED
    BY <1>3, FS_CardinalityType

\* A set that gains or loses at most an element.
LEMMA OneMore ==
    ASSUME NEW S, IsFiniteSet(S), NEW T, NEW x, T \ {x} = S \ {x}
    PROVE  Cardinality(T) = Cardinality(S) + One(x \in T) - One(x \in S)
  <1>1. Cardinality(S) \in Nat
    BY FS_CardinalityType
  <1>2. CASE x \in T /\ x \notin S
    <2>1. T = S \cup {x}
      BY <1>2
    <2>2. QED
      BY <1>1, <1>2, <2>1, FS_AddElement, SMT DEF One
  <1>3. CASE x \notin T /\ x \in S
    <2>1. T = S \ {x}
      BY <1>3
    <2>2. QED
      BY <1>1, <1>3, <2>1, FS_RemoveElement, SMT DEF One
  <1>4. CASE x \in T <=> x \in S
    <2>1. T = S
      BY <1>4, SMT
    <2>2. QED
      BY <1>1, <1>4, <2>1, SMT DEF One
  <1>5. QED
    BY <1>2, <1>3, <1>4

\* What a process does changes the calls that hold an inode.
LEMMA CallsChange ==
    ASSUME TypeOK, NEW p \in Procs, NEW w, local' = [local EXCEPT ![p] = w], NEW i
    PROVE  Cardinality(Calls(i)') = Cardinality(Calls(i)) + One(Holds(w, i)) - One(Holds(local[p], i))
  <1>1. local'[p] = w /\ \A q \in Procs \ {p} : local'[q] = local[q]
    BY SetLocal
  <1>2. Calls(i)' \ {p} = Calls(i) \ {p}
    BY <1>1 DEF Calls
  <1>3. (p \in Calls(i)' <=> Holds(w, i)) /\ (p \in Calls(i) <=> Holds(local[p], i))
    BY <1>1 DEF Calls, Holds
  <1>4. IsFiniteSet(Calls(i))
    BY HoldersFinite
  <1>5. Cardinality(Calls(i)') = Cardinality(Calls(i)) + One(p \in Calls(i)') - One(p \in Calls(i))
    BY <1>2, <1>4, OneMore
  <1>6. QED
    BY <1>3, <1>5 DEF One

\* Where a process is changes who has the root as its directory.
LEMMA CwdsChange ==
    ASSUME TypeOK, NEW p \in Procs, NEW at, Go(p, at), NEW i
    PROVE  Cardinality(Cwds(i)') = Cardinality(Cwds(i))
              + One(i = Root /\ at \notin {"none", "gone"})
              - One(i = Root /\ pc[p] \notin {"none", "gone"})
  <1>1. pc'[p] = at /\ \A q \in Procs \ {p} : pc'[q] = pc[q]
    BY SetPc
  <1>2. Cwds(i)' \ {p} = Cwds(i) \ {p}
    BY <1>1 DEF Cwds
  <1>3. /\ p \in Cwds(i)' <=> (i = Root /\ at \notin {"none", "gone"})
        /\ p \in Cwds(i) <=> (i = Root /\ pc[p] \notin {"none", "gone"})
    BY <1>1 DEF Cwds
  <1>4. IsFiniteSet(Cwds(i))
    BY HoldersFinite
  <1>5. Cardinality(Cwds(i)') = Cardinality(Cwds(i)) + One(p \in Cwds(i)') - One(p \in Cwds(i))
    BY <1>2, <1>4, OneMore
  <1>6. QED
    BY <1>3, <1>5 DEF One

\* A file gets an inode, or loses it.
LEMMA OpenFilesChange ==
    ASSUME NEW f \in FileIds, \A g \in FileIds : g # f => files'[g].ip = files[g].ip, NEW i
    PROVE  Cardinality(OpenFiles(i)') =
              Cardinality(OpenFiles(i)) + One(files'[f].ip = i) - One(files[f].ip = i)
  <1>1. OpenFiles(i)' \ {f} = OpenFiles(i) \ {f}
    BY DEF OpenFiles
  <1>2. (f \in OpenFiles(i)' <=> files'[f].ip = i) /\ (f \in OpenFiles(i) <=> files[f].ip = i)
    BY DEF OpenFiles
  <1>3. IsFiniteSet(OpenFiles(i))
    BY HoldersFinite
  <1>4. Cardinality(OpenFiles(i)') = Cardinality(OpenFiles(i)) + One(f \in OpenFiles(i)') - One(f \in OpenFiles(i))
    BY <1>1, <1>3, OneMore
  <1>5. QED
    BY <1>2, <1>4 DEF One

\* get and put.
LEMMA RefsChange ==
    ASSUME NEW r \in [Inodes -> Int], NEW j \in Inodes, NEW i \in Inodes
    PROVE  Got(r, j)[i] = r[i] + One(i = j) /\ Put(r, j)[i] = r[i] - One(i = j)
  BY SMT DEF Got, Put, One

\* InodeRefsExact for one inode.
RefAt(i) == ref[i] = Cardinality(OpenFiles(i)) + Cardinality(Calls(i)) + Cardinality(Cwds(i))

\* The count changes as the three sets do.
LEMMA Balanced ==
    ASSUME NEW i, RefAt(i), NEW a \in Int, NEW b \in Int, NEW c \in Int, NEW d \in Int,
           ref'[i] = ref[i] + a,
           Cardinality(OpenFiles(i)') = Cardinality(OpenFiles(i)) + b,
           Cardinality(Calls(i)') = Cardinality(Calls(i)) + c,
           Cardinality(Cwds(i)') = Cardinality(Cwds(i)) + d,
           a = b + c + d
    PROVE  RefAt(i)'
  <1>1. Cardinality(OpenFiles(i)) \in Nat /\ Cardinality(Calls(i)) \in Nat /\ Cardinality(Cwds(i)) \in Nat
    BY HoldersFinite
  <1>2. QED
    BY <1>1, SMT DEF RefAt

\* Nobody gets or loses inode i as its directory.
SameCwds(i) == Cardinality(Cwds(i)') = Cardinality(Cwds(i)) + 0

\* Nobody does in a call.
LEMMA CwdsSame ==
    ASSUME TypeOK, NEW p \in Procs, NEW at, Go(p, at), at \notin {"none", "gone"},
           pc[p] \notin {"none", "gone"}, NEW i
    PROVE  SameCwds(i)
  <1>1. Cardinality(Cwds(i)') = Cardinality(Cwds(i)) + One(i = Root) - One(i = Root)
    BY CwdsChange
  <1>2. Cardinality(Cwds(i)) \in Nat
    BY HoldersFinite
  <1>3. QED
    BY <1>1, <1>2, SMT DEF One, SameCwds

\* Nobody gets or loses a directory by locking an inode or by sleeping on it.
LEMMA LockCwds ==
    ASSUME TypeOK, NEW p \in Procs, NEW j, NEW at, LockInode(p, j, at), at \notin {"none", "gone"},
           pc[p] \notin {"none", "gone"}, NEW i
    PROVE  SameCwds(i)
  <1>1. Go(p, at) \/ Go(p, "asleep")
    BY DEF LockInode
  <1>2. QED
    BY <1>1, CwdsSame

\* A set that does not change.
LEMMA SameHolders ==
    ASSUME TypeOK, NEW i \in Inodes
    PROVE  /\ UNCHANGED ref => ref'[i] = ref[i] + 0
           /\ UNCHANGED files => Cardinality(OpenFiles(i)') = Cardinality(OpenFiles(i)) + 0
           /\ UNCHANGED local => Cardinality(Calls(i)') = Cardinality(Calls(i)) + 0
           /\ UNCHANGED pc => SameCwds(i)
  <1>1. Cardinality(OpenFiles(i)) \in Nat /\ Cardinality(Calls(i)) \in Nat /\ Cardinality(Cwds(i)) \in Nat
    BY HoldersFinite
  <1>2. UNCHANGED files => OpenFiles(i)' = OpenFiles(i)
    BY DEF OpenFiles
  <1>3. UNCHANGED local => Calls(i)' = Calls(i)
    BY DEF Calls
  <1>4. UNCHANGED pc => Cwds(i)' = Cwds(i)
    BY DEF Cwds
  <1>5. ref[i] \in Int
    BY DEF TypeOK
  <1>6. QED
    BY <1>1, <1>2, <1>3, <1>4, <1>5, SMT DEF SameCwds

\* A call goes from holding v.ip, or nothing, to holding w.ip, or nothing, and the count
\* of the inodes goes with it.
LEMMA CallBalance ==
    ASSUME TypeOK, NEW i \in Inodes, RefAt(i), NEW p \in Procs, NEW w, local' = [local EXCEPT ![p] = w],
           UNCHANGED files, SameCwds(i),
           ref'[i] = ref[i] + One(Holds(w, i)) - One(Holds(local[p], i))
    PROVE  RefAt(i)'
  <1> DEFINE a == One(Holds(w, i)) - One(Holds(local[p], i))
  <1>1. a \in Int
    BY SMT DEF One
  <1>2. ref[i] \in Int /\ Cardinality(Calls(i)) \in Nat
    BY HoldersFinite DEF TypeOK
  <1>3. ref'[i] = ref[i] + a
    BY <1>2 DEF One
  <1>4. Cardinality(Calls(i)') = Cardinality(Calls(i)) + a
    <2>1. Cardinality(Calls(i)') = Cardinality(Calls(i)) + One(Holds(w, i)) - One(Holds(local[p], i))
      BY CallsChange
    <2>2. QED
      BY <1>2, <2>1 DEF One
  <1>5. Cardinality(OpenFiles(i)') = Cardinality(OpenFiles(i)) + 0
    BY SameHolders
  <1>6. a = 0 + a + 0
    BY <1>1, SMT
  <1> HIDE DEF a
  <1>7. QED
    BY <1>1, <1>3, <1>4, <1>5, <1>6, Balanced, SMT DEF SameCwds

\* File::close passes the reference of the file to the call that puts it.
LEMMA CloseBalance ==
    ASSUME IInv, NEW i \in Inodes, NEW p \in Procs, NEW k \in DOMAIN fds[p], NEW op \in {"close", "exit"},
           Close(p, k, op), pc[p] \in {"user", "exit"}
    PROVE  RefAt(i)'
  <1>0. TypeOK /\ RefAt(i) /\ local[p] = Idle
    BY DEF IInv, InodeRefsExact, RefAt, Shape, ShapeAt
  <1>1. PICK f \in FileIds : f = fds[p][k] /\ files[f].ref >= 1 /\ files[f].ip \in Inodes
    BY DescriptorFile DEF Close
  <1>2. files' = Closed(f) /\ files[f].ref \in Int /\ ref'[i] = ref[i] + 0
    BY <1>0, <1>1, SameHolders DEF Close, TypeOK
  <1>3. \A g \in FileIds : g # f => files'[g].ip = files[g].ip
    BY <1>0, <1>2, ClosedFiles
  <1>4. Cardinality(OpenFiles(i)') = Cardinality(OpenFiles(i)) + One(files'[f].ip = i) - One(files[f].ip = i)
    BY <1>3, OpenFilesChange, SMT
  <1>5. Cardinality(OpenFiles(i)) \in Nat /\ Cardinality(Calls(i)) \in Nat
    BY HoldersFinite
  <1>6. CASE files[f].ref = 1
    <2> DEFINE w == [op |-> op, name |-> Nil, ip |-> files[f].ip]
               b == One(files[f].ip = i)
    <2>1. local' = [local EXCEPT ![p] = w] /\ Go(p, "put")
      BY <1>1, <1>6 DEF Close
    <2>2. files'[f].ip = Nil
      BY <1>0, <1>2, <1>6, ClosedFiles, SMT
    <2>3. Cardinality(OpenFiles(i)') = Cardinality(OpenFiles(i)) + (0 - b)
      BY <1>4, <1>5, <2>2, InodeFacts DEF One
    <2>4. Cardinality(Calls(i)') = Cardinality(Calls(i)) + One(Holds(w, i)) - One(Holds(Idle, i))
      BY <1>0, <2>1, CallsChange
    <2>5. (Holds(w, i) <=> files[f].ip = i) /\ ~Holds(Idle, i)
      BY InodeFacts DEF Holds, Idle
    <2>6. Cardinality(Calls(i)') = Cardinality(Calls(i)) + b
      BY <1>5, <2>4, <2>5, SMT DEF One
    <2>7. SameCwds(i)
      BY <1>0, <2>1, CwdsSame
    <2>8. b \in Int /\ 0 - b \in Int /\ 0 = (0 - b) + b + 0
      BY SMT DEF One
    <2> HIDE DEF b
    <2>9. QED
      BY <1>0, <1>2, <2>3, <2>6, <2>7, <2>8, Balanced, SMT DEF SameCwds
  <1>7. CASE files[f].ref # 1
    <2>1. files'[f].ip = files[f].ip
      BY <1>0, <1>1, <1>2, <1>7, ClosedFiles, SMT
    <2>2. Cardinality(OpenFiles(i)') = Cardinality(OpenFiles(i)) + 0
      BY <1>4, <1>5, <2>1, SMT DEF One
    <2>3. /\ Cardinality(Calls(i)') = Cardinality(Calls(i)) + 0
          /\ SameCwds(i)
      BY <1>0, <1>1, <1>7, SameHolders DEF Close
    <2>4. QED
      BY <1>0, <1>2, <2>2, <2>3, Balanced, SMT DEF SameCwds
  <1>8. QED
    BY <1>6, <1>7

\* What the proofs below use of the state.
LEMMA StateAt ==
    ASSUME IInv, NEW p \in Procs, NEW i \in Inodes
    PROVE  /\ TypeOK /\ RefAt(i) /\ ref \in [Inodes -> Int] /\ ref[i] \in Int
           /\ ShapeAt(pc[p], local[p], fds[p])
  BY DEF IInv, InodeRefsExact, RefAt, Shape, TypeOK

\* A step that moves no reference.
LEMMA StillBalance ==
    ASSUME TypeOK, NEW i \in Inodes, RefAt(i), UNCHANGED <<files, ref, local>>, SameCwds(i)
    PROVE  RefAt(i)'
  <1>1. /\ ref'[i] = ref[i] + 0
        /\ Cardinality(OpenFiles(i)') = Cardinality(OpenFiles(i)) + 0
        /\ Cardinality(Calls(i)') = Cardinality(Calls(i)) + 0
    BY SameHolders
  <1>2. Cardinality(OpenFiles(i)) \in Nat /\ Cardinality(Calls(i)) \in Nat /\ Cardinality(Cwds(i)) \in Nat
    BY HoldersFinite
  <1>3. QED
    BY <1>1, <1>2, SMT DEF RefAt, SameCwds

\* A process in user mode holds no inode.
LEMMA IdleHolds == ASSUME NEW i \in Inodes PROVE ~Holds(Idle, i)
  BY InodeFacts DEF Holds, Idle

\* A call that walks, forgets, closes or exits holds the inode it is at.
LEMMA CallHolds ==
    ASSUME NEW v, NEW i, v.op \in Walking \cup {"forget", "close", "exit"}
    PROVE  Holds(v, i) <=> v.ip = i
  BY DEF Holds, Walking, Creates

\* A call that holds an inode puts it and returns.
LEMMA ReturnBalance ==
    ASSUME TypeOK, NEW p \in Procs, NEW i \in Inodes, RefAt(i), Return(p), pc[p] \notin {"none", "gone"},
           UNCHANGED files, ref'[i] = ref[i] - One(Holds(local[p], i))
    PROVE  RefAt(i)'
  <1>1. SameCwds(i)
    BY CwdsSame DEF Return
  <1>2. ref[i] \in Int
    BY DEF TypeOK
  <1>3. ref'[i] = ref[i] + One(Holds(Idle, i)) - One(Holds(local[p], i))
    BY <1>2, IdleHolds, SMT DEF One
  <1>4. QED
    BY <1>1, <1>3, CallBalance DEF Return

\* A panic moves no reference.
LEMMA FailBalance ==
    ASSUME TypeOK, NEW p \in Procs, NEW i \in Inodes, RefAt(i), UnlockFails(p, local[p].ip)
    PROVE  RefAt(i)'
  <1>1. SameCwds(i)
    BY SameHolders DEF UnlockFails
  <1>2. QED
    BY <1>1, StillBalance DEF UnlockFails

\* A walk goes from the root to inode j.
LEMMA SwitchBalance ==
    ASSUME TypeOK, NEW p \in Procs, NEW i \in Inodes, RefAt(i), NEW j \in Inodes,
           ref' = Put(Got(ref, j), Root), local[p].op \in Walking, local[p].ip = Root,
           local' = [local EXCEPT ![p] = [local[p] EXCEPT !.name = Nil, !.ip = j]],
           SameCwds(i), UNCHANGED files
    PROVE  RefAt(i)'
  <1> DEFINE v == local[p]
             w == [v EXCEPT !.name = Nil, !.ip = j]
  <1>1. w.op = v.op /\ w.ip = j
    BY DEF TypeOK, Locals
  <1>2. (Holds(w, i) <=> i = j) /\ (Holds(v, i) <=> i = Root)
    BY <1>1 DEF Holds, Walking, Creates
  <1>3. ref \in [Inodes -> Int] /\ ref[i] \in Int /\ Root \in Inodes
    BY InodeFacts DEF TypeOK
  <1>4. ref'[i] = ref[i] + One(i = j) - One(i = Root)
    <2>1. Got(ref, j) \in [Inodes -> Int]
      BY <1>3, CountTypes
    <2>2. Got(ref, j)[i] = ref[i] + One(i = j)
      BY <1>3, RefsChange, SMT
    <2>3. Put(Got(ref, j), Root)[i] = Got(ref, j)[i] - One(i = Root)
      BY <1>3, <2>1, RefsChange, SMT
    <2>4. QED
      BY <1>3, <2>2, <2>3, SMT DEF One
  <1>5. ref'[i] = ref[i] + One(Holds(w, i)) - One(Holds(v, i))
    BY <1>2, <1>4 DEF One
  <1> HIDE DEF w
  <1>6. QED
    BY <1>5, CallBalance DEF w

\* A call that walks in the root puts it.
LEMMA RootBalance ==
    ASSUME TypeOK, NEW p \in Procs, NEW i \in Inodes, ShapeAt(pc[p], local[p], fds[p]),
           pc[p] = "lookup", ref' = Put(ref, Root)
    PROVE  ref'[i] = ref[i] - One(Holds(local[p], i))
  <1>1. Holds(local[p], i) <=> i = Root
    BY CallHolds DEF ShapeAt
  <1>2. ref \in [Inodes -> Int] /\ Root \in Inodes
    BY InodeFacts DEF TypeOK
  <1>3. ref'[i] = ref[i] - One(i = Root)
    BY <1>2, RefsChange, SMT
  <1>4. QED
    BY <1>1, <1>3 DEF One

\* Each action that moves a reference changes the count by what it takes and gives back.
LEMMA OpenCallBalance ==
    ASSUME IInv, NEW p \in Procs, NEW i \in Inodes, OpenCall(p)
    PROVE  RefAt(i)'
  <1> DEFINE v == local[p]
  <1>0. TypeOK /\ RefAt(i) /\ ref \in [Inodes -> Int] /\ ref[i] \in Int /\ ShapeAt(pc[p], v, fds[p])
    BY StateAt
  <1>a. Root \in Inodes /\ Nil # i
    BY InodeFacts
  <1>1. PICK n \in Names \cup {Nil}, o \in Walking :
            local' = [local EXCEPT ![p] = [op |-> o, name |-> n, ip |-> Root]]
    BY DEF OpenCall, Walking
  <1> DEFINE w == [op |-> o, name |-> n, ip |-> Root]
  <1>2. Holds(w, i) <=> i = Root
    BY DEF Holds, Walking, Creates
  <1>3. v = Idle /\ SameCwds(i)
    BY <1>0, CwdsSame DEF OpenCall, ShapeAt
  <1>4. ref'[i] = ref[i] + One(i = Root)
    <2>1. ref' = Got(ref, Root)
      BY DEF OpenCall
    <2>2. QED
      BY <1>0, <1>a, <2>1, RefsChange, SMT
  <1>5. ref'[i] = ref[i] + One(Holds(w, i)) - One(Holds(v, i))
    <2>1. ~Holds(v, i)
      BY <1>3, IdleHolds
    <2> HIDE DEF w
    <2>2. QED
      BY <1>2, <1>4, <2>1, SMT DEF One
  <1>6. QED
    BY <1>0, <1>1, <1>3, <1>5, CallBalance DEF OpenCall

\* Walking to the root keeps the count exact.
LEMMA WalkBalance ==
    ASSUME IInv, NEW p \in Procs, NEW i \in Inodes, Walk(p)
    PROVE  RefAt(i)'
  <1> DEFINE v == local[p]
  <1>0. TypeOK /\ RefAt(i) /\ ref \in [Inodes -> Int] /\ ref[i] \in Int /\ ShapeAt(pc[p], v, fds[p])
    BY StateAt
  <1>1. SameCwds(i)
    BY <1>0, CwdsSame, LockCwds DEF Walk
  <1>2. QED
    BY <1>0, <1>1, StillBalance DEF Walk

\* Locking the directory keeps the count exact.
LEMMA LockParentBalance ==
    ASSUME IInv, NEW p \in Procs, NEW i \in Inodes, LockParent(p)
    PROVE  RefAt(i)'
  <1> DEFINE v == local[p]
  <1>0. TypeOK /\ RefAt(i) /\ ref \in [Inodes -> Int] /\ ref[i] \in Int /\ ShapeAt(pc[p], v, fds[p])
    BY StateAt
  <1>1. SameCwds(i)
    BY <1>0, LockCwds DEF LockParent
  <1>2. QED
    BY <1>0, <1>1, StillBalance DEF LockParent

\* Finding the name keeps the count exact.
LEMMA LookupFindsBalance ==
    ASSUME IInv, NEW p \in Procs, NEW i \in Inodes, LookupFinds(p)
    PROVE  RefAt(i)'
  <1> DEFINE v == local[p]
  <1>0. TypeOK /\ RefAt(i) /\ ref \in [Inodes -> Int] /\ ref[i] \in Int /\ ShapeAt(pc[p], v, fds[p])
    BY StateAt
  <1> DEFINE j == DirLookup(v.name)
  <1>1. v.op \in Walking /\ v.name \in Names /\ v.ip = Root
    BY <1>0 DEF LookupFinds, ShapeAt
  <1>2. j \in Inodes
    BY <1>0, <1>1, InodeFacts DEF TypeOK, LookupFinds, DirLookup
  <1>3. local' = [local EXCEPT ![p] = [v EXCEPT !.name = Nil, !.ip = j]]
    BY <1>0 DEF TypeOK, LookupFinds
  <1>4. PICK at \in {"lock", "file", "drop"} : Go(p, at)
    BY DEF LookupFinds
  <1>5. SameCwds(i)
    BY <1>0, <1>4, CwdsSame DEF LookupFinds
  <1>6. ref' = Put(Got(ref, j), Root) /\ UNCHANGED files
    BY DEF LookupFinds
  <1> HIDE DEF j
  <1>7. QED
    BY <1>0, <1>1, <1>2, <1>3, <1>5, <1>6, SwitchBalance

\* A name that is not found keeps the count exact.
LEMMA LookupMissesBalance ==
    ASSUME IInv, NEW p \in Procs, NEW i \in Inodes, LookupMisses(p)
    PROVE  RefAt(i)'
  <1> DEFINE v == local[p]
  <1>0. TypeOK /\ RefAt(i) /\ ref \in [Inodes -> Int] /\ ref[i] \in Int /\ ShapeAt(pc[p], v, fds[p])
    BY StateAt
  <1>1. QED
    BY <1>0, ReturnBalance, RootBalance DEF LookupMisses

\* Linking a new inode keeps the count exact.
LEMMA CreateLinksBalance ==
    ASSUME IInv, NEW p \in Procs, NEW i \in Inodes, CreateLinks(p)
    PROVE  RefAt(i)'
  <1> DEFINE v == local[p]
  <1>0. TypeOK /\ RefAt(i) /\ ref \in [Inodes -> Int] /\ ref[i] \in Int /\ ShapeAt(pc[p], v, fds[p])
    BY StateAt
  <1>1. PICK j \in FreeInodes : /\ ref' = Put(Got(ref, j), Root)
                                /\ local' = [local EXCEPT ![p].name = Nil, ![p].ip = j]
    BY DEF CreateLinks
  <1>2. j \in Inodes
    BY InodeFacts DEF FreeInodes
  <1>3. v.op \in Walking /\ v.ip = Root
    BY <1>0 DEF CreateLinks, ShapeAt
  <1>4. local' = [local EXCEPT ![p] = [v EXCEPT !.name = Nil, !.ip = j]]
    BY <1>0, <1>1 DEF TypeOK
  <1>5. PICK at \in {"file", "drop"} : Go(p, at)
    BY DEF CreateLinks
  <1>6. SameCwds(i)
    BY <1>0, <1>5, CwdsSame DEF CreateLinks
  <1>7. QED
    BY <1>0, <1>1, <1>2, <1>3, <1>4, <1>6, SwitchBalance DEF CreateLinks

\* A create that fails to link its inode keeps the count exact.
LEMMA CreateFailsBalance ==
    ASSUME IInv, NEW p \in Procs, NEW i \in Inodes, CreateFails(p)
    PROVE  RefAt(i)'
  <1> DEFINE v == local[p]
  <1>0. TypeOK /\ RefAt(i) /\ ref \in [Inodes -> Int] /\ ref[i] \in Int /\ ShapeAt(pc[p], v, fds[p])
    BY StateAt
  <1>1. QED
    BY <1>0, ReturnBalance, RootBalance DEF CreateFails

\* Locking what was found keeps the count exact.
LEMMA LockFoundBalance ==
    ASSUME IInv, NEW p \in Procs, NEW i \in Inodes, LockFound(p)
    PROVE  RefAt(i)'
  <1> DEFINE v == local[p]
  <1>0. TypeOK /\ RefAt(i) /\ ref \in [Inodes -> Int] /\ ref[i] \in Int /\ ShapeAt(pc[p], v, fds[p])
    BY StateAt
  <1>1. SameCwds(i)
    BY <1>0, LockCwds DEF LockFound
  <1>2. QED
    BY <1>0, <1>1, StillBalance DEF LockFound

\* Handing the inode to a file keeps the count exact.
LEMMA AllocateFileBalance ==
    ASSUME IInv, NEW p \in Procs, NEW i \in Inodes, AllocateFile(p)
    PROVE  RefAt(i)'
  <1> DEFINE v == local[p]
  <1>0. TypeOK /\ RefAt(i) /\ ref \in [Inodes -> Int] /\ ref[i] \in Int /\ ShapeAt(pc[p], v, fds[p])
    BY StateAt
  <1>a. Root \in Inodes /\ Nil # i
    BY InodeFacts
  <1>1. PICK f \in FileIds : files[f].ref = 0 /\ files' = [files EXCEPT ![f] = [ref |-> 1, ip |-> v.ip]]
    BY DEF AllocateFile, FreeFiles
  <1> DEFINE w == [v EXCEPT !.op = "write"]
             b == One(v.ip = i)
  <1>2. files[f].ip = Nil
    BY <1>1 DEF IInv, FileRefsExact
  <1>3. files'[f].ip = v.ip /\ \A g \in FileIds : g # f => files'[g].ip = files[g].ip
    BY <1>0, <1>1 DEF TypeOK
  <1>4. Cardinality(OpenFiles(i)') = Cardinality(OpenFiles(i)) + One(files'[f].ip = i) - One(files[f].ip = i)
    BY <1>3, OpenFilesChange, SMT
  <1>5. Cardinality(OpenFiles(i)) \in Nat /\ Cardinality(Calls(i)) \in Nat
    BY HoldersFinite
  <1>6. Cardinality(OpenFiles(i)') = Cardinality(OpenFiles(i)) + b
    BY <1>a, <1>2, <1>3, <1>4, <1>5, SMT DEF One
  <1>7. local' = [local EXCEPT ![p] = w] /\ w.op = "write"
    BY <1>0, SMT DEF TypeOK, AllocateFile, Locals
  <1>8. ~Holds(w, i) /\ (Holds(v, i) <=> v.ip = i)
    BY <1>0, <1>7 DEF Holds, AllocateFile, ShapeAt
  <1>9. Cardinality(Calls(i)') = Cardinality(Calls(i)) + One(Holds(w, i)) - One(Holds(v, i))
    BY <1>0, <1>7, CallsChange
  <1>10. Cardinality(Calls(i)') = Cardinality(Calls(i)) + (0 - b)
    BY <1>5, <1>8, <1>9 DEF One
  <1>11. SameCwds(i) /\ ref'[i] = ref[i] + 0
    BY <1>0, CwdsSame, SameHolders DEF AllocateFile
  <1>12. b \in Int /\ 0 - b \in Int /\ 0 = b + (0 - b) + 0
    BY SMT DEF One
  <1> HIDE DEF b
  <1>13. QED
    BY <1>0, <1>6, <1>10, <1>11, <1>12, Balanced, SMT DEF SameCwds

\* A full file table keeps the count exact.
LEMMA RefuseFileBalance ==
    ASSUME IInv, NEW p \in Procs, NEW i \in Inodes, RefuseFile(p)
    PROVE  RefAt(i)'
  <1> DEFINE v == local[p]
  <1>0. TypeOK /\ RefAt(i) /\ ref \in [Inodes -> Int] /\ ref[i] \in Int /\ ShapeAt(pc[p], v, fds[p])
    BY StateAt
  <1> DEFINE o == IF type[v.ip] = "bad" THEN "forget" ELSE v.op
             w == [v EXCEPT !.op = o]
  <1>1. local' = [local EXCEPT ![p] = w] /\ w.op = o /\ w.ip = v.ip
    BY <1>0, SMT DEF TypeOK, RefuseFile, Locals
  <1>2. Holds(w, i) <=> Holds(v, i)
    BY <1>0, <1>1, SMT DEF Holds, RefuseFile, ShapeAt
  <1>3. ref'[i] = ref[i] + One(Holds(w, i)) - One(Holds(v, i))
    BY <1>0, <1>2, SMT DEF RefuseFile, One
  <1>4. SameCwds(i)
    BY <1>0, CwdsSame DEF RefuseFile
  <1> HIDE DEF w
  <1>5. QED
    BY <1>0, <1>1, <1>3, <1>4, CallBalance DEF RefuseFile

\* Unlocking and putting keeps the count exact.
LEMMA DropBalance ==
    ASSUME IInv, NEW p \in Procs, NEW i \in Inodes, Drop(p)
    PROVE  RefAt(i)'
  <1> DEFINE v == local[p]
  <1>0. TypeOK /\ RefAt(i) /\ ref \in [Inodes -> Int] /\ ref[i] \in Int /\ ShapeAt(pc[p], v, fds[p])
    BY StateAt
  <1>1. v.ip \in Inodes /\ (Holds(v, i) <=> i = v.ip)
    BY <1>0, CallHolds DEF Drop, ShapeAt
  <1>2. CASE ref' = Put(ref, v.ip) /\ Return(p) /\ UNCHANGED files
    <2>1. ref'[i] = ref[i] - One(i = v.ip)
      BY <1>0, <1>1, <1>2, RefsChange, SMT
    <2>2. ref'[i] = ref[i] - One(Holds(v, i))
      BY <1>1, <2>1 DEF One
    <2>3. QED
      BY <1>0, <1>2, <2>2, ReturnBalance DEF Drop
  <1>3. QED
    BY <1>0, <1>2, FailBalance DEF Drop

\* Locking the inode of a file keeps the count exact.
LEMMA FileCallBalance ==
    ASSUME IInv, NEW p \in Procs, NEW i \in Inodes, FileCall(p)
    PROVE  RefAt(i)'
  <1> DEFINE v == local[p]
  <1>0. TypeOK /\ RefAt(i) /\ ref \in [Inodes -> Int] /\ ref[i] \in Int /\ ShapeAt(pc[p], v, fds[p])
    BY StateAt
  <1>1. PICK k \in DOMAIN fds[p], o \in {"read", "write"} :
           /\ local' = [local EXCEPT ![p] = [op |-> o, name |-> Nil, ip |-> files[fds[p][k]].ip]]
           /\ LockInode(p, files[fds[p][k]].ip, "io")
    BY DEF FileCall
  <1> DEFINE w == [op |-> o, name |-> Nil, ip |-> files[fds[p][k]].ip]
  <1>2. v = Idle /\ ~Holds(w, i)
    BY <1>0 DEF FileCall, ShapeAt, Holds
  <1>3. SameCwds(i)
    <2>1. pc[p] \notin {"none", "gone"} /\ "io" \notin {"none", "gone"}
      BY DEF FileCall
    <2>2. QED
      BY <1>0, <1>1, <2>1, LockCwds
  <1>4. ref'[i] = ref[i] + One(Holds(w, i)) - One(Holds(v, i))
    <2>1. ref'[i] = ref[i]
      BY DEF FileCall
    <2>2. One(Holds(w, i)) = 0 /\ One(Holds(v, i)) = 0
      BY <1>2, IdleHolds DEF One
    <2>3. QED
      BY <1>0, <2>1, <2>2, SMT
  <1>5. QED
    BY <1>0, <1>1, <1>3, <1>4, CallBalance DEF FileCall

\* Unlocking the inode of a file keeps the count exact.
LEMMA FileReturnsBalance ==
    ASSUME IInv, NEW p \in Procs, NEW i \in Inodes, FileReturns(p)
    PROVE  RefAt(i)'
  <1> DEFINE v == local[p]
  <1>0. TypeOK /\ RefAt(i) /\ ref \in [Inodes -> Int] /\ ref[i] \in Int /\ ShapeAt(pc[p], v, fds[p])
    BY StateAt
  <1>1. ~Holds(v, i)
    BY <1>0 DEF FileReturns, ShapeAt, Holds
  <1>2. CASE UNCHANGED ref /\ Return(p) /\ UNCHANGED files
    <2>1. ref'[i] = ref[i] - One(Holds(v, i))
      BY <1>0, <1>1, <1>2, SMT DEF One
    <2>2. QED
      BY <1>0, <1>2, <2>1, ReturnBalance DEF FileReturns
  <1>3. QED
    BY <1>0, <1>2, FailBalance DEF FileReturns

\* The put of a close keeps the count exact.
LEMMA ClosePutsBalance ==
    ASSUME IInv, NEW p \in Procs, NEW i \in Inodes, ClosePuts(p)
    PROVE  RefAt(i)'
  <1> DEFINE v == local[p]
  <1>0. TypeOK /\ RefAt(i) /\ ref \in [Inodes -> Int] /\ ref[i] \in Int /\ ShapeAt(pc[p], v, fds[p])
    BY StateAt
  <1>1. v.ip \in Inodes /\ (Holds(v, i) <=> i = v.ip)
    BY <1>0, CallHolds DEF ClosePuts, ShapeAt
  <1>2. PICK at \in {"user", "exit"} : Go(p, at)
    BY DEF ClosePuts
  <1>3. SameCwds(i)
    BY <1>0, <1>2, CwdsSame DEF ClosePuts
  <1>4. ref'[i] = ref[i] - One(i = v.ip)
    <2>1. ref' = Put(ref, v.ip)
      BY DEF ClosePuts
    <2>2. QED
      BY <1>0, <1>1, <2>1, RefsChange, SMT
  <1>5. ref'[i] = ref[i] + One(Holds(Idle, i)) - One(Holds(v, i))
    <2>1. ~Holds(Idle, i)
      BY IdleHolds
    <2>2. QED
      BY <1>0, <1>1, <1>4, <2>1, SMT DEF One
  <1>6. QED
    BY <1>0, <1>3, <1>5, CallBalance DEF ClosePuts

\* The directory of a child keeps the count exact.
LEMMA ForkBalance ==
    ASSUME IInv, NEW p \in Procs, NEW i \in Inodes, Fork(p)
    PROVE  RefAt(i)'
  <1> DEFINE v == local[p]
  <1>0. TypeOK /\ RefAt(i) /\ ref \in [Inodes -> Int] /\ ref[i] \in Int /\ ShapeAt(pc[p], v, fds[p])
    BY StateAt
  <1>a. Root \in Inodes /\ Nil # i
    BY InodeFacts
  <1>1. PICK q \in Procs : pc[q] = "none" /\ Go(q, "user")
    BY DEF Fork
  <1> DEFINE a == One(i = Root)
  <1>2. ref'[i] = ref[i] + a
    <2>1. ref' = Got(ref, Root)
      BY DEF Fork
    <2>2. QED
      BY <1>0, <1>a, <2>1, RefsChange, SMT
  <1>3. Cardinality(Cwds(i)') = Cardinality(Cwds(i))
            + One(i = Root /\ "user" \notin {"none", "gone"})
            - One(i = Root /\ pc[q] \notin {"none", "gone"})
    BY <1>0, <1>1, CwdsChange
  <1>4. Cardinality(Cwds(i)') = Cardinality(Cwds(i)) + a
    <2>1. Cardinality(Cwds(i)) \in Nat
      BY HoldersFinite
    <2>2. QED
      BY <1>1, <1>3, <2>1, SMT DEF One
  <1>5. OpenFiles(i)' = OpenFiles(i)
    <2>1. \A f \in FileIds : files'[f].ip = files[f].ip
      BY <1>0, SMT DEF Fork, Dupped, TypeOK
    <2>2. QED
      BY <2>1 DEF OpenFiles
  <1>6. Cardinality(OpenFiles(i)') = Cardinality(OpenFiles(i)) + 0
    BY <1>5, HoldersFinite, SMT
  <1>7. Cardinality(Calls(i)') = Cardinality(Calls(i)) + 0
    BY <1>0, SameHolders DEF Fork
  <1>8. a \in Int /\ a = 0 + 0 + a
    BY SMT DEF One
  <1> HIDE DEF a
  <1>9. QED
    BY <1>0, <1>2, <1>4, <1>6, <1>7, <1>8, Balanced, SMT

\* The start of exit keeps the count exact.
LEMMA ExitCallBalance ==
    ASSUME IInv, NEW p \in Procs, NEW i \in Inodes, ExitCall(p)
    PROVE  RefAt(i)'
  <1> DEFINE v == local[p]
  <1>0. TypeOK /\ RefAt(i) /\ ref \in [Inodes -> Int] /\ ref[i] \in Int /\ ShapeAt(pc[p], v, fds[p])
    BY StateAt
  <1>1. SameCwds(i)
    BY <1>0, CwdsSame DEF ExitCall
  <1>2. QED
    BY <1>0, <1>1, StillBalance DEF ExitCall

\* The put of the directory keeps the count exact.
LEMMA ExitEndsBalance ==
    ASSUME IInv, NEW p \in Procs, NEW i \in Inodes, ExitEnds(p)
    PROVE  RefAt(i)'
  <1> DEFINE v == local[p]
  <1>0. TypeOK /\ RefAt(i) /\ ref \in [Inodes -> Int] /\ ref[i] \in Int /\ ShapeAt(pc[p], v, fds[p])
    BY StateAt
  <1>a. Root \in Inodes /\ Nil # i
    BY InodeFacts
  <1> DEFINE a == 0 - One(i = Root)
  <1>1. ref'[i] = ref[i] - One(i = Root)
    <2>1. ref' = Put(ref, Root)
      BY DEF ExitEnds
    <2>2. QED
      BY <1>0, <1>a, <2>1, RefsChange, SMT
  <1>2. ref'[i] = ref[i] + a
    BY <1>0, <1>1, SMT DEF One
  <1>3. Go(p, "gone") /\ pc[p] = "exit"
    BY DEF ExitEnds
  <1>4. Cardinality(Cwds(i)') = Cardinality(Cwds(i))
            + One(i = Root /\ "gone" \notin {"none", "gone"})
            - One(i = Root /\ pc[p] \notin {"none", "gone"})
    BY <1>0, <1>3, CwdsChange
  <1>5. Cardinality(Cwds(i)') = Cardinality(Cwds(i)) + a
    <2>1. Cardinality(Cwds(i)) \in Nat
      BY HoldersFinite
    <2>2. QED
      BY <1>3, <1>4, <2>1 DEF One
  <1>6. /\ Cardinality(OpenFiles(i)') = Cardinality(OpenFiles(i)) + 0
        /\ Cardinality(Calls(i)') = Cardinality(Calls(i)) + 0
    BY <1>0, SameHolders DEF ExitEnds
  <1>7. Cardinality(OpenFiles(i)) \in Nat /\ Cardinality(Calls(i)) \in Nat /\ Cardinality(Cwds(i)) \in Nat
    BY HoldersFinite
  <1>8. a \in Int
    BY SMT DEF One
  <1> HIDE DEF a
  <1>9. QED
    BY <1>0, <1>2, <1>5, <1>6, <1>7, <1>8, SMT DEF RefAt

\* Every step of Files keeps the counts of the inodes exact.
LEMMA InodeRefsStep == ASSUME IInv, NEW p \in Procs, Step(p) PROVE InodeRefsExact'
  <1> SUFFICES ASSUME NEW i \in Inodes PROVE RefAt(i)'
    BY DEF InodeRefsExact, RefAt
  <1>1. CASE CloseCall(p) \/ ExitCloses(p)
    BY <1>1, CloseBalance DEF CloseCall, ExitCloses
  <1>2. QED
    BY <1>1, OpenCallBalance, WalkBalance, LockParentBalance, LookupFindsBalance, LookupMissesBalance,
       CreateLinksBalance, CreateFailsBalance, LockFoundBalance, AllocateFileBalance, RefuseFileBalance,
       DropBalance, FileCallBalance, FileReturnsBalance, ClosePutsBalance, ForkBalance, ExitCallBalance,
       ExitEndsBalance DEF Step
-----------------------------------------------------------------------------
(***************************************************************************)
(* The invariant holds at first, and every step keeps it.                  *)
(***************************************************************************)
LEMMA InitIInv == ASSUME Init PROVE IInv
  <1>a. Root \in Inodes /\ Nil \notin Inodes /\ Nil \notin Procs /\ 0 \notin FileIds /\ Root # Nil
    BY InodeFacts
  <1>1. TypeOK
    <2>1. fds \in [Procs -> Seq(0 .. NUM_FILES)] /\ files \in [FileIds -> [ref : Int, ip : Inodes \cup {Nil}]]
      BY SMT DEF Init
    <2>2. ref \in [Inodes -> Int] /\ owner \in [Inodes -> Procs \cup {Nil}]
      BY SMT DEF Init
    <2>3. pc \in [Procs -> PCs] /\ local \in [Procs -> Locals]
      BY LocalTypes DEF Init, PCs
    <2>4. /\ type \in [Inodes -> Kinds \cup {"dir", "free", "none"}]
          /\ disk \in [Inodes -> Kinds \cup {"dir", "free"}]
          /\ entries \in [Names -> Others \cup {Nil}] /\ rootInum \in Inodes /\ panic \in BOOLEAN
      BY <1>a DEF Init
    <2>5. outstanding \in Int /\ forgotten \in Int
      BY SMT DEF Init
    <2>6. QED
      BY <2>1, <2>2, <2>3, <2>4, <2>5 DEF TypeOK
  <1>2. Shape
    <2> SUFFICES ASSUME NEW p \in Procs PROVE ShapeAt(pc[p], local[p], fds[p])
      BY DEF Shape
    <2>1. pc[p] \in {"user", "none"} /\ local[p] = Idle /\ fds[p] = << >>
      BY DEF Init
    <2>2. Len(<< >>) <= MaxFds
      BY FilesAssumption, SMT
    <2>3. Idle.op \notin Walking
      BY DEF Idle, Walking, Creates
    <2>4. QED
      BY <2>1, <2>2, <2>3 DEF ShapeAt
  <1>3. Locks
    BY <1>a DEF Init, Locks
  <1>4. Unused
    <2> SUFFICES ASSUME NEW i \in Inodes, disk[i] = "free" PROVE i # Root /\ UnusedAt(i)
      BY DEF Unused, UnusedAt
    <2>1. i # Root /\ \A n \in Names : entries[n] # i
      BY DEF Init
    <2>2. \A p \in Procs : local[p].ip # i
      BY <1>a DEF Init, Idle
    <2>3. QED
      BY <1>a, <2>1, <2>2 DEF Init, UnusedAt
  <1>5. OperationsCounted
    <2>1. InOperation = {}
      BY DEF Init, InOperation, Idle, Creates
    <2>2. QED
      BY <2>1, FS_EmptySet, SMT DEF OperationsCounted, Init
  <1>6. FileRefsExact
    <2>1. \A f \in FileIds : Descriptors(f) = {}
      BY SMT DEF Init, Descriptors
    <2>2. QED
      BY <2>1, FS_EmptySet DEF FileRefsExact, Init
  <1>7. InodeRefsExact
    <2> SUFFICES ASSUME NEW i \in Inodes PROVE RefAt(i)
      BY DEF InodeRefsExact, RefAt
    <2>1. OpenFiles(i) = {} /\ Calls(i) = {}
      BY <1>a DEF Init, OpenFiles, Calls, Idle
    <2>2. Cardinality(OpenFiles(i)) = 0 /\ Cardinality(Calls(i)) = 0
      BY <2>1, FS_EmptySet
    <2>3. Cwds(i) = IF i = Root THEN {FirstProc} ELSE {}
      BY FilesAssumption DEF Init, Cwds
    <2>4. Cardinality(Cwds(i)) = IF i = Root THEN 1 ELSE 0
      BY <2>3, FS_EmptySet, FS_Singleton
    <2>5. ref[i] = IF i = Root THEN 1 ELSE 0
      BY DEF Init
    <2>6. QED
      BY <2>2, <2>4, <2>5, SMT DEF RefAt
  <1>8. QED
    BY <1>1, <1>2, <1>3, <1>4, <1>5, <1>6, <1>7 DEF IInv

\* Every step of the processes, and a step that changes nothing, keeps the invariant.
LEMMA NextIInv == ASSUME IInv, [Next]_vars PROVE IInv'
  <1>1. CASE Next
    <2>1. PICK p \in Procs : Step(p)
      BY <1>1 DEF Next
    <2>2. QED
      BY <2>1, TypesStep, ShapeStep, LocksStep, UnusedStep, OperationsStep, FileRefsStep, InodeRefsStep
        DEF IInv
  <1>2. CASE UNCHANGED vars
    <2>1. TypeOK' /\ Shape'
      BY <1>2 DEF vars, IInv, TypeOK, Shape, ShapeAt
    <2>2. Locks' /\ Unused'
      BY <1>2, SMT DEF vars, IInv, Locks, Unused
    <2>3. OperationsCounted'
      <3>1. InOperation' = InOperation
        BY <1>2 DEF vars, InOperation
      <3>2. QED
        BY <1>2, <3>1 DEF vars, IInv, OperationsCounted
    <2>4. FileRefsExact'
      <3>1. \A f \in FileIds : Descriptors(f)' = Descriptors(f)
        BY <1>2 DEF vars, Descriptors
      <3>2. QED
        BY <1>2, <3>1 DEF vars, IInv, FileRefsExact
    <2>5. InodeRefsExact'
      <3>1. \A i \in Inodes : OpenFiles(i)' = OpenFiles(i) /\ Calls(i)' = Calls(i) /\ Cwds(i)' = Cwds(i)
        BY <1>2 DEF vars, OpenFiles, Calls, Cwds
      <3>2. QED
        BY <1>2, <3>1 DEF vars, IInv, InodeRefsExact
    <2>6. QED
      BY <2>1, <2>2, <2>3, <2>4, <2>5 DEF IInv
  <1>3. QED
    BY <1>1, <1>2

\* The inductive invariant holds in every state of open files, inodes and calls.
THEOREM FilesInvariant == Spec => []IInv
  BY InitIInv, NextIInv, PTL DEF Spec

\* For every number of processes, files, inodes and names, the count of a file is the
\* number of its descriptors (File::allocate, dup and close).
THEOREM FilesRefs == Spec => []FileRefsExact
  <1>1. IInv => FileRefsExact
    BY DEF IInv
  <1>2. QED
    BY <1>1, FilesInvariant, PTL

\* The count of an inode is the number of open files, calls and current directories
\* that hold it (Inode::get, dup and put), on every path of every call.
THEOREM FilesInodes == Spec => []InodeRefsExact
  <1>1. IInv => InodeRefsExact
    BY DEF IInv
  <1>2. QED
    BY <1>1, FilesInvariant, PTL

\* log.outstanding counts the calls inside an operation and the opens that forgot to end
\* theirs (process.cpp:118-123), and no other call forgets.
THEOREM FilesOperations == Spec => []OperationsCounted
  <1>1. IInv => OperationsCounted
    BY DEF IInv
  <1>2. QED
    BY <1>1, FilesInvariant, PTL

\* Whoever sleeps on an inode, waits in beginOp or is in user mode has no inode locked.
THEOREM FilesSleepers == Spec => []SleepersHoldNothing
  <1>1. IInv => SleepersHoldNothing
    BY DEF IInv, Locks, SleepersHoldNothing
  <1>2. QED
    BY <1>1, FilesInvariant, PTL

\* Inode::allocate hands out inodes that nobody uses.
THEOREM FilesFree == Spec => []FreeInodesUnused
  <1>1. IInv => FreeInodesUnused
    <2> SUFFICES ASSUME IInv, NEW i \in Inodes, disk[i] = "free"
                 PROVE  /\ \A n \in Names : entries[n] # i
                        /\ ref[i] = 0 /\ owner[i] = Nil /\ type[i] = "none"
      BY DEF FreeInodesUnused
    <2>1. UnusedAt(i) /\ i # Root
      BY DEF IInv, Unused, UnusedAt
    <2>2. OpenFiles(i) = {} /\ Calls(i) = {} /\ Cwds(i) = {}
      BY <2>1 DEF UnusedAt, OpenFiles, Calls, Cwds
    <2>3. ref[i] = 0
      <3>1. Cardinality(OpenFiles(i)) = 0 /\ Cardinality(Calls(i)) = 0 /\ Cardinality(Cwds(i)) = 0
        BY <2>2, FS_EmptySet
      <3>2. ref[i] = 0 + 0 + 0
        BY <3>1 DEF IInv, InodeRefsExact
      <3>3. QED
        BY <3>2, SMT
    <2>4. QED
      BY <2>1, <2>3 DEF UnusedAt
  <1>2. QED
    BY <1>1, FilesInvariant, PTL
=============================================================================
