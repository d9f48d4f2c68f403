------------------------------- MODULE Files -------------------------------
(***************************************************************************)
(* Open files, the file table and the inode table: kernel/fs/file.cpp, the *)
(* references and locks of kernel/fs/inode.cpp, and the system calls that  *)
(* use them (Process::open, close, fork, exit; read, write, mknod, exec).  *)
(*                                                                         *)
(* A step ends where the code takes or releases the mutex of an inode that *)
(* others can reach, or of a table.  Paths name the root directory's       *)
(* entries; every process has the root as its cwd.  What is read and       *)
(* written is left out, and of the log only the operations are here: who   *)
(* has begun one and not ended it.  SleepMutex::unlock does not wake       *)
(* anybody, so a process that finds an inode locked sleeps for ever.  A    *)
(* failed assertion stops the kernel.                                      *)
(*                                                                         *)
(* An operator whose name ends in Variant is a faulty form of the operator *)
(* that follows it; no specification uses it.                              *)
(***************************************************************************)
EXTENDS Integers, Sequences, FiniteSets

CONSTANTS Procs, FirstProc,
          Root,     \* the inode of the root directory
          Others,   \* the other inodes of the disk
          Names,    \* the names of files
          NUM_FILES,\* the size of the file table
          MaxFds,   \* a bound on the descriptors of a process
          MaxOps,   \* the operations that beginOp lets in: LOG_SIZE / MAX_OP_BLOCKS
          Nil

Inodes == {Root} \cup Others
FileIds == 1 .. NUM_FILES

ASSUME FilesAssumption ==
    /\ FirstProc \in Procs
    /\ IsFiniteSet(Procs)
    /\ Root \notin Others
    /\ Nil \notin Procs \cup Inodes
    /\ NUM_FILES \in Nat
    /\ MaxFds \in Nat
    /\ MaxOps \in Nat \ {0}

VARIABLES fds,      \* Process::openFiles, with 0 for a null pointer
          files,    \* ftable: [ref, ip]; a file without ip has type None
          ref,      \* Inode::refCount
          owner,    \* Inode::mutex: the process that has locked it, or Nil
          type,     \* Inode::type; "none" for an inode that is not valid
          disk,     \* DiskInode::type; "free" for 0
          entries,  \* the root directory: the inode of each name, or Nil
          rootInum, \* Inode::inum of the root, which dirLookup assigns to
          pc,       \* where each process is
          local,    \* what it is doing, and its local variables [op, name, ip]
          panic,    \* an assertion has failed
          outstanding, \* log.outstanding: the operations of the log in progress
          forgotten    \* how many of them a call has left without endOp

vars == <<fds, files, ref, owner, type, disk, entries, rootInum, pc, local, panic,
          outstanding, forgotten>>
operations == <<outstanding, forgotten>>

Kinds == {"file", "device", "bad"} \* "bad" is a device with no driver
Creates == {"create", "mknod"}
Idle == [op |-> "none", name |-> Nil, ip |-> Nil]

\* Any root directory whose entries name different inodes.
Init ==
    /\ fds = [p \in Procs |-> <<>>]
    /\ files = [f \in FileIds |-> [ref |-> 0, ip |-> Nil]]
    /\ ref = [i \in Inodes |-> IF i = Root THEN 1 ELSE 0]
    /\ owner = [i \in Inodes |-> Nil]
    /\ type = [i \in Inodes |-> "none"]
    /\ entries \in {e \in [Names -> Others \cup {Nil}] :
                       \A m, n \in Names : e[m] = e[n] => m = n \/ e[m] = Nil}
    /\ disk \in {d \in [Inodes -> Kinds \cup {"dir", "free"}] :
                    \A i \in Inodes :
                       /\ d[i] = "dir" <=> i = Root
                       /\ d[i] = "free" <=> i # Root /\ \A n \in Names : entries[n] # i}
    /\ rootInum = Root
    /\ pc = [p \in Procs |-> IF p = FirstProc THEN "user" ELSE "none"]
    /\ local = [p \in Procs |-> Idle]
    /\ panic = FALSE
    /\ outstanding = 0 /\ forgotten = 0

Go(p, at) == pc' = [pc EXCEPT ![p] = at]
Return(p) == Go(p, "user") /\ local' = [local EXCEPT ![p] = Idle]
-----------------------------------------------------------------------------
(***************************************************************************)
(* The inode table: get, dup and put change the count, lock waits for the  *)
(* mutex and reads an inode that is not valid, unlock expects to hold it.  *)
(***************************************************************************)
Got(r, i) == [r EXCEPT ![i] = @ + 1]
PutVariant(r, i) == r
Put(r, i) == [r EXCEPT ![i] = @ - 1]

\* The type once the inode is valid.
Read(i) == IF type[i] = "none" THEN disk[i] ELSE type[i]

LockInode(p, i, at) ==
    IF owner[i] # Nil
    THEN Go(p, "asleep") /\ UNCHANGED <<owner, type>>
    ELSE /\ owner' = [owner EXCEPT ![i] = p]
         /\ type' = [type EXCEPT ![i] = Read(i)]
         /\ Go(p, at)

\* assert(mutex.holding()) fails in an unlock of inode i by p.
UnlockFails(p, i) ==
    /\ owner[i] # p
    /\ panic' = TRUE
    /\ UNCHANGED <<fds, files, ref, owner, type, disk, entries, rootInum, pc, local, operations>>

(***************************************************************************)
(* Operations of the log.  beginOp waits while there are as many as the    *)
(* log has room for; endOp ends one.  A call o ends with an endOp, unless  *)
(* it is a read, or the open of a device with no driver ("forget").        *)
(***************************************************************************)
MayBegin == outstanding < MaxOps

BeginOp ==
    /\ MayBegin
    /\ outstanding' = outstanding + 1
    /\ UNCHANGED forgotten

EndedVariant(o) == outstanding - (IF o \in {"read", "forget", "exec"} THEN 0 ELSE 1)
Ended(o) == outstanding - (IF o \in {"read", "forget"} THEN 0 ELSE 1)

EndOp(o) ==
    /\ outstanding' = Ended(o)
    /\ forgotten' = forgotten + (IF o = "forget" THEN 1 ELSE 0)
-----------------------------------------------------------------------------
(***************************************************************************)
(* The walk from the root to a name (Inode::open) and the creation of a    *)
(* name that is not there (Inode::create).                                 *)
(***************************************************************************)
\* Inode::allocate takes a free inode of the disk, if there is one.
FreeInodes == {i \in Others : disk[i] = "free"}

\* Inode::dirLookup: the inode of a name, or Nil; and Inode::dirLink.
DirLookup(n) == entries[n]
DirLink(n, i) == [entries EXCEPT ![n] = i]

OpenCall(p) ==
    /\ pc[p] = "user" /\ Len(fds[p]) < MaxFds
    /\ \/ \E n \in Names, o \in {"open", "exec"} \cup Creates :
             /\ local' = [local EXCEPT ![p] = [op |-> o, name |-> n, ip |-> Root]]
             /\ Go(p, "walk")
       \/ /\ local' = [local EXCEPT ![p] = [op |-> "open", name |-> Nil, ip |-> Root]]
          /\ Go(p, "lock")
    /\ ref' = Got(ref, Root)
    /\ BeginOp
    /\ UNCHANGED <<fds, files, owner, type, disk, entries, rootInum, panic>>

\* The root is locked to look the name up.  create locks it twice: in Inode::open,
\* which unlocks it and returns it as the parent, and again to look up.
Walk(p) ==
    /\ pc[p] = "walk"
    /\ IF local[p].op \in Creates /\ owner[Root] = Nil
       THEN /\ type' = [type EXCEPT ![Root] = Read(Root)]
            /\ Go(p, "parent")
            /\ UNCHANGED owner
       ELSE LockInode(p, Root, "lookup")
    /\ UNCHANGED <<fds, files, ref, disk, entries, rootInum, local, panic, operations>>

LockParent(p) ==
    /\ pc[p] = "parent"
    /\ LockInode(p, Root, "lookup")
    /\ UNCHANGED <<fds, files, ref, disk, entries, rootInum, local, panic, operations>>

\* The root is unlocked before the inode that was found in it is locked.
RootDoneVariant(o) == o
RootDone(o) == [o EXCEPT ![Root] = Nil]

\* dirLookup finds the name, and overwrites the root's own inum.  create returns
\* the inode without locking it, or unlocks it, by a type it reads without the lock.
LookupFinds(p) ==
    LET i == DirLookup(local[p].name) IN
    /\ pc[p] = "lookup" /\ i # Nil
    /\ ref' = Put(Got(ref, i), Root)
    /\ owner' = RootDone(owner)
    /\ rootInum' = i
    /\ local' = [local EXCEPT ![p].name = Nil, ![p].ip = i]
    /\ Go(p, CASE local[p].op \notin Creates -> "lock"
               [] local[p].op = "create" /\ type[i] \in Kinds -> "file"
               [] OTHER -> "drop")
    /\ UNCHANGED <<fds, files, type, disk, entries, panic, operations>>

\* It does not, and nothing is created, for want of a free inode perhaps.
LookupMisses(p) ==
    /\ pc[p] = "lookup" /\ DirLookup(local[p].name) = Nil
    /\ local[p].op \in Creates => FreeInodes = {}
    /\ ref' = Put(ref, Root)
    /\ owner' = RootDone(owner)
    /\ Return(p)
    /\ EndOp(local[p].op)
    /\ UNCHANGED <<fds, files, type, disk, entries, rootInum, panic>>

\* The disk after an inode i of type t is allocated and dirLink has updated the
\* root: Inode::update writes the root's fields where rootInum says.
LinkedVariant(i, t) == [disk EXCEPT ![rootInum] = "dir"]
Linked(i, t) == [disk EXCEPT ![i] = t, ![rootInum] = "dir"]

\* A new inode is allocated, locked and linked while the root is locked.
CreateLinks(p) ==
    /\ pc[p] = "lookup" /\ DirLookup(local[p].name) = Nil /\ local[p].op \in Creates
    /\ \E i \in FreeInodes, t \in IF local[p].op = "create" THEN {"file"} ELSE {"device", "bad"} :
          /\ disk' = Linked(i, t)
          /\ type' = [type EXCEPT ![i] = t]
          /\ entries' = DirLink(local[p].name, i)
          /\ ref' = Put(Got(ref, i), Root)
          /\ owner' = [RootDone(owner) EXCEPT ![i] = p]
          /\ local' = [local EXCEPT ![p].name = Nil, ![p].ip = i]
    /\ Go(p, IF local[p].op = "create" THEN "file" ELSE "drop")
    /\ UNCHANGED <<fds, files, rootInum, panic, operations>>

\* dirLink cannot extend the directory: the inode loses its link, and put frees it.
CreateFails(p) ==
    /\ pc[p] = "lookup" /\ DirLookup(local[p].name) = Nil /\ local[p].op \in Creates
    /\ \E i \in FreeInodes : disk' = Linked(i, "free")
    /\ ref' = Put(ref, Root)
    /\ owner' = RootDone(owner)
    /\ Return(p)
    /\ EndOp(local[p].op)
    /\ UNCHANGED <<fds, files, type, entries, rootInum, panic>>
-----------------------------------------------------------------------------
(***************************************************************************)
(* The rest of Process::open, of exec and of mknod, with the inode.        *)
(***************************************************************************)
\* open of a directory for writing is refused; exec reads the file and drops it.
LockFound(p) ==
    /\ pc[p] = "lock"
    /\ \E at \in {"file", "drop"} :
          /\ at = "file" => local[p].op = "open"
          /\ at = "drop" => local[p].op = "exec" \/ Read(local[p].ip) = "dir"
          /\ LockInode(p, local[p].ip, at)
    /\ UNCHANGED <<fds, files, ref, disk, entries, rootInum, local, panic, operations>>

FreeFiles == {f \in FileIds : files[f].ref = 0}

\* File::allocate takes the first free file, and the descriptor is a new one.
AllocateFile(p) ==
    /\ pc[p] = "file" /\ type[local[p].ip] # "bad"
    /\ \E f \in FreeFiles :
          /\ \A g \in FreeFiles : f <= g
          /\ files' = [files EXCEPT ![f] = [ref |-> 1, ip |-> local[p].ip]]
          /\ fds' = [fds EXCEPT ![p] = Append(@, f)]
    /\ local' = [local EXCEPT ![p].op = "write"]
    /\ Go(p, "io")
    /\ UNCHANGED <<ref, owner, type, disk, entries, rootInum, panic, operations>>

\* No driver, and the operation is forgotten; or no free file.
RefuseFile(p) ==
    /\ pc[p] = "file"
    /\ type[local[p].ip] = "bad" \/ FreeFiles = {}
    /\ local' = [local EXCEPT ![p].op = IF type[local[p].ip] = "bad" THEN "forget" ELSE @]
    /\ Go(p, "drop")
    /\ UNCHANGED <<fds, files, ref, owner, type, disk, entries, rootInum, panic, operations>>

\* unlock and put.
Drop(p) ==
    /\ pc[p] = "drop"
    /\ \/ UnlockFails(p, local[p].ip)
       \/ /\ owner[local[p].ip] = p
          /\ owner' = [owner EXCEPT ![local[p].ip] = Nil]
          /\ ref' = Put(ref, local[p].ip)
          /\ Return(p)
          /\ EndOp(local[p].op)
          /\ UNCHANGED <<fds, files, type, disk, entries, rootInum, panic>>
-----------------------------------------------------------------------------
(***************************************************************************)
(* Operations on descriptors.                                              *)
(***************************************************************************)
\* File::read and File::write lock the inode of a file that is not a device; a write
\* does so in an operation of its own, one for each chunk.
FileCall(p) ==
    /\ pc[p] = "user"
    /\ \E k \in DOMAIN fds[p], o \in {"read", "write"} :
          /\ fds[p][k] # 0
          /\ type[files[fds[p][k]].ip] # "device"
          /\ local' = [local EXCEPT ![p] = [op |-> o, name |-> Nil, ip |-> files[fds[p][k]].ip]]
          /\ LockInode(p, files[fds[p][k]].ip, "io")
          /\ IF o = "write" THEN BeginOp ELSE UNCHANGED operations
    /\ UNCHANGED <<fds, files, ref, disk, entries, rootInum, panic>>

\* The unlock that ends read, write and open.
FileReturns(p) ==
    /\ pc[p] = "io"
    /\ \/ UnlockFails(p, local[p].ip)
       \/ /\ owner[local[p].ip] = p
          /\ owner' = [owner EXCEPT ![local[p].ip] = Nil]
          /\ Return(p)
          /\ EndOp(local[p].op)
          /\ UNCHANGED <<fds, files, ref, type, disk, entries, rootInum, panic>>

\* File::close: the last one frees the file, and its inode is put later.
ClosedVariant(f) == [files EXCEPT ![f] = [ref |-> 0, ip |-> Nil]]
Closed(f) == IF files[f].ref > 1 THEN [files EXCEPT ![f].ref = @ - 1]
                                 ELSE [files EXCEPT ![f] = [ref |-> 0, ip |-> Nil]]

Close(p, k, op) ==
    LET f == fds[p][k] IN
    /\ f # 0
    /\ files' = Closed(f)
    /\ fds' = [fds EXCEPT ![p][k] = 0]
    /\ IF files[f].ref = 1
       THEN /\ local' = [local EXCEPT ![p] = [op |-> op, name |-> Nil, ip |-> files[f].ip]]
            /\ Go(p, "put")
       ELSE UNCHANGED <<pc, local>>
    /\ UNCHANGED <<ref, owner, type, disk, entries, rootInum, panic, operations>>

CloseCall(p) == pc[p] = "user" /\ \E k \in DOMAIN fds[p] : Close(p, k, "close")

\* The operation around the put begins when there is room for it.
ClosePuts(p) ==
    /\ pc[p] = "put" /\ MayBegin
    /\ ref' = Put(ref, local[p].ip)
    /\ Go(p, IF local[p].op = "close" THEN "user" ELSE "exit")
    /\ local' = [local EXCEPT ![p] = Idle]
    /\ UNCHANGED <<fds, files, owner, type, disk, entries, rootInum, panic, operations>>

\* Process::fork: each file is dupped once for each descriptor, and the cwd.
Dupped(s) ==
    [f \in FileIds |-> [files[f] EXCEPT !.ref = @ + Cardinality({k \in DOMAIN s : s[k] = f})]]

Fork(p) ==
    /\ pc[p] = "user"
    /\ \E q \in Procs :
          /\ pc[q] = "none"
          /\ fds' = [fds EXCEPT ![q] = fds[p]]
          /\ Go(q, "user")
    /\ files' = Dupped(fds[p])
    /\ ref' = Got(ref, Root)
    /\ UNCHANGED <<owner, type, disk, entries, rootInum, local, panic, operations>>

\* Process::exit closes the files in order, and puts the cwd.
ExitCall(p) ==
    /\ pc[p] = "user"
    /\ Go(p, "exit")
    /\ UNCHANGED <<fds, files, ref, owner, type, disk, entries, rootInum, local, panic, operations>>

ExitCloses(p) ==
    /\ pc[p] = "exit"
    /\ \E k \in DOMAIN fds[p] : /\ \A j \in 1 .. k - 1 : fds[p][j] = 0
                                /\ Close(p, k, "exit")

ExitEnds(p) ==
    /\ pc[p] = "exit" /\ \A k \in DOMAIN fds[p] : fds[p][k] = 0
    /\ MayBegin
    /\ fds' = [fds EXCEPT ![p] = <<>>]
    /\ ref' = Put(ref, Root)
    /\ Go(p, "gone")
    /\ UNCHANGED <<files, owner, type, disk, entries, rootInum, local, panic, operations>>

Step(p) ==
    \/ OpenCall(p) \/ Walk(p) \/ LockParent(p)
    \/ LookupFinds(p) \/ LookupMisses(p) \/ CreateLinks(p) \/ CreateFails(p)
    \/ LockFound(p) \/ AllocateFile(p) \/ RefuseFile(p) \/ Drop(p)
    \/ FileCall(p) \/ FileReturns(p)
    \/ CloseCall(p) \/ ClosePuts(p)
    \/ Fork(p) \/ ExitCall(p) \/ ExitCloses(p) \/ ExitEnds(p)

Next == ~panic /\ \E p \in Procs : Step(p)

Spec == Init /\ [][Next]_vars
-----------------------------------------------------------------------------
PCs == {"none", "user", "walk", "parent", "lookup", "lock", "file", "drop", "io", "put",
        "exit", "asleep", "gone"}
Ops == {"none", "open", "exec", "read", "write", "close", "exit", "forget"} \cup Creates
Locals == [op : Ops, name : Names \cup {Nil}, ip : Inodes \cup {Nil}]

\* The type of the state.
TypeOK ==
    /\ fds \in [Procs -> Seq(0 .. NUM_FILES)]
    /\ files \in [FileIds -> [ref : Int, ip : Inodes \cup {Nil}]]
    /\ ref \in [Inodes -> Int]
    /\ owner \in [Inodes -> Procs \cup {Nil}]
    /\ type \in [Inodes -> Kinds \cup {"dir", "free", "none"}]
    /\ disk \in [Inodes -> Kinds \cup {"dir", "free"}]
    /\ entries \in [Names -> Others \cup {Nil}]
    /\ rootInum \in Inodes
    /\ pc \in [Procs -> PCs]
    /\ local \in [Procs -> Locals]
    /\ panic \in BOOLEAN
    /\ outstanding \in Int /\ forgotten \in Int

\* The descriptors of a file, in all processes.
Descriptors(f) ==
    {u \in Procs \X (1 .. MaxFds) : u[2] \in DOMAIN fds[u[1]] /\ fds[u[1]][u[2]] = f}

\* The count of a file is the number of descriptors that refer to it, in all
\* processes, through any sequence of open, close, fork and exit
\* (File::allocate, dup, close): no descriptor outlives its file, and a
\* file whose descriptors are closed is free for the next open.
FileRefsExact ==
    \A f \in FileIds : /\ files[f].ref = Cardinality(Descriptors(f))
                       /\ files[f].ref = 0 <=> files[f].ip = Nil

\* Who refers to an inode: open files, calls in progress (read and write use the
\* reference of the file), and the processes that have it as their directory.
OpenFiles(i) == {f \in FileIds : files[f].ip = i}
Calls(i) == {p \in Procs : local[p].ip = i /\ local[p].op \notin {"read", "write"}}
Cwds(i) == {p \in Procs : i = Root /\ pc[p] \notin {"none", "gone"}}

\* The count of an inode is the number of open files, current directories and
\* calls in progress that hold it (Inode::get, dup and put): it neither leaks on
\* an error path, nor is it put while somebody holds it.
InodeRefsExact ==
    \A i \in Inodes :
       ref[i] = Cardinality(OpenFiles(i)) + Cardinality(Calls(i)) + Cardinality(Cwds(i))

\* An inode that Inode::allocate may hand out is one that nobody uses: no entry
\* names it, no one refers to it or has locked it, and it is not valid.
FreeInodesUnused ==
    \A i \in Inodes :
       disk[i] = "free" => /\ \A n \in Names : entries[n] # i
                           /\ ref[i] = 0 /\ owner[i] = Nil /\ type[i] = "none"

\* SleepMutex::unlock wakes nobody, so that a process that finds an inode locked is
\* lost; and beginOp makes a process wait for others.  Whoever sleeps in either, or is
\* back in user mode, has no inode locked, so that nobody waits for it in turn.
SleepersHoldNothing ==
    \A p \in Procs : pc[p] \notin {"lookup", "file", "drop", "io"} =>
                       \A i \in Inodes : owner[i] # p

\* The processes inside an operation of the log.
InOperation ==
    {p \in Procs : local[p].op \in {"open", "exec", "write", "forget"} \cup Creates}

\* log.outstanding counts the calls that are inside an operation, lost ones included,
\* and the opens of a device with no driver (process.cpp:118-123) that have returned:
\* every other path of open, mknod, exec and write, error paths included, calls endOp
\* once for each beginOp.
OperationsCounted == outstanding = forgotten + Cardinality(InOperation)

\* assert(mutex.holding()) in Inode::unlock: an inode is unlocked by the process
\* that has locked it.
UnlocksWhatItLocked == ~panic
=============================================================================
