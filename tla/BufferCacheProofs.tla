------------------------- MODULE BufferCacheProofs -------------------------
(***************************************************************************)
(* Proofs about BufferCache, for every number of processes, for the one or *)
(* two blocks of a bucket and for any data.                                *)
(*                                                                         *)
(* The inductive invariant IInv says what is true until unpin loses an     *)
(* increment.  It follows a process through get, the use of the buffer and *)
(* release (Shape, Held), the one process that commits through the header  *)
(* (Control, Saves), and a block through the buffers it has in turn        *)
(* (Right, Counted): a block that is pinned is in the table, and one that  *)
(* is not is the same on the disk, so that its buffer may leave the table. *)
(***************************************************************************)
EXTENDS BufferCache, FiniteSetTheorems, SequenceTheorems, TLAPS

\* Zenon proves most leaves; those that reason about numbers, sequences or
\* functions cite SMT.
USE ZenonT(30)

Places == {"idle", "begin", "asleep", "op", "get", "lock", "lost", "update", "copy",
           "install", "unpin", "store", "unlock", "drop", "done", "panic"}
Uses == {"read", "update", "copy", "install"}
Buffers == [block : Blocks \cup {Nil}, refs : Nat, valid : BOOLEAN,
            owner : Procs \cup {Nil}, data : Data \cup {Nil}]
Locals == [block : Blocks \cup {Nil}, buf : Nat, use : Uses \cup {"none"},
           back : Places, tail : Nat, seen : Nat]

Typed ==
    /\ buf \in [Ids -> Buffers] /\ disk \in [Blocks -> Data] /\ latest \in [Blocks -> Data]
    /\ header \in Seq(Blocks) /\ entry \in Seq(Data)
    /\ outstanding \in Nat /\ committing \in BOOLEAN
    /\ pc \in [Procs -> Places] /\ local \in [Procs -> Locals]

\* No key is twice in a chain.
Nodes == [key : Blocks, value : Ids]
Chain(t) ==
    /\ t \in Seq(Nodes)
    /\ \A i, j \in DOMAIN t : t[i].key = t[j].key => i = j

Named == \A b \in Blocks : Contains(table, b) => buf[Lookup(table, b)].block = b

\* Where a process is goes with what it has.
Calling(p) == pc[p] \in {"get", "lock", "lost", "update", "copy", "install", "unpin", "store",
                         "unlock", "drop"}
Shape(p) ==
    /\ pc[p] # "panic"
    /\ ~Calling(p) => local[p] = NoLocals
    /\ Calling(p) => /\ local[p].block \in Blocks /\ local[p].use \in Uses
                     /\ local[p].buf = 0 <=> pc[p] = "get"
    /\ local[p].use = "read" => local[p].back = "idle"
    /\ local[p].use = "update" => local[p].back = "op"
    /\ pc[p] \in {"update", "copy", "install"} => local[p].use = pc[p]
    /\ pc[p] \in {"unpin", "store"} => local[p].use = "install"

\* Who has a buffer has the one in the table.
Held(p) == local[p].buf # 0 => /\ Contains(table, local[p].block)
                               /\ Lookup(table, local[p].block) = local[p].buf

InOp(p) == pc[p] = "op" \/ local[p].use = "update"
Saving(p) == local[p].use \in {"copy", "install"}
Commits(p) == pc[p] = "done" \/ Saving(p)

\* One process commits, when no operation is open.
Control ==
    /\ outstanding = Cardinality({p \in Procs : InOp(p)})
    /\ \A p \in Procs : Commits(p) => committing /\ outstanding = 0
    /\ \A p, q \in Procs : Commits(p) /\ Commits(q) => p = q

\* How far a commit has come: the log has the latest data of so many blocks.
Copied(p) == IF local[p].use = "install" THEN Len(header)
             ELSE IF pc[p] \in {"unlock", "drop"} THEN local[p].tail ELSE local[p].tail - 1
Saves(p) ==
    Saving(p) => /\ local[p].tail \in 1 .. Len(header)
                 /\ local[p].block = header[local[p].tail]
                 /\ Copied(p) <= Len(entry)
                 /\ \A i \in 1 .. Copied(p) : entry[i] = latest[header[i]]

Once == \A i, j \in DOMAIN header : header[i] = header[j] => i = j

\* Where the latest data of a block is.
Right(b) ==
    /\ Contains(table, b) /\ buf[Lookup(table, b)].valid => buf[Lookup(table, b)].data = latest[b]
    /\ Pinned(b) => Contains(table, b) /\ buf[Lookup(table, b)].valid
    /\ ~Pinned(b) => disk[b] = latest[b]

Sees(p) ==
    /\ Holds(p) => buf[local[p].buf].valid
    /\ pc[p] \in {"unpin", "store"} => disk[local[p].block] = latest[local[p].block]

\* Who counts for the buffer of a block.
Users(b) == {u \in Procs : local[u].buf # 0 /\ local[u].block = b}
Pins(b) == IF Pinned(b) THEN 1 ELSE 0
Counted(b) ==
    Contains(table, b) => buf[Lookup(table, b)].refs = Cardinality(Users(b)) + Pins(b)

Body ==
    /\ Typed /\ Chain(table) /\ Named /\ Control /\ Once
    /\ \A p \in Procs : Shape(p) /\ Held(p) /\ Saves(p) /\ Sees(p)
    /\ \A b \in Blocks : Right(b) /\ Counted(b)

IInv == ~raced => Body
-----------------------------------------------------------------------------
(***************************************************************************)
(* Chains and numbers.                                                     *)
(***************************************************************************)
LEMMA Sizes ==
    /\ IsFiniteSet(Procs) /\ Cardinality(Procs) \in Nat
    /\ IsFiniteSet(Blocks) /\ Cardinality(Blocks) \in 0 .. 2
    /\ REF_MOD \in Nat /\ Cardinality(Procs) + 1 < REF_MOD
<1>1. IsFiniteSet(Procs)
  BY BufferAssumption, FS_Union DEF Procs
<1>2. Cardinality(Procs) \in Nat /\ Cardinality(Blocks) \in Nat
  BY <1>1, BufferAssumption, FS_CardinalityType
<1>. QED
  BY <1>1, <1>2, BufferAssumption, SMT DEF Procs

\* Three different blocks would be one too many.
LEMMA TwoBlocks ==
    ASSUME NEW a \in Blocks, NEW b \in Blocks, NEW c \in Blocks, a # b, b # c
    PROVE  a = c
<1>1. SUFFICES ASSUME a # c PROVE FALSE
  OBVIOUS
<1>2. IsFiniteSet({a}) /\ Cardinality({a}) = 1
  BY FS_Singleton
<1>3. IsFiniteSet({a} \cup {b}) /\ Cardinality({a} \cup {b}) = 2
  BY <1>2, FS_AddElement, SMT
<1>4. Cardinality(({a} \cup {b}) \cup {c}) = 3
  <2>1. c \notin {a} \cup {b}
    BY <1>1
  <2>. QED
    BY <1>3, <2>1, FS_AddElement, SMT
<1>5. ({a} \cup {b}) \cup {c} \in SUBSET Blocks
  OBVIOUS
<1>6. Cardinality(({a} \cup {b}) \cup {c}) <= Cardinality(Blocks)
  BY <1>5, Sizes, FS_Subset
<1>. QED
  BY <1>4, <1>6, Sizes, SMT

\* What a chain says of a key.
LEMMA NodeOf ==
    ASSUME NEW t, Chain(t), NEW i \in DOMAIN t
    PROVE  /\ t[i].key \in Blocks /\ t[i].value \in Ids
           /\ Contains(t, t[i].key) /\ Lookup(t, t[i].key) = t[i].value
<1>1. t[i].key \in Blocks /\ t[i].value \in Ids
  <2>1. t[i] \in Nodes
    BY SMT DEF Chain
  <2>. QED
    BY <2>1 DEF Nodes
<1>2. Contains(t, t[i].key)
  BY DEF Contains
<1>3. At(t, t[i].key) = i
  BY DEF At, Chain
<1>. QED
  BY <1>1, <1>2, <1>3 DEF Lookup

\* A block that contains finds has a node.
LEMMA KeyOf ==
    ASSUME NEW t, Chain(t), NEW b, Contains(t, b)
    PROVE  /\ At(t, b) \in DOMAIN t /\ t[At(t, b)].key = b
           /\ b \in Blocks /\ Lookup(t, b) = t[At(t, b)].value /\ Lookup(t, b) \in Ids
<1>1. At(t, b) \in DOMAIN t /\ t[At(t, b)].key = b
  BY DEF At, Contains
<1>2. Lookup(t, b) = t[At(t, b)].value
  BY DEF Lookup
<1>. QED
  BY <1>1, <1>2, NodeOf

\* A chain that lacks one of the two blocks has at most one node.
LEMMA Short ==
    ASSUME NEW t, Chain(t), NEW b \in Blocks, ~Contains(t, b)
    PROVE  Len(t) \in {0, 1}
<1>1. Len(t) \in Nat /\ DOMAIN t = 1 .. Len(t)
  BY SMT DEF Chain
<1>2. SUFFICES ASSUME Len(t) >= 2 PROVE FALSE
  BY <1>1, SMT
<1>3. 1 \in DOMAIN t /\ 2 \in DOMAIN t
  BY <1>1, <1>2, SMT
<1>4. t[1].key # t[2].key /\ t[1].key \in Blocks /\ t[2].key \in Blocks
  <2>1. t[1].key # t[2].key
    BY <1>3, SMT DEF Chain
  <2>. QED
    BY <1>3, <2>1, NodeOf
<1>5. t[1].key # b /\ t[2].key # b
  BY <1>3 DEF Contains
<1>. QED
  BY <1>4, <1>5, TwoBlocks

\* A part of a sequence.
LEMMA Part ==
    ASSUME NEW S, NEW c \in Seq(S), NEW m \in 1 .. Len(c) + 1, NEW n \in 0 .. Len(c), m <= n + 1
    PROVE  /\ SubSeq(c, m, n) \in Seq(S) /\ Len(SubSeq(c, m, n)) = n - m + 1
           /\ \A i \in 1 .. n - m + 1 : SubSeq(c, m, n)[i] = c[m + i - 1]
<1>1. m \in Int /\ n \in Int /\ (m <= n \/ n - m + 1 = 0)
  BY LenProperties, SMT
<1>2. \A i \in m .. n : c[i] \in S
  BY LenProperties, SMT
<1>3. Len(SubSeq(c, m, n)) = IF m <= n THEN n - m + 1 ELSE 0
  BY <1>1, <1>2, SubSeqProperties
<1>. QED
  BY <1>1, <1>2, <1>3, SubSeqProperties, SMT

\* t is chain c with buffer i for block b.
Puts(c, t, b, i) ==
    /\ Chain(t) /\ Contains(t, b) /\ Lookup(t, b) = i
    /\ \A a \in Blocks \ {b} : /\ Contains(t, a) <=> Contains(c, a)
                               /\ Contains(c, a) => Lookup(t, a) = Lookup(c, a)

\* operator[] puts a new buffer in front of the one that is there.
LEMMA Assigned ==
    ASSUME NEW c, Chain(c), NEW b \in Blocks, ~Contains(c, b), NEW i \in Ids
    PROVE  Puts(c, Assign(c, b, Nil, i), b, i)
<1> SUFFICES ASSUME NEW t, t = Assign(c, b, Nil, i)
             PROVE  /\ Chain(t) /\ Contains(t, b) /\ Lookup(t, b) = i
                    /\ \A a \in Blocks \ {b} :
                          /\ Contains(t, a) <=> Contains(c, a)
                          /\ Contains(c, a) => Lookup(t, a) = Lookup(c, a)
  BY DEF Puts
<1> DEFINE x == Index(c, b, Nil)
<1>1. Len(c) \in {0, 1} /\ c \in Seq(Nodes) /\ DOMAIN c = 1 .. Len(c)
  BY Short, SMT DEF Chain
<1>2. x = IF c = <<>> THEN <<Node(b, Nil)>> ELSE <<Node(b, Nil), c[Len(c)]>>
  BY DEF Index
<1>3. t = [x EXCEPT ![At(x, b)].value = i]
  BY DEF Assign
<1>4. CASE Len(c) = 0
  <2>1. c = <<>> /\ \A a : ~Contains(c, a)
    BY <1>1, <1>4, SMT DEF Contains
  <2>2. x = <<Node(b, Nil)>>
    BY <1>2, <2>1
  <2>3. At(x, b) = 1
    BY <2>2, SMT DEF At, Node
  <2>4. t = <<Node(b, i)>>
    BY <1>3, <2>2, <2>3, SMT DEF Node
  <2>5. Node(b, i) \in Nodes /\ Node(b, i).key = b /\ Node(b, i).value = i
    BY DEF Node, Nodes
  <2>6. Chain(t) /\ 1 \in DOMAIN t /\ t[1].key = b /\ t[1].value = i
    BY <2>4, <2>5, SMT DEF Chain
  <2>7. Contains(t, b) /\ Lookup(t, b) = i
    BY <2>6, NodeOf
  <2>8. \A a \in Blocks \ {b} : ~Contains(t, a)
    BY <2>4, <2>5, SMT DEF Contains
  <2>. QED
    BY <2>1, <2>6, <2>7, <2>8
<1>5. CASE Len(c) = 1
  <2>1. c # <<>> /\ DOMAIN c = {1} /\ c[1] \in Nodes
    BY <1>1, <1>5, SMT
  <2>2. x = <<Node(b, Nil), c[1]>>
    BY <1>2, <1>5, <2>1
  <2>3. c[1].key # b /\ c[1].key \in Blocks
    BY <2>1, NodeOf DEF Contains
  <2>4. At(x, b) = 1
    BY <2>2, <2>3, SMT DEF At, Node
  <2>5. t = <<Node(b, i), c[1]>>
    BY <1>3, <2>2, <2>4, SMT DEF Node
  <2>6. Node(b, i) \in Nodes /\ Node(b, i).key = b /\ Node(b, i).value = i
    BY DEF Node, Nodes
  <2>7. t \in Seq(Nodes) /\ DOMAIN t = {1, 2} /\ t[1] = Node(b, i) /\ t[2] = c[1]
    BY <2>1, <2>5, <2>6, SMT
  <2>8. Chain(t)
    BY <2>3, <2>6, <2>7, SMT DEF Chain
  <2>9. Contains(t, b) /\ Lookup(t, b) = i
    BY <2>6, <2>7, <2>8, NodeOf, SMT
  <2>10. ASSUME NEW a \in Blocks \ {b}
         PROVE  /\ Contains(t, a) <=> Contains(c, a)
                /\ Contains(c, a) => Lookup(t, a) = Lookup(c, a)
    <3>1. Contains(t, a) <=> c[1].key = a
      BY <2>6, <2>7 DEF Contains
    <3>2. Contains(c, a) <=> c[1].key = a
      BY <2>1 DEF Contains
    <3>3. Lookup(c, c[1].key) = c[1].value
      BY <2>1, NodeOf
    <3>4. Lookup(t, t[2].key) = t[2].value
      BY <2>7, <2>8, NodeOf
    <3>. QED
      BY <2>7, <3>1, <3>2, <3>3, <3>4
  <2>. QED
    BY <2>8, <2>9, <2>10
<1>. QED
  BY <1>1, <1>4, <1>5

\* erase removes a buffer and leaves the others.
LEMMA Erased ==
    ASSUME NEW c, Chain(c), NEW b, Contains(c, b), NEW t, t = Erase(c, b)
    PROVE  /\ Chain(t) /\ ~Contains(t, b)
           /\ \A a \in Blocks \ {b} : /\ Contains(t, a) <=> Contains(c, a)
                                      /\ Contains(c, a) => Lookup(t, a) = Lookup(c, a)
<1> DEFINE k == At(c, b)
<1>1. c \in Seq(Nodes) /\ Len(c) \in Nat /\ DOMAIN c = 1 .. Len(c)
  BY SMT DEF Chain
<1>2. k \in 1 .. Len(c) /\ c[k].key = b
  BY <1>1, KeyOf
<1>3. t = SubSeq(c, 1, k - 1) \o SubSeq(c, k + 1, Len(c))
  BY DEF Erase
<1> HIDE DEF k
<1>4. /\ t \in Seq(Nodes) /\ DOMAIN t = 1 .. Len(c) - 1
      /\ \A i \in 1 .. k - 1 : t[i] = c[i]
      /\ \A i \in k .. Len(c) - 1 : t[i] = c[i + 1]
  <2> DEFINE u == SubSeq(c, 1, k - 1)
             v == SubSeq(c, k + 1, Len(c))
  <2>1. u \in Seq(Nodes) /\ Len(u) = k - 1 /\ \A i \in 1 .. k - 1 : u[i] = c[i]
    <3>1. 1 \in 1 .. Len(c) + 1 /\ k - 1 \in 0 .. Len(c) /\ 1 <= (k - 1) + 1
      BY <1>1, <1>2, SMT
    <3>2. /\ u \in Seq(Nodes) /\ Len(u) = (k - 1) - 1 + 1
          /\ \A i \in 1 .. (k - 1) - 1 + 1 : u[i] = c[1 + i - 1]
      BY <1>1, <3>1, Part
    <3> HIDE DEF u
    <3>3. (k - 1) - 1 + 1 = k - 1 /\ \A i \in 1 .. k - 1 : 1 + i - 1 = i
      BY <1>1, <1>2, SMT
    <3>. QED
      BY <3>2, <3>3
  <2>2. /\ v \in Seq(Nodes) /\ Len(v) = Len(c) - k
        /\ \A i \in 1 .. Len(c) - k : v[i] = c[k + i]
    <3>1. k + 1 \in 1 .. Len(c) + 1 /\ Len(c) \in 0 .. Len(c) /\ k + 1 <= Len(c) + 1
      BY <1>1, <1>2, SMT
    <3>2. /\ v \in Seq(Nodes) /\ Len(v) = Len(c) - (k + 1) + 1
          /\ \A i \in 1 .. Len(c) - (k + 1) + 1 : v[i] = c[(k + 1) + i - 1]
      BY <1>1, <3>1, Part
    <3> HIDE DEF v
    <3>3. /\ Len(c) - (k + 1) + 1 = Len(c) - k
          /\ \A i \in 1 .. Len(c) - k : (k + 1) + i - 1 = k + i
      BY <1>1, <1>2, SMT
    <3>. QED
      BY <3>2, <3>3
  <2>3. t = u \o v
    BY <1>3
  <2> HIDE DEF u, v
  <2>4. t \in Seq(Nodes) /\ Len(t) = Len(c) - 1
    <3>1. t \in Seq(Nodes) /\ Len(t) = Len(u) + Len(v)
      BY <2>1, <2>2, <2>3, ConcatProperties
    <3>. QED
      BY <1>1, <1>2, <2>1, <2>2, <3>1, SMT
  <2>0. \A i \in 1 .. Len(u) + Len(v) : t[i] = IF i <= Len(u) THEN u[i] ELSE v[i - Len(u)]
    BY <2>1, <2>2, <2>3, ConcatProperties, SMT
  <2>5. ASSUME NEW i \in 1 .. k - 1 PROVE t[i] = c[i]
    <3>1. i \in 1 .. Len(u) + Len(v) /\ i <= Len(u)
      BY <1>1, <1>2, <2>1, <2>2, SMT
    <3>. QED
      BY <2>0, <2>1, <3>1
  <2>6. ASSUME NEW i \in k .. Len(c) - 1 PROVE t[i] = c[i + 1]
    <3>0. i \in 1 .. Len(u) + Len(v) /\ ~(i <= Len(u))
      BY <1>1, <1>2, <2>1, <2>2, SMT
    <3>1. t[i] = v[i - (k - 1)]
      BY <2>0, <2>1, <3>0
    <3>2. i - (k - 1) \in 1 .. Len(c) - k /\ k + (i - (k - 1)) = i + 1
      BY <1>1, <1>2, SMT
    <3>. QED
      BY <2>2, <3>1, <3>2
  <2>. QED
    BY <1>1, <2>4, <2>5, <2>6, SMT
<1>5. \A i \in DOMAIN t : \E j \in DOMAIN c : /\ t[i] = c[j] /\ j # k
                                              /\ j = IF i < k THEN i ELSE i + 1
  BY <1>1, <1>2, <1>4, SMT
<1>6. \A j \in DOMAIN c \ {k} : \E i \in DOMAIN t : t[i] = c[j]
  <2>1. ASSUME NEW j \in DOMAIN c, j < k PROVE j \in DOMAIN t /\ t[j] = c[j]
    BY <1>1, <1>2, <1>4, <2>1, SMT
  <2>2. ASSUME NEW j \in DOMAIN c, j > k PROVE j - 1 \in DOMAIN t /\ t[j - 1] = c[j]
    BY <1>1, <1>2, <1>4, <2>2, SMT
  <2>3. \A j \in DOMAIN c \ {k} : j < k \/ j > k
    BY <1>1, <1>2, SMT
  <2>. QED
    BY <2>1, <2>2, <2>3
<1>7. ASSUME NEW i \in DOMAIN t, NEW j \in DOMAIN t, t[i].key = t[j].key PROVE i = j
  <2>1. PICK x \in DOMAIN c : t[i] = c[x] /\ x = IF i < k THEN i ELSE i + 1
    BY <1>5
  <2>2. PICK y \in DOMAIN c : t[j] = c[y] /\ y = IF j < k THEN j ELSE j + 1
    BY <1>5
  <2>3. x = y
    BY <1>7, <2>1, <2>2 DEF Chain
  <2>. QED
    BY <1>1, <1>2, <1>4, <2>1, <2>2, <2>3, SMT
<1>8. Chain(t)
  BY <1>4, <1>7 DEF Chain
<1>9. ~Contains(t, b)
  <2>1. SUFFICES ASSUME NEW i \in DOMAIN t, t[i].key = b PROVE FALSE
    BY DEF Contains
  <2>2. PICK j \in DOMAIN c : t[i] = c[j] /\ j # k
    BY <1>5
  <2>. QED
    BY <1>1, <1>2, <2>1, <2>2 DEF Chain
<1>10. ASSUME NEW a \in Blocks \ {b}, Contains(c, a)
       PROVE  Contains(t, a) /\ Lookup(t, a) = Lookup(c, a)
  <2>1. PICK j \in DOMAIN c : c[j].key = a
    BY <1>10 DEF Contains
  <2>2. PICK i \in DOMAIN t : t[i] = c[j]
    BY <1>2, <1>6, <2>1
  <2>3. Lookup(c, a) = c[j].value
    BY <2>1, NodeOf
  <2>4. Contains(t, a) /\ Lookup(t, a) = t[i].value
    BY <1>8, <2>1, <2>2, NodeOf
  <2>. QED
    BY <2>2, <2>3, <2>4
<1>11. ASSUME NEW a \in Blocks \ {b}, Contains(t, a) PROVE Contains(c, a)
  BY <1>5, <1>11 DEF Contains
<1>. QED
  BY <1>8, <1>9, <1>10, <1>11

\* A count that is not at its limit does not wrap.
LEMMA CountsUp ==
    ASSUME NEW n \in Nat, NEW m \in Nat, n < m
    PROVE  n % m = n
BY SMT

\* A count above zero goes down by one in uint32_t arithmetic.
LEMMA CountsDown ==
    ASSUME NEW n \in Nat, NEW m \in Nat, 1 <= n, n < m
    PROVE  (n + m - 1) % m = n - 1
BY SMT

\* The users of a block are finitely many, no more than the processes.
LEMMA UserCount ==
    ASSUME NEW b
    PROVE  /\ IsFiniteSet(Users(b)) /\ Cardinality(Users(b)) \in Nat
           /\ Cardinality(Users(b)) <= Cardinality(Procs)
<1>1. Users(b) \in SUBSET Procs
  BY DEF Users
<1>. QED
  BY <1>1, Sizes, FS_Subset, FS_CardinalityType

\* The count of a buffer: its users and its pin.
LEMMA SomeRefs ==
    ASSUME NEW c \in Nat, c >= 1, NEW k \in {0, 1}
    PROVE  c + k >= 1
BY SMT

\* Without a pin only the users count.
LEMMA NoPin ==
    ASSUME NEW c \in Nat, NEW k, k = 0
    PROVE  c + k = c
BY SMT

\* Lowering the count takes one off it.
LEMMA LoweredByOne ==
    ASSUME NEW c \in Nat
    PROVE  Lowered(c + 1) = c
BY SMT DEF Lowered

\* c users and k pins, one more user, and a count below m.
Fits(c, k, m) == /\ c + 1 + k \in Nat /\ c + 1 + k < m
                 /\ (c + k) + 1 = c + 1 + k

\* One more user still fits in the count.
LEMMA RefsFit ==
    ASSUME NEW c \in Nat, NEW k \in {0, 1}, NEW n \in Nat, NEW m \in Nat,
           c + 1 <= n, n + 1 < m
    PROVE  Fits(c, k, m)
BY SMT DEF Fits

\* c users and k pins, one user less, and a count below m.
Lasts(c, k, m) == /\ c + k \in Nat /\ 1 <= c + k /\ c + k < m
                  /\ (c + k) - 1 = c - 1 + k /\ c - 1 + k \in Nat

\* One user less leaves a count that is not negative.
LEMMA RefsLeft ==
    ASSUME NEW c \in Nat, c >= 1, NEW k \in {0, 1}, NEW n \in Nat, NEW m \in Nat,
           c <= n, n + 1 < m
    PROVE  Lasts(c, k, m)
BY SMT DEF Lasts

\* Who is not counted leaves room for one more.
LEMMA RoomForOne ==
    ASSUME NEW c \in Nat, NEW n \in Nat, NEW m, m = n - 1, c <= m
    PROVE  c + 1 <= n
BY SMT

\* The first user of a block that is not pinned.
LEMMA FirstUser ==
    ASSUME NEW c, c = 0, NEW k, k = 0
    PROVE  c + 1 + k = 1
BY SMT

\* The numbers of a list of n.
LEMMA Positive ==
    ASSUME NEW n \in Nat, NEW t \in 1 .. n
    PROVE  t \in Nat /\ t >= 1
BY SMT

\* The blocks before the one after t.
LEMMA NextBlocks ==
    ASSUME NEW t \in Nat, t >= 1
    PROVE  1 .. (t + 1) - 1 = (1 .. t - 1) \cup {t}
BY SMT

\* The last reference is a user's.
LEMMA LastUser ==
    ASSUME NEW c \in Nat, c >= 1, NEW k \in {0, 1}, c + k = 1
    PROVE  c = 1 /\ k = 0
BY SMT

\* What changing one field of the locals leaves.
LEMMA SeenSet ==
    ASSUME NEW l \in Locals, NEW n \in Nat
    PROVE  /\ [l EXCEPT !.seen = n] \in Locals
           /\ [l EXCEPT !.seen = n].buf = l.buf /\ [l EXCEPT !.seen = n].block = l.block
           /\ [l EXCEPT !.seen = n].use = l.use /\ [l EXCEPT !.seen = n].back = l.back
           /\ [l EXCEPT !.seen = n].tail = l.tail
BY SMT DEF Locals

\* The same for the buffer a process has.
LEMMA BufSet ==
    ASSUME NEW l \in Locals, NEW i \in Nat
    PROVE  /\ [l EXCEPT !.buf = i] \in Locals
           /\ [l EXCEPT !.buf = i].buf = i /\ [l EXCEPT !.buf = i].block = l.block
           /\ [l EXCEPT !.buf = i].use = l.use /\ [l EXCEPT !.buf = i].back = l.back
           /\ [l EXCEPT !.buf = i].tail = l.tail
BY SMT DEF Locals

\* What changing one field of a buffer leaves.
LEMMA BlockSet ==
    ASSUME NEW r \in Buffers, NEW b \in Blocks
    PROVE  /\ [r EXCEPT !.block = b] \in Buffers /\ [r EXCEPT !.block = b].block = b
           /\ [r EXCEPT !.block = b].valid = r.valid
BY SMT DEF Buffers

\* The same for its count.
LEMMA CountSet ==
    ASSUME NEW r \in Buffers, NEW n \in Nat
    PROVE  /\ [r EXCEPT !.refs = n] \in Buffers /\ [r EXCEPT !.refs = n].refs = n
           /\ [r EXCEPT !.refs = n].block = r.block /\ [r EXCEPT !.refs = n].valid = r.valid
BY SMT DEF Buffers

\* A buffer nobody has is a buffer.
LEMMA BlankBuffer == Blank \in Buffers /\ Blank.valid = FALSE
<1>1. Blank \in Buffers
  BY SMT DEF Blank, Buffers
<1>2. Blank.valid = FALSE
  BY DEF Blank
<1>. QED
  BY <1>1, <1>2

\* Buffers are numbered from one.
LEMMA IdsPositive ==
    ASSUME NEW i \in Ids
    PROVE  i \in Nat /\ i # 0
<1> DEFINE n == Cardinality(Blocks) + Cardinality(Procs)
<1>1. n \in Nat
  BY Sizes, SMT
<1>2. i \in 1 .. n
  BY DEF Ids
<1> HIDE DEF n
<1>. QED
  BY <1>1, <1>2, SMT
-----------------------------------------------------------------------------
(***************************************************************************)
(* What a step of one process leaves as it is.                             *)
(***************************************************************************)
\* The commit of q has installed b, and unpinned it.
Past(q, b) == local[q].use = "install" /\ Unpinned(q, b)

\* q takes no part in the step, except that it may be woken.
Rests(q) == /\ local'[q] = local[q]
            /\ pc'[q] = pc[q] \/ (pc[q] = "asleep" /\ pc'[q] = "begin")

\* The pins depend only on the header and on how far the committer has come.
LEMMA PinnedStays ==
    ASSUME NEW b, header' = header, \A q \in Procs : Past(q, b)' <=> Past(q, b)
    PROVE  (Pinned(b)' <=> Pinned(b)) /\ Pins(b)' = Pins(b)
<1>1. Pinned(b) <=> b \in Logged /\ \A q \in Procs : ~Past(q, b)
  BY DEF Pinned, Past
<1>2. Pinned(b)' <=> b \in Logged' /\ \A q \in Procs : ~Past(q, b)'
  BY DEF Pinned, Past
<1>3. Logged' = Logged
  BY DEF Logged
<1>. QED
  BY <1>1, <1>2, <1>3 DEF Pins

\* What a process is doing does not change when another one moves.
LEMMA Bystander ==
    ASSUME Body, NEW q \in Procs, Rests(q)
    PROVE  /\ Shape(q)'
           /\ InOp(q)' <=> InOp(q)
           /\ Commits(q)' <=> Commits(q)
           /\ Saving(q)' <=> Saving(q)
           /\ Holds(q)' <=> Holds(q)
           /\ pc'[q] \in {"unpin", "store"} <=> pc[q] \in {"unpin", "store"}
           /\ header' = header => Copied(q)' = Copied(q)
           /\ header' = header => \A b : Past(q, b)' <=> Past(q, b)
<1>1. Shape(q)
  BY DEF Body
<1>2. CASE pc'[q] = pc[q]
  BY <1>1, <1>2 DEF Rests, Shape, Calling, InOp, Commits, Saving, Holds, Copied, Past, Unpinned
<1>3. CASE pc[q] = "asleep" /\ pc'[q] = "begin"
  <2>1. local[q] = NoLocals /\ local'[q] = NoLocals
    BY <1>1, <1>3 DEF Shape, Calling, Rests
  <2>2. local[q].use = "none" /\ local'[q].use = "none"
    BY <2>1, SMT DEF NoLocals
  <2>. QED
    BY <1>3, <2>1, <2>2 DEF Shape, Calling, InOp, Commits, Saving, Holds, Copied, Past
<1>. QED
  BY <1>2, <1>3 DEF Rests

\* A step of p that leaves the table and the names of the buffers, and what p has.
LEMMA Still ==
    ASSUME Body, NEW p \in Procs, table' = table,
           \A i \in Ids : buf'[i].block = buf[i].block,
           \A q \in Procs \ {p} : Rests(q),
           local'[p].buf = local[p].buf,
           local'[p].buf # 0 => local'[p].block = local[p].block,
           Shape(p)'
    PROVE  /\ Chain(table)' /\ Named'
           /\ \A q \in Procs : Shape(q)' /\ Held(q)'
           /\ \A b : Users(b)' = Users(b)
<1>1. Chain(table)'
  BY DEF Body
<1>2. Named'
  <2>1. SUFFICES ASSUME NEW b \in Blocks, Contains(table, b)
                 PROVE  buf'[Lookup(table, b)].block = b
    BY DEF Named
  <2>2. Lookup(table, b) \in Ids
    BY <2>1, KeyOf DEF Body
  <2>. QED
    BY <2>1, <2>2 DEF Body, Named
<1>3. ASSUME NEW q \in Procs PROVE Shape(q)' /\ Held(q)'
  <2>1. Shape(q)'
    BY Bystander
  <2>2. local'[q].buf = local[q].buf /\ (local'[q].buf # 0 => local'[q].block = local[q].block)
    BY DEF Rests
  <2>3. Held(q)
    BY DEF Body
  <2>. QED
    BY <2>1, <2>2, <2>3 DEF Held
<1>4. ASSUME NEW b PROVE Users(b)' = Users(b)
  <2>1. \A q \in Procs : /\ local'[q].buf = local[q].buf
                         /\ local'[q].buf # 0 => local'[q].block = local[q].block
    BY DEF Rests
  <2>2. ASSUME NEW q \in Procs PROVE q \in Users(b)' <=> q \in Users(b)
    BY <2>1 DEF Users
  <2>3. Users(b) \subseteq Procs /\ Users(b)' \subseteq Procs
    BY DEF Users
  <2>. QED
    BY <2>2, <2>3
<1>. QED
  BY <1>1, <1>2, <1>3, <1>4

\* A step that opens and closes no operation and no commit.
LEMMA ControlStays ==
    ASSUME Body, outstanding' = outstanding, committing' = committing,
           \A q \in Procs : (InOp(q)' <=> InOp(q)) /\ (Commits(q)' <=> Commits(q))
    PROVE  Control'
<1>1. {q \in Procs : InOp(q)'} = {q \in Procs : InOp(q)}
  OBVIOUS
<1>. QED
  BY <1>1 DEF Body, Control

\* A step of p that leaves the cache.
LEMMA Quiet ==
    ASSUME Body, NEW p \in Procs, UNCHANGED <<table, buf, disk, latest, header>>,
           \A q \in Procs \ {p} : Rests(q),
           local'[p].buf = local[p].buf,
           local'[p].buf # 0 => local'[p].block = local[p].block,
           \A b \in Blocks : Past(p, b)' <=> Past(p, b),
           Holds(p)' => Holds(p),
           pc'[p] \in {"unpin", "store"} => pc[p] \in {"unpin", "store"},
           Typed', Shape(p)', Control', \A q \in Procs : Saves(q)'
    PROVE  Body'
<1>1. /\ Chain(table)' /\ Named'
      /\ \A q \in Procs : Shape(q)' /\ Held(q)'
      /\ \A b : Users(b)' = Users(b)
  BY Still
<1>2. Once'
  BY DEF Body, Once
<1>3. ASSUME NEW b \in Blocks PROVE (Pinned(b)' <=> Pinned(b)) /\ Pins(b)' = Pins(b)
  <2>1. \A q \in Procs : Past(q, b)' <=> Past(q, b)
    BY Bystander
  <2>. QED
    BY <2>1, PinnedStays
<1>4. ASSUME NEW b \in Blocks PROVE Right(b)' /\ Counted(b)'
  <2>1. Right(b) /\ Counted(b)
    BY DEF Body
  <2>. QED
    BY <1>1, <1>3, <2>1 DEF Right, Counted
<1>5. ASSUME NEW q \in Procs PROVE Sees(q)'
  <2>1. Sees(q)
    BY DEF Body
  <2>2. CASE q = p
    <3>1. pc'[p] \in {"unpin", "store"} => local'[p].block = local[p].block
      BY <1>1 DEF Shape, Calling, Holds
    <3>. QED
      BY <2>1, <2>2, <3>1 DEF Sees
  <2>3. CASE q # p
    BY <2>1, <2>3, Bystander DEF Sees, Rests
  <2>. QED
    BY <2>2, <2>3
<1>. QED
  BY <1>1, <1>2, <1>4, <1>5 DEF Body
-----------------------------------------------------------------------------
(***************************************************************************)
(* The steps that leave the cache.                                         *)
(***************************************************************************)
LEMMA Goes ==
    ASSUME Typed, NEW p \in Procs, NEW at \in Places, Go(p, at)
    PROVE  /\ pc' \in [Procs -> Places] /\ pc'[p] = at
           /\ \A q \in Procs \ {p} : pc'[q] = pc[q]
BY DEF Typed, Go

\* What a process has in its locals when it wants block b for a use.
Asks(p, b, use, tail) ==
    /\ local' \in [Procs -> Locals] /\ pc' \in [Procs -> Places]
    /\ \A q \in Procs \ {p} : Rests(q)
    /\ pc'[p] = "get"
    /\ local'[p].block = b /\ local'[p].buf = 0 /\ local'[p].use = use
    /\ local'[p].back = pc[p] /\ local'[p].tail = tail

\* What a process wants is in its locals.
LEMMA Wanted ==
    ASSUME Typed, NEW p \in Procs, NEW b \in Blocks, NEW use \in Uses, NEW tail \in Nat,
           Wants(p, b, use, tail)
    PROVE  Asks(p, b, use, tail)
<1> DEFINE new == [NoLocals EXCEPT !.block = b, !.use = use, !.back = pc[p], !.tail = tail]
<1>1. /\ new.block = b /\ new.buf = 0 /\ new.use = use /\ new.back = pc[p]
      /\ new.tail = tail /\ new.seen = 0
  BY DEF NoLocals
<1>2. new \in Locals
  <2>1. pc[p] \in Places
    BY DEF Typed
  <2>2. NoLocals \in Locals
    BY SMT DEF NoLocals, Locals, Places
  <2> DEFINE a == [NoLocals EXCEPT !.block = b]
             c == [a EXCEPT !.use = use]
             d == [c EXCEPT !.back = pc[p]]
  <2>3. a \in Locals
    BY <2>2, SMT DEF Locals
  <2>4. c \in Locals
    <3> HIDE DEF a
    <3>. QED
      BY <2>3, SMT DEF Locals
  <2>5. d \in Locals
    <3> HIDE DEF c
    <3>. QED
      BY <2>1, <2>4, SMT DEF Locals
  <2>6. [d EXCEPT !.tail = tail] \in Locals
    <3> HIDE DEF d
    <3>. QED
      BY <2>5, SMT DEF Locals
  <2>. QED
    BY <2>6
<1>3. local' = [local EXCEPT ![p] = new] /\ Go(p, "get")
  BY DEF Wants
<1> HIDE DEF new
<1>4. "get" \in Places
  BY DEF Places
<1>5. pc' \in [Procs -> Places] /\ pc'[p] = "get" /\ \A q \in Procs \ {p} : pc'[q] = pc[q]
  BY <1>3, <1>4, Goes
<1>6. local' \in [Procs -> Locals] /\ local'[p] = new /\ \A q \in Procs \ {p} : local'[q] = local[q]
  BY <1>2, <1>3 DEF Typed
<1>. QED
  BY <1>1, <1>5, <1>6 DEF Rests, Asks

\* Saves is about the log only.
LEMMA SavesStays ==
    ASSUME Body, NEW q \in Procs, Rests(q), UNCHANGED <<header, entry, latest>>
    PROVE  Saves(q)'
<1>1. Saves(q)
  BY DEF Body
<1>2. (Saving(q)' <=> Saving(q)) /\ Copied(q)' = Copied(q)
  BY Bystander
<1>. QED
  BY <1>1, <1>2 DEF Saves, Rests

\* A read begins.
LEMMA ReadCallStep ==
    ASSUME Body, NEW p \in Procs, ReadCall(p)
    PROVE  Body'
<1>0. Typed /\ pc[p] = "idle" /\ Shape(p) /\ UNCHANGED <<table, buf, disk, latest, header>>
  BY DEF ReadCall, Body, cacheVars, logVars
<1>1. UNCHANGED <<entry, outstanding, committing>>
  BY DEF ReadCall, logVars
<1>2. local[p].buf = 0 /\ local[p].use = "none"
  BY <1>0, SMT DEF Shape, Calling, NoLocals
<1>3. PICK b \in Blocks : Wants(p, b, "read", 0)
  BY DEF ReadCall
<1>4. /\ local' \in [Procs -> Locals] /\ pc' \in [Procs -> Places]
      /\ \A q \in Procs \ {p} : Rests(q)
      /\ pc'[p] = "get"
      /\ local'[p].block = b /\ local'[p].buf = 0 /\ local'[p].use = "read"
      /\ local'[p].back = pc[p]
  <2>1. "read" \in Uses /\ 0 \in Nat
    BY DEF Uses
  <2>2. Asks(p, b, "read", 0)
    BY <1>0, <1>3, <2>1, Wanted
  <2>. QED
    BY <2>2 DEF Asks
<1>5. Typed'
  BY <1>0, <1>1, <1>4 DEF Typed
<1>6. Shape(p)'
  BY <1>0, <1>4 DEF Shape, Calling, Uses
<1>7. \A a \in Blocks : Past(p, a)' <=> Past(p, a)
  BY <1>2, <1>4 DEF Past
<1>8. ~Holds(p)' /\ pc'[p] \notin {"unpin", "store"}
  BY <1>4 DEF Holds
<1>9. Control'
  <2>1. (InOp(p)' <=> InOp(p)) /\ (Commits(p)' <=> Commits(p))
    BY <1>0, <1>2, <1>4 DEF InOp, Commits, Saving
  <2>2. \A q \in Procs : (InOp(q)' <=> InOp(q)) /\ (Commits(q)' <=> Commits(q))
    BY <1>4, <2>1, Bystander
  <2>. QED
    BY <1>1, <2>2, ControlStays
<1>10. ASSUME NEW q \in Procs PROVE Saves(q)'
  <2>1. CASE q = p
    BY <1>4, <2>1 DEF Saves, Saving
  <2>2. CASE q # p
    BY <1>0, <1>1, <1>4, <2>2, SavesStays
  <2>. QED
    BY <2>1, <2>2
<1>. QED
  BY <1>0, <1>2, <1>4, <1>5, <1>6, <1>7, <1>8, <1>9, <1>10, Quiet

\* An update inside an operation begins.
LEMMA UpdateCallStep ==
    ASSUME Body, NEW p \in Procs, UpdateCall(p)
    PROVE  Body'
<1>0. Typed /\ pc[p] = "op" /\ Shape(p) /\ UNCHANGED <<table, buf, disk, latest, header>>
  BY DEF UpdateCall, Body, cacheVars, logVars
<1>1. UNCHANGED <<entry, outstanding, committing>>
  BY DEF UpdateCall, logVars
<1>2. local[p].buf = 0 /\ local[p].use = "none"
  BY <1>0, SMT DEF Shape, Calling, NoLocals
<1>3. PICK b \in Blocks : Wants(p, b, "update", 0)
  BY DEF UpdateCall
<1>4. /\ local' \in [Procs -> Locals] /\ pc' \in [Procs -> Places]
      /\ \A q \in Procs \ {p} : Rests(q)
      /\ pc'[p] = "get"
      /\ local'[p].block = b /\ local'[p].buf = 0 /\ local'[p].use = "update"
      /\ local'[p].back = pc[p]
  <2>1. "update" \in Uses /\ 0 \in Nat
    BY DEF Uses
  <2>2. Asks(p, b, "update", 0)
    BY <1>0, <1>3, <2>1, Wanted
  <2>. QED
    BY <2>2 DEF Asks
<1>5. Typed'
  BY <1>0, <1>1, <1>4 DEF Typed
<1>6. Shape(p)'
  BY <1>0, <1>4 DEF Shape, Calling, Uses
<1>7. \A a \in Blocks : Past(p, a)' <=> Past(p, a)
  BY <1>2, <1>4 DEF Past
<1>8. ~Holds(p)' /\ pc'[p] \notin {"unpin", "store"}
  BY <1>4 DEF Holds
<1>9. Control'
  <2>1. (InOp(p)' <=> InOp(p)) /\ (Commits(p)' <=> Commits(p))
    BY <1>0, <1>2, <1>4 DEF InOp, Commits, Saving
  <2>2. \A q \in Procs : (InOp(q)' <=> InOp(q)) /\ (Commits(q)' <=> Commits(q))
    BY <1>4, <2>1, Bystander
  <2>. QED
    BY <1>1, <2>2, ControlStays
<1>10. ASSUME NEW q \in Procs PROVE Saves(q)'
  <2>1. CASE q = p
    BY <1>4, <2>1 DEF Saves, Saving
  <2>2. CASE q # p
    BY <1>0, <1>1, <1>4, <2>2, SavesStays
  <2>. QED
    BY <2>1, <2>2
<1>. QED
  BY <1>0, <1>2, <1>4, <1>5, <1>6, <1>7, <1>8, <1>9, <1>10, Quiet

\* A process calls beginOp.
LEMMA BeginStep ==
    ASSUME Body, NEW p \in Procs, Begin(p)
    PROVE  Body'
<1>0. Typed /\ pc[p] = "idle" /\ Shape(p) /\ Go(p, "begin")
  BY DEF Begin, Body
<1>1. UNCHANGED <<table, buf, disk, latest, header, entry, outstanding, committing, local>>
  BY DEF Begin, cacheVars, logVars
<1>2. local[p] = NoLocals /\ local[p].buf = 0 /\ local[p].use = "none"
  BY <1>0, SMT DEF Shape, Calling, NoLocals
<1>3. /\ pc' \in [Procs -> Places] /\ pc'[p] = "begin"
      /\ \A q \in Procs \ {p} : Rests(q)
  BY <1>0, <1>1, Goes DEF Places, Rests
<1>4. Typed'
  BY <1>0, <1>1, <1>3 DEF Typed
<1>5. Shape(p)'
  BY <1>0, <1>1, <1>2, <1>3 DEF Shape, Calling
<1>6. \A a \in Blocks : Past(p, a)' <=> Past(p, a)
  BY <1>1, <1>2 DEF Past
<1>7. ~Holds(p)' /\ pc'[p] \notin {"unpin", "store"}
  BY <1>3 DEF Holds
<1>8. Control'
  <2>1. (InOp(p)' <=> InOp(p)) /\ (Commits(p)' <=> Commits(p))
    BY <1>0, <1>1, <1>2, <1>3 DEF InOp, Commits, Saving
  <2>2. \A q \in Procs : (InOp(q)' <=> InOp(q)) /\ (Commits(q)' <=> Commits(q))
    BY <1>3, <2>1, Bystander
  <2>. QED
    BY <1>1, <2>2, ControlStays
<1>9. ASSUME NEW q \in Procs PROVE Saves(q)'
  <2>1. CASE q = p
    BY <1>1, <1>2, <2>1 DEF Saves, Saving
  <2>2. CASE q # p
    BY <1>1, <1>3, <2>2, SavesStays
  <2>. QED
    BY <2>1, <2>2
<1>. QED
  BY <1>1, <1>3, <1>4, <1>5, <1>6, <1>7, <1>8, <1>9, Quiet

\* The processes inside an operation are finitely many.
LEMMA Open ==
    ASSUME NEW S, S \subseteq Procs
    PROVE  IsFiniteSet(S) /\ Cardinality(S) \in Nat
BY Sizes, FS_Subset, FS_CardinalityType

\* beginOp admits an operation, or puts the process to sleep.
LEMMA BeginOpStep ==
    ASSUME Body, NEW p \in Procs, BeginOp(p)
    PROVE  Body'
<1>0. Typed /\ pc[p] = "begin" /\ Shape(p) /\ Control
  BY DEF BeginOp, Body
<1>1. UNCHANGED <<table, buf, disk, latest, header, entry, committing, local>>
  BY DEF BeginOp, cacheVars
<1>2. local[p] = NoLocals /\ local[p].buf = 0 /\ local[p].use = "none"
  BY <1>0, SMT DEF Shape, Calling, NoLocals
<1>3. \/ Go(p, "asleep") /\ outstanding' = outstanding
      \/ Go(p, "op") /\ outstanding' = outstanding + 1 /\ ~committing
  BY DEF BeginOp
<1>4. /\ pc' \in [Procs -> Places] /\ pc'[p] \in {"asleep", "op"}
      /\ \A q \in Procs \ {p} : Rests(q)
  BY <1>0, <1>1, <1>3, Goes DEF Places, Rests
<1>5. Typed'
  <2>1. outstanding' \in Nat
    BY <1>0, <1>3, SMT DEF Typed
  <2>. QED
    BY <1>0, <1>1, <1>4, <2>1 DEF Typed
<1>6. Shape(p)'
  BY <1>0, <1>1, <1>2, <1>4 DEF Shape, Calling
<1>7. \A a \in Blocks : Past(p, a)' <=> Past(p, a)
  BY <1>1, <1>2 DEF Past
<1>8. ~Holds(p)' /\ pc'[p] \notin {"unpin", "store"}
  BY <1>4 DEF Holds
<1>9. Control'
  <2>1. ~InOp(p) /\ ~Commits(p) /\ ~Commits(p)'
    BY <1>0, <1>1, <1>2, <1>4 DEF InOp, Commits, Saving
  <2>2. \A q \in Procs \ {p} : (InOp(q)' <=> InOp(q)) /\ (Commits(q)' <=> Commits(q))
    BY <1>4, Bystander
  <2>3. CASE Go(p, "asleep") /\ outstanding' = outstanding
    <3>1. ~InOp(p)'
      BY <1>0, <1>1, <1>2, <2>3, Goes DEF InOp, Places
    <3>. QED
      BY <1>1, <2>1, <2>2, <2>3, <3>1, ControlStays
  <2>4. CASE Go(p, "op") /\ outstanding' = outstanding + 1 /\ ~committing
    <3>1. InOp(p)'
      BY <1>0, <2>4, Goes DEF InOp, Places
    <3>2. {q \in Procs : InOp(q)'} = {q \in Procs : InOp(q)} \cup {p}
      BY <2>2, <3>1
    <3>3. Cardinality({q \in Procs : InOp(q)} \cup {p}) = Cardinality({q \in Procs : InOp(q)}) + 1
      BY <2>1, Open, FS_AddElement
    <3>4. \A q \in Procs : ~Commits(q)'
      BY <1>0, <2>1, <2>2, <2>4 DEF Control
    <3>. QED
      BY <1>0, <2>4, <3>2, <3>3, <3>4 DEF Control
  <2>. QED
    BY <1>3, <2>3, <2>4
<1>10. ASSUME NEW q \in Procs PROVE Saves(q)'
  <2>1. CASE q = p
    BY <1>1, <1>2, <2>1 DEF Saves, Saving
  <2>2. CASE q # p
    BY <1>1, <1>4, <2>2, SavesStays
  <2>. QED
    BY <2>1, <2>2
<1>. QED
  BY <1>1, <1>4, <1>5, <1>6, <1>7, <1>8, <1>9, <1>10, Quiet

\* wakeup(&log) changes nothing else.
LEMMA Wakes ==
    ASSUME Typed, NEW p \in Procs, pc' = [Woken(pc) EXCEPT ![p] = "idle"], local' = local
    PROVE  /\ pc' \in [Procs -> Places] /\ pc'[p] = "idle"
           /\ \A q \in Procs \ {p} : Rests(q)
<1>1. Woken(pc) \in [Procs -> Places]
  BY DEF Woken, Typed, Places
<1>2. \A q \in Procs : Woken(pc)[q] = pc[q] \/ (pc[q] = "asleep" /\ Woken(pc)[q] = "begin")
  BY DEF Woken
<1>3. pc' \in [Procs -> Places] /\ pc'[p] = "idle"
  BY <1>1 DEF Places
<1>4. \A q \in Procs \ {p} : pc'[q] = Woken(pc)[q]
  BY <1>1
<1>. QED
  BY <1>2, <1>3, <1>4 DEF Rests

\* The commit is over, and who waits in beginOp is woken.
LEMMA DoneStep ==
    ASSUME Body, NEW p \in Procs, Done(p)
    PROVE  Body'
<1>0. Typed /\ pc[p] = "done" /\ Shape(p) /\ Control
  BY DEF Done, Body
<1>1. UNCHANGED <<table, buf, disk, latest, header, outstanding, local>>
  BY DEF Done, cacheVars
<1>2. local[p] = NoLocals /\ local[p].buf = 0 /\ local[p].use = "none"
  BY <1>0, SMT DEF Shape, Calling, NoLocals
<1>3. pc' = [Woken(pc) EXCEPT ![p] = "idle"] /\ entry' = <<>> /\ committing' = FALSE
  BY DEF Done
<1>4. /\ pc' \in [Procs -> Places] /\ pc'[p] = "idle"
      /\ \A q \in Procs \ {p} : Rests(q)
  BY <1>0, <1>1, <1>3, Wakes
<1>5. Typed'
  <2>1. entry' \in Seq(Data)
    BY <1>3, SMT
  <2>. QED
    BY <1>0, <1>1, <1>3, <1>4, <2>1 DEF Typed
<1>6. Shape(p)'
  BY <1>0, <1>1, <1>2, <1>4 DEF Shape, Calling
<1>7. \A a \in Blocks : Past(p, a)' <=> Past(p, a)
  BY <1>1, <1>2 DEF Past
<1>8. ~Holds(p)' /\ pc'[p] \notin {"unpin", "store"}
  BY <1>4 DEF Holds
<1>9. \A q \in Procs : ~Commits(q)' /\ (InOp(q)' <=> InOp(q))
  <2>1. Commits(p) /\ ~Commits(p)' /\ ~InOp(p) /\ ~InOp(p)'
    BY <1>0, <1>1, <1>2, <1>4 DEF InOp, Commits, Saving
  <2>2. \A q \in Procs \ {p} : ~Commits(q)
    BY <1>0, <2>1 DEF Control
  <2>. QED
    BY <1>4, <2>1, <2>2, Bystander
<1>10. Control'
  <2>1. {q \in Procs : InOp(q)'} = {q \in Procs : InOp(q)}
    BY <1>9
  <2>. QED
    BY <1>0, <1>1, <1>9, <2>1 DEF Control
<1>11. ASSUME NEW q \in Procs PROVE Saves(q)'
  BY <1>9 DEF Saves, Commits
<1>. QED
  BY <1>1, <1>4, <1>5, <1>6, <1>7, <1>8, <1>10, <1>11, Quiet

\* endOp ends an operation; the last one commits.
LEMMA EndOpStep ==
    ASSUME Body, NEW p \in Procs, EndOp(p)
    PROVE  Body'
<1>0. Typed /\ pc[p] = "op" /\ Shape(p) /\ Control
  BY DEF EndOp, Body
<1>1. UNCHANGED <<table, buf, disk, latest, header, entry>> /\ outstanding' = outstanding - 1
  BY DEF EndOp, cacheVars
<1>2. local[p] = NoLocals /\ local[p].buf = 0 /\ local[p].use = "none"
  BY <1>0, SMT DEF Shape, Calling, NoLocals
<1> DEFINE S == {q \in Procs : InOp(q)}
<1>3. InOp(p) /\ ~Commits(p) /\ p \in S
  BY <1>0, <1>2 DEF InOp, Commits, Saving
<1>4. /\ outstanding = Cardinality(S) /\ Cardinality(S) \in Nat /\ outstanding # 0
      /\ Cardinality(S \ {p}) = outstanding - 1
  <2>1. IsFiniteSet(S) /\ Cardinality(S) \in Nat
    BY Open
  <2>2. Cardinality(S) # 0
    BY <1>3, <2>1, FS_EmptySet
  <2>. QED
    BY <1>0, <1>3, <2>1, <2>2, FS_RemoveElement DEF Control
<1>5. \A q \in Procs : ~Commits(q)
  BY <1>0, <1>4 DEF Control
<1>6. CASE outstanding # 1
  <2>1. pc' = [Woken(pc) EXCEPT ![p] = "idle"] /\ UNCHANGED <<committing, local>>
    BY <1>6 DEF EndOp
  <2>2. /\ pc' \in [Procs -> Places] /\ pc'[p] = "idle"
        /\ \A q \in Procs \ {p} : Rests(q)
    BY <1>0, <2>1, Wakes
  <2>3. Typed'
    <3>1. outstanding' \in Nat
      BY <1>1, <1>4, SMT
    <3>. QED
      BY <1>0, <1>1, <2>1, <2>2, <3>1 DEF Typed
  <2>4. Shape(p)'
    BY <1>0, <1>2, <2>1, <2>2 DEF Shape, Calling
  <2>5. \A a \in Blocks : Past(p, a)' <=> Past(p, a)
    BY <1>2, <2>1 DEF Past
  <2>6. ~Holds(p)' /\ pc'[p] \notin {"unpin", "store"}
    BY <2>2 DEF Holds
  <2>7. ~InOp(p)' /\ \A q \in Procs \ {p} : InOp(q)' <=> InOp(q)
    BY <1>2, <2>1, <2>2, Bystander DEF InOp
  <2>8. \A q \in Procs : ~Commits(q)'
    BY <1>2, <1>5, <2>1, <2>2, Bystander DEF Commits, Saving
  <2>9. Control'
    <3>1. {q \in Procs : InOp(q)'} = S \ {p}
      BY <2>7
    <3>. QED
      BY <1>1, <1>4, <2>8, <3>1 DEF Control
  <2>10. \A q \in Procs : Saves(q)'
    BY <2>8 DEF Saves, Commits
  <2>. QED
    BY <1>1, <2>1, <2>2, <2>3, <2>4, <2>5, <2>6, <2>9, <2>10, Quiet
<1>7. CASE outstanding = 1
  <2>1. committing' = TRUE /\ IF header = <<>> THEN Go(p, "done") /\ UNCHANGED local
                                               ELSE Wants(p, header[1], "copy", 1)
    BY <1>7 DEF EndOp
  <2>2. header # <<>> => Len(header) \in Nat /\ Len(header) >= 1 /\ header[1] \in Blocks
    BY <1>0, SMT DEF Typed
  <2>3. /\ local' \in [Procs -> Locals] /\ pc' \in [Procs -> Places]
        /\ \A q \in Procs \ {p} : Rests(q)
        /\ local'[p].buf = 0
        /\ \/ header = <<>> /\ pc'[p] = "done" /\ local'[p] = NoLocals
           \/ /\ header # <<>> /\ pc'[p] = "get" /\ local'[p].use = "copy"
              /\ local'[p].block = header[1] /\ local'[p].tail = 1
    <3>1. CASE header = <<>>
      <4>1. Go(p, "done") /\ local' = local /\ "done" \in Places
        BY <2>1, <3>1 DEF Places
      <4>2. /\ pc' \in [Procs -> Places] /\ pc'[p] = "done"
            /\ \A q \in Procs \ {p} : Rests(q)
        BY <1>0, <4>1, Goes DEF Rests
      <4>. QED
        BY <1>0, <1>2, <3>1, <4>1, <4>2 DEF Typed
    <3>2. CASE header # <<>>
      <4>1. Wants(p, header[1], "copy", 1) /\ "copy" \in Uses /\ 1 \in Nat
        BY <2>1, <3>2 DEF Uses
      <4>2. Asks(p, header[1], "copy", 1)
        BY <1>0, <2>2, <3>2, <4>1, Wanted
      <4>. QED
        BY <3>2, <4>2 DEF Asks
    <3>. QED
      BY <3>1, <3>2
  <2>4. Typed'
    <3>1. outstanding' \in Nat
      BY <1>1, <1>4, SMT
    <3>. QED
      BY <1>0, <1>1, <2>1, <2>3, <3>1 DEF Typed
  <2>5. Shape(p)'
    <3>1. CASE header = <<>>
      BY <2>3, <3>1, SMT DEF Shape, Calling, NoLocals
    <3>2. CASE header # <<>>
      BY <2>2, <2>3, <3>2 DEF Shape, Calling, Uses
    <3>. QED
      BY <3>1, <3>2
  <2>6. local'[p].use # "install" /\ local'[p].use # "update" /\ pc'[p] \in {"get", "done"}
    BY <2>3, SMT DEF NoLocals
  <2>7. \A a \in Blocks : Past(p, a)' <=> Past(p, a)
    BY <1>2, <2>6 DEF Past
  <2>8. ~Holds(p)' /\ pc'[p] \notin {"unpin", "store"}
    BY <2>6 DEF Holds
  <2>9. ~InOp(p)' /\ \A q \in Procs \ {p} : InOp(q)' <=> InOp(q)
    BY <2>3, <2>6, Bystander DEF InOp
  <2>10. \A q \in Procs \ {p} : ~Commits(q)'
    BY <1>5, <2>3, Bystander
  <2>11. Control'
    <3>1. {q \in Procs : InOp(q)'} = S \ {p}
      BY <2>9
    <3>2. outstanding' = 0
      BY <1>1, <1>7, SMT
    <3>. QED
      BY <1>1, <1>4, <2>1, <2>10, <3>1, <3>2 DEF Control
  <2>12. ASSUME NEW q \in Procs PROVE Saves(q)'
    <3>1. CASE q # p
      BY <2>10, <3>1 DEF Saves, Commits
    <3>2. CASE q = p /\ header = <<>>
      BY <2>3, <3>2, SMT DEF Saves, Saving, NoLocals
    <3>3. CASE q = p /\ header # <<>>
      <4>1. Copied(p)' = 0
        BY <2>3, <3>3, SMT DEF Copied
      <4>2. Len(entry) \in Nat
        BY <1>0, SMT DEF Typed
      <4>3. 1 \in 1 .. Len(header) /\ 0 <= Len(entry) /\ 1 .. 0 = {}
        BY <2>2, <3>3, <4>2, SMT
      <4>. QED
        BY <1>1, <2>3, <3>3, <4>1, <4>3 DEF Saves
    <3>. QED
      BY <3>1, <3>2, <3>3
  <2>. QED
    BY <1>1, <1>2, <2>3, <2>4, <2>5, <2>7, <2>8, <2>11, <2>12, Quiet
<1>. QED
  BY <1>6, <1>7

\* The committer copies a block to the log.
LEMMA CopyStep ==
    ASSUME Body, NEW p \in Procs, Copy(p)
    PROVE  Body'
<1>0. Typed /\ pc[p] = "copy" /\ Shape(p) /\ Saves(p) /\ Held(p) /\ Sees(p) /\ Go(p, "unlock")
  BY DEF Copy, Body
<1>1. UNCHANGED <<table, buf, disk, latest, header, outstanding, committing, local>>
  BY DEF Copy, cacheVars
<1>2. /\ local[p].use = "copy" /\ local[p].buf # 0 /\ local[p].block \in Blocks
      /\ local[p].tail \in Nat
  BY <1>0 DEF Shape, Calling, Typed, Locals
<1>3. /\ pc' \in [Procs -> Places] /\ pc'[p] = "unlock"
      /\ \A q \in Procs \ {p} : Rests(q)
  BY <1>0, <1>1, Goes DEF Places, Rests
<1> DEFINE t == local[p].tail
           d == buf[local[p].buf].data
<1>4. d = latest[local[p].block] /\ d \in Data
  <2>1. Holds(p) /\ Right(local[p].block)
    BY <1>0, <1>2 DEF Holds, Body
  <2>2. Contains(table, local[p].block) /\ Lookup(table, local[p].block) = local[p].buf
    BY <1>0, <1>2 DEF Held
  <2>3. buf[local[p].buf].valid
    BY <1>0, <2>1 DEF Sees
  <2>. QED
    BY <1>0, <1>2, <2>1, <2>2, <2>3 DEF Right, Typed
<1>5. /\ t \in 1 .. Len(header) /\ local[p].block = header[t]
      /\ t - 1 <= Len(entry) /\ \A i \in 1 .. t - 1 : entry[i] = latest[header[i]]
  BY <1>0, <1>2 DEF Saves, Saving, Copied
<1>6. Len(header) \in Nat /\ entry \in Seq(Data) /\ Len(entry) \in Nat
  BY <1>0, SMT DEF Typed
<1>7. /\ entry' \in Seq(Data) /\ Len(entry') = t
      /\ \A i \in 1 .. t - 1 : entry'[i] = entry[i]
      /\ entry'[t] = d
  <2>1. entry' = SubSeq(entry, 1, t - 1) \o <<d>>
    BY DEF Copy, Mine
  <2>2. 1 \in 1 .. Len(entry) + 1 /\ t - 1 \in 0 .. Len(entry) /\ 1 <= (t - 1) + 1
    BY <1>5, <1>6, SMT
  <2> DEFINE u == SubSeq(entry, 1, t - 1)
  <2>3. /\ u \in Seq(Data) /\ Len(u) = (t - 1) - 1 + 1
        /\ \A i \in 1 .. (t - 1) - 1 + 1 : u[i] = entry[1 + i - 1]
    BY <1>6, <2>2, Part
  <2> HIDE DEF u
  <2>4. Len(u) = t - 1 /\ \A i \in 1 .. t - 1 : u[i] = entry[i]
    <3>1. (t - 1) - 1 + 1 = t - 1 /\ \A i \in 1 .. t - 1 : 1 + i - 1 = i
      BY <1>5, <1>6, SMT
    <3>. QED
      BY <2>3, <3>1
  <2>5. entry' = Append(u, d)
    BY <1>4, <2>1, <2>3, AppendIsConcat DEF u
  <2> HIDE DEF t, d
  <2>6. /\ Append(u, d) \in Seq(Data) /\ Len(Append(u, d)) = Len(u) + 1
        /\ \A i \in 1 .. Len(u) : Append(u, d)[i] = u[i]
        /\ Append(u, d)[Len(u) + 1] = d
    BY <1>4, <2>3, AppendProperties, SMT
  <2>7. Len(u) + 1 = t
    BY <1>5, <1>6, <2>4, SMT
  <2>. QED
    BY <2>4, <2>5, <2>6, <2>7
<1>8. Typed'
  BY <1>0, <1>1, <1>3, <1>7 DEF Typed
<1>9. Shape(p)'
  BY <1>0, <1>1, <1>2, <1>3 DEF Shape, Calling
<1>10. \A a \in Blocks : Past(p, a)' <=> Past(p, a)
  BY <1>1, <1>2 DEF Past
<1>11. Holds(p) /\ pc'[p] \notin {"unpin", "store"}
  BY <1>0, <1>3 DEF Holds
<1>12. Commits(p) /\ \A q \in Procs : (InOp(q)' <=> InOp(q)) /\ (Commits(q)' <=> Commits(q))
  <2>1. Commits(p) /\ (InOp(p)' <=> InOp(p)) /\ (Commits(p)' <=> Commits(p))
    BY <1>0, <1>1, <1>2, <1>3 DEF InOp, Commits, Saving
  <2>. QED
    BY <1>3, <2>1, Bystander
<1>13. Control'
  BY <1>1, <1>12, ControlStays
<1>14. ASSUME NEW q \in Procs PROVE Saves(q)'
  <2>1. CASE q = p
    <3>1. Copied(p)' = t
      BY <1>1, <1>2, <1>3 DEF Copied
    <3>2. \A i \in 1 .. t : entry'[i] = latest[header[i]]
      <4>1. \A i \in 1 .. t : i \in 1 .. t - 1 \/ i = t
        BY <1>5, <1>6, SMT
      <4>. QED
        BY <1>4, <1>5, <1>7, <4>1
    <3>3. t <= Len(entry')
      BY <1>5, <1>6, <1>7, SMT
    <3>. QED
      BY <1>1, <1>5, <2>1, <3>1, <3>2, <3>3 DEF Saves
  <2>2. CASE q # p
    <3>1. ~Commits(q)'
      BY <1>12, <2>2 DEF Body, Control
    <3>. QED
      BY <3>1 DEF Saves, Commits
  <2>. QED
    BY <2>1, <2>2
<1>. QED
  BY <1>1, <1>3, <1>8, <1>9, <1>10, <1>11, <1>13, <1>14, Quiet
-----------------------------------------------------------------------------
(***************************************************************************)
(* The steps that change a buffer.                                         *)
(***************************************************************************)
\* What a change of one field of a buffer leaves.
WithOwner(f, i, x) == [f EXCEPT ![i].owner = x]
WithRefs(f, i, x) == [f EXCEPT ![i].refs = x]
WithValid(f, i, x) == [f EXCEPT ![i].valid = x]
WithData(f, i, x) == [f EXCEPT ![i].data = x]

\* g is f but for buffer i, which keeps its block and has the given fields.
Becomes(f, g, i, owner, refs, valid, data) ==
    /\ g \in [Ids -> Buffers] /\ \A j \in Ids \ {i} : g[j] = f[j]
    /\ g[i].block = f[i].block /\ g[i].owner = owner
    /\ g[i].refs = refs /\ g[i].valid = valid /\ g[i].data = data

\* Assigning the owner of a buffer changes that only.
LEMMA OwnerSet ==
    ASSUME NEW f \in [Ids -> Buffers], NEW i \in Ids, NEW x \in Procs \cup {Nil}
    PROVE  Becomes(f, WithOwner(f, i, x), i, x, f[i].refs, f[i].valid, f[i].data)
<1> DEFINE g == WithOwner(f, i, x)
           r == [f[i] EXCEPT !.owner = x]
<1>1. f[i] \in Buffers
  OBVIOUS
<1>2. r \in Buffers /\ r.owner = x /\ r.block = f[i].block /\ r.refs = f[i].refs /\ r.valid = f[i].valid /\ r.data = f[i].data
  BY <1>1, SMT DEF Buffers
<1>3. g = [f EXCEPT ![i] = r]
  BY DEF WithOwner
<1> HIDE DEF r, g
<1>4. g \in [Ids -> Buffers] /\ g[i] = r /\ \A j \in Ids \ {i} : g[j] = f[j]
  BY <1>2, <1>3
<1>. QED
  BY <1>2, <1>4 DEF g, Becomes

\* Assigning the count of a buffer changes that only.
LEMMA RefsSet ==
    ASSUME NEW f \in [Ids -> Buffers], NEW i \in Ids, NEW x \in Nat
    PROVE  Becomes(f, WithRefs(f, i, x), i, f[i].owner, x, f[i].valid, f[i].data)
<1> DEFINE g == WithRefs(f, i, x)
           r == [f[i] EXCEPT !.refs = x]
<1>1. f[i] \in Buffers
  OBVIOUS
<1>2. r \in Buffers /\ r.refs = x /\ r.block = f[i].block /\ r.valid = f[i].valid /\ r.owner = f[i].owner /\ r.data = f[i].data
  BY <1>1, SMT DEF Buffers
<1>3. g = [f EXCEPT ![i] = r]
  BY DEF WithRefs
<1> HIDE DEF r, g
<1>4. g \in [Ids -> Buffers] /\ g[i] = r /\ \A j \in Ids \ {i} : g[j] = f[j]
  BY <1>2, <1>3
<1>. QED
  BY <1>2, <1>4 DEF g, Becomes

\* Assigning the valid flag of a buffer changes that only.
LEMMA ValidSet ==
    ASSUME NEW f \in [Ids -> Buffers], NEW i \in Ids, NEW x \in BOOLEAN
    PROVE  Becomes(f, WithValid(f, i, x), i, f[i].owner, f[i].refs, x, f[i].data)
<1> DEFINE g == WithValid(f, i, x)
           r == [f[i] EXCEPT !.valid = x]
<1>1. f[i] \in Buffers
  OBVIOUS
<1>2. r \in Buffers /\ r.valid = x /\ r.block = f[i].block /\ r.refs = f[i].refs /\ r.owner = f[i].owner /\ r.data = f[i].data
  BY <1>1, SMT DEF Buffers
<1>3. g = [f EXCEPT ![i] = r]
  BY DEF WithValid
<1> HIDE DEF r, g
<1>4. g \in [Ids -> Buffers] /\ g[i] = r /\ \A j \in Ids \ {i} : g[j] = f[j]
  BY <1>2, <1>3
<1>. QED
  BY <1>2, <1>4 DEF g, Becomes

\* Assigning the data of a buffer changes that only.
LEMMA DataSet ==
    ASSUME NEW f \in [Ids -> Buffers], NEW i \in Ids, NEW x \in Data \cup {Nil}
    PROVE  Becomes(f, WithData(f, i, x), i, f[i].owner, f[i].refs, f[i].valid, x)
<1> DEFINE g == WithData(f, i, x)
           r == [f[i] EXCEPT !.data = x]
<1>1. f[i] \in Buffers
  OBVIOUS
<1>2. r \in Buffers /\ r.data = x /\ r.block = f[i].block /\ r.refs = f[i].refs /\ r.valid = f[i].valid /\ r.owner = f[i].owner
  BY <1>1, SMT DEF Buffers
<1>3. g = [f EXCEPT ![i] = r]
  BY DEF WithData
<1> HIDE DEF r, g
<1>4. g \in [Ids -> Buffers] /\ g[i] = r /\ \A j \in Ids \ {i} : g[j] = f[j]
  BY <1>2, <1>3
<1>. QED
  BY <1>2, <1>4 DEF g, Becomes

\* Who has a buffer has that of its block, and no other block has it.
LEMMA Own ==
    ASSUME Body, NEW p \in Procs, local[p].buf # 0
    PROVE  /\ local[p].block \in Blocks /\ Contains(table, local[p].block)
           /\ Lookup(table, local[p].block) = local[p].buf /\ local[p].buf \in Ids
           /\ buf[local[p].buf].block = local[p].block
           /\ \A a \in Blocks : Contains(table, a) =>
                 Lookup(table, a) \in Ids /\ (Lookup(table, a) = local[p].buf => a = local[p].block)
           /\ p \in Users(local[p].block) /\ Cardinality(Users(local[p].block)) >= 1
<1>1. Held(p) /\ Chain(table) /\ Named /\ Shape(p)
  BY DEF Body
<1>2. local[p].block \in Blocks
  BY <1>1, SMT DEF Shape, NoLocals
<1>3. Contains(table, local[p].block) /\ Lookup(table, local[p].block) = local[p].buf
  BY <1>1 DEF Held
<1>4. local[p].buf \in Ids
  BY <1>1, <1>3, KeyOf, SMT
<1>5. buf[local[p].buf].block = local[p].block
  BY <1>1, <1>2, <1>3 DEF Named
<1>6. \A a \in Blocks : Contains(table, a) =>
         Lookup(table, a) \in Ids /\ (Lookup(table, a) = local[p].buf => a = local[p].block)
  BY <1>1, <1>5, KeyOf DEF Named
<1>7. p \in Users(local[p].block)
  BY DEF Users
<1>8. Cardinality(Users(local[p].block)) # 0
  BY <1>7, UserCount, FS_EmptySet
<1>9. Cardinality(Users(local[p].block)) >= 1
  BY <1>8, UserCount, SMT
<1>. QED
  BY <1>2, <1>3, <1>4, <1>5, <1>6, <1>7, <1>9

\* p changes its buffer, and nothing of the other blocks.
LEMMA Touches ==
    ASSUME Body, NEW p \in Procs, local[p].buf # 0, table' = table,
           NEW i, i = local[p].buf, NEW b, b = local[p].block,
           \A j \in Ids \ {i} : buf'[j] = buf[j],
           buf'[i].block = b, buf'[i].valid, buf'[i].data = latest'[b],
           buf'[i].refs = Cardinality(Users(b)) + Pins(b)',
           \A q \in Procs \ {p} : Rests(q),
           local'[p].buf = i, local'[p].block = b,
           \A a \in Blocks \ {b} : /\ disk'[a] = disk[a] /\ latest'[a] = latest[a]
                                   /\ Pinned(a)' <=> Pinned(a),
           ~Pinned(b)' => disk'[b] = latest'[b],
           \A q \in Procs : pc'[q] \in {"unpin", "store"} =>
                               disk'[local'[q].block] = latest'[local'[q].block],
           Typed', Shape(p)', Control', Once', \A q \in Procs : Saves(q)'
    PROVE  Body'
<1>1. /\ b \in Blocks /\ Contains(table, b) /\ Lookup(table, b) = i /\ i \in Ids
      /\ buf[i].block = b
      /\ \A a \in Blocks : Contains(table, a) =>
            Lookup(table, a) \in Ids /\ (Lookup(table, a) = i => a = b)
  BY Own, SMT
<1>2. \A j \in Ids : buf'[j].block = buf[j].block
  BY <1>1
<1>3. /\ Chain(table)' /\ Named'
      /\ \A q \in Procs : Shape(q)' /\ Held(q)'
      /\ \A a : Users(a)' = Users(a)
  BY <1>2, Still
<1>4. ASSUME NEW a \in Blocks \ {b} PROVE Right(a)' /\ Counted(a)'
  <2>1. Right(a) /\ Counted(a) /\ Users(a)' = Users(a)
    BY <1>3 DEF Body
  <2>2. Contains(table, a) => buf'[Lookup(table, a)] = buf[Lookup(table, a)]
    BY <1>1
  <2>3. (Pinned(a)' <=> Pinned(a)) /\ Pins(a)' = Pins(a)
    BY DEF Pins
  <2>. QED
    BY <2>1, <2>2, <2>3 DEF Right, Counted
<1>5. Right(b)' /\ Counted(b)'
  BY <1>1, <1>3 DEF Right, Counted
<1>6. ASSUME NEW q \in Procs PROVE Sees(q)'
  <2>1. Holds(q)' => buf'[local'[q].buf].valid
    <3>1. CASE q = p
      BY <3>1
    <3>2. CASE q # p
      <4>1. SUFFICES ASSUME Holds(q) PROVE buf'[local[q].buf].valid
        BY <3>2, Bystander DEF Rests
      <4>2. local[q].buf # 0 /\ buf[local[q].buf].valid
        BY <4>1 DEF Body, Sees, Holds, Shape, Calling
      <4>3. local[q].buf \in Ids
        BY <4>2, Own
      <4>. QED
        BY <4>2, <4>3
    <3>. QED
      BY <3>1, <3>2
  <2>. QED
    BY <2>1 DEF Sees
<1>. QED
  BY <1>3, <1>4, <1>5, <1>6 DEF Body

\* The mutex of a buffer is released.
LEMMA UnlockStep ==
    ASSUME Body, NEW p \in Procs, Unlock(p)
    PROVE  Body'
<1>0. Typed /\ pc[p] = "unlock" /\ Shape(p) /\ Sees(p) /\ Go(p, "drop")
  BY DEF Unlock, Body
<1>1. UNCHANGED <<table, disk, latest, header, entry, outstanding, committing, local>>
  BY DEF Unlock, logVars
<1> DEFINE i == local[p].buf
           b == local[p].block
<1>2. i # 0 /\ Calling(p) /\ Holds(p)
  BY <1>0 DEF Shape, Calling, Holds
<1>3. /\ b \in Blocks /\ Contains(table, b) /\ Lookup(table, b) = i /\ i \in Ids
      /\ buf[i].block = b /\ Right(b) /\ Counted(b)
  BY <1>2, Own DEF Body
<1>4. /\ buf' \in [Ids -> Buffers] /\ \A j \in Ids \ {i} : buf'[j] = buf[j]
      /\ buf'[i].block = buf[i].block /\ buf'[i].valid = buf[i].valid
      /\ buf'[i].data = buf[i].data /\ buf'[i].refs = buf[i].refs
  <2>1. buf' = WithOwner(buf, i, Nil)
    BY DEF Unlock, Mine, WithOwner
  <2>2. buf \in [Ids -> Buffers] /\ Nil \in Procs \cup {Nil} /\ i \in Ids
    BY <1>0, <1>3 DEF Typed
  <2>3. Becomes(buf, WithOwner(buf, i, Nil), i, Nil, buf[i].refs, buf[i].valid, buf[i].data)
    BY <2>2, OwnerSet
  <2>4. Becomes(buf, buf', i, Nil, buf[i].refs, buf[i].valid, buf[i].data)
    BY <2>1, <2>3
  <2>. QED
    BY <2>4 DEF Becomes
<1>5. /\ pc' \in [Procs -> Places] /\ pc'[p] = "drop"
      /\ \A q \in Procs \ {p} : Rests(q)
  BY <1>0, <1>1, Goes DEF Places, Rests
<1>6. Typed'
  BY <1>0, <1>1, <1>4, <1>5 DEF Typed
<1>7. Shape(p)'
  BY <1>0, <1>1, <1>2, <1>5 DEF Shape, Calling
<1>8. \A q \in Procs : \A a : Past(q, a)' <=> Past(q, a)
  <2>1. \A a : Past(p, a)' <=> Past(p, a)
    BY <1>0, <1>1, <1>5 DEF Past, Unpinned
  <2>. QED
    BY <1>1, <1>5, <2>1, Bystander
<1>9. \A a : (Pinned(a)' <=> Pinned(a)) /\ Pins(a)' = Pins(a)
  BY <1>1, <1>8, PinnedStays
<1>10. Control'
  <2>1. (InOp(p)' <=> InOp(p)) /\ (Commits(p)' <=> Commits(p))
    BY <1>0, <1>1, <1>5 DEF InOp, Commits, Saving
  <2>2. \A q \in Procs : (InOp(q)' <=> InOp(q)) /\ (Commits(q)' <=> Commits(q))
    BY <1>5, <2>1, Bystander
  <2>. QED
    BY <1>1, <2>2, ControlStays
<1>11. ASSUME NEW q \in Procs PROVE Saves(q)'
  <2>1. CASE q = p
    <3>1. Saves(p) /\ Copied(p)' = Copied(p)
      BY <1>0, <1>1, <1>5 DEF Body, Copied
    <3>. QED
      BY <1>1, <2>1, <3>1 DEF Saves, Saving
  <2>2. CASE q # p
    BY <1>1, <1>5, <2>2, SavesStays
  <2>. QED
    BY <2>1, <2>2
<1>12. buf[i].valid /\ buf[i].data = latest[b]
  BY <1>0, <1>2, <1>3 DEF Sees, Right
<1>13. Once'
  BY <1>1 DEF Body, Once
<1>14. ASSUME NEW q \in Procs, pc'[q] \in {"unpin", "store"}
       PROVE  disk'[local'[q].block] = latest'[local'[q].block]
  <2>1. q # p /\ pc[q] \in {"unpin", "store"}
    BY <1>5, <1>14, Bystander
  <2>. QED
    BY <1>1, <2>1 DEF Body, Sees
<1>15. /\ buf'[i].block = b /\ buf'[i].valid /\ buf'[i].data = latest'[b]
       /\ buf'[i].refs = Cardinality(Users(b)) + Pins(b)'
       /\ ~Pinned(b)' => disk'[b] = latest'[b]
  BY <1>1, <1>3, <1>4, <1>9, <1>12 DEF Right, Counted
<1>16. local'[p].buf = i /\ local'[p].block = b
  BY <1>1
<1>17. \A a \in Blocks \ {b} : /\ disk'[a] = disk[a] /\ latest'[a] = latest[a]
                               /\ Pinned(a)' <=> Pinned(a)
  BY <1>1, <1>9
<1> HIDE DEF i, b
<1>. QED
  BY <1>1, <1>2, <1>4, <1>5, <1>6, <1>7, <1>10, <1>11, <1>13, <1>14, <1>15, <1>16, <1>17, Touches
     DEF i, b

\* The mutex of a buffer is taken, and the buffer read when it is not valid.
LEMMA LockStep ==
    ASSUME Body, NEW p \in Procs, Lock(p)
    PROVE  Body'
<1>0. Typed /\ pc[p] = "lock" /\ Shape(p)
  BY DEF Lock, Body
<1>1. UNCHANGED <<table, disk, latest, header, entry, outstanding, committing, local>>
  BY DEF Lock, logVars
<1> DEFINE i == local[p].buf
           b == local[p].block
           at == pc'[p]
<1>2. i # 0 /\ Calling(p) /\ local[p].use \in Uses
  BY <1>0 DEF Shape, Calling
<1>3. /\ b \in Blocks /\ Contains(table, b) /\ Lookup(table, b) = i /\ i \in Ids
      /\ buf[i].block = b /\ Right(b) /\ Counted(b)
  BY <1>2, Own DEF Body
<1>4. \/ Free(i) /\ buf' = Valid(WithOwner(buf, i, p), i)
         /\ Go(p, IF local[p].use = "read" THEN "unlock" ELSE local[p].use)
      \/ Go(p, "lost") /\ buf' = buf
  BY DEF Lock, Mine, WithOwner
<1>5. /\ pc' \in [Procs -> Places]
      /\ \/ at = "lost"
         \/ at = "unlock" /\ local[p].use = "read"
         \/ at = local[p].use /\ at \in {"update", "copy", "install"}
      /\ \A q \in Procs \ {p} : Rests(q)
  <2> DEFINE to == IF local[p].use = "read" THEN "unlock" ELSE local[p].use
  <2>1. /\ to \in Places
        /\ \/ to = "unlock" /\ local[p].use = "read"
           \/ to = local[p].use /\ to \in {"update", "copy", "install"}
    BY <1>2 DEF Uses, Places
  <2>2. "lost" \in Places
    BY DEF Places
  <2> HIDE DEF to
  <2>3. Go(p, to) \/ Go(p, "lost")
    BY <1>4 DEF to
  <2>. QED
    BY <1>0, <1>1, <2>1, <2>2, <2>3, Goes DEF Rests
<1>6. Shape(p)'
  BY <1>0, <1>1, <1>2, <1>5 DEF Shape, Calling, Uses
<1>7. \A a : Past(p, a)' <=> Past(p, a)
  BY <1>0, <1>1, <1>5 DEF Past, Unpinned
<1>8. \A q \in Procs : \A a : Past(q, a)' <=> Past(q, a)
  BY <1>1, <1>5, <1>7, Bystander
<1>9. \A a : (Pinned(a)' <=> Pinned(a)) /\ Pins(a)' = Pins(a)
  BY <1>1, <1>8, PinnedStays
<1>10. Control'
  <2>1. (InOp(p)' <=> InOp(p)) /\ (Commits(p)' <=> Commits(p))
    BY <1>0, <1>1, <1>5 DEF InOp, Commits, Saving
  <2>2. \A q \in Procs : (InOp(q)' <=> InOp(q)) /\ (Commits(q)' <=> Commits(q))
    BY <1>5, <2>1, Bystander
  <2>. QED
    BY <1>1, <2>2, ControlStays
<1>11. ASSUME NEW q \in Procs PROVE Saves(q)'
  <2>1. CASE q = p
    <3>1. Saves(p) /\ (Saving(p) => Copied(p)' = Copied(p))
      BY <1>0, <1>1, <1>5 DEF Body, Copied, Saving
    <3>. QED
      BY <1>1, <2>1, <3>1 DEF Saves, Saving
  <2>2. CASE q # p
    BY <1>1, <1>5, <2>2, SavesStays
  <2>. QED
    BY <2>1, <2>2
<1>12. CASE Go(p, "lost") /\ buf' = buf
  <2>1. at = "lost"
    BY <1>0, <1>12, Goes DEF Places
  <2>2. Typed'
    BY <1>0, <1>1, <1>5, <1>12 DEF Typed
  <2>3. ~Holds(p)' /\ pc'[p] \notin {"unpin", "store"}
    BY <2>1 DEF Holds
  <2>. QED
    BY <1>1, <1>5, <1>6, <1>7, <1>10, <1>11, <1>12, <2>2, <2>3, Quiet
<1>13. CASE buf' = Valid(WithOwner(buf, i, p), i)
  <2> DEFINE f == WithOwner(buf, i, p)
  <2>1. /\ f \in [Ids -> Buffers] /\ \A j \in Ids \ {i} : f[j] = buf[j]
        /\ f[i].block = b /\ f[i].refs = buf[i].refs /\ f[i].valid = buf[i].valid
        /\ f[i].data = buf[i].data
    <3>1. buf \in [Ids -> Buffers] /\ p \in Procs \cup {Nil}
      BY <1>0 DEF Typed
    <3>2. Becomes(buf, f, i, p, buf[i].refs, buf[i].valid, buf[i].data)
      BY <1>3, <3>1, OwnerSet
    <3>. QED
      BY <1>3, <3>2 DEF Becomes
  <2> HIDE DEF f
  <2>2. buf' = IF f[i].valid THEN f ELSE WithData(WithValid(f, i, TRUE), i, disk[b])
    BY <1>13, <2>1 DEF Valid, WithValid, WithData, f
  <2>3. /\ buf' \in [Ids -> Buffers] /\ \A j \in Ids \ {i} : buf'[j] = buf[j]
        /\ buf'[i].block = b /\ buf'[i].refs = buf[i].refs /\ buf'[i].valid = TRUE
        /\ buf'[i].data = IF buf[i].valid THEN buf[i].data ELSE disk[b]
    <3>1. CASE f[i].valid
      <4>1. f[i].valid = TRUE
        BY <1>3, <2>1, <3>1 DEF Buffers
      <4>. QED
        BY <2>1, <2>2, <3>1, <4>1
    <3>2. CASE ~f[i].valid
      <4> DEFINE g == WithValid(f, i, TRUE)
      <4>1. /\ g \in [Ids -> Buffers] /\ \A j \in Ids \ {i} : g[j] = f[j]
            /\ g[i].block = f[i].block /\ g[i].refs = f[i].refs /\ g[i].valid = TRUE
        <5>1. i \in Ids /\ f \in [Ids -> Buffers] /\ TRUE \in BOOLEAN
          BY <1>3, <2>1
        <5>2. Becomes(f, g, i, f[i].owner, f[i].refs, TRUE, f[i].data)
          BY <5>1, ValidSet
        <5>. QED
          BY <5>2 DEF Becomes
      <4> DEFINE d == disk[b]
      <4>2. i \in Ids /\ g \in [Ids -> Buffers] /\ d \in Data \cup {Nil}
        BY <1>0, <1>3, <4>1 DEF Typed
      <4>3. buf' = WithData(g, i, d)
        BY <2>2, <3>2
      <4> HIDE DEF g, d
      <4>4. /\ WithData(g, i, d) \in [Ids -> Buffers]
            /\ \A j \in Ids \ {i} : WithData(g, i, d)[j] = g[j]
            /\ WithData(g, i, d)[i].data = d
            /\ WithData(g, i, d)[i].block = g[i].block
            /\ WithData(g, i, d)[i].refs = g[i].refs
            /\ WithData(g, i, d)[i].valid = g[i].valid
        <5>1. Becomes(g, WithData(g, i, d), i, g[i].owner, g[i].refs, g[i].valid, d)
          BY <4>2, DataSet
        <5>. QED
          BY <5>1 DEF Becomes
      <4>5. /\ buf' \in [Ids -> Buffers] /\ \A j \in Ids \ {i} : buf'[j] = g[j]
            /\ buf'[i].block = g[i].block /\ buf'[i].refs = g[i].refs
            /\ buf'[i].valid = g[i].valid /\ buf'[i].data = d
        BY <4>3, <4>4, Zenon
      <4>. QED
        BY <2>1, <3>2, <4>1, <4>5 DEF d
    <3>. QED
      BY <3>1, <3>2
  <2>4. buf'[i].data = latest[b]
    BY <1>3, <2>3 DEF Right
  <2>5. Typed'
    BY <1>0, <1>1, <1>5, <2>3 DEF Typed
  <2>6. Once'
    BY <1>1 DEF Body, Once
  <2>7. ASSUME NEW q \in Procs, pc'[q] \in {"unpin", "store"}
        PROVE  disk'[local'[q].block] = latest'[local'[q].block]
    <3>1. q # p /\ pc[q] \in {"unpin", "store"}
      BY <1>5, <2>7, Bystander
    <3>. QED
      BY <1>1, <3>1 DEF Body, Sees
  <2>8. /\ buf'[i].block = b /\ buf'[i].valid /\ buf'[i].data = latest'[b]
        /\ buf'[i].refs = Cardinality(Users(b)) + Pins(b)'
        /\ ~Pinned(b)' => disk'[b] = latest'[b]
    BY <1>1, <1>3, <1>9, <2>3, <2>4 DEF Right, Counted
  <2>9. local'[p].buf = i /\ local'[p].block = b
    BY <1>1
  <2>10. \A a \in Blocks \ {b} : /\ disk'[a] = disk[a] /\ latest'[a] = latest[a]
                                 /\ Pinned(a)' <=> Pinned(a)
    BY <1>1, <1>9
  <2> HIDE DEF i, b
  <2>. QED
    BY <1>1, <1>2, <1>5, <1>6, <1>10, <1>11, <2>3, <2>5, <2>6, <2>7, <2>8, <2>9, <2>10, Touches
       DEF i, b
<1>. QED
  BY <1>4, <1>12, <1>13

\* The committer installs a block.
LEMMA InstallStep ==
    ASSUME Body, NEW p \in Procs, Install(p)
    PROVE  Body'
<1>0. Typed /\ pc[p] = "install" /\ Shape(p) /\ Saves(p) /\ Go(p, "unpin")
  BY DEF Install, Body
<1>1. UNCHANGED <<table, latest, header, entry, outstanding, committing, local>>
  BY DEF Install, logVars
<1> DEFINE i == local[p].buf
           b == local[p].block
           d == entry[local[p].tail]
<1>2. i # 0 /\ Calling(p) /\ Holds(p) /\ local[p].use = "install"
  BY <1>0 DEF Shape, Calling, Holds
<1>3. /\ b \in Blocks /\ Contains(table, b) /\ Lookup(table, b) = i /\ i \in Ids
      /\ buf[i].block = b /\ Right(b) /\ Counted(b) /\ buf[i].valid
  BY <1>2, Own DEF Body, Sees
<1>4. d = latest[b] /\ d \in Data
  BY <1>0, <1>2, <1>3 DEF Saves, Saving, Copied, Typed
<1>5. /\ buf' \in [Ids -> Buffers] /\ \A j \in Ids \ {i} : buf'[j] = buf[j]
      /\ buf'[i].block = buf[i].block /\ buf'[i].valid = buf[i].valid
      /\ buf'[i].data = d /\ buf'[i].refs = buf[i].refs
  <2>1. buf' = WithData(buf, i, d)
    BY DEF Install, Mine, WithData
  <2>2. i \in Ids /\ buf \in [Ids -> Buffers] /\ d \in Data \cup {Nil}
    BY <1>0, <1>3, <1>4 DEF Typed
  <2>3. /\ WithData(buf, i, d) \in [Ids -> Buffers]
        /\ \A j \in Ids \ {i} : WithData(buf, i, d)[j] = buf[j]
        /\ WithData(buf, i, d)[i].data = d
        /\ WithData(buf, i, d)[i].block = buf[i].block
        /\ WithData(buf, i, d)[i].refs = buf[i].refs
        /\ WithData(buf, i, d)[i].valid = buf[i].valid
    <3>1. Becomes(buf, WithData(buf, i, d), i, buf[i].owner, buf[i].refs, buf[i].valid, d)
      BY <2>2, DataSet
    <3>. QED
      BY <3>1 DEF Becomes
  <2>. QED
    BY <2>1, <2>3, Zenon
<1>6. disk' \in [Blocks -> Data] /\ disk'[b] = d /\ \A a \in Blocks \ {b} : disk'[a] = disk[a]
  <2>1. disk' = [disk EXCEPT ![b] = d]
    BY <1>3 DEF Install, Mine
  <2>. QED
    BY <1>0, <1>3, <1>4, <2>1 DEF Typed
<1>7. /\ pc' \in [Procs -> Places] /\ pc'[p] = "unpin"
      /\ \A q \in Procs \ {p} : Rests(q)
  BY <1>0, <1>1, Goes DEF Places, Rests
<1>8. Typed'
  BY <1>0, <1>1, <1>5, <1>6, <1>7 DEF Typed
<1>9. Shape(p)'
  BY <1>0, <1>1, <1>2, <1>7 DEF Shape, Calling
<1>10. \A q \in Procs : \A a : Past(q, a)' <=> Past(q, a)
  <2>1. \A a : Past(p, a)' <=> Past(p, a)
    BY <1>0, <1>1, <1>7 DEF Past, Unpinned
  <2>. QED
    BY <1>1, <1>7, <2>1, Bystander
<1>11. \A a : (Pinned(a)' <=> Pinned(a)) /\ Pins(a)' = Pins(a)
  BY <1>1, <1>10, PinnedStays
<1>12. Control'
  <2>1. (InOp(p)' <=> InOp(p)) /\ (Commits(p)' <=> Commits(p))
    BY <1>0, <1>1, <1>7 DEF InOp, Commits, Saving
  <2>2. \A q \in Procs : (InOp(q)' <=> InOp(q)) /\ (Commits(q)' <=> Commits(q))
    BY <1>7, <2>1, Bystander
  <2>. QED
    BY <1>1, <2>2, ControlStays
<1>13. ASSUME NEW q \in Procs PROVE Saves(q)'
  <2>1. CASE q = p
    <3>1. Saves(p) /\ Copied(p)' = Copied(p)
      BY <1>0, <1>1, <1>2 DEF Copied
    <3>. QED
      BY <1>1, <2>1, <3>1 DEF Saves, Saving
  <2>2. CASE q # p
    BY <1>1, <1>7, <2>2, SavesStays
  <2>. QED
    BY <2>1, <2>2
<1>14. Once'
  BY <1>1 DEF Body, Once
<1>15. disk'[b] = latest'[b]
  BY <1>1, <1>4, <1>6
<1>16. ASSUME NEW q \in Procs, pc'[q] \in {"unpin", "store"}
       PROVE  disk'[local'[q].block] = latest'[local'[q].block]
  <2>1. CASE q = p
    BY <1>1, <1>15, <2>1
  <2>2. CASE q # p
    <3>1. pc[q] \in {"unpin", "store"} /\ local'[q] = local[q]
      BY <1>7, <1>16, <2>2, Bystander DEF Rests
    <3>2. Shape(q) /\ Sees(q)
      BY DEF Body
    <3>3. local[q].block \in Blocks /\ disk[local[q].block] = latest[local[q].block]
      BY <3>1, <3>2 DEF Sees, Shape, Calling
    <3>. QED
      BY <1>1, <1>6, <1>15, <3>1, <3>3
  <2>. QED
    BY <2>1, <2>2
<1>17. /\ buf'[i].block = b /\ buf'[i].valid /\ buf'[i].data = latest'[b]
       /\ buf'[i].refs = Cardinality(Users(b)) + Pins(b)'
  BY <1>1, <1>3, <1>4, <1>5, <1>11 DEF Counted
<1>18. local'[p].buf = i /\ local'[p].block = b
  BY <1>1
<1>19. \A a \in Blocks \ {b} : /\ disk'[a] = disk[a] /\ latest'[a] = latest[a]
                               /\ Pinned(a)' <=> Pinned(a)
  BY <1>1, <1>6, <1>11
<1> HIDE DEF i, b, d
<1>. QED
  BY <1>1, <1>2, <1>5, <1>7, <1>8, <1>9, <1>12, <1>13, <1>14, <1>15, <1>16, <1>17, <1>18, <1>19,
     Touches DEF i, b

\* unpin loads the count.
LEMMA UnpinLoadStep ==
    ASSUME Body, NEW p \in Procs, UnpinLoad(p)
    PROVE  Body'
<1>0. Typed /\ pc[p] = "unpin" /\ Shape(p)
  BY DEF UnpinLoad, Body
<1>1. UNCHANGED <<table, buf, disk, latest, header, entry, outstanding, committing>>
  BY DEF UnpinLoad, cacheVars, logVars
<1> DEFINE n == buf[local[p].buf].refs
<1>2. local[p].buf # 0 /\ Holds(p) /\ local[p].use = "install"
  BY <1>0 DEF Shape, Calling, Holds
<1>3. n \in Nat /\ n >= 1
  <2>1. /\ local[p].buf \in Ids /\ Counted(local[p].block)
        /\ Contains(table, local[p].block) /\ Lookup(table, local[p].block) = local[p].buf
        /\ Cardinality(Users(local[p].block)) >= 1
    BY <1>2, Own DEF Body
  <2>2. n \in Nat
    BY <1>0, <2>1 DEF Typed, Buffers
  <2>3. n = Cardinality(Users(local[p].block)) + Pins(local[p].block)
    BY <2>1 DEF Counted
  <2>4. Pins(local[p].block) \in {0, 1}
    BY DEF Pins
  <2>5. Cardinality(Users(local[p].block)) \in Nat
    BY UserCount
  <2>. QED
    BY <2>1, <2>2, <2>3, <2>4, <2>5, SomeRefs
<1>4. Go(p, "store") /\ local' = [local EXCEPT ![p].seen = n]
  BY <1>3 DEF UnpinLoad, Mine
<1>5. /\ local' \in [Procs -> Locals] /\ \A q \in Procs \ {p} : local'[q] = local[q]
      /\ local'[p].buf = local[p].buf /\ local'[p].block = local[p].block
      /\ local'[p].use = local[p].use /\ local'[p].back = local[p].back
      /\ local'[p].tail = local[p].tail
  <2> HIDE DEF n
  <2> DEFINE r == [local[p] EXCEPT !.seen = n]
  <2>1. local[p] \in Locals /\ local \in [Procs -> Locals]
    BY <1>0 DEF Typed
  <2>2. /\ r \in Locals /\ r.buf = local[p].buf /\ r.block = local[p].block
        /\ r.use = local[p].use /\ r.back = local[p].back /\ r.tail = local[p].tail
    BY <1>3, <2>1, SeenSet
  <2>3. local' = [local EXCEPT ![p] = r]
    BY <1>4
  <2> HIDE DEF r
  <2>. QED
    BY <2>1, <2>2, <2>3
<1>6. /\ pc' \in [Procs -> Places] /\ pc'[p] = "store"
      /\ \A q \in Procs \ {p} : Rests(q)
  BY <1>0, <1>4, <1>5, Goes DEF Places, Rests
<1>7. Typed'
  BY <1>0, <1>1, <1>5, <1>6 DEF Typed
<1>8. Shape(p)'
  BY <1>0, <1>2, <1>5, <1>6 DEF Shape, Calling
<1>9. \A a \in Blocks : Past(p, a)' <=> Past(p, a)
  BY <1>0, <1>1, <1>5, <1>6 DEF Past, Unpinned
<1>10. Control'
  <2>1. (InOp(p)' <=> InOp(p)) /\ (Commits(p)' <=> Commits(p))
    BY <1>0, <1>5, <1>6 DEF InOp, Commits, Saving
  <2>2. \A q \in Procs : (InOp(q)' <=> InOp(q)) /\ (Commits(q)' <=> Commits(q))
    BY <1>6, <2>1, Bystander
  <2>. QED
    BY <1>1, <2>2, ControlStays
<1>11. ASSUME NEW q \in Procs PROVE Saves(q)'
  <2>1. CASE q = p
    <3>1. Saves(p) /\ Copied(p)' = Copied(p)
      BY <1>1, <1>2, <1>5 DEF Body, Copied
    <3>. QED
      BY <1>1, <1>5, <2>1, <3>1 DEF Saves, Saving
  <2>2. CASE q # p
    BY <1>1, <1>6, <2>2, SavesStays
  <2>. QED
    BY <2>1, <2>2
<1>. QED
  BY <1>0, <1>1, <1>2, <1>5, <1>6, <1>7, <1>8, <1>9, <1>10, <1>11, Quiet

\* The store that ends the pin, when it loses no increment.
LEMMA UnpinStoreStep ==
    ASSUME Body, NEW p \in Procs, UnpinStore(p), ~raced'
    PROVE  Body'
<1>0. Typed /\ pc[p] = "store" /\ Shape(p) /\ Saves(p) /\ Sees(p) /\ Go(p, "unlock") /\ Once
  BY DEF UnpinStore, Body
<1>1. UNCHANGED <<table, disk, latest, header, entry, outstanding, committing>>
  BY DEF UnpinStore, logVars
<1>a. PICK i, b, t : i = local[p].buf /\ b = local[p].block /\ t = local[p].tail
  OBVIOUS
<1>2. i # 0 /\ Calling(p) /\ Holds(p) /\ local[p].use = "install"
  BY <1>a, <1>0 DEF Shape, Calling, Holds
<1>3. /\ b \in Blocks /\ Contains(table, b) /\ Lookup(table, b) = i /\ i \in Ids
      /\ buf[i].block = b /\ Right(b) /\ Counted(b) /\ buf[i].valid
      /\ Cardinality(Users(b)) >= 1
  BY <1>a, <1>2, Own DEF Body, Sees
<1>4. /\ local' \in [Procs -> Locals] /\ \A q \in Procs \ {p} : local'[q] = local[q]
      /\ local'[p].buf = i /\ local'[p].block = b
      /\ local'[p].use = local[p].use /\ local'[p].back = local[p].back
      /\ local'[p].tail = t
  <2> DEFINE r == [local[p] EXCEPT !.seen = 0]
  <2>1. local[p] \in Locals /\ local \in [Procs -> Locals]
    BY <1>a, <1>0 DEF Typed
  <2>2. /\ r \in Locals /\ r.buf = local[p].buf /\ r.block = local[p].block
        /\ r.use = local[p].use /\ r.back = local[p].back /\ r.tail = local[p].tail
    <3>1. 0 \in Nat
      OBVIOUS
    <3>. QED
      BY <2>1, <3>1, SeenSet
  <2>3. local' = [local EXCEPT ![p] = r]
    BY <1>a DEF UnpinStore
  <2> HIDE DEF r
  <2>. QED
    BY <1>a, <2>1, <2>2, <2>3
<1>5. /\ pc' \in [Procs -> Places] /\ pc'[p] = "unlock"
      /\ \A q \in Procs \ {p} : Rests(q)
  BY <1>a, <1>0, <1>4, Goes DEF Places, Rests
<1>6. /\ t \in 1 .. Len(header) /\ b = header[t] /\ Len(header) \in Nat
      /\ DOMAIN header = 1 .. Len(header)
  <2>1. Len(header) \in Nat /\ DOMAIN header = 1 .. Len(header)
    <3>1. header \in Seq(Blocks)
      BY <1>0 DEF Typed
    <3>. QED
      BY <3>1, LenProperties
  <2>. QED
    BY <1>a, <1>0, <1>2, <2>1 DEF Saves, Saving
<1>7. \A q \in Procs \ {p} : \A a : ~Past(q, a) /\ ~Past(q, a)'
  <2>1. Commits(p) /\ \A q \in Procs \ {p} : ~Commits(q)
    BY <1>a, <1>2 DEF Body, Control, Commits, Saving
  <2>2. \A q \in Procs \ {p} : ~Commits(q)'
    BY <1>a, <1>5, <2>1, Bystander
  <2>. QED
    BY <1>a, <2>1, <2>2 DEF Past, Commits, Saving
<1>8. ASSUME NEW a \in Blocks
      PROVE  /\ Past(p, a) <=> \E j \in 1 .. t - 1 : header[j] = a
             /\ Past(p, a)' <=> (\E j \in 1 .. t - 1 : header[j] = a) \/ a = b
  BY <1>a, <1>0, <1>1, <1>2, <1>4, <1>5, <1>6 DEF Past, Unpinned
<1>9. ~\E j \in 1 .. t - 1 : header[j] = b
  <2>1. SUFFICES ASSUME NEW j \in 1 .. t - 1, header[j] = header[t] PROVE FALSE
    BY <1>a, <1>6
  <2>2. j \in DOMAIN header /\ t \in DOMAIN header /\ j # t
    <3>1. t \in 1 .. Len(header) /\ Len(header) \in Nat /\ DOMAIN header = 1 .. Len(header)
      BY <1>6
    <3>2. t \in DOMAIN header
      BY <3>1
    <3>3. j \in 1 .. Len(header) /\ j # t
      BY <2>1, <3>1, SMT
    <3>. QED
      BY <3>1, <3>2, <3>3
  <2>. QED
    BY <1>a, <1>0, <2>1, <2>2 DEF Once
<1>10. Pinned(b) /\ ~Pinned(b)'
  <2>1. b \in Logged
    BY <1>a, <1>6 DEF Logged
  <2>2. \A q \in Procs : ~Past(q, b)
    BY <1>a, <1>3, <1>7, <1>8, <1>9
  <2>3. Past(p, b)'
    BY <1>a, <1>3, <1>8
  <2>. QED
    BY <1>a, <2>1, <2>2, <2>3 DEF Pinned, Past
<1>11. ASSUME NEW a \in Blocks \ {b} PROVE Pinned(a)' <=> Pinned(a)
  <2>1. \A q \in Procs : Past(q, a)' <=> Past(q, a)
    BY <1>a, <1>7, <1>8
  <2>. QED
    BY <1>a, <1>1, <2>1, PinnedStays
<1>12. /\ buf' \in [Ids -> Buffers] /\ \A j \in Ids \ {i} : buf'[j] = buf[j]
       /\ buf'[i].block = buf[i].block /\ buf'[i].valid = buf[i].valid
       /\ buf'[i].data = buf[i].data /\ buf'[i].refs = Cardinality(Users(b)) + Pins(b)'
  <2>1. buf[i].refs = Cardinality(Users(b)) + 1 /\ Pins(b)' = 0
    BY <1>a, <1>3, <1>10 DEF Counted, Pins
  <2>2. local[p].seen = buf[i].refs
    BY <1>a DEF UnpinStore, Mine
  <2>3. Lowered(local[p].seen) = Cardinality(Users(b)) /\ Cardinality(Users(b)) \in Nat
    <3>1. Cardinality(Users(b)) \in Nat
      BY UserCount
    <3>. QED
      BY <2>1, <2>2, <3>1, LoweredByOne
  <2>4. buf' = WithRefs(buf, i, Cardinality(Users(b)))
    BY <1>a, <2>3 DEF UnpinStore, Mine, WithRefs
  <2>5. buf \in [Ids -> Buffers] /\ i \in Ids
    BY <1>a, <1>0, <1>3 DEF Typed
  <2>6. Cardinality(Users(b)) + Pins(b)' = Cardinality(Users(b))
    BY <2>1, <2>3, NoPin
  <2> DEFINE n == Cardinality(Users(b))
  <2>7. /\ WithRefs(buf, i, n) \in [Ids -> Buffers]
        /\ \A j \in Ids \ {i} : WithRefs(buf, i, n)[j] = buf[j]
        /\ WithRefs(buf, i, n)[i].refs = n
        /\ WithRefs(buf, i, n)[i].block = buf[i].block
        /\ WithRefs(buf, i, n)[i].valid = buf[i].valid
        /\ WithRefs(buf, i, n)[i].data = buf[i].data
    <3>1. Becomes(buf, WithRefs(buf, i, n), i, buf[i].owner, n, buf[i].valid, buf[i].data)
      BY <2>3, <2>5, RefsSet
    <3>. QED
      BY <3>1 DEF Becomes
  <2>. QED
    BY <2>4, <2>6, <2>7, Zenon
<1>13. Typed'
  BY <1>a, <1>0, <1>1, <1>4, <1>5, <1>12 DEF Typed
<1>14. Shape(p)'
  BY <1>a, <1>0, <1>2, <1>4, <1>5 DEF Shape, Calling
<1>15. Control'
  <2>1. (InOp(p)' <=> InOp(p)) /\ (Commits(p)' <=> Commits(p))
    BY <1>a, <1>0, <1>4, <1>5 DEF InOp, Commits, Saving
  <2>2. \A q \in Procs : (InOp(q)' <=> InOp(q)) /\ (Commits(q)' <=> Commits(q))
    BY <1>a, <1>5, <2>1, Bystander
  <2>. QED
    BY <1>a, <1>1, <2>2, ControlStays
<1>16. ASSUME NEW q \in Procs PROVE Saves(q)'
  <2>1. CASE q = p
    <3>1. Saves(p) /\ Copied(p)' = Copied(p)
      BY <1>a, <1>0, <1>1, <1>2, <1>4 DEF Copied
    <3>. QED
      BY <1>a, <1>1, <1>4, <2>1, <3>1 DEF Saves, Saving
  <2>2. CASE q # p
    BY <1>a, <1>1, <1>5, <2>2, SavesStays
  <2>. QED
    BY <1>a, <2>1, <2>2
<1>17. Once'
  BY <1>a, <1>0, <1>1 DEF Once
<1>18. disk'[b] = latest'[b]
  BY <1>a, <1>0, <1>1 DEF Sees
<1>19. ASSUME NEW q \in Procs, pc'[q] \in {"unpin", "store"}
       PROVE  disk'[local'[q].block] = latest'[local'[q].block]
  <2>1. q # p /\ pc[q] \in {"unpin", "store"} /\ local'[q] = local[q]
    BY <1>a, <1>5, <1>19, Bystander DEF Rests
  <2>. QED
    BY <1>a, <1>1, <2>1 DEF Body, Sees
<1>20. buf'[i].block = b /\ buf'[i].valid /\ buf'[i].data = latest'[b]
  BY <1>a, <1>1, <1>3, <1>12 DEF Right
<1>21. \A a \in Blocks \ {b} : /\ disk'[a] = disk[a] /\ latest'[a] = latest[a]
                               /\ Pinned(a)' <=> Pinned(a)
  BY <1>a, <1>1, <1>11
<1>. QED
  BY <1>a, <1>1, <1>2, <1>4, <1>5, <1>12, <1>13, <1>14, <1>15, <1>16, <1>17, <1>18, <1>19, <1>20, <1>21,
     Touches

\* g lists the blocks of h, and b, each once.
Lists(g, h, b) ==
    /\ g \in Seq(Blocks) /\ {g[k] : k \in DOMAIN g} = {h[k] : k \in DOMAIN h} \cup {b}
    /\ \A k, m \in DOMAIN g : g[k] = g[m] => k = m

\* The list of blocks with one more that is not in it.
LEMMA Appended ==
    ASSUME NEW h \in Seq(Blocks), NEW b \in Blocks, b \notin {h[k] : k \in DOMAIN h},
           \A k, m \in DOMAIN h : h[k] = h[m] => k = m
    PROVE  Lists(Append(h, b), h, b)
<1> SUFFICES ASSUME NEW g, g = Append(h, b) PROVE Lists(g, h, b)
  OBVIOUS
<1>1. Len(h) \in Nat /\ DOMAIN h = 1 .. Len(h)
  BY LenProperties
<1>2. /\ g \in Seq(Blocks) /\ DOMAIN g = 1 .. Len(h) + 1 /\ g[Len(h) + 1] = b
      /\ \A k \in 1 .. Len(h) : g[k] = h[k]
  <2>1. /\ g \in Seq(Blocks) /\ Len(g) = Len(h) + 1
        /\ \A k \in 1 .. Len(h) : g[k] = h[k]
        /\ g[Len(h) + 1] = b
    BY AppendProperties, SMT
  <2>. QED
    BY <2>1, LenProperties
<1>3. DOMAIN g = DOMAIN h \cup {Len(h) + 1} /\ Len(h) + 1 \notin DOMAIN h
  BY <1>1, <1>2, SMT
<1>4. {g[k] : k \in DOMAIN g} = {h[k] : k \in DOMAIN h} \cup {b}
  <2> DEFINE G == {g[k] : k \in DOMAIN g}
             H == {h[k] : k \in DOMAIN h}
  <2>1. \A k \in DOMAIN h : k \in DOMAIN g /\ g[k] = h[k]
    BY <1>1, <1>2, <1>3
  <2>2. ASSUME NEW x \in G PROVE x \in H \cup {b}
    <3>1. PICK k \in DOMAIN g : x = g[k]
      OBVIOUS
    <3>2. k \in DOMAIN h \/ k = Len(h) + 1
      BY <1>3
    <3>. QED
      BY <1>2, <2>1, <3>1, <3>2
  <2>3. ASSUME NEW x \in H PROVE x \in G
    <3>1. PICK k \in DOMAIN h : x = h[k]
      OBVIOUS
    <3>. QED
      BY <2>1, <3>1
  <2>4. b \in G
    BY <1>2, <1>3
  <2> HIDE DEF G, H
  <2>5. G = H \cup {b}
    BY <2>2, <2>3, <2>4
  <2>. QED
    BY <2>5 DEF G, H
<1>5. ASSUME NEW k \in DOMAIN g, NEW m \in DOMAIN g, g[k] = g[m] PROVE k = m
  <2>1. \A j \in DOMAIN h : g[j] = h[j] /\ h[j] # b
    BY <1>1, <1>2
  <2>2. (k \in DOMAIN h \/ k = Len(h) + 1) /\ (m \in DOMAIN h \/ m = Len(h) + 1)
    BY <1>3
  <2>. QED
    BY <1>2, <1>5, <2>1, <2>2
<1>. QED
  BY <1>2, <1>4, <1>5 DEF Lists

\* Nobody commits while an operation is open.
LEMMA OpenOp ==
    ASSUME Body, NEW p \in Procs, InOp(p)
    PROVE  /\ \A q \in Procs : ~Commits(q) /\ pc[q] \notin {"unpin", "store"}
           /\ \A b : Pinned(b) <=> b \in Logged
<1>1. outstanding # 0
  <2> DEFINE O == {q \in Procs : InOp(q)}
  <2>1. IsFiniteSet(O)
    BY Sizes, FS_Subset
  <2>2. p \in O
    OBVIOUS
  <2>3. Cardinality(O) # 0
    BY <2>1, <2>2, FS_EmptySet
  <2>. QED
    BY <2>3 DEF Body, Control
<1>2. \A q \in Procs : ~Commits(q)
  BY <1>1 DEF Body, Control
<1>3. \A q \in Procs : local[q].use # "install"
  BY <1>2 DEF Commits, Saving
<1>4. \A q \in Procs : pc[q] \notin {"unpin", "store"}
  BY <1>3 DEF Body, Shape
<1>. QED
  BY <1>2, <1>3, <1>4 DEF Pinned

\* A locked buffer is written, and logged.
LEMMA UpdateStep ==
    ASSUME Body, NEW p \in Procs, Update(p)
    PROVE  Body'
<1>0. Typed /\ pc[p] = "update" /\ Shape(p) /\ Sees(p) /\ Go(p, "unlock") /\ Once
  BY DEF Update, Body
<1>1. UNCHANGED <<table, disk, entry, outstanding, committing, local>>
  BY DEF Update
<1>a. PICK i, b : i = local[p].buf /\ b = local[p].block
  OBVIOUS
<1>2. i # 0 /\ Holds(p) /\ local[p].use = "update" /\ InOp(p)
  BY <1>a, <1>0 DEF Shape, Calling, Holds, InOp
<1>3. /\ b \in Blocks /\ Contains(table, b) /\ Lookup(table, b) = i /\ i \in Ids
      /\ buf[i].block = b /\ Right(b) /\ Counted(b)
  BY <1>a, <1>2, Own DEF Body
<1>4. PICK d \in Data :
         /\ buf' = IF b \in Logged THEN WithData(buf, i, d) ELSE Pin(WithData(buf, i, d), i)
         /\ latest' = [latest EXCEPT ![b] = d]
         /\ header' = IF b \in Logged THEN header ELSE Append(header, b)
  BY <1>a, <1>3 DEF Update, Mine, WithData
<1>5. /\ header' \in Seq(Blocks) /\ Once' /\ Logged' = Logged \cup {b}
  <2>1. CASE b \in Logged
    <3>1. header' = header
      BY <1>4, <2>1
    <3>2. Logged' = Logged
      BY <3>1 DEF Logged
    <3>. QED
      BY <1>0, <2>1, <3>1, <3>2 DEF Typed, Once
  <2>2. CASE b \notin Logged
    <3>1. header \in Seq(Blocks) /\ header' = Append(header, b)
      BY <1>0, <1>4, <2>2 DEF Typed
    <3>2. /\ b \in Blocks /\ b \notin {header[k] : k \in DOMAIN header}
          /\ \A k, m \in DOMAIN header : header[k] = header[m] => k = m
      BY <1>0, <1>3, <2>2 DEF Logged, Once
    <3>3. Lists(Append(header, b), header, b)
      BY <3>1, <3>2, Appended
    <3>4. Lists(header', header, b)
      BY <3>1, <3>3
    <3>. QED
      BY <3>4 DEF Lists, Logged, Once
  <2>. QED
    BY <2>1, <2>2
<1>6. latest' \in [Blocks -> Data] /\ latest'[b] = d /\ \A a \in Blocks \ {b} : latest'[a] = latest[a]
  BY <1>0, <1>3, <1>4 DEF Typed
<1>7. /\ pc' \in [Procs -> Places] /\ pc'[p] = "unlock"
      /\ \A q \in Procs \ {p} : Rests(q)
  BY <1>0, <1>1, Goes DEF Places, Rests
<1>8. /\ \A q \in Procs : ~Commits(q) /\ pc[q] \notin {"unpin", "store"}
      /\ \A a : Pinned(a) <=> a \in Logged
  BY <1>2, OpenOp
<1>9. \A q \in Procs : ~Commits(q)' /\ pc'[q] \notin {"unpin", "store"}
  <2>1. ~Commits(p)' /\ pc'[p] \notin {"unpin", "store"}
    BY <1>1, <1>2, <1>7 DEF Commits, Saving
  <2>. QED
    BY <1>7, <1>8, <2>1, Bystander
<1>10. \A a : Pinned(a)' <=> a \in Logged'
  BY <1>9 DEF Pinned, Commits, Saving
<1>11. /\ WithData(buf, i, d) \in [Ids -> Buffers]
       /\ \A j \in Ids \ {i} : WithData(buf, i, d)[j] = buf[j]
       /\ WithData(buf, i, d)[i].data = d
       /\ WithData(buf, i, d)[i].block = buf[i].block
       /\ WithData(buf, i, d)[i].refs = buf[i].refs
       /\ WithData(buf, i, d)[i].valid = buf[i].valid
  <2>1. i \in Ids /\ buf \in [Ids -> Buffers] /\ d \in Data \cup {Nil}
    BY <1>0, <1>3 DEF Typed
  <2>2. Becomes(buf, WithData(buf, i, d), i, buf[i].owner, buf[i].refs, buf[i].valid, d)
    BY <2>1, DataSet
  <2>. QED
    BY <2>2 DEF Becomes
<1>12. Pins(b)' = 1
  BY <1>5, <1>10 DEF Pins
<1> DEFINE n == Cardinality(Users(b)) + 1
<1>13. /\ buf' \in [Ids -> Buffers] /\ \A j \in Ids \ {i} : buf'[j] = buf[j]
       /\ buf'[i].block = buf[i].block /\ buf'[i].valid = buf[i].valid
       /\ buf'[i].data = d /\ buf'[i].refs = n
  <2>1. CASE b \in Logged
    <3>1. buf' = WithData(buf, i, d) /\ Pins(b) = 1
      BY <1>4, <1>8, <2>1 DEF Pins
    <3>2. buf[i].refs = n
      BY <1>3, <3>1 DEF Counted
    <3>. QED
      BY <1>11, <3>1, <3>2, Zenon
  <2>2. CASE b \notin Logged
    <3> DEFINE w == WithData(buf, i, d)
    <3>1. Pins(b) = 0
      BY <1>8, <2>2 DEF Pins
    <3>2. w[i].refs = Cardinality(Users(b)) + 0
      BY <1>3, <1>11, <3>1 DEF Counted
    <3>3. (w[i].refs + 1) % REF_MOD = n /\ n \in Nat
      <4>1. /\ Cardinality(Users(b)) \in Nat /\ REF_MOD \in Nat /\ n \in Nat /\ n < REF_MOD
            /\ w[i].refs + 1 = n
        <5>1. /\ Cardinality(Users(b)) \in Nat /\ Cardinality(Users(b)) <= Cardinality(Procs)
              /\ Cardinality(Procs) \in Nat /\ REF_MOD \in Nat /\ Cardinality(Procs) + 1 < REF_MOD
          BY UserCount, Sizes
        <5> HIDE DEF w
        <5>. QED
          BY <3>2, <5>1, SMT
      <4>. QED
        BY <4>1, CountsUp
    <3>4. buf' = WithRefs(w, i, n)
      <4>1. buf' = Pin(w, i)
        BY <1>4, <2>2
      <4>2. Pin(w, i) = WithRefs(w, i, (w[i].refs + 1) % REF_MOD)
        BY <1>11 DEF Pin, WithRefs
      <4>. QED
        BY <3>3, <4>1, <4>2
    <3>5. w \in [Ids -> Buffers] /\ i \in Ids
      BY <1>3, <1>11
    <3> HIDE DEF w, n
    <3>6. /\ WithRefs(w, i, n) \in [Ids -> Buffers]
          /\ \A j \in Ids \ {i} : WithRefs(w, i, n)[j] = w[j]
          /\ WithRefs(w, i, n)[i].refs = n
          /\ WithRefs(w, i, n)[i].block = w[i].block
          /\ WithRefs(w, i, n)[i].valid = w[i].valid
          /\ WithRefs(w, i, n)[i].data = w[i].data
      <4>1. Becomes(w, WithRefs(w, i, n), i, w[i].owner, n, w[i].valid, w[i].data)
        BY <3>3, <3>5, RefsSet
      <4>. QED
        BY <4>1 DEF Becomes
    <3>7. /\ w[i].block = buf[i].block /\ w[i].valid = buf[i].valid /\ w[i].data = d
          /\ \A j \in Ids \ {i} : w[j] = buf[j]
      BY <1>11 DEF w
    <3>. QED
      BY <3>4, <3>6, <3>7, Zenon
  <2>. QED
    BY <2>1, <2>2
<1>14. Typed'
  BY <1>0, <1>1, <1>5, <1>6, <1>7, <1>13 DEF Typed
<1>15. Shape(p)'
  BY <1>0, <1>1, <1>2, <1>7 DEF Shape, Calling
<1>16. Control'
  <2>1. InOp(p)' <=> InOp(p)
    BY <1>0, <1>1, <1>2, <1>7 DEF InOp
  <2>2. \A q \in Procs : (InOp(q)' <=> InOp(q)) /\ (Commits(q)' <=> Commits(q))
    BY <1>7, <1>8, <1>9, <2>1, Bystander
  <2>. QED
    BY <1>1, <2>2, ControlStays
<1>17. \A q \in Procs : Saves(q)'
  BY <1>9 DEF Saves, Commits
<1>18. buf'[i].block = b /\ buf'[i].valid /\ buf'[i].data = latest'[b]
  <2>1. buf[i].valid
    BY <1>a, <1>0, <1>2 DEF Sees
  <2>. QED
    BY <1>3, <1>6, <1>13, <2>1
<1>19. \A a \in Blocks \ {b} : /\ disk'[a] = disk[a] /\ latest'[a] = latest[a]
                               /\ Pinned(a)' <=> Pinned(a)
  BY <1>1, <1>5, <1>6, <1>8, <1>10
<1>20. buf'[i].refs = Cardinality(Users(b)) + Pins(b)'
  BY <1>12, <1>13
<1>21. Pinned(b)'
  BY <1>5, <1>10
<1>22. local'[p].buf = i /\ local'[p].block = b
  BY <1>a, <1>1
<1> HIDE DEF n
<1>. QED
  BY <1>a, <1>1, <1>2, <1>5, <1>7, <1>9, <1>13, <1>14, <1>15, <1>16, <1>17, <1>18, <1>19, <1>20, <1>21,
     <1>22, Touches
-----------------------------------------------------------------------------
(***************************************************************************)
(* The steps that change the table.                                        *)
(***************************************************************************)
\* p changes what the table and the buffers have of its block b.
LEMMA Rewires ==
    ASSUME Body, NEW p \in Procs, NEW b \in Blocks, local[p].block = b,
           UNCHANGED <<disk, latest>>, Chain(table)',
           \A a \in Blocks \ {b} :
              /\ Contains(table', a) <=> Contains(table, a)
              /\ Contains(table, a) => /\ Lookup(table', a) = Lookup(table, a)
                                       /\ buf'[Lookup(table, a)] = buf[Lookup(table, a)],
           Contains(table', b) =>
              /\ buf'[Lookup(table', b)].block = b
              /\ buf'[Lookup(table', b)].valid => buf'[Lookup(table', b)].data = latest[b]
              /\ buf'[Lookup(table', b)].refs = Cardinality(Users(b)') + Pins(b)',
           Pinned(b) => Contains(table', b) /\ buf'[Lookup(table', b)].valid,
           \A q \in Procs \ {p} : Rests(q),
           \A q \in Procs \ {p} : local[q].buf # 0 /\ local[q].block = b =>
              /\ Contains(table', b) /\ Lookup(table', b) = Lookup(table, b)
              /\ buf[Lookup(table, b)].valid => buf'[Lookup(table, b)].valid,
           local'[p].buf # 0 => local'[p].block = b,
           Held(p)', Shape(p)', Sees(p)',
           \A a \in Blocks : Pinned(a)' <=> Pinned(a),
           Typed', Control', Once', \A q \in Procs : Saves(q)'
    PROVE  Body'
<1>1. Named'
  <2>1. Named
    BY DEF Body
  <2>2. ASSUME NEW a \in Blocks, Contains(table', a) PROVE buf'[Lookup(table', a)].block = a
    <3>1. CASE a = b
      BY <2>2, <3>1
    <3>2. CASE a # b
      <4>1. /\ Contains(table, a) /\ Lookup(table', a) = Lookup(table, a)
            /\ buf'[Lookup(table, a)] = buf[Lookup(table, a)]
        BY <2>2, <3>2
      <4>2. buf[Lookup(table, a)].block = a
        BY <2>1, <4>1 DEF Named
      <4>. QED
        BY <4>1, <4>2
    <3>. QED
      BY <3>1, <3>2
  <2>. QED
    BY <2>2 DEF Named
<1>2. ASSUME NEW q \in Procs \ {p}
      PROVE  /\ local'[q] = local[q]
             /\ local[q].buf # 0 =>
                   /\ Contains(table', local[q].block) /\ Lookup(table', local[q].block) = local[q].buf
                   /\ buf[local[q].buf].valid => buf'[local[q].buf].valid
  <2>1. local'[q] = local[q]
    BY DEF Rests
  <2>2. ASSUME local[q].buf # 0
        PROVE  /\ Contains(table', local[q].block) /\ Lookup(table', local[q].block) = local[q].buf
               /\ buf[local[q].buf].valid => buf'[local[q].buf].valid
    <3>1. /\ local[q].block \in Blocks /\ Contains(table, local[q].block)
          /\ Lookup(table, local[q].block) = local[q].buf
      BY <2>2, Own
    <3>2. CASE local[q].block = b
      BY <2>2, <3>1, <3>2
    <3>3. CASE local[q].block # b
      BY <3>1, <3>3
    <3>. QED
      BY <3>2, <3>3
  <2>. QED
    BY <2>1, <2>2
<1>3. ASSUME NEW q \in Procs PROVE Shape(q)' /\ Held(q)' /\ Sees(q)'
  <2>1. CASE q = p
    BY <2>1
  <2>2. CASE q # p
    <3>1. Shape(q)' /\ Held(q)'
      <4>1. Rests(q) /\ q \in Procs \ {p}
        BY <2>2
      <4>2. Shape(q)'
        BY <4>1, Bystander
      <4>3. Held(q)'
        BY <1>2, <4>1 DEF Held
      <4>. QED
        BY <4>2, <4>3
    <3>2. Shape(q) /\ Sees(q)
      BY DEF Body
    <3>3. Holds(q)' => buf'[local'[q].buf].valid
      <4>1. SUFFICES ASSUME Holds(q) PROVE buf'[local[q].buf].valid
        BY <1>2, <2>2, Bystander
      <4>2. local[q].buf # 0 /\ buf[local[q].buf].valid
        BY <3>2, <4>1 DEF Sees, Holds, Shape, Calling
      <4>. QED
        BY <1>2, <2>2, <4>2
    <3>4. pc'[q] \in {"unpin", "store"} => disk'[local'[q].block] = latest'[local'[q].block]
      BY <1>2, <2>2, <3>2, Bystander DEF Sees
    <3>. QED
      BY <3>1, <3>3, <3>4 DEF Sees
  <2>. QED
    BY <2>1, <2>2
<1>4. ASSUME NEW a \in Blocks \ {b} PROVE Right(a)' /\ Counted(a)'
  <2>1. Right(a) /\ Counted(a)
    BY DEF Body
  <2>2. (Pinned(a)' <=> Pinned(a)) /\ Pins(a)' = Pins(a)
    BY DEF Pins
  <2>3. Users(a)' = Users(a)
    <3>1. p \notin Users(a) /\ p \notin Users(a)'
      BY DEF Users
    <3>2. \A q \in Procs \ {p} : q \in Users(a)' <=> q \in Users(a)
      BY <1>2 DEF Users
    <3>3. Users(a) \subseteq Procs /\ Users(a)' \subseteq Procs
      BY DEF Users
    <3>4. \A q \in Procs : q \in Users(a)' <=> q \in Users(a)
      BY <3>1, <3>2
    <3>. QED
      BY <3>3, <3>4, Zenon
  <2>. QED
    BY <2>1, <2>2, <2>3 DEF Right, Counted
<1>5. Right(b)' /\ Counted(b)'
  <2>1. Right(b) /\ (Pinned(b)' <=> Pinned(b))
    BY DEF Body
  <2>. QED
    BY <2>1 DEF Right, Counted
<1>. QED
  BY <1>1, <1>3, <1>4, <1>5 DEF Body

\* There is a buffer left for a block that has none.
LEMMA FreshOne ==
    ASSUME Body, NEW p \in Procs, NEW b \in Blocks, ~Contains(table, b)
    PROVE  /\ Fresh \in Ids
           /\ \A a : Contains(table, a) => Lookup(table, a) # Fresh
<1> DEFINE S == Ids \ InUse
<1>0. Chain(table) /\ \A q \in Procs : Held(q)
  BY DEF Body
<1>1. 1 \in Ids /\ 2 \in Ids
  <2>1. Cardinality(Blocks) # 0 /\ Cardinality(Procs) # 0
    BY Sizes, FS_EmptySet
  <2>. QED
    BY <2>1, Sizes, SMT DEF Ids
<1>2. \A x \in InUse : x = 0 \/ \E k \in DOMAIN table : x = table[k].value
  <2>1. ASSUME NEW q \in Procs, Mine(q) # 0 PROVE \E k \in DOMAIN table : Mine(q) = table[k].value
    <3>1. Contains(table, local[q].block) /\ Lookup(table, local[q].block) = Mine(q)
      BY <1>0, <2>1 DEF Held, Mine
    <3>2. /\ At(table, local[q].block) \in DOMAIN table
          /\ Lookup(table, local[q].block) = table[At(table, local[q].block)].value
      BY <1>0, <3>1, KeyOf
    <3>. QED
      BY <3>1, <3>2
  <2>. QED
    BY <2>1 DEF InUse
<1>3. Len(table) \in {0, 1} /\ DOMAIN table = 1 .. Len(table)
  <2>1. Len(table) \in {0, 1}
    BY <1>0, Short
  <2>2. table \in Seq(Nodes)
    BY <1>0 DEF Chain
  <2>. QED
    BY <2>1, <2>2, LenProperties
<1>4. \A k, m \in DOMAIN table : k = m
  BY <1>3, SMT
<1>n. 1 # 0 /\ 2 # 0 /\ 1 # 2
  BY SMT
<1>5. 1 \in S \/ 2 \in S
  <2>1. SUFFICES ASSUME 1 \in InUse, 2 \in InUse PROVE FALSE
    BY <1>1
  <2>2. PICK k \in DOMAIN table : 1 = table[k].value
    BY <1>2, <1>n, <2>1
  <2>3. PICK m \in DOMAIN table : 2 = table[m].value
    BY <1>2, <1>n, <2>1
  <2>4. k = m
    BY <1>4
  <2>. QED
    BY <1>n, <2>2, <2>3, <2>4
<1>6. \E i \in S : \A j \in S : i <= j
  <2>1. \A j \in S : j \in Nat /\ j >= 1
    BY Sizes, SMT DEF Ids
  <2>2. CASE 1 \in S
    BY <2>1, <2>2
  <2>3. CASE 1 \notin S
    <3>1. 2 \in S
      BY <1>5, <2>3
    <3>2. \A j \in S : j # 1
      BY <2>3
    <3> HIDE DEF S
    <3>3. \A j \in S : 2 <= j
      BY <2>1, <3>2, SMT
    <3>. QED
      BY <3>1, <3>3
  <2>. QED
    BY <2>2, <2>3
<1>7. Fresh \in S
  BY <1>6 DEF Fresh
<1>8. ASSUME NEW a, Contains(table, a) PROVE Lookup(table, a) \in InUse
  <2>1. At(table, a) \in DOMAIN table /\ Lookup(table, a) = table[At(table, a)].value
    BY <1>0, <1>8, KeyOf
  <2>. QED
    BY <2>1 DEF InUse
<1>. QED
  BY <1>7, <1>8

\* The cache once p got the buffer of block b.
Got(p, b) ==
    \E i \in Ids :
       /\ local' = [local EXCEPT ![p].buf = i]
       /\ Chain(table)' /\ Contains(table', b) /\ Lookup(table', b) = i
       /\ \A a \in Blocks \ {b} :
             /\ Contains(table', a) <=> Contains(table, a)
             /\ Contains(table, a) => /\ Lookup(table', a) = Lookup(table, a)
                                      /\ buf'[Lookup(table, a)] = buf[Lookup(table, a)]
       /\ buf' \in [Ids -> Buffers] /\ buf'[i].block = b
       /\ buf'[i].valid => buf'[i].data = latest[b]
       /\ buf'[i].refs = Cardinality(Users(b)) + 1 + Pins(b)
       /\ Pinned(b) => buf'[i].valid
       /\ Contains(table, b) => Lookup(table, b) = i /\ (buf[i].valid => buf'[i].valid)

\* What get does to the cache.
LEMMA GetCache ==
    ASSUME Body, NEW p \in Procs, Get(p)
    PROVE  Got(p, local[p].block)
<1> SUFFICES ASSUME NEW b, b = local[p].block PROVE Got(p, b)
  OBVIOUS
<1>0. Typed /\ Chain(table) /\ Named /\ Shape(p) /\ pc[p] = "get"
  BY DEF Get, Body
<1>1. b \in Blocks
  BY <1>0 DEF Shape, Calling
<1>2. Right(b) /\ Counted(b) /\ buf \in [Ids -> Buffers]
  BY <1>0, <1>1 DEF Body, Typed
<1> DEFINE n == Cardinality(Users(b)) + 1 + Pins(b)
<1>3. CASE Contains(table, b)
  <2> DEFINE i == Lookup(table, b)
  <2>1. /\ i \in Ids
        /\ \A a \in Blocks \ {b} : Contains(table, a) => Lookup(table, a) \in Ids \ {i}
    BY <1>0, <1>1, <1>3, KeyOf DEF Named
  <2>2. /\ table' = table /\ local' = [local EXCEPT ![p].buf = i]
        /\ buf' = [buf EXCEPT ![i].refs = (@ + 1) % REF_MOD]
    BY <1>3 DEF Get
  <2>3. (buf[i].refs + 1) % REF_MOD = n /\ n \in Nat
    <3>1. buf[i].refs = Cardinality(Users(b)) + Pins(b)
      BY <1>2, <1>3 DEF Counted
    <3>2. Pins(b) \in {0, 1}
      BY DEF Pins
    <3>3. Cardinality(Users(b)) + 1 <= Cardinality(Procs)
      <4>1. Users(b) \in SUBSET (Procs \ {p})
        BY <1>0 DEF Users, Shape, Calling
      <4>2. IsFiniteSet(Procs \ {p}) /\ Cardinality(Procs \ {p}) = Cardinality(Procs) - 1
        BY Sizes, FS_RemoveElement
      <4>3. Cardinality(Users(b)) <= Cardinality(Procs \ {p})
        BY <4>1, <4>2, FS_Subset
      <4>4. Cardinality(Users(b)) \in Nat /\ Cardinality(Procs) \in Nat
        BY Sizes, UserCount
      <4>. QED
        BY <4>2, <4>3, <4>4, RoomForOne
    <3>4. n \in Nat /\ n < REF_MOD /\ buf[i].refs + 1 = n /\ REF_MOD \in Nat
      <4>1. /\ Cardinality(Users(b)) \in Nat /\ Cardinality(Procs) \in Nat
            /\ REF_MOD \in Nat /\ Cardinality(Procs) + 1 < REF_MOD
        BY Sizes, UserCount
      <4>. QED
        <5>1. Fits(Cardinality(Users(b)), Pins(b), REF_MOD)
          BY <3>2, <3>3, <4>1, RefsFit
        <5>. QED
          BY <3>1, <4>1, <5>1 DEF Fits
    <3>. QED
      BY <3>4, CountsUp
  <2>4. buf' = WithRefs(buf, i, n)
    BY <1>2, <2>1, <2>2, <2>3 DEF WithRefs
  <2> HIDE DEF n, i
  <2>5. /\ WithRefs(buf, i, n) \in [Ids -> Buffers]
        /\ \A j \in Ids \ {i} : WithRefs(buf, i, n)[j] = buf[j]
        /\ WithRefs(buf, i, n)[i].refs = n
        /\ WithRefs(buf, i, n)[i].block = buf[i].block
        /\ WithRefs(buf, i, n)[i].valid = buf[i].valid
        /\ WithRefs(buf, i, n)[i].data = buf[i].data
    <3>1. buf \in [Ids -> Buffers] /\ i \in Ids /\ n \in Nat
      BY <1>2, <2>1, <2>3
    <3>2. Becomes(buf, WithRefs(buf, i, n), i, buf[i].owner, n, buf[i].valid, buf[i].data)
      BY <3>1, RefsSet
    <3>. QED
      BY <3>2 DEF Becomes
  <2>6. buf[i].block = b
    BY <1>0, <1>1, <1>3 DEF Named, i
  <2>7. /\ buf' \in [Ids -> Buffers] /\ \A j \in Ids \ {i} : buf'[j] = buf[j]
        /\ buf'[i].refs = n /\ buf'[i].block = b
        /\ buf'[i].valid = buf[i].valid /\ buf'[i].data = buf[i].data
    BY <2>4, <2>5, <2>6, Zenon
  <2>8. \A a \in Blocks \ {b} : Contains(table, a) =>
           buf'[Lookup(table, a)] = buf[Lookup(table, a)]
    BY <2>1, <2>7
  <2>9. (buf'[i].valid => buf'[i].data = latest[b]) /\ (Pinned(b) => buf'[i].valid)
    BY <1>2, <1>3, <2>7 DEF Right, i
  <2>10. buf[i].valid => buf'[i].valid
    BY <2>7
  <2>11. Chain(table)' /\ Contains(table', b) /\ Lookup(table', b) = i
    BY <1>0, <1>3, <2>2 DEF i
  <2>12. buf'[i].refs = Cardinality(Users(b)) + 1 + Pins(b)
    BY <2>7 DEF n
  <2>13. Lookup(table, b) = i
    BY DEF i
  <2>. QED
    BY <2>1, <2>2, <2>7, <2>8, <2>9, <2>10, <2>11, <2>12, <2>13 DEF Got
<1>4. CASE ~Contains(table, b)
  <2> DEFINE i == Fresh
             r == [Blank EXCEPT !.block = b, !.refs = 1]
  <2>1. i \in Ids /\ \A a : Contains(table, a) => Lookup(table, a) # i
    BY <1>1, <1>4, FreshOne
  <2>2. /\ table' = Assign(table, b, Nil, i) /\ local' = [local EXCEPT ![p].buf = i]
        /\ buf' = [buf EXCEPT ![i] = r]
    BY <1>4 DEF Get
  <2>3. r \in Buffers /\ r.block = b /\ r.refs = 1 /\ r.valid = FALSE
    <3> DEFINE a == [Blank EXCEPT !.block = b]
    <3>1. a \in Buffers /\ a.block = b /\ a.valid = FALSE
      BY <1>1, BlankBuffer, BlockSet
    <3>2. r = [a EXCEPT !.refs = 1] /\ 1 \in Nat
      OBVIOUS
    <3> HIDE DEF a, r
    <3>3. /\ [a EXCEPT !.refs = 1] \in Buffers /\ [a EXCEPT !.refs = 1].refs = 1
          /\ [a EXCEPT !.refs = 1].block = a.block /\ [a EXCEPT !.refs = 1].valid = a.valid
      BY <3>1, <3>2, CountSet
    <3>. QED
      BY <3>1, <3>2, <3>3
  <2> HIDE DEF i, r
  <2>4. /\ Chain(table)' /\ Contains(table', b) /\ Lookup(table', b) = i
        /\ \A a \in Blocks \ {b} : /\ Contains(table', a) <=> Contains(table, a)
                                   /\ Contains(table, a) => Lookup(table', a) = Lookup(table, a)
    <3>1. Puts(table, Assign(table, b, Nil, i), b, i)
      BY <1>0, <1>1, <1>4, <2>1, Assigned
    <3>2. Puts(table, table', b, i)
      BY <2>2, <3>1
    <3>. QED
      BY <3>2 DEF Puts
  <2>5. buf' \in [Ids -> Buffers] /\ buf'[i] = r /\ \A j \in Ids \ {i} : buf'[j] = buf[j]
    BY <1>2, <2>1, <2>2, <2>3
  <2>6. \A a \in Blocks \ {b} : Contains(table, a) =>
           buf'[Lookup(table, a)] = buf[Lookup(table, a)]
    BY <1>0, <2>1, <2>5, KeyOf
  <2>7. ~Pinned(b) /\ Pins(b) = 0
    BY <1>2, <1>4 DEF Right, Pins
  <2>8. Cardinality(Users(b)) = 0
    <3>1. Users(b) = {}
      BY <1>4 DEF Body, Held, Users
    <3>. QED
      BY <3>1, FS_EmptySet
  <2>9. r.refs = Cardinality(Users(b)) + 1 + Pins(b)
    BY <2>3, <2>7, <2>8, FirstUser
  <2>. QED
    BY <1>4, <2>1, <2>2, <2>3, <2>4, <2>5, <2>6, <2>7, <2>9 DEF Got
<1>. QED
  BY <1>3, <1>4

\* get finds the buffer of a block or puts a new one into the table.
LEMMA GetStep ==
    ASSUME Body, NEW p \in Procs, Get(p)
    PROVE  Body'
<1>0. Typed /\ pc[p] = "get" /\ Shape(p) /\ Saves(p) /\ Go(p, "lock")
  BY DEF Get, Body
<1>1. UNCHANGED <<disk, latest, header, entry, outstanding, committing>>
  BY DEF Get, logVars
<1>a. PICK b : b = local[p].block
  OBVIOUS
<1>2. b \in Blocks /\ local[p].buf = 0 /\ local[p].use \in Uses
  BY <1>a, <1>0 DEF Shape, Calling
<1>3. PICK i \in Ids :
         /\ local' = [local EXCEPT ![p].buf = i]
         /\ Chain(table)' /\ Contains(table', b) /\ Lookup(table', b) = i
         /\ \A a \in Blocks \ {b} :
               /\ Contains(table', a) <=> Contains(table, a)
               /\ Contains(table, a) => /\ Lookup(table', a) = Lookup(table, a)
                                        /\ buf'[Lookup(table, a)] = buf[Lookup(table, a)]
         /\ buf' \in [Ids -> Buffers] /\ buf'[i].block = b
         /\ buf'[i].valid => buf'[i].data = latest[b]
         /\ buf'[i].refs = Cardinality(Users(b)) + 1 + Pins(b)
         /\ Pinned(b) => buf'[i].valid
         /\ Contains(table, b) => Lookup(table, b) = i /\ (buf[i].valid => buf'[i].valid)
  <2>1. Got(p, b)
    BY <1>a, GetCache
  <2>. QED
    BY <2>1 DEF Got
<1>4. i \in Nat /\ i # 0
  BY IdsPositive
<1>5. /\ local' \in [Procs -> Locals] /\ \A q \in Procs \ {p} : local'[q] = local[q]
      /\ local'[p].buf = i /\ local'[p].block = b /\ local'[p].use = local[p].use
      /\ local'[p].back = local[p].back /\ local'[p].tail = local[p].tail
  <2> DEFINE r == [local[p] EXCEPT !.buf = i]
  <2>1. local[p] \in Locals /\ local \in [Procs -> Locals]
    BY <1>0 DEF Typed
  <2>2. /\ r \in Locals /\ r.buf = i /\ r.block = local[p].block
        /\ r.use = local[p].use /\ r.back = local[p].back /\ r.tail = local[p].tail
    BY <1>4, <2>1, BufSet
  <2>3. local' = [local EXCEPT ![p] = r]
    BY <1>3
  <2> HIDE DEF r
  <2>. QED
    BY <1>a, <2>1, <2>2, <2>3
<1>6. /\ pc' \in [Procs -> Places] /\ pc'[p] = "lock"
      /\ \A q \in Procs \ {p} : Rests(q)
  BY <1>0, <1>5, Goes DEF Places, Rests
<1>7. Typed'
  BY <1>0, <1>1, <1>3, <1>5, <1>6 DEF Typed
<1>8. Shape(p)'
  BY <1>a, <1>0, <1>2, <1>4, <1>5, <1>6 DEF Shape, Calling
<1>9. ASSUME NEW a PROVE (Pinned(a)' <=> Pinned(a)) /\ Pins(a)' = Pins(a)
  <2>1. Past(p, a)' <=> Past(p, a)
    BY <1>0, <1>1, <1>5, <1>6 DEF Past, Unpinned
  <2>2. \A q \in Procs : Past(q, a)' <=> Past(q, a)
    BY <1>1, <1>6, <2>1, Bystander
  <2>. QED
    BY <1>1, <2>2, PinnedStays
<1>10. Control'
  <2>1. (InOp(p)' <=> InOp(p)) /\ (Commits(p)' <=> Commits(p))
    BY <1>0, <1>5, <1>6 DEF InOp, Commits, Saving
  <2>2. \A q \in Procs : (InOp(q)' <=> InOp(q)) /\ (Commits(q)' <=> Commits(q))
    BY <1>6, <2>1, Bystander
  <2>. QED
    BY <1>1, <2>2, ControlStays
<1>11. ASSUME NEW q \in Procs PROVE Saves(q)'
  <2>1. CASE q = p
    <3>1. Copied(p)' = Copied(p)
      BY <1>0, <1>1, <1>5, <1>6 DEF Copied
    <3>. QED
      BY <1>a, <1>0, <1>1, <1>5, <2>1, <3>1 DEF Saves, Saving
  <2>2. CASE q # p
    BY <1>1, <1>6, <2>2, SavesStays
  <2>. QED
    BY <2>1, <2>2
<1>12. Once'
  BY <1>1 DEF Body, Once
<1>13. Cardinality(Users(b)') = Cardinality(Users(b)) + 1
  <2>1. p \notin Users(b)
    BY <1>2 DEF Users
  <2>2. Users(b)' = Users(b) \cup {p}
    <3>1. p \in Users(b)'
      BY <1>4, <1>5 DEF Users
    <3>2. \A q \in Procs \ {p} : q \in Users(b)' <=> q \in Users(b)
      BY <1>5 DEF Users
    <3>3. Users(b) \subseteq Procs /\ Users(b)' \subseteq Procs
      BY DEF Users
    <3>. QED
      BY <3>1, <3>2, <3>3, Zenon
  <2>. QED
    BY <2>1, <2>2, UserCount, FS_AddElement
<1>14. buf'[i].refs = Cardinality(Users(b)') + Pins(b)'
  BY <1>3, <1>9, <1>13
<1>15. Held(p)' /\ Sees(p)'
  BY <1>3, <1>5, <1>6 DEF Held, Sees, Holds
<1>16. ASSUME NEW q \in Procs \ {p}, local[q].buf # 0, local[q].block = b
       PROVE  /\ Contains(table', b) /\ Lookup(table', b) = Lookup(table, b)
              /\ buf[Lookup(table, b)].valid => buf'[Lookup(table, b)].valid
  <2>1. Contains(table, b)
    BY <1>16, Own
  <2>. QED
    BY <1>3, <2>1
<1>. QED
  BY <1>a, <1>1, <1>2, <1>3, <1>5, <1>6, <1>7, <1>8, <1>9, <1>10, <1>11, <1>12, <1>14, <1>15, <1>16,
     Rewires

\* The cache once p released buffer i of block b.
Dropped(p, b, i) ==
    /\ Chain(table)' /\ buf' \in [Ids -> Buffers]
    /\ \A a \in Blocks \ {b} :
          /\ Contains(table', a) <=> Contains(table, a)
          /\ Contains(table, a) => /\ Lookup(table', a) = Lookup(table, a)
                                   /\ buf'[Lookup(table, a)] = buf[Lookup(table, a)]
    /\ \/ /\ table' = table /\ buf'[i].block = b
          /\ buf'[i].valid = buf[i].valid /\ buf'[i].data = buf[i].data
          /\ buf'[i].refs = Cardinality(Users(b)) - 1 + Pins(b)
       \/ ~Contains(table', b) /\ Users(b) = {p} /\ ~Pinned(b)

\* What release does to the cache.
LEMMA DropCache ==
    ASSUME Body, NEW p \in Procs, Drop(p)
    PROVE  Dropped(p, local[p].block, local[p].buf)
<1> SUFFICES ASSUME NEW b, b = local[p].block, NEW i, i = local[p].buf
             PROVE  Dropped(p, b, i)
  OBVIOUS
<1>0. Typed /\ Chain(table) /\ Shape(p) /\ pc[p] = "drop"
  BY DEF Drop, Body
<1>1. i # 0
  BY <1>0 DEF Shape, Calling
<1>2. /\ b \in Blocks /\ Contains(table, b) /\ Lookup(table, b) = i /\ i \in Ids
      /\ buf[i].block = b /\ Counted(b)
      /\ \A a \in Blocks : Contains(table, a) =>
            Lookup(table, a) \in Ids /\ (Lookup(table, a) = i => a = b)
      /\ p \in Users(b) /\ Cardinality(Users(b)) >= 1
  BY <1>1, Own DEF Body
<1>3. buf \in [Ids -> Buffers]
  BY <1>0 DEF Typed
<1>4. buf[i].refs = Cardinality(Users(b)) + Pins(b) /\ Pins(b) \in {0, 1}
  BY <1>2 DEF Counted, Pins
<1>5. CASE buf[i].refs # 1
  <2> DEFINE n == Cardinality(Users(b)) - 1 + Pins(b)
  <2>1. table' = table
    BY <1>5 DEF Drop, LastRef, Mine
  <2>2. buf' = [buf EXCEPT ![i].refs = (@ + REF_MOD - 1) % REF_MOD]
    BY <1>2, <2>1 DEF Drop, Mine
  <2>3. (buf[i].refs + REF_MOD - 1) % REF_MOD = n /\ n \in Nat
    <3>1. /\ buf[i].refs \in Nat /\ REF_MOD \in Nat /\ 1 <= buf[i].refs /\ buf[i].refs < REF_MOD
          /\ buf[i].refs - 1 = n /\ n \in Nat
      <4>1. /\ Cardinality(Users(b)) \in Nat /\ Cardinality(Users(b)) <= Cardinality(Procs)
            /\ Cardinality(Procs) \in Nat /\ REF_MOD \in Nat /\ Cardinality(Procs) + 1 < REF_MOD
        BY Sizes, UserCount
      <4>. QED
        <5>1. Lasts(Cardinality(Users(b)), Pins(b), REF_MOD)
          BY <1>2, <1>4, <4>1, RefsLeft
        <5>. QED
          BY <1>4, <4>1, <5>1 DEF Lasts
    <3>. QED
      BY <3>1, CountsDown
  <2>4. buf' = WithRefs(buf, i, n)
    BY <1>2, <1>3, <2>2, <2>3 DEF WithRefs
  <2> HIDE DEF n
  <2>5. /\ WithRefs(buf, i, n) \in [Ids -> Buffers]
        /\ \A j \in Ids \ {i} : WithRefs(buf, i, n)[j] = buf[j]
        /\ WithRefs(buf, i, n)[i].refs = n
        /\ WithRefs(buf, i, n)[i].block = buf[i].block
        /\ WithRefs(buf, i, n)[i].valid = buf[i].valid
        /\ WithRefs(buf, i, n)[i].data = buf[i].data
    <3>1. buf \in [Ids -> Buffers] /\ i \in Ids /\ n \in Nat
      BY <1>2, <1>3, <2>3
    <3>2. Becomes(buf, WithRefs(buf, i, n), i, buf[i].owner, n, buf[i].valid, buf[i].data)
      BY <3>1, RefsSet
    <3>. QED
      BY <3>2 DEF Becomes
  <2>6. buf[i].block = b
    BY <1>2
  <2>7. /\ buf' \in [Ids -> Buffers] /\ \A j \in Ids \ {i} : buf'[j] = buf[j]
        /\ buf'[i].refs = n /\ buf'[i].block = b
        /\ buf'[i].valid = buf[i].valid /\ buf'[i].data = buf[i].data
    BY <2>4, <2>5, <2>6, Zenon
  <2>8. \A a \in Blocks \ {b} : Contains(table, a) =>
           buf'[Lookup(table, a)] = buf[Lookup(table, a)]
    BY <1>2, <2>7
  <2>9. buf'[i].refs = Cardinality(Users(b)) - 1 + Pins(b)
    BY <2>7 DEF n
  <2>10. Chain(table)'
    BY <1>0, <2>1
  <2>. QED
    BY <2>1, <2>7, <2>8, <2>9, <2>10 DEF Dropped
<1>6. CASE buf[i].refs = 1
  <2>1. Cardinality(Users(b)) = 1 /\ Pins(b) = 0
    <3>1. Cardinality(Users(b)) \in Nat
      BY UserCount
    <3>. QED
      BY <1>2, <1>4, <1>6, <3>1, LastUser
  <2>2. ~Pinned(b)
    BY <2>1, SMT DEF Pins
  <2>3. Users(b) = {p}
    <3>1. PICK x : Users(b) = {x}
      BY <2>1, UserCount, FS_Singleton
    <3>. QED
      BY <1>2, <3>1
  <2>4. table' = Erase(table, b)
    BY <1>2, <1>6 DEF Drop, LastRef, Mine
  <2>5. /\ Chain(table)' /\ ~Contains(table', b)
        /\ \A a \in Blocks \ {b} : /\ Contains(table', a) <=> Contains(table, a)
                                   /\ Contains(table, a) => Lookup(table', a) = Lookup(table, a)
    BY <1>0, <1>2, <2>4, Erased
  <2>6. ASSUME NEW q \in Procs \ {p}, Mine(q) = i PROVE FALSE
    <3>1. local[q].buf = i
      BY <2>6 DEF Mine
    <3>2. /\ local[q].block \in Blocks /\ Contains(table, local[q].block)
          /\ Lookup(table, local[q].block) = i /\ q \in Users(local[q].block)
      BY <1>1, <3>1, Own
    <3>. QED
      BY <1>2, <2>3, <3>2
  <2>7. buf' = [buf EXCEPT ![i] = Blank]
    BY <1>2, <2>5, <2>6 DEF Drop, Mine
  <2>8. Blank \in Buffers
    BY BlankBuffer
  <2>9. buf' \in [Ids -> Buffers] /\ \A j \in Ids \ {i} : buf'[j] = buf[j]
    BY <1>2, <1>3, <2>7, <2>8
  <2>10. \A a \in Blocks \ {b} : Contains(table, a) =>
            buf'[Lookup(table, a)] = buf[Lookup(table, a)]
    BY <1>2, <2>9
  <2>. QED
    BY <2>2, <2>3, <2>5, <2>9, <2>10 DEF Dropped
<1>. QED
  BY <1>5, <1>6

\* p has given its buffer back, and goes on with what it was doing.
Advances(p) ==
    /\ \A q \in Procs \ {p} : Rests(q)
    /\ local' \in [Procs -> Locals] /\ pc' \in [Procs -> Places] /\ header' \in Seq(Blocks)
    /\ local'[p].buf = 0 /\ pc'[p] \in {"idle", "op", "get", "done"}
    /\ Shape(p)' /\ Control' /\ Once' /\ \A q \in Procs : Saves(q)'
    /\ \A a \in Blocks : Pinned(a)' <=> Pinned(a)

\* The process has nothing more to do with buffers.
LEMMA Returned ==
    ASSUME Typed, NEW p \in Procs, NEW at \in Places, Go(p, at),
           local' = [local EXCEPT ![p] = NoLocals]
    PROVE  /\ \A q \in Procs \ {p} : Rests(q)
           /\ local' \in [Procs -> Locals] /\ pc' \in [Procs -> Places] /\ pc'[p] = at
           /\ local'[p] = NoLocals /\ local'[p].buf = 0 /\ local'[p].use = "none"
<1>1. NoLocals \in Locals
  BY SMT DEF NoLocals, Locals, Places
<1>2. /\ pc' \in [Procs -> Places] /\ pc'[p] = at
      /\ \A q \in Procs \ {p} : pc'[q] = pc[q]
  BY Goes
<1>3. local' \in [Procs -> Locals] /\ local'[p] = NoLocals /\ \A q \in Procs \ {p} : local'[q] = local[q]
  BY <1>1 DEF Typed
<1>. QED
  BY <1>2, <1>3 DEF Rests, NoLocals

\* A step of p that leaves the log, as far as the others and the blocks go.
LEMMA LogRests ==
    ASSUME Body, NEW p \in Procs, UNCHANGED <<latest, header, entry, outstanding, committing>>,
           \A q \in Procs \ {p} : Rests(q),
           (InOp(p)' <=> InOp(p)) /\ (Commits(p)' <=> Commits(p)),
           \A a \in Blocks : Past(p, a)' <=> Past(p, a), Saves(p)'
    PROVE  /\ header' \in Seq(Blocks) /\ Control' /\ Once' /\ \A q \in Procs : Saves(q)'
           /\ \A a \in Blocks : Pinned(a)' <=> Pinned(a)
<1>1. Control'
  <2>1. \A q \in Procs : (InOp(q)' <=> InOp(q)) /\ (Commits(q)' <=> Commits(q))
    BY Bystander
  <2>. QED
    BY <2>1, ControlStays
<1>2. \A q \in Procs : Saves(q)'
  BY SavesStays
<1>3. ASSUME NEW a \in Blocks PROVE Pinned(a)' <=> Pinned(a)
  <2>1. \A q \in Procs : Past(q, a)' <=> Past(q, a)
    BY Bystander
  <2>. QED
    BY <2>1, PinnedStays
<1>. QED
  BY <1>1, <1>2, <1>3 DEF Body, Typed, Once

\* read, or an update, returns.
LEMMA DropReturns ==
    ASSUME Body, NEW p \in Procs, Drop(p), local[p].use \in {"read", "update"}
    PROVE  Advances(p)
<1>0. Typed /\ pc[p] = "drop" /\ Shape(p) /\ UNCHANGED <<latest, entry, outstanding, committing>>
  BY DEF Drop, Body
<1>1. Go(p, local[p].back) /\ local' = [local EXCEPT ![p] = NoLocals] /\ header' = header
  BY DEF Drop, Continue
<1>2. /\ local[p].back \in Places
      /\ local[p].back = IF local[p].use = "read" THEN "idle" ELSE "op"
  BY <1>0 DEF Shape, Places
<1>3. /\ \A q \in Procs \ {p} : Rests(q)
      /\ local' \in [Procs -> Locals] /\ pc' \in [Procs -> Places] /\ pc'[p] = local[p].back
      /\ local'[p] = NoLocals /\ local'[p].buf = 0 /\ local'[p].use = "none"
  BY <1>0, <1>1, <1>2, Returned
<1>4. Shape(p)'
  BY <1>2, <1>3 DEF Shape, Calling
<1>5. (InOp(p)' <=> InOp(p)) /\ (Commits(p)' <=> Commits(p))
  BY <1>0, <1>2, <1>3 DEF InOp, Commits, Saving
<1>6. (\A a \in Blocks : Past(p, a)' <=> Past(p, a)) /\ Saves(p)'
  BY <1>3 DEF Past, Saves, Saving
<1>7. /\ header' \in Seq(Blocks) /\ Control' /\ Once' /\ \A q \in Procs : Saves(q)'
      /\ \A a \in Blocks : Pinned(a)' <=> Pinned(a)
  BY <1>0, <1>1, <1>3, <1>5, <1>6, LogRests
<1>. QED
  BY <1>2, <1>3, <1>4, <1>7 DEF Advances

\* How far a commit is that gives a buffer back.
LEMMA DropSaves ==
    ASSUME Body, NEW p \in Procs, Drop(p), local[p].use \notin {"read", "update"}
    PROVE  /\ Typed /\ Shape(p) /\ pc[p] = "drop" /\ local[p].use \in {"copy", "install"}
           /\ UNCHANGED <<latest, entry, outstanding, committing>> /\ Continue(p)
           /\ Len(header) \in Nat /\ DOMAIN header = 1 .. Len(header)
           /\ \A k \in 1 .. Len(header) : header[k] \in Blocks
           /\ local[p].tail \in 1 .. Len(header)
           /\ Copied(p) <= Len(entry) /\ \A k \in 1 .. Copied(p) : entry[k] = latest[header[k]]
           /\ Copied(p) = IF local[p].use = "install" THEN Len(header) ELSE local[p].tail
           /\ \A q \in Procs \ {p} : ~Commits(q)
<1>1. /\ Typed /\ Shape(p) /\ pc[p] = "drop" /\ Saves(p)
      /\ UNCHANGED <<latest, entry, outstanding, committing>> /\ Continue(p)
  BY DEF Drop, Body
<1>2. local[p].use \in {"copy", "install"} /\ Saving(p) /\ Commits(p)
  BY <1>1 DEF Shape, Calling, Uses, Saving, Commits
<1>3. /\ Len(header) \in Nat /\ DOMAIN header = 1 .. Len(header)
      /\ \A k \in 1 .. Len(header) : header[k] \in Blocks
  <2>1. header \in Seq(Blocks)
    BY <1>1 DEF Typed
  <2>. QED
    BY <2>1, LenProperties, ElementOfSeq
<1>4. \A q \in Procs \ {p} : ~Commits(q)
  BY <1>2 DEF Body, Control
<1>. QED
  BY <1>1, <1>2, <1>3, <1>4 DEF Saves, Copied

\* The commit goes on to the next block of the header, or to install the first.
LEMMA DropNext ==
    ASSUME Body, NEW p \in Procs, Drop(p), local[p].use \notin {"read", "update"},
           local[p].tail < Len(header) \/ local[p].use = "copy"
    PROVE  Advances(p)
<1>0. /\ Typed /\ Shape(p) /\ pc[p] = "drop" /\ local[p].use \in {"copy", "install"}
      /\ UNCHANGED <<latest, entry, outstanding, committing>> /\ Continue(p)
      /\ Len(header) \in Nat /\ DOMAIN header = 1 .. Len(header)
      /\ \A k \in 1 .. Len(header) : header[k] \in Blocks
      /\ local[p].tail \in 1 .. Len(header)
      /\ Copied(p) <= Len(entry) /\ \A k \in 1 .. Copied(p) : entry[k] = latest[header[k]]
      /\ Copied(p) = IF local[p].use = "install" THEN Len(header) ELSE local[p].tail
  BY DropSaves
<1>a. PICK t, use : t = local[p].tail /\ use = local[p].use
  OBVIOUS
<1>b. t \in 1 .. Len(header) /\ Len(header) \in Nat
  BY <1>a, <1>0
<1>1. PICK u, next :
         /\ u \in 1 .. Len(header) /\ next \in {"copy", "install"}
         /\ Wants(p, header[u], next, u) /\ header' = header
         /\ \/ t < Len(header) /\ u = t + 1 /\ next = use
            \/ t = Len(header) /\ u = 1 /\ next = "install" /\ use = "copy"
  <2>1. CASE t < Len(header)
    <3>1. Wants(p, header[t + 1], use, t + 1) /\ header' = header
      BY <1>a, <1>0, <2>1 DEF Continue
    <3>2. t + 1 \in 1 .. Len(header)
      BY <1>b, <2>1, SMT
    <3>. QED
      BY <1>a, <1>0, <2>1, <3>1, <3>2
  <2>2. CASE ~(t < Len(header))
    <3>1. use = "copy"
      BY <1>a, <2>2
    <3>2. Wants(p, header[1], "install", 1) /\ header' = header
      BY <1>a, <1>0, <2>2, <3>1 DEF Continue
    <3>3. 1 \in 1 .. Len(header) /\ t = Len(header)
      BY <1>b, <2>2, SMT
    <3>. QED
      BY <3>1, <3>2, <3>3
  <2>. QED
    BY <2>1, <2>2
<1>2. header[u] \in Blocks /\ next \in Uses /\ u \in Nat
  <2>1. u \in 1 .. Len(header)
    BY <1>1
  <2>2. u \in Nat
    BY <2>1, SMT
  <2>3. next \in Uses
    BY <1>1 DEF Uses
  <2>. QED
    BY <1>0, <2>1, <2>2, <2>3
<1>3. /\ local' \in [Procs -> Locals] /\ pc' \in [Procs -> Places]
      /\ \A q \in Procs \ {p} : Rests(q)
      /\ pc'[p] = "get"
      /\ local'[p].block = header[u] /\ local'[p].buf = 0 /\ local'[p].use = next
      /\ local'[p].back = pc[p] /\ local'[p].tail = u
  <2>1. Typed /\ Wants(p, header[u], next, u)
    BY <1>0, <1>1
  <2>2. Asks(p, header[u], next, u)
    BY <1>2, <2>1, Wanted
  <2>. QED
    BY <2>2 DEF Asks
<1>4. Shape(p)'
  BY <1>1, <1>2, <1>3 DEF Shape, Calling
<1>5. (InOp(p)' <=> InOp(p)) /\ (Commits(p)' <=> Commits(p))
  BY <1>0, <1>1, <1>3 DEF InOp, Commits, Saving
<1>6. ASSUME NEW a \in Blocks PROVE Past(p, a)' <=> Past(p, a)
  <2>1. Past(p, a)' <=> next = "install" /\ \E k \in 1 .. u - 1 : header[k] = a
    BY <1>1, <1>3 DEF Past, Unpinned
  <2>2. Past(p, a) <=> use = "install" /\ ((\E k \in 1 .. t - 1 : header[k] = a) \/ header[t] = a)
    BY <1>a, <1>0 DEF Past, Unpinned
  <2>3. CASE t < Len(header) /\ u = t + 1 /\ next = use
    <3>1. 1 .. u - 1 = (1 .. t - 1) \cup {t}
      <4>1. t \in Nat /\ t >= 1
        BY <1>b, Positive
      <4>. QED
        BY <2>3, <4>1, NextBlocks
    <3>. QED
      BY <2>1, <2>2, <2>3, <3>1
  <2>4. CASE u = 1 /\ use = "copy"
    <3>1. 1 .. u - 1 = {}
      BY <2>4, SMT
    <3>. QED
      BY <2>1, <2>2, <2>4, <3>1
  <2>. QED
    BY <1>1, <2>3, <2>4
<1>7. Saves(p)'
  <2>1. Copied(p)' = Copied(p)
    <3>1. Copied(p)' = IF next = "install" THEN Len(header) ELSE u - 1
      BY <1>1, <1>3 DEF Copied
    <3>2. Copied(p) = IF use = "install" THEN Len(header) ELSE t
      BY <1>a, <1>0
    <3>3. CASE t < Len(header) /\ u = t + 1 /\ next = use
      <4>1. u - 1 = t
        BY <1>b, <3>3, SMT
      <4>. QED
        BY <3>1, <3>2, <3>3, <4>1
    <3>4. CASE t = Len(header) /\ u = 1 /\ next = "install" /\ use = "copy"
      BY <3>1, <3>2, <3>4
    <3>. QED
      BY <1>1, <3>3, <3>4
  <2>. QED
    BY <1>0, <1>1, <1>3, <2>1 DEF Saves
<1>8. /\ header' \in Seq(Blocks) /\ Control' /\ Once' /\ \A q \in Procs : Saves(q)'
      /\ \A a \in Blocks : Pinned(a)' <=> Pinned(a)
  BY <1>0, <1>1, <1>3, <1>5, <1>6, <1>7, LogRests
<1>. QED
  BY <1>3, <1>4, <1>8 DEF Advances

\* All blocks are installed, and the header is emptied: nothing was pinned any more.
LEMMA DropEnds ==
    ASSUME Body, NEW p \in Procs, Drop(p), local[p].use \notin {"read", "update"},
           ~(local[p].tail < Len(header)), local[p].use # "copy"
    PROVE  Advances(p)
<1>0. /\ Typed /\ Shape(p) /\ pc[p] = "drop" /\ local[p].use = "install"
      /\ UNCHANGED <<latest, entry, outstanding, committing>>
      /\ Len(header) \in Nat /\ DOMAIN header = 1 .. Len(header)
      /\ local[p].tail \in 1 .. Len(header)
      /\ \A q \in Procs \ {p} : ~Commits(q)
  BY DropSaves
<1>1. Go(p, "done") /\ local' = [local EXCEPT ![p] = NoLocals] /\ header' = <<>>
  BY DropSaves DEF Continue
<1>2. /\ \A q \in Procs \ {p} : Rests(q)
      /\ local' \in [Procs -> Locals] /\ pc' \in [Procs -> Places] /\ pc'[p] = "done"
      /\ local'[p] = NoLocals /\ local'[p].buf = 0 /\ local'[p].use = "none"
  BY <1>0, <1>1, Returned DEF Places
<1>3. Shape(p)'
  BY <1>2 DEF Shape, Calling
<1>4. Control'
  <2>1. (InOp(p)' <=> InOp(p)) /\ (Commits(p)' <=> Commits(p))
    BY <1>0, <1>2 DEF InOp, Commits, Saving
  <2>2. \A q \in Procs : (InOp(q)' <=> InOp(q)) /\ (Commits(q)' <=> Commits(q))
    BY <1>2, <2>1, Bystander
  <2>. QED
    BY <1>0, <2>2, ControlStays
<1>5. \A q \in Procs : Saves(q)'
  <2>1. \A q \in Procs : ~Saving(q)'
    <3>1. ~Saving(p)'
      BY <1>2 DEF Saving
    <3>2. \A q \in Procs \ {p} : ~Saving(q)
      BY <1>0 DEF Commits
    <3>. QED
      BY <1>2, <3>1, <3>2, Bystander
  <2>. QED
    BY <2>1 DEF Saves
<1>6. header' \in Seq(Blocks) /\ Once' /\ Logged' = {}
  BY <1>1, SMT DEF Once, Logged
<1>7. ASSUME NEW a \in Blocks PROVE ~Pinned(a) /\ ~Pinned(a)'
  <2>1. ~Pinned(a)'
    BY <1>6 DEF Pinned
  <2>2. a \in Logged => Unpinned(p, a)
    <3>1. SUFFICES ASSUME NEW k \in DOMAIN header, header[k] = a PROVE Unpinned(p, a)
      BY DEF Logged
    <3>2. k \in 1 .. local[p].tail - 1 \/ k = local[p].tail
      BY <1>0, SMT
    <3>. QED
      BY <1>0, <3>1, <3>2 DEF Unpinned
  <2>. QED
    BY <1>0, <2>1, <2>2 DEF Pinned
<1>. QED
  BY <1>2, <1>3, <1>4, <1>5, <1>6, <1>7 DEF Advances

\* release gives up a reference, and takes an unused buffer from the table.
LEMMA DropStep ==
    ASSUME Body, NEW p \in Procs, Drop(p)
    PROVE  Body'
<1>0. /\ Typed /\ Shape(p) /\ pc[p] = "drop"
      /\ UNCHANGED <<disk, latest, entry, outstanding, committing>>
  BY DEF Drop, Body
<1>a. PICK i, b : i = local[p].buf /\ b = local[p].block
  OBVIOUS
<1>1. Advances(p)
  BY DropReturns, DropNext, DropEnds
<1>2. i # 0
  BY <1>a, <1>0 DEF Shape, Calling
<1>3. /\ b \in Blocks /\ Contains(table, b) /\ Lookup(table, b) = i /\ i \in Ids
      /\ p \in Users(b) /\ Right(b)
  BY <1>a, <1>2, Own DEF Body
<1>4. /\ Chain(table)' /\ buf' \in [Ids -> Buffers]
      /\ \A a \in Blocks \ {b} :
            /\ Contains(table', a) <=> Contains(table, a)
            /\ Contains(table, a) => /\ Lookup(table', a) = Lookup(table, a)
                                     /\ buf'[Lookup(table, a)] = buf[Lookup(table, a)]
      /\ \/ /\ table' = table /\ buf'[i].block = b
            /\ buf'[i].valid = buf[i].valid /\ buf'[i].data = buf[i].data
            /\ buf'[i].refs = Cardinality(Users(b)) - 1 + Pins(b)
         \/ ~Contains(table', b) /\ Users(b) = {p} /\ ~Pinned(b)
  <2>1. Dropped(p, b, i)
    BY <1>a, DropCache
  <2>. QED
    BY <2>1 DEF Dropped
<1>5. Typed'
  BY <1>0, <1>1, <1>4 DEF Typed, Advances
<1>6. Held(p)' /\ Sees(p)'
  BY <1>1 DEF Advances, Held, Sees, Holds
<1>7. Cardinality(Users(b)') = Cardinality(Users(b)) - 1
  <2>1. Users(b)' = Users(b) \ {p}
    <3>1. p \notin Users(b)'
      BY <1>1 DEF Users, Advances
    <3>2. \A q \in Procs \ {p} : q \in Users(b)' <=> q \in Users(b)
      BY <1>1 DEF Users, Advances, Rests
    <3>3. Users(b) \subseteq Procs /\ Users(b)' \subseteq Procs
      BY DEF Users
    <3>. QED
      BY <3>1, <3>2, <3>3, Zenon
  <2>. QED
    BY <1>3, <2>1, UserCount, FS_RemoveElement
<1>8. Pins(b)' = Pins(b)
  BY <1>1, <1>3 DEF Advances, Pins
<1>9. Contains(table', b) =>
         /\ buf'[Lookup(table', b)].block = b
         /\ buf'[Lookup(table', b)].valid => buf'[Lookup(table', b)].data = latest[b]
         /\ buf'[Lookup(table', b)].refs = Cardinality(Users(b)') + Pins(b)'
  <2>1. SUFFICES ASSUME Contains(table', b)
                 PROVE  /\ buf'[i].block = b /\ (buf'[i].valid => buf'[i].data = latest[b])
                        /\ buf'[i].refs = Cardinality(Users(b)') + Pins(b)'
    BY <1>3, <1>4
  <2>2. buf[i].valid => buf[i].data = latest[b]
    BY <1>3 DEF Right
  <2>. QED
    BY <1>4, <1>7, <1>8, <2>1, <2>2
<1>10. Pinned(b) => Contains(table', b) /\ buf'[Lookup(table', b)].valid
  BY <1>3, <1>4 DEF Right
<1>11. ASSUME NEW q \in Procs \ {p}, local[q].buf # 0, local[q].block = b
       PROVE  /\ Contains(table', b) /\ Lookup(table', b) = Lookup(table, b)
              /\ buf[Lookup(table, b)].valid => buf'[Lookup(table, b)].valid
  <2>1. q \in Users(b) /\ q # p
    BY <1>11 DEF Users
  <2>. QED
    BY <1>3, <1>4, <2>1
<1>12. /\ \A q \in Procs \ {p} : Rests(q)
       /\ local'[p].buf = 0 /\ Shape(p)' /\ Control' /\ Once' /\ \A q \in Procs : Saves(q)'
       /\ \A a \in Blocks : Pinned(a)' <=> Pinned(a)
  BY <1>1 DEF Advances
<1>. QED
  BY <1>a, <1>0, <1>3, <1>4, <1>5, <1>6, <1>9, <1>10, <1>11, <1>12, Rewires
-----------------------------------------------------------------------------
(***************************************************************************)
(* The invariant and what follows from it.                                 *)
(***************************************************************************)
LEMMA InitBody == Init => IInv
<1>1. SUFFICES ASSUME Init PROVE Body
  BY DEF IInv
<1>2. Typed
  <2>1. Blank \in Buffers
    BY BlankBuffer
  <2>2. NoLocals \in Locals
    BY SMT DEF NoLocals, Locals, Places
  <2>3. header \in Seq(Blocks) /\ entry \in Seq(Data)
    <3>1. header = <<>> /\ entry = <<>>
      BY <1>1 DEF Init
    <3>. QED
      BY <3>1, EmptySeq
  <2>. QED
    BY <1>1, <2>1, <2>2, <2>3, BufferAssumption DEF Init, Typed, Places
<1>3. Chain(table) /\ \A b : ~Contains(table, b)
  <2>1. table = <<>>
    BY <1>1 DEF Init
  <2>. QED
    BY <2>1, SMT DEF Chain, Contains
<1>4. Logged = {} /\ Once
  <2>1. header = <<>>
    BY <1>1 DEF Init
  <2>. QED
    BY <2>1, SMT DEF Logged, Once
<1>5. ASSUME NEW p \in Procs
      PROVE  /\ pc[p] = "idle" /\ local[p] = NoLocals
             /\ local[p].buf = 0 /\ local[p].use = "none"
  BY <1>1 DEF Init, NoLocals
<1>6. \A p \in Procs : ~InOp(p) /\ ~Commits(p) /\ ~Saving(p)
  BY <1>5 DEF InOp, Commits, Saving
<1>7. Control
  <2>1. {p \in Procs : InOp(p)} = {}
    BY <1>6
  <2>. QED
    BY <1>1, <1>6, <2>1, FS_EmptySet DEF Init, Control
<1>8. \A p \in Procs : Shape(p) /\ Held(p) /\ Saves(p) /\ Sees(p)
  BY <1>5, <1>6 DEF Shape, Calling, Held, Saves, Sees, Holds
<1>9. \A b \in Blocks : Right(b) /\ Counted(b)
  BY <1>1, <1>3, <1>4 DEF Init, Right, Counted, Pinned
<1>. QED
  BY <1>2, <1>3, <1>4, <1>7, <1>8, <1>9 DEF Body, Named

\* A step that changes nothing keeps the invariant.
LEMMA StutterBody ==
    ASSUME Body, UNCHANGED vars
    PROVE  Body'
<1>1. /\ UNCHANGED <<table, buf, disk, header, entry, outstanding, committing, pc, local, latest>>
  BY DEF vars, cacheVars, logVars
<1>2. Typed' /\ Chain(table)' /\ Named' /\ Once'
  BY <1>1 DEF Body, Typed, Named, Once
<1>3. Control'
  BY <1>1, ControlStays DEF InOp, Commits, Saving
<1>4. \A p \in Procs : Rests(p)
  BY <1>1 DEF Rests
<1>5. \A p \in Procs : Shape(p)' /\ Saves(p)'
  BY <1>1, <1>4, Bystander, SavesStays
<1>6. \A p \in Procs : Held(p)' /\ Sees(p)'
  BY <1>1 DEF Body, Held, Sees, Holds
<1>7. ASSUME NEW b \in Blocks PROVE Right(b)' /\ Counted(b)'
  <2>1. (Pinned(b)' <=> Pinned(b)) /\ Pins(b)' = Pins(b)
    <3>1. \A q \in Procs : Past(q, b)' <=> Past(q, b)
      BY <1>1, <1>4, Bystander
    <3>. QED
      BY <1>1, <3>1, PinnedStays
  <2>2. Users(b)' = Users(b)
    BY <1>1 DEF Users
  <2>3. Right(b) /\ Counted(b)
    BY DEF Body
  <2>. QED
    BY <1>1, <2>1, <2>2, <2>3 DEF Right, Counted
<1>. QED
  BY <1>2, <1>3, <1>5, <1>6, <1>7 DEF Body

\* Every step keeps the invariant.
LEMMA NextBody == IInv /\ [Next]_vars => IInv'
<1>1. SUFFICES ASSUME IInv, [Next]_vars, ~raced' PROVE Body'
  BY DEF IInv
<1>2. CASE UNCHANGED vars
  <2>1. ~raced
    BY <1>1, <1>2 DEF vars
  <2>. QED
    BY <1>1, <1>2, <2>1, StutterBody DEF IInv
<1>3. CASE Next
  <2>1. Body
    BY <1>1, <1>3 DEF Next, IInv
  <2>2. PICK p \in Procs : Step(p) \/ ReadCall(p) \/ Begin(p) \/ UpdateCall(p) \/ EndOp(p)
    BY <1>3 DEF Next
  <2>3. CASE Step(p)
    BY <1>1, <2>1, <2>3, GetStep, LockStep, UnlockStep, DropStep, BeginOpStep, UpdateStep, CopyStep,
       InstallStep, UnpinLoadStep, UnpinStoreStep, DoneStep DEF Step
  <2>4. CASE ReadCall(p) \/ Begin(p) \/ UpdateCall(p) \/ EndOp(p)
    BY <2>1, <2>4, ReadCallStep, BeginStep, UpdateCallStep, EndOpStep
  <2>. QED
    BY <2>2, <2>3, <2>4
<1>. QED
  BY <1>1, <1>2, <1>3

\* The invariant holds in every state.
LEMMA Invariant == Spec => []IInv
BY InitBody, NextBody, PTL DEF Spec

\* Whoever has locked a buffer sees what was last written to its block, for any
\* number of processes and of commits, and however often the buffer has left the
\* table (get, Buffer::read, release, installTrans).
THEOREM BufferCacheUsesLatest == Spec => []UsesLatest
<1>1. IInv => UsesLatest
  <2>1. SUFFICES ASSUME Body, NEW p \in Procs, Holds(p)
                 PROVE  buf[Mine(p)].data = latest[buf[Mine(p)].block]
    BY DEF IInv, UsesLatest
  <2>2. local[p].buf # 0 /\ buf[local[p].buf].valid
    BY <2>1 DEF Body, Sees, Holds, Shape, Calling
  <2>3. /\ local[p].block \in Blocks /\ Contains(table, local[p].block)
        /\ Lookup(table, local[p].block) = local[p].buf
        /\ buf[local[p].buf].block = local[p].block
    BY <2>1, <2>2, Own
  <2>4. Right(local[p].block)
    BY <2>1, <2>3 DEF Body
  <2>. QED
    BY <2>2, <2>3, <2>4 DEF Right, Mine
<1>. QED
  BY <1>1, Invariant, PTL

\* A block has one buffer, the one in the table, while a process has it and while
\* it is pinned (get, release, HashMap::erase).
THEOREM BufferCacheOneBuffer == Spec => []OneBuffer
<1>1. IInv => OneBuffer
  <2>1. SUFFICES ASSUME Body
                 PROVE  /\ \A p \in Procs : Mine(p) # 0 => Tabled(Mine(p))
                        /\ \A b \in Blocks : Pinned(b) => Contains(table, b)
    BY DEF IInv, OneBuffer
  <2>2. ASSUME NEW p \in Procs, Mine(p) # 0 PROVE Tabled(Mine(p))
    BY <2>1, <2>2, Own DEF Mine, Tabled
  <2>3. \A b \in Blocks : Pinned(b) => Contains(table, b)
    BY <2>1 DEF Body, Right
  <2>. QED
    BY <2>2, <2>3
<1>. QED
  BY <1>1, Invariant, PTL

\* The count of a buffer in the table is the number of processes that have it, and
\* one for the log that has pinned it: release never takes it below zero, and the
\* assertion of unpin holds (get, release, Buffer::pin, Buffer::unpin).
THEOREM BufferCacheRefsExact == Spec => []RefsExact
<1>1. IInv => RefsExact
  <2>1. SUFFICES ASSUME Body, NEW k \in DOMAIN table, NEW i, i = table[k].value
                 PROVE  buf[i].refs = Cardinality({p \in Procs : Mine(p) = i})
                                      + (IF Pinned(buf[i].block) THEN 1 ELSE 0)
    BY DEF IInv, RefsExact
  <2> DEFINE b == table[k].key
  <2>2. b \in Blocks /\ Contains(table, b) /\ Lookup(table, b) = i /\ i \in Ids
    BY <2>1, NodeOf DEF Body
  <2>3. buf[i].block = b /\ Counted(b)
    BY <2>1, <2>2 DEF Body, Named
  <2> HIDE DEF b
  <2>4. {p \in Procs : Mine(p) = i} = Users(b)
    <3>1. i # 0
      BY <2>2, IdsPositive
    <3>2. ASSUME NEW p \in Procs PROVE Mine(p) = i <=> local[p].buf # 0 /\ local[p].block = b
      BY <2>1, <2>2, <2>3, <3>1, Own DEF Mine
    <3>. QED
      BY <3>2 DEF Users
  <2>. QED
    BY <2>2, <2>3, <2>4 DEF Counted, Pins
<1>. QED
  BY <1>1, Invariant, PTL
=============================================================================
