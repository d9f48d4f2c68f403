--------------------------- MODULE FileDataProofs ---------------------------
(***************************************************************************)
(* Proofs about FileData, for every set of files, every number of blocks   *)
(* and every number of direct and indirect blocks of an inode: no block is *)
(* used twice, what files refer to is marked in the bitmap, and the blocks *)
(* that bmap finds hold what was last written to them.                     *)
(***************************************************************************)
EXTENDS FileData, WellFoundedInduction, TLAPS

\* Zenon proves most leaves; those that reason about numbers or about records
\* and functions that change cite SMT.
USE ZenonT(30)

-----------------------------------------------------------------------------
(***************************************************************************)
(* The inductive invariant, of a file system s with files of n blocks.     *)
(***************************************************************************)
\* An indirect block holds a list, for truncate and for bmap.
Listed(s) ==
    \A f \in Files : s.ind[f] # 0 => /\ Loaded(s, s.ind[f]) \in Lists
                                     /\ Get(s, s.ind[f]).data \in Lists

\* A file that is longer than its direct blocks has an indirect block.
Sized(s, n) == \A f \in Files : n[f] > NUM_DIRECT_BLOCKS => s.ind[f] # 0

Good(s, n) ==
    /\ s \in FileSystems /\ n \in [Files -> 0 .. MAX_FILE] /\ disk \in [Blocks -> Contents]
    /\ Listed(s) /\ Sized(s, n)
    /\ Unshared(s) /\ Marked(s) /\ Kept(s, n)

IInv == TypeOK /\ Good(fs, size)
-----------------------------------------------------------------------------
(***************************************************************************)
(* Blocks and buffers.                                                     *)
(***************************************************************************)
\* Block numbers start at 1, and a list of zeros is a list.
LEMMA Numbers ==
    /\ 0 \notin Blocks /\ 0 .. NumBlocks = Blocks \cup {0} /\ Blocks \subseteq Nat
    /\ Zero \in Lists /\ \A i \in Entries : Zero[i] = 0
  BY FileDataAssumption, SMT DEF Blocks, Zero, Lists

\* What is found in the cache, or read from the disk.
LEMMA BufferTypes ==
    ASSUME NEW s \in FileSystems, NEW b \in Blocks, disk \in [Blocks -> Contents]
    PROVE  /\ Get(s, b) \in Buffers /\ Read(Get(s, b), b) \in Buffers /\ Read(Get(s, b), b).valid
           /\ Loaded(s, b) = IF Get(s, b).valid THEN Get(s, b).data ELSE disk[b]
           /\ Loaded(s, b) \in Contents
<1>1. Get(s, b) \in Buffers
  BY Numbers, SMT DEF FileSystems, Get, Buffers, Contents
<1>2. Loaded(s, b) = IF Get(s, b).valid THEN Get(s, b).data ELSE disk[b]
  BY SMT DEF Loaded, Read
<1> QED
  BY <1>1, <1>2, SMT DEF Read, Buffers

\* writeLog changes one buffer.
LEMMA WriteLogFacts ==
    ASSUME NEW s \in FileSystems, NEW b \in Blocks, NEW x \in Buffers,
           NEW t, t = WriteLog(s, b, x)
    PROVE  /\ t \in FileSystems
           /\ t.used = s.used /\ t.direct = s.direct /\ t.ind = s.ind
           /\ Get(t, b) = x /\ \A c \in Blocks \ {b} : Get(t, c) = Get(s, c)
<1>1. /\ t.used = s.used /\ t.direct = s.direct /\ t.ind = s.ind
      /\ t.cache = [s.cache EXCEPT ![b] = x]
  BY SMT DEF WriteLog, FileSystems
<1>2. t \in FileSystems
  <2>1. t.cache \in [Blocks -> Buffers \cup {Absent}]
    BY <1>1, SMT DEF FileSystems
  <2>2. t = [s EXCEPT !.cache = t.cache]
    BY <1>1 DEF WriteLog
  <2> QED
    BY <1>1, <2>1, <2>2, SMT DEF FileSystems
<1>3. t.cache[b] = x /\ \A c \in Blocks \ {b} : t.cache[c] = s.cache[c]
  BY <1>1, SMT DEF FileSystems
<1>4. Get(t, b) = x /\ \A c \in Blocks \ {b} : Get(t, c) = Get(s, c)
  BY <1>3, FileDataAssumption DEF Get
<1> QED
  BY <1>1, <1>2, <1>4

\* An assignment to a direct place, to indirectBlock, and to an entry of a list.
SetDirect(s, f, i, b) == [s EXCEPT !.direct[f][i] = b]
SetInd(s, f, b) == [s EXCEPT !.ind[f] = b]
SetEntry(buf, i, b) == [buf EXCEPT !.data[i] = b]

LEMMA InodeFields ==
    ASSUME NEW s \in FileSystems, NEW f \in Files, NEW b \in 0 .. NumBlocks
    PROVE  /\ \A i \in Directs : \A t : t = SetDirect(s, f, i, b) =>
                 /\ t \in FileSystems
                 /\ t.used = s.used /\ t.ind = s.ind /\ t.cache = s.cache
                 /\ t.direct[f][i] = b
                 /\ \A g \in Files, j \in Directs :
                       ~ (g = f /\ j = i) => t.direct[g][j] = s.direct[g][j]
           /\ \A t : t = SetInd(s, f, b) =>
                 /\ t \in FileSystems
                 /\ t.used = s.used /\ t.direct = s.direct /\ t.cache = s.cache
                 /\ t.ind[f] = b /\ \A g \in Files \ {f} : t.ind[g] = s.ind[g]
<1>1. ASSUME NEW i \in Directs, NEW t, t = SetDirect(s, f, i, b)
      PROVE  /\ t \in FileSystems
             /\ t.used = s.used /\ t.ind = s.ind /\ t.cache = s.cache
             /\ t.direct[f][i] = b
             /\ \A g \in Files, j \in Directs :
                   ~ (g = f /\ j = i) => t.direct[g][j] = s.direct[g][j]
  <2>1. /\ t.used = s.used /\ t.ind = s.ind /\ t.cache = s.cache
        /\ t.direct = [s.direct EXCEPT ![f][i] = b]
    BY <1>1, SMT DEF FileSystems, SetDirect
  <2>2. /\ t.direct \in [Files -> [Directs -> 0 .. NumBlocks]]
        /\ t.direct[f][i] = b
        /\ \A g \in Files, j \in Directs :
              ~ (g = f /\ j = i) => t.direct[g][j] = s.direct[g][j]
    BY <2>1, SMT DEF FileSystems
  <2>3. t = [s EXCEPT !.direct = t.direct]
    BY <1>1, <2>1 DEF SetDirect
  <2>4. t \in FileSystems
    BY <2>1, <2>2, <2>3, SMT DEF FileSystems
  <2> QED
    BY <2>1, <2>2, <2>4
<1>2. ASSUME NEW t, t = SetInd(s, f, b)
      PROVE  /\ t \in FileSystems
             /\ t.used = s.used /\ t.direct = s.direct /\ t.cache = s.cache
             /\ t.ind[f] = b /\ \A g \in Files \ {f} : t.ind[g] = s.ind[g]
  <2>1. /\ t.used = s.used /\ t.direct = s.direct /\ t.cache = s.cache
        /\ t.ind = [s.ind EXCEPT ![f] = b]
    BY <1>2, SMT DEF FileSystems, SetInd
  <2>2. /\ t.ind \in [Files -> 0 .. NumBlocks]
        /\ t.ind[f] = b /\ \A g \in Files \ {f} : t.ind[g] = s.ind[g]
    BY <2>1, SMT DEF FileSystems
  <2>3. t = [s EXCEPT !.ind = t.ind]
    BY <1>2, <2>1 DEF SetInd
  <2>4. t \in FileSystems
    BY <2>1, <2>2, <2>3, SMT DEF FileSystems
  <2> QED
    BY <2>1, <2>2, <2>4
<1> QED
  BY <1>1, <1>2

\* An assignment of 0 to a direct place that is 0.
LEMMA Unassigned ==
    ASSUME NEW s \in FileSystems, NEW f \in Files, NEW i \in Directs, s.direct[f][i] = 0
    PROVE  SetDirect(s, f, i, 0) = s
<1>1. [s.direct EXCEPT ![f][i] = 0] = s.direct
  BY SMT DEF FileSystems
<1> QED
  BY <1>1, SMT DEF FileSystems, SetDirect

\* release of a buffer that was read changes nothing that Buffer::read returns.
LEMMA ReleaseFacts ==
    ASSUME NEW s \in FileSystems, NEW b \in Blocks, disk \in [Blocks -> Contents],
           NEW t, t = Release(s, b, Read(Get(s, b), b))
    PROVE  /\ t \in FileSystems
           /\ t.used = s.used /\ t.direct = s.direct /\ t.ind = s.ind
           /\ Get(t, b) \in {Get(s, b), [valid |-> TRUE, data |-> Loaded(s, b)]}
           /\ \A c \in Blocks \ {b} : Get(t, c) = Get(s, c)
           /\ \A c \in Blocks : Loaded(t, c) = Loaded(s, c)
<1>1. PICK x : x = Read(Get(s, b), b)
  OBVIOUS
<1>2. x \in Buffers /\ x.valid /\ x.data = Loaded(s, b)
  BY <1>1, BufferTypes DEF Loaded
<1>3. CASE s.cache[b] = Absent
  <2>1. t = s
    BY <1>3 DEF Release
  <2> QED
    BY <2>1
<1>4. CASE s.cache[b] # Absent
  <2>1. t = WriteLog(s, b, x)
    BY <1>1, <1>4 DEF Release, WriteLog
  <2>2. /\ t \in FileSystems
        /\ t.used = s.used /\ t.direct = s.direct /\ t.ind = s.ind
        /\ Get(t, b) = x /\ \A c \in Blocks \ {b} : Get(t, c) = Get(s, c)
    BY <1>2, <2>1, WriteLogFacts, SMT
  <2>3. Loaded(t, b) = Loaded(s, b)
    BY <1>2, <2>2 DEF Loaded, Read
  <2>4. \A c \in Blocks \ {b} : Loaded(t, c) = Loaded(s, c)
    BY <2>2 DEF Loaded
  <2>5. x = [valid |-> TRUE, data |-> Loaded(s, b)]
    BY <1>2, SMT DEF Buffers
  <2> QED
    BY <2>2, <2>3, <2>4, <2>5
<1> QED
  BY <1>3, <1>4

\* A set of blocks has a least one.
LEMMA Least ==
    ASSUME NEW S \in SUBSET Blocks, S # {}
    PROVE  (CHOOSE x \in S : \A y \in S : x <= y) \in S
<1> DEFINE R == OpToRel(<, Nat)
<1>1. S \subseteq Nat
  BY Numbers
<1>2. IsWellFoundedOn(R, Nat)
  BY NatLessThanWellFounded
<1>3. \E x \in S : \A y \in S : ~ (<<y, x>> \in R)
  <2> HIDE DEF R
  <2> QED
    BY <1>1, <1>2, WFMin
<1>4. \A x, y \in Nat : <<y, x>> \in R <=> y < x
  BY SMT DEF OpToRel
<1> HIDE DEF R
<1>5. PICK x \in S : \A y \in S : ~ (y < x)
  BY <1>1, <1>3, <1>4
<1>6. \A y \in S : x <= y
  BY <1>1, <1>5, SMT
<1> QED
  BY <1>6

\* allocateBlock: nothing has changed, or a block that was free is marked and zero.
LEMMA AllocateFacts ==
    ASSUME NEW s \in FileSystems, NEW a, a = AllocateBlock(s)
    PROVE  \/ a.block = 0 /\ a.to = s
           \/ /\ a.block \in Blocks \ s.used /\ a.to \in FileSystems
              /\ a.to.used = s.used \cup {a.block}
              /\ a.to.direct = s.direct /\ a.to.ind = s.ind
              /\ Get(a.to, a.block) = [valid |-> TRUE, data |-> Zero]
              /\ \A c \in Blocks \ {a.block} : Get(a.to, c) = Get(s, c)
<1> DEFINE free == Blocks \ s.used
<1>1. PICK b : b = CHOOSE x \in free : \A y \in free : x <= y
  OBVIOUS
<1>2. CASE free = {}
  <2>1. a = [block |-> 0, to |-> s]
    BY <1>2 DEF AllocateBlock
  <2> QED
    BY <2>1, SMT
<1>3. CASE free # {}
  <2>1. PICK u, z : u = [s EXCEPT !.used = @ \cup {b}] /\ z = [valid |-> TRUE, data |-> Zero]
    OBVIOUS
  <2>2. a = [block |-> b, to |-> WriteLog(u, b, z)]
    BY <1>1, <1>3, <2>1 DEF AllocateBlock
  <2>3. b \in free
    BY <1>1, <1>3, Least
  <2>4. /\ u \in FileSystems /\ u.used = s.used \cup {b}
        /\ u.direct = s.direct /\ u.ind = s.ind /\ u.cache = s.cache
    BY <2>1, <2>3, SMT DEF FileSystems
  <2>5. z \in Buffers
    BY <2>1, Numbers, SMT DEF Buffers, Contents
  <2>6. a.block = b /\ a.to = WriteLog(u, b, z)
    BY <2>2, SMT
  <2>7. /\ a.to \in FileSystems
        /\ a.to.used = u.used /\ a.to.direct = u.direct /\ a.to.ind = u.ind
        /\ Get(a.to, b) = z /\ \A c \in Blocks \ {b} : Get(a.to, c) = Get(u, c)
    BY <2>3, <2>4, <2>5, <2>6, WriteLogFacts, SMT
  <2>8. \A c \in Blocks : Get(u, c) = Get(s, c)
    BY <2>4 DEF Get
  <2> QED
    BY <2>1, <2>3, <2>4, <2>6, <2>7, <2>8
<1> QED
  BY <1>2, <1>3
-----------------------------------------------------------------------------
(***************************************************************************)
(* The ways to refer to a block.                                           *)
(***************************************************************************)
\* The ways, one after the other.
LEMMA WaysAre ==
    /\ \A i \in Directs : <<"direct", i>> \in Ways
    /\ <<"indirect", 0>> \in Ways
    /\ \A i \in Entries : <<"listed", i>> \in Ways /\ <<"seen", i>> \in Ways
    /\ \A w \in Ways : \/ \E i \in Directs : w = <<"direct", i>>
                       \/ w = <<"indirect", 0>>
                       \/ \E i \in Entries : w = <<"listed", i>> \/ w = <<"seen", i>>
  BY SMT DEF Ways

\* The block each of them refers to.
LEMMA RefersIs ==
    ASSUME NEW s, NEW f
    PROVE  /\ \A i : Refers(s, f, <<"direct", i>>) = s.direct[f][i]
           /\ \A i : Refers(s, f, <<"indirect", i>>) = s.ind[f]
           /\ \A i : Refers(s, f, <<"listed", i>>) = IF s.ind[f] = 0 THEN 0 ELSE Loaded(s, s.ind[f])[i]
           /\ \A i : Refers(s, f, <<"seen", i>>) = IF s.ind[f] = 0 THEN 0 ELSE Get(s, s.ind[f]).data[i]
  BY SMT DEF Refers

LEMMA WayKinds ==
    ASSUME NEW w \in Ways
    PROVE  /\ w[1] \in {"direct", "indirect", "listed", "seen"}
           /\ w[1] = "direct" => w[2] \in Directs /\ w = <<"direct", w[2]>>
           /\ w[1] = "indirect" => w = <<"indirect", 0>>
           /\ w[1] = "listed" => w[2] \in Entries /\ w = <<"listed", w[2]>>
           /\ w[1] = "seen" => w[2] \in Entries /\ w = <<"seen", w[2]>>
  BY SMT DEF Ways

LEMMA DirectWay ==
    ASSUME NEW w \in Ways, w[1] = "direct", NEW f
    PROVE  /\ w[2] \in Directs /\ w = <<"direct", w[2]>>
           /\ \A s : Refers(s, f, w) = s.direct[f][w[2]]
<1>1. \A s : Refers(s, f, w) = s.direct[f][w[2]]
  BY DEF Refers
<1> QED
  BY <1>1, WayKinds

LEMMA IndirectWay ==
    ASSUME NEW w \in Ways, w[1] = "indirect", NEW f
    PROVE  /\ w = <<"indirect", 0>>
           /\ \A s : Refers(s, f, w) = s.ind[f]
<1>1. \A s : Refers(s, f, w) = s.ind[f]
  BY DEF Refers
<1> QED
  BY <1>1, WayKinds

LEMMA ListedWay ==
    ASSUME NEW w \in Ways, w[1] = "listed", NEW f
    PROVE  /\ w[2] \in Entries /\ w = <<"listed", w[2]>>
           /\ \A s : s.ind[f] = 0 => Refers(s, f, w) = 0
           /\ \A s : s.ind[f] # 0 => Refers(s, f, w) = Loaded(s, s.ind[f])[w[2]]
<1>1. \A s : Refers(s, f, w) = IF s.ind[f] = 0 THEN 0 ELSE Loaded(s, s.ind[f])[w[2]]
  BY DEF Refers
<1> QED
  BY <1>1, WayKinds

LEMMA SeenWay ==
    ASSUME NEW w \in Ways, w[1] = "seen", NEW f
    PROVE  /\ w[2] \in Entries /\ w = <<"seen", w[2]>>
           /\ \A s : s.ind[f] = 0 => Refers(s, f, w) = 0
           /\ \A s : s.ind[f] # 0 => Refers(s, f, w) = Get(s, s.ind[f]).data[w[2]]
<1>1. \A s : Refers(s, f, w) = IF s.ind[f] = 0 THEN 0 ELSE Get(s, s.ind[f]).data[w[2]]
  BY DEF Refers
<1> QED
  BY <1>1, WayKinds

\* A way refers to the same block when what it looks at is the same.
LEMMA SameDirect ==
    ASSUME NEW s, NEW t, NEW g, NEW w \in Ways, w[1] = "direct",
           t.direct[g][w[2]] = s.direct[g][w[2]]
    PROVE  Refers(t, g, w) = Refers(s, g, w)
  BY DEF Refers

LEMMA SameIndirect ==
    ASSUME NEW s, NEW t, NEW g, NEW w \in Ways, w[1] # "direct", t.ind[g] = s.ind[g],
           s.ind[g] # 0 => /\ Get(t, s.ind[g]).data = Get(s, s.ind[g]).data
                           /\ Loaded(t, s.ind[g]) = Loaded(s, s.ind[g])
    PROVE  Refers(t, g, w) = Refers(s, g, w)
<1>1. CASE w[1] = "indirect"
  BY <1>1 DEF Refers
<1>2. CASE w[1] = "listed"
  BY <1>2 DEF Refers
<1>3. CASE w[1] = "seen"
  BY <1>3 DEF Refers
<1> QED
  BY <1>1, <1>2, <1>3, WayKinds

\* The entries of an indirect block that is zero.
LEMMA ZeroRefers ==
    ASSUME NEW t, NEW g, NEW w \in Ways, w[1] \in {"listed", "seen"},
           Get(t, t.ind[g]).data = Zero /\ Loaded(t, t.ind[g]) = Zero
    PROVE  Refers(t, g, w) = 0
<1>1. Zero[w[2]] = 0
  BY WayKinds, Numbers
<1> QED
  BY <1>1 DEF Refers

\* Only an entry of the indirect block that is listed and seen is found twice.
LEMMA AgreeIs ==
    /\ \A i, j : Agree(<<"direct", i>>, <<"direct", j>>) <=> i = j
    /\ \A i, j : Agree(<<"seen", i>>, <<"seen", j>>) <=> i = j
    /\ \A i, j : ~ Agree(<<"direct", i>>, <<"indirect", j>>)
    /\ \A i, j : ~ Agree(<<"direct", i>>, <<"seen", j>>)
    /\ \A i, j : ~ Agree(<<"indirect", i>>, <<"seen", j>>)
    /\ \A i, j : ~ Agree(<<"indirect", i>>, <<"listed", j>>)
    /\ \A i : Agree(<<"listed", i>>, <<"seen", i>>) /\ Agree(<<"seen", i>>, <<"listed", i>>)
  BY SMT DEF Agree

\* What is referred to is a block, and is marked.
LEMMA References ==
    ASSUME NEW s, NEW n, Good(s, n), NEW f \in Files, NEW w \in Ways, Refers(s, f, w) # 0
    PROVE  Refers(s, f, w) \in Blocks /\ Refers(s, f, w) \in s.used
<1>1. s.used \subseteq Blocks
  BY SMT DEF Good, FileSystems
<1> QED
  BY <1>1 DEF Good, Marked

\* An indirect block is a block, is marked, is the indirect block of one file and is
\* found in no other way.
LEMMA IndirectBlock ==
    ASSUME NEW s, NEW n, Good(s, n), NEW f \in Files, s.ind[f] # 0
    PROVE  /\ s.ind[f] \in Blocks /\ s.ind[f] \in s.used
           /\ \A g \in Files : g # f => s.ind[g] # s.ind[f]
           /\ \A g \in Files, w \in Ways : w[1] # "indirect" => Refers(s, g, w) # s.ind[f]
<1>1. PICK v \in Ways : v = <<"indirect", 0>> /\ v[1] = "indirect"
  BY WaysAre
<1>2. \A g : Refers(s, g, v) = s.ind[g]
  BY <1>1, IndirectWay
<1>3. s.ind[f] \in Blocks /\ s.ind[f] \in s.used
  BY <1>2, References
<1>4. Unshared(s)
  BY DEF Good
<1>5. \A g \in Files : g # f => s.ind[g] # s.ind[f]
  BY <1>2, <1>4, SMT DEF Unshared
<1>6. ASSUME NEW g \in Files, NEW w \in Ways, w[1] # "indirect", Refers(s, g, w) = s.ind[f]
      PROVE  FALSE
  <2>1. Agree(v, w)
    BY <1>2, <1>4, <1>6, SMT DEF Unshared
  <2> QED
    BY <1>1, <1>6, <2>1 DEF Agree
<1> QED
  BY <1>3, <1>5, <1>6

\* A block that is marked and that nothing refers to.
Spare(s, b) == b \in Blocks /\ b \in s.used /\ \A f \in Files, w \in Ways : Refers(s, f, w) # b

\* The files of t refer to what those of s do, to nothing, or to b in the ways of N.
Grows(s, t, f, b, N) ==
    \A g \in Files, w \in Ways : \/ Refers(t, g, w) \in {Refers(s, g, w), 0}
                                 \/ g = f /\ w \in N /\ Refers(t, g, w) = b

\* When b is spare, and the ways agree, no block is shared, and what files refer to
\* is marked.
LEMMA Grown ==
    ASSUME NEW s, NEW n, Good(s, n), NEW t, NEW f \in Files, NEW b, NEW N,
           Spare(s, b), t.used = s.used, \A v, w \in N : Agree(v, w), Grows(s, t, f, b, N)
    PROVE  Unshared(t) /\ Marked(t)
<1>0. Unshared(s) /\ Marked(s)
  BY DEF Good
<1>1. Marked(t)
  BY <1>0 DEF Marked, Spare, Grows
<1>2. Unshared(t)
  <2> SUFFICES ASSUME NEW g \in Files, NEW h \in Files, NEW v \in Ways, NEW w \in Ways,
                      Refers(t, g, v) # 0, Refers(t, g, v) = Refers(t, h, w)
               PROVE  g = h /\ Agree(v, w)
    BY SMT DEF Unshared
  <2>1. CASE Refers(t, g, v) = b
    <3>1. Refers(s, g, v) # b /\ Refers(s, h, w) # b
      BY DEF Spare
    <3>2. g = f /\ v \in N
      BY <2>1, <3>1 DEF Grows
    <3>3. h = f /\ w \in N
      BY <2>1, <3>1 DEF Grows
    <3> QED
      BY <3>2, <3>3
  <2>2. CASE Refers(t, g, v) # b
    <3>1. Refers(t, g, v) = Refers(s, g, v) /\ Refers(t, h, w) = Refers(s, h, w)
      BY <2>2 DEF Grows
    <3>2. Refers(s, g, v) # 0 /\ Refers(s, g, v) = Refers(s, h, w)
      BY <3>1
    <3> QED
      BY <1>0, <3>2, SMT DEF Unshared
  <2> QED
    BY <2>1, <2>2
<1> QED
  BY <1>1, <1>2
\* The way bmap finds the block at a place.
Way(bn) == IF bn < NUM_DIRECT_BLOCKS THEN <<"direct", bn>> ELSE <<"seen", bn - NUM_DIRECT_BLOCKS>>

LEMMA WayIn ==
    ASSUME NEW bn \in Places
    PROVE  /\ Way(bn) \in Ways /\ Way(bn)[1] \in {"direct", "seen"}
           /\ bn < NUM_DIRECT_BLOCKS <=> Way(bn)[1] = "direct"
<1>1. CASE bn < NUM_DIRECT_BLOCKS
  <2>1. bn \in Directs
    BY <1>1, FileDataAssumption, SMT DEF Places, Directs, MAX_FILE
  <2> QED
    BY <1>1, <2>1, WaysAre DEF Way
<1>2. CASE ~ (bn < NUM_DIRECT_BLOCKS)
  <2>1. bn - NUM_DIRECT_BLOCKS \in Entries
    BY <1>2, FileDataAssumption, SMT DEF Places, Entries, MAX_FILE
  <2> QED
    BY <1>2, <2>1, WaysAre DEF Way
<1> QED
  BY <1>1, <1>2

LEMMA AtWay ==
    ASSUME NEW s, NEW f, NEW bn
    PROVE  /\ bn < NUM_DIRECT_BLOCKS => Refers(s, f, Way(bn)) = s.direct[f][bn]
           /\ ~ (bn < NUM_DIRECT_BLOCKS) =>
                 /\ s.ind[f] = 0 => Refers(s, f, Way(bn)) = 0
                 /\ s.ind[f] # 0 => Refers(s, f, Way(bn)) = Get(s, s.ind[f]).data[bn - NUM_DIRECT_BLOCKS]
  BY RefersIs, SMT DEF Way

\* Kept in terms of that way.
InMemory(s, f, bn) == bn < NUM_DIRECT_BLOCKS \/ (s.ind[f] # 0 /\ Get(s, s.ind[f]).valid)
KeptAt(s, n, f, bn) ==
    bn < n /\ InMemory(s, f, bn) =>
        Refers(s, f, Way(bn)) # 0 /\ Loaded(s, Refers(s, f, Way(bn))) = <<f, bn>>

LEMMA KeptIs ==
    ASSUME NEW s, NEW n
    PROVE  Kept(s, n) <=> \A f \in Files, bn \in Places : KeptAt(s, n[f], f, bn)
<1> SUFFICES ASSUME NEW f \in Files, NEW bn \in Places
             PROVE  DirectKept(s, n[f], f, bn) /\ EntryKept(s, n[f], f, bn)
                       <=> KeptAt(s, n[f], f, bn)
  BY DEF Kept
<1>1. CASE bn < NUM_DIRECT_BLOCKS
  <2>1. ~ (bn >= NUM_DIRECT_BLOCKS)
    BY <1>1, FileDataAssumption, SMT DEF Places
  <2>2. Refers(s, f, Way(bn)) = s.direct[f][bn]
    BY <1>1, RefersIs, SMT DEF Way
  <2> QED
    BY <1>1, <2>1, <2>2 DEF DirectKept, EntryKept, KeptAt, InMemory
<1>2. CASE ~ (bn < NUM_DIRECT_BLOCKS)
  <2>1. bn >= NUM_DIRECT_BLOCKS
    BY <1>2, FileDataAssumption, SMT DEF Places
  <2>2. s.ind[f] # 0 => Refers(s, f, Way(bn)) = Get(s, s.ind[f]).data[bn - NUM_DIRECT_BLOCKS]
    BY <1>2, RefersIs, SMT DEF Way
  <2> QED
    BY <1>2, <2>1, <2>2 DEF DirectKept, EntryKept, KeptAt, InMemory
<1> QED
  BY <1>1, <1>2

\* The references of t to blocks whose contents have not changed are kept.
LEMMA KeptStays ==
    ASSUME NEW s, NEW n, Good(s, n), NEW t, NEW f \in Files, NEW bn \in Places,
           InMemory(t, f, bn) => InMemory(s, f, bn),
           Refers(s, f, Way(bn)) # 0 =>
              /\ Refers(t, f, Way(bn)) = Refers(s, f, Way(bn))
              /\ Loaded(t, Refers(s, f, Way(bn))) = Loaded(s, Refers(s, f, Way(bn)))
    PROVE  KeptAt(t, n[f], f, bn)
<1>1. KeptAt(s, n[f], f, bn)
  BY KeptIs DEF Good
<1> QED
  BY <1>1 DEF KeptAt
-----------------------------------------------------------------------------
(***************************************************************************)
(* The steps of bmap.                                                      *)
(***************************************************************************)
\* allocateBlock, when it finds a block.
LEMMA AllocateGood ==
    ASSUME NEW s, NEW n, Good(s, n), NEW a, a = AllocateBlock(s), a.block # 0
    PROVE  /\ Good(a.to, n) /\ Spare(a.to, a.block)
           /\ a.to.direct = s.direct /\ a.to.ind = s.ind
           /\ Get(a.to, a.block) = [valid |-> TRUE, data |-> Zero]
           /\ \A f \in Files : s.ind[f] # 0 => Get(a.to, s.ind[f]) = Get(s, s.ind[f])
<1>0. s \in FileSystems
  BY DEF Good
<1>1. PICK b, t : b = a.block /\ t = a.to
  OBVIOUS
<1>2. /\ b \in Blocks \ s.used /\ t \in FileSystems
      /\ t.used = s.used \cup {b}
      /\ t.direct = s.direct /\ t.ind = s.ind
      /\ Get(t, b) = [valid |-> TRUE, data |-> Zero]
      /\ \A c \in Blocks \ {b} : Get(t, c) = Get(s, c)
  <2>1. /\ a.block \in Blocks \ s.used /\ a.to \in FileSystems
        /\ a.to.used = s.used \cup {a.block}
        /\ a.to.direct = s.direct /\ a.to.ind = s.ind
        /\ Get(a.to, a.block) = [valid |-> TRUE, data |-> Zero]
        /\ \A c \in Blocks \ {a.block} : Get(a.to, c) = Get(s, c)
    BY <1>0, AllocateFacts
  <2> QED
    BY <1>1, <2>1
<1>3. \A c \in Blocks \ {b} : Loaded(t, c) = Loaded(s, c)
  BY <1>2 DEF Loaded
<1>4. \A f \in Files, w \in Ways :
         Refers(s, f, w) # 0 => /\ Refers(s, f, w) \in Blocks \ {b}
                                /\ Loaded(t, Refers(s, f, w)) = Loaded(s, Refers(s, f, w))
  <2> SUFFICES ASSUME NEW f \in Files, NEW w \in Ways, Refers(s, f, w) # 0
               PROVE  /\ Refers(s, f, w) \in Blocks \ {b}
                      /\ Loaded(t, Refers(s, f, w)) = Loaded(s, Refers(s, f, w))
    OBVIOUS
  <2>1. Refers(s, f, w) \in Blocks /\ Refers(s, f, w) \in s.used
    BY References
  <2>2. Refers(s, f, w) \in Blocks \ {b}
    BY <1>2, <2>1
  <2> QED
    BY <1>3, <2>2
<1>5. \A f \in Files : s.ind[f] # 0 =>
         /\ Get(t, s.ind[f]) = Get(s, s.ind[f])
         /\ Loaded(t, s.ind[f]) = Loaded(s, s.ind[f])
  <2> SUFFICES ASSUME NEW f \in Files, s.ind[f] # 0
               PROVE  s.ind[f] \in Blocks \ {b}
    BY <1>2, <1>3
  <2>1. Refers(s, f, <<"indirect", 0>>) = s.ind[f] /\ <<"indirect", 0>> \in Ways
    BY RefersIs, WaysAre, SMT
  <2> QED
    BY <1>4, <2>1
<1>6. \A f \in Files, w \in Ways : Refers(t, f, w) = Refers(s, f, w)
  <2> SUFFICES ASSUME NEW f \in Files, NEW w \in Ways
               PROVE  Refers(t, f, w) = Refers(s, f, w)
    OBVIOUS
  <2> QED
    BY <1>2, <1>5 DEF Refers
<1>7. Spare(t, b)
  <2>1. \A f \in Files, w \in Ways : Refers(s, f, w) # b
    BY <1>2, <1>4, Numbers
  <2> QED
    BY <1>2, <1>6, <2>1 DEF Spare
<1>8. Unshared(t) /\ Marked(t)
  BY <1>2, <1>6, SMT DEF Good, Unshared, Marked
<1>9. Listed(t) /\ Sized(t, n)
  BY <1>2, <1>5 DEF Good, Listed, Sized
<1>10. Kept(t, n)
  <2> SUFFICES ASSUME NEW f \in Files, NEW bn \in Places
               PROVE  KeptAt(t, n[f], f, bn)
    BY KeptIs
  <2>1. InMemory(t, f, bn) => InMemory(s, f, bn)
    BY <1>2, <1>5 DEF InMemory
  <2> QED
    BY <1>4, <1>6, <2>1, WayIn, KeptStays
<1> QED
  BY <1>1, <1>2, <1>5, <1>7, <1>8, <1>9, <1>10 DEF Good

\* bmap puts a spare block into a direct place that has none.
LEMMA DirectGood ==
    ASSUME NEW s, NEW n, Good(s, n), NEW f \in Files, NEW i \in Directs, NEW b, Spare(s, b),
           s.direct[f][i] = 0, NEW t \in FileSystems,
           t.used = s.used, t.ind = s.ind, t.direct[f][i] = b,
           \A g \in Files, j \in Directs : ~ (g = f /\ j = i) => t.direct[g][j] = s.direct[g][j],
           \A c : Get(t, c) = Get(s, c)
    PROVE  Good(t, n)
<1>3. \A c : Loaded(t, c) = Loaded(s, c)
  BY DEF Loaded
<1>4. \A g \in Files, w \in Ways : \/ Refers(t, g, w) = Refers(s, g, w)
                                   \/ g = f /\ w = <<"direct", i>> /\ Refers(t, g, w) = b
  <2> SUFFICES ASSUME NEW g \in Files, NEW w \in Ways
               PROVE  \/ Refers(t, g, w) = Refers(s, g, w)
                      \/ g = f /\ w = <<"direct", i>> /\ Refers(t, g, w) = b
    OBVIOUS
  <2>1. CASE w[1] = "direct" /\ g = f /\ w[2] = i
    <3>1. w = <<"direct", w[2]>> /\ Refers(t, g, w) = t.direct[g][w[2]]
      BY <2>1, DirectWay, SMT
    <3> QED
      BY <2>1, <3>1
  <2>2. CASE w[1] = "direct" /\ ~ (g = f /\ w[2] = i)
    <3>1. w[2] \in Directs
      BY <2>2, WayKinds
    <3>2. t.direct[g][w[2]] = s.direct[g][w[2]]
      BY <2>2, <3>1
    <3> QED
      BY <2>2, <3>2, SameDirect, SMT
  <2>3. CASE w[1] # "direct"
    <3>1. /\ t.ind[g] = s.ind[g] /\ Get(t, s.ind[g]).data = Get(s, s.ind[g]).data
          /\ Loaded(t, s.ind[g]) = Loaded(s, s.ind[g])
      BY <1>3
    <3> QED
      BY <2>3, <3>1, SameIndirect, SMT
  <2> QED
    BY <2>1, <2>2, <2>3
<1>5. Refers(s, f, <<"direct", i>>) = 0
  BY RefersIs, SMT
<1>6. Unshared(t) /\ Marked(t)
  <2>1. PICK N : N = {<<"direct", i>>}
    OBVIOUS
  <2>2. \A v, w \in N : Agree(v, w)
    BY <2>1 DEF Agree
  <2>3. Grows(s, t, f, b, N)
    BY <1>4, <2>1 DEF Grows
  <2> QED
    BY <2>2, <2>3, Grown
<1>7. Listed(t) /\ Sized(t, n)
  BY <1>3 DEF Good, Listed, Sized
<1>8. Kept(t, n)
  <2> SUFFICES ASSUME NEW g \in Files, NEW bn \in Places
               PROVE  KeptAt(t, n[g], g, bn)
    BY KeptIs
  <2>1. Way(bn) \in Ways
    BY WayIn
  <2>2. Refers(s, g, Way(bn)) # 0 => Refers(t, g, Way(bn)) = Refers(s, g, Way(bn))
    BY <1>4, <1>5, <2>1
  <2>3. InMemory(t, g, bn) => InMemory(s, g, bn)
    BY <1>3 DEF InMemory
  <2> QED
    BY <1>3, <2>2, <2>3, KeptStays
<1> QED
  BY <1>6, <1>7, <1>8 DEF Good

\* It gives the file an indirect block, a spare one that is zero.
LEMMA IndirectGood ==
    ASSUME NEW s, NEW n, Good(s, n), NEW f \in Files, NEW b, Spare(s, b),
           Get(s, b).data = Zero, Loaded(s, b) = Zero,
           s.ind[f] = 0, NEW t \in FileSystems,
           t.used = s.used, t.direct = s.direct, t.ind[f] = b,
           \A g \in Files \ {f} : t.ind[g] = s.ind[g],
           \A c : Get(t, c) = Get(s, c)
    PROVE  Good(t, n)
<1>0. b # 0
  BY Numbers DEF Spare
<1>3. \A c : Loaded(t, c) = Loaded(s, c)
  BY DEF Loaded
<1>5. \A g \in Files, w \in Ways : \/ Refers(t, g, w) \in {Refers(s, g, w), 0}
                                   \/ g = f /\ w = <<"indirect", 0>> /\ Refers(t, g, w) = b
  <2> SUFFICES ASSUME NEW g \in Files, NEW w \in Ways
               PROVE  \/ Refers(t, g, w) \in {Refers(s, g, w), 0}
                      \/ g = f /\ w = <<"indirect", 0>> /\ Refers(t, g, w) = b
    OBVIOUS
  <2>1. CASE w[1] = "direct"
    BY <2>1, SameDirect, SMT
  <2>2. CASE w[1] # "direct" /\ g # f
    <3>1. /\ t.ind[g] = s.ind[g] /\ Get(t, s.ind[g]).data = Get(s, s.ind[g]).data
          /\ Loaded(t, s.ind[g]) = Loaded(s, s.ind[g])
      BY <1>3, <2>2
    <3> QED
      BY <2>2, <3>1, SameIndirect, SMT
  <2>3. CASE w[1] = "indirect" /\ g = f
    BY <2>3, IndirectWay
  <2>4. CASE w[1] \in {"listed", "seen"} /\ g = f
    BY <1>3, <2>4, ZeroRefers, SMT
  <2> QED
    BY <2>1, <2>2, <2>3, <2>4, WayKinds
<1>6. Unshared(t) /\ Marked(t)
  <2>1. PICK N : N = {<<"indirect", 0>>}
    OBVIOUS
  <2>2. \A v, w \in N : Agree(v, w)
    BY <2>1 DEF Agree
  <2>3. Grows(s, t, f, b, N)
    BY <1>5, <2>1 DEF Grows
  <2> QED
    BY <2>2, <2>3, Grown
<1>7. Listed(t) /\ Sized(t, n)
  BY <1>0, <1>3, Numbers, SMT DEF Good, Listed, Sized
<1>8. Kept(t, n)
  <2> SUFFICES ASSUME NEW g \in Files, NEW bn \in Places
               PROVE  KeptAt(t, n[g], g, bn)
    BY KeptIs
  <2>1. CASE g # f \/ bn < NUM_DIRECT_BLOCKS
    <3>1. Refers(t, g, Way(bn)) = Refers(s, g, Way(bn))
      <4>1. Way(bn) \in Ways /\ (bn < NUM_DIRECT_BLOCKS <=> Way(bn)[1] = "direct")
        BY WayIn
      <4>2. CASE bn < NUM_DIRECT_BLOCKS
        BY <4>1, <4>2, SameDirect, SMT
      <4>3. CASE ~ (bn < NUM_DIRECT_BLOCKS)
        <5>1. /\ t.ind[g] = s.ind[g] /\ Get(t, s.ind[g]).data = Get(s, s.ind[g]).data
              /\ Loaded(t, s.ind[g]) = Loaded(s, s.ind[g])
          BY <1>3, <2>1, <4>3
        <5> QED
          BY <4>1, <4>3, <5>1, SameIndirect, SMT
      <4> QED
        BY <4>2, <4>3
    <3>2. InMemory(t, g, bn) => InMemory(s, g, bn)
      BY <1>3, <2>1 DEF InMemory
    <3> QED
      BY <1>3, <3>1, <3>2, KeptStays
  <2>2. CASE g = f /\ ~ (bn < NUM_DIRECT_BLOCKS)
    <3>1. ~ (n[f] > NUM_DIRECT_BLOCKS)
      BY DEF Good, Sized
    <3>2. n[f] \in Nat
      BY FileDataAssumption, SMT DEF Good, MAX_FILE
    <3>3. ~ (bn < n[f])
      BY <2>2, <3>1, <3>2, FileDataAssumption, SMT DEF Places
    <3> QED
      BY <2>2, <3>3 DEF KeptAt
  <2> QED
    BY <2>1, <2>2
<1> QED
  BY <1>6, <1>7, <1>8 DEF Good

\* An entry of a buffer that holds a list.
LEMMA EntryBuffer ==
    ASSUME NEW buf \in Buffers, buf.data \in Lists, NEW i \in Entries, NEW b \in Blocks,
           NEW x, x = SetEntry(buf, i, b)
    PROVE  /\ x \in Buffers /\ x.valid = buf.valid /\ x.data \in Lists
           /\ x.data[i] = b /\ \A j \in Entries : j # i => x.data[j] = buf.data[j]
<1>1. x.valid = buf.valid /\ x.data = [buf.data EXCEPT ![i] = b]
  BY SMT DEF Buffers, SetEntry
<1>2. x.data \in Lists /\ x.data[i] = b /\ \A j \in Entries : j # i => x.data[j] = buf.data[j]
  BY <1>1, Numbers, SMT DEF Lists
<1>3. x = [buf EXCEPT !.data = x.data]
  BY <1>1 DEF SetEntry
<1>4. x \in Buffers
  BY <1>2, <1>3, SMT DEF Buffers, Contents
<1> QED
  BY <1>1, <1>2, <1>4

\* bmap enters a spare block into the indirect block.
LEMMA EntryGood ==
    ASSUME NEW s, NEW n, Good(s, n), NEW f \in Files, NEW i \in Entries, NEW b, Spare(s, b),
           NEW J, J = s.ind[f], J # 0, NEW x, x \in Buffers, x.data \in Lists,
           x.valid = Get(s, J).valid,
           Get(s, J).data[i] = 0, x.data[i] = b,
           \A j \in Entries : j # i => x.data[j] = Get(s, J).data[j],
           NEW t, t = WriteLog(s, J, x)
    PROVE  Good(t, n) /\ t.ind = s.ind /\ Get(t, J) = x
<1>0. s \in FileSystems /\ disk \in [Blocks -> Contents]
  BY DEF Good
<1>1. /\ J \in Blocks /\ \A g \in Files : g # f => s.ind[g] # J
      /\ \A g \in Files, w \in Ways : w[1] # "indirect" => Refers(s, g, w) # J
  BY IndirectBlock, SMT
<1>2. /\ t \in FileSystems
      /\ t.used = s.used /\ t.direct = s.direct /\ t.ind = s.ind
      /\ Get(t, J) = x /\ \A c \in Blocks \ {J} : Get(t, c) = Get(s, c)
  BY <1>0, <1>1, WriteLogFacts, SMT
<1>3. \A c \in Blocks \ {J} : Loaded(t, c) = Loaded(s, c)
  BY <1>2 DEF Loaded
<1>4. Loaded(t, J) = IF x.valid THEN x.data ELSE Loaded(s, J)
  BY <1>2 DEF Loaded, Read
<1>5. x.valid => Loaded(s, J) = Get(s, J).data
  BY DEF Loaded, Read
<1>6. \A g \in Files : g # f /\ s.ind[g] # 0 =>
         /\ Get(t, s.ind[g]) = Get(s, s.ind[g])
         /\ Loaded(t, s.ind[g]) = Loaded(s, s.ind[g])
  BY <1>1, <1>2, <1>3, IndirectBlock
<1>7. \A g \in Files, w \in Ways :
         \/ Refers(t, g, w) = Refers(s, g, w)
         \/ /\ g = f /\ w \in {<<"listed", i>>, <<"seen", i>>} /\ Refers(t, g, w) = b
            /\ w = <<"seen", i>> => Refers(s, g, w) = 0
  <2> SUFFICES ASSUME NEW g \in Files, NEW w \in Ways
               PROVE  \/ Refers(t, g, w) = Refers(s, g, w)
                      \/ /\ g = f /\ w \in {<<"listed", i>>, <<"seen", i>>} /\ Refers(t, g, w) = b
                         /\ w = <<"seen", i>> => Refers(s, g, w) = 0
    OBVIOUS
  <2>1. CASE w[1] = "direct"
    BY <1>2, <2>1, SameDirect, SMT
  <2>2. CASE w[1] # "direct" /\ g # f
    BY <1>2, <1>6, <2>2, SameIndirect, SMT
  <2>3. CASE w[1] = "indirect" /\ g = f
    BY <1>2, <2>3, IndirectWay, SMT
  <2>4. CASE w[1] = "listed" /\ g = f
    <3>1. /\ w[2] \in Entries /\ w = <<"listed", w[2]>> /\ w # <<"seen", i>>
          /\ Refers(s, g, w) = Loaded(s, J)[w[2]] /\ Refers(t, g, w) = Loaded(t, J)[w[2]]
      <4>1. t.ind[g] = J /\ s.ind[g] = J
        BY <1>2, <2>4
      <4> QED
        BY <2>4, <4>1, ListedWay, SMT
    <3>2. CASE ~ x.valid
      BY <1>4, <3>1, <3>2
    <3>3. CASE x.valid /\ w[2] = i
      BY <1>4, <2>4, <3>1, <3>3
    <3>4. CASE x.valid /\ w[2] # i
      BY <1>4, <1>5, <3>1, <3>4, SMT
    <3> QED
      BY <3>2, <3>3, <3>4
  <2>5. CASE w[1] = "seen" /\ g = f
    <3>1. /\ w[2] \in Entries /\ w = <<"seen", w[2]>>
          /\ Refers(s, g, w) = Get(s, J).data[w[2]] /\ Refers(t, g, w) = x.data[w[2]]
      <4>1. t.ind[g] = J /\ s.ind[g] = J /\ Get(t, J) = x
        BY <1>2, <2>5
      <4> QED
        BY <2>5, <4>1, SeenWay, SMT
    <3> QED
      BY <2>5, <3>1
  <2> QED
    BY <2>1, <2>2, <2>3, <2>4, <2>5, WayKinds
<1>8. Unshared(t) /\ Marked(t)
  <2>1. PICK N : N = {<<"listed", i>>, <<"seen", i>>}
    OBVIOUS
  <2>2. \A v, w \in N : Agree(v, w)
    BY <2>1, AgreeIs, SMT DEF Agree
  <2>3. Grows(s, t, f, b, N)
    BY <1>7, <2>1 DEF Grows
  <2> QED
    BY <1>2, <2>2, <2>3, Grown
<1>9. Listed(t) /\ Sized(t, n)
  <2>1. Sized(t, n)
    BY <1>2 DEF Good, Sized
  <2>2. Loaded(t, J) \in Lists /\ Get(t, J).data \in Lists
    BY <1>2, <1>4 DEF Good, Listed
  <2>3. Listed(t)
    BY <1>2, <1>6, <2>2, SMT DEF Good, Listed
  <2> QED
    BY <2>1, <2>3
<1>10. Kept(t, n)
  <2> SUFFICES ASSUME NEW g \in Files, NEW bn \in Places
               PROVE  KeptAt(t, n[g], g, bn)
    BY KeptIs
  <2>1. Way(bn) \in Ways /\ Way(bn)[1] \in {"direct", "seen"}
    BY WayIn
  <2>2. InMemory(t, g, bn) => InMemory(s, g, bn)
    BY <1>2, <1>6 DEF InMemory
  <2>3. ASSUME Refers(s, g, Way(bn)) # 0
        PROVE  /\ Refers(t, g, Way(bn)) = Refers(s, g, Way(bn))
               /\ Loaded(t, Refers(s, g, Way(bn))) = Loaded(s, Refers(s, g, Way(bn)))
    <3>1. Way(bn) # <<"listed", i>>
      BY <2>1, SMT
    <3>2. Refers(t, g, Way(bn)) = Refers(s, g, Way(bn))
      BY <1>7, <2>1, <2>3, <3>1
    <3>3. Refers(s, g, Way(bn)) \in Blocks \ {J}
      BY <1>1, <2>1, <2>3, References
    <3> QED
      BY <1>3, <3>2, <3>3
  <2> QED
    BY <2>2, <2>3, KeptStays
<1> QED
  BY <1>0, <1>2, <1>8, <1>9, <1>10 DEF Good

\* bmap at a direct place.
LEMMA BmapDirectGood ==
    ASSUME NEW s, NEW n, Good(s, n), NEW f \in Files, NEW i \in Directs,
           NEW r, r = BmapDirect(s, f, i)
    PROVE  Good(r.to, n) /\ r.block = r.to.direct[f][i]
<1>0. s \in FileSystems
  BY DEF Good
<1>1. CASE s.direct[f][i] # 0
  <2>1. r = [block |-> s.direct[f][i], to |-> s]
    BY <1>1 DEF BmapDirect
  <2>2. r.block = s.direct[f][i] /\ r.to = s
    BY <2>1, SMT
  <2> QED
    BY <2>2
<1>2. CASE s.direct[f][i] = 0
  <2>1. PICK a : a = AllocateBlock(s)
    OBVIOUS
  <2>2. PICK t : t = SetDirect(a.to, f, i, a.block)
    OBVIOUS
  <2>3. r = [block |-> a.block, to |-> t]
    BY <1>2, <2>1, <2>2 DEF BmapDirect, SetDirect
  <2>4. r.block = a.block /\ r.to = t
    BY <2>3, SMT
  <2>5. CASE a.block = 0
    <3>1. a.to = s
      BY <1>0, <2>1, <2>5, AllocateFacts, Numbers
    <3>2. t = s
      BY <1>0, <1>2, <2>2, <2>5, <3>1, Unassigned, SMT
    <3> QED
      BY <1>2, <2>4, <2>5, <3>2
  <2>6. CASE a.block # 0
    <3>1. PICK u, b : u = a.to /\ b = a.block
      OBVIOUS
    <3>2. Good(u, n) /\ Spare(u, b) /\ u.direct[f][i] = 0
      BY <1>2, <2>1, <2>6, <3>1, AllocateGood
    <3>3. u \in FileSystems /\ b \in 0 .. NumBlocks
      BY <3>2, Numbers DEF Good, Spare
    <3>4. t = SetDirect(u, f, i, b)
      BY <2>2, <3>1
    <3>5. /\ t \in FileSystems
          /\ t.used = u.used /\ t.ind = u.ind /\ t.cache = u.cache
          /\ t.direct[f][i] = b
          /\ \A g \in Files, j \in Directs :
                ~ (g = f /\ j = i) => t.direct[g][j] = u.direct[g][j]
      BY <3>3, <3>4, InodeFields, SMT
    <3>6. \A c : Get(t, c) = Get(u, c)
      BY <3>5 DEF Get
    <3>7. Good(t, n)
      BY <3>2, <3>5, <3>6, DirectGood, SMT
    <3> QED
      BY <2>4, <3>1, <3>5, <3>7
  <2> QED
    BY <2>5, <2>6
<1> QED
  BY <1>1, <1>2

\* bmap at a place that the indirect block lists, when there is one.
LEMMA BmapEntryGood ==
    ASSUME NEW s, NEW n, Good(s, n), NEW f \in Files, NEW i \in Entries, s.ind[f] # 0,
           NEW r, r = BmapEntry(s, f, i)
    PROVE  Good(r.to, n) /\ r.to.ind = s.ind /\ r.block = Get(r.to, s.ind[f]).data[i]
<1>1. PICK J, buf, a : J = s.ind[f] /\ buf = Get(s, J) /\ a = AllocateBlock(s)
  OBVIOUS
<1>2. CASE buf.data[i] # 0 \/ a.block = 0
  <2>1. r = [block |-> buf.data[i], to |-> s]
    BY <1>1, <1>2 DEF BmapEntry
  <2>2. r.block = buf.data[i] /\ r.to = s
    BY <2>1, SMT
  <2> QED
    BY <1>1, <2>2
<1>3. CASE buf.data[i] = 0 /\ a.block # 0
  <2>1. PICK x, u, b, t : /\ x = SetEntry(buf, i, b) /\ u = a.to /\ b = a.block
                          /\ t = WriteLog(u, J, x)
    OBVIOUS
  <2>2. r = [block |-> b, to |-> t]
    BY <1>1, <1>3, <2>1 DEF BmapEntry, SetEntry
  <2>3. r.block = b /\ r.to = t
    BY <2>2, SMT
  <2>4. Good(u, n) /\ Spare(u, b) /\ u.ind = s.ind /\ Get(u, J) = buf
    BY <1>1, <1>3, <2>1, AllocateGood
  <2>5. buf.data \in Lists
    BY <1>1 DEF Good, Listed
  <2>6. buf \in Buffers /\ b \in Blocks
    BY <1>1, <2>4, IndirectBlock, BufferTypes, SMT DEF Good, Spare
  <2>7. /\ x \in Buffers /\ x.valid = buf.valid /\ x.data \in Lists
        /\ x.data[i] = b /\ \A j \in Entries : j # i => x.data[j] = buf.data[j]
    BY <2>1, <2>5, <2>6, EntryBuffer, SMT
  <2>8. Good(t, n) /\ t.ind = u.ind /\ Get(t, J) = x
    BY <1>1, <1>3, <2>1, <2>4, <2>7, EntryGood, SMT
  <2> QED
    BY <1>1, <2>3, <2>4, <2>7, <2>8
<1> QED
  BY <1>2, <1>3

\* The same when there may be none.
LEMMA BmapIndirectGood ==
    ASSUME NEW s, NEW n, Good(s, n), NEW f \in Files, NEW i \in Entries,
           NEW r, r = BmapIndirect(s, f, i)
    PROVE  /\ Good(r.to, n)
           /\ r.block # 0 => r.to.ind[f] # 0 /\ r.block = Get(r.to, r.to.ind[f]).data[i]
<1>1. PICK a : a = AllocateBlock(s)
  OBVIOUS
<1>2. CASE s.ind[f] # 0
  <2>1. r = BmapEntry(s, f, i)
    BY <1>2 DEF BmapIndirect
  <2> QED
    BY <1>2, <2>1, BmapEntryGood, SMT
<1>3. CASE s.ind[f] = 0 /\ a.block = 0
  <2>1. r = [block |-> 0, to |-> s]
    BY <1>1, <1>3 DEF BmapIndirect
  <2>2. r.block = 0 /\ r.to = s
    BY <2>1, SMT
  <2> QED
    BY <2>2
<1>4. CASE s.ind[f] = 0 /\ a.block # 0
  <2>1. PICK u, b, t : u = a.to /\ b = a.block /\ t = SetInd(u, f, b)
    OBVIOUS
  <2>2. r = BmapEntry(t, f, i)
    BY <1>1, <1>4, <2>1 DEF BmapIndirect, SetInd
  <2>3. Good(u, n) /\ Spare(u, b) /\ u.ind = s.ind /\ Get(u, b) = [valid |-> TRUE, data |-> Zero]
    BY <1>1, <1>4, <2>1, AllocateGood
  <2>4. Get(u, b).data = Zero /\ Loaded(u, b) = Zero
    BY <2>3, SMT DEF Loaded, Read
  <2>5. u \in FileSystems /\ b \in 0 .. NumBlocks /\ b # 0
    BY <2>3, Numbers DEF Good, Spare
  <2>6. /\ t \in FileSystems
        /\ t.used = u.used /\ t.direct = u.direct /\ t.cache = u.cache
        /\ t.ind[f] = b /\ \A g \in Files \ {f} : t.ind[g] = u.ind[g]
    BY <2>1, <2>5, InodeFields, SMT
  <2>7. \A c : Get(t, c) = Get(u, c)
    BY <2>6 DEF Get
  <2>8. Good(t, n)
    BY <1>4, <2>3, <2>4, <2>6, <2>7, IndirectGood
  <2> QED
    BY <2>2, <2>5, <2>6, <2>8, BmapEntryGood, SMT
<1> QED
  BY <1>2, <1>3, <1>4

\* bmap: the block it returns is the one it finds there.
LEMMA BmapGood ==
    ASSUME NEW s, NEW n, Good(s, n), NEW f \in Files, NEW bn \in Places,
           NEW r, r = Bmap(s, f, bn)
    PROVE  Good(r.to, n) /\ (r.block # 0 => r.block = Refers(r.to, f, Way(bn)))
<1>1. CASE bn < NUM_DIRECT_BLOCKS
  <2>1. bn \in Directs
    BY <1>1, FileDataAssumption, SMT DEF Places, Directs, MAX_FILE
  <2>2. r = BmapDirect(s, f, bn)
    BY <1>1 DEF Bmap
  <2>3. Good(r.to, n) /\ r.block = r.to.direct[f][bn]
    BY <2>1, <2>2, BmapDirectGood, SMT
  <2> QED
    BY <1>1, <2>3, AtWay, SMT
<1>2. CASE ~ (bn < NUM_DIRECT_BLOCKS)
  <2>1. bn - NUM_DIRECT_BLOCKS \in Entries
    BY <1>2, FileDataAssumption, SMT DEF Places, Entries, MAX_FILE
  <2>2. r = BmapIndirect(s, f, bn - NUM_DIRECT_BLOCKS)
    BY <1>2 DEF Bmap
  <2>3. /\ Good(r.to, n)
        /\ r.block # 0 => /\ r.to.ind[f] # 0
                          /\ r.block = Get(r.to, r.to.ind[f]).data[bn - NUM_DIRECT_BLOCKS]
    BY <2>1, <2>2, BmapIndirectGood, SMT
  <2> QED
    BY <1>2, <2>3, AtWay, SMT
<1> QED
  BY <1>1, <1>2
-----------------------------------------------------------------------------
(***************************************************************************)
(* The steps of read, write and truncate.                                  *)
(***************************************************************************)
\* What does not touch the buffers of indirect blocks changes no reference.
LEMMA SameReferences ==
    ASSUME NEW s, NEW n, Good(s, n), NEW t,
           t.used = s.used, t.direct = s.direct, t.ind = s.ind,
           \A g \in Files : s.ind[g] # 0 => /\ Get(t, s.ind[g]) = Get(s, s.ind[g])
                                            /\ Loaded(t, s.ind[g]) = Loaded(s, s.ind[g])
    PROVE  /\ \A g \in Files, w \in Ways : Refers(t, g, w) = Refers(s, g, w)
           /\ \A g \in Files, bn \in Places : InMemory(t, g, bn) => InMemory(s, g, bn)
           /\ Unshared(t) /\ Marked(t) /\ Listed(t)
<1>1. ASSUME NEW g \in Files, NEW w \in Ways
      PROVE  Refers(t, g, w) = Refers(s, g, w)
  <2>1. CASE w[1] = "direct"
    BY <2>1, SameDirect, SMT
  <2>2. CASE w[1] # "direct"
    <3>1. t.ind[g] = s.ind[g]
      OBVIOUS
    <3>2. s.ind[g] # 0 => /\ Get(t, s.ind[g]).data = Get(s, s.ind[g]).data
                          /\ Loaded(t, s.ind[g]) = Loaded(s, s.ind[g])
      OBVIOUS
    <3> QED
      BY <2>2, <3>1, <3>2, SameIndirect, SMT
  <2> QED
    BY <2>1, <2>2
<1>2. \A g \in Files, bn \in Places : InMemory(t, g, bn) => InMemory(s, g, bn)
  BY SMT DEF InMemory
<1>3. Unshared(t) /\ Marked(t)
  BY <1>1, SMT DEF Good, Unshared, Marked
<1>4. Listed(t)
  BY SMT DEF Good, Listed
<1> QED
  BY <1>1, <1>2, <1>3, <1>4

\* Two places are found in different ways.
LEMMA WaysDiffer ==
    ASSUME NEW p \in Places, NEW q \in Places, Agree(Way(p), Way(q))
    PROVE  p = q
<1>1. NUM_DIRECT_BLOCKS \in Nat /\ p \in Nat /\ q \in Nat
  BY FileDataAssumption, SMT DEF Places
<1> QED
  BY <1>1, SMT DEF Agree, Way

\* The data that write puts into the block bmap has returned.
LEMMA StoreGood ==
    ASSUME NEW s, NEW n, Good(s, n), NEW f \in Files, NEW bn \in Places, bn <= n[f],
           NEW b, b # 0, b = Refers(s, f, Way(bn)),
           NEW x \in Buffers, x.valid, x.data = <<f, bn>>, NEW t, t = WriteLog(s, b, x),
           NEW m \in [Files -> 0 .. MAX_FILE], \A g \in Files : g # f => m[g] = n[g],
           bn >= n[f] => m[f] = bn + 1, ~ (bn >= n[f]) => m[f] = n[f]
    PROVE  Good(t, m)
<1>0. s \in FileSystems /\ disk \in [Blocks -> Contents] /\ n \in [Files -> 0 .. MAX_FILE]
  BY DEF Good
<1>1. Way(bn) \in Ways /\ Way(bn)[1] \in {"direct", "seen"}
  BY WayIn
<1>2. b \in Blocks
  BY <1>1, References
<1>4. /\ t \in FileSystems
      /\ t.used = s.used /\ t.direct = s.direct /\ t.ind = s.ind
      /\ Get(t, b) = x /\ \A c \in Blocks \ {b} : Get(t, c) = Get(s, c)
  BY <1>0, <1>2, WriteLogFacts, SMT
<1>5. Loaded(t, b) = <<f, bn>> /\ \A c \in Blocks \ {b} : Loaded(t, c) = Loaded(s, c)
  BY <1>4 DEF Loaded, Read
<1>6. \A g \in Files : s.ind[g] # 0 => /\ Get(t, s.ind[g]) = Get(s, s.ind[g])
                                       /\ Loaded(t, s.ind[g]) = Loaded(s, s.ind[g])
  <2> SUFFICES ASSUME NEW g \in Files, s.ind[g] # 0
               PROVE  s.ind[g] \in Blocks \ {b}
    BY <1>4, <1>5
  <2>1. s.ind[g] \in Blocks /\ Refers(s, f, Way(bn)) # s.ind[g]
    BY <1>1, IndirectBlock, SMT
  <2> QED
    BY <2>1
<1>7. /\ \A g \in Files, w \in Ways : Refers(t, g, w) = Refers(s, g, w)
      /\ \A g \in Files, p \in Places : InMemory(t, g, p) => InMemory(s, g, p)
      /\ Unshared(t) /\ Marked(t) /\ Listed(t)
  BY <1>4, <1>6, SameReferences, SMT
<1>8. n[f] \in Nat /\ m[f] \in Nat /\ bn \in Nat /\ NUM_DIRECT_BLOCKS \in Nat
  BY <1>0, FileDataAssumption, SMT DEF Places, MAX_FILE
<1>9. Sized(t, m)
  <2> SUFFICES ASSUME NEW g \in Files, m[g] > NUM_DIRECT_BLOCKS
               PROVE  s.ind[g] # 0
    BY <1>4 DEF Sized
  <2>1. CASE n[g] > NUM_DIRECT_BLOCKS
    BY <2>1 DEF Good, Sized
  <2>2. CASE ~ (n[g] > NUM_DIRECT_BLOCKS)
    <3>1. g = f
      BY <2>2
    <3>2. ~ (bn < NUM_DIRECT_BLOCKS)
      BY <1>8, <2>2, <3>1, SMT
    <3> QED
      BY <3>1, <3>2, AtWay, SMT
  <2> QED
    BY <2>1, <2>2
<1>10. Kept(t, m)
  <2> SUFFICES ASSUME NEW g \in Files, NEW p \in Places
               PROVE  KeptAt(t, m[g], g, p)
    BY KeptIs
  <2>1. CASE g = f /\ p = bn
    BY <1>1, <1>5, <1>7, <2>1 DEF KeptAt
  <2>2. CASE ~ (g = f /\ p = bn)
    <3>1. p < m[g] => p < n[g]
      <4>1. p \in Nat
        BY FileDataAssumption, SMT DEF Places
      <4> QED
        BY <1>8, <2>2, <4>1, SMT
    <3>2. Way(p) \in Ways
      BY WayIn
    <3>3. Refers(s, g, Way(p)) # b
      <4>1. ASSUME Refers(s, g, Way(p)) = b
            PROVE  g = f /\ Agree(Way(p), Way(bn))
        BY <1>1, <3>2, <4>1, SMT DEF Good, Unshared
      <4> QED
        BY <2>2, <4>1, WaysDiffer
    <3>4. Refers(s, g, Way(p)) # 0 =>
             Loaded(t, Refers(s, g, Way(p))) = Loaded(s, Refers(s, g, Way(p)))
      BY <1>5, <3>2, <3>3, References
    <3>5. KeptAt(t, n[g], g, p)
      BY <1>7, <3>2, <3>4, KeptStays
    <3> QED
      BY <3>1, <3>5 DEF KeptAt
  <2> QED
    BY <2>1, <2>2
<1> QED
  BY <1>0, <1>4, <1>7, <1>9, <1>10 DEF Good

\* release of a block that is no indirect block.
LEMMA ReleaseGood ==
    ASSUME NEW s, NEW n, Good(s, n), NEW b \in Blocks, \A g \in Files : s.ind[g] # b,
           NEW t, t = Release(s, b, Read(Get(s, b), b))
    PROVE  Good(t, n)
<1>0. s \in FileSystems /\ disk \in [Blocks -> Contents] /\ n \in [Files -> 0 .. MAX_FILE]
  BY DEF Good
<1>1. /\ t \in FileSystems
      /\ t.used = s.used /\ t.direct = s.direct /\ t.ind = s.ind
      /\ \A c \in Blocks \ {b} : Get(t, c) = Get(s, c)
      /\ \A c \in Blocks : Loaded(t, c) = Loaded(s, c)
  BY <1>0, ReleaseFacts, SMT
<1>2. \A g \in Files : s.ind[g] # 0 => /\ Get(t, s.ind[g]) = Get(s, s.ind[g])
                                       /\ Loaded(t, s.ind[g]) = Loaded(s, s.ind[g])
  BY <1>1, IndirectBlock
<1>3. /\ \A g \in Files, w \in Ways : Refers(t, g, w) = Refers(s, g, w)
      /\ \A g \in Files, p \in Places : InMemory(t, g, p) => InMemory(s, g, p)
      /\ Unshared(t) /\ Marked(t) /\ Listed(t)
  BY <1>1, <1>2, SameReferences, SMT
<1>4. Sized(t, n)
  BY <1>1 DEF Good, Sized
<1>5. Kept(t, n)
  <2> SUFFICES ASSUME NEW g \in Files, NEW p \in Places
               PROVE  KeptAt(t, n[g], g, p)
    BY KeptIs
  <2>1. Way(p) \in Ways
    BY WayIn
  <2>2. Refers(s, g, Way(p)) # 0 =>
           Loaded(t, Refers(s, g, Way(p))) = Loaded(s, Refers(s, g, Way(p)))
    BY <1>1, <2>1, References
  <2> QED
    BY <1>3, <2>1, <2>2, KeptStays
<1> QED
  BY <1>0, <1>1, <1>3, <1>4, <1>5 DEF Good

\* truncate finds blocks that the file refers to.
LEMMA FoundIsReferred ==
    ASSUME NEW s, NEW f \in Files, NEW c \in Found(s, f)
    PROVE  c # 0 /\ \E w \in Ways : Refers(s, f, w) = c
<1>1. CASE c \in DirectOf(s, f)
  <2>1. PICK i \in Directs : c = s.direct[f][i] /\ c # 0
    BY <1>1 DEF DirectOf
  <2>2. <<"direct", i>> \in Ways
    BY WaysAre
  <2>3. Refers(s, f, <<"direct", i>>) = c
    BY <2>1, RefersIs, SMT
  <2> QED
    BY <2>1, <2>2, <2>3
<1>2. CASE c \in ListedBy(s, f)
  <2>1. s.ind[f] # 0
    BY <1>2 DEF ListedBy
  <2>2. PICK i \in Entries : c = Loaded(s, s.ind[f])[i] /\ c # 0
    BY <1>2, <2>1 DEF ListedBy
  <2>3. <<"listed", i>> \in Ways
    BY WaysAre
  <2>4. Refers(s, f, <<"listed", i>>) = c
    BY <2>1, <2>2, RefersIs, SMT
  <2> QED
    BY <2>2, <2>3, <2>4
<1>3. CASE c = s.ind[f] /\ c # 0
  <2>1. <<"indirect", 0>> \in Ways
    BY WaysAre
  <2>2. Refers(s, f, <<"indirect", 0>>) = c
    BY <1>3, RefersIs, SMT
  <2> QED
    BY <1>3, <2>1, <2>2
<1> QED
  BY <1>1, <1>2, <1>3 DEF Found

\* truncate frees what it finds and leaves the file without blocks.
LEMMA TruncateGood ==
    ASSUME NEW s, NEW n, Good(s, n), NEW f \in Files, NEW t \in FileSystems,
           t.used = s.used \ Found(s, f),
           \A i \in Directs : t.direct[f][i] = 0, t.ind[f] = 0,
           \A g \in Files : g # f => t.direct[g] = s.direct[g] /\ t.ind[g] = s.ind[g],
           \A c \in Blocks : c # s.ind[f] => Get(t, c) = Get(s, c),
           \A c \in Blocks : Loaded(t, c) = Loaded(s, c),
           NEW m \in [Files -> 0 .. MAX_FILE], \A g \in Files : g # f => m[g] = n[g], m[f] = 0
    PROVE  Good(t, m)
<1>0. disk \in [Blocks -> Contents]
  BY DEF Good
<1>1. \A g \in Files : g # f /\ s.ind[g] # 0 => /\ Get(t, s.ind[g]) = Get(s, s.ind[g])
                                                /\ Loaded(t, s.ind[g]) = Loaded(s, s.ind[g])
  BY IndirectBlock, SMT
<1>2. ASSUME NEW g \in Files, g # f, NEW w \in Ways
      PROVE  Refers(t, g, w) = Refers(s, g, w)
  <2>1. t.direct[g] = s.direct[g] /\ t.ind[g] = s.ind[g]
    BY <1>2
  <2>2. CASE w[1] = "direct"
    BY <2>1, <2>2, SameDirect, SMT
  <2>3. CASE w[1] # "direct"
    <3>1. s.ind[g] # 0 => /\ Get(t, s.ind[g]).data = Get(s, s.ind[g]).data
                          /\ Loaded(t, s.ind[g]) = Loaded(s, s.ind[g])
      BY <1>1, <1>2
    <3> QED
      BY <2>1, <2>3, <3>1, SameIndirect, SMT
  <2> QED
    BY <2>2, <2>3
<1>3. ASSUME NEW w \in Ways
      PROVE  Refers(t, f, w) = 0
  <2>1. CASE w[1] = "direct"
    BY <2>1, DirectWay, SMT
  <2>2. CASE w[1] = "indirect"
    BY <2>2, IndirectWay, SMT
  <2>3. CASE w[1] = "listed"
    BY <2>3, ListedWay, SMT
  <2>4. CASE w[1] = "seen"
    BY <2>4, SeenWay, SMT
  <2> QED
    BY <2>1, <2>2, <2>3, <2>4, WayKinds
<1>4. Unshared(t)
  <2> SUFFICES ASSUME NEW g \in Files, NEW h \in Files, NEW v \in Ways, NEW w \in Ways,
                      Refers(t, g, v) # 0, Refers(t, g, v) = Refers(t, h, w)
               PROVE  g = h /\ Agree(v, w)
    BY SMT DEF Unshared
  <2>1. g # f /\ h # f
    BY <1>3
  <2>2. Refers(s, g, v) # 0 /\ Refers(s, g, v) = Refers(s, h, w)
    BY <1>2, <2>1
  <2> QED
    BY <2>2, SMT DEF Good, Unshared
<1>5. Marked(t)
  <2> SUFFICES ASSUME NEW g \in Files, NEW w \in Ways, Refers(t, g, w) # 0
               PROVE  Refers(t, g, w) \in t.used
    BY DEF Marked
  <2>1. g # f
    BY <1>3
  <2>2. PICK c : c = Refers(t, g, w) /\ c = Refers(s, g, w)
    BY <1>2, <2>1
  <2>3. c \in s.used
    BY <2>2, References, SMT
  <2>4. c \notin Found(s, f)
    <3> SUFFICES ASSUME c \in Found(s, f)
                 PROVE  FALSE
      OBVIOUS
    <3>1. PICK v \in Ways : Refers(s, f, v) = c
      BY FoundIsReferred, SMT
    <3> QED
      BY <2>1, <2>2, <3>1, SMT DEF Good, Unshared
  <2> QED
    BY <2>2, <2>3, <2>4
<1>6. Listed(t)
  <2> SUFFICES ASSUME NEW g \in Files, t.ind[g] # 0
               PROVE  Loaded(t, t.ind[g]) \in Lists /\ Get(t, t.ind[g]).data \in Lists
    BY DEF Listed
  <2>1. g # f /\ t.ind[g] = s.ind[g]
    OBVIOUS
  <2>2. Loaded(s, s.ind[g]) \in Lists /\ Get(s, s.ind[g]).data \in Lists
    BY <2>1 DEF Good, Listed
  <2> QED
    BY <1>1, <2>1, <2>2
<1>7. Sized(t, m)
  <2>1. ~ (0 > NUM_DIRECT_BLOCKS)
    BY FileDataAssumption, SMT
  <2>2. Sized(s, n)
    BY DEF Good
  <2> QED
    BY <2>1, <2>2, SMT DEF Sized
<1>8. Kept(t, m)
  <2> SUFFICES ASSUME NEW g \in Files, NEW p \in Places
               PROVE  KeptAt(t, m[g], g, p)
    BY KeptIs
  <2>1. CASE g = f
    <3>1. ~ (p < m[g])
      BY <2>1, FileDataAssumption, SMT DEF Places
    <3> QED
      BY <3>1 DEF KeptAt
  <2>2. CASE g # f
    <3>1. Way(p) \in Ways
      BY WayIn
    <3>2. Refers(t, g, Way(p)) = Refers(s, g, Way(p))
      BY <1>2, <2>2, <3>1
    <3>3. Refers(s, g, Way(p)) # 0 =>
             Loaded(t, Refers(s, g, Way(p))) = Loaded(s, Refers(s, g, Way(p)))
      BY <3>1, References
    <3>4. InMemory(t, g, p) => InMemory(s, g, p)
      <4>1. t.ind[g] = s.ind[g]
        BY <2>2
      <4> QED
        BY <1>1, <2>2, <4>1 DEF InMemory
    <3>5. KeptAt(t, n[g], g, p)
      BY <3>2, <3>3, <3>4, KeptStays
    <3> QED
      BY <2>2, <3>5
  <2> QED
    BY <2>1, <2>2
<1> QED
  BY <1>0, <1>4, <1>5, <1>6, <1>7, <1>8 DEF Good

\* What freeBlock and the assignments of truncate leave.
LEMMA ClearedFields ==
    ASSUME NEW s \in FileSystems, NEW f \in Files, NEW F, NEW t, t = Cleared(FreeBlocks(s, F), f)
    PROVE  /\ t \in FileSystems /\ t.used = s.used \ F /\ t.cache = s.cache
           /\ t.ind[f] = 0 /\ \A i \in Directs : t.direct[f][i] = 0
           /\ \A g \in Files : g # f => t.direct[g] = s.direct[g] /\ t.ind[g] = s.ind[g]
<1>0. PICK u, v : u = FreeBlocks(s, F) /\ v = [u EXCEPT !.direct[f] = [i \in Directs |-> 0]]
  OBVIOUS
<1>1. /\ u \in FileSystems /\ u.used = s.used \ F
      /\ u.direct = s.direct /\ u.ind = s.ind /\ u.cache = s.cache
  BY <1>0, SMT DEF FreeBlocks, FileSystems
<1>2. /\ v.direct = [u.direct EXCEPT ![f] = [i \in Directs |-> 0]]
      /\ v.used = u.used /\ v.ind = u.ind /\ v.cache = u.cache
  BY <1>0, <1>1, SMT DEF FileSystems
<1>3. /\ v.direct \in [Files -> [Directs -> 0 .. NumBlocks]]
      /\ \A i \in Directs : v.direct[f][i] = 0
      /\ \A g \in Files : g # f => v.direct[g] = u.direct[g]
  BY <1>1, <1>2, Numbers, SMT DEF FileSystems
<1>4. v = [u EXCEPT !.direct = v.direct]
  BY <1>0, <1>2
<1>5. v \in FileSystems
  BY <1>1, <1>2, <1>3, <1>4, SMT DEF FileSystems
<1>6. t = SetInd(v, f, 0)
  BY <1>0 DEF Cleared, SetInd
<1>7. 0 \in 0 .. NumBlocks
  BY Numbers
<1>8. /\ t \in FileSystems
      /\ t.used = v.used /\ t.direct = v.direct /\ t.cache = v.cache
      /\ t.ind[f] = 0 /\ \A g \in Files \ {f} : t.ind[g] = v.ind[g]
  BY <1>5, <1>6, <1>7, InodeFields, SMT
<1> QED
  BY <1>1, <1>2, <1>3, <1>8, SMT
-----------------------------------------------------------------------------
(***************************************************************************)
(* The actions.                                                            *)
(***************************************************************************)
\* While the disk does not change.
LEMMA Carried ==
    ASSUME disk' = disk, Good(fs', size')
    PROVE  Good(fs, size)'
<1>1. \A b : Get(fs, b)' = Get(fs', b)
  BY DEF Get
<1>2. \A b : Loaded(fs, b)' = Loaded(fs', b)
  BY DEF Loaded, Read, Get
<1>3. \A f, w : Refers(fs, f, w)' = Refers(fs', f, w)
  BY <1>1, <1>2 DEF Refers
<1>4. Listed(fs)' /\ Sized(fs, size)'
  BY <1>1, <1>2 DEF Good, Listed, Sized
<1>5. Unshared(fs)' /\ Marked(fs)'
  BY <1>3, SMT DEF Good, Unshared, Marked
<1>6. Kept(fs, size)'
  BY <1>1, <1>2 DEF Good, Kept, DirectKept, EntryKept
<1> QED
  BY <1>4, <1>5, <1>6 DEF Good

\* A block of read.
LEMMA ReadBlockStep ==
    ASSUME IInv, NEW f \in Files, NEW bn \in Places, ReadBlock(f, bn)
    PROVE  IInv'
<1>1. PICK r : r = Bmap(fs, f, bn)
  OBVIOUS
<1>2. Good(r.to, size)
  BY <1>1, BmapGood DEF IInv
<1>3. Good(fs', size') /\ disk' = disk
  BY <1>1, <1>2 DEF ReadBlock, IInv
<1>4. TypeOK'
  BY <1>3 DEF ReadBlock, IInv, TypeOK, Good
<1> QED
  BY <1>3, <1>4, Carried DEF IInv

\* A block of write: the size of the file grows with the block that was written.
LEMMA WriteBlockStep ==
    ASSUME IInv, NEW f \in Files, NEW bn \in Places, WriteBlock(f, bn)
    PROVE  IInv'
<1>0. Good(fs, size) /\ size \in [Files -> 0 .. MAX_FILE] /\ bn <= size[f]
  BY DEF IInv, Good, WriteBlock
<1>1. PICK r, b : r = Bmap(fs, f, bn) /\ b = r.block
  OBVIOUS
<1>2. Good(r.to, size) /\ (b # 0 => b = Refers(r.to, f, Way(bn)))
  BY <1>0, <1>1, BmapGood, SMT
<1>3. /\ disk' = disk
      /\ b = 0 => fs' = r.to
      /\ b # 0 => fs' = WriteLog(r.to, b, [valid |-> TRUE, data |-> <<f, bn>>])
      /\ size' = [size EXCEPT ![f] = SizeAfter(f, bn, b)]
  BY <1>1 DEF WriteBlock
<1>4. size[f] \in Nat /\ bn \in Nat /\ size[f] <= MAX_FILE /\ bn + 1 <= MAX_FILE /\ MAX_FILE \in Nat
  BY <1>0, FileDataAssumption, SMT DEF Places, MAX_FILE
<1>5. CASE b = 0
  <2>1. SizeAfter(f, bn, b) = size[f]
    BY <1>5 DEF SizeAfter
  <2>2. size' = size
    BY <1>0, <1>3, <2>1, SMT
  <2> QED
    BY <1>2, <1>3, <1>5, <2>2, Carried DEF IInv, TypeOK, WriteBlock, Good
<1>6. CASE b # 0
  <2>1. PICK x : x = [valid |-> TRUE, data |-> <<f, bn>>]
    OBVIOUS
  <2>2. x \in Buffers /\ x.valid /\ x.data = <<f, bn>>
    BY <2>1, SMT DEF Buffers, Contents, Data
  <2>3. SizeAfter(f, bn, b) = IF bn >= size[f] THEN bn + 1 ELSE size[f]
    BY <1>6 DEF SizeAfter
  <2>4. SizeAfter(f, bn, b) \in 0 .. MAX_FILE
    BY <1>4, <2>3, SMT
  <2>5. PICK m : m = size'
    OBVIOUS
  <2>6. /\ m \in [Files -> 0 .. MAX_FILE] /\ m[f] = SizeAfter(f, bn, b)
        /\ \A g \in Files : g # f => m[g] = size[g]
    BY <1>0, <1>3, <2>4, <2>5, SMT
  <2>7. m[f] = IF bn >= size[f] THEN bn + 1 ELSE size[f]
    BY <2>3, <2>6
  <2>8. PICK t : t = WriteLog(r.to, b, x) /\ t = fs'
    BY <1>3, <1>6, <2>1
  <2>9. Good(t, m)
    <3>1. PICK u, n : u = r.to /\ n = size
      OBVIOUS
    <3>2. Good(u, n) /\ bn <= n[f] /\ b = Refers(u, f, Way(bn)) /\ t = WriteLog(u, b, x)
      BY <1>0, <1>2, <1>6, <2>8, <3>1
    <3>3. /\ \A g \in Files : g # f => m[g] = n[g]
          /\ bn >= n[f] => m[f] = bn + 1
          /\ ~ (bn >= n[f]) => m[f] = n[f]
      BY <2>6, <2>7, <3>1
    <3> QED
      BY <1>6, <2>2, <2>6, <3>2, <3>3, StoreGood, SMT
  <2> QED
    BY <1>3, <2>5, <2>8, <2>9, Carried DEF IInv, TypeOK, WriteBlock, Good
<1> QED
  BY <1>5, <1>6

\* A block of write that is allocated and not written.
LEMMA WriteFailsStep ==
    ASSUME IInv, NEW f \in Files, NEW bn \in Places, WriteFails(f, bn)
    PROVE  IInv'
<1>1. PICK r, b, u : r = Bmap(fs, f, bn) /\ b = r.block /\ u = r.to
  OBVIOUS
<1>2. b # 0 /\ fs' = Release(u, b, Read(Get(u, b), b)) /\ UNCHANGED <<size, disk, open, panic>>
  BY <1>1 DEF WriteFails
<1>3. Good(u, size) /\ b = Refers(u, f, Way(bn))
  BY <1>1, <1>2, BmapGood, SMT DEF IInv
<1>4. Way(bn) \in Ways /\ Way(bn)[1] # "indirect"
  BY WayIn
<1>5. b \in Blocks
  BY <1>2, <1>3, <1>4, References
<1>6. \A g \in Files : u.ind[g] # b
  BY <1>2, <1>3, <1>4, IndirectBlock
<1>7. Good(fs', size)
  BY <1>2, <1>3, <1>5, <1>6, ReleaseGood
<1> QED
  BY <1>2, <1>7, Carried DEF IInv, TypeOK, Good

\* truncate: its assertion does not fail.
LEMMA TruncateStep ==
    ASSUME IInv, NEW f \in Files, Truncate(f)
    PROVE  IInv'
<1>0. /\ Good(fs, size) /\ fs \in FileSystems /\ size \in [Files -> 0 .. MAX_FILE]
      /\ disk \in [Blocks -> Contents]
  BY DEF IInv, Good
<1>1. Found(fs, f) \subseteq fs.used
  <2> SUFFICES ASSUME NEW c \in Found(fs, f)
               PROVE  c \in fs.used
    OBVIOUS
  <2>1. c # 0 /\ \E w \in Ways : Refers(fs, f, w) = c
    BY FoundIsReferred, SMT
  <2> QED
    BY <1>0, <2>1, References
<1>2. PICK J, u : J = fs.ind[f] /\ u = IF J = 0 THEN fs ELSE Release(fs, J, Read(Get(fs, J), J))
  OBVIOUS
<1>3. /\ fs' = Cleared(FreeBlocks(u, Found(fs, f)), f)
      /\ size' = [size EXCEPT ![f] = 0]
      /\ UNCHANGED <<disk, open, panic>>
  BY <1>1, <1>2 DEF Truncate
<1>4. /\ u \in FileSystems
      /\ u.used = fs.used /\ u.direct = fs.direct /\ u.ind = fs.ind
      /\ \A c \in Blocks : c # J => Get(u, c) = Get(fs, c)
      /\ \A c \in Blocks : Loaded(u, c) = Loaded(fs, c)
  <2>1. CASE J = 0
    BY <1>0, <1>2, <2>1
  <2>2. CASE J # 0
    <3>1. J \in Blocks
      BY <1>0, <1>2, <2>2, IndirectBlock
    <3>2. u = Release(fs, J, Read(Get(fs, J), J))
      BY <1>2, <2>2
    <3> QED
      BY <1>0, <3>1, <3>2, ReleaseFacts, SMT
  <2> QED
    BY <2>1, <2>2
<1>5. PICK t, m : t = fs' /\ m = size'
  OBVIOUS
<1>6. /\ t \in FileSystems /\ t.used = fs.used \ Found(fs, f) /\ t.cache = u.cache
      /\ t.ind[f] = 0 /\ \A i \in Directs : t.direct[f][i] = 0
      /\ \A g \in Files : g # f => t.direct[g] = fs.direct[g] /\ t.ind[g] = fs.ind[g]
  BY <1>3, <1>4, <1>5, ClearedFields, SMT
<1>7. /\ \A c \in Blocks : c # J => Get(t, c) = Get(fs, c)
      /\ \A c \in Blocks : Loaded(t, c) = Loaded(fs, c)
  <2>1. \A c : Get(t, c) = Get(u, c) /\ Loaded(t, c) = Loaded(u, c)
    BY <1>6 DEF Get, Loaded
  <2> QED
    BY <1>4, <2>1
<1>8. m \in [Files -> 0 .. MAX_FILE] /\ m[f] = 0 /\ \A g \in Files : g # f => m[g] = size[g]
  BY <1>0, <1>3, <1>5, FileDataAssumption, SMT DEF MAX_FILE
<1>9. Good(t, m)
  BY <1>0, <1>2, <1>6, <1>7, <1>8, TruncateGood, SMT
<1> QED
  BY <1>3, <1>5, <1>9, Carried DEF IInv, TypeOK, Good

\* The commit: what Buffer::read returns is on the disk, and the cache is empty.
LEMMA EndOpStep ==
    ASSUME IInv, EndOp
    PROVE  IInv'
<1>0. /\ Good(fs, size) /\ fs \in FileSystems /\ size \in [Files -> 0 .. MAX_FILE]
      /\ disk \in [Blocks -> Contents]
  BY DEF IInv, Good
<1>1. /\ fs' \in FileSystems /\ fs'.used = fs.used /\ fs'.direct = fs.direct /\ fs'.ind = fs.ind
      /\ \A b \in Blocks : fs'.cache[b] = Absent
  <2>1. fs' = [fs EXCEPT !.cache = [b \in Blocks |-> Absent]]
    BY DEF EndOp
  <2>2. /\ fs'.used = fs.used /\ fs'.direct = fs.direct /\ fs'.ind = fs.ind
        /\ fs'.cache = [b \in Blocks |-> Absent]
    BY <1>0, <2>1, SMT DEF FileSystems
  <2>3. fs'.cache \in [Blocks -> Buffers \cup {Absent}] /\ \A b \in Blocks : fs'.cache[b] = Absent
    BY <2>2
  <2>4. fs' \in FileSystems
    <3>1. fs' = [fs EXCEPT !.cache = fs'.cache]
      BY <2>1, <2>2
    <3> QED
      BY <1>0, <2>2, <2>3, <3>1, SMT DEF FileSystems
  <2> QED
    BY <2>2, <2>3, <2>4
<1>2. \A b \in Blocks : Loaded(fs, b) \in Contents
  BY <1>0, BufferTypes
<1>3. disk' \in [Blocks -> Contents] /\ \A b \in Blocks : disk'[b] = Loaded(fs, b)
  BY <1>2, SMT DEF EndOp
<1>4. \A b \in Blocks : ~ Get(fs, b)'.valid /\ Get(fs, b)'.data = Zero
  BY <1>1, SMT DEF Get
<1>5. \A b \in Blocks : Loaded(fs, b)' = Loaded(fs, b)
  <2>1. \A b \in Blocks : Loaded(fs, b)' = disk'[b]
    BY <1>4, SMT DEF Loaded, Read
  <2> QED
    BY <1>3, <2>1
<1>6. \A f \in Files : fs.ind[f] # 0 => fs.ind[f] \in Blocks
  BY <1>0, IndirectBlock
<1>7. ASSUME NEW f \in Files, NEW w \in Ways
      PROVE  Refers(fs, f, w)' \in {Refers(fs, f, w), 0}
  <2>1. CASE w[1] = "direct"
    BY <1>1, <2>1 DEF Refers
  <2>2. CASE w[1] = "indirect"
    BY <1>1, <2>2 DEF Refers
  <2>3. CASE w[1] = "listed"
    <3>1. CASE fs.ind[f] = 0
      BY <1>1, <2>3, <3>1 DEF Refers
    <3>2. CASE fs.ind[f] # 0
      <4>1. PICK J \in Blocks : J = fs.ind[f] /\ J = fs'.ind[f] /\ J # 0
        BY <1>1, <1>6, <3>2
      <4>2. Refers(fs, f, w) = Loaded(fs, J)[w[2]]
        BY <2>3, <4>1 DEF Refers
      <4>3. Refers(fs, f, w)' = Loaded(fs, J)'[w[2]]
        BY <2>3, <4>1 DEF Refers
      <4> QED
        BY <1>5, <4>2, <4>3
    <3> QED
      BY <3>1, <3>2
  <2>4. CASE w[1] = "seen"
    <3>1. Zero[w[2]] = 0
      BY <2>4, WayKinds, Numbers
    <3>2. CASE fs.ind[f] = 0
      BY <1>1, <2>4, <3>2 DEF Refers
    <3>3. CASE fs.ind[f] # 0
      <4>1. PICK J \in Blocks : J = fs'.ind[f] /\ J # 0
        BY <1>1, <1>6, <3>3
      <4>2. Refers(fs, f, w)' = Get(fs, J)'.data[w[2]]
        BY <2>4, <4>1 DEF Refers
      <4> QED
        BY <1>4, <3>1, <4>2
    <3> QED
      BY <3>2, <3>3
  <2> QED
    BY <2>1, <2>2, <2>3, <2>4, WayKinds
<1>8. Unshared(fs)'
  <2> SUFFICES ASSUME NEW f \in Files, NEW g \in Files, NEW v \in Ways, NEW w \in Ways,
                      Refers(fs, f, v)' # 0, Refers(fs, f, v)' = Refers(fs, g, w)'
               PROVE  f = g /\ Agree(v, w)
    BY SMT DEF Unshared
  <2>1. Refers(fs, f, v) # 0 /\ Refers(fs, f, v) = Refers(fs, g, w)
    BY <1>7
  <2> QED
    BY <1>0, <2>1, SMT DEF Good, Unshared
<1>9. Marked(fs)'
  BY <1>0, <1>1, <1>7, SMT DEF Good, Marked
<1>10. Listed(fs)' /\ Sized(fs, size)'
  <2>1. Listed(fs)'
    BY <1>0, <1>1, <1>4, <1>5, <1>6, Numbers, SMT DEF Good, Listed
  <2>2. size' = size
    BY DEF EndOp
  <2>3. Sized(fs, size)'
    BY <1>0, <1>1, <2>2 DEF Good, Sized
  <2> QED
    BY <2>1, <2>3
<1>11. Kept(fs, size)'
  <2>0. size' = size
    BY DEF EndOp
  <2>1. ASSUME NEW f \in Files, NEW bn \in Places
        PROVE  DirectKept(fs, size[f], f, bn)'
    <3> SUFFICES ASSUME bn < size[f], bn < NUM_DIRECT_BLOCKS
                 PROVE  fs.direct[f][bn] # 0 /\ Loaded(fs, fs.direct[f][bn])' = <<f, bn>>
      BY <1>1, <2>0 DEF DirectKept
    <3>1. fs.direct[f][bn] # 0 /\ Loaded(fs, fs.direct[f][bn]) = <<f, bn>>
      BY <1>0, <2>1 DEF Good, Kept, DirectKept
    <3>2. fs.direct[f][bn] \in Blocks
      <4>1. Refers(fs, f, Way(bn)) = fs.direct[f][bn]
        BY <2>1, AtWay, SMT
      <4>2. Way(bn) \in Ways
        BY <2>1, WayIn
      <4> QED
        BY <1>0, <2>1, <3>1, <4>1, <4>2, References
    <3> QED
      BY <1>1, <1>5, <3>1, <3>2
  <2>2. ASSUME NEW f \in Files, NEW bn \in Places
        PROVE  EntryKept(fs, size[f], f, bn)'
    BY <1>1, <1>4, <1>6, <2>2, SMT DEF EntryKept
  <2> QED
    BY <2>1, <2>2 DEF Kept
<1> QED
  BY <1>1, <1>3, <1>8, <1>9, <1>10, <1>11 DEF IInv, TypeOK, Good, EndOp

\* The image that make_disk has written.
LEMMA InitGood ==
    ASSUME Init
    PROVE  IInv
<1> DEFINE ND == NUM_DIRECT_BLOCKS
           NI == NUM_INDIRECT_BLOCKS
<1>0. NumBlocks \in Nat /\ ND \in Nat /\ NI \in Nat
  BY FileDataAssumption
<1>1. PICK g \in Files, n \in 0 .. MAX_FILE :
         /\ Taken(n) <= NumBlocks
         /\ fs = [used |-> 1 .. Taken(n),
                  direct |-> [f \in Files |-> [i \in Directs |-> IF f = g THEN Appended(n, i) ELSE 0]],
                  ind |-> [f \in Files |-> IF f = g THEN Indirect(n) ELSE 0],
                  cache |-> [b \in Blocks |-> Absent]]
         /\ size = [f \in Files |-> IF f = g THEN n ELSE 0]
         /\ disk = [b \in Blocks |->
                      IF b > Taken(n) THEN Zero
                      ELSE IF b = Indirect(n)
                      THEN [i \in Entries |-> Appended(n, NUM_DIRECT_BLOCKS + i)]
                      ELSE IF b > NUM_DIRECT_BLOCKS THEN <<g, b - 2>> ELSE <<g, b - 1>>]
         /\ open = FALSE
         /\ panic = "no"
  BY DEF Init
<1>2. /\ n \in Nat /\ n <= ND + NI /\ Taken(n) \in Nat /\ Taken(n) <= NumBlocks
      /\ n > ND => Taken(n) = n + 1 /\ Indirect(n) = ND + 1
      /\ n <= ND => Taken(n) = n /\ Indirect(n) = 0
      /\ \A i \in Nat : i >= n => Appended(n, i) = 0
      /\ \A i \in Nat : i < n /\ i < ND => Appended(n, i) = i + 1
      /\ \A i \in Nat : i < n /\ i >= ND => Appended(n, i) = i + 2
  BY <1>0, <1>1, SMT DEF Taken, Indirect, Appended, MAX_FILE
<1>3. /\ fs.used = 1 .. Taken(n)
      /\ fs.direct = [f \in Files |-> [i \in Directs |-> IF f = g THEN Appended(n, i) ELSE 0]]
      /\ fs.ind = [f \in Files |-> IF f = g THEN Indirect(n) ELSE 0]
      /\ fs.cache = [b \in Blocks |-> Absent]
  BY <1>1, SMT
<1>4. \A i \in Nat : Appended(n, i) \in 0 .. Taken(n) /\ Appended(n, i) \in 0 .. NumBlocks
  BY <1>0, <1>2, SMT
<1>5. fs.direct \in [Files -> [Directs -> 0 .. NumBlocks]]
  <2>1. \A i \in Directs : Appended(n, i) \in 0 .. NumBlocks
    BY <1>0, <1>4, SMT DEF Directs
  <2>2. 0 \in 0 .. NumBlocks
    BY Numbers
  <2> QED
    BY <1>3, <2>1, <2>2, SMT
<1>6. fs.ind \in [Files -> 0 .. NumBlocks]
  BY <1>0, <1>2, <1>3, SMT
<1>7. fs \in FileSystems
  <2>1. fs.used \in SUBSET Blocks
    BY <1>0, <1>2, <1>3, SMT DEF Blocks
  <2>2. fs.cache \in [Blocks -> Buffers \cup {Absent}]
    BY <1>3
  <2>3. fs = [used |-> fs.used, direct |-> fs.direct, ind |-> fs.ind, cache |-> fs.cache]
    BY <1>1, <1>3
  <2> QED
    BY <1>5, <1>6, <2>1, <2>2, <2>3 DEF FileSystems
<1>8. size \in [Files -> 0 .. MAX_FILE] /\ size[g] = n /\ \A f \in Files : f # g => size[f] = 0
  BY <1>0, <1>1, SMT DEF MAX_FILE
<1>9. /\ \A b \in Blocks : b = Indirect(n) /\ b <= Taken(n) =>
            disk[b] \in Lists /\ \A i \in Entries : disk[b][i] = Appended(n, ND + i)
      /\ \A b \in Blocks : b <= Taken(n) /\ b <= ND => disk[b] = <<g, b - 1>>
      /\ disk \in [Blocks -> Contents]
  <2>0. Blocks \subseteq Nat \ {0} /\ Entries \subseteq Nat
    BY <1>0, SMT DEF Blocks, Entries
  <2>1. ASSUME NEW b \in Blocks, b = Indirect(n), b <= Taken(n)
        PROVE  disk[b] \in Lists /\ \A i \in Entries : disk[b][i] = Appended(n, ND + i)
    <3>1. disk[b] = [i \in Entries |-> Appended(n, ND + i)]
      BY <1>1, <1>2, <2>0, <2>1, SMT
    <3>2. \A i \in Entries : Appended(n, ND + i) \in 0 .. NumBlocks
      BY <1>0, <1>4, <2>0, SMT
    <3> QED
      BY <3>1, <3>2 DEF Lists
  <2>2. ASSUME NEW b \in Blocks, b <= Taken(n), b <= ND
        PROVE  disk[b] = <<g, b - 1>>
    <3>1. ~ (b > Taken(n)) /\ b # Indirect(n) /\ ~ (b > ND)
      BY <1>0, <1>2, <2>0, <2>2, SMT
    <3> QED
      BY <1>1, <3>1
  <2>3. ASSUME NEW b \in Blocks
        PROVE  disk[b] \in Contents
    <3>1. CASE b > Taken(n)
      BY <1>1, <3>1, Numbers DEF Contents
    <3>2. CASE ~ (b > Taken(n)) /\ b = Indirect(n)
      BY <1>2, <2>0, <2>1, <3>2, SMT DEF Contents
    <3>3. CASE ~ (b > Taken(n)) /\ b # Indirect(n) /\ b > ND
      <4>1. disk[b] = <<g, b - 2>>
        BY <1>1, <3>3
      <4>2. b - 2 \in Places
        BY <1>0, <1>2, <2>0, <3>3, SMT DEF Places, MAX_FILE
      <4> QED
        BY <4>1, <4>2, SMT DEF Contents, Data
    <3>4. CASE ~ (b > Taken(n)) /\ b # Indirect(n) /\ ~ (b > ND)
      <4>1. disk[b] = <<g, b - 1>>
        BY <1>1, <3>4
      <4>2. b - 1 \in Places
        BY <1>0, <1>2, <2>0, <3>4, SMT DEF Places, MAX_FILE
      <4> QED
        BY <4>1, <4>2, SMT DEF Contents, Data
    <3> QED
      BY <3>1, <3>2, <3>3, <3>4
  <2>4. disk \in [Blocks -> Contents]
    BY <1>1, <2>3
  <2> QED
    BY <2>1, <2>2, <2>4
<1>10. \A b \in Blocks : ~ Get(fs, b).valid /\ Get(fs, b).data = Zero /\ Loaded(fs, b) = disk[b]
  BY <1>3, SMT DEF Get, Loaded, Read
<1>11. n > ND => ND + 1 \in Blocks /\ Indirect(n) = ND + 1 /\ ND + 1 <= Taken(n)
  BY <1>0, <1>2, SMT DEF Blocks
<1>12. \A f \in Files : fs.ind[f] # 0 => f = g /\ n > ND /\ fs.ind[f] = ND + 1
  BY <1>0, <1>2, <1>3, SMT
<1>13. ASSUME NEW f \in Files, NEW w \in Ways, Refers(fs, f, w) # 0
       PROVE  /\ f = g /\ w[1] # "seen"
              /\ w[1] = "direct" => w[2] \in 0 .. n - 1 /\ w[2] < ND /\ Refers(fs, f, w) = w[2] + 1
              /\ w[1] = "indirect" => n > ND /\ Refers(fs, f, w) = ND + 1
              /\ w[1] = "listed" => /\ w[2] \in Nat /\ ND + w[2] < n
                                    /\ Refers(fs, f, w) = ND + w[2] + 2
  <2>1. CASE w[1] = "direct"
    <3>1. w[2] \in Directs /\ Refers(fs, f, w) = fs.direct[f][w[2]]
      BY <2>1, DirectWay
    <3>2. f = g /\ Refers(fs, f, w) = Appended(n, w[2])
      BY <1>3, <1>13, <3>1, SMT
    <3>3. w[2] \in Nat /\ w[2] < ND
      BY <1>0, <3>1, SMT DEF Directs
    <3> QED
      BY <1>2, <1>13, <2>1, <3>2, <3>3, SMT
  <2>2. CASE w[1] = "indirect"
    BY <1>12, <1>13, <2>2, IndirectWay
  <2>3. CASE w[1] = "listed"
    <3>1. fs.ind[f] # 0
      BY <1>13, <2>3, ListedWay
    <3>2. w[2] \in Entries /\ Refers(fs, f, w) = Loaded(fs, fs.ind[f])[w[2]]
      BY <2>3, <3>1, ListedWay
    <3>3. f = g /\ n > ND /\ Refers(fs, f, w) = disk[ND + 1][w[2]]
      BY <1>10, <1>11, <1>12, <3>1, <3>2
    <3>4. Refers(fs, f, w) = Appended(n, ND + w[2])
      BY <1>9, <1>11, <3>2, <3>3
    <3>5. w[2] \in Nat
      BY <1>0, <3>2, SMT DEF Entries
    <3>6. PICK k \in Nat : k = ND + w[2] /\ k >= ND
      BY <1>0, <3>5, SMT
    <3>7. k < n /\ Refers(fs, f, w) = k + 2
      BY <1>2, <1>13, <3>4, <3>6, SMT
    <3> QED
      BY <2>3, <3>3, <3>5, <3>6, <3>7
  <2>4. CASE w[1] = "seen"
    <3>1. fs.ind[f] # 0
      BY <1>13, <2>4, SeenWay
    <3>2. w[2] \in Entries /\ Refers(fs, f, w) = Get(fs, fs.ind[f]).data[w[2]]
      BY <2>4, <3>1, SeenWay
    <3>3. Get(fs, fs.ind[f]).data = Zero
      BY <1>10, <1>11, <1>12, <3>1
    <3> QED
      BY <1>13, <3>2, <3>3, Numbers
  <2> QED
    BY <2>1, <2>2, <2>3, <2>4, WayKinds
<1>14. Unshared(fs)
  <2> SUFFICES ASSUME NEW f \in Files, NEW h \in Files, NEW v \in Ways, NEW w \in Ways,
                      Refers(fs, f, v) # 0, Refers(fs, f, v) = Refers(fs, h, w)
               PROVE  f = h /\ Agree(v, w)
    BY SMT DEF Unshared
  <2>1. f = g /\ h = g
    BY <1>13
  <2>2. v[1] = w[1] /\ (v[1] = "direct" => v[2] = w[2]) /\ (v[1] = "listed" => v[2] = w[2])
    BY <1>0, <1>13, <2>1, WayKinds, SMT
  <2>3. v = w
    BY <1>13, <2>1, <2>2, WayKinds, SMT
  <2> QED
    BY <2>1, <2>3 DEF Agree
<1>15. Marked(fs)
  <2> SUFFICES ASSUME NEW f \in Files, NEW w \in Ways, Refers(fs, f, w) # 0
               PROVE  Refers(fs, f, w) \in 1 .. Taken(n)
    BY <1>3 DEF Marked
  <2> QED
    BY <1>0, <1>2, <1>13, WayKinds, SMT
<1>16. Listed(fs) /\ Sized(fs, size)
  <2>1. Listed(fs)
    BY <1>9, <1>10, <1>11, <1>12, Numbers, SMT DEF Listed
  <2>2. n > ND => fs.ind[g] # 0
    BY <1>0, <1>2, <1>3, SMT
  <2>3. ~ (0 > ND)
    BY <1>0, SMT
  <2>4. Sized(fs, size)
    BY <1>8, <2>2, <2>3, SMT DEF Sized
  <2> QED
    BY <2>1, <2>4
<1>17. Kept(fs, size)
  <2>1. ASSUME NEW f \in Files, NEW bn \in Places
        PROVE  DirectKept(fs, size[f], f, bn)
    <3> SUFFICES ASSUME bn < size[f], bn < ND
                 PROVE  fs.direct[f][bn] # 0 /\ Loaded(fs, fs.direct[f][bn]) = <<f, bn>>
      BY DEF DirectKept
    <3>0. bn \in Nat /\ bn \in Directs
      BY <1>0, <2>1, SMT DEF Places, Directs
    <3>1. f = g /\ bn < n
      BY <1>8, <2>1, <3>0, SMT
    <3>2. fs.direct[f][bn] = bn + 1
      BY <1>2, <1>3, <3>0, <3>1, SMT
    <3>3. bn + 1 \in Blocks /\ bn + 1 <= Taken(n) /\ bn + 1 <= ND /\ bn + 1 # 0 /\ (bn + 1) - 1 = bn
      BY <1>0, <1>2, <3>0, <3>1, SMT DEF Blocks
    <3> QED
      BY <1>9, <1>10, <3>1, <3>2, <3>3
  <2>2. ASSUME NEW f \in Files, NEW bn \in Places
        PROVE  EntryKept(fs, size[f], f, bn)
    BY <1>10, <1>11, <1>12, <2>2 DEF EntryKept
  <2> QED
    BY <2>1, <2>2 DEF Kept
<1> QED
  BY <1>1, <1>7, <1>8, <1>9, <1>14, <1>15, <1>16, <1>17 DEF IInv, TypeOK, Good
-----------------------------------------------------------------------------
(***************************************************************************)
(* The theorems.                                                           *)
(***************************************************************************)
\* The invariant is inductive.
LEMMA Invariant == Spec => []IInv
<1>1. Init => IInv
  BY InitGood
<1>2. IInv /\ [Next]_vars => IInv'
  <2> SUFFICES ASSUME IInv, [Next]_vars
               PROVE  IInv'
    OBVIOUS
  <2>1. CASE BeginOp
    <3>1. Good(fs', size') /\ disk' = disk
      BY <2>1 DEF BeginOp, IInv
    <3> QED
      BY <2>1, <3>1, Carried DEF BeginOp, IInv, TypeOK
  <2>2. CASE EndOp
    BY <2>2, EndOpStep
  <2>3. ASSUME NEW f \in Files, Truncate(f)
        PROVE  IInv'
    BY <2>3, TruncateStep
  <2>4. ASSUME NEW f \in Files, NEW bn \in Places, ReadBlock(f, bn)
        PROVE  IInv'
    BY <2>4, ReadBlockStep
  <2>5. ASSUME NEW f \in Files, NEW bn \in Places, WriteBlock(f, bn)
        PROVE  IInv'
    BY <2>5, WriteBlockStep
  <2>6. ASSUME NEW f \in Files, NEW bn \in Places, WriteFails(f, bn)
        PROVE  IInv'
    BY <2>6, WriteFailsStep
  <2>7. CASE UNCHANGED vars
    <3>1. Good(fs', size') /\ disk' = disk
      BY <2>7 DEF vars, IInv
    <3> QED
      BY <2>7, <3>1, Carried DEF vars, IInv, TypeOK
  <2> QED
    BY <2>1, <2>2, <2>3, <2>4, <2>5, <2>6, <2>7 DEF Next
<1> QED
  BY <1>1, <1>2, PTL DEF Spec

\* No block belongs to two files, or to two places of one, as truncate finds them on
\* the disk and as bmap finds them in the buffer it does not read.
THEOREM FileDataUnshared == Spec => []BlocksUnshared
<1>1. IInv => BlocksUnshared
  BY DEF IInv, Good, BlocksUnshared
<1> QED
  BY <1>1, Invariant, PTL

\* Every block a file refers to is marked in the bitmap: allocateBlock gives it to no
\* one else, and the assertion of freeBlock holds when truncate frees it.
THEOREM FileDataMarked == Spec => []BlocksMarked
<1>1. IInv => BlocksMarked
  BY DEF IInv, Good, BlocksMarked
<1> QED
  BY <1>1, Invariant, PTL

\* The blocks that bmap finds below the size of a file hold what was last written
\* there, through commits and whatever other files do.
THEOREM FileDataKept == Spec => []DataKept
<1>1. IInv => DataKept
  BY DEF IInv, Good, DataKept
<1> QED
  BY <1>1, Invariant, PTL

\* The variables keep their types.
THEOREM FileDataTypeCorrect == Spec => []TypeOK
<1>1. IInv => TypeOK
  BY DEF IInv
<1> QED
  BY <1>1, Invariant, PTL
=============================================================================
