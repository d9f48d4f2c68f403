----------------------------- MODULE FileData -----------------------------
(***************************************************************************)
(* Where files keep their data: the block bitmap (kernel/fs/block.cpp) and *)
(* Inode::bmap, read, write and truncate (kernel/fs/inode.cpp), with the   *)
(* buffers they go through (kernel/fs/buffer.cpp) and the image make_disk  *)
(* has written (disk/make_disk.cpp).                                       *)
(*                                                                         *)
(* The inode of a file is locked during an operation, the bitmap has one   *)
(* buffer, and every writer is inside an operation of the log; so that one *)
(* block of a read or a write is a step.  A buffer stays in the cache from *)
(* its first writeLog to the commit, which comes when no operation is open *)
(* any more.  A block holds the list of an indirect block, or data, which  *)
(* is told apart by the file and the place it was last written to.  bmap   *)
(* looks into the buffer of the indirect block without reading it from the *)
(* disk, and a buffer that is new in the cache is filled with zeros.       *)
(*                                                                         *)
(* fillBlock's memset stops one byte short, so that a block which is given *)
(* out again keeps the last byte it held.  It is the top byte of the last  *)
(* entry of an indirect block; the files here end their blocks in a zero.  *)
(*                                                                         *)
(* An operator whose name ends in Variant is a faulty form of the operator *)
(* that follows it; no specification uses it.                              *)
(***************************************************************************)
EXTENDS Naturals, FiniteSets

CONSTANTS Files,
          NumBlocks,           \* the blocks of the disk that files can use
          NUM_DIRECT_BLOCKS,
          NUM_INDIRECT_BLOCKS,
          Absent               \* not in the buffer cache

VARIABLES fs,     \* what bmap and truncate change:
                  \*   used, the bits that are set in the bitmap
                  \*   direct and ind, Inode::directBlocks and indirectBlock, 0 for none
                  \*   cache, the buffers that wait for the commit, or Absent
          size,   \* Inode::size, in blocks
          disk,   \* the contents of the blocks on the disk
          open,   \* log.outstanding >= 1: some operation is open
          panic   \* the assertion that has failed, or "no"

vars == <<fs, size, disk, open, panic>>

Blocks == 1 .. NumBlocks
MAX_FILE == NUM_DIRECT_BLOCKS + NUM_INDIRECT_BLOCKS
Places == 0 .. MAX_FILE - 1
Directs == 0 .. NUM_DIRECT_BLOCKS - 1
Entries == 0 .. NUM_INDIRECT_BLOCKS - 1
Zero == [i \in Entries |-> 0]

Data == Files \X Places
Lists == [Entries -> 0 .. NumBlocks]
Contents == Data \cup Lists
Buffers == [valid : BOOLEAN, data : Contents]

ASSUME FileDataAssumption ==
    /\ {NumBlocks, NUM_DIRECT_BLOCKS, NUM_INDIRECT_BLOCKS} \subseteq Nat
    /\ Absent \notin Buffers
-----------------------------------------------------------------------------
\* make_disk appends to a file block after block, each time taking the next block
\* of the disk, and the indirect block before the first block that it lists; at
\* last it marks in the bitmap all that it has taken.  Here one file has n blocks.
Taken(n) == IF n > NUM_DIRECT_BLOCKS THEN n + 1 ELSE n
Appended(n, i) == IF i >= n THEN 0 ELSE IF i < NUM_DIRECT_BLOCKS THEN i + 1 ELSE i + 2
Indirect(n) == IF n > NUM_DIRECT_BLOCKS THEN NUM_DIRECT_BLOCKS + 1 ELSE 0

Init ==
    \E g \in Files, n \in 0 .. MAX_FILE :
       /\ Taken(n) <= NumBlocks
       /\ fs = [used |-> 1 .. Taken(n),
                direct |-> [f \in Files |-> [i \in Directs |-> IF f = g THEN Appended(n, i) ELSE 0]],
                ind |-> [f \in Files |-> IF f = g THEN Indirect(n) ELSE 0],
                cache |-> [b \in Blocks |-> Absent]]
       /\ size = [f \in Files |-> IF f = g THEN n ELSE 0]
       /\ disk = [b \in Blocks |->
                    IF b > Taken(n) THEN Zero
                    ELSE IF b = Indirect(n)
                    THEN [i \in Entries |-> Appended(n, NUM_DIRECT_BLOCKS + i)]
                    ELSE IF b > NUM_DIRECT_BLOCKS THEN <<g, b - 2>> ELSE <<g, b - 1>>]
       /\ open = FALSE
       /\ panic = "no"
-----------------------------------------------------------------------------
(* Buffers *)

\* BufferCache::get: a buffer that is not in the cache is new, zero and not valid.
Get(s, b) == IF s.cache[b] = Absent THEN [valid |-> FALSE, data |-> Zero] ELSE s.cache[b]

\* Buffer::read after get.
Read(buf, b) == IF buf.valid THEN buf ELSE [valid |-> TRUE, data |-> disk[b]]
Loaded(s, b) == Read(Get(s, b), b).data

\* writeLog and release: the buffer is pinned and stays in the cache.
WriteLog(s, b, buf) == [s EXCEPT !.cache[b] = buf]

\* release of a buffer without writeLog: it stays only if the log has pinned it.
Release(s, b, buf) == IF s.cache[b] = Absent THEN s ELSE [s EXCEPT !.cache[b] = buf]
-----------------------------------------------------------------------------
(* The bitmap *)

\* allocateBlock, which looks for the first clear bit: the block, or 0, and
\* what has become of s.  The last step is fillBlock.
AllocateBlock(s) ==
    LET free == Blocks \ s.used
        b == CHOOSE x \in free : \A y \in free : x <= y
    IN IF free = {} THEN [block |-> 0, to |-> s]
       ELSE [block |-> b,
             to |-> WriteLog([s EXCEPT !.used = @ \cup {b}], b, [valid |-> TRUE, data |-> Zero])]

\* freeBlock, which asserts that the bit is set, of several blocks.
FreeBlocks(s, blocks) == [s EXCEPT !.used = @ \ blocks]
-----------------------------------------------------------------------------
(* Inode::bmap, for the direct and for the indirect blocks *)

BmapDirect(s, f, bn) ==
    LET a == AllocateBlock(s)
    IN IF s.direct[f][bn] # 0 THEN [block |-> s.direct[f][bn], to |-> s]
       ELSE [block |-> a.block, to |-> [a.to EXCEPT !.direct[f][bn] = a.block]]

\* The indirect block exists; its buffer is used as get returns it.
BmapEntry(s, f, i) ==
    LET buf == Get(s, s.ind[f])
        a == AllocateBlock(s)
    IN IF buf.data[i] # 0 \/ a.block = 0 THEN [block |-> buf.data[i], to |-> s]
       ELSE [block |-> a.block,
             to |-> WriteLog(a.to, s.ind[f], [buf EXCEPT !.data[i] = a.block])]

BmapIndirect(s, f, i) ==
    LET a == AllocateBlock(s)
    IN IF s.ind[f] # 0 THEN BmapEntry(s, f, i)
       ELSE IF a.block = 0 THEN [block |-> 0, to |-> s]
       ELSE BmapEntry([a.to EXCEPT !.ind[f] = a.block], f, i)

Bmap(s, f, bn) == IF bn < NUM_DIRECT_BLOCKS THEN BmapDirect(s, f, bn)
                  ELSE BmapIndirect(s, f, bn - NUM_DIRECT_BLOCKS)
-----------------------------------------------------------------------------
(* The log, as far as it concerns the buffers *)

BeginOp == /\ panic = "no"
           /\ ~open
           /\ open' = TRUE
           /\ UNCHANGED <<fs, size, disk, panic>>

\* commit writes what the buffers hold after Buffer::read, and unpins them.
EndOp == /\ panic = "no"
         /\ open
         /\ open' = FALSE
         /\ disk' = [b \in Blocks |-> Loaded(fs, b)]
         /\ fs' = [fs EXCEPT !.cache = [b \in Blocks |-> Absent]]
         /\ UNCHANGED <<size, panic>>
-----------------------------------------------------------------------------
(* Inode::read, write and truncate *)

\* A block of Inode::read, from File::read, which opens no operation: when bmap
\* allocates a block, writeLog asserts that someone else has one open.
ReadBlock(f, bn) ==
    LET r == Bmap(fs, f, bn)
    IN /\ panic = "no"
       /\ bn < size[f]
       /\ IF r.to = fs \/ open THEN fs' = r.to /\ panic' = panic
                               ELSE fs' = fs /\ panic' = "outstanding >= 1"
       /\ UNCHANGED <<size, disk, open>>

\* The new size after a block at bn; the data went to block b.
SizeAfterVariant(f, bn, b) == IF bn >= size[f] THEN bn + 1 ELSE size[f]
SizeAfter(f, bn, b) == IF b # 0 /\ bn >= size[f] THEN bn + 1 ELSE size[f]

\* A block of Inode::write: no block is left, or it is written.
WriteBlock(f, bn) ==
    LET r == Bmap(fs, f, bn)
    IN /\ panic = "no"
       /\ open
       /\ bn <= size[f]
       /\ fs' = IF r.block = 0 THEN r.to
                ELSE WriteLog(r.to, r.block, [valid |-> TRUE, data |-> <<f, bn>>])
       /\ size' = [size EXCEPT ![f] = SizeAfter(f, bn, r.block)]
       /\ UNCHANGED <<disk, open, panic>>

\* The same when eitherCopyin fails: the block is allocated and stays as it is.
WriteFails(f, bn) ==
    LET r == Bmap(fs, f, bn)
    IN /\ panic = "no"
       /\ open
       /\ bn <= size[f]
       /\ r.block # 0
       /\ fs' = Release(r.to, r.block, Read(Get(r.to, r.block), r.block))
       /\ UNCHANGED <<size, disk, open, panic>>

\* The blocks that truncate finds: the direct ones, the ones listed by the indirect
\* block, which it reads, and the indirect block itself.
DirectOf(s, f) == {s.direct[f][i] : i \in Directs} \ {0}
ListedBy(s, f) == IF s.ind[f] = 0 THEN {}
                  ELSE {Loaded(s, s.ind[f])[i] : i \in Entries} \ {0}
Found(s, f) == DirectOf(s, f) \cup ListedBy(s, f) \cup ({s.ind[f]} \ {0})

ClearedVariant(s, f) == [s EXCEPT !.ind[f] = 0]
Cleared(s, f) == [s EXCEPT !.direct[f] = [i \in Directs |-> 0], !.ind[f] = 0]

Truncate(f) ==
    LET J == fs.ind[f]
        s == IF J = 0 THEN fs ELSE Release(fs, J, Read(Get(fs, J), J))
    IN /\ panic = "no"
       /\ open
       /\ IF Found(fs, f) \subseteq fs.used
          THEN /\ fs' = Cleared(FreeBlocks(s, Found(fs, f)), f)
               /\ size' = [size EXCEPT ![f] = 0]
               /\ panic' = panic
          ELSE panic' = "data[bit / 8] & mask" /\ UNCHANGED <<fs, size>>
       /\ UNCHANGED <<disk, open>>

Next == \/ BeginOp
        \/ EndOp
        \/ \E f \in Files :
              \/ Truncate(f)
              \/ \E bn \in Places : ReadBlock(f, bn) \/ WriteBlock(f, bn) \/ WriteFails(f, bn)

Spec == Init /\ [][Next]_vars
-----------------------------------------------------------------------------
(* Properties *)

\* The variables have the values the code gives them.
FileSystems == [used : SUBSET Blocks,
                direct : [Files -> [Directs -> 0 .. NumBlocks]],
                ind : [Files -> 0 .. NumBlocks],
                cache : [Blocks -> Buffers \cup {Absent}]]

TypeOK == /\ fs \in FileSystems
          /\ size \in [Files -> 0 .. MAX_FILE]
          /\ disk \in [Blocks -> Contents]
          /\ open \in BOOLEAN
          /\ panic \in {"no", "outstanding >= 1", "data[bit / 8] & mask"}

\* How a file can refer to a block, and the block, or 0: an entry of the indirect
\* block is listed when truncate finds it, and seen when bmap does.
Ways == ({"direct"} \X Directs) \cup {<<"indirect", 0>>} \cup ({"listed", "seen"} \X Entries)
Refers(s, f, w) ==
    CASE w[1] = "direct" -> s.direct[f][w[2]]
      [] w[1] = "indirect" -> s.ind[f]
      [] w[1] = "listed" -> IF s.ind[f] = 0 THEN 0 ELSE Loaded(s, s.ind[f])[w[2]]
      [] w[1] = "seen" -> IF s.ind[f] = 0 THEN 0 ELSE Get(s, s.ind[f]).data[w[2]]

\* Two ways that are one, or look at one entry of the indirect block.
Agree(v, w) == v = w \/ ({v[1], w[1]} = {"listed", "seen"} /\ v[2] = w[2])

\* No block is used twice, by two files or at two places of one, whichever way its
\* indirect block is looked at; although bmap, which does not read the indirect
\* block, gives a second block to a place that has one on the disk.
Unshared(s) ==
    \A f, g \in Files, v, w \in Ways :
        Refers(s, f, v) # 0 /\ Refers(s, f, v) = Refers(s, g, w) => f = g /\ Agree(v, w)
BlocksUnshared == Unshared(fs)

\* Every block a file refers to is marked in the bitmap: allocateBlock does not give
\* it to anyone else, and the assertion of freeBlock holds when truncate frees it.
Marked(s) == \A f \in Files, w \in Ways : Refers(s, f, w) \in s.used \cup {0}
BlocksMarked == Marked(fs)

\* The direct blocks below the size of a file hold what was last written there,
\* through commits and whatever other files do; so do the others as long as the
\* indirect block was allocated in this transaction.
DirectKept(s, n, f, bn) ==
    bn < n /\ bn < NUM_DIRECT_BLOCKS =>
        s.direct[f][bn] # 0 /\ Loaded(s, s.direct[f][bn]) = <<f, bn>>
EntryKept(s, n, f, bn) ==
    bn < n /\ bn >= NUM_DIRECT_BLOCKS /\ s.ind[f] # 0 /\ Get(s, s.ind[f]).valid =>
        LET b == Get(s, s.ind[f]).data[bn - NUM_DIRECT_BLOCKS]
        IN  b # 0 /\ Loaded(s, b) = <<f, bn>>
Kept(s, n) == \A f \in Files, bn \in Places : DirectKept(s, n[f], f, bn) /\ EntryKept(s, n[f], f, bn)
DataKept == Kept(fs, size)

\* writeLog is called inside an operation of the log, as it asserts.
LogsInsideOperation == panic # "outstanding >= 1"
=============================================================================
