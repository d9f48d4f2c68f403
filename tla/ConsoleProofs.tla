--------------------------- MODULE ConsoleProofs ---------------------------
(***************************************************************************)
(* Proofs about Console for every number of readers, every buffer size and *)
(* every character set.                                                    *)
(***************************************************************************)
EXTENDS Console, TLAPS

\* The inductive invariant: the two cursor properties need each other (room in
\* the ring is what keeps a typed character from lapping the reader), and that
\* nobody sleeps over input needs to know that only the owner of cons.mutex is
\* inside the loop.
IInv ==
    /\ TypeOK
    /\ CursorsOrdered
    /\ FullBufferIsReadable
    /\ NoSleepOverInput
    /\ LoopHoldsMutex

LEMMA InitIInv == Init => IInv
  <1> SUFFICES ASSUME Init PROVE IInv
    OBVIOUS
  <1>1. EOT \in Char
    BY DEF Char
  <1>2. TypeOK
    BY <1>1 DEF Init, TypeOK, PCs
  <1>3. QED
    BY <1>2, ConsoleAssumption DEF Init, IInv, CursorsOrdered, FullBufferIsReadable,
      NoSleepOverInput, LoopHoldsMutex

\* consoleInterrupt with a character that is stored.
LEMMA TypeCharIInv == ASSUME NEW c \in Char \cup {CR}, IInv, TypeChar(c) PROVE IInv'
  <1> USE ConsoleAssumption DEF IInv
  <1>1. Stored(c) \in Char
    BY DEF Stored, Char
  <1>2. editPos % BUF_SIZE \in Slots
    BY DEF TypeOK, Slots
  <1>3. buf' \in [Slots -> Char]
    BY <1>1, <1>2 DEF TypeOK, TypeChar
  <1>4. pc' \in [Readers -> PCs]
    BY DEF TypeOK, TypeChar, Woken, PCs
  <1>5. TypeOK'
    BY <1>3, <1>4 DEF TypeOK, TypeChar
  <1>6. CursorsOrdered' /\ FullBufferIsReadable'
    BY DEF TypeOK, TypeChar, Room, Submits, CursorsOrdered, FullBufferIsReadable
  <1>7. NoSleepOverInput'
    <2>1. CASE Submits(Stored(c))
      BY <2>1 DEF TypeOK, TypeChar, Woken, NoSleepOverInput
    <2>2. CASE ~Submits(Stored(c))
      BY <2>2 DEF TypeOK, TypeChar, NoSleepOverInput
    <2>3. QED
      BY <2>1, <2>2
  <1>8. LoopHoldsMutex'
    BY DEF TypeOK, TypeChar, Woken, LoopHoldsMutex
  <1>9. QED
    BY <1>5, <1>6, <1>7, <1>8

LEMMA EraseCharIInv == ASSUME IInv, EraseChar PROVE IInv'
  BY ConsoleAssumption DEF IInv, TypeOK, EraseChar, EraseStart, CursorsOrdered,
    FullBufferIsReadable, NoSleepOverInput, LoopHoldsMutex

\* The steps of one reader.
LEMMA CallIInv == ASSUME NEW r \in Readers, NEW n \in Lens, IInv, Call(r, n) PROVE IInv'
  BY ConsoleAssumption DEF IInv, TypeOK, Call, PCs, CursorsOrdered, FullBufferIsReadable,
    NoSleepOverInput, LoopHoldsMutex

LEMMA StepIInv == ASSUME NEW r \in Readers, IInv, Step(r) PROVE IInv'
  <1> USE ConsoleAssumption DEF IInv, TypeOK, PCs, CursorsOrdered, FullBufferIsReadable,
        NoSleepOverInput, LoopHoldsMutex
  <1>1. CASE Sleep(r)
    BY <1>1 DEF Sleep
  <1>2. CASE Wake(r)
    BY <1>2 DEF Wake
  <1>3. CASE ReadChar(r)
    <2>1. readPos' \in Nat /\ readPos <= readPos' /\ readPos' <= writePos
      BY <1>3 DEF ReadChar
    <2>2. \A q \in Readers : pc[q] # "asleep"
      BY <1>3 DEF ReadChar
    <2>3. TypeOK'
      BY <1>3, <2>1 DEF ReadChar
    <2>4. QED
      BY <1>3, <2>1, <2>2, <2>3 DEF ReadChar
  <1>4. CASE Return(r)
    BY <1>4 DEF Return
  <1>5. QED
    BY <1>1, <1>2, <1>3, <1>4 DEF Step

LEMMA NextIInv == IInv /\ [Next]_vars => IInv'
  <1> SUFFICES ASSUME IInv, [Next]_vars PROVE IInv'
    OBVIOUS
  <1>1. ASSUME NEW c \in Input, ConsoleInterrupt(c) PROVE IInv'
    BY <1>1, TypeCharIInv, EraseCharIInv DEF ConsoleInterrupt, Input
  <1>2. ASSUME NEW r \in Readers, Step(r) PROVE IInv'
    BY <1>2, StepIInv
  <1>3. ASSUME NEW r \in Readers, NEW n \in Lens, Call(r, n) PROVE IInv'
    BY <1>3, CallIInv
  <1>4. CASE UNCHANGED vars
    BY <1>4 DEF vars, IInv, TypeOK, CursorsOrdered, FullBufferIsReadable,
      NoSleepOverInput, LoopHoldsMutex
  <1>5. QED
    BY <1>1, <1>2, <1>3, <1>4 DEF Next

\* The inductive invariant holds, however interrupts and readers interleave.
LEMMA Invariant == Spec => []IInv
  BY InitIInv, NextIInv, PTL DEF Spec

\* Every variable of the console keeps its type.
THEOREM ConsoleTypeCorrect == Spec => []TypeOK
  <1>1. IInv => TypeOK
    BY DEF IInv
  <1>2. QED
    BY <1>1, Invariant, PTL

\* The cursors of cons stay in order and at most a lap of the ring apart, for every
\* BUF_SIZE (consoleInterrupt and readline move them).
THEOREM ConsoleCursors == Spec => []CursorsOrdered
  <1>1. IInv => CursorsOrdered
    BY DEF IInv
  <1>2. QED
    BY <1>1, Invariant, PTL

\* When consoleInterrupt has to drop characters because cons.buf is full, all of it is
\* there for readline to read, so that the buffer is emptied again.
THEOREM ConsoleFullIsReadable == Spec => []FullBufferIsReadable
  <1>1. IInv => FullBufferIsReadable
    BY DEF IInv
  <1>2. QED
    BY <1>1, Invariant, PTL

\* No reader sleeps in readline while a line is ready: the wakeup of consoleInterrupt
\* is never lost between the test of the cursors and the sleep.
THEOREM ConsoleNoSleepOverInput == Spec => []NoSleepOverInput
  <1>1. IInv => NoSleepOverInput
    BY DEF IInv
  <1>2. QED
    BY <1>1, Invariant, PTL
-----------------------------------------------------------------------------
(***************************************************************************)
(* The ring implements the queue of LineQueue.                             *)
(***************************************************************************)
\* Two positions less than a lap apart use different slots of the ring.
LEMMA SlotsDiffer ==
    ASSUME NEW a \in Nat, NEW b \in Nat, NEW n \in Nat \ {0}, a < b, b < a + n
    PROVE  a % n # b % n
  <1> DEFINE qa == a \div n
             qb == b \div n
  <1>1. qa \in Nat /\ qb \in Nat /\ a = n * qa + (a % n) /\ b = n * qb + (b % n)
    BY Z3
  <1>2. SUFFICES ASSUME a % n = b % n PROVE FALSE
    OBVIOUS
  <1>3. a % n \in Nat
    BY Z3
  <1> HIDE DEF qa, qb
  <1>4. b - a = n * qb - n * qa
    BY <1>1, <1>2, <1>3
  <1>5. n * qb - n * qa = n * (qb - qa)
    BY <1>1
  <1>6. CASE qb <= qa
    <2>1. n * (qb - qa) <= 0
      BY <1>1, <1>6
    <2>2. QED
      BY <2>1, <1>4, <1>5
  <1>7. CASE qb > qa
    <2>1. n * (qb - qa) >= n
      BY <1>1, <1>7
    <2>2. QED
      BY <2>1, <1>4, <1>5
  <1>8. QED
    BY <1>1, <1>6, <1>7

\* A function on 1 .. n is a sequence.
LEMMA FunctionSeq ==
    ASSUME NEW S, NEW n \in Nat, NEW f \in [1 .. n -> S] PROVE f \in Seq(S) /\ Len(f) = n
  OBVIOUS

\* The stretch of the ring between two cursors is a sequence, of characters.
LEMMA WindowSeq ==
    ASSUME IInv, NEW a \in Nat, NEW b \in Nat, a <= b
    PROVE  /\ Window(a, b) \in Seq(Char)
           /\ Len(Window(a, b)) = b - a
           /\ DOMAIN Window(a, b) = 1 .. b - a
           /\ \A i \in 1 .. b - a : Window(a, b)[i] = buf[(a + i - 1) % BUF_SIZE]
  <1>1. ASSUME NEW i \in 1 .. b - a PROVE buf[(a + i - 1) % BUF_SIZE] \in Char
    <2>1. (a + i - 1) % BUF_SIZE \in Slots
      BY ConsoleAssumption DEF Slots
    <2>2. QED
      BY <2>1 DEF IInv, TypeOK
  <1>2. b - a \in Nat
    OBVIOUS
  <1>3. Window(a, b) \in [1 .. b - a -> Char]
    BY <1>1 DEF Window
  <1>4. Window(a, b) \in Seq(Char) /\ Len(Window(a, b)) = b - a
    BY <1>2, <1>3, FunctionSeq
  <1>5. QED
    BY <1>4 DEF Window

\* How to recognise what the queue does to a sequence.
LEMMA IsAppend ==
    ASSUME NEW S, NEW s \in Seq(S), NEW x \in S, NEW t \in Seq(S), Len(t) = Len(s) + 1,
           \A i \in 1 .. Len(s) : t[i] = s[i], t[Len(s) + 1] = x
    PROVE  t = Append(s, x)
  OBVIOUS

\* A sequence followed by another.
LEMMA IsConcat ==
    ASSUME NEW S, NEW r \in Seq(S), NEW s \in Seq(S), NEW t \in Seq(S),
           Len(t) = Len(r) + Len(s), \A i \in 1 .. Len(r) : t[i] = r[i],
           \A i \in 1 .. Len(s) : t[Len(r) + i] = s[i]
    PROVE  t = r \o s
  <1>1. r \o s \in Seq(S) /\ Len(r \o s) = Len(r) + Len(s)
    OBVIOUS
  <1>2. ASSUME NEW i \in 1 .. Len(t) PROVE t[i] = (r \o s)[i]
    <2>1. CASE i <= Len(r)
      BY <2>1
    <2>2. CASE i > Len(r)
      <3>1. i - Len(r) \in 1 .. Len(s) /\ Len(r) + (i - Len(r)) = i
        BY <2>2
      <3>2. (r \o s)[i] = s[i - Len(r)]
        BY <2>2
      <3>3. QED
        BY <3>1, <3>2
    <2>3. QED
      BY <2>1, <2>2
  <1>3. QED
    BY <1>1, <1>2

\* A sequence without its first element.
LEMMA IsTail ==
    ASSUME NEW S, NEW s \in Seq(S), NEW t \in Seq(S), Len(s) > 0,
           Len(t) = Len(s) - 1, \A i \in 1 .. Len(t) : t[i] = s[i + 1]
    PROVE  t = Tail(s) /\ s # << >>
  OBVIOUS

\* A sequence without its last element.
LEMMA IsFront ==
    ASSUME NEW S, NEW s \in Seq(S), NEW t \in Seq(S), Len(s) > 0,
           Len(t) = Len(s) - 1, \A i \in 1 .. Len(t) : t[i] = s[i]
    PROVE  t = SubSeq(s, 1, Len(s) - 1) /\ s # << >>
  OBVIOUS

\* A sequence with no element, and two with the same ones.
LEMMA IsSame ==
    ASSUME NEW S, NEW s \in Seq(S), NEW t \in Seq(S), Len(t) = Len(s),
           \A i \in 1 .. Len(s) : t[i] = s[i]
    PROVE  t = s /\ (Len(s) = 0 => s = << >>)
  OBVIOUS

\* What the queue of LineQueue stands for.
Ready == Window(readPos, writePos)
Edited == Window(writePos, editPos)

\* The character at a position of the ring, and after a step.
At(x) == buf[x % BUF_SIZE]
NextAt(x) == buf'[x % BUF_SIZE]

\* Both are sequences of characters, with the characters between the cursors.
LEMMA Windows ==
    IInv => /\ Ready \in Seq(Char) /\ Len(Ready) = writePos - readPos
            /\ \A i \in 1 .. writePos - readPos : Ready[i] = At(readPos + i - 1)
            /\ Edited \in Seq(Char) /\ Len(Edited) = editPos - writePos
            /\ \A i \in 1 .. editPos - writePos : Edited[i] = At(writePos + i - 1)
  <1> SUFFICES ASSUME IInv
               PROVE  /\ Ready \in Seq(Char) /\ Len(Ready) = writePos - readPos
                      /\ \A i \in 1 .. writePos - readPos : Ready[i] = At(readPos + i - 1)
                      /\ Edited \in Seq(Char) /\ Len(Edited) = editPos - writePos
                      /\ \A i \in 1 .. editPos - writePos : Edited[i] = At(writePos + i - 1)
    OBVIOUS
  <1>1. /\ readPos \in Nat /\ writePos \in Nat /\ editPos \in Nat
        /\ readPos <= writePos /\ writePos <= editPos
    BY DEF IInv, TypeOK, CursorsOrdered
  <1>2. QED
    BY <1>1, WindowSeq DEF Ready, Edited, At

\* A character is stored in a slot that holds nothing between the cursors.
LEMMA SlotsKept ==
    ASSUME IInv, NEW c \in Char \cup {CR}, TypeChar(c), NEW x \in Nat, readPos <= x, x < editPos
    PROVE  NextAt(x) = At(x)
  <1>1. editPos \in Nat /\ editPos < x + BUF_SIZE
    BY ConsoleAssumption DEF IInv, TypeOK, TypeChar, Room
  <1>2. x % BUF_SIZE # editPos % BUF_SIZE
    BY <1>1, SlotsDiffer, ConsoleAssumption
  <1>3. x % BUF_SIZE \in Slots
    BY ConsoleAssumption DEF Slots
  <1>4. QED
    BY <1>2, <1>3 DEF IInv, TypeOK, TypeChar, At, NextAt

\* A character that is stored is appended to the edited line, and moves it behind the
\* ready characters when it submits it.
LEMMA TypeCharQueue ==
    ASSUME IInv, NEW c \in Char \cup {CR}, TypeChar(c)
    PROVE  Lines!Type(Stored(c)) \/ Lines!Submit(Stored(c))
  <1> DEFINE d == Stored(c)
  <1>1. d \in Char
    BY DEF Stored, Char
  <1>2. /\ readPos \in Nat /\ writePos \in Nat /\ editPos \in Nat
        /\ readPos <= writePos /\ writePos <= editPos
        /\ readPos' = readPos /\ editPos' = editPos + 1
        /\ editPos - readPos < BUF_SIZE
    BY DEF IInv, TypeOK, CursorsOrdered, TypeChar, Room
  <1>3. NextAt(editPos) = d
    <2>1. editPos % BUF_SIZE \in Slots
      BY <1>2, ConsoleAssumption DEF Slots
    <2>2. QED
      BY <2>1 DEF IInv, TypeOK, TypeChar, NextAt
  <1>4. \A x \in Nat : readPos <= x /\ x < editPos => NextAt(x) = At(x)
    BY SlotsKept
  <1>5. /\ Ready \in Seq(Char) /\ Len(Ready) = writePos - readPos
        /\ \A i \in 1 .. writePos - readPos : Ready[i] = At(readPos + i - 1)
        /\ Edited \in Seq(Char) /\ Len(Edited) = editPos - writePos
        /\ \A i \in 1 .. editPos - writePos : Edited[i] = At(writePos + i - 1)
    BY Windows
  <1>6. /\ Ready' \in Seq(Char) /\ Len(Ready') = writePos' - readPos'
        /\ \A i \in 1 .. writePos' - readPos' : Ready'[i] = NextAt(readPos' + i - 1)
        /\ Edited' \in Seq(Char) /\ Len(Edited') = editPos' - writePos'
        /\ \A i \in 1 .. editPos' - writePos' : Edited'[i] = NextAt(writePos' + i - 1)
    <2>1. IInv'
      BY TypeCharIInv
    <2>2. (IInv => /\ Ready \in Seq(Char) /\ Len(Ready) = writePos - readPos
                   /\ \A i \in 1 .. writePos - readPos : Ready[i] = At(readPos + i - 1)
                   /\ Edited \in Seq(Char) /\ Len(Edited) = editPos - writePos
                   /\ \A i \in 1 .. editPos - writePos : Edited[i] = At(writePos + i - 1))'
      BY Windows, PTL
    <2>3. QED
      BY <2>1, <2>2 DEF At, NextAt
  <1> HIDE DEF d
  <1>7. Len(Ready) + Len(Edited) < BUF_SIZE
    BY <1>2, <1>5
  <1>8. \A i \in 1 .. writePos - readPos : NextAt(readPos + i - 1) = Ready[i]
    <2> SUFFICES ASSUME NEW i \in 1 .. writePos - readPos PROVE NextAt(readPos + i - 1) = Ready[i]
      OBVIOUS
    <2>1. readPos + i - 1 \in Nat /\ readPos <= readPos + i - 1 /\ readPos + i - 1 < editPos
      BY <1>2
    <2>2. QED
      BY <2>1, <1>4, <1>5
  <1>9. \A i \in 1 .. editPos - writePos : NextAt(writePos + i - 1) = Edited[i]
    <2> SUFFICES ASSUME NEW i \in 1 .. editPos - writePos PROVE NextAt(writePos + i - 1) = Edited[i]
      OBVIOUS
    <2>1. writePos + i - 1 \in Nat /\ readPos <= writePos + i - 1 /\ writePos + i - 1 < editPos
      BY <1>2
    <2>2. QED
      BY <2>1, <1>4, <1>5
  <1>10. CASE ~Submits(d)
    <2>1. writePos' = writePos
      BY <1>10 DEF TypeChar, d
    <2>2. Ready' = Ready
      <3>1. Len(Ready') = Len(Ready) /\ \A i \in 1 .. Len(Ready) : Ready'[i] = Ready[i]
        BY <1>2, <1>5, <1>6, <1>8, <2>1
      <3>2. QED
        BY <3>1, <1>5, <1>6, IsSame
    <2>3. Edited' = Append(Edited, d)
      <3>1. Len(Edited') = Len(Edited) + 1
        BY <1>2, <1>5, <1>6, <2>1
      <3>2. \A i \in 1 .. Len(Edited) : Edited'[i] = Edited[i]
        BY <1>2, <1>5, <1>6, <1>9, <2>1
      <3>3. Edited'[Len(Edited) + 1] = d
        <4>1. Len(Edited) + 1 \in 1 .. editPos' - writePos' /\ writePos' + (Len(Edited) + 1) - 1 = editPos
          BY <1>2, <1>5, <2>1
        <4>2. QED
          BY <4>1, <1>3, <1>6
      <3>4. QED
        BY <3>1, <3>2, <3>3, <1>1, <1>5, <1>6, IsAppend DEF d
    <2>4. QED
      BY <1>7, <2>2, <2>3 DEF Lines!Type, Lines!HasRoom, Ready, Edited, d
  <1>11. CASE Submits(d)
    <2>1. writePos' = editPos + 1
      BY <1>11 DEF TypeChar, d
    <2>2. Edited' = << >>
      BY <1>2, <1>6, <2>1, IsSame
    <2>3. /\ Append(Edited, d) \in Seq(Char) /\ Len(Append(Edited, d)) = Len(Edited) + 1
          /\ \A i \in 1 .. Len(Edited) : Append(Edited, d)[i] = Edited[i]
          /\ Append(Edited, d)[Len(Edited) + 1] = d
      BY <1>1, <1>5 DEF d
    <2>4. Ready' = Ready \o Append(Edited, d)
      <3>1. Len(Ready') = Len(Ready) + Len(Append(Edited, d))
        BY <1>2, <1>5, <1>6, <2>1, <2>3
      <3>2. \A i \in 1 .. Len(Ready) : Ready'[i] = Ready[i]
        BY <1>2, <1>5, <1>6, <1>8, <2>1
      <3>3. ASSUME NEW i \in 1 .. Len(Append(Edited, d))
            PROVE  Ready'[Len(Ready) + i] = Append(Edited, d)[i]
        <4>1. /\ Len(Ready) + i \in 1 .. writePos' - readPos'
              /\ readPos' + (Len(Ready) + i) - 1 = writePos + i - 1
          BY <1>2, <1>5, <2>1, <2>3
        <4>2. Ready'[Len(Ready) + i] = NextAt(writePos + i - 1)
          BY <4>1, <1>6
        <4>3. CASE i \in 1 .. Len(Edited)
          BY <4>2, <4>3, <1>5, <1>9, <2>3
        <4>4. CASE i = Len(Edited) + 1
          <5>1. writePos + i - 1 = editPos
            BY <4>4, <1>2, <1>5
          <5>2. QED
            BY <5>1, <4>2, <4>4, <1>3, <2>3
        <4>5. i \in 1 .. Len(Edited) \/ i = Len(Edited) + 1
          <5>1. Len(Edited) \in Nat /\ i \in 1 .. Len(Edited) + 1
            BY <1>2, <1>5, <2>3
          <5>2. QED
            BY <5>1
        <4>6. QED
          BY <4>3, <4>4, <4>5
      <3>4. QED
        BY <3>1, <3>2, <3>3, <1>5, <1>6, <2>3, IsConcat
    <2>5. QED
      BY <1>7, <2>2, <2>4 DEF Lines!Submit, Lines!HasRoom, Ready, Edited, d
  <1>12. QED
    BY <1>10, <1>11 DEF d

\* Erasing takes the last character of the edited line.
LEMMA EraseCharQueue ==
    ASSUME IInv, EraseChar PROVE Lines!Erase
  <1>1. /\ readPos \in Nat /\ writePos \in Nat /\ editPos \in Nat
        /\ writePos <= editPos /\ editPos # writePos
        /\ buf' = buf /\ readPos' = readPos /\ writePos' = writePos /\ editPos' = editPos - 1
    BY DEF IInv, TypeOK, CursorsOrdered, EraseChar, EraseStart
  <1>2. /\ Edited \in Seq(Char) /\ Len(Edited) = editPos - writePos
        /\ \A i \in 1 .. editPos - writePos : Edited[i] = At(writePos + i - 1)
    BY Windows
  <1>3. /\ Edited' \in Seq(Char) /\ Len(Edited') = editPos' - writePos'
        /\ \A i \in 1 .. editPos' - writePos' : Edited'[i] = At(writePos' + i - 1)
    <2>1. IInv'
      BY EraseCharIInv
    <2>2. (IInv => /\ Edited \in Seq(Char) /\ Len(Edited) = editPos - writePos
                   /\ \A i \in 1 .. editPos - writePos : Edited[i] = At(writePos + i - 1))'
      BY Windows, PTL
    <2>3. QED
      BY <2>1, <2>2, <1>1 DEF At
  <1>4. Ready' = Ready
    BY <1>1 DEF Ready, Window
  <1>5. Len(Edited) > 0 /\ Len(Edited') = Len(Edited) - 1
    BY <1>1, <1>2, <1>3
  <1>6. \A i \in 1 .. Len(Edited') : Edited'[i] = Edited[i]
    BY <1>1, <1>2, <1>3
  <1>7. Edited' = SubSeq(Edited, 1, Len(Edited) - 1) /\ Edited # << >>
    BY <1>2, <1>3, <1>5, <1>6, IsFront
  <1>8. QED
    BY <1>4, <1>7 DEF Lines!Erase, Ready, Edited

\* Reading takes the first ready character, or puts it back.
LEMMA ReadCharQueue ==
    ASSUME IInv, NEW r \in Readers, ReadChar(r)
    PROVE  Lines!Take \/ UNCHANGED Lines!queue
  <1>1. /\ readPos \in Nat /\ writePos \in Nat /\ editPos \in Nat
        /\ readPos <= writePos /\ readPos # writePos
        /\ buf' = buf /\ writePos' = writePos /\ editPos' = editPos
        /\ readPos' = readPos \/ readPos' = readPos + 1
    BY DEF IInv, TypeOK, CursorsOrdered, ReadChar
  <1>2. Edited' = Edited
    BY <1>1 DEF Edited, Window
  <1>3. CASE readPos' = readPos
    <2>1. Ready' = Ready
      BY <1>1, <1>3 DEF Ready, Window
    <2>2. QED
      BY <1>2, <2>1 DEF Lines!queue, Ready, Edited
  <1>4. CASE readPos' = readPos + 1
    <2>1. /\ Ready \in Seq(Char) /\ Len(Ready) = writePos - readPos
          /\ \A i \in 1 .. writePos - readPos : Ready[i] = At(readPos + i - 1)
      BY Windows
    <2>2. /\ Ready' \in Seq(Char) /\ Len(Ready') = writePos' - readPos'
          /\ \A i \in 1 .. writePos' - readPos' : Ready'[i] = At(readPos' + i - 1)
      <3>1. IInv'
        BY StepIInv DEF Step
      <3>2. (IInv => /\ Ready \in Seq(Char) /\ Len(Ready) = writePos - readPos
                     /\ \A i \in 1 .. writePos - readPos : Ready[i] = At(readPos + i - 1))'
        BY Windows, PTL
      <3>3. QED
        BY <3>1, <3>2, <1>1 DEF At
    <2>3. Len(Ready) > 0 /\ Len(Ready') = Len(Ready) - 1
      BY <1>1, <1>4, <2>1, <2>2
    <2>4. ASSUME NEW i \in 1 .. Len(Ready') PROVE Ready'[i] = Ready[i + 1]
      <3>1. /\ i \in 1 .. writePos' - readPos' /\ i + 1 \in 1 .. writePos - readPos
            /\ readPos' + i - 1 = readPos + (i + 1) - 1
        BY <1>1, <1>4, <2>2
      <3>2. QED
        BY <3>1, <2>1, <2>2
    <2>5. Ready' = Tail(Ready) /\ Ready # << >>
      BY <2>1, <2>2, <2>3, <2>4, IsTail
    <2>6. QED
      BY <1>2, <2>5 DEF Lines!Take, Ready, Edited
  <1>5. QED
    BY <1>1, <1>3, <1>4

\* The ring of cons with its three cursors implements the queue of LineQueue, for
\* every size of the ring: what is typed is read in order, once, and nothing that has
\* not been read is overwritten (readline and consoleInterrupt).
THEOREM ConsoleImplementsQueue == Spec => ImplementsLineQueue
  <1>1. Init => Lines!Init
    <2> SUFFICES ASSUME Init PROVE Lines!Init
      OBVIOUS
    <2>1. IInv
      BY InitIInv
    <2>2. Ready \in Seq(Char) /\ Len(Ready) = 0 /\ Edited \in Seq(Char) /\ Len(Edited) = 0
      BY <2>1, Windows DEF Init
    <2>3. Ready = << >> /\ Edited = << >>
      BY <2>2, IsSame
    <2>4. QED
      BY <2>3 DEF Lines!Init, Ready, Edited
  <1>2. IInv /\ [Next]_vars => [Lines!Next]_Lines!queue
    <2> SUFFICES ASSUME IInv, [Next]_vars PROVE Lines!Next \/ UNCHANGED Lines!queue
      OBVIOUS
    <2>1. ASSUME NEW c \in Input, ConsoleInterrupt(c) PROVE Lines!Next
      <3>1. CASE c = ERASE
        BY <3>1, <2>1, EraseCharQueue DEF ConsoleInterrupt, Lines!Next
      <3>2. CASE c # ERASE
        <4>1. c \in Char \cup {CR} /\ TypeChar(c) /\ Stored(c) \in Char
          BY <3>2, <2>1 DEF ConsoleInterrupt, Input, Stored, Char
        <4>2. QED
          BY <4>1, TypeCharQueue DEF Lines!Next
      <3>3. QED
        BY <3>1, <3>2
    <2>2. ASSUME NEW r \in Readers, Sleep(r) \/ Wake(r) \/ Return(r) PROVE UNCHANGED Lines!queue
      BY <2>2 DEF Sleep, Wake, Return, Lines!queue, Window
    <2>3. ASSUME NEW r \in Readers, NEW n \in Lens, Call(r, n) PROVE UNCHANGED Lines!queue
      BY <2>3 DEF Call, Lines!queue, Window
    <2>4. CASE UNCHANGED vars
      BY <2>4 DEF vars, Lines!queue, Window
    <2>5. ASSUME NEW r \in Readers, ReadChar(r) PROVE Lines!Next \/ UNCHANGED Lines!queue
      BY <2>5, ReadCharQueue DEF Lines!Next
    <2>6. QED
      BY <2>1, <2>2, <2>3, <2>4, <2>5 DEF Next, Step
  <1>3. QED
    BY <1>1, <1>2, Invariant, PTL DEF Spec, ImplementsLineQueue, Lines!Spec
=============================================================================
