------------------------------ MODULE Console ------------------------------
(***************************************************************************)
(* Console input: the ring buffer `cons` of kernel/console/console.cpp,    *)
(* filled by consoleInterrupt (called for every character the UART         *)
(* delivers) and emptied by the processes that call readline.              *)
(*                                                                         *)
(* cons.mutex is a spin mutex, so what a reader does between taking it and *)
(* sleeping or returning excludes the interrupt handler; `holder` is the   *)
(* reader that owns it.  sleep() gives the mutex up and registers the      *)
(* reader in one step, and wakeup() makes every registered reader runnable *)
(* (Process.tla models both for the one hart the system is run with).      *)
(* Echoing characters to the terminal is left out.  An operator whose name *)
(* ends in Variant is a faulty form of the operator that follows it; no    *)
(* specification uses it.                                                  *)
(***************************************************************************)
EXTENDS Integers, Sequences

CONSTANTS Readers,   \* the processes that read the console
          None,      \* no process
          BUF_SIZE,  \* slots of cons.buf (1024 in the code)
          Plain,     \* the characters without a special meaning
          Lens,      \* the values of readline's argument len
          MaxInput   \* bound: characters the buffer accepts in a behaviour

ASSUME ConsoleAssumption ==
    /\ None \notin Readers
    /\ BUF_SIZE \in Nat \ {0}
    /\ Lens \subseteq Nat
    /\ MaxInput \in Nat

VARIABLES buf,       \* cons.buf
          readPos,   \* cons.readPos: the next character to read
          writePos,  \* cons.writePos: the end of what readers may read
          editPos,   \* cons.editPos: the end of the line being edited
          holder,    \* the reader that holds cons.mutex, or None
          pc,        \* where each reader is in readline
          len,       \* readline's len: what is left of the caller's buffer
          max        \* readline's max: the len it was called with

vars == <<buf, readPos, writePos, editPos, holder, pc, len, max>>

NL == "NL"
EOT == "EOT"
ERASE == "ERASE"
CR == "CR"

\* What the buffer can hold, and what the UART can deliver.
Char == Plain \cup {NL, EOT}
Input == Char \cup {CR, ERASE}

ASSUME PlainAssumption == Plain \cap {NL, EOT, CR, ERASE} = {}

Slots == 0 .. BUF_SIZE - 1
PCs == {"idle", "loop", "asleep", "woken", "return"}

Init ==
    /\ buf = [s \in Slots |-> EOT]
    /\ readPos = 0 /\ writePos = 0 /\ editPos = 0
    /\ holder = None
    /\ pc = [r \in Readers |-> "idle"]
    /\ len = [r \in Readers |-> 0]
    /\ max = [r \in Readers |-> 0]
-----------------------------------------------------------------------------
(***************************************************************************)
(* consoleInterrupt: one character arrives.                                *)
(***************************************************************************)
EraseStartVariant == readPos
EraseStart == writePos

\* Backspace and delete: only the line being edited can be erased.
EraseChar ==
    /\ holder = None
    /\ editPos # EraseStart
    /\ editPos' = editPos - 1
    /\ UNCHANGED <<buf, readPos, writePos, holder, pc, len, max>>

Stored(c) == IF c = CR THEN NL ELSE c

RoomVariant == editPos - readPos <= BUF_SIZE
Room == editPos - readPos < BUF_SIZE

\* The line is handed over at its end, and when the buffer has become full.
SubmitsVariant(c) == c \in {NL, EOT}
Submits(c) == c \in {NL, EOT} \/ editPos + 1 - readPos = BUF_SIZE

WokenVariant == pc
Woken == [r \in Readers |-> IF pc[r] = "asleep" THEN "woken" ELSE pc[r]]

TypeChar(c) ==
    /\ holder = None
    /\ Room
    /\ editPos < MaxInput
    /\ buf' = [buf EXCEPT ![editPos % BUF_SIZE] = Stored(c)]
    /\ editPos' = editPos + 1
    /\ IF Submits(Stored(c))
       THEN writePos' = editPos + 1 /\ pc' = Woken
       ELSE UNCHANGED <<writePos, pc>>
    /\ UNCHANGED <<readPos, holder, len, max>>

ConsoleInterrupt(c) == IF c = ERASE THEN EraseChar ELSE TypeChar(c)
-----------------------------------------------------------------------------
(***************************************************************************)
(* readline.                                                               *)
(***************************************************************************)
Call(r, n) ==
    /\ pc[r] = "idle"
    /\ holder = None
    /\ holder' = r
    /\ pc' = [pc EXCEPT ![r] = "loop"]
    /\ len' = [len EXCEPT ![r] = n]
    /\ max' = [max EXCEPT ![r] = n]
    /\ UNCHANGED <<buf, readPos, writePos, editPos>>

\* There is nothing to read: sleep on &cons.readPos.
Sleep(r) ==
    /\ pc[r] = "loop" /\ len[r] > 0
    /\ readPos = writePos
    /\ pc' = [pc EXCEPT ![r] = "asleep"]
    /\ holder' = None
    /\ UNCHANGED <<buf, readPos, writePos, editPos, len, max>>

\* sleep() takes the mutex again before it returns.
Wake(r) ==
    /\ pc[r] = "woken"
    /\ holder = None
    /\ holder' = r
    /\ pc' = [pc EXCEPT ![r] = "loop"]
    /\ UNCHANGED <<buf, readPos, writePos, editPos, len, max>>

\* An end-of-transmission character that is not the first character of this
\* call is put back, but readline goes on and copies it out all the same.
PutBack(r, c) == c = EOT /\ len[r] < max[r]

NextChar == buf[readPos % BUF_SIZE]

\* One turn of the loop.  eitherCopyout fails when the address is not mapped;
\* the loop then ends and the character is gone.
ReadChar(r) ==
    /\ pc[r] = "loop" /\ len[r] > 0
    /\ readPos # writePos
    /\ readPos' = IF PutBack(r, NextChar) THEN readPos ELSE readPos + 1
    /\ \/ /\ len' = [len EXCEPT ![r] = @ - 1]
          /\ pc' = [pc EXCEPT ![r] = IF NextChar = NL THEN "return" ELSE "loop"]
       \/ /\ pc' = [pc EXCEPT ![r] = "return"]
          /\ UNCHANGED len
    /\ UNCHANGED <<buf, writePos, editPos, holder, max>>

Return(r) ==
    /\ \/ pc[r] = "return"
       \/ pc[r] = "loop" /\ len[r] = 0
    /\ pc' = [pc EXCEPT ![r] = "idle"]
    /\ holder' = None
    /\ UNCHANGED <<buf, readPos, writePos, editPos, len, max>>

Step(r) == Sleep(r) \/ Wake(r) \/ ReadChar(r) \/ Return(r)

Next ==
    \/ \E c \in Input : ConsoleInterrupt(c)
    \/ \E r \in Readers : Step(r) \/ \E n \in Lens : Call(r, n)

Spec == Init /\ [][Next]_vars

\* A process that is ready to run gets the hart again and again (the ready
\* queue is first in, first out), and finds cons.mutex free when it does:
\* a spin mutex is never held across a context switch.
Fairness ==
    \A r \in Readers : WF_vars(Step(r)) /\ SF_vars(Wake(r))

FairSpec == Spec /\ Fairness
-----------------------------------------------------------------------------
(***************************************************************************)
(* Properties.                                                             *)
(***************************************************************************)
\* Every variable has its type.
TypeOK ==
    /\ buf \in [Slots -> Char]
    /\ readPos \in Nat /\ writePos \in Nat /\ editPos \in Nat
    /\ holder \in Readers \cup {None}
    /\ pc \in [Readers -> PCs]
    /\ len \in [Readers -> Nat]
    /\ max \in [Readers -> Nat]

\* The three cursors never overtake each other and the edited line never laps
\* the reader, although they are unsigned, move in both directions (backspace,
\* the put-back of end-of-transmission) and are compared by subtraction.
CursorsOrdered ==
    /\ readPos <= writePos
    /\ writePos <= editPos
    /\ editPos <= readPos + BUF_SIZE

\* A full buffer has been handed over to the readers.  Otherwise the console
\* would hang: consoleInterrupt drops every character, the newline included,
\* while the buffer is full, and readline waits for a newline.
FullBufferIsReadable == editPos - readPos = BUF_SIZE => writePos = editPos

\* No reader sleeps on &cons.readPos while there is something to read: the
\* wakeup in consoleInterrupt is never lost to a reader about to sleep.
NoSleepOverInput == (\E r \in Readers : pc[r] = "asleep") => readPos = writePos

\* At most one reader is inside the loop, and it holds cons.mutex.
LoopHoldsMutex == \A r \in Readers : pc[r] \in {"loop", "return"} <=> holder = r

\* The ring buffer with its three cursors implements the queue of LineQueue:
\* input is read in the order it was typed, no unread character is overwritten
\* and a submitted character can no longer be erased.
Window(from, to) == [i \in 1 .. to - from |-> buf[(from + i - 1) % BUF_SIZE]]
Lines == INSTANCE LineQueue WITH
    Size <- BUF_SIZE,
    ready <- Window(readPos, writePos),
    edited <- Window(writePos, editPos)
ImplementsLineQueue == Lines!Spec

\* A reader inside readline does not wait for ever while there is input:
\* either it returns or the input is consumed (by it or by another reader).
InputIsConsumed ==
    \A r \in Readers :
        (pc[r] # "idle" /\ readPos # writePos) ~> (pc[r] = "idle" \/ readPos = writePos)
=============================================================================
