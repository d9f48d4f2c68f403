----------------------------- MODULE LineQueue -----------------------------
(***************************************************************************)
(* What the console promises its readers, without the ring buffer: a queue *)
(* of characters that are ready to be read, and the line being edited.     *)
(* Typing appends to the edited line, erasing removes its last character,  *)
(* submitting moves the whole line behind the characters that are ready,   *)
(* and a reader takes the oldest ready character.  Nothing else changes    *)
(* either of them, and together they never outgrow the buffer.             *)
(***************************************************************************)
EXTENDS Naturals, Sequences

CONSTANTS Char,  \* the characters a line can hold
          Size   \* how many characters fit

VARIABLES ready,   \* the characters readers may take, oldest first
          edited   \* the line that is still being edited

queue == <<ready, edited>>

Init == ready = << >> /\ edited = << >>

HasRoom == Len(ready) + Len(edited) < Size

Type(c) == HasRoom /\ edited' = Append(edited, c) /\ UNCHANGED ready

Submit(c) ==
    /\ HasRoom
    /\ ready' = ready \o Append(edited, c)
    /\ edited' = << >>

Erase ==
    /\ edited # << >>
    /\ edited' = SubSeq(edited, 1, Len(edited) - 1)
    /\ UNCHANGED ready

Take == ready # << >> /\ ready' = Tail(ready) /\ UNCHANGED edited

Next ==
    \/ \E c \in Char : Type(c) \/ Submit(c)
    \/ Erase
    \/ Take

Spec == Init /\ [][Next]_queue
=============================================================================
