----------------------------- MODULE AtomicDisk -----------------------------
(***************************************************************************)
(* What the log promises the file system: operations change a current      *)
(* image of the disk, the durable image follows in one step and only while *)
(* no operation is open, and a crash falls back to the durable image.      *)
(***************************************************************************)
EXTENDS Naturals

CONSTANTS Blocks, Data

VARIABLES durable, current, open

Image == [Blocks -> Data]

Init == durable \in Image /\ current = durable /\ open = 0

Begin == open' = open + 1 /\ UNCHANGED <<durable, current>>

Write ==
    /\ open > 0
    /\ \E b \in Blocks, d \in Data : current' = [current EXCEPT ![b] = d]
    /\ UNCHANGED <<durable, open>>

End == open > 0 /\ open' = open - 1 /\ UNCHANGED <<durable, current>>

Commit == open = 0 /\ durable' = current /\ UNCHANGED <<current, open>>

Crash == current' = durable /\ open' = 0 /\ UNCHANGED durable

Next == Begin \/ Write \/ End \/ Commit \/ Crash

Spec == Init /\ [][Next]_<<durable, current, open>>
=============================================================================
