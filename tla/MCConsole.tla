----------------------------- MODULE MCConsole -----------------------------
(* Console for TLC: two readers, a ring of three slots, lines that wrap it. *)
EXTENDS Console

MCPlain == {"a", "b"}
MCLens == {0, 1, 3}
=============================================================================
