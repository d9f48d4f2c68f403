----------------------------- MODULE HashChain -----------------------------
(***************************************************************************)
(* One bucket of lib::HashMap, kernel/lib/hash_map.h: the chain of nodes   *)
(* as the sequence of its [key, value] pairs, first node first.            *)
(*                                                                         *)
(* An operator whose name ends in Variant is a faulty form of the operator *)
(* that follows it; no specification uses it.                              *)
(***************************************************************************)
EXTENDS Naturals, Sequences

Node(k, v) == [key |-> k, value |-> v]

\* contains.
Contains(chain, k) == \E i \in DOMAIN chain : chain[i].key = k

At(chain, k) == CHOOSE i \in DOMAIN chain : chain[i].key = k

\* What operator[] refers to, once the node is there.
Lookup(chain, k) == chain[At(chain, k)].value

\* operator[]: a key that is missing gets a node with the default value, put in
\* front of the node the search ended at.  That is the last node, so that only
\* it stays behind the new one.
IndexVariant(chain, k, default) ==
    IF Contains(chain, k) THEN chain ELSE <<Node(k, default)>>
Index(chain, k, default) ==
    IF Contains(chain, k) THEN chain
    ELSE IF chain = <<>> THEN <<Node(k, default)>>
    ELSE <<Node(k, default), chain[Len(chain)]>>

\* The value is replaced through the reference operator[] returns.
Assign(chain, k, default, v) ==
    LET c == Index(chain, k, default)
    IN  [c EXCEPT ![At(c, k)].value = v]

\* erase unlinks the first node with the key.
Erase(chain, k) ==
    IF ~Contains(chain, k) THEN chain
    ELSE SubSeq(chain, 1, At(chain, k) - 1) \o SubSeq(chain, At(chain, k) + 1, Len(chain))
=============================================================================
