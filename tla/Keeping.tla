------------------------------ MODULE Keeping ------------------------------
(***************************************************************************)
(* Compaction of an array in place, the idiom of msg_queue.c: the elements *)
(* that satisfy a test are copied down over those that do not, in order.   *)
(***************************************************************************)
EXTENDS Integers, Sequences

\* The elements of s that are in X, in their order.  (A recursive function and
\* a set rather than SelectSeq and a test, so that proofs can unfold it.)
Keep(s, X) ==
    LET kept[i \in 0 .. Len(s)] ==
          IF i = 0 THEN <<>>
          ELSE IF s[i] \in X THEN Append(kept[i-1], s[i]) ELSE kept[i-1]
    IN  kept[Len(s)]
=============================================================================
