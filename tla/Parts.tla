------------------------------- MODULE Parts -------------------------------
(***************************************************************************)
(* Loops that keep some elements of a sequence, in their order: the load   *)
(* of the append-only file, retain on a list of followers, a queue that    *)
(* waiters leave, the entries of a cache but one.                          *)
(***************************************************************************)
EXTENDS Integers, Sequences

\* The elements of s at the positions in chosen.
Part(s, chosen) ==
    LET taken[n \in 0 .. Len(s)] ==
            IF n = 0 THEN <<>>
            ELSE IF n \in chosen THEN Append(taken[n - 1], s[n]) ELSE taken[n - 1]
    IN  taken[Len(s)]
=============================================================================
