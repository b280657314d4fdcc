------------------------------ MODULE MCGroups ------------------------------
(***************************************************************************)
(* One group that is dropped and created again, values of which one is too *)
(* large, four ids, a cache of three entries and a clock that outlives an  *)
(* entry.                                                                  *)
(***************************************************************************)
EXTENDS Groups

MCBatches == {<<1>>, <<2>>, <<1, 2>>, <<2, 1, 2>>, <<1, 9>>}
=============================================================================
