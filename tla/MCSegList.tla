----------------------------- MODULE MCSegList -----------------------------
(***************************************************************************)
(* SegList with two keys and a pool that grows two segments at a time, to  *)
(* five: pushes meet an empty pool, a pool that is too small for a range,  *)
(* and an allocator that runs dry in the middle of a chunk.  The two keys  *)
(* are interchangeable.                                                    *)
(***************************************************************************)
EXTENDS SegList

Symmetry == Permutations(Keys)
=============================================================================
