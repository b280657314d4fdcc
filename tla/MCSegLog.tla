------------------------------ MODULE MCSegLog ------------------------------
(***************************************************************************)
(* SegLog on segments of seven words: two small entries fill a segment     *)
(* exactly (3 + 4), others leave a gap behind or fill one alone, one is    *)
(* too large by a word, and the third rollover exhausts the segments.      *)
(***************************************************************************)
EXTENDS SegLog

MCTimestamps == {70}
MCPayloads   == {<<>>, <<81>>, <<82, 83, 84, 85>>, <<86, 86, 86, 86, 86>>}
=============================================================================
