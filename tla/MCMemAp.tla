------------------------------ MODULE MCMemAp -------------------------------
(***************************************************************************)
(* Instances of MemAp for TLC.  With pages of eight bytes the first range  *)
(* is a byte, a halfword and a word, the second a byte, a word and a byte; *)
(* the third a word up to the end of a page, a block of two words in the   *)
(* next one and a halfword in a third.                                     *)
(***************************************************************************)
EXTENDS MemAp

MCRanges == {<<1, 7>>, <<3, 6>>, <<4, 14>>}
=============================================================================
