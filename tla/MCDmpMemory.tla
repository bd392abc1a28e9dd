---------------------------- MODULE MCDmpMemory ----------------------------
(* Instances of DmpMemory: two banks of four bytes, bursts of two, and an  *)
(* image of five bytes across both banks in which, as in dmp3_image, two   *)
(* consecutive chunks are equal.                                           *)
EXTENDS DmpMemory

MCImage  == <<1, 2, 1, 2, 3>>
MCRanges == {[reg |-> 0, length |-> 2], [reg |-> 4, length |-> 3],
             [reg |-> 7, length |-> 1]}
=============================================================================
