----------------------------- MODULE MCDmpFifo -----------------------------
(* Two kinds of frames: header, one field, footer; and a longer one with   *)
(* two.  The header is two bytes, so that half of one may wait.            *)
EXTENDS DmpFifo

MCKinds == {<<2, 4, 5>>, <<2, 3, 5, 6>>}
=============================================================================
