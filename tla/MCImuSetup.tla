----------------------------- MODULE MCImuSetup -----------------------------
(* An uninitialised byte is all zeros, all ones, or has some bit of every  *)
(* field of the configuration registers.                                   *)
EXTENDS ImuSetup

MCGarbage == {{}, {2, 6}, Bit}
=============================================================================
