----------------------------- MODULE StereoPair -----------------------------
(***************************************************************************)
(* What a stereo camera set promises to the program that calls get_images: *)
(* a pair register.  Every call returns a left and a right image of the    *)
(* same capture, and no call returns a capture older than the one an       *)
(* earlier call returned.  Captures may be skipped (the reader is slow)    *)
(* and repeated (the reader is fast).                                      *)
(*                                                                         *)
(* A capture is a natural number; 0 stands for the memory the image        *)
(* buffers hold before the first capture.  Both camera sets of the         *)
(* program are compared with this module: MipiCamera implements it when    *)
(* callbacks do not overlap on different buffers (its OneAtATime), and     *)
(* UsbCamera as long as no grab fails.                                     *)
(***************************************************************************)
EXTENDS Naturals

CONSTANT MaxCapture    \* bound on the number of captures

VARIABLES
  latest,      \* the capture get_images would return now
  returned     \* [l, r]: the pair the last call of get_images returned

vars == <<latest, returned>>

Capture == 0 .. MaxCapture
NoCapture == 0

Init ==
  /\ latest = NoCapture
  /\ returned = [l |-> NoCapture, r |-> NoCapture]

(* The camera set replaces both images by those of a newer capture. *)
Publish ==
  /\ \E c \in Capture : c > latest /\ latest' = c
  /\ UNCHANGED returned

(* get_images returns the latest pair. *)
GetImages ==
  /\ returned' = [l |-> latest, r |-> latest]
  /\ UNCHANGED latest

Next == Publish \/ GetImages

Spec == Init /\ [][Next]_vars
=============================================================================
