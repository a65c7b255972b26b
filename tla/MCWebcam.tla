------------------------------ MODULE MCWebcam ------------------------------
(***************************************************************************)
(* An instance of Webcam for TLC.                                          *)
(***************************************************************************)
EXTENDS Webcam, TLC

CONSTANTS full, small, raw

\* Two modes of several transfers and of one in a ring of three slots, as all
\* of UVC_MODES have, and a raw geometry in a ring of two.
RingTransfers == full :> 3 @@ small :> 1 @@ raw :> 3
RingDepth     == full :> 3 @@ small :> 3 @@ raw :> 2
CountsAs      == raw :> full
=============================================================================
