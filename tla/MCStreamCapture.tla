-------------------------- MODULE MCStreamCapture --------------------------
(***************************************************************************)
(* Instances of StreamCapture for TLC.                                     *)
(***************************************************************************)
EXTENDS StreamCapture

\* The boundary limits (nothing, only a tail), an even and an odd one.
MCLimits == {0, 1, 2, 3, 4, 5}
=============================================================================
