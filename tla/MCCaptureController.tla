------------------------ MODULE MCCaptureController ------------------------
(* CaptureController for TLC.  Two sessions are enough for a start that     *)
(* overlaps the run before it.                                             *)
EXTENDS CaptureController
=============================================================================
