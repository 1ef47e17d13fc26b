------------------------------ MODULE MCViewer ------------------------------
(***************************************************************************)
(* Viewer with two devices and a few lines and clicks.  The devices are    *)
(* not declared symmetric, because the run checks a liveness property too. *)
(***************************************************************************)
EXTENDS Viewer
=============================================================================
