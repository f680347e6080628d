------------------------------ MODULE MCCamera ------------------------------
(* Two cameras and short pictures for TLC.                                 *)
EXTENDS Camera
=============================================================================
