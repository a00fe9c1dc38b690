---------------------------- MODULE MCOledCapture ----------------------------
(* Small instances of the OLED capture. *)
EXTENDS OledCapture
=============================================================================
