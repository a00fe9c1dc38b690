------------------------------ MODULE MCNetGlue ------------------------------
(* Small instances of the USB network glue. *)
EXTENDS NetGlue
=============================================================================
