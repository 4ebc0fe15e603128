--------------------------- MODULE MCCommissioner ---------------------------
(* An instance of Commissioner, and with it of Camera, for TLC. *)
EXTENDS Commissioner
=============================================================================
