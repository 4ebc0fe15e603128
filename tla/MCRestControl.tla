---------------------------- MODULE MCRestControl ----------------------------
(* An instance of RestControl for TLC. *)
EXTENDS RestControl
MCUsers == {"console", "screen"}
==============================================================================
