----------------------------- MODULE MCUiWorker -----------------------------
(* Instances of UiWorker for TLC. *)
EXTENDS UiWorker
CONSTANTS console, httpd
MCCallers == {console, httpd}
MCConsoleOnly == {console}
=============================================================================
