---------------------------- MODULE MCBufferPool ----------------------------
(* A two-frame cache over a file of three pages: every page competes for a *)
(* frame with the others and with the parked NoPage frame.                 *)
EXTENDS BufferPool
CONSTANTS zero, d1

MCData == {zero, d1}
=============================================================================
