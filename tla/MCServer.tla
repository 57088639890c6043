------------------------------ MODULE MCServer ------------------------------
(***************************************************************************)
(* Two clients that read and write one key.  The second value is longer    *)
(* than MAX_STR_LEN.                                                       *)
(***************************************************************************)
EXTENDS Server, TLC

CONSTANTS c1, c2, k, kLong, v, vLong, junk

MCClient == {c1, c2}
MCKey == {k, kLong}
MCValue == {v, vLong}
MCLength == (v :> 4 @@ vLong :> 4 @@ junk :> 1)
=============================================================================
