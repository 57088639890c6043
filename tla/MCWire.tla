------------------------------- MODULE MCWire -------------------------------
(***************************************************************************)
(* Lines of every kind: complete commands with texts of one and two        *)
(* characters and, MAX_STR_LEN being 2, of three; lines that are no        *)
(* command, too long, or cut off by the end of the file.  (The buffer of   *)
(* this shell is too small for a text over MAX_STR_LEN; a program of its   *)
(* own on the driver may send one.)                                        *)
(***************************************************************************)
EXTENDS Wire

Typed(words) == [words |-> words, length |-> 4, end |-> "newline"]
k == <<1>>
kLong == <<1, 2, 3>>
v == <<5>>
w == <<5, 6>>
MCLine ==
  {Typed(<<"get", k>>), Typed(<<"set", k, v>>), Typed(<<"set", k, w>>), Typed(<<"del", k>>),
   Typed(<<"get", kLong>>), Typed(<<"set", kLong, w>>), Typed(<<"set", k, kLong>>),
   Typed(<<"exit">>), Typed(<<"set", k>>), [Typed(<<"get", k>>) EXCEPT !.length = 9],
   [Typed(<<"del", k>>) EXCEPT !.end = "eof"],
   [Typed(<<"del", k>>) EXCEPT !.end = "eof", !.length = 9]}
=============================================================================
