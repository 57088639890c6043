-------------------------------- MODULE Str --------------------------------
(***************************************************************************)
(* The string store of myjql/src/str.c: a string is cut into chunks, each  *)
(* a record of the table that begins with the RID of the next chunk.       *)
(* write_string writes the last chunk first, so that it knows the RID each *)
(* chunk needs; delete_string follows the chain.  A step is one call of    *)
(* the table: write_string and delete_string are loops of such calls.      *)
(*                                                                         *)
(* A chunk is the sequence of its RID and its characters: the field size   *)
(* is the length of the item.  A StringRecord is such a chunk with the     *)
(* number of characters already taken from it.                             *)
(***************************************************************************)
EXTENDS Table, FiniteSets

CONSTANTS ChunkLen,    \* STR_CHUNK_MAX_LEN
          Text,        \* the strings written
          MaxStrings   \* bound on the strings stored at a time

ASSUME ChunkAssumption == ChunkLen \in Nat \ {0}
ASSUME TextAssumption == \A t \in Text : t \in Seq(Int)

VARIABLES strings,   \* the caller's side: RID -> the string written there
          job        \* what write_string or delete_string has still to do

strVars == <<vars, strings, job>>

LastRid == <<0, -1>>    \* next of the last chunk: block address -1
EmptyRid == <<0, 0>>    \* next of the only chunk of an empty string
Idle == [op |-> "idle"]

Pieces == UNION {{SubSeq(t, i, j) : i \in 1 .. Len(t), j \in 0 .. Len(t)} : t \in Text}
Chunks == {<<r>> \o piece : r \in Rid \cup {LastRid, EmptyRid},
                            piece \in {p \in Pieces \cup {<<>>} : Len(p) <= ChunkLen}}

(* The table takes every chunk: STR_CHUNK_MAX_SIZE is within a page.       *)
ASSUME ChunksFit == Chunks \subseteq Record

-----------------------------------------------------------------------------
(* Reading: has_next_char, next_char, and the two loops over them.         *)
ChunkAt(r) == GetItem(blocks[r[1]], r[2])
IsNull(r) == r[1] = 0

ReadString(r) == [chunk |-> ChunkAt(r), idx |-> 0]

Spent(rec) == rec.idx >= Len(rec.chunk) - 1
HasNextChar_InChunk(rec) == ~Spent(rec)
HasNextChar(rec) == ~Spent(rec) \/ ~IsNull(Head(rec.chunk))

(* next_char goes to the next chunk only when it is asked for a character  *)
(* beyond the present one, which has_next_char must have answered for.     *)
NextChar(rec) ==
  LET at == IF Spent(rec) THEN ReadString(Head(rec.chunk)) ELSE rec
  IN [rec |-> [at EXCEPT !.idx = @ + 1], char |-> at.chunk[at.idx + 2]]

(* load_string: the first max characters at most.                          *)
LoadString(r, max) ==
  LET loaded[n \in 0 .. max] ==
        IF n = 0 THEN [rec |-> ReadString(r), text |-> <<>>]
        ELSE IF HasNextChar(loaded[n - 1].rec)
        THEN LET next == NextChar(loaded[n - 1].rec)
             IN [rec |-> next.rec, text |-> Append(loaded[n - 1].text, next.char)]
        ELSE loaded[n - 1]
  IN loaded[max].text

Undecided == 2
Sign(x, y) == IF x < y THEN -1 ELSE IF x > y THEN 1 ELSE 0

(* compare_string_record: characters are compared before any test that     *)
(* there is one, so neither string may be empty.  Its recursion, cut off   *)
(* after so many rounds.                                                   *)
CompareRecords(a, b, rounds) ==
  LET Round(x, y) ==
        [a |-> x.rec, b |-> y.rec,
         sign |-> IF x.char # y.char THEN Sign(x.char, y.char)
                  ELSE LET more == <<HasNextChar(x.rec), HasNextChar(y.rec)>>
                       IN CASE more = <<TRUE, FALSE>> -> 1
                            [] more = <<FALSE, TRUE>> -> -1
                            [] more = <<FALSE, FALSE>> -> 0
                            [] OTHER -> Undecided]
      compared[n \in 0 .. rounds] ==
        IF n = 0 THEN [a |-> a, b |-> b, sign |-> Undecided]
        ELSE IF compared[n - 1].sign = Undecided
        THEN Round(NextChar(compared[n - 1].a), NextChar(compared[n - 1].b))
        ELSE compared[n - 1]
  IN compared[rounds].sign

-----------------------------------------------------------------------------
InitStr ==
  /\ Init
  /\ strings = [r \in {} |-> <<>>]
  /\ job = Idle

(* write_string begins.                                                    *)
WriteString(text) ==
  /\ job = Idle
  /\ Cardinality(DOMAIN strings) < MaxStrings
  /\ job' = [op |-> "write", text |-> text, size |-> Len(text),
             next |-> IF text = <<>> THEN EmptyRid ELSE LastRid]
  /\ UNCHANGED <<vars, strings>>

(* The characters of the next chunk: the odd ones first, at the end.       *)
ChunkSize(size) ==
  IF size % ChunkLen # 0 THEN size % ChunkLen ELSE IF size = 0 THEN 0 ELSE ChunkLen

WriteChunk ==
  /\ job.op = "write"
  /\ LET left == job.size - ChunkSize(job.size) IN
     /\ Insert(<<job.next>> \o SubSeq(job.text, left + 1, job.size))
     /\ IF left = 0
        THEN /\ strings' = [r \in DOMAIN strings \cup {rid'} |->
                              IF r = rid' THEN job.text ELSE strings[r]]
             /\ job' = Idle
        ELSE /\ job' = [job EXCEPT !.size = left, !.next = rid']
             /\ UNCHANGED strings

DeleteString(r) ==
  /\ job = Idle
  /\ r \in DOMAIN strings
  /\ strings' = [q \in DOMAIN strings \ {r} |-> strings[q]]
  /\ job' = [op |-> "delete", next |-> r]
  /\ UNCHANGED vars

DeleteChunk_FirstOnly ==
  /\ job.op = "delete"
  /\ Delete(job.next[1], job.next[2])
  /\ job' = Idle
  /\ UNCHANGED strings
DeleteChunk ==
  /\ job.op = "delete"
  /\ LET after == Head(ChunkAt(job.next)) IN
     /\ Delete(job.next[1], job.next[2])
     /\ job' = IF IsNull(after) THEN Idle ELSE [job EXCEPT !.next = after]
     /\ UNCHANGED strings

NextStr ==
  \/ \E text \in Text : WriteString(text)
  \/ WriteChunk
  \/ \E r \in DOMAIN strings : DeleteString(r)
  \/ DeleteChunk

SpecStr == InitStr /\ [][NextStr]_strVars

-----------------------------------------------------------------------------
(* Whatever is written and deleted around it, a string reads back as it    *)
(* was written, cut off at the maximum the caller names: also one whose    *)
(* length is a multiple of a chunk's, and one character more or less.      *)
LoadsBack ==
  \A r \in DOMAIN strings : \A max \in 0 .. Len(strings[r]) + 1 :
    LoadString(r, max) = SubSeq(strings[r], 1, IF max < Len(strings[r]) THEN max
                                               ELSE Len(strings[r]))

(* The order of two texts, character by character.                         *)
Before(s, t) ==
  \E n \in 0 .. Len(s) :
    /\ n <= Len(t) /\ SubSeq(s, 1, n) = SubSeq(t, 1, n)
    /\ n < Len(t)
    /\ n = Len(s) \/ s[n + 1] < t[n + 1]

(* Strings that are not empty compare as texts do, wherever the boundaries *)
(* of their chunks lie, in no more rounds than the first has characters    *)
(* (str.c:56-84).                                                          *)
ComparesAsText ==
  \A q, r \in {r \in DOMAIN strings : strings[r] # <<>>} :
    CompareRecords(ReadString(q), ReadString(r), Len(strings[q])) =
      (IF Before(strings[q], strings[r]) THEN -1
       ELSE IF Before(strings[r], strings[q]) THEN 1 ELSE 0)

(* The chunks from r on, among the items that are stored.                  *)
Chain(items, r) ==
  LET link[n \in 0 .. Cardinality(DOMAIN items)] ==
        IF n = 0 THEN r
        ELSE IF IsNull(link[n - 1]) THEN link[n - 1] ELSE Head(items[link[n - 1]])
  IN {q \in {link[n] : n \in 0 .. Cardinality(DOMAIN items)} : ~IsNull(q)}

(* Every chunk of the table belongs to one string, or to the one that is   *)
(* being written or deleted: nothing leaks, nothing is shared.             *)
ChunksOwnedOnce ==
  LET owners == DOMAIN strings \cup (IF job = Idle THEN {} ELSE {job.next})
  IN /\ UNION {Chain(Stored, r) : r \in owners} = DOMAIN Stored
     /\ \A q, r \in DOMAIN strings : q # r => Chain(Stored, q) \cap Chain(Stored, r) = {}
     /\ job # Idle =>
          \A r \in DOMAIN strings : Chain(Stored, r) \cap Chain(Stored, job.next) = {}
=============================================================================
