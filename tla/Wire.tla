-------------------------------- MODULE Wire --------------------------------
(***************************************************************************)
(* One conversation, from the line typed to the line printed: the shell    *)
(* (myjql/main/myjqlshell.cpp), the driver (myjql/driver/myjqlclient.cpp)  *)
(* and the thread of the server that serves it (InstanceThread of          *)
(* myjql/main/myjqlserver.c), with the messages of their protocol on a TCP *)
(* connection on Linux.                                                    *)
(*                                                                         *)
(* A direction of the connection is a sequence of integers, whose bytes    *)
(* stay together, and characters.  A recv of a text may return a part of   *)
(* it; whoever then takes characters for an integer is astray, and the     *)
(* model does not follow.  The server may stop at any moment, between the  *)
(* calls into its store, which is a map here.  What the thread does when   *)
(* the shell goes without a farewell is in Server.                         *)
(***************************************************************************)
EXTENDS Integers, Sequences

CONSTANTS
  Line,         \* what may be typed: [words, length, end]
  BufferSize,   \* INPUT_BUFFER_SIZE
  MaxStrLen,    \* MAX_STR_LEN
  MaxLines,     \* bound on the lines typed
  MayStop       \* the server may stop

ASSUME SizeAssumption ==
  BufferSize \in Nat /\ MaxStrLen \in Nat /\ MaxLines \in Nat /\ MayStop \in BOOLEAN
ASSUME LineAssumption ==
  \A line \in Line :
    /\ line.length \in Nat /\ line.end \in {"newline", "eof"}
    /\ line.words # <<>> => Tail(line.words) \in Seq(Seq(Nat) \ {<<>>})

VARIABLES
  shell,    \* "none", "typing", "busy", "leaving" or how it ended
  lines,    \* the lines typed
  cmd,      \* the command under way: code and arguments
  cpc,      \* where the driver is in it
  ccode,    \* its variable code
  cout,     \* the messages it has still to send
  result,   \* the last command, what the shell printed, and a value
  up,       \* what is on its way to the server
  down,     \* what is on its way to the client
  server,   \* the process: "running" or "stopped"
  refused,  \* the client has sent to a connection the server has closed
  spc,      \* where the thread is in InstanceThread
  scode,    \* its variable code
  op,       \* the code of the request it works on
  args,     \* the request's key and value, as received
  lens,     \* the lengths announced for them
  sout,     \* the messages it has still to send
  db,       \* the store
  served,   \* the last request carried out or refused, and its answer
  short,    \* a recv returned a part of a text
  astray    \* an integer was received that is part of a text

driver == <<cmd, cpc, ccode, cout>>
thread == <<spc, scode, op, args, lens, sout, db, served>>
ends == <<shell, lines, result, server, refused, short, astray>>
vars == <<driver, thread, ends, up, down>>

NoText == <<>>
NoResult == [cmd |-> <<>>, said |-> "nothing", value |-> NoText]
Nobody == [op |-> -1, args |-> <<>>, said |-> "nothing", value |-> NoText]
Junk == 0   \* a character of memory that malloc returned and recv did not fill

Number(n) == [kind |-> "int", val |-> n]
Message(n) == <<Number(n)>>
Chars(t) == [i \in DOMAIN t |-> [kind |-> "char", val |-> t[i]]]
Text(s) == [i \in DOMAIN s |-> s[i].val]

-----------------------------------------------------------------------------
Init ==
  /\ shell = "none" /\ lines = 0 /\ result = NoResult
  /\ cmd = <<>> /\ cpc = "none" /\ ccode = -1 /\ cout = <<>>
  /\ up = <<>> /\ down = <<>>
  /\ server = "running" /\ refused = FALSE
  /\ spc = "none" /\ scode = -1 /\ op = -1 /\ args = <<>> /\ lens = <<>> /\ sout = <<>>
  /\ db = [k \in {} |-> NoText]
  /\ served = Nobody
  /\ short = FALSE /\ astray = FALSE

(* client::client.  An exception of it ends the shell: nobody catches it.  *)
Connect ==
  /\ shell = "none"
  /\ IF server = "running"
     THEN shell' = "typing" /\ spc' = "code"
     ELSE shell' = "terminated" /\ UNCHANGED spc
  /\ UNCHANGED <<driver, scode, op, args, lens, sout, db, served, lines, result, server,
                 refused, short, astray, up, down>>

(* exit_nicely waits for the mutex, so no call is cut off.                 *)
Stop ==
  /\ MayStop /\ server = "running"
  /\ server' = "stopped"
  /\ UNCHANGED <<driver, thread, shell, lines, result, refused, short, astray, up, down>>

-----------------------------------------------------------------------------
(* read_input: a line over the buffer is skipped up to its end, which is   *)
(* looked for without regard to the end of the file; a line that the end   *)
(* of the file cuts off is dropped.                                        *)
TooLong(line) == line.length > BufferSize
ReadInput(line) ==
  CASE ~TooLong(line) /\ line.end = "newline" -> "line"
    [] ~TooLong(line) /\ line.end = "eof" -> "exit"
    [] TooLong(line) /\ line.end = "newline" -> "too_long"
    [] OTHER -> "spin"

(* The commands, by the code of their request; words beyond the arguments  *)
(* are ignored, and "exit" is one only on its own.                         *)
Commands == [get |-> [code |-> 0, arity |-> 1], set |-> [code |-> 1, arity |-> 2],
             del |-> [code |-> 2, arity |-> 1]]

Parsed(line) ==
  LET name == Head(line.words)
      given == Tail(line.words)
      c == Commands[name]
  IN IF line.words = <<>> THEN <<>>
     ELSE IF name \notin DOMAIN Commands \/ Len(given) < c.arity THEN <<>>
     ELSE <<c.code, SubSeq(given, 1, c.arity)>>

(* What get, set and del send, each message by a send of its own: the code *)
(* and, for every argument, its length and its characters.                 *)
RequestOf(c) ==
  [i \in 1 .. 2 * Len(c[2]) + 1 |->
     IF i = 1 THEN Message(c[1])
     ELSE IF i % 2 = 0 THEN Message(Len(c[2][i \div 2]))
     ELSE Chars(c[2][i \div 2])]

Start(c, messages) ==
  /\ cmd' = c
  /\ cpc' = "send"
  /\ cout' = messages
  /\ result' = NoResult
  /\ served' = Nobody
  /\ UNCHANGED ccode

Type(line) ==
  /\ shell = "typing"
  /\ lines < MaxLines
  /\ lines' = lines + 1
  /\ LET typed == ReadInput(line)
         parsed == Parsed(line)
     IN \/ /\ typed = "exit" \/ typed = "spin"
           /\ shell' = IF typed = "exit" THEN "gone" ELSE "spinning"
           /\ UNCHANGED <<driver, result, served>>
        \/ /\ typed = "too_long" \/ (typed = "line" /\ line.words # <<"exit">> /\ parsed = <<>>)
           /\ UNCHANGED <<shell, driver, result, served>>
        \/ /\ typed = "line" /\ line.words = <<"exit">>
           /\ shell' = "leaving"
           /\ Start(<<3, <<>>>>, <<Message(3)>>)
        \/ /\ typed = "line" /\ parsed # <<>>
           /\ shell' = "busy"
           /\ Start(parsed, RequestOf(parsed))
  /\ UNCHANGED <<spc, scode, op, args, lens, sout, db, server, refused, short, astray,
                 up, down>>

-----------------------------------------------------------------------------
(* The driver.  A command ends with what the shell prints for it, a value  *)
(* or the what() of an exception; the destructor ends the shell.           *)
Finish(said, value) ==
  /\ shell' = IF shell = "leaving" THEN "left" ELSE "typing"
  /\ result' = [cmd |-> cmd, said |-> said, value |-> value]
  /\ cpc' = "none"

(* After a send code holds the last integer sent.  The first message to a  *)
(* connection the server has closed resets it; one after that may raise    *)
(* SIGPIPE, which ends the shell.                                          *)
ClientSend ==
  /\ cpc = "send"
  /\ LET m == Head(cout) IN
     /\ ccode' = IF Len(m) = 1 /\ m[1].kind = "int" THEN m[1].val ELSE ccode
     /\ cout' = Tail(cout)
     /\ cpc' = IF Len(cout) = 1 THEN "code" ELSE "send"
     /\ IF server = "running"
        THEN up' = up \o m /\ UNCHANGED <<shell, refused>>
        ELSE /\ UNCHANGED up
             /\ refused' = TRUE
             /\ \/ UNCHANGED shell
                \/ refused /\ shell' = "killed"
  /\ UNCHANGED <<thread, cmd, lines, result, server, short, astray, down>>

(* A server that stops with messages it has not read resets the connection *)
(* at once, and a send may fail with that.                                 *)
SendError ==
  /\ cpc = "send"
  /\ server = "stopped" /\ up # <<>>
  /\ refused' = TRUE
  /\ cout' = <<>>
  /\ Finish("send", NoText)
  /\ UNCHANGED <<thread, cmd, ccode, lines, server, short, astray, up, down>>

(* What recv finds at the client.                                          *)
Closed == server = "stopped" /\ down = <<>>
Reset == Closed /\ (refused \/ up # <<>>)

(* The integer that a recv into code leaves there: at the end of the       *)
(* stream, the one that was there before.                                  *)
Received == IF Closed THEN ccode ELSE Head(down).val

RecvError ==
  /\ cpc \in {"code", "length", "text"}
  /\ Reset
  /\ Finish("recv", NoText)
  /\ UNCHANGED <<thread, cmd, ccode, cout, lines, server, refused, short, astray, up, down>>

LosesWay(stream) == stream # <<>> /\ Head(stream).kind = "char"

ClientAstray ==
  /\ cpc \in {"code", "length"}
  /\ LosesWay(down)
  /\ astray' = TRUE
  /\ UNCHANGED <<driver, thread, shell, lines, result, server, refused, short, up, down>>

ClientTakes ==
  /\ Closed \/ (down # <<>> /\ Head(down).kind = "int")
  /\ ccode' = Received
  /\ down' = IF Closed THEN down ELSE Tail(down)
  /\ UNCHANGED <<thread, cmd, cout, lines, server, refused, short, astray, up>>

Says(code) ==
  CASE cmd[1] = 0 /\ code = 0 -> "not_found"
    [] cmd[1] = 3 -> "bye"
    [] cmd[1] \in {1, 2} /\ code = 1 -> "OK"
    [] cmd[1] # 3 /\ code = 2 -> "key_too_long"
    [] cmd[1] = 1 /\ code = 3 -> "value_too_long"
    [] OTHER -> "unknown_code"

ClientCode ==
  /\ cpc = "code"
  /\ ClientTakes
  /\ IF cmd[1] = 0 /\ Received = 1
     THEN cpc' = "length" /\ UNCHANGED <<shell, result>>
     ELSE Finish(Says(Received), NoText)

ClientLength ==
  /\ cpc = "length"
  /\ ClientTakes
  /\ cpc' = "text"
  /\ UNCHANGED <<shell, result>>

(* A part of n characters, what there is of them, or all.                  *)
Parts(stream, n) == 1 .. IF Len(stream) < n THEN Len(stream) ELSE n

Accepts_Anything(n) == TRUE
Accepts(n) == n = ccode
ClientText ==
  /\ cpc = "text"
  /\ \E n \in IF Closed THEN {0} ELSE Parts(down, ccode) :
       /\ down' = SubSeq(down, n + 1, Len(down))
       /\ short' = (short \/ (n < ccode /\ ~Closed))
       /\ IF Accepts(n)
          THEN Finish("value", Text(SubSeq(down, 1, n)))
          ELSE Finish("incomplete_response", NoText)
  /\ UNCHANGED <<thread, cmd, ccode, cout, lines, server, refused, astray, up>>

Client ==
  \/ ClientSend \/ SendError \/ RecvError \/ ClientAstray
  \/ ClientCode \/ ClientLength \/ ClientText

-----------------------------------------------------------------------------
(* The thread of the server.                                               *)
Serving == server = "running" /\ shell \in {"typing", "busy", "leaving"}

ServerTakes == Serving /\ up # <<>> /\ Head(up).kind = "int"

ServerAstray ==
  /\ Serving /\ spc \in {"code", "length"}
  /\ LosesWay(up)
  /\ astray' = TRUE
  /\ UNCHANGED <<driver, thread, shell, lines, result, server, refused, short, up, down>>

(* The code of a request; a farewell is answered by 1 and ends the thread. *)
ServerCode ==
  /\ spc = "code"
  /\ ServerTakes
  /\ scode' = Head(up).val
  /\ op' = Head(up).val
  /\ args' = <<>> /\ lens' = <<>>
  /\ spc' = IF Head(up).val = 3 THEN "answer" ELSE "length"
  /\ sout' = IF Head(up).val = 3 THEN <<Message(1)>> ELSE <<>>
  /\ up' = Tail(up)
  /\ UNCHANGED <<driver, ends, db, served, down>>

ServerLength ==
  /\ spc = "length"
  /\ ServerTakes
  /\ scode' = Head(up).val
  /\ lens' = Append(lens, Head(up).val)
  /\ spc' = "text"
  /\ up' = Tail(up)
  /\ UNCHANGED <<driver, ends, op, args, sout, db, served, down>>

(* recv of a key or a value: the rest of the memory is as malloc left it.  *)
ServerText_RefusesEarly ==
  /\ Serving /\ spc = "text"
  /\ \E n \in Parts(up, scode) :
       LET got == Text(SubSeq(up, 1, n)) \o [i \in 1 .. scode - n |-> Junk] IN
       /\ args' = Append(args, got)
       /\ short' = (short \/ n < scode)
       /\ up' = SubSeq(up, n + 1, Len(up))
  /\ spc' = IF op = 1 /\ Len(args) = 0 /\ scode <= MaxStrLen THEN "length" ELSE "call"
  /\ UNCHANGED <<driver, shell, lines, result, server, refused, astray, scode, op, lens,
                 sout, db, served, down>>
ServerText ==
  /\ Serving /\ spc = "text"
  /\ \E n \in Parts(up, scode) :
       LET got == Text(SubSeq(up, 1, n)) \o [i \in 1 .. scode - n |-> Junk] IN
       /\ args' = Append(args, got)
       /\ short' = (short \/ n < scode)
       /\ up' = SubSeq(up, n + 1, Len(up))
  /\ spc' = IF op = 1 /\ Len(args) = 0 THEN "length" ELSE "call"
  /\ UNCHANGED <<driver, shell, lines, result, server, refused, astray, scode, op, lens,
                 sout, db, served, down>>

Answers(messages, said, value) ==
  /\ sout' = messages
  /\ served' = [op |-> op, args |-> args, said |-> said, value |-> value]

Refuse(code, said) ==
  /\ Answers(<<Message(code)>>, said, NoText)
  /\ UNCHANGED db

Fits_OneMore(i) == lens[i] <= MaxStrLen + 1
Fits(i) == lens[i] <= MaxStrLen

(* myjql_get, under the mutex.                                             *)
ServerGet ==
  /\ op = 0
  /\ \/ ~Fits(1) /\ Refuse(2, "key_too_long")
     \/ /\ Fits(1) /\ args[1] \notin DOMAIN db
        /\ Refuse(0, "not_found")
     \/ /\ Fits(1) /\ args[1] \in DOMAIN db
        /\ LET value == db[args[1]] IN
           Answers(<<Message(1), Message(Len(value)), Chars(value)>>, "value", value)
        /\ UNCHANGED db

(* myjql_set.                                                              *)
ServerSet ==
  /\ op = 1
  /\ \/ ~Fits(1) /\ Refuse(2, "key_too_long")
     \/ Fits(1) /\ ~Fits(2) /\ Refuse(3, "value_too_long")
     \/ /\ Fits(1) /\ Fits(2)
        /\ db' = [k \in DOMAIN db \cup {args[1]} |-> IF k = args[1] THEN args[2] ELSE db[k]]
        /\ Answers(<<Message(1)>>, "OK", NoText)

(* myjql_del.                                                              *)
ServerDel ==
  /\ op = 2
  /\ \/ ~Fits(1) /\ Refuse(2, "key_too_long")
     \/ /\ Fits(1)
        /\ db' = [k \in DOMAIN db \ {args[1]} |-> db[k]]
        /\ Answers(<<Message(1)>>, "OK", NoText)

ServerCall ==
  /\ Serving /\ spc = "call"
  /\ ServerGet \/ ServerSet \/ ServerDel
  /\ spc' = "answer"
  /\ UNCHANGED <<driver, ends, scode, op, args, lens, up, down>>

ServerSend_OneMessage ==
  /\ Serving /\ spc = "answer"
  /\ down' = down \o Head(sout)
  /\ sout' = <<>>
  /\ scode' = IF Head(sout)[1].kind = "int" THEN Head(sout)[1].val ELSE scode
  /\ spc' = IF op = 3 THEN "done" ELSE "code"
  /\ UNCHANGED <<driver, ends, op, args, lens, db, served, up>>
ServerSend ==
  /\ Serving /\ spc = "answer"
  /\ down' = down \o Head(sout)
  /\ sout' = Tail(sout)
  /\ scode' = IF Head(sout)[1].kind = "int" THEN Head(sout)[1].val ELSE scode
  /\ spc' = IF Len(sout) > 1 THEN "answer" ELSE IF op = 3 THEN "done" ELSE "code"
  /\ UNCHANGED <<driver, ends, op, args, lens, db, served, up>>

Thread ==
  \/ ServerAstray \/ ServerCode \/ ServerLength \/ ServerText
  \/ ServerCall \/ ServerSend

-----------------------------------------------------------------------------
InCommand == shell \in {"busy", "leaving"}

Next ==
  /\ ~astray
  /\ \/ Connect \/ Stop
     \/ \E line \in Line : Type(line)
     \/ InCommand /\ Client
     \/ Thread

Spec == Init /\ [][Next]_vars

(* The kernel runs both processes and delivers what was sent.              *)
FairSpec ==
  /\ Spec
  /\ WF_vars(~astray /\ InCommand /\ Client)
  /\ WF_vars(~astray /\ Thread)

-----------------------------------------------------------------------------
Elements == [kind : {"int"}, val : Nat] \cup [kind : {"char"}, val : Nat]
TypeOK ==
  /\ shell \in {"none", "typing", "busy", "leaving", "left", "gone", "spinning",
                "terminated", "killed"}
  /\ cpc \in {"none", "send", "code", "length", "text"}
  /\ cpc = "send" => cout # <<>>
  /\ ccode \in Nat \cup {-1}
  /\ \A i \in DOMAIN up : up[i] \in Elements
  /\ \A i \in DOMAIN down : down[i] \in Elements
  /\ spc \in {"none", "code", "length", "text", "call", "answer", "done"}
  /\ spc = "call" => Len(lens) = Len(args) /\ Len(args) = IF op = 1 THEN 2 ELSE 1
  /\ spc = "answer" => sout # <<>>
  /\ \A k \in DOMAIN db : Len(k) <= MaxStrLen /\ Len(db[k]) <= MaxStrLen

(* What the shell prints is what the server did for that very command: a   *)
(* value or "not_found" even when the server stops under the command; an *)
(* OK or a refusal as long as it does not.  A value is never printed in    *)
(* part, not even when a recv delivers a part of it (myjqlclient.cpp:186). *)
ServedAs(r) ==
  /\ served.op = r.cmd[1] /\ served.args = r.cmd[2]
  /\ served.said = r.said /\ served.value = r.value
ResultsTrue ==
  /\ ~short /\ result.said \in {"value", "not_found"} => ServedAs(result)
  /\ ~short /\ server = "running"
       /\ result.said \in {"OK", "key_too_long", "value_too_long"} => ServedAs(result)
  /\ result.said = "value" => result.value = served.value
  /\ result.said = "unknown_code" => server = "stopped" \/ short

(* Between two commands nothing is under way in either direction and the   *)
(* thread waits for a code, whatever the outcome of the last command was:  *)
(* else its rest would be taken for the next one (myjqlserver.c:142, 258). *)
InStep ==
  shell = "typing" /\ server = "running" /\ ~short =>
    up = <<>> /\ down = <<>> /\ spc = "code"

(* A command ends, also when the server stops under it, unless one side    *)
(* has lost its way in the stream.                                         *)
CommandEnds == InCommand ~> (~InCommand \/ astray)

(* myjqlclient.cpp:253: "recv: 1 (ok)".  The shell prints OK only when the *)
(* server has carried the command out, if the thread has received all of   *)
(* it.                                                                     *)
OkMeansServed ==
  ~short /\ ~refused /\ up = <<>> /\ result.said = "OK" => ServedAs(result)
=============================================================================
