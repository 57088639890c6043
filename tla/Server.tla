------------------------------- MODULE Server -------------------------------
(***************************************************************************)
(* The server of myjql/main/myjqlserver.c on Linux: the main thread        *)
(* accepts clients, one thread per client receives its requests and calls  *)
(* myjql_get, myjql_set or myjql_del under one mutex, and SIGINT runs      *)
(* exit_nicely on top of whatever a thread is doing.  The clients are      *)
(* those of myjql/driver/myjqlclient.cpp: one request at a time, and a     *)
(* farewell (code 3) from the destructor.  A shell that reads end of file  *)
(* calls exit() instead (myjqlshell.cpp:32), which closes the connection   *)
(* without one.                                                            *)
(*                                                                         *)
(* A request is received whole.  The store behind the calls is a map from  *)
(* keys to values; a call reads it when it begins and writes it when it    *)
(* ends, so calls that overlap would undo each other.                      *)
(***************************************************************************)
EXTENDS Integers

CONSTANTS
  Client,
  Main,          \* the thread of main
  Key, Value,    \* what clients send
  LongKey, LongValue,   \* those of them longer than MAX_STR_LEN
  Length,        \* the length of a value, cut off at 4
  Junk,          \* what uninitialised memory holds when it is none of these
  NoValue, NoThread, NoRequest, NoAnswer,
  MaxRequests,   \* bound on the requests of a client
  MaxSignals,    \* bound on the number of SIGINTs
  MayVanish      \* clients may close the connection without a farewell

Request ==
  [op : {"get", "del"}, key : Key, value : {NoValue}]
    \cup [op : {"set"}, key : Key, value : Value]

(* What a thread takes for a request, and its answers.                     *)
Taken == [op : {"get", "set", "del"}, key : Key \cup {Junk}, value : Value \cup {Junk, NoValue}]
Given == [code : 0 .. 3, value : (Value \ LongValue) \cup {Junk, NoValue}]

ASSUME ServerAssumption ==
  /\ MaxRequests \in Nat /\ MaxSignals \in Nat /\ MayVanish \in BOOLEAN
  /\ Main \notin Client
  /\ NoThread \notin Client \cup {Main}
  /\ "destroyed" \notin Client \cup {Main, NoThread}
  /\ LongKey \subseteq Key /\ LongValue \subseteq Value
  /\ Length \in [Value \cup {Junk} -> 0 .. 4]
  /\ NoRequest \notin Taken /\ NoAnswer \notin Given

VARIABLES
  status,    \* of the process: "running", "exited" or "crashed"
  pools,     \* the store's files: "open" until myjql_close
  db,        \* the store
  mutex,     \* CriticalSection: its owner, NoThread or "destroyed"
  hpc,       \* where each thread is in exit_nicely
  signals,   \* SIGINTs so far
  pc,        \* where each client's thread is in InstanceThread
  req,       \* the request it is working on
  code,      \* its variable code, as it is when the loop comes round
  view,      \* the store as its call found it
  ans,       \* the answer it is about to send
  reset,     \* its last answer met a closed connection
  peer,      \* each client
  asked,     \* the client's request that has not been answered
  got,       \* the last answer the client received
  left       \* the requests it may still send

threadVars == <<pc, req, code, view, ans, reset>>
clientVars == <<peer, asked, got, left>>
vars == <<status, pools, db, mutex, hpc, signals, threadVars, clientVars>>

Thread == Client \cup {Main}
Unset == -1    \* code before its first assignment
Code == 0 .. 4 \* 4 stands for every value the loop does nothing about

(* Strings over MAX_STR_LEN never get into the store.                      *)
Store == [Key \cup {Junk} -> (Value \ LongValue) \cup {Junk, NoValue}]

EmptyStore == [k \in Key \cup {Junk} |-> NoValue]

-----------------------------------------------------------------------------
(* myjql_set, myjql_del and myjql_get, as the server uses them; a request  *)
(* with a string over MAX_STR_LEN does not reach them.                     *)
TooLong_KeyOnly(r) == r.key \in LongKey
TooLong(r) == r.key \in LongKey \/ r.value \in LongValue

Effect(s, r) ==
  IF TooLong(r) \/ r.op = "get" THEN s ELSE [s EXCEPT ![r.key] = r.value]

(* The codes of the comments at lines 130, 228 and 318, and the value.     *)
Answer(s, r) ==
  [code |-> IF r.key \in LongKey THEN 2
            ELSE IF r.value \in LongValue THEN 3
            ELSE IF r.op = "get" /\ s[r.key] = NoValue THEN 0 ELSE 1,
   value |-> IF r.op = "get" /\ r.key \notin LongKey THEN s[r.key] ELSE NoValue]

Found(a) == a.value # NoValue

-----------------------------------------------------------------------------
Init ==
  /\ status = "running" /\ pools = "open" /\ signals = 0
  /\ db = EmptyStore
  /\ mutex = NoThread
  /\ hpc = [t \in Thread |-> "none"]
  /\ pc = [c \in Client |-> "none"]
  /\ req = [c \in Client |-> NoRequest]
  /\ code = [c \in Client |-> Unset]
  /\ view = [c \in Client |-> EmptyStore]
  /\ ans = [c \in Client |-> NoAnswer]
  /\ reset = [c \in Client |-> FALSE]
  /\ peer = [c \in Client |-> "none"]
  /\ asked = [c \in Client |-> NoRequest]
  /\ got = [c \in Client |-> NoAnswer]
  /\ left = [c \in Client |-> MaxRequests]

-----------------------------------------------------------------------------
(* The clients.                                                            *)

(* main accepts a connection and starts its thread.                        *)
Connect(c) ==
  /\ hpc[Main] = "none"
  /\ peer[c] = "none"
  /\ peer' = [peer EXCEPT ![c] = "idle"]
  /\ pc' = [pc EXCEPT ![c] = "recv"]
  /\ UNCHANGED <<status, pools, db, mutex, hpc, signals, req, code, view, ans,
                 reset, asked, got, left>>

Ask(c) ==
  /\ peer[c] = "idle"
  /\ left[c] > 0
  /\ \E r \in Request : asked' = [asked EXCEPT ![c] = r]
  /\ peer' = [peer EXCEPT ![c] = "waiting"]
  /\ left' = [left EXCEPT ![c] = @ - 1]
  /\ UNCHANGED <<status, pools, db, mutex, hpc, signals, threadVars, got>>

Farewell(c) ==
  /\ peer[c] = "idle"
  /\ peer' = [peer EXCEPT ![c] = "leaving"]
  /\ UNCHANGED <<status, pools, db, mutex, hpc, signals, threadVars, asked, got, left>>

Vanish(c) ==
  /\ MayVanish
  /\ peer[c] \in {"idle", "waiting"}
  /\ peer' = [peer EXCEPT ![c] = "gone"]
  /\ UNCHANGED <<status, pools, db, mutex, hpc, signals, threadVars, asked, got, left>>

-----------------------------------------------------------------------------
(* InstanceThread.  A thread runs when no signal handler runs on top of it.*)
At(c, place) == pc[c] = place /\ hpc[c] = "none"

(* Work on request r: refuse it, or go for the mutex.                      *)
Take(c, r) ==
  /\ req' = [req EXCEPT ![c] = r]
  /\ IF TooLong(r)
     THEN /\ ans' = [ans EXCEPT ![c] = Answer(db, r)]
          /\ pc' = [pc EXCEPT ![c] = "reply"]
     ELSE /\ pc' = [pc EXCEPT ![c] = "lock"]
          /\ UNCHANGED ans
  /\ UNCHANGED <<status, pools, db, mutex, hpc, signals, code, view, reset, clientVars>>

Receive(c) ==
  /\ At(c, "recv")
  /\ asked[c] # NoRequest
  /\ Take(c, asked[c])

(* Code 3: answer, shut down and end.                                      *)
ReceiveFarewell(c) ==
  /\ At(c, "recv")
  /\ peer[c] = "leaving"
  /\ pc' = [pc EXCEPT ![c] = "done"]
  /\ peer' = [peer EXCEPT ![c] = "left"]
  /\ UNCHANGED <<status, pools, db, mutex, hpc, signals, req, code, view, ans,
                 reset, asked, got, left>>

(* recv on a connection its client has closed returns 0 and leaves code as *)
(* it was: the last answer, the length of the last value, or garbage.  The *)
(* thread takes it for the code of a next request, whose strings are what  *)
(* malloc returned.                                                        *)
StaleCode(c) == IF code[c] = Unset THEN Code ELSE {code[c]}

PhantomRequest(n) ==
  CASE n = 0 -> [op : {"get"}, key : {Junk}, value : {NoValue}]
    [] n = 1 -> [op : {"set"}, key : Key \cup {Junk}, value : {Junk}]
    [] n = 2 -> [op : {"del"}, key : Key \cup {Junk}, value : {NoValue}]
    [] OTHER -> {}

EndOfFile(c) == At(c, "recv") /\ peer[c] = "gone" /\ asked[c] = NoRequest

ReceiveNothing(c) ==
  /\ EndOfFile(c)
  /\ \E n \in StaleCode(c) : \E r \in PhantomRequest(n) :
       Take(c, [r EXCEPT !.key = IF @ \in LongKey THEN Junk ELSE @])

(* A stale 3 is a farewell: its answer may meet a reset connection.        *)
ReceiveStaleFarewell(c) ==
  /\ EndOfFile(c)
  /\ 3 \in StaleCode(c)
  /\ pc' = [pc EXCEPT ![c] = "done"]
  /\ status' = IF reset[c] THEN "crashed" ELSE status
  /\ UNCHANGED <<pools, db, mutex, hpc, signals, req, code, view, ans, reset, clientVars>>

(* Once an answer has met the closed connection, recv may fail instead.    *)
ReceiveError(c) ==
  /\ EndOfFile(c)
  /\ reset[c]
  /\ pc' = [pc EXCEPT ![c] = "done"]
  /\ UNCHANGED <<status, pools, db, mutex, hpc, signals, req, code, view, ans,
                 reset, clientVars>>

(* EnterCriticalSection; a destroyed mutex lets everyone in.               *)
Free == mutex \in {NoThread, "destroyed"}
Owned(t) == IF mutex = "destroyed" THEN mutex ELSE t

Enter_Unlocked(c) ==
  /\ At(c, "lock")
  /\ pc' = [pc EXCEPT ![c] = "begin"]
  /\ UNCHANGED <<status, pools, db, mutex, hpc, signals, req, code, view, ans,
                 reset, clientVars>>
Enter(c) ==
  /\ At(c, "lock")
  /\ Free
  /\ mutex' = Owned(c)
  /\ pc' = [pc EXCEPT ![c] = "begin"]
  /\ UNCHANGED <<status, pools, db, hpc, signals, req, code, view, ans, reset, clientVars>>

(* The call into the store.  On pools that myjql_close has freed its       *)
(* outcome is undefined, and the model does not follow the process.        *)
Begin(c) ==
  /\ At(c, "begin")
  /\ IF pools = "open"
     THEN /\ view' = [view EXCEPT ![c] = db]
          /\ pc' = [pc EXCEPT ![c] = "busy"]
          /\ UNCHANGED status
     ELSE status' = "crashed" /\ UNCHANGED <<view, pc>>
  /\ UNCHANGED <<pools, db, mutex, hpc, signals, req, code, ans, reset, clientVars>>

End(c) ==
  /\ At(c, "busy")
  /\ db' = Effect(view[c], req[c])
  /\ ans' = [ans EXCEPT ![c] = Answer(view[c], req[c])]
  /\ pc' = [pc EXCEPT ![c] = "leave"]
  /\ view' = [view EXCEPT ![c] = EmptyStore]
  /\ UNCHANGED <<status, pools, mutex, hpc, signals, req, code, reset, clientVars>>

(* LeaveCriticalSection.                                                   *)
Released == IF mutex = "destroyed" THEN mutex ELSE NoThread
Leave_KeepsMutex(c) ==
  /\ At(c, "leave")
  /\ pc' = [pc EXCEPT ![c] = "reply"]
  /\ UNCHANGED <<status, pools, db, mutex, hpc, signals, req, code, view, ans,
                 reset, clientVars>>
Leave(c) ==
  /\ At(c, "leave")
  /\ mutex' = Released
  /\ pc' = [pc EXCEPT ![c] = "reply"]
  /\ UNCHANGED <<status, pools, db, hpc, signals, req, code, view, ans, reset, clientVars>>

(* Sending the answer, and round the loop: code keeps the answer's code,   *)
(* or the length of the value sent.                                        *)
Sent(c) ==
  /\ At(c, "reply")
  /\ pc' = [pc EXCEPT ![c] = "recv"]
  /\ code' = [code EXCEPT ![c] = IF Found(ans[c]) THEN Length[ans[c].value]
                                 ELSE ans[c].code]
  /\ ans' = [ans EXCEPT ![c] = NoAnswer]
  /\ req' = [req EXCEPT ![c] = NoRequest]
  /\ asked' = [asked EXCEPT ![c] = NoRequest]
  /\ UNCHANGED <<pools, db, mutex, hpc, signals, view, left>>

Reply(c) ==
  /\ Sent(c)
  /\ peer[c] = "waiting"
  /\ peer' = [peer EXCEPT ![c] = "idle"]
  /\ got' = [got EXCEPT ![c] = ans[c]]
  /\ UNCHANGED <<status, reset>>

(* The first message to a closed connection is lost and resets it; one     *)
(* after that raises SIGPIPE, which nobody handles or blocks.  An answer   *)
(* with a value is three messages.                                         *)
ReplyLost(c) ==
  /\ Sent(c)
  /\ peer[c] = "gone"
  /\ \/ ~reset[c] /\ UNCHANGED status
     \/ (reset[c] \/ Found(ans[c])) /\ status' = "crashed"
  /\ reset' = [reset EXCEPT ![c] = TRUE]
  /\ UNCHANGED <<peer, got>>

ThreadStep(c) ==
  \/ Receive(c) \/ ReceiveFarewell(c) \/ ReceiveNothing(c)
  \/ ReceiveStaleFarewell(c) \/ ReceiveError(c)
  \/ Enter(c) \/ Begin(c) \/ End(c) \/ Leave(c) \/ Reply(c) \/ ReplyLost(c)

-----------------------------------------------------------------------------
(* SIGINT.  Linux gives it to the main thread unless that is in the        *)
(* handler already, which blocks it there; then to some other thread.      *)
Alive(t) == t = Main \/ (t \in Client /\ pc[t] \notin {"none", "done"})

Interrupt(t) ==
  /\ signals < MaxSignals
  /\ Alive(t) /\ hpc[t] = "none"
  /\ t = Main \/ hpc[Main] # "none"
  /\ signals' = signals + 1
  /\ hpc' = [hpc EXCEPT ![t] = "lock"]
  /\ UNCHANGED <<status, pools, db, mutex, threadVars, clientVars>>

(* exit_nicely.                                                            *)
HandlerEnter(t) ==
  /\ hpc[t] = "lock"
  /\ Free
  /\ mutex' = Owned(t)
  /\ hpc' = [hpc EXCEPT ![t] = "close"]
  /\ UNCHANGED <<status, pools, db, signals, threadVars, clientVars>>

(* myjql_close; a second one frees what is freed.                          *)
HandlerClose(t) ==
  /\ hpc[t] = "close"
  /\ IF pools = "open"
     THEN pools' = "closed" /\ hpc' = [hpc EXCEPT ![t] = "leave"] /\ UNCHANGED status
     ELSE status' = "crashed" /\ UNCHANGED <<pools, hpc>>
  /\ UNCHANGED <<db, mutex, signals, threadVars, clientVars>>

HandlerLeave(t) ==
  /\ hpc[t] = "leave"
  /\ mutex' = Released
  /\ hpc' = [hpc EXCEPT ![t] = "destroy"]
  /\ UNCHANGED <<status, pools, db, signals, threadVars, clientVars>>

(* pthread_mutex_destroy has no effect on a locked mutex.                  *)
HandlerDestroy(t) ==
  /\ hpc[t] = "destroy"
  /\ mutex' = IF Free THEN "destroyed" ELSE mutex
  /\ hpc' = [hpc EXCEPT ![t] = "exit"]
  /\ UNCHANGED <<status, pools, db, signals, threadVars, clientVars>>

HandlerExit(t) ==
  /\ hpc[t] = "exit"
  /\ status' = "exited"
  /\ UNCHANGED <<pools, db, mutex, hpc, signals, threadVars, clientVars>>

HandlerStep(t) ==
  \/ HandlerEnter(t) \/ HandlerClose(t) \/ HandlerLeave(t)
  \/ HandlerDestroy(t) \/ HandlerExit(t)

-----------------------------------------------------------------------------
Running == status = "running"

Next ==
  /\ Running
  /\ \/ \E c \in Client :
          Connect(c) \/ Ask(c) \/ Farewell(c) \/ Vanish(c) \/ ThreadStep(c)
     \/ \E t \in Thread : Interrupt(t) \/ HandlerStep(t)

Spec == Init /\ [][Next]_vars

(* The kernel runs every thread that can run.  The mutex is not fair, but  *)
(* the requests it is contended for are finitely many.                     *)
Fairness ==
  /\ \A c \in Client : WF_vars(Running /\ ThreadStep(c))
  /\ \A t \in Thread : WF_vars(Running /\ HandlerStep(t))

FairSpec == Spec /\ Fairness

-----------------------------------------------------------------------------
TypeOK ==
  /\ status \in {"running", "exited", "crashed"}
  /\ pools \in {"open", "closed"}
  /\ db \in Store
  /\ mutex \in Thread \cup {NoThread, "destroyed"}
  /\ hpc \in [Thread -> {"none", "lock", "close", "leave", "destroy", "exit"}]
  /\ signals \in 0 .. MaxSignals
  /\ pc \in [Client -> {"none", "recv", "lock", "begin", "busy", "leave", "reply", "done"}]
  /\ code \in [Client -> Code \cup {Unset}]
  /\ view \in [Client -> Store]
  /\ req \in [Client -> Taken \cup {NoRequest}]
  /\ ans \in [Client -> Given \cup {NoAnswer}]
  /\ reset \in [Client -> BOOLEAN]
  /\ peer \in [Client -> {"none", "idle", "waiting", "leaving", "left", "gone"}]
  /\ asked \in [Client -> Request \cup {NoRequest}]
  /\ got \in [Client -> Given \cup {NoAnswer}]
  /\ left \in [Client -> 0 .. MaxRequests]

(* What makes it inductive: a thread that goes for the mutex has a request *)
(* to carry out, and one that goes to reply has an answer.                 *)
Prepared ==
  /\ \A c \in Client : pc[c] \in {"lock", "begin", "busy"} => req[c] \in Taken
  /\ \A c \in Client : pc[c] \in {"leave", "reply"} => ans[c] \in Given

TypeInv == TypeOK /\ Prepared

(* The threads inside the critical section, by call or by handler.         *)
InCall == {c \in Client : pc[c] \in {"begin", "busy", "leave"}}
InClose == {t \in Thread : hpc[t] \in {"close", "leave"}}

(* As long as the pools are open, nothing runs beside a call into them and *)
(* they are not closed under one: not by another thread and not by a       *)
(* handler on top of the caller (myjqlserver.c:167-174, 294-301, 352-359,  *)
(* 407-414).                                                               *)
MutualExclusion ==
  pools = "open" =>
    /\ \A c, d \in InCall : c = d
    /\ \A t, u \in InClose : t = u
    /\ InCall = {} \/ InClose = {}

(* What makes it inductive.  Until the pools are closed the mutex is not   *)
(* destroyed, whoever is inside owns it, a handler does not run on top of  *)
(* a call of its own thread, and no handler is past myjql_close.           *)
LockType ==
  /\ pools \in {"open", "closed"}
  /\ mutex \in Thread \cup {NoThread, "destroyed"}
  /\ hpc \in [Thread -> {"none", "lock", "close", "leave", "destroy", "exit"}]
  /\ pc \in [Client -> {"none", "recv", "lock", "begin", "busy", "leave", "reply", "done"}]

OwnersInside ==
  pools = "open" =>
    /\ mutex # "destroyed"
    /\ \A c \in InCall : mutex = c /\ c \notin InClose
    /\ \A t \in Thread : hpc[t] \notin {"leave", "destroy", "exit"}
    /\ \A t \in InClose : mutex = t

LockInv == LockType /\ OwnersInside

(* Where a client and its thread stand to each other as long as clients    *)
(* leave with a farewell; with LockInv it is what makes the server a       *)
(* KVService: a call works on its client's request, and on the store as it *)
(* is, because nobody else changes it meanwhile.                           *)
CallInv ==
  \A c \in Client :
    /\ peer[c] # "gone"
    /\ peer[c] = "waiting" <=> asked[c] # NoRequest
    /\ pc[c] \in {"none", "recv", "done"} \/ (asked[c] # NoRequest /\ req[c] = asked[c])
    /\ pc[c] = "busy" => view[c] = db /\ pools = "open"

(* No call into the store, and no second myjql_close, after myjql_close.   *)
(* README.md:73: "To **safely** stop the server: Use `ctrl + c`".          *)
ClosedForGood ==
  pools = "closed" =>
    /\ \A c \in Client : pc[c] # "begin"
    /\ \A t \in Thread : hpc[t] # "close"

(* A handler of SIGINT waits for the mutex that the thread under it holds  *)
(* (myjqlserver.c:407).  The main thread never holds it; a second SIGINT,  *)
(* which the main thread blocks during its handler, may reach a thread     *)
(* that does.                                                              *)
SelfLocked(t) == hpc[t] = "lock" /\ mutex = t

(* SIGINT ends the process, however the threads and handlers contend for   *)
(* the mutex meanwhile and whichever clients vanish.  A handler that waits *)
(* for its own thread is the only thing that may keep it from ending.      *)
StopTerminates == (signals > 0) ~> (~Running \/ \E t \in Thread : SelfLocked(t))

(* A request is answered, unless the server stops.                         *)
RequestsAnswered ==
  \A c \in Client : (asked[c] # NoRequest) ~> (asked[c] = NoRequest \/ ~Running)

(* Every request a thread works on, once its client has had an answer      *)
(* (before that the thread's code is uninitialised memory), is one that    *)
(* the client sent and is waiting for ("recv: 2 key_len key",              *)
(* myjqlserver.c:318).                                                     *)
OnlyAskedRequests ==
  \A c \in Client : got[c] # NoAnswer /\ req[c] # NoRequest => req[c] = asked[c]

Service == INSTANCE KVService WITH
  call <- [c \in Client |->
             [req |-> asked[c],
              ans |-> IF pc[c] \in {"leave", "reply"} THEN ans[c] ELSE NoAnswer]]

(* To its clients the server is one atomic map: overlapping requests, a    *)
(* SIGINT in between, and refused requests included.                       *)
ImplementsKVService == Service!Spec
=============================================================================
