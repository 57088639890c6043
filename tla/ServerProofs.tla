---------------------------- MODULE ServerProofs ----------------------------
(***************************************************************************)
(* Type correctness and MutualExclusion of Server, for any clients,        *)
(* requests and signals, also when clients vanish and stale codes are      *)
(* taken for requests, and that Server implements KVService.  The          *)
(* invariants are TypeInv, LockInv and CallInv of Server.                  *)
(***************************************************************************)
EXTENDS Server, TLAPS

LEMMA AnswerGiven ==
  ASSUME NEW s \in Store, NEW r \in Taken
  PROVE  Answer(s, r) \in Given
<1>1. r.op \in {"get", "set", "del"} /\ s[r.key] \in (Value \ LongValue) \cup {Junk, NoValue}
  BY DEF Taken, Store
<1> QED
  BY <1>1 DEF Answer, Given

(* A request with a string over MAX_STR_LEN leaves the store alone.        *)
LEMMA EffectStore ==
  ASSUME NEW s \in Store, NEW r \in Taken
  PROVE  Effect(s, r) \in Store
<1>1. CASE TooLong(r) \/ r.op = "get"
  BY <1>1 DEF Effect
<1>2. CASE ~(TooLong(r) \/ r.op = "get")
  <2>1. r.value \in (Value \ LongValue) \cup {Junk, NoValue}
    BY <1>2 DEF TooLong, Taken
  <2> QED
    BY <1>2, <2>1 DEF Effect, Store
<1> QED
  BY <1>1, <1>2

LEMMA RequestTaken == Request \subseteq Taken
  BY DEF Request, Taken

LEMMA InitType == Init => TypeInv
<1> SUFFICES ASSUME Init PROVE TypeInv
  OBVIOUS
<1>1. EmptyStore \in Store
  BY DEF EmptyStore, Store
<1>2. TypeOK
  BY <1>1, ServerAssumption DEF Init, TypeOK
<1>3. Prepared
  BY DEF Init, Prepared
<1> QED
  BY <1>2, <1>3 DEF TypeInv

(* The clients' steps.                                                     *)
LEMMA ClientType ==
  ASSUME TypeInv, NEW c \in Client, Connect(c) \/ Ask(c) \/ Farewell(c) \/ Vanish(c)
  PROVE  TypeInv'
<1> USE DEF TypeInv, TypeOK, Prepared
<1>1. CASE Connect(c)
  BY <1>1 DEF Connect
<1>2. CASE Ask(c)
  BY <1>2, ServerAssumption DEF Ask, threadVars
<1>3. CASE Farewell(c) \/ Vanish(c)
  BY <1>3 DEF Farewell, Vanish, threadVars
<1> QED
  BY <1>1, <1>2, <1>3

(* A thread that takes up a request, also one made of a stale code.        *)
LEMMA TakeType ==
  ASSUME TypeInv, NEW c \in Client, NEW r \in Taken, Take(c, r)
  PROVE  TypeInv'
<1> USE DEF TypeInv
<1>1. UNCHANGED <<status, pools, db, mutex, hpc, signals, code, view, reset, clientVars>>
  BY DEF Take
<1>2. req' = [req EXCEPT ![c] = r]
  BY DEF Take
<1>3. CASE TooLong(r)
  <2>1. /\ ans' = [ans EXCEPT ![c] = Answer(db, r)]
        /\ pc' = [pc EXCEPT ![c] = "reply"]
    BY <1>3 DEF Take
  <2>2. Answer(db, r) \in Given
    BY AnswerGiven DEF TypeOK
  <2> QED
    BY <1>1, <1>2, <2>1, <2>2 DEF TypeOK, Prepared, clientVars
<1>4. CASE ~TooLong(r)
  <2>1. pc' = [pc EXCEPT ![c] = "lock"] /\ UNCHANGED ans
    BY <1>4 DEF Take
  <2> QED
    BY <1>1, <1>2, <2>1 DEF TypeOK, Prepared, clientVars
<1> QED
  BY <1>3, <1>4

LEMMA PhantomTaken ==
  ASSUME NEW n, NEW r \in PhantomRequest(n)
  PROVE  [r EXCEPT !.key = IF @ \in LongKey THEN Junk ELSE @] \in Taken
<1>1. CASE n = 0
  BY <1>1 DEF PhantomRequest, Taken
<1>2. CASE n = 1
  BY <1>2 DEF PhantomRequest, Taken
<1>3. CASE n = 2
  BY <1>3 DEF PhantomRequest, Taken
<1>4. CASE n \notin {0, 1, 2}
  BY <1>4 DEF PhantomRequest
<1> QED
  BY <1>1, <1>2, <1>3, <1>4

(* The code a reply leaves behind: the answer's, or its value's length.    *)
LEMMA ReplyType ==
  ASSUME TypeInv, NEW c \in Client, Reply(c) \/ ReplyLost(c)
  PROVE  TypeInv'
<1> USE DEF TypeInv
<1>1. /\ At(c, "reply")
      /\ pc' = [pc EXCEPT ![c] = "recv"]
      /\ code' = [code EXCEPT ![c] = IF Found(ans[c]) THEN Length[ans[c].value]
                                     ELSE ans[c].code]
      /\ ans' = [ans EXCEPT ![c] = NoAnswer]
      /\ req' = [req EXCEPT ![c] = NoRequest]
      /\ asked' = [asked EXCEPT ![c] = NoRequest]
      /\ UNCHANGED <<pools, db, mutex, hpc, signals, view, left>>
  BY DEF Reply, ReplyLost, Sent
<1>2. ans[c] \in Given
  BY <1>1 DEF Prepared, At
<1>3. (IF Found(ans[c]) THEN Length[ans[c].value] ELSE ans[c].code) \in Code
  BY <1>2, ServerAssumption DEF Given, Found, Code
<1>4. code' \in [Client -> Code \cup {Unset}]
  BY <1>1, <1>3 DEF TypeOK
<1>5. Prepared'
  BY <1>1 DEF Prepared, TypeOK
<1>6. CASE Reply(c)
  BY <1>1, <1>2, <1>4, <1>5, <1>6 DEF TypeOK, Reply
<1>7. CASE ReplyLost(c)
  BY <1>1, <1>4, <1>5, <1>7 DEF TypeOK, ReplyLost
<1> QED
  BY <1>6, <1>7

LEMMA ThreadType ==
  ASSUME TypeInv, NEW c \in Client, ThreadStep(c)
  PROVE  TypeInv'
<1> USE DEF TypeInv
<1>1. CASE Receive(c)
  BY <1>1, TakeType, RequestTaken DEF Receive, TypeOK
<1>2. CASE ReceiveFarewell(c)
  BY <1>2 DEF ReceiveFarewell, TypeOK, Prepared
<1>3. CASE ReceiveNothing(c)
  BY <1>3, TakeType, PhantomTaken DEF ReceiveNothing
<1>4. CASE ReceiveStaleFarewell(c) \/ ReceiveError(c)
  BY <1>4 DEF ReceiveStaleFarewell, ReceiveError, clientVars, TypeOK, Prepared
<1>5. CASE Enter(c)
  BY <1>5 DEF Enter, Owned, At, Thread, clientVars, TypeOK, Prepared
<1>6. CASE Begin(c)
  BY <1>6 DEF Begin, At, clientVars, TypeOK, Prepared
<1>7. CASE End(c)
  <2>1. req[c] \in Taken /\ view[c] \in Store
    BY <1>7 DEF End, At, Prepared, TypeOK
  <2>2. Effect(view[c], req[c]) \in Store /\ Answer(view[c], req[c]) \in Given
    BY <2>1, AnswerGiven, EffectStore
  <2>3. EmptyStore \in Store
    BY DEF EmptyStore, Store
  <2> QED
    BY <1>7, <2>2, <2>3 DEF End, clientVars, TypeOK, Prepared
<1>8. CASE Leave(c)
  BY <1>8 DEF Leave, Released, At, clientVars, TypeOK, Prepared
<1> QED
  BY <1>1, <1>2, <1>3, <1>4, <1>5, <1>6, <1>7, <1>8, ReplyType DEF ThreadStep

LEMMA SignalType ==
  ASSUME TypeInv, NEW t \in Thread, Interrupt(t) \/ HandlerStep(t)
  PROVE  TypeInv'
<1> USE DEF TypeInv, TypeOK, Prepared, threadVars, clientVars
<1>1. CASE Interrupt(t)
  BY <1>1, ServerAssumption DEF Interrupt
<1>2. CASE HandlerEnter(t)
  BY <1>2 DEF HandlerEnter, Owned
<1>3. CASE HandlerClose(t)
  BY <1>3 DEF HandlerClose
<1>4. CASE HandlerLeave(t)
  BY <1>4 DEF HandlerLeave, Released
<1>5. CASE HandlerDestroy(t)
  BY <1>5 DEF HandlerDestroy
<1>6. CASE HandlerExit(t)
  BY <1>6 DEF HandlerExit
<1> QED
  BY <1>1, <1>2, <1>3, <1>4, <1>5, <1>6 DEF HandlerStep

LEMMA NextType == TypeInv /\ [Next]_vars => TypeInv'
<1>1. ASSUME TypeInv, UNCHANGED vars PROVE TypeInv'
  BY <1>1 DEF TypeInv, TypeOK, Prepared, vars, threadVars, clientVars
<1> QED
  BY <1>1, ClientType, ThreadType, SignalType DEF Next

(* The state keeps its type, also when clients vanish and stale codes are  *)
(* taken for requests: no string over MAX_STR_LEN ever gets into the store *)
(* (myjqlserver.c:152, 269, 280, 339).                                     *)
THEOREM TypeCorrect == Spec => []TypeOK
<1>1. TypeInv => TypeOK
  BY DEF TypeInv
<1>2. Spec => []TypeInv
  BY InitType, NextType, PTL DEF Spec
<1> QED
  BY <1>1, <1>2, PTL

-----------------------------------------------------------------------------
(* What LockInv speaks of: a step that keeps these keeps it.               *)
lockVars == <<pools, mutex, hpc, pc>>

LEMMA IdleLock == LockInv /\ UNCHANGED lockVars => LockInv'
  BY DEF lockVars, LockInv, LockType, OwnersInside, InCall, InClose

LEMMA InitLock == Init => LockInv
  BY ServerAssumption
     DEF Init, LockInv, LockType, OwnersInside, InCall, InClose, Thread

(* A thread that goes from one place outside the critical section to       *)
(* another, or from one inside it to another, takes nothing and gives      *)
(* nothing back.                                                           *)
LEMMA MoveLock ==
  ASSUME LockInv, NEW c \in Client,
         NEW place \in {"none", "recv", "lock", "begin", "busy", "leave", "reply", "done"},
         pc' = [pc EXCEPT ![c] = place],
         place \in {"begin", "busy", "leave"} => pc[c] \in {"begin", "busy", "leave"},
         UNCHANGED <<pools, mutex, hpc>>
  PROVE  LockInv'
<1>1. LockType'
  BY DEF LockInv, LockType
<1>2. InCall' \subseteq InCall /\ InClose' = InClose
  BY DEF LockInv, LockType, InCall, InClose
<1>3. OwnersInside'
  BY <1>2 DEF LockInv, OwnersInside
<1> QED
  BY <1>1, <1>3 DEF LockInv

(* A client thread enters when the mutex is free, so nobody is inside.     *)
LEMMA EnterLock == ASSUME LockInv, NEW c \in Client, Enter(c) PROVE LockInv'
<1>1. /\ hpc[c] = "none" /\ Free /\ mutex' = Owned(c)
      /\ pc' = [pc EXCEPT ![c] = "begin"]
      /\ UNCHANGED <<pools, hpc>>
  BY DEF Enter, At
<1>2. LockType'
  BY <1>1 DEF LockInv, LockType, Owned, Thread
<1>3. OwnersInside'
  <2> SUFFICES ASSUME pools = "open" PROVE OwnersInside'
    BY <1>1 DEF OwnersInside
  <2>1. mutex = NoThread /\ mutex' = c
    BY <1>1 DEF LockInv, OwnersInside, Free, Owned
  <2>2. InCall = {} /\ InClose = {}
    BY <2>1, ServerAssumption
       DEF LockInv, OwnersInside, Thread, InCall, InClose
  <2>3. InCall' = {c} /\ InClose' = {}
    BY <1>1, <2>2 DEF LockInv, LockType, InCall, InClose
  <2> QED
    BY <1>1, <2>1, <2>3, ServerAssumption DEF LockInv, OwnersInside
<1> QED
  BY <1>2, <1>3 DEF LockInv

(* A client thread that leaves was the only one inside.                    *)
LEMMA LeaveLock == ASSUME LockInv, NEW c \in Client, Leave(c) PROVE LockInv'
<1>1. /\ pc[c] = "leave" /\ mutex' = Released
      /\ pc' = [pc EXCEPT ![c] = "reply"]
      /\ UNCHANGED <<pools, hpc>>
  BY DEF Leave, At
<1>2. LockType'
  BY <1>1 DEF LockInv, LockType, Released
<1>3. OwnersInside'
  <2> SUFFICES ASSUME pools = "open" PROVE OwnersInside'
    BY <1>1 DEF OwnersInside
  <2>1. c \in InCall /\ mutex = c /\ mutex' = NoThread
    BY <1>1 DEF LockInv, OwnersInside, InCall, Released
  <2>2. InCall = {c} /\ InClose = {}
    BY <2>1 DEF LockInv, OwnersInside
  <2>3. InCall' = {} /\ InClose' = {}
    BY <1>1, <2>2 DEF LockInv, LockType, InCall, InClose
  <2> QED
    BY <1>1, <2>1, <2>3, ServerAssumption DEF LockInv, OwnersInside
<1> QED
  BY <1>2, <1>3 DEF LockInv

(* The steps of InstanceThread that move a thread without the mutex.       *)
LEMMA ThreadLock == ASSUME LockInv, NEW c \in Client, ThreadStep(c) PROVE LockInv'
<1> USE MoveLock
<1>1. CASE Receive(c)
  BY <1>1 DEF Receive, Take, At
<1>2. CASE ReceiveFarewell(c)
  BY <1>2 DEF ReceiveFarewell, At
<1>3. CASE ReceiveNothing(c)
  BY <1>3 DEF ReceiveNothing, Take, EndOfFile, At
<1>4. CASE ReceiveStaleFarewell(c)
  BY <1>4 DEF ReceiveStaleFarewell, EndOfFile, At
<1>5. CASE ReceiveError(c)
  BY <1>5 DEF ReceiveError, EndOfFile, At
<1>6. CASE Enter(c)
  BY <1>6, EnterLock
<1>7. CASE Begin(c)
  BY <1>7, IdleLock DEF Begin, At, lockVars
<1>8. CASE End(c)
  BY <1>8 DEF End, At
<1>9. CASE Leave(c)
  BY <1>9, LeaveLock
<1>10. CASE Reply(c)
  BY <1>10 DEF Reply, Sent, At
<1>11. CASE ReplyLost(c)
  BY <1>11 DEF ReplyLost, Sent, At
<1> QED
  BY <1>1, <1>2, <1>3, <1>4, <1>5, <1>6, <1>7, <1>8, <1>9, <1>10, <1>11
     DEF ThreadStep

(* A handler enters on top of a thread that is not inside.                 *)
LEMMA HandlerEnterLock ==
  ASSUME LockInv, NEW t \in Thread, HandlerEnter(t)
  PROVE  LockInv'
<1>1. /\ hpc[t] = "lock" /\ Free /\ mutex' = Owned(t)
      /\ hpc' = [hpc EXCEPT ![t] = "close"]
      /\ UNCHANGED <<pools, pc>>
  BY DEF HandlerEnter, threadVars
<1>2. LockType'
  BY <1>1 DEF LockInv, LockType, Owned
<1>3. OwnersInside'
  <2> SUFFICES ASSUME pools = "open" PROVE OwnersInside'
    BY <1>1 DEF OwnersInside
  <2>1. mutex = NoThread /\ mutex' = t
    BY <1>1 DEF LockInv, OwnersInside, Free, Owned
  <2>2. InCall = {} /\ InClose = {}
    BY <2>1, ServerAssumption
       DEF LockInv, OwnersInside, Thread, InCall, InClose
  <2>3. InCall' = {} /\ InClose' = {t}
    BY <1>1, <2>2 DEF LockInv, LockType, InCall, InClose
  <2>4. \A u \in Thread : hpc'[u] \notin {"leave", "destroy", "exit"}
    BY <1>1 DEF LockInv, LockType, OwnersInside
  <2> QED
    BY <1>1, <2>1, <2>3, <2>4, ServerAssumption DEF OwnersInside, Thread
<1> QED
  BY <1>2, <1>3 DEF LockInv

(* The other steps of a handler come with closed pools or close them, and  *)
(* then OwnersInside asks for nothing.                                     *)
LEMMA HandlerLock == ASSUME LockInv, NEW t \in Thread, HandlerStep(t) PROVE LockInv'
<1>1. CASE HandlerEnter(t)
  BY <1>1, HandlerEnterLock
<1>2. CASE HandlerClose(t)
  <2>1. CASE pools = "open"
    BY <1>2, <2>1
       DEF HandlerClose, threadVars, LockInv, LockType, OwnersInside
  <2>2. CASE pools # "open"
    BY <1>2, <2>2, IdleLock DEF HandlerClose, threadVars, lockVars
  <2> QED
    BY <2>1, <2>2
<1>3. CASE HandlerLeave(t)
  BY <1>3 DEF HandlerLeave, Released, threadVars, LockInv, LockType, OwnersInside
<1>4. CASE HandlerDestroy(t)
  BY <1>4 DEF HandlerDestroy, threadVars, LockInv, LockType, OwnersInside
<1>5. CASE HandlerExit(t)
  BY <1>5, IdleLock DEF HandlerExit, threadVars, lockVars
<1> QED
  BY <1>1, <1>2, <1>3, <1>4, <1>5 DEF HandlerStep

LEMMA InterruptLock == ASSUME LockInv, NEW t \in Thread, Interrupt(t) PROVE LockInv'
<1>1. /\ hpc' = [hpc EXCEPT ![t] = "lock"] /\ hpc[t] = "none"
      /\ UNCHANGED <<pools, mutex, pc>>
  BY DEF Interrupt, threadVars
<1>2. LockType'
  BY <1>1 DEF LockInv, LockType
<1>3. InCall' = InCall /\ InClose' = InClose
  BY <1>1 DEF LockInv, LockType, InCall, InClose
<1>4. OwnersInside'
  BY <1>1, <1>3 DEF LockInv, LockType, OwnersInside
<1> QED
  BY <1>2, <1>4 DEF LockInv

LEMMA NextLock == LockInv /\ [Next]_vars => LockInv'
<1> SUFFICES ASSUME LockInv, [Next]_vars PROVE LockInv'
  OBVIOUS
<1>1. ASSUME NEW c \in Client, Connect(c) PROVE LockInv'
  BY <1>1, MoveLock DEF Connect
<1>2. ASSUME NEW c \in Client, Ask(c) \/ Farewell(c) \/ Vanish(c) PROVE LockInv'
  BY <1>2, IdleLock DEF Ask, Farewell, Vanish, threadVars, lockVars
<1>3. CASE UNCHANGED vars
  BY <1>3, IdleLock DEF vars, threadVars, lockVars
<1> QED
  BY <1>1, <1>2, <1>3, ThreadLock, HandlerLock, InterruptLock DEF Next

(* The invariant of the mutex holds in every state.                        *)
THEOREM LockHolds == Spec => []LockInv
  BY InitLock, NextLock, PTL DEF Spec

(* As long as the store is open, one thread at most is inside, by a call   *)
(* or by the handler that closes it (myjqlserver.c:167-174, 407-414).      *)
THEOREM CallsExclude == Spec => []MutualExclusion
<1>1. LockInv => MutualExclusion
  BY DEF LockInv, OwnersInside, MutualExclusion
<1> QED
  BY <1>1, LockHolds, PTL

-----------------------------------------------------------------------------
(* Server implements KVService as long as clients leave with a farewell:   *)
(* the requests of all clients take effect one after the other, each       *)
(* between its sending and its answer.                                     *)
Inv == TypeInv /\ LockInv /\ CallInv

(* The abstract state, as the instance of KVService sees it.               *)
Calls ==
  [c \in Client |-> [req |-> asked[c],
                     ans |-> IF pc[c] \in {"leave", "reply"} THEN ans[c] ELSE NoAnswer]]

LEMMA InitInv == Init => Inv
<1>1. Init => CallInv
  BY DEF Init, CallInv
<1> QED
  BY <1>1, InitType, InitLock DEF Inv

LEMMA ClientCalls ==
  ASSUME ~MayVanish, Inv, NEW c \in Client, Connect(c) \/ Ask(c) \/ Farewell(c) \/ Vanish(c)
  PROVE  CallInv' /\ [Service!Next]_(Service!vars)
<1> USE DEF Inv, TypeInv, TypeOK
<1>1. CASE Connect(c)
  <2>1. CallInv'
    BY <1>1 DEF Connect, CallInv
  <2>2. Calls' = Calls
    BY <1>1 DEF Connect, CallInv, Calls
  <2> QED
    BY <1>1, <2>1, <2>2 DEF Connect, Service!vars, Calls
<1>2. CASE Ask(c)
  <2>1. PICK r \in Request : asked' = [asked EXCEPT ![c] = r]
    BY <1>2 DEF Ask
  <2>2. peer[c] = "idle" /\ peer' = [peer EXCEPT ![c] = "waiting"]
    BY <1>2 DEF Ask
  <2>3. UNCHANGED <<pools, db, pc, req, view, ans, got>>
    BY <1>2 DEF Ask, threadVars
  <2>4. r # NoRequest
    BY RequestTaken, ServerAssumption
  <2>5. asked[c] = NoRequest /\ pc[c] \in {"none", "recv", "done"}
    BY <2>2 DEF CallInv
  <2>6. CallInv'
    BY <2>1, <2>2, <2>3, <2>4, <2>5 DEF CallInv
  <2>7. Calls[c] = Service!Idle
    BY <2>5 DEF Calls, Service!Idle
  <2>8. Calls' = [Calls EXCEPT ![c].req = r]
    BY <2>1, <2>3 DEF Calls
  <2>9. Service!Invoke(c, r)
    BY <2>3, <2>7, <2>8 DEF Service!Invoke, Calls
  <2> QED
    BY <2>6, <2>9 DEF Service!Next
<1>3. CASE Farewell(c)
  <2>1. CallInv'
    BY <1>3 DEF Farewell, CallInv, threadVars
  <2> QED
    BY <1>3, <2>1 DEF Farewell, threadVars, Service!vars, Calls
<1>4. CASE Vanish(c)
  BY <1>4 DEF Vanish
<1> QED
  BY <1>1, <1>2, <1>3, <1>4

(* A refusal takes effect, on no store, where the request is taken up.     *)
LEMMA ReceiveCalls ==
  ASSUME Inv, NEW c \in Client, Receive(c)
  PROVE  CallInv' /\ [Service!Next]_(Service!vars)
<1> USE DEF Inv, TypeInv, TypeOK
<1> DEFINE r == asked[c]
<1>1. pc[c] = "recv" /\ r # NoRequest /\ Take(c, r)
  BY DEF Receive, At
<1>2. /\ req' = [req EXCEPT ![c] = r]
      /\ UNCHANGED <<pools, db, view, peer, asked, got>>
  BY <1>1 DEF Take, clientVars
<1>3. CASE TooLong(r)
  <2>1. /\ ans' = [ans EXCEPT ![c] = Answer(db, r)]
        /\ pc' = [pc EXCEPT ![c] = "reply"]
    BY <1>1, <1>3 DEF Take
  <2>2. CallInv'
    BY <1>1, <1>2, <2>1 DEF CallInv
  <2>3. Calls[c].req = r /\ Calls[c].ans = NoAnswer
    BY <1>1 DEF Calls
  <2>4. Calls' = [Calls EXCEPT ![c].ans = Answer(db, r)]
    BY <1>2, <2>1 DEF Calls
  <2>5. db' = Effect(db, r)
    BY <1>2, <1>3 DEF Effect
  <2>6. Service!Apply(c)
    BY <1>1, <1>2, <2>3, <2>4, <2>5 DEF Service!Apply, Calls
  <2> QED
    BY <2>2, <2>6 DEF Service!Next
<1>4. CASE ~TooLong(r)
  <2>1. pc' = [pc EXCEPT ![c] = "lock"] /\ UNCHANGED ans
    BY <1>1, <1>4 DEF Take
  <2>2. CallInv'
    BY <1>1, <1>2, <2>1 DEF CallInv
  <2>3. Calls' = Calls
    BY <1>1, <1>2, <2>1 DEF Calls
  <2> QED
    BY <1>2, <2>2, <2>3 DEF Service!vars, Calls
<1> QED
  BY <1>3, <1>4

(* A call takes effect where it ends: the store is still the one it began  *)
(* with, for no other thread is inside (myjqlserver.c:167-174).            *)
LEMMA EndCalls ==
  ASSUME Inv, NEW c \in Client, End(c)
  PROVE  CallInv' /\ [Service!Next]_(Service!vars)
<1> USE DEF Inv, TypeInv, TypeOK
<1>1. /\ pc[c] = "busy"
      /\ db' = Effect(view[c], req[c])
      /\ ans' = [ans EXCEPT ![c] = Answer(view[c], req[c])]
      /\ pc' = [pc EXCEPT ![c] = "leave"]
      /\ view' = [view EXCEPT ![c] = EmptyStore]
      /\ UNCHANGED <<pools, req, peer, asked, got>>
  BY DEF End, At, clientVars
<1>2. view[c] = db /\ pools = "open" /\ req[c] = asked[c] /\ asked[c] # NoRequest
  BY <1>1 DEF CallInv
<1>3. \A d \in Client : pc[d] = "busy" => d = c
  BY <1>1, <1>2 DEF LockInv, OwnersInside, InCall
<1>4. CallInv'
  <2> SUFFICES ASSUME NEW d \in Client
               PROVE  /\ peer'[d] # "gone"
                      /\ peer'[d] = "waiting" <=> asked'[d] # NoRequest
                      /\ \/ pc'[d] \in {"none", "recv", "done"}
                         \/ asked'[d] # NoRequest /\ req'[d] = asked'[d]
                      /\ pc'[d] = "busy" => view'[d] = db' /\ pools' = "open"
    BY DEF CallInv
  <2>1. pc'[d] # "busy"
    BY <1>1, <1>3
  <2> QED
    BY <1>1, <1>2, <2>1 DEF CallInv
<1>5. Calls[c].req = asked[c] /\ Calls[c].ans = NoAnswer
  BY <1>1 DEF Calls
<1>6. Calls' = [Calls EXCEPT ![c].ans = Answer(db, asked[c])]
  BY <1>1, <1>2 DEF Calls
<1>7. Service!Apply(c)
  BY <1>1, <1>2, <1>5, <1>6 DEF Service!Apply, Calls
<1> QED
  BY <1>4, <1>7 DEF Service!Next

LEMMA ReplyCalls ==
  ASSUME Inv, NEW c \in Client, Reply(c)
  PROVE  CallInv' /\ [Service!Next]_(Service!vars)
<1> USE DEF Inv, TypeInv, TypeOK
<1>1. /\ pc[c] = "reply" /\ peer[c] = "waiting"
      /\ pc' = [pc EXCEPT ![c] = "recv"]
      /\ ans' = [ans EXCEPT ![c] = NoAnswer]
      /\ req' = [req EXCEPT ![c] = NoRequest]
      /\ asked' = [asked EXCEPT ![c] = NoRequest]
      /\ peer' = [peer EXCEPT ![c] = "idle"]
      /\ got' = [got EXCEPT ![c] = ans[c]]
      /\ UNCHANGED <<pools, db, view>>
  BY DEF Reply, Sent, At
<1>2. CallInv'
  BY <1>1 DEF CallInv
<1>3. ans[c] # NoAnswer
  BY <1>1, ServerAssumption DEF Prepared
<1>4. Calls[c].ans = ans[c]
  BY <1>1 DEF Calls
<1>5. Calls' = [Calls EXCEPT ![c] = Service!Idle]
  BY <1>1 DEF Calls, Service!Idle
<1>6. Service!Return(c)
  BY <1>1, <1>3, <1>4, <1>5 DEF Service!Return, Calls
<1> QED
  BY <1>2, <1>6 DEF Service!Next

LEMMA ThreadCalls ==
  ASSUME Inv, NEW c \in Client, ThreadStep(c)
  PROVE  CallInv' /\ [Service!Next]_(Service!vars)
<1> USE DEF Inv, TypeInv, TypeOK
<1>1. CASE ReceiveFarewell(c)
  <2>1. CallInv'
    BY <1>1 DEF ReceiveFarewell, At, CallInv
  <2>2. Calls' = Calls
    BY <1>1 DEF ReceiveFarewell, At, Calls
  <2> QED
    BY <1>1, <2>1, <2>2 DEF ReceiveFarewell, Service!vars, Calls
<1>2. CASE ReceiveNothing(c) \/ ReceiveStaleFarewell(c) \/ ReceiveError(c) \/ ReplyLost(c)
  BY <1>2 DEF ReceiveNothing, ReceiveStaleFarewell, ReceiveError, EndOfFile, ReplyLost, CallInv
<1>3. CASE Enter(c)
  <2>1. CallInv'
    BY <1>3 DEF Enter, At, CallInv, clientVars
  <2>2. Calls' = Calls
    BY <1>3 DEF Enter, At, Calls, clientVars
  <2> QED
    BY <1>3, <2>1, <2>2 DEF Enter, clientVars, Service!vars, Calls
<1>4. CASE Begin(c)
  <2>1. CallInv'
    BY <1>4 DEF Begin, At, CallInv, clientVars
  <2>2. Calls' = Calls
    BY <1>4 DEF Begin, At, Calls, clientVars
  <2> QED
    BY <1>4, <2>1, <2>2 DEF Begin, clientVars, Service!vars, Calls
<1>5. CASE Leave(c)
  <2>1. CallInv'
    BY <1>5 DEF Leave, At, CallInv, clientVars
  <2>2. Calls' = Calls
    BY <1>5 DEF Leave, At, Calls, clientVars
  <2> QED
    BY <1>5, <2>1, <2>2 DEF Leave, clientVars, Service!vars, Calls
<1> QED
  BY <1>1, <1>2, <1>3, <1>4, <1>5, ReceiveCalls, EndCalls, ReplyCalls DEF ThreadStep

(* A handler closes the pools under no call's feet.                        *)
LEMMA SignalCalls ==
  ASSUME Inv, NEW t \in Thread, Interrupt(t) \/ HandlerStep(t)
  PROVE  CallInv' /\ [Service!Next]_(Service!vars)
<1>1. UNCHANGED <<db, threadVars, clientVars>>
  BY DEF Interrupt, HandlerStep, HandlerEnter, HandlerClose, HandlerLeave,
         HandlerDestroy, HandlerExit
<1>2. pools' = pools \/ \A c \in Client : pc[c] # "busy"
  <2>1. CASE HandlerClose(t) /\ pools = "open"
    <3>1. t \in InClose
      BY <2>1 DEF HandlerClose, InClose
    <3>2. InCall = {}
      BY <2>1, <3>1 DEF Inv, LockInv, OwnersInside, InCall, InClose
    <3> QED
      BY <3>2 DEF InCall
  <2>2. CASE ~(HandlerClose(t) /\ pools = "open")
    BY <2>2 DEF Interrupt, HandlerStep, HandlerEnter, HandlerClose, HandlerLeave,
                HandlerDestroy, HandlerExit
  <2> QED
    BY <2>1, <2>2
<1>3. CallInv'
  BY <1>1, <1>2 DEF Inv, CallInv, threadVars, clientVars
<1> QED
  BY <1>1, <1>3 DEF Service!vars, threadVars, clientVars, Calls

LEMMA NextCalls ==
  ASSUME ~MayVanish, Inv, [Next]_vars
  PROVE  Inv' /\ [Service!Next]_(Service!vars)
<1>1. TypeInv' /\ LockInv'
  BY NextType, NextLock DEF Inv
<1>2. CallInv' /\ [Service!Next]_(Service!vars)
  <2>1. CASE UNCHANGED vars
    <3>1. CallInv'
      BY <2>1 DEF Inv, CallInv, vars, threadVars, clientVars
    <3>2. UNCHANGED Service!vars
      BY <2>1 DEF vars, threadVars, clientVars, Service!vars
    <3> QED
      BY <3>1, <3>2
  <2>2. CASE Next
    <3>1. CASE \E c \in Client : Connect(c) \/ Ask(c) \/ Farewell(c) \/ Vanish(c)
      BY <3>1, ClientCalls
    <3>2. CASE \E c \in Client : ThreadStep(c)
      BY <3>2, ThreadCalls
    <3>3. CASE \E t \in Thread : Interrupt(t) \/ HandlerStep(t)
      BY <3>3, SignalCalls
    <3> QED
      BY <2>2, <3>1, <3>2, <3>3 DEF Next
  <2> QED
    BY <2>1, <2>2
<1> QED
  BY <1>1, <1>2 DEF Inv

LEMMA InitCalls == Init => Service!Init
  BY DEF Init, Service!Init, Service!Idle

(* To clients that leave with a farewell the server is one atomic map,     *)
(* whatever their number, their requests and the moment of the signals.    *)
THEOREM ServerIsKVService ==
  ASSUME ~MayVanish
  PROVE  Spec => ImplementsKVService
<1>1. Inv /\ [Next]_vars => Inv' /\ [Service!Next]_(Service!vars)
  BY NextCalls
<1> QED
  BY <1>1, InitInv, InitCalls, PTL DEF Spec, ImplementsKVService, Service!Spec
=============================================================================
