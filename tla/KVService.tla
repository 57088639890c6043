----------------------------- MODULE KVService -----------------------------
(***************************************************************************)
(* What the server promises to its clients: every request takes effect at  *)
(* one moment between its sending and its answer, and is answered by that  *)
(* effect.  Server implements this specification as long as clients leave  *)
(* with a farewell.                                                        *)
(***************************************************************************)
CONSTANTS Client, Request,
          EmptyStore,           \* the store before the first request
          Effect(_, _),         \* the store after a request
          Answer(_, _),         \* the answer a request gets in a store
          NoRequest, NoAnswer

VARIABLES db,     \* the store
          call,   \* per client: the request under way and its answer
          got     \* per client: the last answer it received

vars == <<db, call, got>>

Idle == [req |-> NoRequest, ans |-> NoAnswer]

Init ==
  /\ db = EmptyStore
  /\ call = [c \in Client |-> Idle]
  /\ got = [c \in Client |-> NoAnswer]

Invoke(c, r) ==
  /\ call[c] = Idle
  /\ call' = [call EXCEPT ![c].req = r]
  /\ UNCHANGED <<db, got>>

Apply(c) ==
  /\ call[c].req # NoRequest
  /\ call[c].ans = NoAnswer
  /\ db' = Effect(db, call[c].req)
  /\ call' = [call EXCEPT ![c].ans = Answer(db, call[c].req)]
  /\ UNCHANGED got

Return(c) ==
  /\ call[c].ans # NoAnswer
  /\ got' = [got EXCEPT ![c] = call[c].ans]
  /\ call' = [call EXCEPT ![c] = Idle]
  /\ UNCHANGED db

Next ==
  \E c \in Client :
    \/ \E r \in Request : Invoke(c, r)
    \/ Apply(c)
    \/ Return(c)

Spec == Init /\ [][Next]_vars
=============================================================================
