----------------------------- MODULE PageStore -----------------------------
(***************************************************************************)
(* What a buffer pool promises to the structures built on it: one content  *)
(* per page of a growing file.  A caller acquires a page, may change it    *)
(* while it holds it, and releases it; nothing else ever changes a page.   *)
(* BufferPool implements this specification.                               *)
(***************************************************************************)
EXTENDS Integers

CONSTANTS MaxPages,   \* bound on the length of the file, in pages
          Data,       \* page contents
          EmptyPage   \* EMPTY_PAGE of file_io.h, also "beyond the file" here

VARIABLES size,       \* number of pages in the file
          store,      \* content of each page
          pins        \* how many times each page is held

Page == 0 .. MaxPages - 1

Init ==
  /\ size = 0
  /\ store = [a \in Page |-> EmptyPage]
  /\ pins = [a \in Page |-> 0]

(* A page of the file is handed out as it is. *)
Acquire(a) ==
  /\ a < size
  /\ pins' = [pins EXCEPT ![a] = @ + 1]
  /\ UNCHANGED <<size, store>>

(* The page just past the end is appended; its first content is arbitrary. *)
AcquireNew(a) ==
  /\ a = size
  /\ size' = size + 1
  /\ \E d \in Data : store' = [store EXCEPT ![a] = d]
  /\ pins' = [pins EXCEPT ![a] = @ + 1]

(* Only a holder changes a page. *)
Modify(a) ==
  /\ pins[a] > 0
  /\ \E d \in Data : store' = [store EXCEPT ![a] = d]
  /\ UNCHANGED <<size, pins>>

Release(a) ==
  /\ pins[a] > 0
  /\ pins' = [pins EXCEPT ![a] = @ - 1]
  /\ UNCHANGED <<size, store>>

(* Closing the pool, and opening it again, loses no content. *)
DropPins ==
  /\ pins' = [a \in Page |-> 0]
  /\ UNCHANGED <<size, store>>

Next ==
  \/ \E a \in Page : Acquire(a) \/ AcquireNew(a) \/ Modify(a) \/ Release(a)
  \/ DropPins

vars == <<size, store, pins>>

Spec == Init /\ [][Next]_vars
=============================================================================
