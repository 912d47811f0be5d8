---------------------------- MODULE RequestSlots ----------------------------
(***************************************************************************)
(* What the request slots promise to their users, without connections,     *)
(* frames and timers: a module serves one request at a time; a request     *)
(* that got the slot is released once, whoever had it and whatever becomes *)
(* of the module; and the one HTTP handler that runs at a time goes on     *)
(* exactly when the request it waits for is released.                      *)
(***************************************************************************)
CONSTANTS Ids, None

VARIABLES
  slot,    \* [Ids -> "http" or "auto", whose request the module serves, or None]
  handler  \* where the HTTP handler is, and the module it waits for

slots == <<slot, handler>>

Idle       == [stage |-> "idle", at |-> None]
Running    == [stage |-> "running", at |-> None]
Waiting(i) == [stage |-> "waiting", at |-> i]

NoRequests == slot = [i \in Ids |-> None] /\ handler = Idle

Begin == handler = Idle /\ handler' = Running /\ UNCHANGED slot
End   == handler = Running /\ handler' = Idle /\ UNCHANGED slot

Take(i, owner) == slot[i] = None /\ slot' = [slot EXCEPT ![i] = owner]
Request(i)     == Take(i, "http") /\ handler = Running /\ handler' = Waiting(i)
AutoStop(i)    == Take(i, "auto") /\ UNCHANGED handler

\* The request is over, by an answer or without one.
Release(i) ==
  /\ slot[i] # None
  /\ slot' = [slot EXCEPT ![i] = None]
  /\ IF slot[i] = "http"
     THEN handler = Waiting(i) /\ handler' = Running
     ELSE UNCHANGED handler

\* The server stops: all requests are forgotten.
Forget == NoRequests'

Next == Begin \/ End \/ Forget \/ \E i \in Ids : Request(i) \/ AutoStop(i) \/ Release(i)

\* No request keeps its slot, and no handler the mutex, for ever.
Fairness == WF_slots(End) /\ \A i \in Ids : WF_slots(Release(i))

Spec     == NoRequests /\ [][Next]_slots
FairSpec == Spec /\ Fairness
=============================================================================
