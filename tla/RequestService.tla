--------------------------- MODULE RequestService ---------------------------
(***************************************************************************)
(* What SchedulerActor promises the HTTP handlers that call its `admit`,   *)
(* one request at a time and nothing of how batches are formed: a request  *)
(* is answered at most once, an accepted one gets an event stream, and the *)
(* stream is closed by the event that carries the finish_reason unless the *)
(* client left or the service broke (the model failed, or it shuts down).  *)
(***************************************************************************)
CONSTANT Requests

VARIABLES
  state,   \* what the client of each request has seen
  left,    \* clients that disconnected
  broken   \* the model has failed or the engine is closing

serviceVars == <<state, left, broken>>

Init ==
  /\ state = [r \in Requests |-> "new"]
  /\ left = {}
  /\ broken = FALSE

Edges ==
  { <<"new", "waiting">>,
    <<"waiting", "refused">>, <<"waiting", "streaming">>,
    <<"streaming", "ended">> }

\* A stream may be cut only for a client that left or by a broken service.
MayCut(r) == r \in left' \/ broken'

Moves(r) ==
  \/ state'[r] = state[r]
  \/ <<state[r], state'[r]>> \in Edges
  \/ state[r] = "streaming" /\ state'[r] = "cut" /\ MayCut(r)

\* A step of the driver moves the requests of a whole batch at once.
Next ==
  /\ DOMAIN state' = Requests
  /\ \A r \in Requests : Moves(r)
  /\ left \subseteq left'
  /\ broken => broken'

Spec == Init /\ [][Next]_serviceVars
=============================================================================
