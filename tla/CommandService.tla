--------------------------- MODULE CommandService ---------------------------
(***************************************************************************)
(* What the GPD command API promises its caller, without tasks, flags or   *)
(* buffers: one request at a time, answered once, by its own response.     *)
(***************************************************************************)
CONSTANTS
  Requests,      \* the requests a caller may make
  None,          \* no request, no response
  Resets         \* TRUE if the device may reset under a request

VARIABLES request, response

vars == <<request, response>>

Init == request = None /\ response = None

Ask(c) == request = None /\ request' = c /\ UNCHANGED response

Answer == request # None /\ response = None /\ response' = request /\ UNCHANGED request

Take == response # None /\ request' = None /\ response' = None

Lose == Resets /\ request' = None /\ response' = None

Next == (\E c \in Requests : Ask(c)) \/ Answer \/ Take \/ Lose

Spec == Init /\ [][Next]_vars

(* Every request is answered and its answer delivered.                     *)
FairSpec == Spec /\ WF_vars(Answer) /\ WF_vars(Take)
=============================================================================
