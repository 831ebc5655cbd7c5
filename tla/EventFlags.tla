----------------------------- MODULE EventFlags -----------------------------
(***************************************************************************)
(* What groups of event flags are to tasks of which each waits for flags   *)
(* of its own, as those of gpd_event_flags do: a set each.  An event       *)
(* raises flags; a pend returns some of those raised that its task wants,  *)
(* each at most once for every time it was raised, or none (a timeout).    *)
(* Nothing is lost before the group is deleted.  OsFlag, with its pend     *)
(* lists, priorities and timeouts, and with the delay between the moment a *)
(* task is readied and the moment it consumes, implements it.              *)
(***************************************************************************)
CONSTANTS Tasks, Groups, Flags, Wanted      \* Wanted[t]: the flags t waits for

VARIABLES
  raised,        \* the flags of each group
  taken,         \* what the last pend of each task returned
  gone           \* the groups deleted

vars == <<raised, taken, gone>>

Init ==
  /\ raised = [g \in Groups |-> {}]
  /\ taken = [t \in Tasks |-> {}]
  /\ gone = {}

Raise(g, fs) ==
  /\ g \notin gone
  /\ raised' = [raised EXCEPT ![g] = @ \cup fs]
  /\ UNCHANGED <<taken, gone>>

Ask(t) ==
  /\ taken' = [taken EXCEPT ![t] = {}]
  /\ UNCHANGED <<raised, gone>>

Take(t, g, fs) ==
  /\ fs # {} /\ fs \subseteq raised[g] \cap Wanted[t]
  /\ raised' = [raised EXCEPT ![g] = @ \ fs]
  /\ taken' = [taken EXCEPT ![t] = fs]
  /\ UNCHANGED gone

End(g, fs) ==
  /\ raised' = [raised EXCEPT ![g] = @ \ fs]
  /\ gone' = gone \cup {g}
  /\ UNCHANGED taken

Next ==
  \/ \E t \in Tasks : Ask(t)
  \/ \E g \in Groups, fs \in SUBSET Flags :
       Raise(g, fs) \/ End(g, fs) \/ \E t \in Tasks : Take(t, g, fs)

Spec == Init /\ [][Next]_vars
=============================================================================
