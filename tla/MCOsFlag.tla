------------------------------ MODULE MCOsFlag ------------------------------
(***************************************************************************)
(* Two priorities and three tasks, each with flags of its own, as the      *)
(* users of gpd_event_flags: two of the same priority, one that waits for  *)
(* either of two flags or for both.                                        *)
(***************************************************************************)
EXTENDS OsFlag

CONSTANTS t1, t2, t3, f1, f2, f3, f4

Waiting(fs, mode) == [flags |-> fs, mode |-> mode]

MCBase == [t \in Tasks |-> IF t = t1 THEN 0 ELSE 1]

MCWaits == [t \in Tasks |->
  CASE t = t1 -> {Waiting({f1}, "any")}
    [] t = t2 -> {Waiting({f2, f3}, "any"), Waiting({f2, f3}, "all")}
    [] t = t3 -> {Waiting({f4}, "any")}]

MCMasks == {{f1, f2}, {f2}, {f3}, {f3, f4}}
=============================================================================
