----------------------------- MODULE MCOsMutex ------------------------------
(***************************************************************************)
(* Three tasks at different priorities and two mutexes: a chain of owners, *)
(* and three of the four priorities in use.                                *)
(***************************************************************************)
EXTENDS OsMutex

CONSTANTS t1, t2, t3

MCBase == [t \in Tasks |-> CASE t = t1 -> 0 [] t = t2 -> 1 [] t = t3 -> 2]
=============================================================================
