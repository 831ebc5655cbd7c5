------------------------------- MODULE OsCore -------------------------------
(***************************************************************************)
(* What every service of the kernel is made of: the ready lists, the pend  *)
(* lists and the scheduler.  A kernel call holds a critical section from   *)
(* its first test to its last assignment and strings several internal      *)
(* functions together, so each function is an operator from the kernel's   *)
(* state to the next, and a call is the composition its code makes:        *)
(*                                                                         *)
(*   k.task     the OS_TCBs                                                *)
(*   k.list     the pend list of every object                              *)
(*   k.rdy      OSRdyList, a list per priority                             *)
(*   k.cur      OSTCBCurPtr, None in the idle loop                         *)
(*   k.prioCur  OSPrioCur                                                  *)
(*                                                                         *)
(* The services (OsMutex, OsFlag) add fields of their own to k.            *)
(***************************************************************************)
EXTENDS Naturals, FiniteSets, SequencesExt

CONSTANTS
  Tasks,         \* the tasks
  Objects,       \* the objects they pend on
  PrioMax,       \* OS_CFG_PRIO_MAX: priorities are below it, 0 the highest
  Base,          \* the priority each task is created with
  None           \* DEF_NULL

Prios == 0..(PrioMax - 1)

ASSUME OsAssumption ==
  /\ IsFiniteSet(Tasks) /\ Tasks # {} /\ IsFiniteSet(Objects)
  /\ PrioMax \in Nat \ {0}
  /\ Base \in [Tasks -> Prios]
  /\ None \notin Tasks \cup Objects

Blocked == {"pend", "pendTimeout"}
States  == {"rdy", "dly", "del"} \cup Blocked
TCBs == [prio : Prios, base : Prios, state : States, on : Objects \cup {None},
         status : {"ok", "timeout", "abort", "del"}]

(* After OSStart: every task ready at the priority it was created with.    *)
Started ==
  LET rdy == [p \in Prios |-> SetToSeq({t \in Tasks : Base[t] = p})]
      top == CHOOSE p \in Prios :
               rdy[p] # <<>> /\ \A q \in Prios : rdy[q] # <<>> => p <= q
  IN [task |-> [t \in Tasks |-> [prio |-> Base[t], base |-> Base[t], state |-> "rdy",
                                 on |-> None, status |-> "ok"]],
      list |-> [o \in Objects |-> <<>>],
      rdy |-> rdy, cur |-> Head(rdy[top]), prioCur |-> top]

(* A list without one of its members.                                      *)
Without(s, x) == RemoveAt(s, CHOOSE i \in 1..Len(s) : s[i] = x)

-----------------------------------------------------------------------------
(* Ready lists: which list is the task's own priority's.                   *)

RdyListInsertHead(k, t) == [k EXCEPT !.rdy[k.task[t].prio] = <<t>> \o @]
RdyListInsertTail(k, t) == [k EXCEPT !.rdy[k.task[t].prio] = Append(@, t)]

(* Slip: the head goes, whoever is to leave.                               *)
RdyListRemoveHead(k, t) == [k EXCEPT !.rdy[k.task[t].prio] = Tail(@)]

RdyListRemove(k, t) == [k EXCEPT !.rdy[k.task[t].prio] = Without(@, t)]

RdyListInsert(k, t) ==
  IF k.task[t].prio = k.prioCur THEN RdyListInsertTail(k, t)
                                ELSE RdyListInsertHead(k, t)

ReadyPrios(k) == {p \in Prios : k.rdy[p] # <<>>}
PrioGetHighest(k) == CHOOSE p \in ReadyPrios(k) : \A q \in ReadyPrios(k) : p <= q

(* OSSched and the context switch of PendSV_Handler: to the head of the    *)
(* highest list that is not empty.  OSPrioCur changes with the task only.  *)
Sched(k) ==
  IF ReadyPrios(k) = {} THEN [k EXCEPT !.cur = None, !.prioCur = PrioMax]
  ELSE LET p == PrioGetHighest(k)
       IN IF Head(k.rdy[p]) = k.cur THEN k
          ELSE [k EXCEPT !.cur = Head(k.rdy[p]), !.prioCur = p]

(* OSTimeDly with no delay: the head of the current list goes to its tail, *)
(* unless it is alone there.                                               *)
CanRotate(k) == k.prioCur \in Prios /\ Len(k.rdy[k.prioCur]) > 1
Rotated(k) == [k EXCEPT !.rdy[k.prioCur] = Append(Tail(@), Head(@))]

-----------------------------------------------------------------------------
(* Pend lists: in order of priority, first come first among equals.        *)

(* Slip: first come first, whatever the priorities.                        *)
PendListInsertTail(k, o, t) == [k EXCEPT !.list[o] = Append(@, t)]

PendListInsertPrio(k, o, t) ==
  LET after == {i \in 1..Len(k.list[o]) : k.task[t].prio < k.task[k.list[o][i]].prio}
      at == IF after = {} THEN Len(k.list[o]) + 1
            ELSE CHOOSE i \in after : \A j \in after : i <= j
  IN [k EXCEPT !.list[o] = InsertAt(@, at, t)]

PendListRemove(k, t) ==
  IF k.task[t].on = None THEN k
  ELSE [k EXCEPT !.list[k.task[t].on] = Without(@, t), !.task[t].on = None]

(* Its only entry stays where it is.                                       *)
PendListChangePrio(k, t) ==
  LET o == k.task[t].on
  IN IF Len(k.list[o]) = 1 THEN k
     ELSE PendListInsertPrio([k EXCEPT !.list[o] = Without(@, t)], o, t)

(* OS_Pend of the current task, OS_TaskBlock: with a timer or without.     *)
Blocking(tcb, o, timed) ==
  [tcb EXCEPT !.state = IF timed THEN "pendTimeout" ELSE "pend", !.on = o, !.status = "ok"]

Pend(k, o, timed) ==
  LET t == k.cur
      blocked == [k EXCEPT !.task[t] = Blocking(@, o, timed)]
  IN PendListInsertPrio(RdyListRemove(blocked, t), o, t)

(* OS_Post, OS_PendAbort, OS_FlagTaskRdy and the timeout of                *)
(* OS_TimerCallback end the pend of a blocked task alike, but for what     *)
(* they tell it.                                                           *)
Readied(tcb, status) == [tcb EXCEPT !.state = "rdy", !.on = None, !.status = status]

(* Slip: the status stays the one OS_Pend set.                             *)
EndPendUntold(k, t, status) ==
  RdyListInsert([PendListRemove(k, t) EXCEPT !.task[t] = Readied(@, @.status)], t)

EndPend(k, t, status) ==
  RdyListInsert([PendListRemove(k, t) EXCEPT !.task[t] = Readied(@, status)], t)

(* The pends of several tasks of a list end together, from its head on:    *)
(* the walk of OSFlagPost, and OS_PendAbort until the list is empty.       *)
EndPends(k, o, who, status) ==
  LET walk[n \in 0..Len(k.list[o])] ==
        IF n = 0 THEN k
        ELSE LET s == walk[n - 1]
             IN IF k.list[o][n] \in who THEN EndPend(s, k.list[o][n], status) ELSE s
  IN walk[Len(k.list[o])]

PendAbortAll(k, o, status) == EndPends(k, o, {t \in Tasks : k.task[t].on = o}, status)

-----------------------------------------------------------------------------
(* Consistency of the lists, for every service: a task is in the ready     *)
(* list of its priority exactly when it is ready and in the pend list of   *)
(* its object exactly when it is blocked, once; the lists are in order.    *)

Times(s, t) == Cardinality({i \in 1..Len(s) : s[i] = t})

ListedWhereItWaits(k) ==
  \A t \in Tasks :
    LET x == k.task[t]
    IN /\ \A p \in Prios :
            Times(k.rdy[p], t) = IF x.state = "rdy" /\ x.prio = p THEN 1 ELSE 0
       /\ \A o \in Objects :
            Times(k.list[o], t) = IF x.state \in Blocked /\ x.on = o THEN 1 ELSE 0

ListsInOrder(k) ==
  \A o \in Objects : \A i, j \in 1..Len(k.list[o]) :
    i < j => k.task[k.list[o][i]].prio <= k.task[k.list[o][j]].prio
=============================================================================
