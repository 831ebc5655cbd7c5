------------------------------ MODULE OsMutex -------------------------------
(***************************************************************************)
(* The kernel's mutexes with priority inheritance: OSMutexPend, Post and   *)
(* Del, and everything else that can change who waits or at what priority: *)
(* timeouts, delays, OSTaskChangePrio, OSTaskDel.  Tasks call what they    *)
(* like, in any order; the timer interrupt comes at any time.              *)
(*                                                                         *)
(* k has four more fields: owner (OwnerTCBPtr) and nest (OwnerNestingCtr)  *)
(* of every mutex, None and 0 when it is free; group of every task, the    *)
(* mutexes it owns, last taken first (MutexGrpHeadPtr); and a history,     *)
(* fault, of three mistakes that the kernel makes and one that it does not:*)
(*   "orphan"  OS_MutexGrpPostAll gives a mutex to the task being deleted; *)
(*   "drag"    OS_TaskChangePrio, lowering a waiter, gives its priority to *)
(*             an owner that did not have it from that waiter;             *)
(*   "halt"    the same walk reaches a task that OSTaskDel is deleting,    *)
(*             and RTOS_CRITICAL_FAIL_EXEC stops the system;               *)
(*   "endless" the walk has passed MaxRounds tasks and is not over.        *)
(*                                                                         *)
(* Not modelled: the scheduler lock, which no task of this program takes,  *)
(* suspension (OS_CFG_TASK_SUSPEND_EN is off) and OSMutexPendAbort, which  *)
(* is not built (OS_CFG_MUTEX_PEND_ABORT_EN).                              *)
(***************************************************************************)
EXTENDS OsCore

CONSTANTS
  MaxNest,       \* (OS_NESTING_CTR)-1
  MaxRounds,     \* bound on the tasks that one change of priority passes
  MaxChanges     \* bound on the calls of OSTaskChangePrio, OSTaskDel and OSMutexDel

Mutexes == Objects

(* OS_TaskChangePrio loops without a bound; no walk is longer than this    *)
(* (MutexWalkEnds), so MaxRounds cuts none short.                          *)
LongestWalk == 2 * Cardinality(Tasks \X Prios) + Cardinality(Tasks) + 1

ASSUME MutexAssumption ==
  /\ MaxNest \in Nat \ {0} /\ MaxChanges \in Nat
  /\ MaxRounds \in Nat /\ MaxRounds >= LongestWalk

VARIABLES
  k,             \* the kernel's state
  asked,         \* the mutex of the OSMutexPend each task is blocked in
  gone,          \* the mutexes deleted
  changes        \* how many there have been

vars == <<k, asked, gone, changes>>

Init ==
  /\ k = [task |-> Started.task, list |-> Started.list, rdy |-> Started.rdy,
          cur |-> Started.cur, prioCur |-> Started.prioCur,
          owner |-> [m \in Mutexes |-> None], nest |-> [m \in Mutexes |-> 0],
          group |-> [t \in Tasks |-> <<>>], fault |-> {}]
  /\ asked = [t \in Tasks |-> None]
  /\ gone = {} /\ changes = 0

-----------------------------------------------------------------------------
(* Priorities.                                                             *)

Higher(p, q) == IF p < q THEN p ELSE q

(* Slip: only the mutex taken last is looked at.                           *)
GrpPrioOfLast(s, t) ==
  IF s.group[t] = <<>> \/ s.list[Head(s.group[t])] = <<>> THEN PrioMax - 1
  ELSE s.task[Head(s.list[Head(s.group[t])])].prio

(* The highest priority that waits for a mutex the task owns: the heads.   *)
MutexGrpPrioFindHighest(s, t) ==
  LET heads == {s.task[Head(s.list[m])].prio :
                  m \in {n \in ToSet(s.group[t]) : s.list[n] # <<>>}}
  IN CHOOSE p \in heads \cup {PrioMax - 1} : \A q \in heads : p <= q

(* What a task is left with: never below the priority it was given.        *)
Uninherited(s, t) == Higher(MutexGrpPrioFindHighest(s, t), s.task[t].base)

(* Slip: no change is needed only where the base priority is back.         *)
KeepsBase(s, t) == s.task[t].prio = s.task[t].base /\ Uninherited(s, t) = s.task[t].base

Keeps(s, t) == Uninherited(s, t) = s.task[t].prio

(* OS_TaskChangePrio, one task of the walk from a task that waits for a    *)
(* mutex to the owner of the mutex, and on: what becomes of task w.task,   *)
(* who is to have w.prio, and who is next.                                 *)
Round(w) ==
  LET s == w.k  t == w.task  p == w.prio
      old    == s.task[t].prio
      moved  == [s EXCEPT !.task[t].prio = p]
      listed == PendListChangePrio(moved, t)
      o      == s.owner[s.task[t].on]
      ofOwner == listed.task[o].prio
      Over(r)    == [k |-> r, task |-> None, prio |-> p]
      OnTo(r, q) == [k |-> r, task |-> o, prio |-> q]
  IN CASE s.task[t].state = "del" -> Over(s)
       [] s.task[t].state = "dly" -> Over(moved)
       [] s.task[t].state = "rdy" ->
            LET off == [RdyListRemove(s, t) EXCEPT !.task[t].prio = p]
            IN Over(IF t = s.cur THEN RdyListInsertHead(off, t)
                                 ELSE RdyListInsertTail(off, t))
       [] s.task[t].state \in Blocked ->
            IF s.task[t].on = None THEN Over([moved EXCEPT !.fault = @ \cup {"halt"}])
            ELSE IF old > p THEN IF ofOwner <= p THEN Over(listed) ELSE OnTo(listed, p)
            ELSE IF ofOwner = old
              THEN IF Keeps(listed, o) THEN Over(listed)
                   ELSE OnTo(listed, Uninherited(listed, o))
            ELSE OnTo([listed EXCEPT
                          !.fault = @ \cup IF ofOwner = p THEN {} ELSE {"drag"}], p)

(* A circle of owners has no end: the walk ends where nothing changes.     *)
ChangePrio(s, t, p) ==
  LET walk[n \in 0..MaxRounds] ==
        IF n = 0 THEN [k |-> s, task |-> t, prio |-> p]
        ELSE LET w == walk[n - 1] IN IF w.task = None THEN w ELSE Round(w)
      last == walk[MaxRounds]
  IN IF last.task = None THEN last.k
     ELSE [last.k EXCEPT !.fault = @ \cup {"endless"}]

(* After a waiter has left, at the priority it left with: if the owner may *)
(* have had its priority from it, look for what is left.                   *)
Disinherit(s, o, left) ==
  IF /\ s.task[o].prio # s.task[o].base
     /\ s.task[o].prio = left
     /\ ~Keeps(s, o)
    THEN ChangePrio(s, o, Uninherited(s, o))
    ELSE s

-----------------------------------------------------------------------------
(* Calls of the current task.  It is blocked inside OSMutexPend until it   *)
(* has looked at its PendStatus.                                           *)

Calls(t) == k.cur = t /\ asked[t] = None

Own(s, m, t) == [s EXCEPT !.owner[m] = t, !.nest[m] = 1, !.group[t] = <<m>> \o @]
Disown(s, m) == [s EXCEPT !.group[s.owner[m]] = Without(@, m)]

MutexTake(t, m) ==
  /\ Calls(t) /\ m \notin gone
  /\ k.nest[m] = 0
  /\ k' = Own(k, m, t)
  /\ UNCHANGED <<asked, gone, changes>>

MutexTakeAgain(t, m) ==
  /\ Calls(t) /\ m \notin gone
  /\ k.nest[m] # 0 /\ k.owner[m] = t /\ k.nest[m] < MaxNest
  /\ k' = [k EXCEPT !.nest[m] = @ + 1]
  /\ UNCHANGED <<asked, gone, changes>>

(* Slip: the owner does not inherit.                                       *)
MutexBlockPlain(t, m, timed) ==
  /\ Calls(t) /\ m \notin gone
  /\ k.nest[m] # 0 /\ k.owner[m] # t
  /\ k' = Sched(Pend(k, m, timed))
  /\ asked' = [asked EXCEPT ![t] = m]
  /\ UNCHANGED <<gone, changes>>

(* The owner inherits the caller's priority before the caller blocks.      *)
MutexBlock(t, m, timed) ==
  /\ Calls(t) /\ m \notin gone
  /\ k.nest[m] # 0 /\ k.owner[m] # t
  /\ LET o == k.owner[m]
         p == k.task[t].prio
         raised == IF k.task[o].prio > p THEN ChangePrio(k, o, p) ELSE k
     IN k' = Sched(Pend(raised, m, timed))
  /\ asked' = [asked EXCEPT ![t] = m]
  /\ UNCHANGED <<gone, changes>>

(* Back from OSSched: OSMutexPend returns what PendStatus says.            *)
MutexPendReturns(t) ==
  /\ k.cur = t /\ asked[t] # None
  /\ asked' = [asked EXCEPT ![t] = None]
  /\ UNCHANGED <<k, gone, changes>>

MutexPostNested(t, m) ==
  /\ Calls(t) /\ m \notin gone
  /\ k.owner[m] = t /\ k.nest[m] > 1
  /\ k' = [k EXCEPT !.nest[m] = @ - 1]
  /\ UNCHANGED <<asked, gone, changes>>

MutexPostFree(t, m) ==
  /\ Calls(t) /\ m \notin gone
  /\ k.owner[m] = t /\ k.nest[m] = 1 /\ k.list[m] = <<>>
  /\ k' = [Disown(k, m) EXCEPT !.owner[m] = None, !.nest[m] = 0]
  /\ UNCHANGED <<asked, gone, changes>>

(* The poster gives up what it inherited through this mutex: OSPrioCur too.*)
Restored(s, t) ==
  LET p == Uninherited(s, t)
  IN IF s.task[t].prio # s.task[t].base /\ p > s.task[t].prio
       THEN [RdyListInsertTail([RdyListRemove(s, t) EXCEPT !.task[t].prio = p], t)
               EXCEPT !.prioCur = p]
       ELSE s

(* Slip: the mutex is still in the poster's group when it looks.           *)
MutexPostKeepsGroup(t, m, sched) ==
  /\ Calls(t) /\ m \notin gone
  /\ k.owner[m] = t /\ k.nest[m] = 1 /\ k.list[m] # <<>>
  /\ LET h == Head(k.list[m])
         given == EndPend(Own(Disown(Restored(k, t), m), m, h), h, "ok")
     IN k' = IF sched THEN Sched(given) ELSE given
  /\ UNCHANGED <<asked, gone, changes>>

(* To the head of the pend list; with OS_OPT_POST_NO_SCHED the poster runs *)
(* on, even if the new owner outranks it.                                  *)
MutexPostGive(t, m, sched) ==
  /\ Calls(t) /\ m \notin gone
  /\ k.owner[m] = t /\ k.nest[m] = 1 /\ k.list[m] # <<>>
  /\ LET h == Head(k.list[m])
         given == EndPend(Own(Restored(Disown(k, m), t), m, h), h, "ok")
     IN k' = IF sched THEN Sched(given) ELSE given
  /\ UNCHANGED <<asked, gone, changes>>

(* The deletion of an orphan follows a null pointer in OS_MutexGrpRemove:  *)
(* nothing is modelled of what comes after.                                *)
Removable(m) ==
  /\ m \notin gone /\ changes < MaxChanges
  /\ k.owner[m] # None => m \in ToSet(k.group[k.owner[m]])

Cleared(s, m) ==
  LET off == IF s.owner[m] = None THEN s ELSE Disown(s, m)
  IN [off EXCEPT !.owner[m] = None, !.nest[m] = 0]

MutexDelNoPend(t, m) ==
  /\ Calls(t) /\ Removable(m) /\ k.list[m] = <<>>
  /\ k' = Cleared(k, m)
  /\ gone' = gone \cup {m} /\ changes' = changes + 1
  /\ UNCHANGED asked

(* Slip: the owner keeps what it inherited.                                *)
MutexDelKeepsPrio(t, m) ==
  /\ Calls(t) /\ Removable(m)
  /\ k' = Sched(Cleared(PendAbortAll(k, m, "del"), m))
  /\ gone' = gone \cup {m} /\ changes' = changes + 1
  /\ UNCHANGED asked

(* OS_OPT_DEL_ALWAYS.                                                      *)
MutexDelAlways(t, m) ==
  /\ Calls(t) /\ Removable(m)
  /\ LET o == k.owner[m]
         cleared == Cleared(PendAbortAll(k, m, "del"), m)
     IN k' = Sched(IF o # None /\ cleared.task[o].prio # cleared.task[o].base
                     THEN ChangePrio(cleared, o, Uninherited(cleared, o))
                     ELSE cleared)
  /\ gone' = gone \cup {m} /\ changes' = changes + 1
  /\ UNCHANGED asked

-----------------------------------------------------------------------------
(* Tasks and time.                                                         *)

(* Slip: the base priority is not recorded.                                *)
TaskChangePrioForgets(t, u, p) ==
  /\ Calls(t) /\ changes < MaxChanges /\ k.task[u].state # "del"
  /\ k' = Sched(ChangePrio(k, u, p))
  /\ changes' = changes + 1
  /\ UNCHANGED <<asked, gone>>

(* An owner does not go below those that wait for what it owns.            *)
TaskChangePrio(t, u, p) ==
  /\ Calls(t) /\ changes < MaxChanges /\ k.task[u].state # "del"
  /\ LET given == [k EXCEPT !.task[u].base = p]
         prio == IF k.group[u] # <<>> /\ p > k.task[u].prio
                   THEN Higher(p, MutexGrpPrioFindHighest(given, u)) ELSE p
     IN k' = Sched(ChangePrio(given, u, prio))
  /\ changes' = changes + 1
  /\ UNCHANGED <<asked, gone>>

(* OS_MutexGrpPostAll, one mutex: to the head of its pend list, who takes  *)
(* it into its group; but OwnerTCBPtr becomes p_tcb, the old owner.        *)
GrpPostOne(s, t, m) ==
  LET off == [s EXCEPT !.group[t] = Without(@, m)]
      h == Head(s.list[m])
  IN IF s.list[m] = <<>> THEN [off EXCEPT !.owner[m] = None, !.nest[m] = 0]
     ELSE EndPend([off EXCEPT !.owner[m] = t, !.nest[m] = 1, !.group[h] = <<m>> \o @,
                              !.fault = @ \cup {"orphan"}], h, "ok")

GrpPostAll(s, t) ==
  LET walk[n \in 0..Len(s.group[t])] ==
        IF n = 0 THEN s ELSE GrpPostOne(walk[n - 1], t, s.group[t][n])
  IN walk[Len(s.group[t])]

(* Slip: the mutexes of the task are not posted.                           *)
TaskDelKeepsMutexes(t, u) ==
  /\ Calls(t) /\ changes < MaxChanges
  /\ LET off == IF k.task[u].state = "rdy" THEN RdyListRemove(k, u)
                ELSE IF k.task[u].state \in Blocked
                  THEN Disinherit(PendListRemove(k, u), k.owner[k.task[u].on],
                                  k.task[u].prio)
                ELSE k
     IN k' = Sched([off EXCEPT !.task[u].state = "del"])
  /\ asked' = [asked EXCEPT ![u] = None] /\ changes' = changes + 1
  /\ UNCHANGED gone

(* A task that is delayed or deleted already is in no list: the error of   *)
(* the second deletion does not keep the code from going on.               *)
TaskDel(t, u) ==
  /\ Calls(t) /\ changes < MaxChanges
  /\ LET off == IF k.task[u].state = "rdy" THEN RdyListRemove(k, u)
                ELSE IF k.task[u].state \in Blocked
                  THEN Disinherit(PendListRemove(k, u), k.owner[k.task[u].on],
                                  k.task[u].prio)
                ELSE k
     IN k' = Sched([GrpPostAll(off, u) EXCEPT !.task[u].state = "del"])
  /\ asked' = [asked EXCEPT ![u] = None] /\ changes' = changes + 1
  /\ UNCHANGED gone

TimeDly(t) ==
  /\ Calls(t)
  /\ k' = Sched([RdyListRemove(k, t) EXCEPT !.task[t].state = "dly"])
  /\ UNCHANGED <<asked, gone, changes>>

Yield(t) ==
  /\ Calls(t) /\ CanRotate(k)
  /\ k' = Sched(Rotated(k))
  /\ UNCHANGED <<asked, gone, changes>>

DelayOver(u) ==
  k' = Sched(RdyListInsert([k EXCEPT !.task[u].state = "rdy"], u))

TimeDlyResume(t, u) ==
  /\ Calls(t) /\ k.task[u].state = "dly"
  /\ DelayOver(u)
  /\ UNCHANGED <<asked, gone, changes>>

(* Slip: a timeout leaves the owner's priority alone.                      *)
TimerLeavesOwner(u) ==
  /\ \/ k.task[u].state = "dly" /\ DelayOver(u)
     \/ k.task[u].state = "pendTimeout" /\ k' = Sched(EndPend(k, u, "timeout"))
  /\ UNCHANGED <<asked, gone, changes>>

(* OS_TimerCallback, in the interrupt: a delay or a pend is over.          *)
TimerCallback(u) ==
  /\ \/ k.task[u].state = "dly" /\ DelayOver(u)
     \/ /\ k.task[u].state = "pendTimeout"
        /\ k' = Sched(Disinherit(EndPend(k, u, "timeout"), k.owner[k.task[u].on],
                                 k.task[u].prio))
  /\ UNCHANGED <<asked, gone, changes>>

Calling ==
  \/ \E t \in Tasks, m \in Mutexes :
       \/ MutexTake(t, m) \/ MutexTakeAgain(t, m)
       \/ \E timed \in BOOLEAN : MutexBlock(t, m, timed)
       \/ MutexPostNested(t, m) \/ MutexPostFree(t, m)
       \/ \E sched \in BOOLEAN : MutexPostGive(t, m, sched)
       \/ MutexDelNoPend(t, m) \/ MutexDelAlways(t, m)
  \/ \E t \in Tasks :
       \/ MutexPendReturns(t) \/ TimeDly(t) \/ Yield(t) \/ TimerCallback(t)
       \/ \E u \in Tasks :
            \/ TaskDel(t, u) \/ TimeDlyResume(t, u)
            \/ \E p \in Prios : TaskChangePrio(t, u, p)

(* Nothing is claimed of what follows a fault.                             *)
Sane == k.fault = {}

Next == Sane /\ Calling

Spec == Init /\ [][Next]_vars

-----------------------------------------------------------------------------
(* The kernel's state is well formed: every field has its type, and a task *)
(* is in the ready list of its priority exactly when it is ready, and in   *)
(* the pend list of its mutex exactly when it is blocked on it, once.      *)
TypeOK ==
  /\ k.task \in [Tasks -> TCBs]
  /\ k.cur \in Tasks \cup {None} /\ k.prioCur \in 0..PrioMax
  /\ k.owner \in [Mutexes -> Tasks \cup {None}]
  /\ k.nest \in [Mutexes -> 0..MaxNest]
  /\ k.fault \subseteq {"orphan", "drag", "halt", "endless"}
  /\ asked \in [Tasks -> Mutexes \cup {None}] /\ gone \subseteq Mutexes
  /\ changes \in 0..MaxChanges
  /\ ListedWhereItWaits(k)

(* A mutex is in the group of one live task, the one it says owns it, for  *)
(* as long as anyone may wait for it, whatever sequence of pends, posts,   *)
(* timeouts and deletions led here: "Give mutex to new owner"              *)
(* (os_mutex.c:876).  An orphan is the exception the code makes.           *)
OwnedByOne ==
  Sane =>
    \A m \in Mutexes :
      /\ \A t \in Tasks : Times(k.group[t], m) = IF k.owner[m] = t THEN 1 ELSE 0
      /\ k.owner[m] # None => k.task[k.owner[m]].state # "del"
      /\ k.nest[m] = 0 <=> k.owner[m] = None
      /\ k.list[m] # <<>> => k.owner[m] # None

(* OSMutexPend says RTOS_ERR_NONE to the task that got the mutex, and only *)
(* to it: a task made ready by a post, a timeout or a deletion, several of *)
(* which may happen before it runs, is told the truth when it does.        *)
ToldTheTruth ==
  Sane =>
    \A t \in Tasks :
      asked[t] # None /\ asked[t] \notin gone /\ k.task[t].state = "rdy" =>
        (k.task[t].status = "ok" <=> k.owner[asked[t]] = t)

(* A change of priority comes to an end, inside its critical section, even *)
(* where the tasks that wait for each other's mutexes form a circle.       *)
WalkEnds == "endless" \notin k.fault

(* Priority inheritance is exact: every task runs at the higher of the     *)
(* priority it was given and those that wait for what it owns, along the   *)
(* whole chain of owners, however the waiters came and left and whatever   *)
(* priorities changed; the pend lists stay in that order.                  *)
InheritsExactly ==
  Sane =>
    /\ \A t \in Tasks :
         k.task[t].state # "del" => k.task[t].prio = Uninherited(k, t)
    /\ ListsInOrder(k)

(* No unbounded inversion: the scheduler never switches to a task while    *)
(* one that would release a higher-priority waiter is ready below it.      *)
NoInversion ==
  [][k'.cur # k.cur /\ k'.cur # None /\ k'.fault = {} =>
       \A m \in Mutexes :
         k'.list[m] # <<>> /\ k'.task[k'.owner[m]].state = "rdy" =>
           k'.task[k'.cur].prio <= k'.task[Head(k'.list[m])].prio]_vars

(* "Base priority (Not inherited)" (os.h:779), "Priority inheritance is    *)
(* updated if necessary" (os_task.c:2302): no owner runs below the         *)
(* priority it was given because someone waits for its mutex.              *)
NeverBelowBase ==
  \A t \in Tasks : k.task[t].state # "del" => k.task[t].prio <= k.task[t].base
=============================================================================
