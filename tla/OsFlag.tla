------------------------------- MODULE OsFlag -------------------------------
(***************************************************************************)
(* The kernel's event flags: OSFlagPend, Post and Del, the timeout of a    *)
(* pend, and the scheduler.  OSFlagPost readies a task with the flags it   *)
(* found (FlagsRdy) but does not clear them: the task does, when it runs,  *)
(* and by then the group may have changed.                                 *)
(*                                                                         *)
(* Tasks pend for what Waits gives them, and post and delete what they     *)
(* like; interrupts post at any time.  As everywhere in this program, a    *)
(* pend consumes (OS_OPT_PEND_FLAG_CONSUME) and a post sets                *)
(* (OS_OPT_POST_FLAG_SET).  Not modelled: the modes that wait for clear    *)
(* flags and OSFlagPendAbort, which are not built, and a pend with         *)
(* OS_OPT_PEND_NON_BLOCKING that fails, which changes nothing.             *)
(***************************************************************************)
EXTENDS OsCore

CONSTANTS
  Flags,         \* the bits of a group
  Waits,         \* Waits[t]: the pends of task t, [flags, mode]
  Masks          \* what is posted

Groups == Objects
Pends == [flags : SUBSET Flags, mode : {"all", "any"}]

Wanted == [t \in Tasks |-> UNION {w.flags : w \in Waits[t]}]

(* Each flag has one consumer, as in gpd_event_flags.                      *)
ASSUME FlagAssumption ==
  /\ Masks \subseteq SUBSET Flags
  /\ Waits \in [Tasks -> SUBSET Pends]
  /\ \A t \in Tasks : \A w \in Waits[t] : w.flags # {}
  /\ \A t, u \in Tasks : t # u => Wanted[t] \cap Wanted[u] = {}

VARIABLES
  k,             \* the kernel's state
  flags,         \* Flags of every group
  wait,          \* FlagsPend and FlagsOpt of every task
  flagsRdy,      \* FlagsRdy of every task
  asked,         \* the group of the OSFlagPend each task is blocked in
  gone           \* the groups deleted

vars == <<k, flags, wait, flagsRdy, asked, gone>>

NoWait == [flags |-> {}, mode |-> "any"]

Init ==
  /\ k = Started
  /\ flags = [g \in Groups |-> {}]
  /\ wait = [t \in Tasks |-> NoWait]
  /\ flagsRdy = [t \in Tasks |-> {}]
  /\ asked = [t \in Tasks |-> None]
  /\ gone = {}

-----------------------------------------------------------------------------

(* What a pend finds in a group: nothing, unless its condition holds.      *)
Found(fs, w) == IF w.mode = "all" /\ ~(w.flags \subseteq fs) THEN {} ELSE fs \cap w.flags

(* The current task (which is ready).                                      *)
Runs(t)  == k.cur = t /\ k.task[t].state = "rdy"
Calls(t) == Runs(t) /\ asked[t] = None

PendTakes(t, g, w) ==
  /\ Calls(t) /\ g \notin gone
  /\ Found(flags[g], w) # {}
  /\ flagsRdy' = [flagsRdy EXCEPT ![t] = Found(flags[g], w)]
  /\ flags' = [flags EXCEPT ![g] = @ \ Found(@, w)]
  /\ UNCHANGED <<k, wait, asked, gone>>

(* OS_FlagBlock, OS_Pend and OSSched.                                      *)
PendBlocks(t, g, w, timed) ==
  /\ Calls(t) /\ g \notin gone
  /\ Found(flags[g], w) = {}
  /\ wait' = [wait EXCEPT ![t] = w]
  /\ flagsRdy' = [flagsRdy EXCEPT ![t] = {}]
  /\ k' = Sched(Pend(k, g, timed))
  /\ asked' = [asked EXCEPT ![t] = g]
  /\ UNCHANGED <<flags, gone>>

(* Slip: the flags the task waited for are cleared, not those it got.      *)
PendReturnsClearsAll(t) ==
  /\ Runs(t) /\ asked[t] # None
  /\ flags' = IF k.task[t].status = "ok"
                THEN [flags EXCEPT ![asked[t]] = @ \ wait[t].flags] ELSE flags
  /\ asked' = [asked EXCEPT ![t] = None]
  /\ UNCHANGED <<k, wait, flagsRdy, gone>>

(* Back from OSSched: with the flags of the post that readied it.          *)
PendReturns(t) ==
  /\ Runs(t) /\ asked[t] # None
  /\ flags' = IF k.task[t].status = "ok"
                THEN [flags EXCEPT ![asked[t]] = @ \ flagsRdy[t]] ELSE flags
  /\ asked' = [asked EXCEPT ![t] = None]
  /\ UNCHANGED <<k, wait, flagsRdy, gone>>

(* The tasks of the group's list whose condition holds.                    *)
Satisfied(g, fs) ==
  {t \in Tasks : /\ k.task[t].state \in Blocked /\ k.task[t].on = g
                 /\ Found(fs, wait[t]) # {}}

(* Slip: the walk ends at the first task it readies.                       *)
PostReadiesOne(g, fs, sched) ==
  LET now == flags[g] \cup fs
      first == {t \in Satisfied(g, now) :
                  \A u \in Satisfied(g, now) : k.task[t].prio <= k.task[u].prio}
      readied == EndPends(k, g, first, "ok")
  IN /\ g \notin gone
     /\ flags' = [flags EXCEPT ![g] = now]
     /\ flagsRdy' = [t \in Tasks |-> IF t \in first THEN Found(now, wait[t])
                                     ELSE flagsRdy[t]]
     /\ k' = IF sched THEN Sched(readied) ELSE readied
     /\ UNCHANGED <<wait, asked, gone>>

(* OSFlagPost: every task that is satisfied, whatever the others will take.*)
Post(g, fs, sched) ==
  LET now == flags[g] \cup fs
      readied == EndPends(k, g, Satisfied(g, now), "ok")
  IN /\ g \notin gone
     /\ flags' = [flags EXCEPT ![g] = now]
     /\ flagsRdy' = [t \in Tasks |-> IF t \in Satisfied(g, now) THEN Found(now, wait[t])
                                     ELSE flagsRdy[t]]
     /\ k' = IF sched THEN Sched(readied) ELSE readied
     /\ UNCHANGED <<wait, asked, gone>>

TaskPosts(t, g, fs, sched) == Calls(t) /\ Post(g, fs, sched)

(* Slip: the interrupt is left without a look at who is ready.             *)
IsrPostsUnscheduled(g, fs) == Post(g, fs, FALSE)

(* From an interrupt: the scheduler runs as it is left.                    *)
IsrPosts(g, fs) == Post(g, fs, TRUE)

(* OSFlagDel: with OS_OPT_DEL_NO_PEND, only when no task waits; or always, *)
(* which runs the scheduler even if none did.                              *)
FlagDel(t, g) ==
  /\ Calls(t) /\ g \notin gone
  /\ flags' = [flags EXCEPT ![g] = {}]
  /\ \/ k.list[g] = <<>> /\ k' = k
     \/ k' = Sched(PendAbortAll(k, g, "del"))
  /\ gone' = gone \cup {g}
  /\ UNCHANGED <<wait, flagsRdy, asked>>

(* OS_TimerCallback: the pend of a task is over.                           *)
TimerCallback(u) ==
  /\ k.task[u].state = "pendTimeout"
  /\ k' = Sched(EndPend(k, u, "timeout"))
  /\ UNCHANGED <<flags, wait, flagsRdy, asked, gone>>

AnyPends(t) ==
  \E g \in Groups, w \in Waits[t] :
    PendTakes(t, g, w) \/ \E timed \in BOOLEAN : PendBlocks(t, g, w, timed)

Posts ==
  \E g \in Groups, fs \in Masks :
    \/ IsrPosts(g, fs)
    \/ \E t \in Tasks, sched \in BOOLEAN : TaskPosts(t, g, fs, sched)

Next ==
  \/ Posts
  \/ \E t \in Tasks : AnyPends(t) \/ PendReturns(t) \/ TimerCallback(t)
  \/ \E t \in Tasks, g \in Groups : FlagDel(t, g)

Spec == Init /\ [][Next]_vars

(* Every task of the program is a loop around a pend: the one that runs    *)
(* comes back to it.                                                       *)
FairSpec == Spec /\ \A t \in Tasks : WF_vars(AnyPends(t)) /\ WF_vars(PendReturns(t))

-----------------------------------------------------------------------------
(* Every variable has its type, and the lists agree with the tasks.        *)
TypeOK ==
  /\ k.task \in [Tasks -> TCBs]
  /\ k.cur \in Tasks \cup {None} /\ k.prioCur \in 0..PrioMax
  /\ k.cur # None => k.task[k.cur].state = "rdy"
  /\ flags \in [Groups -> SUBSET Flags]
  /\ wait \in [Tasks -> Pends] /\ flagsRdy \in [Tasks -> SUBSET Flags]
  /\ asked \in [Tasks -> Groups \cup {None}] /\ gone \subseteq Groups
  /\ ListedWhereItWaits(k) /\ ListsInOrder(k)

(* No missed wake-up: no task sleeps on flags that satisfy it, whatever    *)
(* was posted, consumed by others, cleared or timed out since it blocked.  *)
NotAsleepOnSetFlags ==
  \A t \in Tasks :
    k.task[t].state \in Blocked =>
      asked[t] = k.task[t].on /\ Found(flags[asked[t]], wait[t]) = {}

(* What a readied task is going to consume.                                *)
Promised(g) ==
  {t \in Tasks : asked[t] = g /\ k.task[t].state \notin Blocked /\ k.task[t].status = "ok"}

Raised(g) == flags[g] \cup UNION {flagsRdy[t] : t \in Promised(g)}

(* To its users a group is a set: no flag posted is lost, none is returned *)
(* twice for one post, although a task consumes, when it runs, what it was *)
(* shown when it was readied: until then the flag counts as raised.        *)
Events == INSTANCE EventFlags WITH
  raised <- [g \in Groups |-> Raised(g)],
  taken  <- [t \in Tasks |-> IF asked[t] = None THEN flagsRdy[t] ELSE {}]

IsEventFlags == Events!Spec

(* A task whose pend is over returns from it: none is left behind in the   *)
(* ready list, once posts and timeouts cease (tasks that are readied for   *)
(* ever may keep those below them waiting) and if no group is deleted.     *)
Timeouts == \E t \in Tasks : TimerCallback(t)

ReadiedReturns ==
  <>[][~Posts /\ ~Timeouts]_vars /\ [](gone = {}) =>
    \A t \in Tasks : asked[t] # None /\ k.task[t].state = "rdy" ~> asked[t] = None
=============================================================================
