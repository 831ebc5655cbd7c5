---------------------------- MODULE OsFlagProofs ----------------------------
(***************************************************************************)
(* For every set of tasks and flags, every choice of waits in which a flag *)
(* has one consumer, and every schedule: no task sleeps on flags that      *)
(* satisfy it, and the kernel's groups are the sets of EventFlags; ready   *)
(* and pend lists always agree with the tasks' states, and are in order.   *)
(***************************************************************************)
EXTENDS OsFlag, OsCoreProofs

-----------------------------------------------------------------------------
(* What the operators of OsCore do to the TCBs and the lists.              *)

Shape(s) ==
  /\ DOMAIN s = {"task", "list", "rdy", "cur", "prioCur"}
  /\ s.task \in [Tasks -> TCBs]

Scheduled(s) ==
  /\ Sound(s, Tasks) /\ ListsInOrder(s)
  /\ s.cur # None => s.task[s.cur].state = "rdy"

LEMMA SchedTask ==
  ASSUME NEW s, Shape(s), Sound(s, Tasks), ListsInOrder(s)
  PROVE  Shape(Sched(s)) /\ Sched(s).task = s.task /\ Scheduled(Sched(s))
<1> DEFINE r == Sched(s)
<1>1. /\ Sound(r, Tasks) /\ Changes(s, r, {"cur", "prioCur"})
      /\ r.cur # None => s.task[r.cur].state = "rdy"
  BY SchedRuns
<1> HIDE DEF r
<1>2. DOMAIN r = DOMAIN s /\ r.task = s.task /\ r.list = s.list
  BY <1>1 DEF Changes, Shape
<1> QED
  BY <1>1, <1>2 DEF Shape, Scheduled, ListsInOrder, r

LEMMA PendTask ==
  ASSUME NEW s, Shape(s), Scheduled(s), NEW o \in Objects, NEW timed \in BOOLEAN,
         s.cur \in Tasks
  PROVE  LET r == Sched(Pend(s, o, timed))
         IN /\ Shape(r) /\ Scheduled(r)
            /\ r.task = [s.task EXCEPT ![s.cur] = Blocking(@, o, timed)]
<1> DEFINE p == Pend(s, o, timed)
<1>1. /\ Sound(p, Tasks) /\ Changes(s, p, {"task", "list", "rdy"}) /\ ListsInOrder(p)
      /\ p.task = [s.task EXCEPT ![s.cur] = Blocking(@, o, timed)]
  BY PendSound, OsAssumption DEF Scheduled, OsAssumption
<1> HIDE DEF p
<1>2. Shape(p)
  BY <1>1 DEF Changes, Shape, Sound, Kernel
<1>3. Shape(Sched(p)) /\ Sched(p).task = p.task /\ Scheduled(Sched(p))
  BY <1>1, <1>2, SchedTask
<1> QED
  BY <1>1, <1>3 DEF p

LEMMA EndPendTask ==
  ASSUME NEW s, Shape(s), Scheduled(s), NEW t \in Tasks, NEW status \in Statuses,
         s.task[t].state \in Blocked, s.task[t].on # None
  PROVE  LET r == Sched(EndPend(s, t, status))
         IN /\ Shape(r) /\ Scheduled(r)
            /\ \A u \in Tasks \ {t} : r.task[u] = s.task[u]
            /\ r.task[t].state \notin Blocked
            /\ r.task[t].on = None
            /\ r.task[t].status = status
<1> DEFINE e == EndPend(s, t, status)
<1>1. Ended(s, e, Tasks, t, status) /\ ListsInOrder(e)
  BY EndPendSound, EndPendOrder DEF Scheduled
<1> HIDE DEF e
<1>2. Sound(e, Tasks) /\ e.task = [s.task EXCEPT ![t] = Readied(@, status)]
  BY <1>1 DEF Ended
<1>3. Shape(e)
  BY <1>1 DEF Ended, Changes, Shape, Sound, Kernel
<1>4. Shape(Sched(e)) /\ Sched(e).task = e.task /\ Scheduled(Sched(e))
  BY <1>1, <1>2, <1>3, SchedTask
<1>5. s.task[t] \in TCBs
  BY DEF Shape
<1>6. /\ \A u \in Tasks \ {t} : e.task[u] = s.task[u]
      /\ e.task[t] = Readied(s.task[t], status)
  BY <1>2 DEF Shape
<1>7. e.task[t].state \notin Blocked /\ e.task[t].on = None /\ e.task[t].status = status
  BY <1>5, <1>6, ReadiedTCB DEF Blocked
<1> QED
  BY <1>4, <1>6, <1>7 DEF e

LEMMA EndPendsTask ==
  ASSUME NEW s, Shape(s), Scheduled(s), NEW o \in Objects, NEW who, NEW status \in Statuses,
         NEW r, r \in {EndPends(s, o, who, status), Sched(EndPends(s, o, who, status))}
  PROVE  /\ Shape(r) /\ Scheduled(r)
         /\ r.task = [t \in Tasks |-> IF t \in who /\ s.task[t].state \in Blocked /\ s.task[t].on = o
                                      THEN Readied(s.task[t], status) ELSE s.task[t]]
<1> DEFINE e == EndPends(s, o, who, status)
           f == [t \in Tasks |-> IF t \in who /\ s.task[t].state \in Blocked /\ s.task[t].on = o
                                 THEN Readied(s.task[t], status) ELSE s.task[t]]
<1>1. /\ Sound(e, Tasks) /\ Changes(s, e, {"task", "list", "rdy"}) /\ ListsInOrder(e)
      /\ e.task = f
  BY EndPendsSound DEF Scheduled
<1> HIDE DEF e
<1>2. Shape(e) /\ e.cur = s.cur
  BY <1>1 DEF Changes, Shape, Sound, Kernel
<1>3. s.cur \in Tasks \cup {None} /\ None \notin Tasks
  BY PrioType DEF Scheduled, Sound
<1>4. s.cur # None => f[s.cur].state = "rdy"
  BY <1>3 DEF Scheduled, Blocked
<1> HIDE DEF f
<1>5. Scheduled(e)
  BY <1>1, <1>2, <1>4 DEF Scheduled
<1>6. Shape(Sched(e)) /\ Sched(e).task = e.task /\ Scheduled(Sched(e))
  BY <1>1, <1>2, SchedTask
<1> QED
  BY <1>1, <1>2, <1>5, <1>6 DEF e, f

-----------------------------------------------------------------------------
(* The invariant: types, and what is known of a task inside its pend.  A   *)
(* task that sleeps waits, in the group it asked, for flags that are not   *)
(* all there; one that was readied by a post has flags of its own in hand; *)
(* one whose pend failed has none.                                         *)

FlagTypes ==
  /\ Shape(k)
  /\ flags \in [Groups -> SUBSET Flags]
  /\ wait \in [Tasks -> Pends]
  /\ flagsRdy \in [Tasks -> SUBSET Flags]
  /\ asked \in [Tasks -> Groups \cup {None}]

TaskInv(t) ==
  /\ asked[t] # None => wait[t] \in Waits[t]
  /\ k.task[t].state \in Blocked =>
       /\ asked[t] = k.task[t].on /\ asked[t] # None
       /\ flagsRdy[t] = {} /\ Found(flags[asked[t]], wait[t]) = {}
  /\ k.task[t].state \notin Blocked => k.task[t].on = None
  /\ asked[t] # None /\ k.task[t].state \notin Blocked =>
       IF k.task[t].status = "ok" THEN flagsRdy[t] # {} /\ flagsRdy[t] \subseteq Wanted[t]
       ELSE flagsRdy[t] = {}

FlagInv == FlagTypes /\ Scheduled(k) /\ gone \subseteq Groups /\ \A t \in Tasks : TaskInv(t)

LEMMA FoundBounds ==
  ASSUME NEW w, NEW fs
  PROVE  Found(fs, w) \subseteq fs \cap w.flags
<1> QED
  BY DEF Found

(* A condition that does not hold does not hold of fewer flags.            *)
LEMMA FoundMonotone ==
  ASSUME NEW w \in Pends, NEW fs, NEW gs, gs \subseteq fs, Found(fs, w) = {}
  PROVE  Found(gs, w) = {}
<1> QED
  BY DEF Found, Pends

LEMMA WaitsWanted ==
  ASSUME NEW t \in Tasks, NEW w \in Waits[t]
  PROVE  w \in Pends /\ w.flags \subseteq Wanted[t] /\ w.flags \subseteq Flags
<1> QED
  BY FlagAssumption DEF FlagAssumption, Wanted, Pends

LEMMA InvInit == Init => FlagInv
<1> SUFFICES ASSUME Init PROVE FlagInv
  OBVIOUS
<1>1. Sound(k, Tasks) /\ ListsInOrder(k) /\ k.cur \in Tasks /\ DOMAIN k = CoreFields
  BY StartedSound DEF Init
<1>2. k.task = [t \in Tasks |-> [prio |-> Base[t], base |-> Base[t], state |-> "rdy",
                                on |-> None, status |-> "ok"]]
  BY StartedSound DEF Init
<1>3. Shape(k) /\ Scheduled(k)
  BY <1>1, <1>2 DEF Shape, Scheduled, Sound, Kernel, CoreFields
<1>4. FlagTypes
  BY <1>3 DEF Init, FlagTypes, NoWait, Pends
<1>5. \A t \in Tasks : TaskInv(t)
  BY <1>2 DEF Init, TaskInv, Blocked
<1> QED
  BY <1>3, <1>4, <1>5 DEF FlagInv, Init

(* Each action preserves it.                                               *)

LEMMA InvPendTakes ==
  ASSUME NEW t \in Tasks, NEW g \in Groups, NEW w \in Waits[t], FlagInv, PendTakes(t, g, w)
  PROVE  FlagInv'
<1>1. Found(flags[g], w) \subseteq w.flags /\ w.flags \subseteq Flags
  BY FoundBounds, WaitsWanted
<1>2. FlagTypes' /\ Scheduled(k') /\ gone' \subseteq Groups
  BY <1>1 DEF FlagInv, FlagTypes, PendTakes, Shape
<1>3. ASSUME NEW u \in Tasks PROVE TaskInv(u)'
  <2>1. u = t => asked[u] = None /\ k.task[u].state = "rdy"
    BY DEF PendTakes, Calls, Runs
  <2>2. asked[u] # None => flags'[asked[u]] \subseteq flags[asked[u]] /\ wait[u] \in Pends
    BY WaitsWanted DEF FlagInv, FlagTypes, TaskInv, PendTakes
  <2>3. asked[u] # None /\ Found(flags[asked[u]], wait[u]) = {} =>
          Found(flags'[asked[u]], wait[u]) = {}
    BY <2>2, FoundMonotone
  <2>4. u # t => flagsRdy'[u] = flagsRdy[u]
    BY DEF FlagInv, FlagTypes, PendTakes
  <2> QED
    BY <2>1, <2>3, <2>4 DEF FlagInv, TaskInv, PendTakes, Blocked
<1> QED
  BY <1>2, <1>3 DEF FlagInv

LEMMA InvPendBlocks ==
  ASSUME NEW t \in Tasks, NEW g \in Groups, NEW w \in Waits[t], NEW timed \in BOOLEAN,
         FlagInv, PendBlocks(t, g, w, timed)
  PROVE  FlagInv'
<1>1. k.cur = t /\ g # None
  BY OsAssumption DEF PendBlocks, Calls, Runs, OsAssumption, Groups
<1>2. Shape(k') /\ Scheduled(k') /\ k'.task = [k.task EXCEPT ![t] = Blocking(@, g, timed)]
  BY <1>1, PendTask DEF PendBlocks, FlagInv, FlagTypes, Groups
<1>3. FlagTypes' /\ gone' \subseteq Groups
  BY <1>2, WaitsWanted DEF FlagInv, FlagTypes, PendBlocks, Shape
<1>4. k.task[t] \in TCBs
  BY DEF FlagInv, FlagTypes, Shape
<1>5. k'.task[t].state \in Blocked /\ k'.task[t].on = g
  BY <1>2, <1>4, BlockingTCB DEF FlagInv, FlagTypes, Shape, Groups
<1>6. TaskInv(t)'
  BY <1>1, <1>5 DEF TaskInv, PendBlocks, FlagInv, FlagTypes
<1>7. ASSUME NEW u \in Tasks \ {t} PROVE TaskInv(u)'
  BY <1>2 DEF TaskInv, PendBlocks, FlagInv, FlagTypes, Shape
<1> QED
  BY <1>2, <1>3, <1>6, <1>7 DEF FlagInv

LEMMA InvPendReturns ==
  ASSUME NEW t \in Tasks, FlagInv, PendReturns(t)
  PROVE  FlagInv'
<1>1. asked[t] \in Groups
  BY DEF PendReturns, FlagInv, FlagTypes
<1>2. FlagTypes' /\ Scheduled(k') /\ gone' \subseteq Groups
  BY <1>1 DEF FlagInv, FlagTypes, PendReturns, Shape
<1>3. ASSUME NEW u \in Tasks PROVE TaskInv(u)'
  <2>1. u = t => asked'[u] = None /\ k.task[u].state = "rdy"
    BY DEF PendReturns, Runs, FlagInv, FlagTypes
  <2>2. asked[u] # None => flags'[asked[u]] \subseteq flags[asked[u]] /\ wait[u] \in Pends
    BY DEF FlagInv, FlagTypes, TaskInv, PendReturns
  <2>3. asked[u] # None /\ Found(flags[asked[u]], wait[u]) = {} =>
          Found(flags'[asked[u]], wait[u]) = {}
    BY <2>2, FoundMonotone
  <2>4. u # t => asked'[u] = asked[u]
    BY DEF FlagInv, FlagTypes, PendReturns
  <2> QED
    BY <2>1, <2>3, <2>4 DEF FlagInv, TaskInv, PendReturns, Blocked
<1> QED
  BY <1>2, <1>3 DEF FlagInv

LEMMA PostTask ==
  ASSUME NEW g \in Groups, NEW fs \in Masks, NEW sched \in BOOLEAN,
         FlagInv, Post(g, fs, sched)
  PROVE  /\ Shape(k') /\ Scheduled(k')
         /\ k'.task = [t \in Tasks |-> IF t \in Satisfied(g, flags[g] \cup fs)
                                         THEN Readied(k.task[t], "ok") ELSE k.task[t]]
         /\ flags' = [flags EXCEPT ![g] = @ \cup fs]
         /\ flags' \in [Groups -> SUBSET Flags]
<1> DEFINE S == Satisfied(g, flags[g] \cup fs)
           e == EndPends(k, g, S, "ok")
<1>2. k' = e \/ k' = Sched(e)
  BY DEF Post
<1>0. Shape(k) /\ Scheduled(k) /\ g \in Objects /\ "ok" \in Statuses
  BY DEF FlagInv, FlagTypes, Statuses, Groups
<1>1. \A t \in Tasks : t \in S <=> t \in S /\ k.task[t].state \in Blocked /\ k.task[t].on = g
  BY DEF Satisfied
<1> HIDE DEF S
<1>3. /\ Shape(k') /\ Scheduled(k')
      /\ k'.task = [t \in Tasks |-> IF t \in S THEN Readied(k.task[t], "ok") ELSE k.task[t]]
  <2>1. /\ Shape(k') /\ Scheduled(k')
        /\ k'.task = [t \in Tasks |->
                        IF t \in S /\ k.task[t].state \in Blocked /\ k.task[t].on = g
                        THEN Readied(k.task[t], "ok") ELSE k.task[t]]
    BY <1>0, <1>2, EndPendsTask
  <2> QED
    BY <1>1, <2>1
<1>4. flags' = [flags EXCEPT ![g] = @ \cup fs] /\ fs \subseteq Flags
  BY FlagAssumption DEF Post, FlagAssumption
<1> QED
  BY <1>3, <1>4 DEF FlagInv, FlagTypes, S

LEMMA InvPost ==
  ASSUME NEW g \in Groups, NEW fs \in Masks, NEW sched \in BOOLEAN,
         FlagInv, Post(g, fs, sched)
  PROVE  FlagInv'
<1> DEFINE now == flags[g] \cup fs
           S == Satisfied(g, now)
<1>1. \A u \in Tasks : k.task[u] \in TCBs
  BY DEF FlagInv, FlagTypes, Shape
<1>2. \A u \in Tasks : flagsRdy'[u] = IF u \in S THEN Found(now, wait[u]) ELSE flagsRdy[u]
  BY DEF Post
<1>3. \A u \in S : u \in Tasks /\ asked[u] = g /\ wait[u] \in Waits[u] /\ Found(now, wait[u]) # {}
  BY OsAssumption DEF Satisfied, FlagInv, TaskInv, OsAssumption, Groups
<1>4. \A u \in S : Found(now, wait[u]) \subseteq Wanted[u] \cap Flags
  BY <1>3, FoundBounds, WaitsWanted
<1>5. FlagTypes'
  <2>1. flagsRdy' \in [Tasks -> SUBSET Flags]
    BY <1>2, <1>4 DEF Post, FlagInv, FlagTypes
  <2> QED
    BY <2>1, PostTask DEF Post, FlagInv, FlagTypes
<1>8. k'.task = [t \in Tasks |-> IF t \in S THEN Readied(k.task[t], "ok") ELSE k.task[t]]
  BY PostTask
<1>6. ASSUME NEW u \in S PROVE TaskInv(u)'
  <2>1. k'.task[u] = Readied(k.task[u], "ok") /\ u \in Tasks
    BY <1>3, <1>8
  <2>2. k'.task[u].state \notin Blocked /\ k'.task[u].on = None /\ k'.task[u].status = "ok"
    BY <1>1, <2>1, ReadiedTCB DEF Statuses
  <2>3. asked'[u] = asked[u] /\ wait'[u] = wait[u]
    BY DEF Post
  <2>4. flagsRdy'[u] = Found(now, wait[u])
    BY <1>2, <2>1
  <2> QED
    BY <1>3, <1>4, <2>2, <2>3, <2>4 DEF TaskInv
<1>7. ASSUME NEW u \in Tasks \ S PROVE TaskInv(u)'
  <2>1. k'.task[u] = k.task[u] /\ flagsRdy'[u] = flagsRdy[u]
    BY <1>2, <1>8
  <2>2. asked'[u] = asked[u] /\ wait'[u] = wait[u]
    BY DEF Post
  <2>3. k.task[u].state \in Blocked => Found(flags'[asked[u]], wait[u]) = {}
    <3> SUFFICES ASSUME k.task[u].state \in Blocked PROVE Found(flags'[asked[u]], wait[u]) = {}
      OBVIOUS
    <3>1. asked[u] \in Groups /\ asked[u] = k.task[u].on /\ Found(flags[asked[u]], wait[u]) = {}
      BY DEF FlagInv, FlagTypes, TaskInv
    <3>2. flags'[asked[u]] = IF asked[u] = g THEN now ELSE flags[asked[u]]
      <4>1. flags' = [flags EXCEPT ![g] = @ \cup fs]
        BY PostTask
      <4> QED
        BY <3>1, <4>1 DEF FlagInv, FlagTypes
    <3> QED
      BY <3>1, <3>2 DEF Satisfied
  <2> QED
    BY <2>1, <2>2, <2>3 DEF FlagInv, TaskInv
<1>9. Scheduled(k') /\ gone' = gone
  BY PostTask DEF Post
<1> QED
  BY <1>5, <1>6, <1>7, <1>9 DEF FlagInv

LEMMA DelTask ==
  ASSUME NEW t \in Tasks, NEW g \in Groups, FlagInv, FlagDel(t, g)
  PROVE  /\ Shape(k') /\ Scheduled(k')
         /\ \A u \in Tasks :
              \/ k'.task[u] = k.task[u]
              \/ k.task[u].on = g /\ k'.task[u] = Readied(k.task[u], "del")
<1> DEFINE S == {v \in Tasks : k.task[v].on = g}
           e == EndPends(k, g, S, "del")
<1>2. k' = k \/ k' = Sched(e)
  BY DEF FlagDel, PendAbortAll
<1>0. Shape(k) /\ Scheduled(k) /\ g \in Objects /\ "del" \in Statuses
  BY DEF FlagInv, FlagTypes, Statuses, Groups
<1> HIDE DEF S
<1>3. CASE k' = k
  BY <1>0, <1>3 DEF Shape
<1>4. CASE k' = Sched(e)
  <2>1. /\ Shape(k') /\ Scheduled(k')
        /\ k'.task = [u \in Tasks |->
                        IF u \in S /\ k.task[u].state \in Blocked /\ k.task[u].on = g
                        THEN Readied(k.task[u], "del") ELSE k.task[u]]
    BY <1>0, <1>4, EndPendsTask
  <2> QED
    BY <2>1
<1> QED
  BY <1>2, <1>3, <1>4

LEMMA InvFlagDel ==
  ASSUME NEW t \in Tasks, NEW g \in Groups, FlagInv, FlagDel(t, g)
  PROVE  FlagInv'
<1>1. FlagTypes' /\ Scheduled(k') /\ gone' \subseteq Groups
  BY DelTask DEF FlagInv, FlagTypes, FlagDel
<1>2. ASSUME NEW u \in Tasks PROVE TaskInv(u)'
  <2>1. k.task[u] \in TCBs
    BY DEF FlagInv, FlagTypes, Shape
  <2>2. asked[u] # None => flags'[asked[u]] \subseteq flags[asked[u]] /\ wait[u] \in Pends
    BY DEF FlagInv, FlagTypes, FlagDel
  <2>3. asked[u] # None /\ Found(flags[asked[u]], wait[u]) = {} =>
          Found(flags'[asked[u]], wait[u]) = {}
    BY <2>2, FoundMonotone
  <2>4. CASE k'.task[u] = k.task[u]
    BY <2>3, <2>4 DEF FlagInv, TaskInv, FlagDel
  <2>5. CASE k.task[u].on = g /\ k'.task[u] = Readied(k.task[u], "del")
    <3>1. k'.task[u].state \notin Blocked /\ k'.task[u].on = None /\ k'.task[u].status = "del"
      BY <2>1, <2>5, ReadiedTCB DEF Statuses
    <3>2. flagsRdy[u] = {}
      BY <2>5, OsAssumption DEF FlagInv, TaskInv, OsAssumption, Groups
    <3> QED
      BY <3>1, <3>2 DEF FlagInv, TaskInv, FlagDel
  <2> QED
    BY <2>4, <2>5, DelTask
<1> QED
  BY <1>1, <1>2 DEF FlagInv

LEMMA TimerTask ==
  ASSUME NEW t \in Tasks, FlagInv, TimerCallback(t)
  PROVE  /\ Shape(k') /\ Scheduled(k')
         /\ \A u \in Tasks \ {t} : k'.task[u] = k.task[u]
         /\ k.task[t].state \in Blocked
         /\ k'.task[t].state \notin Blocked
         /\ k'.task[t].on = None /\ k'.task[t].status = "timeout"
<1>1. k.task[t].state \in Blocked /\ k.task[t].on # None
  BY DEF FlagInv, TaskInv, TimerCallback, Blocked
<1> QED
  BY <1>1, EndPendTask DEF FlagInv, FlagTypes, Statuses, TimerCallback

LEMMA InvTimer ==
  ASSUME NEW t \in Tasks, FlagInv, TimerCallback(t)
  PROVE  FlagInv'
<1>1. FlagTypes' /\ Scheduled(k') /\ gone' \subseteq Groups
  BY TimerTask DEF FlagInv, FlagTypes, TimerCallback
<1>2. TaskInv(t)'
  BY TimerTask DEF FlagInv, TaskInv, TimerCallback
<1>3. ASSUME NEW u \in Tasks \ {t} PROVE TaskInv(u)'
  BY TimerTask DEF FlagInv, TaskInv, TimerCallback
<1> QED
  BY <1>1, <1>2, <1>3 DEF FlagInv

LEMMA InvNext == FlagInv /\ [Next]_vars => FlagInv'
<1> SUFFICES ASSUME FlagInv, [Next]_vars PROVE FlagInv'
  OBVIOUS
<1>1. CASE Posts
  BY <1>1, InvPost DEF Posts, IsrPosts, TaskPosts
<1>2. CASE \E t \in Tasks : AnyPends(t)
  BY <1>2, InvPendTakes, InvPendBlocks DEF AnyPends
<1>3. CASE \E t \in Tasks : PendReturns(t)
  BY <1>3, InvPendReturns
<1>4. CASE \E t \in Tasks : TimerCallback(t)
  BY <1>4, InvTimer
<1>5. CASE \E t \in Tasks, g \in Groups : FlagDel(t, g)
  BY <1>5, InvFlagDel
<1>6. CASE UNCHANGED vars
  BY <1>6 DEF vars, FlagInv, FlagTypes, TaskInv, Shape
<1> QED
  BY <1>1, <1>2, <1>3, <1>4, <1>5, <1>6 DEF Next

LEMMA Invariant == Spec => []FlagInv
<1> QED
  BY InvInit, InvNext, PTL DEF Spec

(* The lists agree with the tasks and are in order of priority, whoever    *)
(* pends, posts, deletes or times out, and who runs is ready.              *)
THEOREM FlagTypeCorrect == Spec => []TypeOK
<1>1. FlagInv => TypeOK
  BY SoundListed DEF FlagInv, FlagTypes, Scheduled, Sound, Shape, TypeOK
<1> QED
  BY <1>1, Invariant, PTL

(* No missed wake-up, in every system of tasks and flags.                  *)
THEOREM NeverAsleepOnSetFlags == Spec => []NotAsleepOnSetFlags
<1>1. FlagInv => NotAsleepOnSetFlags
  BY DEF FlagInv, TaskInv, NotAsleepOnSetFlags
<1> QED
  BY <1>1, Invariant, PTL

-----------------------------------------------------------------------------
(* The kernel's groups are sets of events: each action is one of           *)
(* EventFlags under the mapping, or a stutter.  A flag promised to a       *)
(* readied task is wanted by no other, so nobody else can take it.         *)

RaisedMap == [g \in Groups |-> Raised(g)]
TakenMap  == [t \in Tasks |-> IF asked[t] = None THEN flagsRdy[t] ELSE {}]

LEMMA PromisedHold ==
  ASSUME FlagInv, NEW g \in Groups, NEW u \in Promised(g)
  PROVE  u \in Tasks /\ asked[u] = g /\ flagsRdy[u] # {} /\ flagsRdy[u] \subseteq Wanted[u]
<1> QED
  BY OsAssumption DEF FlagInv, TaskInv, Promised, OsAssumption, Groups

LEMMA OneConsumer ==
  ASSUME NEW t \in Tasks, NEW u \in Tasks, t # u
  PROVE  Wanted[t] \cap Wanted[u] = {}
<1> QED
  BY FlagAssumption DEF FlagAssumption

LEMMA StepPendTakes ==
  ASSUME NEW t \in Tasks, NEW g \in Groups, NEW w \in Waits[t], FlagInv, PendTakes(t, g, w)
  PROVE  Events!Take(t, g, Found(flags[g], w))
<1> DEFINE fs == Found(flags[g], w)
<1>1. asked[t] = None /\ fs # {} /\ fs \subseteq flags[g] /\ fs \subseteq Wanted[t]
  BY FoundBounds, WaitsWanted DEF PendTakes, Calls
<1>2. flagsRdy' = [flagsRdy EXCEPT ![t] = fs] /\ flags' = [flags EXCEPT ![g] = @ \ fs]
  BY DEF PendTakes
<1>3. asked' = asked /\ k' = k
  BY DEF PendTakes
<1> HIDE DEF fs
<1>4. ASSUME NEW h \in Groups PROVE Raised(h)' = IF h = g THEN Raised(g) \ fs ELSE Raised(h)
  <2>1. Promised(h)' = Promised(h)
    BY <1>3 DEF Promised
  <2>2. \A u \in Promised(h) : flagsRdy'[u] = flagsRdy[u] /\ flagsRdy[u] \cap fs = {}
    <3> TAKE u \in Promised(h)
    <3>1. u \in Tasks /\ asked[u] = h /\ flagsRdy[u] \subseteq Wanted[u]
      BY PromisedHold
    <3>2. u # t
      BY <1>1, <3>1, OsAssumption DEF OsAssumption, Groups
    <3> QED
      BY <1>1, <1>2, <3>1, <3>2, OneConsumer DEF FlagInv, FlagTypes
  <2>3. flags'[h] = IF h = g THEN flags[g] \ fs ELSE flags[h]
    BY <1>2 DEF FlagInv, FlagTypes
  <2> QED
    BY <2>1, <2>2, <2>3 DEF Raised
<1>5. RaisedMap' = [RaisedMap EXCEPT ![g] = @ \ fs]
  BY <1>4 DEF RaisedMap
<1>6. TakenMap' = [TakenMap EXCEPT ![t] = fs]
  BY <1>1, <1>2, <1>3 DEF TakenMap, FlagInv, FlagTypes
<1>7. fs \subseteq RaisedMap[g] \cap Wanted[t] /\ gone' = gone
  BY <1>1 DEF RaisedMap, Raised, PendTakes
<1> QED
  BY <1>1, <1>5, <1>6, <1>7 DEF Events!Take, RaisedMap, TakenMap, fs

LEMMA StepPendBlocks ==
  ASSUME NEW t \in Tasks, NEW g \in Groups, NEW w \in Waits[t], NEW timed \in BOOLEAN,
         FlagInv, FlagInv', PendBlocks(t, g, w, timed)
  PROVE  Events!Ask(t)
<1>1. k.cur = t /\ g # None /\ asked[t] = None
  BY OsAssumption DEF PendBlocks, Calls, Runs, OsAssumption, Groups
<1>2. \A u \in Tasks \ {t} : k'.task[u] = k.task[u] /\ asked'[u] = asked[u]
                              /\ flagsRdy'[u] = flagsRdy[u]
  <2>1. k'.task = [k.task EXCEPT ![t] = Blocking(@, g, timed)]
    BY <1>1, PendTask DEF PendBlocks, FlagInv, FlagTypes, Groups
  <2> QED
    BY <2>1 DEF PendBlocks, FlagInv, FlagTypes, Shape
<1>3. asked'[t] = g /\ flagsRdy'[t] = {}
  BY DEF PendBlocks, FlagInv, FlagTypes
<1>4. ASSUME NEW h \in Groups PROVE Raised(h)' = Raised(h)
  <2>1. t \notin Promised(h)
    BY <1>1, OsAssumption DEF Promised, OsAssumption, Groups
  <2>2. UNION {flagsRdy'[u] : u \in Promised(h)'} = UNION {flagsRdy[u] : u \in Promised(h)}
    BY <1>2, <1>3, <2>1 DEF Promised
  <2> QED
    BY <2>2 DEF Raised, PendBlocks
<1>5. RaisedMap' = RaisedMap
  BY <1>4 DEF RaisedMap
<1>6. TakenMap' = [TakenMap EXCEPT ![t] = {}]
  BY <1>1, <1>2, <1>3 DEF TakenMap
<1> QED
  BY <1>5, <1>6 DEF Events!Ask, RaisedMap, TakenMap, PendBlocks

LEMMA StepPendReturns ==
  ASSUME NEW t \in Tasks, FlagInv, PendReturns(t)
  PROVE  \/ \E g \in Groups, fs \in SUBSET Flags : Events!Take(t, g, fs)
         \/ UNCHANGED Events!vars
<1> DEFINE g == asked[t]
           fs == flagsRdy[t]
<1>1. g \in Groups /\ g # None /\ fs \in SUBSET Flags
  BY DEF PendReturns, FlagInv, FlagTypes
<1>2. asked' = [asked EXCEPT ![t] = None] /\ k' = k /\ flagsRdy' = flagsRdy /\ gone' = gone
  BY DEF PendReturns
<1>3. k.task[t].state \notin Blocked
  BY DEF PendReturns, Runs, Blocked
<1>4. TakenMap' = [TakenMap EXCEPT ![t] = fs]
  BY <1>2 DEF TakenMap, FlagInv, FlagTypes
<1>5. ASSUME NEW h \in Groups
      PROVE  /\ \A u \in Promised(h)' : u \in Promised(h) /\ u # t
             /\ \A u \in Promised(h) : u \in Promised(h)' \/ u = t
  BY <1>2, OsAssumption DEF Promised, FlagInv, FlagTypes, OsAssumption, Groups
<1>6. CASE k.task[t].status = "ok"
  <2>1. fs # {} /\ fs \subseteq Wanted[t]
    BY <1>1, <1>3, <1>6 DEF FlagInv, TaskInv
  <2>2. t \in Promised(g) /\ \A h \in Groups : t \in Promised(h) => h = g
    BY <1>3, <1>6 DEF Promised
  <2>3. flags' = [flags EXCEPT ![g] = @ \ fs]
    BY <1>6 DEF PendReturns
  <2>4. ASSUME NEW h \in Groups PROVE Raised(h)' = IF h = g THEN Raised(g) \ fs ELSE Raised(h)
    <3>1. \A u \in Promised(h) : u # t => flagsRdy[u] \cap fs = {}
      BY <1>1, <2>1, PromisedHold, OneConsumer
    <3>2. flags'[h] = IF h = g THEN flags[g] \ fs ELSE flags[h]
      BY <2>3 DEF FlagInv, FlagTypes
    <3>3. Raised(h)' = flags'[h] \cup UNION {flagsRdy[u] : u \in Promised(h)'}
      BY <1>2 DEF Raised
    <3>4. CASE h = g
      <4>1. \A f : (\E u \in Promised(h)' : f \in flagsRdy[u]) <=>
                   (\E u \in Promised(h) : f \in flagsRdy[u]) /\ f \notin fs
        BY <1>5, <2>2, <3>1, <3>4
      <4>2. flags'[h] = flags[h] \ fs
        BY <3>2, <3>4
      <4>3. Raised(h)' = Raised(h) \ fs
        BY <3>3, <4>1, <4>2 DEF Raised
      <4> QED
        BY <3>4, <4>3
    <3>5. CASE h # g
      <4>1. UNION {flagsRdy[u] : u \in Promised(h)'} =
              UNION {flagsRdy[u] : u \in Promised(h)}
        BY <1>5, <2>2, <3>5
      <4> QED
        BY <3>2, <3>3, <3>5, <4>1 DEF Raised
    <3> QED
      BY <3>4, <3>5
  <2>5. RaisedMap' = [RaisedMap EXCEPT ![g] = @ \ fs]
    BY <2>4 DEF RaisedMap
  <2>6. fs \subseteq RaisedMap[g] \cap Wanted[t]
    BY <1>1, <2>1, <2>2 DEF RaisedMap, Raised
  <2>7. Events!Take(t, g, fs)
    <3> HIDE DEF g, fs
    <3> QED
      BY <1>2, <1>4, <2>1, <2>5, <2>6 DEF Events!Take, RaisedMap, TakenMap
  <2>8. PICK h \in Groups, es \in SUBSET Flags : h = g /\ es = fs
    BY <1>1
  <2>9. Events!Take(t, h, es)
    BY <2>7, <2>8 DEF Events!Take
  <2> QED
    BY <2>9
<1>7. CASE k.task[t].status # "ok"
  <2>1. fs = {} /\ \A h \in Groups : t \notin Promised(h)
    BY <1>1, <1>3, <1>7 DEF FlagInv, TaskInv, Promised
  <2>2. TakenMap' = TakenMap
    BY <1>1, <1>4, <2>1 DEF TakenMap
  <2>3. flags' = flags
    BY <1>7 DEF PendReturns
  <2>4. \A h \in Groups : Raised(h)' = Raised(h)
    BY <1>2, <1>5, <2>1, <2>3 DEF Raised
  <2>5. RaisedMap' = RaisedMap
    BY <2>4 DEF RaisedMap
  <2> QED
    BY <1>2, <2>2, <2>5 DEF Events!vars, RaisedMap, TakenMap
<1> QED
  BY <1>6, <1>7

LEMMA StepPost ==
  ASSUME NEW g \in Groups, NEW fs \in Masks, NEW sched \in BOOLEAN,
         FlagInv, FlagInv', Post(g, fs, sched)
  PROVE  Events!Raise(g, fs)
<1> DEFINE now == flags[g] \cup fs
           S == Satisfied(g, now)
<1>1. /\ flags' = [flags EXCEPT ![g] = now] /\ asked' = asked /\ gone' = gone
      /\ wait' = wait /\ g \notin gone
      /\ flagsRdy' = [u \in Tasks |-> IF u \in S THEN Found(now, wait[u]) ELSE flagsRdy[u]]
  BY DEF Post
<1>2. \A u \in S : /\ u \in Tasks /\ asked[u] = g /\ k.task[u].state \in Blocked
                   /\ wait[u] \in Waits[u]
  BY OsAssumption DEF Satisfied, FlagInv, TaskInv, OsAssumption, Groups
<1>3. ASSUME NEW u \in Tasks
      PROVE  IF u \in S THEN k'.task[u].state \notin Blocked /\ k'.task[u].status = "ok"
             ELSE k'.task[u] = k.task[u]
  <2>1. k.task[u] \in TCBs
    BY DEF FlagInv, FlagTypes, Shape
  <2>2. k'.task = [v \in Tasks |-> IF v \in S THEN Readied(k.task[v], "ok") ELSE k.task[v]]
    BY PostTask
  <2> QED
    BY <2>1, <2>2, ReadiedTCB DEF Statuses
<1>4. \A u \in S : Found(now, wait[u]) \subseteq now
  BY <1>2, FoundBounds
<1> HIDE DEF now, S
<1>5. ASSUME NEW h \in Groups
      PROVE  Promised(h)' = IF h = g THEN Promised(h) \cup S ELSE Promised(h)
  <2>1. ASSUME NEW u \in Tasks
        PROVE  u \in Promised(h)' <=> u \in Promised(h) \/ (h = g /\ u \in S)
    BY <1>1, <1>2, <1>3 DEF Promised
  <2> QED
    BY <1>2, <2>1 DEF Promised
<1>6. \A h \in Groups : \A u \in Promised(h) : u \in Tasks \ S
  BY <1>2 DEF Promised
<1>7. ASSUME NEW h \in Groups PROVE Raised(h)' = IF h = g THEN Raised(g) \cup fs ELSE Raised(h)
  <2>1. \A u \in Promised(h) : flagsRdy'[u] = flagsRdy[u]
    BY <1>1, <1>6
  <2>2. \A u \in S : flagsRdy'[u] \subseteq now
    BY <1>1, <1>2, <1>4
  <2>3. CASE h = g
    <3>1. flags'[g] = now /\ now = flags[g] \cup fs
      BY <1>1 DEF now, FlagInv, FlagTypes
    <3>2. Promised(g)' = Promised(g) \cup S
      BY <1>5
    <3> QED
      BY <2>1, <2>2, <2>3, <3>1, <3>2 DEF Raised
  <2>4. CASE h # g
    <3>1. flags'[h] = flags[h] /\ Promised(h)' = Promised(h)
      BY <1>1, <1>5, <2>4 DEF FlagInv, FlagTypes
    <3> QED
      BY <2>1, <2>4, <3>1 DEF Raised
  <2> QED
    BY <2>3, <2>4
<1>8. RaisedMap' = [RaisedMap EXCEPT ![g] = @ \cup fs]
  BY <1>7 DEF RaisedMap
<1>9. TakenMap' = TakenMap
  <2>1. \A u \in Tasks : asked[u] = None => u \notin S
    BY <1>2, OsAssumption DEF OsAssumption, Groups
  <2> QED
    BY <1>1, <2>1 DEF TakenMap
<1> QED
  BY <1>1, <1>8, <1>9 DEF Events!Raise, RaisedMap, TakenMap

(* A step that ends pends without giving flags changes no promise.         *)
LEMMA PromisesKept ==
  ASSUME NEW h \in Groups, FlagInv, asked' = asked, flagsRdy' = flagsRdy,
         \A u \in Tasks :
           \/ k'.task[u] = k.task[u]
           \/ k.task[u].state \in Blocked /\ k'.task[u].status # "ok"
  PROVE  /\ Promised(h)' = Promised(h)
         /\ UNION {flagsRdy'[u] : u \in Promised(h)'} = UNION {flagsRdy[u] : u \in Promised(h)}
<1>1. \A u \in Tasks : u \in Promised(h)' <=> u \in Promised(h)
  BY DEF Promised
<1> QED
  BY <1>1 DEF Promised

LEMMA StepFlagDel ==
  ASSUME NEW t \in Tasks, NEW g \in Groups, FlagInv, FlagInv', FlagDel(t, g)
  PROVE  \E fs \in SUBSET Flags : Events!End(g, fs)
<1> DEFINE fs == Raised(g) \ Raised(g)'
<1>1. flags' = [flags EXCEPT ![g] = {}] /\ asked' = asked /\ flagsRdy' = flagsRdy
      /\ gone' = gone \cup {g}
  BY DEF FlagDel
<1>2. ASSUME NEW u \in Tasks
      PROVE  \/ k'.task[u] = k.task[u]
             \/ k.task[u].state \in Blocked /\ k'.task[u].status # "ok"
  <2>1. k.task[u] \in TCBs
    BY DEF FlagInv, FlagTypes, Shape
  <2>2. k.task[u].on = g => k.task[u].state \in Blocked
    BY OsAssumption DEF FlagInv, TaskInv, OsAssumption, Groups
  <2> QED
    BY <2>1, <2>2, DelTask, ReadiedTCB DEF Statuses
<1>3. \A h \in Groups :
        UNION {flagsRdy'[u] : u \in Promised(h)'} = UNION {flagsRdy[u] : u \in Promised(h)}
  BY <1>1, <1>2, PromisesKept
<1>4. \A h \in Groups : flags'[h] = IF h = g THEN {} ELSE flags[h]
  BY <1>1 DEF FlagInv, FlagTypes
<1>5. \A h \in Groups : Raised(h)' = IF h = g THEN Raised(g) \ fs ELSE Raised(h)
  BY <1>3, <1>4 DEF Raised
<1>6. fs \in SUBSET Flags
  <2>1. flags[g] \subseteq Flags /\ \A u \in Tasks : flagsRdy[u] \subseteq Flags
    BY DEF FlagInv, FlagTypes
  <2>2. \A u \in Promised(g) : u \in Tasks
    BY DEF Promised
  <2> QED
    BY <2>1, <2>2 DEF Raised
<1> HIDE DEF fs
<1>7. RaisedMap' = [RaisedMap EXCEPT ![g] = @ \ fs]
  BY <1>5 DEF RaisedMap
<1>8. TakenMap' = TakenMap
  BY <1>1 DEF TakenMap
<1>9. Events!End(g, fs)
  BY <1>1, <1>7, <1>8 DEF Events!End, RaisedMap, TakenMap
<1> QED
  <2> WITNESS fs \in SUBSET Flags
  <2> QED
    BY <1>9

LEMMA StepTimer ==
  ASSUME NEW t \in Tasks, FlagInv, TimerCallback(t)
  PROVE  UNCHANGED Events!vars
<1>1. asked' = asked /\ flagsRdy' = flagsRdy /\ flags' = flags /\ gone' = gone
  BY DEF TimerCallback
<1>2. \A u \in Tasks :
        \/ k'.task[u] = k.task[u]
        \/ k.task[u].state \in Blocked /\ k'.task[u].status # "ok"
  BY TimerTask
<1>3. \A h \in Groups : Raised(h)' = Raised(h)
  BY <1>1, <1>2, PromisesKept DEF Raised
<1>4. RaisedMap' = RaisedMap
  BY <1>3 DEF RaisedMap
<1>5. TakenMap' = TakenMap
  BY <1>1 DEF TakenMap
<1> QED
  BY <1>1, <1>4, <1>5 DEF Events!vars, RaisedMap, TakenMap

(* What a task is told of an event group is what happened to it.           *)
THEOREM FlagsAreEvents == Spec => IsEventFlags
<1>1. Init => Events!Init
  <2> SUFFICES ASSUME Init PROVE Events!Init
    OBVIOUS
  <2>1. FlagInv
    BY InvInit
  <2>2. \A h \in Groups : Promised(h) = {}
    BY OsAssumption DEF Init, Promised, OsAssumption, Groups
  <2>3. RaisedMap = [h \in Groups |-> {}]
    BY <2>2 DEF RaisedMap, Raised, Init
  <2>4. TakenMap = [u \in Tasks |-> {}]
    BY DEF TakenMap, Init
  <2> QED
    BY <2>3, <2>4 DEF Events!Init, RaisedMap, TakenMap, Init
<1>2. FlagInv /\ FlagInv' /\ [Next]_vars => [Events!Next]_(Events!vars)
  <2> SUFFICES ASSUME FlagInv, FlagInv', [Next]_vars
               PROVE  Events!Next \/ UNCHANGED Events!vars
    OBVIOUS
  <2>1. CASE Posts
    <3>1. PICK g \in Groups, fs \in Masks, sched \in BOOLEAN : Post(g, fs, sched)
      BY <2>1 DEF Posts, IsrPosts, TaskPosts
    <3>2. Events!Raise(g, fs) /\ fs \in SUBSET Flags
      BY <3>1, StepPost, FlagAssumption DEF FlagAssumption
    <3> QED
      BY <3>2 DEF Events!Next
  <2>2. CASE \E t \in Tasks : AnyPends(t)
    <3>0. PICK t \in Tasks : AnyPends(t)
      BY <2>2
    <3>1. PICK g \in Groups, w \in Waits[t] :
            PendTakes(t, g, w) \/ \E timed \in BOOLEAN : PendBlocks(t, g, w, timed)
      BY <3>0 DEF AnyPends
    <3>2. CASE PendTakes(t, g, w)
      <4>1. Events!Take(t, g, Found(flags[g], w))
        BY <3>2, StepPendTakes
      <4>2. PICK fs \in SUBSET Flags : fs = Found(flags[g], w)
        BY FoundBounds, WaitsWanted DEF FlagInv, FlagTypes
      <4>3. Events!Take(t, g, fs)
        BY <4>1, <4>2 DEF Events!Take
      <4> QED
        BY <4>3 DEF Events!Next
    <3>3. CASE \E timed \in BOOLEAN : PendBlocks(t, g, w, timed)
      <4>1. Events!Ask(t)
        BY <3>3, StepPendBlocks
      <4> QED
        BY <4>1 DEF Events!Next
    <3> QED
      BY <3>1, <3>2, <3>3
  <2>3. CASE \E t \in Tasks : PendReturns(t)
    BY <2>3, StepPendReturns DEF Events!Next
  <2>4. CASE \E t \in Tasks : TimerCallback(t)
    BY <2>4, StepTimer
  <2>5. CASE \E t \in Tasks, g \in Groups : FlagDel(t, g)
    BY <2>5, StepFlagDel DEF Events!Next
  <2>6. CASE UNCHANGED vars
    <3>1. \A h \in Groups : Raised(h)' = Raised(h)
      BY <2>6 DEF vars, Raised, Promised
    <3> QED
      BY <2>6, <3>1 DEF vars, Events!vars
  <2> QED
    BY <2>1, <2>2, <2>3, <2>4, <2>5, <2>6 DEF Next
<1> QED
  BY <1>1, <1>2, Invariant, PTL DEF Spec, IsEventFlags, Events!Spec
=============================================================================
