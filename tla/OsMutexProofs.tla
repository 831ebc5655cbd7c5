---------------------------- MODULE OsMutexProofs ----------------------------
(***************************************************************************)
(* For every set of tasks, mutexes and priorities, every bound and every   *)
(* order of calls and interrupts: the lists agree with the tasks, a mutex  *)
(* has one live owner, a pend is told what happened to it, and a task runs *)
(* at the priority that those who wait for its mutexes lend it.            *)
(***************************************************************************)
EXTENDS OsMutex, OsCoreProofs

-----------------------------------------------------------------------------
(* The invariant.  What holds in every state, a faulty one included:       *)

Faults == {"orphan", "drag", "halt"}

MutexTypes(s) ==
  /\ DOMAIN s = CoreFields \cup {"owner", "nest", "group", "fault"}
  /\ s.owner \in [Mutexes -> Tasks \cup {None}]
  /\ s.nest \in [Mutexes -> 0..MaxNest]
  /\ s.fault \subseteq Faults

CallTypes ==
  /\ asked \in [Tasks -> Mutexes \cup {None}] /\ gone \subseteq Mutexes
  /\ changes \in 0..MaxChanges

(* What is known of the owners and of the tasks inside a pend, until the   *)
(* kernel makes a mistake.  The group of a task lists what it owns; a task *)
(* that waits does so for a mutex that somebody else owns; who is not in   *)
(* a pend list is on nothing.                                              *)

Groups(s) ==
  /\ s.group = [t \in Tasks |-> s.group[t]]
  /\ \A t \in Tasks : Lists(s.group[t], {m \in Mutexes : s.owner[m] = t})

Nested(s) == \A m \in Mutexes : s.nest[m] = 0 <=> s.owner[m] = None

Alive(s) ==
  \A m \in Mutexes, t \in Tasks : s.owner[m] = t => s.task[t].state # "del"

Waited(s, T) ==
  \A t \in T : s.task[t].state \in Blocked =>
    s.task[t].on # None /\ s.owner[s.task[t].on] \in Tasks \ {t}

Outside(s, T) ==
  \A t \in Tasks :
    /\ s.task[t].state \notin Blocked => s.task[t].on = None
    /\ t \notin T => s.task[t].state \in Blocked /\ s.task[t].on = None

(* A task in its pend, with a the mutex it asked for: it waits for it, or  *)
(* it has been readied and told whether it owns it.                        *)
Asking(s, t, a, dead) ==
  /\ s.task[t].state \in Blocked => a = s.task[t].on /\ a \notin dead
  /\ s.task[t].state \in {"dly", "del"} => a = None
  /\ a # None /\ a \notin dead /\ s.task[t].state = "rdy" =>
       (s.task[t].status = "ok" <=> s.owner[a] = t)

Healthy(s) == Groups(s) /\ Nested(s) /\ Alive(s) /\ Waited(s, Tasks) /\ Outside(s, Tasks)

Running(s) == s.cur # None => s.task[s.cur].state = "rdy"

(* Between two calls, and before the scheduler has run.                    *)
Fit(s, a, dead) ==
  /\ Sound(s, Tasks) /\ MutexTypes(s)
  /\ s.fault = {} => Healthy(s) /\ \A t \in Tasks : Asking(s, t, a[t], dead)

MutexInv == Fit(k, asked, gone) /\ Running(k) /\ CallTypes

-----------------------------------------------------------------------------
(* OS_TaskChangePrio: along the walk only priorities and the places in the *)
(* lists that follow from them change.  T is Tasks, or Tasks without the   *)
(* one that OSTaskDel has taken off its lists.                             *)

Walkable(s, T) ==
  Sound(s, T) /\ MutexTypes(s) /\ Groups(s) /\ Waited(s, T) /\ Outside(s, T)

SameCalls(s, r) ==
  \A u \in Tasks : /\ r.task[u].state = s.task[u].state /\ r.task[u].on = s.task[u].on
                   /\ r.task[u].status = s.task[u].status

Alike(s, r) ==
  r.owner = s.owner /\ r.nest = s.nest /\ r.group = s.group /\ SameCalls(s, r)

Moves(s, r, T) ==
  /\ Sound(r, T) /\ MutexTypes(r) /\ Alike(s, r)
  /\ r.cur = s.cur /\ r.prioCur = s.prioCur /\ s.fault \subseteq r.fault

LEMMA MovesSelf ==
  ASSUME NEW s, NEW T, Sound(s, T), MutexTypes(s)
  PROVE  Moves(s, s, T)
BY DEF Moves, Alike, SameCalls

LEMMA MovesTrans ==
  ASSUME NEW s, NEW r, NEW q, NEW T, Moves(s, r, T), Moves(r, q, T)
  PROVE  Moves(s, q, T)
BY DEF Moves, Alike, SameCalls

LEMMA MovesWalkable ==
  ASSUME NEW s, NEW r, NEW T \in SUBSET Tasks, Walkable(s, T), Moves(s, r, T)
  PROVE  Walkable(r, T)
<1>1. Groups(r)
  BY DEF Walkable, Moves, Alike, Groups
<1>2. Waited(r, T)
  BY DEF Walkable, Moves, Alike, SameCalls, Waited
<1>3. Outside(r, T)
  BY DEF Walkable, Moves, Alike, SameCalls, Outside
<1> QED
  BY <1>1, <1>2, <1>3 DEF Walkable, Moves

(* A change of one priority, and of some lists.                            *)
LEMMA OneMoves ==
  ASSUME NEW s, NEW r, NEW T, Sound(s, T), MutexTypes(s), Sound(r, T),
         NEW t \in Tasks, NEW p \in Prios,
         Changes(s, r, {"task", "list", "rdy", "fault"}),
         r.task = [s.task EXCEPT ![t].prio = p],
         s.fault \subseteq r.fault, r.fault \subseteq Faults
  PROVE  Moves(s, r, T)
<1>1. s.task \in [Tasks -> TCBs]
  BY DEF Sound, Kernel
<1>2. SameCalls(s, r)
  BY <1>1 DEF SameCalls, TCBs
<1>3. /\ DOMAIN r = DOMAIN s /\ r.owner = s.owner /\ r.nest = s.nest /\ r.group = s.group
      /\ r.cur = s.cur /\ r.prioCur = s.prioCur
  BY DEF Changes, MutexTypes, CoreFields
<1> QED
  BY <1>2, <1>3 DEF Moves, Alike, MutexTypes

LEMMA PrioOnlyMoves ==
  ASSUME NEW s, NEW T \in SUBSET Tasks, Sound(s, T), MutexTypes(s),
         NEW t \in Tasks, NEW p \in Prios,
         t \notin T \/ s.task[t].state \notin Blocked \cup {"rdy"}
  PROVE  Moves(s, [s EXCEPT !.task[t].prio = p], T)
<1> DEFINE r == [s EXCEPT !.task[t].prio = p]
           f == [s.task EXCEPT ![t].prio = p]
<1>1. Changes(s, r, {"task"}) /\ r.task = f
  BY DEF Changes, Sound, Kernel, CoreFields
<1> HIDE DEF r
<1>2. /\ f \in [Tasks -> TCBs] /\ f[t].state = s.task[t].state
      /\ \A u \in Tasks \ {t} : f[u] = s.task[u]
  BY DEF Sound, Kernel, TCBs
<1>3. \A x : ReadyAt(f, T, x) = ReadyAt(s.task, T, x)
  BY <1>2 DEF ReadyAt
<1>4. \A x : WaitingAt(f, T, x) = WaitingAt(s.task, T, x)
  <2>1. f[t].on = s.task[t].on
    BY DEF Sound, Kernel, TCBs
  <2> QED
    BY <1>2, <2>1 DEF WaitingAt
<1> HIDE DEF f
<1>5. r.rdy = s.rdy /\ r.list = s.list /\ r.cur = s.cur /\ r.prioCur = s.prioCur
      /\ r.fault = s.fault
  BY <1>1 DEF Changes, Sound, Kernel, CoreFields, MutexTypes
<1>6. Sound(r, T)
  BY <1>1, <1>2, <1>3, <1>4, <1>5 DEF Sound, Kernel, Placed, Changes
<1>7. Changes(s, r, {"task", "list", "rdy", "fault"}) /\ r.fault \subseteq Faults
  BY <1>1, <1>5 DEF Changes, MutexTypes
<1> QED
  BY <1>1, <1>5, <1>6, <1>7, OneMoves DEF r, f

LEMMA FaultMoves ==
  ASSUME NEW s, NEW T, Sound(s, T), MutexTypes(s), NEW F, F \subseteq Faults
  PROVE  Moves(s, [s EXCEPT !.fault = @ \cup F], T)
<1> DEFINE r == [s EXCEPT !.fault = @ \cup F]
<1>1. DOMAIN r = DOMAIN s /\ r.fault = s.fault \cup F
      /\ \A f \in DOMAIN s \ {"fault"} : r[f] = s[f]
  BY DEF MutexTypes
<1> HIDE DEF r
<1>2. /\ r.task = s.task /\ r.owner = s.owner /\ r.nest = s.nest /\ r.group = s.group
      /\ r.cur = s.cur /\ r.prioCur = s.prioCur /\ \A f \in CoreFields : r[f] = s[f]
  BY <1>1 DEF MutexTypes, CoreFields
<1>3. Sound(r, T)
  BY <1>1, <1>2, SoundAgree
<1> QED
  BY <1>1, <1>2, <1>3 DEF Moves, Alike, MutexTypes, SameCalls, r

(* The priorities that are handed on.                                      *)
LEMMA UninheritedPrio ==
  ASSUME NEW s, NEW T \in SUBSET Tasks, Sound(s, T), NEW t \in Tasks,
         NEW M \in SUBSET Mutexes, Lists(s.group[t], M)
  PROVE  MutexGrpPrioFindHighest(s, t) \in Prios /\ Uninherited(s, t) \in Prios
<1> DEFINE heads == {s.task[Head(s.list[m])].prio :
                       m \in {n \in ToSet(s.group[t]) : s.list[n] # <<>>}}
           all == heads \cup {PrioMax - 1}
<1>1. s.task \in [Tasks -> TCBs] /\ Prios \subseteq Nat /\ PrioMax - 1 \in Prios
  BY PrioType DEF Sound, Kernel, Prios
<1>2. ASSUME NEW m \in ToSet(s.group[t]), s.list[m] # <<>>
      PROVE  s.task[Head(s.list[m])].prio \in Prios
  <2>1. m \in Objects
    BY ListsNone DEF ToSet, Mutexes
  <2>2. Head(s.list[m]) \in WaitingAt(s.task, T, m)
    BY <1>2, <2>1, ListsNone DEF Sound, Placed
  <2> QED
    BY <1>1, <2>2 DEF WaitingAt, TCBs
<1>3. all \subseteq Prios
  BY <1>1, <1>2
<1>4. MutexGrpPrioFindHighest(s, t) = CHOOSE p \in all : \A q \in heads : p <= q
  BY DEF MutexGrpPrioFindHighest
<1> HIDE DEF heads
<1>5. PICK p \in all : \A q \in all : p <= q
  BY <1>1, <1>3, Least
<1>6. MutexGrpPrioFindHighest(s, t) \in all
  BY <1>4, <1>5
<1>7. s.task[t].base \in Prios
  BY <1>1 DEF TCBs
<1> QED
  BY <1>3, <1>6, <1>7 DEF Uninherited, Higher

LEMMA WalkablePrio ==
  ASSUME NEW s, NEW T \in SUBSET Tasks, Walkable(s, T), NEW t \in Tasks
  PROVE  MutexGrpPrioFindHighest(s, t) \in Prios /\ Uninherited(s, t) \in Prios
<1>1. /\ Lists(s.group[t], {m \in Mutexes : s.owner[m] = t})
      /\ {m \in Mutexes : s.owner[m] = t} \in SUBSET Mutexes
  BY DEF Walkable, Groups
<1> QED
  BY <1>1, UninheritedPrio DEF Walkable

(* The walk from here: who is next, to have which priority.                *)
Walk(w, T) == w.task \in Tasks \cup {None} /\ w.prio \in Prios /\ Walkable(w.k, T)

LEMMA RoundMoves ==
  ASSUME NEW T \in SUBSET Tasks, NEW w, Walk(w, T), w.task # None
  PROVE  Walk(Round(w), T) /\ Moves(w.k, Round(w).k, T)
<1> DEFINE s == w.k
           t == w.task
           p == w.prio
           moved == [s EXCEPT !.task[t].prio = p]
           listed == PendListChangePrio(moved, t)
           o == s.owner[s.task[t].on]
           q == Round(w)
<1>0. /\ Sound(s, T) /\ MutexTypes(s) /\ Walkable(s, T) /\ t \in Tasks /\ p \in Prios
      /\ s.task \in [Tasks -> TCBs] /\ s.fault \subseteq Faults
  BY DEF Walk, Walkable, Sound, Kernel, MutexTypes
<1>1. \A r, x, y : Moves(s, r, T) /\ q = [k |-> r, task |-> x, prio |-> y]
                   /\ x \in Tasks \cup {None} /\ y \in Prios =>
                     Walk(Round(w), T) /\ Moves(w.k, Round(w).k, T)
  BY <1>0, MovesWalkable DEF Walk
<1>2. CASE s.task[t].state = "del"
  <2>1. q = [k |-> s, task |-> None, prio |-> p]
    BY <1>2 DEF Round, Blocked
  <2> HIDE DEF q
  <2> QED
    BY <1>0, <1>1, <2>1, MovesSelf
<1>3. CASE s.task[t].state = "dly"
  <2>1. q = [k |-> moved, task |-> None, prio |-> p]
    BY <1>3 DEF Round, Blocked
  <2>2. Moves(s, moved, T)
    BY <1>0, <1>3, PrioOnlyMoves DEF Blocked
  <2> HIDE DEF q, moved
  <2> QED
    BY <1>0, <1>1, <2>1, <2>2
<1>4. CASE s.task[t].state = "rdy"
  <2> DEFINE off == [RdyListRemove(s, t) EXCEPT !.task[t].prio = p]
             r == IF t = s.cur THEN RdyListInsertHead(off, t) ELSE RdyListInsertTail(off, t)
  <2>1. q = [k |-> r, task |-> None, prio |-> p]
    BY <1>4 DEF Round, Blocked
  <2>2. t \in T
    BY <1>0, <1>4 DEF Walkable, Outside, Blocked
  <2>3. Moved(s, RdyListInsertHead(off, t), T, t, p) /\ Moved(s, RdyListInsertTail(off, t), T, t, p)
    BY <1>0, <1>4, <2>2, RdyMoveSound
  <2>4. Moved(s, r, T, t, p)
    BY <2>3
  <2> HIDE DEF q, off, r
  <2>5. Changes(s, r, {"task", "list", "rdy", "fault"}) /\ r.fault = s.fault
    BY <1>0, <2>4 DEF Moved, Changes, MutexTypes
  <2>6. Moves(s, r, T)
    BY <1>0, <2>4, <2>5, OneMoves DEF Moved
  <2> QED
    BY <1>0, <1>1, <2>1, <2>6
<1>5. CASE s.task[t].state \in Blocked /\ s.task[t].on = None
  <2> DEFINE r == [moved EXCEPT !.fault = @ \cup {"halt"}]
  <2>1. q = [k |-> r, task |-> None, prio |-> p]
    BY <1>5 DEF Round, Blocked
  <2>2. t \notin T
    BY <1>0, <1>5 DEF Walkable, Waited
  <2>3. Moves(s, moved, T)
    BY <1>0, <1>5, <2>2, PrioOnlyMoves
  <2>4. Moves(moved, r, T)
    <3> HIDE DEF moved
    <3> QED
      BY <1>0, <2>3, FaultMoves DEF Faults, Moves
  <2> HIDE DEF q, moved, r
  <2> QED
    BY <1>0, <1>1, <2>1, <2>3, <2>4, MovesTrans
<1>6. CASE s.task[t].state \in Blocked /\ s.task[t].on # None
  <2> DEFINE F == IF listed.task[o].prio = p THEN {} ELSE {"drag"}
             dragged == [listed EXCEPT !.fault = @ \cup F]
  <2>1. t \in T /\ o \in Tasks
    BY <1>0, <1>6 DEF Walkable, Outside, Waited
  <2>2. /\ Sound(listed, T) /\ Changes(s, listed, {"task", "list"})
        /\ listed.task = [s.task EXCEPT ![t].prio = p]
    <3> HIDE DEF listed
    <3> QED
      BY <1>0, <1>6, <2>1, PendListChangePrioSound DEF listed
  <2>3. \/ q = [k |-> listed, task |-> None, prio |-> p]
        \/ q = [k |-> listed, task |-> o, prio |-> p]
        \/ q = [k |-> listed, task |-> o, prio |-> Uninherited(listed, o)]
        \/ q = [k |-> dragged, task |-> o, prio |-> p]
    BY <1>6, Zenon DEF Round, Blocked
  <2> HIDE DEF listed, q
  <2>4. Changes(s, listed, {"task", "list", "rdy", "fault"}) /\ listed.fault = s.fault
    BY <1>0, <2>2 DEF Changes, MutexTypes
  <2>5. Moves(s, listed, T)
    BY <1>0, <2>2, <2>4, OneMoves
  <2>6. Moves(s, dragged, T)
    <3>0. F \subseteq Faults
      BY DEF Faults
    <3> HIDE DEF F
    <3>1. Moves(listed, dragged, T)
      BY <2>5, <3>0, FaultMoves DEF Moves
    <3> HIDE DEF dragged
    <3> QED
      BY <2>5, <3>1, MovesTrans
  <2>7. Walkable(listed, T)
    BY <1>0, <2>5, MovesWalkable
  <2>8. Uninherited(listed, o) \in Prios
    BY <2>1, <2>7, WalkablePrio
  <2> HIDE DEF dragged, o
  <2> QED
    BY <1>0, <1>1, <2>1, <2>3, <2>5, <2>6, <2>8
<1>7. s.task[t].state \in States
  BY <1>0 DEF TCBs
<1> QED
  BY <1>2, <1>3, <1>4, <1>5, <1>6, <1>7 DEF States

(* Why a walk ends.  A round that raises a task goes on only to one that   *)
(* is still below: Above shrinks, and all that follows are such rounds.    *)
(* A round that lowers a task leaves less Room to go down.  One that does  *)
(* neither goes on to one that does.                                       *)
Above(f, p) == {x \in Tasks : p < f[x].prio}
Room(f) == {c \in Tasks \X Prios : f[c[1]].prio < c[2]}

Rank(f, t, p) ==
  IF p < f[t].prio THEN Cardinality(Above(f, p))
  ELSE 2 * Cardinality(Room(f)) + Cardinality(Tasks) + (IF f[t].prio = p THEN 1 ELSE 0)

LEMMA Sizes ==
  ASSUME NEW f, NEW p
  PROVE  /\ IsFiniteSet(Room(f)) /\ Cardinality(Room(f)) \in Nat
         /\ Cardinality(Room(f)) <= Cardinality(Tasks \X Prios)
         /\ Cardinality(Tasks \X Prios) \in Nat
         /\ IsFiniteSet(Above(f, p)) /\ Cardinality(Above(f, p)) \in Nat
         /\ Cardinality(Above(f, p)) <= Cardinality(Tasks)
         /\ Cardinality(Tasks) \in Nat \ {0}
<1>1. IsFiniteSet(Tasks) /\ Tasks # {} /\ PrioMax \in Nat
  BY OsAssumption DEF OsAssumption
<1>2. IsFiniteSet(Prios)
  BY <1>1, FS_Interval DEF Prios
<1>3. IsFiniteSet(Tasks \X Prios)
  BY <1>1, <1>2, FS_Product
<1>4. Room(f) \in SUBSET (Tasks \X Prios) /\ Above(f, p) \in SUBSET Tasks
  BY DEF Room, Above
<1>5. /\ IsFiniteSet(Room(f)) /\ Cardinality(Room(f)) <= Cardinality(Tasks \X Prios)
      /\ IsFiniteSet(Above(f, p)) /\ Cardinality(Above(f, p)) <= Cardinality(Tasks)
  BY <1>1, <1>3, <1>4, FS_Subset
<1>6. /\ Cardinality(Room(f)) \in Nat /\ Cardinality(Tasks \X Prios) \in Nat
      /\ Cardinality(Above(f, p)) \in Nat /\ Cardinality(Tasks) \in Nat
  BY <1>1, <1>3, <1>5, FS_CardinalityType
<1>7. Cardinality(Tasks) # 0
  BY <1>1, FS_EmptySet
<1> QED
  BY <1>5, <1>6, <1>7

LEMMA Smaller ==
  ASSUME NEW S, NEW R, IsFiniteSet(S), R \subseteq S, NEW x \in S, x \notin R
  PROVE  Cardinality(R) \in Nat /\ Cardinality(S) \in Nat /\ Cardinality(R) < Cardinality(S)
<1>1. R \in SUBSET S /\ R # S
  OBVIOUS
<1>2. IsFiniteSet(R) /\ Cardinality(R) <= Cardinality(S) /\ Cardinality(R) # Cardinality(S)
  BY <1>1, FS_Subset
<1>3. Cardinality(R) \in Nat /\ Cardinality(S) \in Nat
  BY <1>2, FS_CardinalityType
<1> QED
  BY <1>2, <1>3

LEMMA RankType ==
  ASSUME NEW f \in [Tasks -> TCBs], NEW t \in Tasks, NEW p \in Prios
  PROVE  Rank(f, t, p) \in 1..LongestWalk
<1> DEFINE A == Cardinality(Above(f, p))
           R == Cardinality(Room(f))
           C == Cardinality(Tasks)
           X == Cardinality(Tasks \X Prios)
<1>1. f[t].prio \in Nat /\ p \in Nat
  BY PrioType DEF TCBs, Prios
<1>2. /\ A \in Nat /\ R \in Nat /\ C \in Nat /\ C # 0 /\ X \in Nat /\ A <= C /\ R <= X
      /\ IsFiniteSet(Above(f, p))
  BY Sizes
<1>3. p < f[t].prio => 0 < A
  <2> SUFFICES ASSUME p < f[t].prio PROVE 0 < A
    OBVIOUS
  <2>1. t \in Above(f, p) /\ {} \subseteq Above(f, p)
    BY DEF Above
  <2> QED
    BY <1>2, <2>1, Smaller, FS_EmptySet
<1>4. Rank(f, t, p) = IF p < f[t].prio THEN A
                      ELSE 2 * R + C + (IF f[t].prio = p THEN 1 ELSE 0)
  BY DEF Rank
<1>5. LongestWalk = 2 * X + C + 1
  BY DEF LongestWalk
<1> HIDE DEF A, R, C, X
<1> QED
  BY <1>2, <1>3, <1>4, <1>5

(* The three ways a round goes on.                                         *)
GoesOn(f, t, p, o, q) ==
  \/ p < f[t].prio /\ q = p /\ p < f[o].prio
  \/ f[t].prio <= p /\ f[o].prio = f[t].prio /\ q # f[o].prio
  \/ f[t].prio <= p /\ f[o].prio # f[t].prio /\ q = p

LEMMA RankFalls ==
  ASSUME NEW f \in [Tasks -> TCBs], NEW t \in Tasks, NEW p \in Prios,
         NEW o \in Tasks, NEW q \in Prios, o # t, GoesOn(f, t, p, o, q)
  PROVE  Rank([f EXCEPT ![t].prio = p], o, q) < Rank(f, t, p)
<1> DEFINE g == [f EXCEPT ![t].prio = p]
<1>1. /\ g \in [Tasks -> TCBs] /\ g[t].prio = p /\ \A x \in Tasks \ {t} : g[x] = f[x]
      /\ \A x \in Tasks : f[x].prio \in Nat
      /\ p \in Nat /\ q \in Nat
  BY PrioType DEF TCBs, Prios
<1> HIDE DEF g
<1>2. g[o].prio = f[o].prio
  BY <1>1
<1>3. CASE p < f[t].prio
  <2>1. q = p /\ p < g[o].prio
    BY <1>1, <1>2, <1>3 DEF GoesOn
  <2>2. Above(g, p) \subseteq Above(f, p)
    BY <1>1, <1>3 DEF Above
  <2>3. t \in Above(f, p) /\ t \notin Above(g, p)
    BY <1>1, <1>3 DEF Above
  <2>4. Cardinality(Above(g, p)) < Cardinality(Above(f, p))
    BY <2>2, <2>3, Sizes, Smaller
  <2> QED
    BY <1>3, <2>1, <2>4 DEF Rank, g
<1>4. CASE f[t].prio <= p
  <2>0. ~(p < f[t].prio)
    BY <1>1, <1>4
  <2>1. q < g[o].prio => Rank(g, o, q) <= Cardinality(Tasks)
    BY Sizes DEF Rank
  <2>2. Rank(f, t, p) >= 2 * Cardinality(Room(f)) + Cardinality(Tasks)
    BY <2>0, Sizes DEF Rank
  <2>3. CASE f[t].prio < p
    <3>1. Room(g) \subseteq Room(f)
      <4> SUFFICES ASSUME NEW x \in Tasks, NEW y \in Prios, g[x].prio < y
                   PROVE  f[x].prio < y
        BY DEF Room
      <4>1. y \in Nat
        BY PrioType DEF Prios
      <4>2. CASE x = t
        BY <1>1, <2>3, <4>1, <4>2
      <4> QED
        BY <1>1, <4>2
    <3>2. <<t, p>> \in Room(f) /\ <<t, p>> \notin Room(g)
      BY <1>1, <2>3 DEF Room
    <3>3. /\ Cardinality(Room(g)) < Cardinality(Room(f))
          /\ Cardinality(Room(g)) \in Nat /\ Cardinality(Room(f)) \in Nat
      BY <3>1, <3>2, Sizes, Smaller
    <3>4. ~(q < g[o].prio) => Rank(g, o, q) <= 2 * Cardinality(Room(g)) + Cardinality(Tasks) + 1
      BY <3>3, Sizes DEF Rank
    <3>5. Rank(g, o, q) \in Nat /\ Rank(f, t, p) \in Nat /\ Cardinality(Tasks) \in Nat
      BY <1>1, RankType, Sizes
    <3> QED
      BY <2>1, <2>2, <3>3, <3>4, <3>5 DEF g
  <2>4. CASE f[t].prio = p
    <3>1. g[o].prio # q
      BY <1>2, <2>0, <2>4 DEF GoesOn
    <3>2. Room(g) = Room(f)
      <4>1. \A x \in Tasks : g[x].prio = f[x].prio
        BY <1>1, <2>4
      <4> QED
        BY <4>1 DEF Room
    <3>3. Rank(f, t, p) = 2 * Cardinality(Room(f)) + Cardinality(Tasks) + 1
      BY <2>0, <2>4 DEF Rank
    <3>4. ~(q < g[o].prio) => Rank(g, o, q) = 2 * Cardinality(Room(f)) + Cardinality(Tasks)
      BY <3>1, <3>2, Sizes DEF Rank
    <3>5. Rank(g, o, q) \in Nat
      BY <1>1, RankType
    <3> QED
      BY <2>1, <3>3, <3>4, <3>5, Sizes DEF g
  <2> QED
    BY <1>1, <1>4, <2>3, <2>4
<1> QED
  BY <1>1, <1>3, <1>4

(* The rounds that a walk may still have before it.                        *)
ToGo(w) == IF w.task = None THEN 0 ELSE Rank(w.k.task, w.task, w.prio)

LEMMA RoundGoesOn ==
  ASSUME NEW T \in SUBSET Tasks, NEW w, Walk(w, T), w.task # None, Round(w).task # None
  PROVE  /\ w.task \in Tasks /\ Round(w).task \in Tasks \ {w.task}
         /\ w.k.task \in [Tasks -> TCBs]
         /\ Round(w).k.task = [w.k.task EXCEPT ![w.task].prio = w.prio]
         /\ GoesOn(w.k.task, w.task, w.prio, Round(w).task, Round(w).prio)
<1> DEFINE s == w.k
           t == w.task
           p == w.prio
           moved == [s EXCEPT !.task[t].prio = p]
           listed == PendListChangePrio(moved, t)
           o == s.owner[s.task[t].on]
           q == Round(w)
<1>0. /\ Sound(s, T) /\ MutexTypes(s) /\ Walkable(s, T) /\ t \in Tasks /\ p \in Prios
      /\ s.task \in [Tasks -> TCBs] /\ q.task # None
  BY DEF Walk, Walkable, Sound, Kernel
<1>1. s.task[t].state \in Blocked /\ s.task[t].on # None
  <2>1. s.task[t].state \in States
    BY <1>0 DEF TCBs
  <2>2. s.task[t].state \in {"del", "dly", "rdy"} => q.task = None
    BY Zenon DEF Round, Blocked
  <2>3. s.task[t].state \in Blocked /\ s.task[t].on = None => q.task = None
    BY Zenon DEF Round, Blocked
  <2> QED
    BY <1>0, <2>1, <2>2, <2>3 DEF States
<1>2. t \in T /\ o \in Tasks \ {t}
  BY <1>0, <1>1 DEF Walkable, Outside, Waited
<1>3. /\ Sound(listed, T) /\ Changes(s, listed, {"task", "list"})
      /\ listed.task = [s.task EXCEPT ![t].prio = p]
  <2> HIDE DEF listed
  <2> QED
    BY <1>0, <1>1, <1>2, PendListChangePrioSound DEF listed
<1> DEFINE F == IF listed.task[o].prio = p THEN {} ELSE {"drag"}
           dragged == [listed EXCEPT !.fault = @ \cup F]
           old == s.task[t].prio
           ofOwner == listed.task[o].prio
<1>4. q = IF old > p
            THEN IF ofOwner <= p THEN [k |-> listed, task |-> None, prio |-> p]
                 ELSE [k |-> listed, task |-> o, prio |-> p]
          ELSE IF ofOwner = old
            THEN IF Keeps(listed, o) THEN [k |-> listed, task |-> None, prio |-> p]
                 ELSE [k |-> listed, task |-> o, prio |-> Uninherited(listed, o)]
          ELSE [k |-> dragged, task |-> o, prio |-> p]
  BY <1>1, Zenon DEF Round, Blocked
<1>5. dragged.task = listed.task
  BY <1>3 DEF Changes
<1> HIDE DEF listed, q, dragged, o
<1>6. ofOwner = s.task[o].prio /\ old \in Nat /\ p \in Nat /\ s.task[o].prio \in Nat
  BY <1>0, <1>2, <1>3, PrioType DEF TCBs, Prios
<1>7. /\ q.k.task = listed.task /\ q.task = o
      /\ \/ old > p /\ ~(ofOwner <= p) /\ q.prio = p
         \/ ~(old > p) /\ ofOwner = old /\ ~Keeps(listed, o) /\ q.prio = Uninherited(listed, o)
         \/ ~(old > p) /\ ofOwner # old /\ q.prio = p
  BY <1>0, <1>4, <1>5
<1>8. GoesOn(s.task, t, p, q.task, q.prio)
  BY <1>6, <1>7 DEF GoesOn, Keeps
<1> QED
  BY <1>0, <1>2, <1>3, <1>7, <1>8 DEF q

LEMMA RoundFalls ==
  ASSUME NEW T \in SUBSET Tasks, NEW w, Walk(w, T), w.task # None
  PROVE  ToGo(w) \in 1..LongestWalk /\ ToGo(Round(w)) \in Nat /\ ToGo(Round(w)) < ToGo(w)
<1>1. w.task \in Tasks /\ w.prio \in Prios /\ w.k.task \in [Tasks -> TCBs]
  BY DEF Walk, Walkable, Sound, Kernel
<1>2. ToGo(w) \in 1..LongestWalk
  BY <1>1, RankType DEF ToGo
<1>3. CASE Round(w).task = None
  BY <1>2, <1>3 DEF ToGo
<1>4. CASE Round(w).task # None
  <2>1. Walk(Round(w), T)
    BY RoundMoves
  <2>2. /\ Round(w).task \in Tasks /\ Round(w).prio \in Prios
        /\ Round(w).k.task \in [Tasks -> TCBs]
    BY <1>4, <2>1 DEF Walk, Walkable, Sound, Kernel
  <2>3. ToGo(Round(w)) \in Nat
    BY <1>4, <2>2, RankType DEF ToGo
  <2>4. PICK q : q = Round(w)
    OBVIOUS
  <2>5. /\ q.task # w.task /\ q.k.task = [w.k.task EXCEPT ![w.task].prio = w.prio]
        /\ GoesOn(w.k.task, w.task, w.prio, q.task, q.prio)
    BY <1>4, <2>4, RoundGoesOn
  <2>6. Rank(q.k.task, q.task, q.prio) < Rank(w.k.task, w.task, w.prio)
    BY <1>1, <2>2, <2>4, <2>5, RankFalls
  <2> QED
    BY <1>2, <1>4, <2>3, <2>4, <2>6 DEF ToGo
<1> QED
  BY <1>2, <1>3, <1>4

(* The walk of OS_TaskChangePrio, round after round.                       *)
LEMMA ChangePrioWalk ==
  ASSUME NEW s, NEW t, NEW p
  PROVE  \E w :
           /\ w[0] = [k |-> s, task |-> t, prio |-> p]
           /\ \A n \in 1..MaxRounds :
                w[n] = IF w[n - 1].task = None THEN w[n - 1] ELSE Round(w[n - 1])
           /\ ChangePrio(s, t, p) =
                IF w[MaxRounds].task = None THEN w[MaxRounds].k
                ELSE [w[MaxRounds].k EXCEPT !.fault = @ \cup {"endless"}]
<1> DEFINE N == MaxRounds
           first == [k |-> s, task |-> t, prio |-> p]
           G(v) == IF v.task = None THEN v ELSE Round(v)
           Walks(w, m) == w = [n \in 0..m |-> IF n = 0 THEN first ELSE G(w[n - 1])]
           S == {m \in Nat : \E w : Walks(w, m)}
           walk == CHOOSE w : Walks(w, N)
<1>1. ChangePrio(s, t, p) = IF walk[N].task = None THEN walk[N].k
                            ELSE [walk[N].k EXCEPT !.fault = @ \cup {"endless"}]
  BY DEF ChangePrio
<1>0. N \in Nat
  BY MutexAssumption DEF MutexAssumption
<1> HIDE DEF G, first
<1>2. 0 \in S
  <2>1. Walks([n \in 0..0 |-> first], 0)
    OBVIOUS
  <2> QED
    BY <2>1
<1>3. ASSUME NEW m \in Nat, m \in S PROVE m + 1 \in S
  <2>1. PICK w : Walks(w, m)
    BY <1>3
  <2> DEFINE v == [n \in 0..(m + 1) |-> IF n = m + 1 THEN G(w[m]) ELSE w[n]]
  <2>2. ASSUME NEW n \in 0..(m + 1) PROVE v[n] = IF n = 0 THEN first ELSE G(v[n - 1])
    <3>1. CASE n = 0
      BY <2>1, <3>1
    <3>2. CASE n # 0 /\ n # m + 1
      <4>1. n \in 0..m /\ n - 1 \in 0..m /\ n - 1 # m + 1
        BY <3>2
      <4>2. v[n] = w[n] /\ v[n - 1] = w[n - 1] /\ w[n] = G(w[n - 1])
        BY <2>1, <3>2, <4>1
      <4> QED
        BY <3>2, <4>2
    <3>3. CASE n = m + 1
      <4>1. n - 1 = m /\ m \in 0..(m + 1) /\ m # m + 1 /\ n # 0
        BY <3>3
      <4>2. v[m] = w[m] /\ v[n] = G(w[m])
        BY <3>3, <4>1
      <4> QED
        BY <4>1, <4>2
    <3> QED
      BY <3>1, <3>2, <3>3
  <2>3. Walks(v, m + 1)
    <3>1. v = [n \in 0..(m + 1) |-> v[n]]
      OBVIOUS
    <3> HIDE DEF v
    <3> QED
      BY <2>2, <3>1
  <2> HIDE DEF Walks, v
  <2>4. m + 1 \in Nat /\ \E x : Walks(x, m + 1)
    BY <2>3
  <2> QED
    BY <2>4
<1>4. N \in S
  <2> HIDE DEF S
  <2> QED
    BY <1>0, <1>2, <1>3, Induction
<1>5. Walks(walk, N)
  BY <1>4
<1>6. walk[0] = first /\ \A n \in 1..N : walk[n] = G(walk[n - 1])
  <2> HIDE DEF walk, N
  <2> QED
    BY <1>0, <1>5
<1> HIDE DEF walk
<1> QED
  BY <1>1, <1>6 DEF G, first

LEMMA ChangePrioMoves ==
  ASSUME NEW s, NEW T \in SUBSET Tasks, Walkable(s, T), NEW t \in Tasks, NEW p \in Prios
  PROVE  Moves(s, ChangePrio(s, t, p), T)
<1> DEFINE N == MaxRounds
           r == ChangePrio(s, t, p)
<1>0. N \in Nat
  BY MutexAssumption DEF MutexAssumption
<1>1. PICK w : /\ w[0] = [k |-> s, task |-> t, prio |-> p]
               /\ \A n \in 1..N :
                    w[n] = IF w[n - 1].task = None THEN w[n - 1] ELSE Round(w[n - 1])
               /\ r = IF w[N].task = None THEN w[N].k
                      ELSE [w[N].k EXCEPT !.fault = @ \cup {"endless"}]
  BY ChangePrioWalk
<1>a. N >= LongestWalk /\ LongestWalk \in Nat
  BY Sizes, MutexAssumption DEF MutexAssumption, LongestWalk
<1> HIDE DEF N, r
<1> DEFINE Good(n) == /\ Walk(w[n], T) /\ Moves(s, w[n].k, T)
                      /\ w[n].task # None => ToGo(w[n]) + n <= LongestWalk
           S == {n \in Nat : n <= N => Good(n)}
<1>2. 0 \in S
  <2>1. Moves(s, s, T) /\ Walk(w[0], T) /\ w[0].k = s
    BY <1>1, MovesSelf DEF Walk, Walkable
  <2>2. w[0].task # None => ToGo(w[0]) + 0 <= LongestWalk
    BY <1>a, <2>1, RoundFalls
  <2> QED
    BY <2>1, <2>2
<1>3. ASSUME NEW n \in Nat, n \in S PROVE n + 1 \in S
  <2> SUFFICES ASSUME n + 1 <= N PROVE Good(n + 1)
    OBVIOUS
  <2>1. Good(n) /\ n + 1 \in 1..N /\ n + 1 - 1 = n
    BY <1>0, <1>3
  <2>2. w[n + 1] = IF w[n].task = None THEN w[n] ELSE Round(w[n])
    BY <1>1, <2>1
  <2>3. CASE w[n].task = None
    <3>1. w[n + 1] = w[n] /\ w[n + 1].task = None
      BY <2>2, <2>3
    <3>2. Walk(w[n + 1], T) /\ Moves(s, w[n + 1].k, T)
      BY <2>1, <3>1
    <3> QED
      BY <3>1, <3>2
  <2>4. CASE w[n].task # None
    <3>1. w[n + 1] = Round(w[n])
      BY <2>2, <2>4
    <3>0. Walk(w[n], T) /\ Moves(s, w[n].k, T) /\ ToGo(w[n]) + n <= LongestWalk
      BY <2>1, <2>4
    <3>2. Walk(Round(w[n]), T) /\ Moves(w[n].k, Round(w[n]).k, T)
      BY <2>4, <3>0, RoundMoves
    <3>3. /\ ToGo(w[n]) \in 1..LongestWalk /\ ToGo(Round(w[n])) \in Nat
          /\ ToGo(Round(w[n])) < ToGo(w[n])
      BY <2>4, <3>0, RoundFalls
    <3>5. ToGo(w[n + 1]) + (n + 1) <= LongestWalk
      BY <1>a, <3>0, <3>1, <3>3
    <3>6. Walk(w[n + 1], T) /\ Moves(s, w[n + 1].k, T)
      BY <3>0, <3>1, <3>2, MovesTrans
    <3> QED
      BY <3>5, <3>6
  <2> QED
    BY <2>3, <2>4
<1>4. Good(N)
  <2>1. Nat \subseteq S
    <3> HIDE DEF S
    <3> QED
      BY <1>2, <1>3, Induction
  <2>2. N \in S
    BY <1>0, <2>1
  <2> HIDE DEF Good
  <2> QED
    BY <1>0, <2>2
<1>5. w[N].task = None
  <2> SUFFICES ASSUME w[N].task # None PROVE FALSE
    OBVIOUS
  <2>1. ToGo(w[N]) \in 1..LongestWalk /\ ToGo(w[N]) + N <= LongestWalk
    BY <1>4, RoundFalls
  <2> QED
    BY <1>0, <1>a, <2>1
<1>6. Moves(s, r, T)
  BY <1>1, <1>4, <1>5
<1> QED
  BY <1>6 DEF r

LEMMA DisinheritMoves ==
  ASSUME NEW s, NEW T \in SUBSET Tasks, Walkable(s, T), NEW o \in Tasks, NEW left
  PROVE  Moves(s, Disinherit(s, o, left), T)
<1>1. Uninherited(s, o) \in Prios
  BY WalkablePrio
<1>2. Moves(s, ChangePrio(s, o, Uninherited(s, o)), T)
  BY <1>1, ChangePrioMoves
<1>3. Moves(s, s, T)
  BY MovesSelf DEF Walkable
<1> QED
  BY <1>2, <1>3 DEF Disinherit

-----------------------------------------------------------------------------
(* What changes no owner and no pend leaves the invariant alone.           *)

LEMMA AlikeHealthy ==
  ASSUME NEW s, NEW r, Alike(s, r)
  PROVE  /\ Healthy(s) => Healthy(r)
         /\ \A t \in Tasks : \A a, dead : Asking(s, t, a, dead) => Asking(r, t, a, dead)
<1>1. Groups(s) => Groups(r)
  BY DEF Alike, Groups
<1>2. Nested(s) => Nested(r)
  BY DEF Alike, Nested
<1>3. Waited(s, Tasks) => Waited(r, Tasks)
  BY DEF Alike, SameCalls, Waited
<1>4. Outside(s, Tasks) => Outside(r, Tasks)
  BY DEF Alike, SameCalls, Outside
<1>6. Alive(s) => Alive(r)
  BY DEF Alike, SameCalls, Alive
<1>7. ASSUME NEW t \in Tasks, NEW a, NEW dead, Asking(s, t, a, dead)
      PROVE  Asking(r, t, a, dead)
  BY <1>7 DEF Alike, SameCalls, Asking
<1> QED
  BY <1>1, <1>2, <1>3, <1>4, <1>6, <1>7 DEF Healthy

LEMMA SchedFit ==
  ASSUME NEW s, NEW a, NEW dead, Fit(s, a, dead)
  PROVE  Fit(Sched(s), a, dead) /\ Running(Sched(s))
<1> DEFINE r == Sched(s)
<1>1. /\ Sound(r, Tasks) /\ Changes(s, r, {"cur", "prioCur"})
      /\ r.cur # None => s.task[r.cur].state = "rdy"
  BY SchedRuns DEF Fit
<1> HIDE DEF r
<1>2. /\ DOMAIN r = DOMAIN s /\ r.task = s.task /\ r.owner = s.owner /\ r.nest = s.nest
      /\ r.group = s.group /\ r.fault = s.fault
  BY <1>1 DEF Changes, Fit, MutexTypes, CoreFields
<1>3. Alike(s, r)
  BY <1>2 DEF Alike, SameCalls
<1>4. Fit(r, a, dead)
  BY <1>1, <1>2, <1>3, AlikeHealthy DEF Fit, MutexTypes
<1> QED
  BY <1>1, <1>2, <1>4 DEF Running, r

LEMMA MovesFit ==
  ASSUME NEW s, NEW r, NEW a, NEW dead, Fit(s, a, dead), Moves(s, r, Tasks)
  PROVE  Fit(r, a, dead)
<1>1. Alike(s, r) /\ (r.fault = {} => s.fault = {})
  BY DEF Moves
<1> QED
  BY <1>1, AlikeHealthy DEF Fit, Moves

LEMMA FitWalkable ==
  ASSUME NEW s, NEW a, NEW dead, Fit(s, a, dead), s.fault = {}
  PROVE  Walkable(s, Tasks) /\ Healthy(s) /\ \A t \in Tasks : Asking(s, t, a[t], dead)
BY DEF Fit, Walkable, Healthy

-----------------------------------------------------------------------------
(* Who owns what: a mutex leaves the group of its owner and joins another. *)

GroupsBut(s, m) ==
  /\ s.group = [t \in Tasks |-> s.group[t]]
  /\ \A t \in Tasks : Lists(s.group[t], {n \in Mutexes \ {m} : s.owner[n] = t})

LEMMA DisownGroups ==
  ASSUME NEW s, MutexTypes(s), Groups(s), NEW m \in Mutexes, NEW o \in Tasks, s.owner[m] = o
  PROVE  LET r == Disown(s, m)
         IN /\ GroupsBut(r, m) /\ MutexTypes(r) /\ Changes(s, r, {"group"})
<1> DEFINE r == Disown(s, m)
           new == Without(s.group[o], m)
<1>1. DOMAIN r = DOMAIN s /\ r.group = [s.group EXCEPT ![o] = new]
      /\ \A f \in DOMAIN s \ {"group"} : r[f] = s[f]
  BY DEF Disown, MutexTypes
<1> HIDE DEF r
<1>2. Lists(s.group[o], {n \in Mutexes : s.owner[n] = o}) /\ m \in {n \in Mutexes : s.owner[n] = o}
  BY DEF Groups
<1>3. Lists(new, {n \in Mutexes : s.owner[n] = o} \ {m})
  <2> DEFINE M == {n \in Mutexes : s.owner[n] = o}
  <2> HIDE DEF M
  <2>1. Lists(s.group[o], M) /\ m \in M
    BY <1>2 DEF M
  <2>2. Lists(new, M \ {m})
    BY <2>1, ListsWithout
  <2> QED
    BY <2>2 DEF M
<1> HIDE DEF new
<1>4. r.owner = s.owner /\ r.nest = s.nest /\ r.fault = s.fault
  BY <1>1 DEF MutexTypes
<1>5. ASSUME NEW t \in Tasks PROVE Lists(r.group[t], {n \in Mutexes \ {m} : r.owner[n] = t})
  <2>1. CASE t = o
    <3>1. {n \in Mutexes \ {m} : r.owner[n] = t} = {n \in Mutexes : s.owner[n] = o} \ {m}
      BY <1>4, <2>1
    <3>2. r.group[t] = new
      BY <1>1, <2>1 DEF Groups
    <3> QED
      BY <1>3, <3>1, <3>2
  <2>2. CASE t # o
    <3>1. {n \in Mutexes \ {m} : r.owner[n] = t} = {n \in Mutexes : s.owner[n] = t}
      BY <1>4, <2>2
    <3>2. r.group[t] = s.group[t]
      BY <1>1, <2>2 DEF Groups
    <3> QED
      BY <3>1, <3>2 DEF Groups
  <2> QED
    BY <2>1, <2>2
<1>6. r.group = [t \in Tasks |-> r.group[t]]
  BY <1>1 DEF Groups
<1>7. GroupsBut(r, m)
  BY <1>5, <1>6 DEF GroupsBut
<1>8. MutexTypes(r) /\ Changes(s, r, {"group"})
  BY <1>1, <1>4 DEF MutexTypes, Changes
<1> QED
  BY <1>7, <1>8 DEF r

LEMMA OwnGroups ==
  ASSUME NEW s, MutexTypes(s), NEW m \in Mutexes, GroupsBut(s, m), NEW t \in Tasks
  PROVE  LET r == Own(s, m, t)
         IN /\ Groups(r) /\ MutexTypes(r) /\ Changes(s, r, {"owner", "nest", "group"})
            /\ r.owner = [s.owner EXCEPT ![m] = t] /\ r.nest = [s.nest EXCEPT ![m] = 1]
<1> DEFINE r == Own(s, m, t)
           new == <<m>> \o s.group[t]
<1>1. /\ DOMAIN r = DOMAIN s /\ r.group = [s.group EXCEPT ![t] = new]
      /\ r.owner = [s.owner EXCEPT ![m] = t] /\ r.nest = [s.nest EXCEPT ![m] = 1]
      /\ \A f \in DOMAIN s \ {"owner", "nest", "group"} : r[f] = s[f]
  BY DEF Own, MutexTypes
<1> HIDE DEF r
<1>2. Lists(new, {n \in Mutexes \ {m} : s.owner[n] = t} \cup {m})
  <2> DEFINE M == {n \in Mutexes \ {m} : s.owner[n] = t}
  <2>1. Lists(s.group[t], M) /\ m \notin M
    BY DEF GroupsBut
  <2> HIDE DEF M
  <2>2. Lists(new, M \cup {m})
    BY <2>1, ListsHead
  <2> QED
    BY <2>2 DEF M
<1> HIDE DEF new
<1>3. ASSUME NEW u \in Tasks PROVE Lists(r.group[u], {n \in Mutexes : r.owner[n] = u})
  <2>1. CASE u = t
    <3>1. {n \in Mutexes : r.owner[n] = u} = {n \in Mutexes \ {m} : s.owner[n] = t} \cup {m}
      BY <1>1, <2>1 DEF MutexTypes
    <3>2. r.group[u] = new
      BY <1>1, <2>1 DEF GroupsBut
    <3> QED
      BY <1>2, <3>1, <3>2
  <2>2. CASE u # t
    <3>1. {n \in Mutexes : r.owner[n] = u} = {n \in Mutexes \ {m} : s.owner[n] = u}
      BY <1>1, <2>2 DEF MutexTypes
    <3>2. r.group[u] = s.group[u]
      BY <1>1, <2>2 DEF GroupsBut
    <3> QED
      BY <3>1, <3>2 DEF GroupsBut
  <2> QED
    BY <2>1, <2>2
<1>4. r.group = [u \in Tasks |-> r.group[u]]
  BY <1>1 DEF GroupsBut
<1>5. Groups(r)
  BY <1>3, <1>4 DEF Groups
<1>6. r.fault = s.fault /\ 1 \in 0..MaxNest
  BY <1>1, MutexAssumption DEF MutexTypes, MutexAssumption
<1>7. MutexTypes(r) /\ Changes(s, r, {"owner", "nest", "group"})
  BY <1>1, <1>6 DEF MutexTypes, Changes
<1> QED
  BY <1>1, <1>5, <1>7 DEF r

LEMMA FreeGroups ==
  ASSUME NEW s, MutexTypes(s), NEW m \in Mutexes, GroupsBut(s, m)
  PROVE  LET r == [s EXCEPT !.owner[m] = None, !.nest[m] = 0]
         IN /\ Groups(r) /\ MutexTypes(r) /\ Changes(s, r, {"owner", "nest"})
            /\ r.owner = [s.owner EXCEPT ![m] = None] /\ r.nest = [s.nest EXCEPT ![m] = 0]
<1> DEFINE r == [s EXCEPT !.owner[m] = None, !.nest[m] = 0]
<1>1. /\ DOMAIN r = DOMAIN s
      /\ r.owner = [s.owner EXCEPT ![m] = None] /\ r.nest = [s.nest EXCEPT ![m] = 0]
      /\ \A f \in DOMAIN s \ {"owner", "nest"} : r[f] = s[f]
  BY DEF MutexTypes
<1> HIDE DEF r
<1>2. r.group = s.group /\ r.fault = s.fault /\ 0 \in 0..MaxNest
  BY <1>1, MutexAssumption DEF MutexTypes, MutexAssumption
<1>3. \A u \in Tasks : {n \in Mutexes : r.owner[n] = u} = {n \in Mutexes \ {m} : s.owner[n] = u}
  BY <1>1, PrioType DEF MutexTypes
<1>4. Groups(r)
  BY <1>2, <1>3 DEF GroupsBut, Groups
<1>5. MutexTypes(r) /\ Changes(s, r, {"owner", "nest"})
  BY <1>1, <1>2 DEF MutexTypes, Changes
<1> QED
  BY <1>1, <1>4, <1>5 DEF r

LEMMA FreeGroupsBut ==
  ASSUME NEW s, Groups(s), NEW m \in Mutexes, s.owner[m] = None
  PROVE  GroupsBut(s, m)
<1>1. \A t \in Tasks : {n \in Mutexes \ {m} : s.owner[n] = t} = {n \in Mutexes : s.owner[n] = t}
  BY PrioType
<1> QED
  BY <1>1 DEF Groups, GroupsBut

-----------------------------------------------------------------------------
(* Each call preserves the invariant.                                      *)

LEMMA Caller ==
  ASSUME MutexInv, Sane, NEW t \in Tasks, k.cur = t
  PROVE  /\ k.task[t].state = "rdy" /\ t # None /\ Walkable(k, Tasks) /\ Healthy(k)
         /\ Sound(k, Tasks) /\ MutexTypes(k) /\ k.task \in [Tasks -> TCBs]
         /\ \A u \in Tasks : Asking(k, u, asked[u], gone)
<1>1. t # None
  BY PrioType
<1>2. k.task[t].state = "rdy"
  BY <1>1 DEF MutexInv, Running
<1> QED
  BY <1>1, <1>2, FitWalkable DEF MutexInv, Sane, Fit, Sound, Kernel

(* Only the owners and the groups are touched.                             *)
LEMMA SoundOwners ==
  ASSUME NEW s, NEW r, NEW T, Sound(s, T), Changes(s, r, {"owner", "nest", "group"})
  PROVE  /\ Sound(r, T) /\ r.task = s.task /\ r.cur = s.cur /\ r.prioCur = s.prioCur
         /\ r.list = s.list /\ r.rdy = s.rdy
<1>1. DOMAIN r = DOMAIN s /\ \A f \in CoreFields : r[f] = s[f]
  BY DEF Changes, CoreFields, Sound, Kernel
<1> QED
  BY <1>1, SoundAgree DEF CoreFields

LEMMA InvTake ==
  ASSUME MutexInv, Sane, NEW t \in Tasks, NEW m \in Mutexes, MutexTake(t, m)
  PROVE  MutexInv'
<1> DEFINE r == Own(k, m, t)
<1>1. k' = r /\ asked' = asked /\ gone' = gone /\ changes' = changes /\ k.cur = t /\ asked[t] = None
  BY DEF MutexTake, Calls
<1>2. /\ k.task[t].state = "rdy" /\ t # None /\ Healthy(k) /\ Sound(k, Tasks) /\ MutexTypes(k)
      /\ \A u \in Tasks : Asking(k, u, asked[u], gone)
  BY <1>1, Caller
<1>3. k.owner[m] = None
  BY <1>2 DEF MutexTake, Healthy, Nested
<1>4. /\ Groups(r) /\ MutexTypes(r) /\ Changes(k, r, {"owner", "nest", "group"})
      /\ r.owner = [k.owner EXCEPT ![m] = t] /\ r.nest = [k.nest EXCEPT ![m] = 1]
  BY <1>2, <1>3, FreeGroupsBut, OwnGroups DEF Healthy
<1> HIDE DEF r
<1>5. Sound(r, Tasks) /\ r.task = k.task /\ r.cur = k.cur
  BY <1>2, <1>4, SoundOwners
<1>6. Nested(r)
  BY <1>2, <1>4 DEF Healthy, Nested, MutexTypes
<1>7. Alive(r)
  BY <1>2, <1>4, <1>5 DEF Healthy, Alive, MutexTypes
<1>8. Waited(r, Tasks)
  BY <1>2, <1>3, <1>4, <1>5, PrioType DEF Healthy, Waited, MutexTypes
<1>9. Outside(r, Tasks)
  BY <1>2, <1>5 DEF Healthy, Outside
<1>10. ASSUME NEW u \in Tasks PROVE Asking(r, u, asked[u], gone)
  <2>1. asked[u] = None \/ r.owner[asked[u]] = IF asked[u] = m THEN t ELSE k.owner[asked[u]]
    BY <1>2, <1>4 DEF MutexTypes, MutexInv, CallTypes
  <2>2. Asking(k, u, asked[u], gone)
    BY <1>2
  <2> QED
    BY <1>1, <1>2, <1>3, <1>5, <2>1, <2>2, PrioType DEF Asking
<1>11. Fit(r, asked, gone) /\ Running(r)
  BY <1>4, <1>5, <1>6, <1>7, <1>8, <1>9, <1>10 DEF Fit, Healthy, Running, MutexInv
<1> QED
  BY <1>1, <1>11 DEF MutexInv, CallTypes

LEMMA InvNesting ==
  ASSUME MutexInv, Sane, NEW t \in Tasks, NEW m \in Mutexes,
         MutexTakeAgain(t, m) \/ MutexPostNested(t, m)
  PROVE  MutexInv'
<1>1. asked' = asked /\ gone' = gone /\ changes' = changes /\ k.cur = t
  BY DEF MutexTakeAgain, MutexPostNested, Calls
<1>2. /\ Healthy(k) /\ Sound(k, Tasks) /\ MutexTypes(k)
      /\ \A u \in Tasks : Asking(k, u, asked[u], gone)
  BY <1>1, Caller
<1>3. k.nest[m] \in Nat /\ MaxNest \in Nat /\ k.nest[m] <= MaxNest
  BY <1>2, MutexAssumption DEF MutexTypes, MutexAssumption
<1>4. PICK n \in 1..MaxNest : k' = [k EXCEPT !.nest[m] = n] /\ k.nest[m] # 0
  <2>1. CASE MutexTakeAgain(t, m)
    <3>1. k.nest[m] + 1 \in 1..MaxNest
      BY <1>3, <2>1 DEF MutexTakeAgain
    <3> QED
      BY <2>1, <3>1 DEF MutexTakeAgain
  <2>2. CASE MutexPostNested(t, m)
    <3>1. k.nest[m] - 1 \in 1..MaxNest /\ k.nest[m] # 0
      BY <1>3, <2>2 DEF MutexPostNested
    <3> QED
      BY <2>2, <3>1 DEF MutexPostNested
  <2> QED
    BY <2>1, <2>2
<1>5. /\ Changes(k, k', {"nest"}) /\ Changes(k, k', {"owner", "nest", "group"})
      /\ k'.nest = [k.nest EXCEPT ![m] = n]
  BY <1>2, <1>4 DEF MutexTypes, Changes
<1>6. k'.owner = k.owner /\ k'.group = k.group /\ k'.fault = k.fault /\ n # 0 /\ n \in 0..MaxNest
  BY <1>2, <1>3, <1>5 DEF MutexTypes, Changes
<1>7. Sound(k', Tasks) /\ k'.task = k.task /\ k'.cur = k.cur
  BY <1>2, <1>5, SoundOwners
<1>8. MutexTypes(k')
  BY <1>2, <1>5, <1>6 DEF MutexTypes, Changes
<1>9. Nested(k')
  BY <1>2, <1>4, <1>5, <1>6 DEF Healthy, Nested, MutexTypes
<1>10. Groups(k') /\ Alive(k') /\ Waited(k', Tasks) /\ Outside(k', Tasks)
  <2>1. Groups(k')
    BY <1>2, <1>6 DEF Healthy, Groups
  <2>2. Alive(k')
    BY <1>2, <1>6, <1>7 DEF Healthy, Alive
  <2>3. Waited(k', Tasks)
    BY <1>2, <1>6, <1>7 DEF Healthy, Waited
  <2>4. Outside(k', Tasks)
    BY <1>2, <1>7 DEF Healthy, Outside
  <2> QED
    BY <2>1, <2>2, <2>3, <2>4
<1>11. \A u \in Tasks : Asking(k', u, asked[u], gone)
  BY <1>2, <1>6, <1>7 DEF Asking
<1> QED
  BY <1>1, <1>7, <1>8, <1>9, <1>10, <1>11 DEF MutexInv, Fit, Healthy, Running, CallTypes

LEMMA InvPendReturns ==
  ASSUME MutexInv, Sane, NEW t \in Tasks, MutexPendReturns(t)
  PROVE  MutexInv'
<1>1. asked' = [asked EXCEPT ![t] = None] /\ gone' = gone /\ changes' = changes /\ k.cur = t /\ k' = k
  BY DEF MutexPendReturns
<1>2. /\ Healthy(k) /\ k.task[t].state = "rdy"
      /\ \A u \in Tasks : Asking(k, u, asked[u], gone)
  BY <1>1, Caller
<1>3. ASSUME NEW u \in Tasks PROVE Asking(k, u, asked'[u], gone)
  BY <1>1, <1>2 DEF Asking, Blocked, MutexInv, CallTypes
<1> QED
  BY <1>1, <1>3 DEF MutexInv, Fit, CallTypes

(* Nobody waits where the pend list is empty.                              *)
LEMMA NobodyWaits ==
  ASSUME NEW s, NEW T \in SUBSET Tasks, Sound(s, T), NEW m \in Mutexes, s.list[m] = <<>>
  PROVE  \A u \in T : s.task[u].state \in Blocked => s.task[u].on # m
BY EmptySeq, SoundLists DEF Mutexes

(* A mutex that nobody waits for becomes free.                             *)
LEMMA Freed ==
  ASSUME NEW s, NEW r, NEW a, NEW dead, NEW over, Fit(s, a, dead), s.fault = {},
         a \in [Tasks -> Mutexes \cup {None}], dead \subseteq over,
         NEW m \in Mutexes, \A u \in Tasks : s.task[u].state \in Blocked => s.task[u].on # m,
         over = dead \cup {m} \/ (over = dead /\ \A u \in Tasks : a[u] = m => s.owner[m] # u),
         Groups(r), MutexTypes(r), Changes(s, r, {"owner", "nest", "group"}),
         r.owner = [s.owner EXCEPT ![m] = None], r.nest = [s.nest EXCEPT ![m] = 0]
  PROVE  Fit(r, a, over)
<1>1. /\ Healthy(s) /\ Sound(s, Tasks) /\ MutexTypes(s)
      /\ \A u \in Tasks : Asking(s, u, a[u], dead)
  BY DEF Fit
<1>2. Sound(r, Tasks) /\ r.task = s.task
  BY <1>1, SoundOwners
<1>3. Nested(r)
  BY <1>1 DEF Healthy, Nested, MutexTypes
<1>4. Alive(r)
  BY <1>1, <1>2, PrioType DEF Healthy, Alive, MutexTypes
<1>5. Waited(r, Tasks)
  BY <1>1, <1>2 DEF Healthy, Waited, MutexTypes
<1>6. Outside(r, Tasks)
  BY <1>1, <1>2 DEF Healthy, Outside
<1>7. ASSUME NEW u \in Tasks PROVE Asking(r, u, a[u], over)
  <2>1. Asking(s, u, a[u], dead) /\ a[u] \in Mutexes \cup {None}
    BY <1>1
  <2>2. a[u] = None \/ r.owner[a[u]] = IF a[u] = m THEN None ELSE s.owner[a[u]]
    BY <1>1, <2>1 DEF MutexTypes
  <2>3. s.task[u].state \in Blocked => a[u] = s.task[u].on /\ a[u] \notin over
    BY <2>1 DEF Asking
  <2>4. a[u] # None /\ a[u] \notin over /\ s.task[u].state = "rdy" =>
          (s.task[u].status = "ok" <=> r.owner[a[u]] = u)
    BY <2>1, <2>2, PrioType DEF Asking
  <2> QED
    BY <1>2, <2>1, <2>3, <2>4 DEF Asking
<1> QED
  BY <1>2, <1>3, <1>4, <1>5, <1>6, <1>7 DEF Fit, Healthy

LEMMA InvPostFree ==
  ASSUME MutexInv, Sane, NEW t \in Tasks, NEW m \in Mutexes, MutexPostFree(t, m)
  PROVE  MutexInv'
<1> DEFINE d == Disown(k, m)
           r == [d EXCEPT !.owner[m] = None, !.nest[m] = 0]
<1>1. /\ k' = r /\ asked' = asked /\ gone' = gone /\ changes' = changes /\ k.cur = t
      /\ asked[t] = None /\ k.owner[m] = t /\ k.list[m] = <<>>
  BY DEF MutexPostFree, Calls
<1>2. Healthy(k) /\ Sound(k, Tasks) /\ MutexTypes(k)
  BY <1>1, Caller
<1>3. GroupsBut(d, m) /\ MutexTypes(d) /\ Changes(k, d, {"group"})
  BY <1>1, <1>2, DisownGroups DEF Healthy
<1> HIDE DEF d
<1>4. /\ Groups(r) /\ MutexTypes(r) /\ Changes(d, r, {"owner", "nest"})
      /\ r.owner = [d.owner EXCEPT ![m] = None] /\ r.nest = [d.nest EXCEPT ![m] = 0]
  BY <1>3, FreeGroups, Zenon
<1> HIDE DEF r
<1>5. /\ Changes(k, r, {"owner", "nest", "group"})
      /\ r.owner = [k.owner EXCEPT ![m] = None] /\ r.nest = [k.nest EXCEPT ![m] = 0]
  BY <1>2, <1>3, <1>4 DEF Changes, MutexTypes
<1>6. \A u \in Tasks : k.task[u].state \in Blocked => k.task[u].on # m
  BY <1>1, <1>2, NobodyWaits
<1>7. \A u \in Tasks : asked[u] = m => k.owner[m] # u
  BY <1>1, PrioType DEF Mutexes
<1>8. Fit(r, asked, gone)
  BY <1>4, <1>5, <1>6, <1>7, Freed DEF MutexInv, Sane, CallTypes
<1>9. Running(r)
  BY <1>2, <1>5, SoundOwners DEF MutexInv, Running
<1> QED
  BY <1>1, <1>8, <1>9 DEF MutexInv, CallTypes

(* Only the TCB of one task, and the lists that follow from it, change.    *)
LEMMA Turned ==
  ASSUME NEW s, NEW r, NEW a, NEW b, NEW dead, Fit(s, a, dead), s.fault = {},
         Sound(r, Tasks), Changes(s, r, {"task", "list", "rdy"}),
         NEW t \in Tasks, NEW x \in TCBs, r.task = [s.task EXCEPT ![t] = x],
         x.state \in Blocked => x.on # None /\ s.owner[x.on] \in Tasks \ {t},
         x.state \notin Blocked => x.on = None,
         x.state # "del", \A u \in Tasks \ {t} : b[u] = a[u], Asking(r, t, b[t], dead)
  PROVE  Fit(r, b, dead)
<1>1. /\ Healthy(s) /\ Sound(s, Tasks) /\ MutexTypes(s)
      /\ \A u \in Tasks : Asking(s, u, a[u], dead) /\ s.task \in [Tasks -> TCBs]
  BY DEF Fit, Sound, Kernel
<1>2. /\ DOMAIN r = DOMAIN s /\ r.owner = s.owner /\ r.nest = s.nest /\ r.group = s.group
      /\ r.fault = s.fault
  BY <1>1 DEF Changes, MutexTypes
<1>3. r.task[t] = x /\ \A u \in Tasks \ {t} : r.task[u] = s.task[u]
  BY <1>1
<1>4. Groups(r) /\ Nested(r)
  BY <1>1, <1>2 DEF Healthy, Groups, Nested
<1>5. Alive(r)
  BY <1>1, <1>2, <1>3 DEF Healthy, Alive
<1>6. Waited(r, Tasks)
  BY <1>1, <1>2, <1>3 DEF Healthy, Waited
<1>7. Outside(r, Tasks)
  BY <1>1, <1>3 DEF Healthy, Outside
<1>8. ASSUME NEW u \in Tasks PROVE Asking(r, u, b[u], dead)
  BY <1>1, <1>2, <1>3 DEF Asking
<1>9. MutexTypes(r)
  BY <1>1, <1>2 DEF MutexTypes
<1> QED
  BY <1>4, <1>5, <1>6, <1>7, <1>8, <1>9 DEF Fit, Healthy

LEMMA InvBlock ==
  ASSUME MutexInv, Sane, NEW t \in Tasks, NEW m \in Mutexes, NEW timed \in BOOLEAN,
         MutexBlock(t, m, timed)
  PROVE  MutexInv'
<1> DEFINE o == k.owner[m]
           p == k.task[t].prio
           up == IF k.task[o].prio > p THEN ChangePrio(k, o, p) ELSE k
           r == Pend(up, m, timed)
<1>1. /\ k' = Sched(r) /\ gone' = gone /\ changes' = changes /\ k.cur = t /\ asked[t] = None
      /\ asked' = [asked EXCEPT ![t] = m] /\ m \notin gone /\ k.nest[m] # 0 /\ o # t
  BY DEF MutexBlock, Calls
<1>2. /\ Healthy(k) /\ Sound(k, Tasks) /\ MutexTypes(k) /\ Walkable(k, Tasks)
      /\ k.task[t].state = "rdy" /\ t # None /\ k.task \in [Tasks -> TCBs]
  BY <1>1, Caller
<1>3. o \in Tasks /\ p \in Prios
  BY <1>1, <1>2 DEF Healthy, Nested, MutexTypes, TCBs
<1>4. Moves(k, up, Tasks)
  <2>1. Moves(k, k, Tasks)
    BY <1>2, MovesSelf
  <2>2. Moves(k, ChangePrio(k, o, p), Tasks)
    BY <1>2, <1>3, ChangePrioMoves
  <2> QED
    BY <2>1, <2>2
<1> HIDE DEF up
<1>5. /\ Sound(up, Tasks) /\ MutexTypes(up) /\ up.cur = t /\ up.task[t].state = "rdy"
      /\ up.owner = k.owner /\ up.task \in [Tasks -> TCBs]
  BY <1>1, <1>2, <1>4 DEF Moves, Alike, SameCalls, Sound, Kernel
<1>6. /\ Sound(r, Tasks) /\ Changes(up, r, {"task", "list", "rdy"})
      /\ r.task = [up.task EXCEPT ![t] = Blocking(@, m, timed)]
  BY <1>5, PendSound DEF Mutexes
<1> HIDE DEF r
<1>7. Fit(up, asked, gone)
  BY <1>4, MovesFit DEF MutexInv
<1>8. /\ Blocking(up.task[t], m, timed) \in TCBs
      /\ Blocking(up.task[t], m, timed).state \in Blocked
      /\ Blocking(up.task[t], m, timed).on = m
  BY <1>5, BlockingTCB DEF Mutexes
<1>9. ASSUME up.fault = {} PROVE Fit(r, asked', gone)
  <2> DEFINE x == Blocking(up.task[t], m, timed)
  <2>1. /\ x \in TCBs /\ x.state \in Blocked /\ x.on = m /\ m # None
        /\ r.task = [up.task EXCEPT ![t] = x]
    BY <1>6, <1>8, PrioType DEF Mutexes
  <2> HIDE DEF x
  <2>2. asked'[t] = m /\ \A u \in Tasks \ {t} : asked'[u] = asked[u]
    BY <1>1 DEF MutexInv, CallTypes
  <2>3. r.task[t] = x
    BY <1>5, <2>1
  <2>4. Asking(r, t, asked'[t], gone)
    BY <1>1, <2>1, <2>2, <2>3 DEF Asking, Blocked
  <2>5. x.state # "del" /\ up.owner[x.on] \in Tasks \ {t}
    BY <1>1, <1>3, <1>5, <2>1 DEF Blocked
  <2> QED
    BY <1>6, <1>7, <1>9, <2>1, <2>2, <2>4, <2>5, Turned
<1>10. r.fault = up.fault /\ MutexTypes(r)
  BY <1>5, <1>6 DEF Changes, MutexTypes
<1>11. Fit(r, asked', gone)
  BY <1>6, <1>9, <1>10 DEF Fit
<1>12. Fit(k', asked', gone) /\ Running(k')
  BY <1>1, <1>11, SchedFit
<1> QED
  BY <1>1, <1>12 DEF MutexInv, CallTypes

LEMMA InvTimeDly ==
  ASSUME MutexInv, Sane, NEW t \in Tasks, TimeDly(t)
  PROVE  MutexInv'
<1> DEFINE q == RdyListRemove(k, t)
           r == [q EXCEPT !.task[t].state = "dly"]
<1>1. /\ k' = Sched(r) /\ gone' = gone /\ changes' = changes /\ k.cur = t /\ asked[t] = None
      /\ asked' = asked
  BY DEF TimeDly, Calls
<1>2. /\ Healthy(k) /\ Sound(k, Tasks) /\ MutexTypes(k)
      /\ k.task[t].state = "rdy" /\ t # None /\ k.task \in [Tasks -> TCBs]
  BY <1>1, Caller
<1>3. Sound(q, Tasks \ {t}) /\ Changes(k, q, {"rdy"})
  BY <1>2, RdyOutSound
<1> HIDE DEF q
<1>4. /\ Sound(r, Tasks) /\ Changes(q, r, {"task"})
      /\ r.task = [q.task EXCEPT ![t].state = "dly"]
  BY <1>3, IdleSound
<1> HIDE DEF r
<1> DEFINE x == [k.task[t] EXCEPT !.state = "dly"]
<1>5. /\ Changes(k, r, {"task", "list", "rdy"}) /\ r.task = [k.task EXCEPT ![t] = x]
  BY <1>2, <1>3, <1>4 DEF Changes, Sound, Kernel, CoreFields
<1>6. x \in TCBs /\ x.state = "dly" /\ x.on = None /\ x.state \notin Blocked
  BY <1>2 DEF TCBs, States, Healthy, Outside, Blocked
<1> HIDE DEF x
<1>7. r.task[t] = x
  BY <1>2, <1>5
<1>8. Asking(r, t, asked[t], gone)
  BY <1>1, <1>6, <1>7 DEF Asking
<1>9. Fit(r, asked, gone)
  BY <1>4, <1>5, <1>6, <1>8, Turned DEF MutexInv, Sane
<1>10. Fit(k', asked, gone) /\ Running(k')
  BY <1>1, <1>9, SchedFit
<1> QED
  BY <1>1, <1>10 DEF MutexInv, CallTypes

LEMMA FitNow ==
  ASSUME MutexInv, Sane
  PROVE  /\ Healthy(k) /\ Sound(k, Tasks) /\ MutexTypes(k) /\ k.task \in [Tasks -> TCBs]
         /\ Walkable(k, Tasks) /\ Fit(k, asked, gone)
         /\ \A u \in Tasks : Asking(k, u, asked[u], gone)
BY FitWalkable DEF MutexInv, Sane, Fit, Sound, Kernel

LEMMA InvDelayOver ==
  ASSUME MutexInv, Sane, NEW u \in Tasks, k.task[u].state = "dly", DelayOver(u),
         asked' = asked, gone' = gone, changes' = changes
  PROVE  MutexInv'
<1> DEFINE r == RdyListInsert([k EXCEPT !.task[u].state = "rdy"], u)
           x == [k.task[u] EXCEPT !.state = "rdy"]
<1>1. k' = Sched(r)
  BY DEF DelayOver
<1>2. /\ Healthy(k) /\ Sound(k, Tasks) /\ MutexTypes(k) /\ k.task \in [Tasks -> TCBs]
      /\ Asking(k, u, asked[u], gone)
  BY FitNow
<1>3. /\ Sound(r, Tasks) /\ Changes(k, r, {"task", "rdy"})
      /\ r.task = [k.task EXCEPT ![u].state = "rdy"]
  BY <1>2, BackSound
<1> HIDE DEF r
<1>4. Changes(k, r, {"task", "list", "rdy"}) /\ r.task = [k.task EXCEPT ![u] = x]
  BY <1>3 DEF Changes
<1>5. x \in TCBs /\ x.state = "rdy" /\ x.on = None /\ x.state \notin Blocked
  BY <1>2 DEF TCBs, States, Healthy, Outside, Blocked
<1> HIDE DEF x
<1>6. r.task[u] = x
  BY <1>2, <1>4
<1>7. Asking(r, u, asked[u], gone)
  BY <1>2, <1>5, <1>6 DEF Asking
<1>8. Fit(r, asked, gone)
  BY <1>3, <1>4, <1>5, <1>7, Turned DEF MutexInv, Sane
<1>9. Fit(k', asked, gone) /\ Running(k')
  BY <1>1, <1>8, SchedFit
<1> QED
  BY <1>9 DEF MutexInv, CallTypes

LEMMA InvTimer ==
  ASSUME MutexInv, Sane, NEW u \in Tasks, TimerCallback(u)
  PROVE  MutexInv'
<1>1. asked' = asked /\ gone' = gone /\ changes' = changes
  BY DEF TimerCallback
<1>2. CASE k.task[u].state = "dly" /\ DelayOver(u)
  BY <1>1, <1>2, InvDelayOver
<1>3. CASE /\ k.task[u].state = "pendTimeout"
           /\ k' = Sched(Disinherit(EndPend(k, u, "timeout"), k.owner[k.task[u].on],
                                    k.task[u].prio))
  <2> DEFINE r == EndPend(k, u, "timeout")
             o == k.owner[k.task[u].on]
             x == Readied(k.task[u], "timeout")
             q == Disinherit(r, o, k.task[u].prio)
  <2>1. /\ Healthy(k) /\ Sound(k, Tasks) /\ MutexTypes(k) /\ k.task \in [Tasks -> TCBs]
        /\ Asking(k, u, asked[u], gone)
    BY FitNow
  <2>2. /\ k.task[u].state \in Blocked /\ k.task[u].on # None /\ o \in Tasks \ {u}
        /\ asked[u] = k.task[u].on
    BY <1>3, <2>1 DEF Healthy, Waited, Asking, Blocked
  <2>3. Ended(k, r, Tasks, u, "timeout")
    BY <2>1, <2>2, EndPendSound DEF Statuses
  <2> HIDE DEF r
  <2>4. /\ x \in TCBs /\ x.state = "rdy" /\ x.on = None /\ x.state \notin Blocked
        /\ x.status = "timeout"
    BY <2>1, ReadiedTCB DEF Statuses
  <2>5. /\ Sound(r, Tasks) /\ Changes(k, r, {"task", "list", "rdy"})
        /\ r.task = [k.task EXCEPT ![u] = x]
    BY <2>3 DEF Ended
  <2> HIDE DEF x
  <2>6. r.task[u] = x /\ r.owner = k.owner
    BY <2>1, <2>5 DEF Changes, MutexTypes
  <2>7. Asking(r, u, asked[u], gone)
    BY <2>2, <2>4, <2>6 DEF Asking
  <2>8. Fit(r, asked, gone)
    BY <2>4, <2>5, <2>7, Turned DEF MutexInv, Sane
  <2>9. r.fault = {}
    BY <2>1, <2>5 DEF Changes, MutexTypes, Sane
  <2>10. Walkable(r, Tasks)
    BY <2>8, <2>9, FitWalkable
  <2> HIDE DEF o
  <2>11. Moves(r, q, Tasks)
    BY <2>2, <2>10, DisinheritMoves
  <2>12. Fit(q, asked, gone)
    BY <2>8, <2>11, MovesFit
  <2>13. k' = Sched(q)
    BY <1>3 DEF r, o
  <2> HIDE DEF q
  <2>14. Fit(k', asked, gone) /\ Running(k')
    BY <2>12, <2>13, SchedFit
  <2> QED
    BY <1>1, <2>14 DEF MutexInv, CallTypes
<1> QED
  BY <1>2, <1>3 DEF TimerCallback
(* The owner gives up what it inherited through a mutex it no longer has.  *)
LEMMA RestoredSound ==
  ASSUME NEW s, Sound(s, Tasks), MutexTypes(s), NEW m \in Mutexes, GroupsBut(s, m),
         NEW t \in Tasks, s.task[t].state = "rdy"
  PROVE  /\ Sound(Restored(s, t), Tasks) /\ MutexTypes(Restored(s, t)) /\ Alike(s, Restored(s, t))
         /\ Restored(s, t).cur = s.cur /\ Restored(s, t).fault = s.fault
         /\ Restored(s, t).list = s.list
<1> DEFINE p == Uninherited(s, t)
           tail == RdyListInsertTail([RdyListRemove(s, t) EXCEPT !.task[t].prio = p], t)
           r == [tail EXCEPT !.prioCur = p]
           M == {n \in Mutexes \ {m} : s.owner[n] = t}
<1>1. p \in Prios
  <2>1. Lists(s.group[t], M) /\ M \in SUBSET Mutexes
    BY DEF GroupsBut
  <2> HIDE DEF M
  <2> QED
    BY <2>1, UninheritedPrio
<1> HIDE DEF p
<1>2. Moved(s, tail, Tasks, t, p)
  BY <1>1, RdyMoveSound
<1> HIDE DEF tail
<1>3. /\ Sound(tail, Tasks) /\ Changes(s, tail, {"task", "rdy"})
      /\ tail.task = [s.task EXCEPT ![t].prio = p]
  BY <1>2 DEF Moved
<1>4. /\ DOMAIN r = DOMAIN s /\ r.task = tail.task /\ r.rdy = tail.rdy /\ r.list = tail.list
      /\ r.cur = tail.cur /\ r.prioCur = p
      /\ \A f \in DOMAIN s \ {"task", "rdy", "prioCur"} : r[f] = s[f]
  BY <1>3 DEF Changes, Sound, Kernel, CoreFields
<1> HIDE DEF r
<1>5. /\ r.list = s.list /\ r.cur = s.cur /\ r.fault = s.fault
      /\ r.owner = s.owner /\ r.nest = s.nest /\ r.group = s.group
  BY <1>4 DEF MutexTypes, CoreFields
<1>6. p \in 0..PrioMax
  BY <1>1, PrioType DEF Prios
<1>7. Sound(r, Tasks)
  BY <1>3, <1>4, <1>6 DEF Sound, Kernel, Placed, Changes
<1>8. SameCalls(s, r)
  BY <1>3, <1>4 DEF SameCalls, Sound, Kernel, TCBs
<1>9. MutexTypes(r) /\ Alike(s, r)
  BY <1>4, <1>5, <1>8 DEF MutexTypes, Alike
<1>10. Restored(s, t) = r \/ Restored(s, t) = s
  BY DEF Restored, r, tail, p
<1>11. Alike(s, s)
  BY DEF Alike, SameCalls
<1> QED
  BY <1>5, <1>7, <1>9, <1>10, <1>11

LEMMA InvPostGive ==
  ASSUME MutexInv, Sane, NEW t \in Tasks, NEW m \in Mutexes, NEW sched \in BOOLEAN,
         MutexPostGive(t, m, sched)
  PROVE  MutexInv'
<1> DEFINE h == Head(k.list[m])
           d == Disown(k, m)
           x == Restored(d, t)
           y == Own(x, m, h)
           z == EndPend(y, h, "ok")
<1>1. /\ k' = IF sched THEN Sched(z) ELSE z
      /\ asked' = asked /\ gone' = gone /\ changes' = changes /\ k.cur = t
      /\ asked[t] = None /\ m \notin gone /\ k.owner[m] = t /\ k.list[m] # <<>>
  BY DEF MutexPostGive, Calls
<1>2. /\ Healthy(k) /\ Sound(k, Tasks) /\ MutexTypes(k) /\ k.task[t].state = "rdy" /\ t # None
      /\ k.task \in [Tasks -> TCBs] /\ \A u \in Tasks : Asking(k, u, asked[u], gone)
  BY <1>1, Caller
<1>3. h \in Tasks /\ k.task[h].state \in Blocked /\ k.task[h].on = m
  <2>1. Lists(k.list[m], WaitingAt(k.task, Tasks, m))
    BY <1>2 DEF Sound, Placed, Mutexes
  <2>2. h \in WaitingAt(k.task, Tasks, m)
    BY <1>1, <2>1, ListsNone
  <2> QED
    BY <2>2 DEF WaitingAt
<1>4. h # t /\ asked[h] = m
  BY <1>2, <1>3 DEF Asking, Blocked
<1>5. GroupsBut(d, m) /\ MutexTypes(d) /\ Changes(k, d, {"group"})
  BY <1>1, <1>2, DisownGroups DEF Healthy
<1> HIDE DEF d, h
<1>6. /\ Sound(d, Tasks) /\ d.task = k.task /\ d.owner = k.owner /\ d.nest = k.nest
      /\ d.cur = k.cur /\ d.fault = k.fault
  <2>1. Changes(k, d, {"owner", "nest", "group"})
    BY <1>5 DEF Changes
  <2> QED
    BY <1>2, <1>5, <2>1, SoundOwners DEF Changes, MutexTypes
<1>7. /\ Sound(x, Tasks) /\ MutexTypes(x) /\ Alike(d, x) /\ x.cur = d.cur /\ x.fault = d.fault
  BY <1>2, <1>5, <1>6, RestoredSound
<1> HIDE DEF x
<1>8. GroupsBut(x, m)
  BY <1>5, <1>7 DEF GroupsBut, Alike
<1>9. /\ Groups(y) /\ MutexTypes(y) /\ Changes(x, y, {"owner", "nest", "group"})
      /\ y.owner = [x.owner EXCEPT ![m] = h] /\ y.nest = [x.nest EXCEPT ![m] = 1]
  BY <1>3, <1>7, <1>8, OwnGroups
<1> HIDE DEF y
<1>10. Sound(y, Tasks) /\ y.task = x.task /\ y.cur = x.cur /\ y.fault = x.fault
  BY <1>7, <1>9, SoundOwners DEF Changes, MutexTypes
<1>11. y.task[h].state \in Blocked /\ y.task[h].on = m /\ m # None
  BY <1>3, <1>6, <1>7, <1>10, PrioType DEF Alike, SameCalls, Mutexes
<1>12. Ended(y, z, Tasks, h, "ok")
  BY <1>3, <1>10, <1>11, EndPendSound DEF Statuses
<1> HIDE DEF z
<1> DEFINE w == Readied(y.task[h], "ok")
<1>13. /\ w \in TCBs /\ w.state = "rdy" /\ w.on = None /\ w.status = "ok"
  BY <1>3, <1>10, ReadiedTCB DEF Sound, Kernel, Statuses
<1>14. /\ Sound(z, Tasks) /\ Changes(y, z, {"task", "list", "rdy"})
       /\ z.task = [y.task EXCEPT ![h] = w]
  BY <1>12 DEF Ended
<1> HIDE DEF w
<1>15. /\ z.owner = [k.owner EXCEPT ![m] = h] /\ z.nest = [k.nest EXCEPT ![m] = 1]
       /\ z.group = y.group /\ z.fault = {} /\ z.cur = t /\ DOMAIN z = DOMAIN y
  BY <1>1, <1>6, <1>7, <1>9, <1>10, <1>14 DEF Changes, MutexTypes, CoreFields, Alike, Sane
<1>16. /\ z.task[h] = w
       /\ \A u \in Tasks \ {h} : /\ z.task[u].state = k.task[u].state
                                   /\ z.task[u].on = k.task[u].on
                                   /\ z.task[u].status = k.task[u].status
  BY <1>3, <1>6, <1>7, <1>10, <1>14 DEF Alike, SameCalls, Sound, Kernel
<1>17. MutexTypes(z)
  BY <1>9, <1>14 DEF MutexTypes, Changes
<1>18. Groups(z)
  <2>1. z.group = y.group /\ z.owner = y.owner
    BY <1>9, <1>14 DEF Changes, MutexTypes
  <2> QED
    BY <1>9, <2>1 DEF Groups
<1>19. Nested(z)
  BY <1>2, <1>3, <1>15, PrioType DEF Healthy, Nested, MutexTypes
<1>20. Alive(z)
  BY <1>2, <1>3, <1>13, <1>15, <1>16 DEF Healthy, Alive, MutexTypes
<1>21. Waited(z, Tasks)
  BY <1>2, <1>3, <1>13, <1>15, <1>16 DEF Healthy, Waited, MutexTypes, Blocked
<1>22. Outside(z, Tasks)
  BY <1>2, <1>13, <1>16 DEF Healthy, Outside
<1>23. ASSUME NEW u \in Tasks PROVE Asking(z, u, asked[u], gone)
  <2>1. Asking(k, u, asked[u], gone) /\ asked[u] \in Mutexes \cup {None}
    BY <1>2 DEF MutexInv, CallTypes
  <2>2. asked[u] = None \/ z.owner[asked[u]] = IF asked[u] = m THEN h ELSE k.owner[asked[u]]
    BY <1>2, <1>15, <2>1 DEF MutexTypes
  <2>3. CASE u = h
    BY <1>1, <1>4, <1>11, <1>13, <1>16, <2>2, <2>3 DEF Asking, Blocked
  <2>4. CASE u # h
    BY <1>1, <1>2, <1>16, <2>1, <2>2, <2>4 DEF Asking
  <2> QED
    BY <2>3, <2>4
<1>24. Fit(z, asked, gone)
  BY <1>14, <1>17, <1>18, <1>19, <1>20, <1>21, <1>22, <1>23 DEF Fit, Healthy
<1>25. Running(z)
  BY <1>2, <1>4, <1>15, <1>16 DEF Running
<1>26. Fit(Sched(z), asked, gone) /\ Running(Sched(z))
  BY <1>24, SchedFit
<1> QED
  BY <1>1, <1>24, <1>25, <1>26 DEF MutexInv, CallTypes

(* A mutex that is deleted leaves the group it was in.                     *)
LEMMA ClearedGroups ==
  ASSUME NEW s, MutexTypes(s), Groups(s), NEW m \in Mutexes
  PROVE  LET r == Cleared(s, m)
         IN /\ Groups(r) /\ MutexTypes(r) /\ Changes(s, r, {"owner", "nest", "group"})
            /\ r.owner = [s.owner EXCEPT ![m] = None] /\ r.nest = [s.nest EXCEPT ![m] = 0]
<1> DEFINE off == IF s.owner[m] = None THEN s ELSE Disown(s, m)
           r == [off EXCEPT !.owner[m] = None, !.nest[m] = 0]
<1>1. GroupsBut(off, m) /\ MutexTypes(off) /\ Changes(s, off, {"group"})
  <2>1. CASE s.owner[m] = None
    BY <2>1, FreeGroupsBut DEF Changes
  <2>2. CASE s.owner[m] # None
    <3>1. s.owner[m] \in Tasks
      BY <2>2 DEF MutexTypes
    <3>2. LET q == Disown(s, m) IN GroupsBut(q, m) /\ MutexTypes(q) /\ Changes(s, q, {"group"})
      BY <3>1, DisownGroups
    <3> QED
      BY <2>2, <3>2
  <2> QED
    BY <2>1, <2>2
<1>2. r = Cleared(s, m)
  BY DEF Cleared
<1> HIDE DEF off
<1>3. /\ Groups(r) /\ MutexTypes(r) /\ Changes(off, r, {"owner", "nest"})
      /\ r.owner = [off.owner EXCEPT ![m] = None] /\ r.nest = [off.nest EXCEPT ![m] = 0]
  BY <1>1, FreeGroups, Zenon
<1> HIDE DEF r
<1>4. off.owner = s.owner /\ off.nest = s.nest
  BY <1>1 DEF Changes, MutexTypes
<1>5. Changes(s, r, {"owner", "nest", "group"})
  BY <1>1, <1>3 DEF Changes
<1> QED
  BY <1>2, <1>3, <1>4, <1>5

LEMMA ClearedFit ==
  ASSUME NEW s, NEW a \in [Tasks -> Mutexes \cup {None}], NEW dead, Fit(s, a, dead),
         s.fault = {}, NEW m \in Mutexes,
         \A u \in Tasks : s.task[u].state \in Blocked => s.task[u].on # m
  PROVE  /\ Fit(Cleared(s, m), a, dead \cup {m})
         /\ Changes(s, Cleared(s, m), {"owner", "nest", "group"})
<1> DEFINE r == Cleared(s, m)
<1>1. /\ Groups(r) /\ MutexTypes(r) /\ Changes(s, r, {"owner", "nest", "group"})
      /\ r.owner = [s.owner EXCEPT ![m] = None] /\ r.nest = [s.nest EXCEPT ![m] = 0]
  BY ClearedGroups DEF Fit, Healthy
<1> HIDE DEF r
<1>2. Fit(r, a, dead \cup {m})
  <2> DEFINE over == dead \cup {m}
  <2>1. dead \subseteq over /\ over = dead \cup {m}
    OBVIOUS
  <2> HIDE DEF over
  <2>2. Fit(r, a, over)
    BY <1>1, <2>1, Freed
  <2> QED
    BY <2>1, <2>2
<1> QED
  BY <1>1, <1>2 DEF r

LEMMA InvDelNoPend ==
  ASSUME MutexInv, Sane, NEW t \in Tasks, NEW m \in Mutexes, MutexDelNoPend(t, m)
  PROVE  MutexInv'
<1> DEFINE r == Cleared(k, m)
<1>1. /\ k' = r /\ asked' = asked /\ gone' = gone \cup {m} /\ changes' = changes + 1
      /\ changes < MaxChanges /\ k.list[m] = <<>>
  BY DEF MutexDelNoPend, Removable
<1>2. Sound(k, Tasks) /\ Fit(k, asked, gone)
  BY FitNow
<1>3. \A u \in Tasks : k.task[u].state \in Blocked => k.task[u].on # m
  BY <1>1, <1>2, NobodyWaits
<1>4. Fit(r, asked, gone \cup {m}) /\ Changes(k, r, {"owner", "nest", "group"})
  BY <1>2, <1>3, ClearedFit DEF MutexInv, CallTypes, Sane
<1> HIDE DEF r
<1>5. Running(r)
  BY <1>2, <1>4, SoundOwners DEF MutexInv, Running
<1>6. changes + 1 \in 0..MaxChanges
  BY <1>1, MutexAssumption DEF MutexInv, CallTypes, MutexAssumption
<1> QED
  BY <1>1, <1>4, <1>5, <1>6 DEF MutexInv, CallTypes

(* OS_OPT_DEL_ALWAYS: everyone who waits is told.                          *)
LEMMA AbortedFit ==
  ASSUME NEW s, NEW a \in [Tasks -> Mutexes \cup {None}], NEW dead, Fit(s, a, dead),
         s.fault = {}, NEW m \in Mutexes
  PROVE  LET r == PendAbortAll(s, m, "del")
         IN /\ Fit(r, a, dead \cup {m}) /\ r.fault = {} /\ r.owner = s.owner
            /\ \A u \in Tasks : r.task[u].state \in Blocked => r.task[u].on # m
<1> DEFINE r == PendAbortAll(s, m, "del")
           who == {t \in Tasks : s.task[t].on = m}
           over == dead \cup {m}
<1>1. /\ Healthy(s) /\ Sound(s, Tasks) /\ MutexTypes(s) /\ s.task \in [Tasks -> TCBs]
      /\ \A u \in Tasks : Asking(s, u, a[u], dead)
  BY DEF Fit, Sound, Kernel
<1> HIDE DEF who
<1>0. r = EndPends(s, m, who, "del") /\ \A u \in Tasks : u \in who <=> s.task[u].on = m
  BY DEF PendAbortAll, who
<1> HIDE DEF r
<1>2. /\ Sound(r, Tasks) /\ Changes(s, r, {"task", "list", "rdy"})
      /\ r.task = [t \in Tasks |-> IF t \in who /\ s.task[t].state \in Blocked /\ s.task[t].on = m
                                    THEN Readied(s.task[t], "del") ELSE s.task[t]]
  <2>1. m \in Objects /\ "del" \in Statuses
    BY DEF Mutexes, Statuses
  <2> QED
    BY <1>0, <1>1, <2>1, EndPendsSound
<1>3. ASSUME NEW u \in Tasks, s.task[u].state \in Blocked, s.task[u].on = m
      PROVE  /\ r.task[u].state = "rdy" /\ r.task[u].state \notin Blocked
             /\ r.task[u].on = None /\ a[u] = m
  BY <1>0, <1>1, <1>2, <1>3, ReadiedTCB DEF Statuses, Asking
<1>4. ASSUME NEW u \in Tasks, ~(s.task[u].state \in Blocked /\ s.task[u].on = m)
      PROVE  r.task[u] = s.task[u]
  BY <1>2, <1>4
<1>5. /\ r.owner = s.owner /\ r.nest = s.nest /\ r.group = s.group /\ r.fault = s.fault
      /\ DOMAIN r = DOMAIN s
  BY <1>1, <1>2 DEF Changes, MutexTypes
<1>6. MutexTypes(r) /\ Groups(r) /\ Nested(r)
  BY <1>1, <1>5 DEF MutexTypes, Healthy, Groups, Nested
<1>7. Alive(r)
  BY <1>1, <1>3, <1>4, <1>5 DEF Healthy, Alive
<1>8. Waited(r, Tasks)
  BY <1>1, <1>3, <1>4, <1>5 DEF Healthy, Waited
<1>9. Outside(r, Tasks)
  BY <1>1, <1>3, <1>4 DEF Healthy, Outside
<1>10. ASSUME NEW u \in Tasks PROVE Asking(r, u, a[u], over)
  <2>1. CASE s.task[u].state \in Blocked /\ s.task[u].on = m
    BY <1>3, <2>1 DEF Asking
  <2>2. CASE ~(s.task[u].state \in Blocked /\ s.task[u].on = m)
    BY <1>1, <1>4, <1>5, <2>2 DEF Asking
  <2> QED
    BY <2>1, <2>2
<1>11. \A u \in Tasks : r.task[u].state \in Blocked => r.task[u].on # m
  BY <1>3, <1>4
<1> QED
  BY <1>2, <1>5, <1>6, <1>7, <1>8, <1>9, <1>10, <1>11 DEF Fit, Healthy, r

LEMMA InvDelAlways ==
  ASSUME MutexInv, Sane, NEW t \in Tasks, NEW m \in Mutexes, MutexDelAlways(t, m)
  PROVE  MutexInv'
<1> DEFINE o == k.owner[m]
           e == PendAbortAll(k, m, "del")
           c == Cleared(e, m)
           r == IF o # None /\ c.task[o].prio # c.task[o].base
                THEN ChangePrio(c, o, Uninherited(c, o)) ELSE c
           over == gone \cup {m}
<1>1. /\ k' = Sched(r) /\ asked' = asked /\ gone' = over /\ changes' = changes + 1
      /\ changes < MaxChanges
  BY DEF MutexDelAlways, Removable
<1>2. /\ Fit(k, asked, gone) /\ MutexTypes(k)
      /\ asked \in [Tasks -> Mutexes \cup {None}] /\ k.fault = {}
  BY FitNow DEF MutexInv, CallTypes, Sane
<1>3. /\ Fit(e, asked, over) /\ e.fault = {}
      /\ \A u \in Tasks : e.task[u].state \in Blocked => e.task[u].on # m
  BY <1>2, AbortedFit
<1>4. over \cup {m} = over
  OBVIOUS
<1> HIDE DEF e, over
<1>5. Fit(c, asked, over \cup {m}) /\ Changes(e, c, {"owner", "nest", "group"})
  BY <1>2, <1>3, ClearedFit
<1> HIDE DEF c
<1>6. Fit(c, asked, over) /\ c.fault = {}
  BY <1>3, <1>4, <1>5 DEF Changes, Fit, MutexTypes
<1>7. Walkable(c, Tasks) /\ o \in Tasks \cup {None}
  BY <1>2, <1>6, FitWalkable DEF MutexTypes
<1>8. Fit(r, asked, over)
  <2>1. CASE o # None
    <3>1. o \in Tasks
      BY <1>7, <2>1
    <3> HIDE DEF o
    <3>2. Moves(c, ChangePrio(c, o, Uninherited(c, o)), Tasks)
      BY <1>7, <3>1, WalkablePrio, ChangePrioMoves
    <3>3. Fit(ChangePrio(c, o, Uninherited(c, o)), asked, over)
      BY <1>6, <3>2, MovesFit
    <3> QED
      BY <1>6, <3>3
  <2>2. CASE o = None
    BY <1>6, <2>2
  <2> QED
    BY <2>1, <2>2
<1> HIDE DEF r
<1>9. Fit(k', asked, over) /\ Running(k')
  BY <1>1, <1>8, SchedFit
<1>10. changes + 1 \in 0..MaxChanges /\ over \subseteq Mutexes
  BY <1>1, MutexAssumption DEF MutexInv, CallTypes, MutexAssumption, over
<1> QED
  BY <1>1, <1>9, <1>10 DEF MutexInv, CallTypes

(* OSTaskChangePrio: the base priority first.                              *)
LEMMA BaseMoves ==
  ASSUME NEW s, Sound(s, Tasks), MutexTypes(s), NEW u \in Tasks, NEW p \in Prios
  PROVE  Moves(s, [s EXCEPT !.task[u].base = p], Tasks)
<1> DEFINE r == [s EXCEPT !.task[u].base = p]
           f == [s.task EXCEPT ![u].base = p]
<1>1. Changes(s, r, {"task"}) /\ r.task = f
  BY DEF Changes, Sound, Kernel, CoreFields
<1> HIDE DEF r
<1>2. /\ f \in [Tasks -> TCBs]
      /\ \A v \in Tasks : /\ f[v].state = s.task[v].state /\ f[v].on = s.task[v].on
                           /\ f[v].status = s.task[v].status /\ f[v].prio = s.task[v].prio
  BY DEF Sound, Kernel, TCBs
<1> HIDE DEF f
<1>3. Placed(s, f, Tasks)
  BY <1>2, PlacedAgree DEF Sound
<1>4. /\ r.rdy = s.rdy /\ r.list = s.list /\ r.cur = s.cur /\ r.prioCur = s.prioCur
      /\ r.fault = s.fault /\ r.owner = s.owner /\ r.nest = s.nest /\ r.group = s.group
  BY <1>1 DEF Changes, Sound, Kernel, CoreFields, MutexTypes
<1>5. Sound(r, Tasks)
  BY <1>1, <1>2, <1>3, <1>4 DEF Sound, Kernel, Placed, Changes
<1>6. SameCalls(s, r)
  BY <1>1, <1>2 DEF SameCalls
<1> QED
  BY <1>1, <1>4, <1>5, <1>6 DEF Moves, Alike, MutexTypes, Changes, r

LEMMA InvTaskChangePrio ==
  ASSUME MutexInv, Sane, NEW t \in Tasks, NEW u \in Tasks, NEW p \in Prios,
         TaskChangePrio(t, u, p)
  PROVE  MutexInv'
<1> DEFINE given == [k EXCEPT !.task[u].base = p]
           prio == IF k.group[u] # <<>> /\ p > k.task[u].prio
                   THEN Higher(p, MutexGrpPrioFindHighest(given, u)) ELSE p
           r == ChangePrio(given, u, prio)
<1>1. /\ k' = Sched(r) /\ asked' = asked /\ gone' = gone /\ changes' = changes + 1
      /\ changes < MaxChanges
  BY DEF TaskChangePrio
<1>2. Fit(k, asked, gone) /\ Sound(k, Tasks) /\ MutexTypes(k) /\ Walkable(k, Tasks)
  BY FitNow
<1>3. Moves(k, given, Tasks)
  BY <1>2, BaseMoves
<1> HIDE DEF given
<1>4. Walkable(given, Tasks)
  BY <1>2, <1>3, MovesWalkable
<1>5. prio \in Prios
  BY <1>4, WalkablePrio DEF Higher
<1> HIDE DEF prio
<1>6. Moves(given, r, Tasks)
  BY <1>4, <1>5, ChangePrioMoves
<1> HIDE DEF r
<1>7. Fit(r, asked, gone)
  BY <1>2, <1>3, <1>6, MovesTrans, MovesFit
<1>8. Fit(k', asked, gone) /\ Running(k')
  BY <1>1, <1>7, SchedFit
<1>9. changes + 1 \in 0..MaxChanges
  BY <1>1, MutexAssumption DEF MutexInv, CallTypes, MutexAssumption
<1> QED
  BY <1>1, <1>8, <1>9 DEF MutexInv, CallTypes

LEMMA InvYield ==
  ASSUME MutexInv, Sane, NEW t \in Tasks, Yield(t)
  PROVE  MutexInv'
<1> DEFINE r == Rotated(k)
<1>1. k' = Sched(r) /\ asked' = asked /\ gone' = gone /\ changes' = changes /\ CanRotate(k)
  BY DEF Yield
<1>2. Fit(k, asked, gone) /\ Sound(k, Tasks) /\ MutexTypes(k)
  BY FitNow
<1>3. Sound(r, Tasks) /\ Changes(k, r, {"rdy"})
  BY <1>1, <1>2, RotatedSound
<1> HIDE DEF r
<1>4. /\ r.task = k.task /\ r.owner = k.owner /\ r.nest = k.nest /\ r.group = k.group
      /\ r.fault = k.fault /\ DOMAIN r = DOMAIN k /\ r.cur = k.cur /\ r.prioCur = k.prioCur
  BY <1>2, <1>3 DEF Changes, MutexTypes, CoreFields
<1>5. Moves(k, r, Tasks)
  BY <1>2, <1>3, <1>4 DEF Moves, Alike, SameCalls, MutexTypes
<1>6. Fit(k', asked, gone) /\ Running(k')
  BY <1>1, <1>2, <1>5, MovesFit, SchedFit
<1> QED
  BY <1>1, <1>6 DEF MutexInv, CallTypes

(* OSTaskDel: the task leaves its list, and the owner of what it waited    *)
(* for may go down.  Off is the state it leaves.                           *)
Off(s, u) ==
  IF s.task[u].state = "rdy" THEN RdyListRemove(s, u)
  ELSE IF s.task[u].state \in Blocked
    THEN Disinherit(PendListRemove(s, u), s.owner[s.task[u].on], s.task[u].prio)
  ELSE s

Left(s, r, u) ==
  /\ Sound(r, Tasks \ {u}) /\ MutexTypes(r) /\ r.task[u].on = None
  /\ r.owner = s.owner /\ r.nest = s.nest /\ r.group = s.group /\ r.cur = s.cur
  /\ \A v \in Tasks \ {u} : /\ r.task[v].state = s.task[v].state
                            /\ r.task[v].on = s.task[v].on
                            /\ r.task[v].status = s.task[v].status

LEMMA OffLeft ==
  ASSUME MutexInv, Sane, NEW u \in Tasks
  PROVE  Left(k, Off(k, u), u)
<1> DEFINE T == Tasks \ {u}
           r == Off(k, u)
<1>1. /\ Healthy(k) /\ Sound(k, Tasks) /\ MutexTypes(k) /\ k.task \in [Tasks -> TCBs]
      /\ T \in SUBSET Tasks
  BY FitNow
<1>2. CASE k.task[u].state = "rdy"
  <2>1. r = RdyListRemove(k, u)
    BY <1>2 DEF Off
  <2>2. Sound(r, T) /\ Changes(k, r, {"rdy"})
    BY <1>1, <1>2, <2>1, RdyOutSound
  <2> HIDE DEF r
  <2>3. /\ r.task = k.task /\ r.owner = k.owner /\ r.nest = k.nest /\ r.group = k.group
        /\ r.cur = k.cur /\ MutexTypes(r)
    BY <1>1, <2>2 DEF Changes, MutexTypes, CoreFields
  <2>4. k.task[u].on = None
    BY <1>1, <1>2 DEF Healthy, Outside, Blocked
  <2> QED
    BY <2>2, <2>3, <2>4 DEF Left, r
<1>3. CASE k.task[u].state \in Blocked
  <2> DEFINE q == PendListRemove(k, u)
             o == k.owner[k.task[u].on]
  <2>1. r = Disinherit(q, o, k.task[u].prio)
    BY <1>3 DEF Off, Blocked
  <2>2. k.task[u].on # None /\ o \in Tasks
    BY <1>1, <1>3 DEF Healthy, Waited
  <2>3. /\ Sound(q, T) /\ Changes(k, q, {"list", "task"})
        /\ q.task = [k.task EXCEPT ![u].on = None]
    BY <1>1, <1>3, <2>2, PendOutSound
  <2> HIDE DEF q, r, o
  <2>4. /\ q.owner = k.owner /\ q.nest = k.nest /\ q.group = k.group /\ q.cur = k.cur
        /\ MutexTypes(q)
    BY <1>1, <2>3 DEF Changes, MutexTypes, CoreFields
  <2>5. /\ q.task[u].on = None /\ q.task[u].state \in Blocked
        /\ \A v \in T : q.task[v] = k.task[v]
    BY <1>1, <1>3, <2>3 DEF TCBs
  <2>6. Groups(q)
    BY <1>1, <2>4 DEF Healthy, Groups
  <2>7. Waited(q, T)
    BY <1>1, <2>4, <2>5 DEF Healthy, Waited
  <2>8. Outside(q, T)
    BY <1>1, <2>5 DEF Healthy, Outside
  <2>9. Moves(q, r, T)
    <3>1. Walkable(q, T)
      BY <2>3, <2>4, <2>6, <2>7, <2>8 DEF Walkable
    <3> HIDE DEF T
    <3> QED
      BY <1>1, <2>1, <2>2, <3>1, DisinheritMoves
  <2> QED
    BY <2>4, <2>5, <2>9 DEF Left, Moves, Alike, SameCalls, r
<1>4. CASE k.task[u].state \in {"dly", "del"}
  <2>1. r = k
    BY <1>4 DEF Off, Blocked
  <2>2. \A p : ReadyAt(k.task, Tasks, p) = ReadyAt(k.task, T, p)
    BY <1>4 DEF ReadyAt
  <2>3. \A o : WaitingAt(k.task, Tasks, o) = WaitingAt(k.task, T, o)
    BY <1>4 DEF WaitingAt, Blocked
  <2>4. Sound(k, T)
    BY <1>1, <2>2, <2>3 DEF Sound, Placed
  <2>5. k.task[u].on = None
    BY <1>1, <1>4 DEF Healthy, Outside, Blocked
  <2> QED
    BY <1>1, <2>1, <2>4, <2>5 DEF Left
<1>5. k.task[u].state \in States
  BY <1>1 DEF TCBs
<1> QED
  BY <1>2, <1>3, <1>4, <1>5 DEF States

(* OS_MutexGrpPostAll, one mutex: freed if nobody waits for it, or else    *)
(* handed on the wrong way.                                                *)
LEMMA PostOneSound ==
  ASSUME NEW s, NEW u \in Tasks, Sound(s, Tasks \ {u}), MutexTypes(s), NEW m \in Mutexes
  PROVE  LET r == GrpPostOne(s, u, m)
         IN /\ Sound(r, Tasks \ {u}) /\ MutexTypes(r) /\ s.fault \subseteq r.fault
            /\ r.task[u] = s.task[u]
            /\ s.list[m] # <<>> => r.fault # {}
<1> DEFINE T == Tasks \ {u}
           h == Head(s.list[m])
           off == [s EXCEPT !.group[u] = Without(@, m)]
           freed == [off EXCEPT !.owner[m] = None, !.nest[m] = 0]
           wrong == [off EXCEPT !.owner[m] = u, !.nest[m] = 1, !.group[h] = <<m>> \o @,
                                !.fault = @ \cup {"orphan"}]
           r == GrpPostOne(s, u, m)
<1>0. /\ m \in Objects /\ u \in Tasks /\ m # None /\ MaxNest \in Nat \ {0}
      /\ s.task \in [Tasks -> TCBs]
  BY PrioType, MutexAssumption DEF Mutexes, MutexAssumption, Sound, Kernel
<1>1. CASE s.list[m] = <<>>
  <2>1. r = freed
    BY <1>1 DEF GrpPostOne
  <2>2. /\ Changes(s, freed, {"owner", "nest", "group"})
        /\ freed.owner = [s.owner EXCEPT ![m] = None] /\ freed.nest = [s.nest EXCEPT ![m] = 0]
    BY DEF Changes, MutexTypes
  <2> HIDE DEF freed, T, r
  <2>3. Sound(r, T) /\ r.task = s.task
    BY <2>1, <2>2, SoundOwners DEF T
  <2>4. MutexTypes(r) /\ r.fault = s.fault
    BY <1>0, <2>1, <2>2 DEF Changes, MutexTypes
  <2> QED
    BY <1>1, <2>3, <2>4 DEF r, T
<1>2. CASE s.list[m] # <<>>
  <2>1. r = EndPend(wrong, h, "ok")
    BY <1>2 DEF GrpPostOne
  <2>2. h \in T /\ s.task[h].state \in Blocked /\ s.task[h].on = m
    <3>1. Lists(s.list[m], WaitingAt(s.task, T, m))
      BY <1>0 DEF Sound, Placed
    <3>2. h \in WaitingAt(s.task, T, m)
      BY <1>2, <3>1, ListsNone
    <3> QED
      BY <3>2 DEF WaitingAt
  <2>3. /\ Changes(s, wrong, {"owner", "nest", "group", "fault"})
        /\ wrong.owner = [s.owner EXCEPT ![m] = u] /\ wrong.nest = [s.nest EXCEPT ![m] = 1]
        /\ wrong.fault = s.fault \cup {"orphan"}
    BY DEF Changes, MutexTypes
  <2> HIDE DEF wrong, h, r
  <2>4. Sound(wrong, T) /\ wrong.task = s.task
    <3>1. DOMAIN wrong = DOMAIN s /\ \A f \in CoreFields : wrong[f] = s[f]
      BY <2>3 DEF Changes, CoreFields, Sound, Kernel
    <3> HIDE DEF T
    <3> QED
      BY <3>1, SoundAgree DEF CoreFields, T
  <2>5. MutexTypes(wrong)
    BY <1>0, <2>3 DEF Changes, MutexTypes, Faults
  <2>6. Ended(wrong, r, T, h, "ok")
    <3>1. T \in SUBSET Tasks
      OBVIOUS
    <3> HIDE DEF T
    <3> QED
      BY <1>0, <2>1, <2>2, <2>4, <3>1, EndPendSound DEF Statuses
  <2>7. /\ Sound(r, T) /\ Changes(wrong, r, {"task", "list", "rdy"})
        /\ r.task = [wrong.task EXCEPT ![h] = Readied(@, "ok")]
    BY <2>6 DEF Ended
  <2>8. MutexTypes(r) /\ r.fault = wrong.fault
    BY <2>5, <2>7 DEF Changes, MutexTypes
  <2>9. r.task[u] = s.task[u]
    BY <1>0, <2>2, <2>4, <2>7
  <2> QED
    BY <2>3, <2>7, <2>8, <2>9 DEF r
<1> QED
  BY <1>1, <1>2

LEMMA PostOneFrees ==
  ASSUME NEW s, NEW u \in Tasks, Sound(s, Tasks \ {u}), MutexTypes(s), NEW m \in Mutexes,
         s.list[m] = <<>>, Groups(s), Nested(s), s.owner[m] = u
  PROVE  LET r == GrpPostOne(s, u, m)
         IN /\ Groups(r) /\ Nested(r) /\ r.owner = [s.owner EXCEPT ![m] = None]
            /\ r.task = s.task /\ r.list = s.list /\ r.cur = s.cur
<1> DEFINE d == Disown(s, m)
           q == [d EXCEPT !.owner[m] = None, !.nest[m] = 0]
           r == GrpPostOne(s, u, m)
<1>1. r = q
  BY DEF GrpPostOne, Disown
<1> HIDE DEF r
<1>2. GroupsBut(d, m) /\ MutexTypes(d) /\ Changes(s, d, {"group"})
  BY DisownGroups
<1> HIDE DEF d
<1>3. /\ Groups(q) /\ MutexTypes(q) /\ Changes(d, q, {"owner", "nest"})
      /\ q.owner = [d.owner EXCEPT ![m] = None] /\ q.nest = [d.nest EXCEPT ![m] = 0]
  BY <1>2, FreeGroups, Zenon
<1> HIDE DEF q
<1>4. d.owner = s.owner /\ d.nest = s.nest /\ Changes(s, q, {"owner", "nest", "group"})
  BY <1>2, <1>3 DEF Changes, MutexTypes
<1>5. q.task = s.task /\ q.list = s.list /\ q.cur = s.cur
  BY <1>4, SoundOwners
<1>6. Nested(q)
  BY <1>3, <1>4 DEF Nested, MutexTypes
<1> QED
  BY <1>1, <1>3, <1>4, <1>5, <1>6 DEF r

LEMMA GrpPostWalk ==
  ASSUME NEW s, NEW u, Len(s.group[u]) \in Nat
  PROVE  \E w :
           /\ w[0] = s
           /\ \A n \in 1..Len(s.group[u]) : w[n] = GrpPostOne(w[n - 1], u, s.group[u][n])
           /\ GrpPostAll(s, u) = w[Len(s.group[u])]
<1> DEFINE N == Len(s.group[u])
           G(n, v) == GrpPostOne(v, u, s.group[u][n])
           Walks(w, m) == w = [n \in 0..m |-> IF n = 0 THEN s ELSE G(n, w[n - 1])]
           S == {m \in Nat : \E w : Walks(w, m)}
           walk == CHOOSE w : Walks(w, N)
<1>1. GrpPostAll(s, u) = walk[N]
  BY DEF GrpPostAll
<1> HIDE DEF G
<1>2. 0 \in S
  <2>1. Walks([n \in 0..0 |-> s], 0)
    OBVIOUS
  <2> QED
    BY <2>1
<1>3. ASSUME NEW m \in Nat, m \in S PROVE m + 1 \in S
  <2>1. PICK w : Walks(w, m)
    BY <1>3
  <2> DEFINE v == [n \in 0..(m + 1) |-> IF n = m + 1 THEN G(m + 1, w[m]) ELSE w[n]]
  <2>2. ASSUME NEW n \in 0..(m + 1) PROVE v[n] = IF n = 0 THEN s ELSE G(n, v[n - 1])
    <3>1. CASE n = 0
      BY <2>1, <3>1
    <3>2. CASE n # 0 /\ n # m + 1
      <4>1. n \in 0..m /\ n - 1 \in 0..m /\ n - 1 # m + 1
        BY <3>2
      <4>2. v[n] = w[n] /\ v[n - 1] = w[n - 1] /\ w[n] = G(n, w[n - 1])
        BY <2>1, <3>2, <4>1
      <4> QED
        BY <3>2, <4>2
    <3>3. CASE n = m + 1
      <4>1. n - 1 = m /\ m \in 0..(m + 1) /\ m # m + 1 /\ n # 0
        BY <3>3
      <4>2. v[m] = w[m] /\ v[n] = G(n, w[m])
        BY <3>3, <4>1
      <4> QED
        BY <4>1, <4>2
    <3> QED
      BY <3>1, <3>2, <3>3
  <2>3. Walks(v, m + 1)
    <3>1. v = [n \in 0..(m + 1) |-> v[n]]
      OBVIOUS
    <3> HIDE DEF v
    <3> QED
      BY <2>2, <3>1
  <2> HIDE DEF Walks, v
  <2>4. m + 1 \in Nat /\ \E x : Walks(x, m + 1)
    BY <2>3
  <2> QED
    BY <2>4
<1>4. N \in S
  <2> HIDE DEF S
  <2> QED
    BY <1>2, <1>3, Induction
<1>5. Walks(walk, N)
  BY <1>4
<1>6. walk[0] = s /\ \A n \in 1..N : walk[n] = G(n, walk[n - 1])
  <2> HIDE DEF walk, N
  <2>1. N \in Nat
    BY DEF N
  <2> QED
    BY <1>5, <2>1
<1> HIDE DEF walk
<1> QED
  BY <1>1, <1>6 DEF G

(* All of them.  Without a mistake, every mutex the task owned is free now *)
(* and nobody waited for it.                                               *)
Posted(s, r, u) ==
  /\ Sound(r, Tasks \ {u}) /\ MutexTypes(r) /\ r.task[u] = s.task[u] /\ s.fault \subseteq r.fault
  /\ r.fault = {} =>
       /\ Groups(r) /\ Nested(r) /\ r.task = s.task /\ r.list = s.list /\ r.cur = s.cur
       /\ \A m \in Mutexes :
            /\ s.owner[m] = u => s.list[m] = <<>> /\ r.owner[m] = None
            /\ s.owner[m] # u => r.owner[m] = s.owner[m]

LEMMA GrpPosted ==
  ASSUME NEW s, NEW u \in Tasks, Sound(s, Tasks \ {u}), MutexTypes(s), Groups(s), Nested(s)
  PROVE  Posted(s, GrpPostAll(s, u), u)
<1> DEFINE l == s.group[u]
           N == Len(l)
           M == {m \in Mutexes : s.owner[m] = u}
           g == GrpPostAll(s, u)
<1>1. /\ Lists(l, M) /\ N \in Nat /\ \A i \in 1..N : l[i] \in M
      /\ \A i, j \in 1..N : l[i] = l[j] => i = j
      /\ \A m \in M : \E i \in 1..N : l[i] = m
  <2> HIDE DEF l, M
  <2>1. Lists(l, M)
    BY DEF Groups, l, M
  <2> QED
    BY <2>1, ListsNone DEF Lists
<1>2. PICK w : /\ w[0] = s /\ \A n \in 1..N : w[n] = GrpPostOne(w[n - 1], u, l[n])
               /\ g = w[N]
  BY <1>1, GrpPostWalk
<1> HIDE DEF l, N, g
<1> DEFINE Done(n) == {l[i] : i \in 1..n}
           Good(n) ==
             /\ Sound(w[n], Tasks \ {u}) /\ MutexTypes(w[n]) /\ w[n].task[u] = s.task[u]
             /\ s.fault \subseteq w[n].fault
             /\ w[n].fault = {} =>
                  /\ Groups(w[n]) /\ Nested(w[n]) /\ w[n].task = s.task /\ w[n].list = s.list
                  /\ w[n].cur = s.cur
                  /\ \A m \in Done(n) : s.list[m] = <<>>
                  /\ \A m \in Mutexes : w[n].owner[m] = IF m \in Done(n) THEN None ELSE s.owner[m]
           S == {n \in Nat : n <= N => Good(n)}
<1>3. 0 \in S
  BY <1>2
<1>4. ASSUME NEW n \in Nat, n \in S PROVE n + 1 \in S
  <2> SUFFICES ASSUME n + 1 <= N PROVE Good(n + 1)
    OBVIOUS
  <2> DEFINE v == w[n]
             m == l[n + 1]
             r == GrpPostOne(v, u, m)
  <2>1. Good(n) /\ n + 1 \in 1..N /\ n + 1 - 1 = n
    BY <1>1, <1>4
  <2>2. w[n + 1] = r /\ m \in Mutexes /\ s.owner[m] = u
    <3>1. l[n + 1] \in M
      BY <1>1, <2>1
    <3>2. w[n + 1] = GrpPostOne(w[n + 1 - 1], u, l[n + 1]) /\ w[n + 1 - 1] = w[n]
      <4> HIDE DEF S, M
      <4>1. \A i \in 1..N : w[i] = GrpPostOne(w[i - 1], u, l[i])
        BY <1>2
      <4> QED
        BY <2>1, <4>1
    <3> QED
      BY <3>1, <3>2
  <2>3. /\ Sound(v, Tasks \ {u}) /\ MutexTypes(v) /\ v.task[u] = s.task[u]
        /\ s.fault \subseteq v.fault
    BY <2>1
  <2>4. /\ Sound(r, Tasks \ {u}) /\ MutexTypes(r) /\ v.fault \subseteq r.fault
        /\ r.task[u] = v.task[u] /\ (v.list[m] # <<>> => r.fault # {})
    BY <2>2, <2>3, PostOneSound
  <2>5. ASSUME r.fault = {}
        PROVE  /\ Groups(r) /\ Nested(r) /\ r.task = s.task /\ r.list = s.list /\ r.cur = s.cur
               /\ \A x \in Done(n + 1) : s.list[x] = <<>>
               /\ \A x \in Mutexes : r.owner[x] = IF x \in Done(n + 1) THEN None ELSE s.owner[x]
    <3>1. /\ Groups(v) /\ Nested(v) /\ v.task = s.task /\ v.list = s.list /\ v.cur = s.cur
          /\ \A x \in Done(n) : s.list[x] = <<>>
          /\ \A x \in Mutexes : v.owner[x] = IF x \in Done(n) THEN None ELSE s.owner[x]
      BY <2>1, <2>4, <2>5
    <3>2. v.list[m] = <<>>
      BY <2>4, <2>5
    <3>3. m \notin Done(n)
      BY <1>1, <2>1
    <3>4. Done(n + 1) = Done(n) \cup {m}
      <4>1. 1..(n + 1) = 1..n \cup {n + 1}
        OBVIOUS
      <4> QED
        BY <4>1
    <3> HIDE DEF Done, v, r, m
    <3>5. v.owner[m] = u
      BY <2>2, <3>1, <3>3
    <3>6. /\ Groups(r) /\ Nested(r) /\ r.owner = [v.owner EXCEPT ![m] = None]
          /\ r.task = v.task /\ r.list = v.list /\ r.cur = v.cur
      BY <2>2, <2>3, <3>1, <3>2, <3>5, PostOneFrees DEF r
    <3> QED
      BY <2>2, <2>3, <3>1, <3>2, <3>4, <3>6 DEF MutexTypes
  <2> HIDE DEF r, v
  <2> QED
    BY <2>2, <2>3, <2>4, <2>5
<1>5. Good(N)
  <2>1. Nat \subseteq S
    <3> HIDE DEF S
    <3> QED
      BY <1>3, <1>4, Induction
  <2>2. N \in S
    BY <1>1, <2>1, Zenon
  <2> HIDE DEF Good
  <2> QED
    BY <1>1, <2>2
<1>6. \A m \in Mutexes : m \in Done(N) <=> s.owner[m] = u
  BY <1>1
<1> HIDE DEF Done
<1> QED
  BY <1>2, <1>5, <1>6 DEF Posted, g

LEMMA InvTaskDel ==
  ASSUME MutexInv, Sane, NEW t \in Tasks, NEW u \in Tasks, TaskDel(t, u)
  PROVE  MutexInv'
<1> DEFINE off == Off(k, u)
           g == GrpPostAll(off, u)
           r == [g EXCEPT !.task[u].state = "del"]
           T == Tasks \ {u}
<1>1. /\ k' = Sched(r) /\ asked' = [asked EXCEPT ![u] = None] /\ gone' = gone
      /\ changes' = changes + 1 /\ changes < MaxChanges
  BY Zenon DEF TaskDel, Off
<1>2. /\ Healthy(k) /\ Sound(k, Tasks) /\ MutexTypes(k)
      /\ \A v \in Tasks : Asking(k, v, asked[v], gone)
  BY FitNow
<1>3. Left(k, off, u)
  BY <1>1, OffLeft
<1> HIDE DEF off
<1>4. Groups(off) /\ Nested(off)
  BY <1>2, <1>3 DEF Left, Healthy, Groups, Nested
<1>5. Posted(off, g, u)
  BY <1>3, <1>4, GrpPosted DEF Left
<1> HIDE DEF g
<1>6. /\ Sound(r, Tasks) /\ Changes(g, r, {"task"})
      /\ r.task = [g.task EXCEPT ![u].state = "del"]
  BY <1>5, IdleSound DEF Posted
<1> HIDE DEF r
<1>7. /\ r.owner = g.owner /\ r.nest = g.nest /\ r.group = g.group /\ r.fault = g.fault
      /\ r.list = g.list /\ MutexTypes(r)
  BY <1>5, <1>6 DEF Posted, Changes, MutexTypes, CoreFields
<1>8. /\ r.task[u].state = "del" /\ r.task[u].on = None /\ r.task[u].state \notin Blocked
      /\ \A v \in T : r.task[v] = g.task[v]
  BY <1>3, <1>5, <1>6 DEF Posted, Left, Sound, Kernel, TCBs, Blocked
<1>9. asked'[u] = None /\ \A v \in T : asked'[v] = asked[v]
  BY <1>1 DEF MutexInv, CallTypes
<1>10. ASSUME r.fault = {} PROVE Healthy(r) /\ \A v \in Tasks : Asking(r, v, asked'[v], gone)
  <2>1. /\ Groups(r) /\ Nested(r)
        /\ \A v \in T : /\ r.task[v].state = k.task[v].state /\ r.task[v].on = k.task[v].on
                       /\ r.task[v].status = k.task[v].status
    <3>1. Groups(g) /\ Nested(g) /\ g.task = off.task
      BY <1>5, <1>7, <1>10 DEF Posted
    <3>2. Groups(r)
      BY <1>7, <3>1 DEF Groups
    <3>3. Nested(r)
      BY <1>7, <3>1 DEF Nested
    <3> QED
      BY <1>3, <1>8, <3>1, <3>2, <3>3 DEF Left
  <2>2. \A m \in Mutexes : /\ k.owner[m] = u => off.list[m] = <<>> /\ r.owner[m] = None
                           /\ k.owner[m] # u => r.owner[m] = k.owner[m]
    BY <1>3, <1>5, <1>7, <1>10 DEF Posted, Left
  <2>3. Alive(r)
    BY <1>2, <1>8, <2>1, <2>2, PrioType DEF Healthy, Alive
  <2>4. ASSUME NEW v \in Tasks, r.task[v].state \in Blocked
        PROVE  r.task[v].on # None /\ r.owner[r.task[v].on] \in Tasks \ {v}
    <3>1. v \in T /\ k.task[v].state \in Blocked /\ k.task[v].on = r.task[v].on
      BY <1>8, <2>1, <2>4
    <3>2. k.task[v].on # None /\ k.owner[k.task[v].on] \in Tasks \ {v}
      BY <1>2, <3>1 DEF Healthy, Waited
    <3>3. k.task[v].on \in Mutexes
      BY <1>2, <3>2 DEF Sound, Kernel, TCBs, Mutexes
    <3>4. off.task[v].state \in Blocked /\ off.task[v].on = k.task[v].on
      BY <1>3, <3>1 DEF Left
    <3>5. off.list[k.task[v].on] # <<>>
      BY <1>3, <3>1, <3>3, <3>4, NobodyWaits DEF Left
    <3> QED
      BY <2>2, <3>1, <3>2, <3>3, <3>5
  <2>5. Waited(r, Tasks)
    BY <2>4 DEF Waited
  <2>6. Outside(r, Tasks)
    BY <1>2, <1>8, <2>1 DEF Healthy, Outside
  <2>7. ASSUME NEW v \in Tasks PROVE Asking(r, v, asked'[v], gone)
    <3>1. CASE v = u
      BY <1>8, <1>9, <3>1 DEF Asking
    <3>2. CASE v # u
      <4>1. Asking(k, v, asked[v], gone) /\ asked'[v] = asked[v] /\ v \in T
        BY <1>2, <1>9, <3>2
      <4>2. asked[v] = None \/ asked[v] \in Mutexes
        BY DEF MutexInv, CallTypes
      <4>3. asked[v] # None => (r.owner[asked[v]] = v <=> k.owner[asked[v]] = v)
        BY <2>2, <3>2, <4>2, PrioType
      <4> QED
        BY <2>1, <4>1, <4>3 DEF Asking
    <3> QED
      BY <3>1, <3>2
  <2> QED
    BY <2>1, <2>3, <2>5, <2>6, <2>7 DEF Healthy
<1>11. Fit(r, asked', gone)
  BY <1>6, <1>7, <1>10 DEF Fit
<1>12. Fit(k', asked', gone) /\ Running(k')
  BY <1>1, <1>11, SchedFit
<1>13. changes + 1 \in 0..MaxChanges
  BY <1>1, MutexAssumption DEF MutexInv, CallTypes, MutexAssumption
<1> QED
  BY <1>1, <1>12, <1>13 DEF MutexInv, CallTypes

-----------------------------------------------------------------------------
(* The invariant holds, and what follows from it.                          *)

LEMMA InvInit == Init => MutexInv
<1> SUFFICES ASSUME Init PROVE MutexInv
  OBVIOUS
<1>1. /\ Sound(Started, Tasks) /\ DOMAIN Started = CoreFields
      /\ Started.cur \in Tasks /\ Started.prioCur \in Prios
      /\ Started.task = [t \in Tasks |-> [prio |-> Base[t], base |-> Base[t], state |-> "rdy",
                                          on |-> None, status |-> "ok"]]
  BY StartedSound
<1>4. /\ DOMAIN k = CoreFields \cup {"owner", "nest", "group", "fault"}
      /\ \A f \in CoreFields : k[f] = Started[f]
      /\ k.owner = [m \in Mutexes |-> None] /\ k.nest = [m \in Mutexes |-> 0]
      /\ k.group = [t \in Tasks |-> <<>>] /\ k.fault = {}
  BY DEF Init, CoreFields
<1>5. k.task = Started.task /\ k.cur = Started.cur
  BY <1>4 DEF CoreFields
<1>6. Sound(k, Tasks)
  BY <1>1, <1>4 DEF Sound, Kernel, Placed, CoreFields
<1>7. MutexTypes(k)
  BY <1>4, MutexAssumption DEF MutexTypes, MutexAssumption
<1>8. Groups(k)
  <2>1. ASSUME NEW t \in Tasks PROVE Lists(k.group[t], {m \in Mutexes : k.owner[m] = t})
    <3>1. {m \in Mutexes : k.owner[m] = t} = {}
      BY <1>4, PrioType
    <3>2. k.group[t] = <<>>
      BY <1>4
    <3> QED
      BY <3>1, <3>2, ListsEmpty
  <2> QED
    BY <1>4, <2>1 DEF Groups
<1>9. Nested(k) /\ Alive(k)
  BY <1>4, PrioType DEF Nested, Alive
<1>10. \A t \in Tasks : k.task[t].state = "rdy" /\ k.task[t].on = None
  BY <1>1, <1>5
<1>11. Waited(k, Tasks) /\ Outside(k, Tasks)
  BY <1>10 DEF Waited, Outside, Blocked
<1>12. \A t \in Tasks : asked[t] = None /\ Asking(k, t, asked[t], gone)
  BY <1>10 DEF Init, Asking, Blocked
<1>13. CallTypes
  BY MutexAssumption DEF Init, CallTypes, MutexAssumption
<1>14. Running(k)
  BY <1>1, <1>5, <1>10 DEF Running
<1> QED
  BY <1>6, <1>7, <1>8, <1>9, <1>11, <1>12, <1>13, <1>14 DEF MutexInv, Fit, Healthy

LEMMA InvNext == MutexInv /\ [Next]_vars => MutexInv'
<1> SUFFICES ASSUME MutexInv, [Next]_vars PROVE MutexInv'
  OBVIOUS
<1>1. CASE Next
  <2>1. Sane /\ Calling
    BY <1>1 DEF Next
  <2>2. ASSUME NEW t \in Tasks, NEW m \in Mutexes,
               \/ MutexTake(t, m) \/ MutexTakeAgain(t, m)
               \/ \E timed \in BOOLEAN : MutexBlock(t, m, timed)
               \/ MutexPostNested(t, m) \/ MutexPostFree(t, m)
               \/ \E sched \in BOOLEAN : MutexPostGive(t, m, sched)
               \/ MutexDelNoPend(t, m) \/ MutexDelAlways(t, m)
        PROVE  MutexInv'
    BY <2>1, <2>2, InvTake, InvNesting, InvBlock, InvPostFree, InvPostGive, InvDelNoPend,
       InvDelAlways
  <2>3. ASSUME NEW t \in Tasks,
               MutexPendReturns(t) \/ TimeDly(t) \/ Yield(t) \/ TimerCallback(t)
        PROVE  MutexInv'
    BY <2>1, <2>3, InvPendReturns, InvTimeDly, InvYield, InvTimer
  <2>4. ASSUME NEW t \in Tasks, NEW u \in Tasks,
               \/ TaskDel(t, u) \/ TimeDlyResume(t, u)
               \/ \E p \in Prios : TaskChangePrio(t, u, p)
        PROVE  MutexInv'
    <3>1. CASE TimeDlyResume(t, u)
      BY <2>1, <3>1, InvDelayOver DEF TimeDlyResume
    <3> QED
      BY <2>1, <2>4, <3>1, InvTaskDel, InvTaskChangePrio
  <2> QED
    BY <2>1, <2>2, <2>3, <2>4 DEF Calling
<1>2. CASE UNCHANGED vars
  <2>1. k' = k /\ asked' = asked /\ gone' = gone /\ changes' = changes
    BY <1>2 DEF vars
  <2> QED
    BY <2>1 DEF MutexInv, CallTypes
<1> QED
  BY <1>1, <1>2

(* Every reachable state satisfies the invariant of this module: the     *)
(* lists and types hold always, and until a fault everything that says    *)
(* who owns and who waits.                                                *)
THEOREM MutexInvariant == Spec => []MutexInv
<1> QED
  BY InvInit, InvNext, PTL DEF Spec

(* Every field has its type, and a task is in the ready list of its        *)
(* priority exactly when it is ready and in the pend list of its mutex     *)
(* exactly when it is blocked on it, through every call and interrupt, the *)
(* faulty ones included.                                                   *)
THEOREM MutexTypeCorrect == Spec => []TypeOK
<1>1. MutexInv => TypeOK
  <2> SUFFICES ASSUME MutexInv PROVE TypeOK
    OBVIOUS
  <2>1. Sound(k, Tasks) /\ MutexTypes(k) /\ CallTypes
    BY DEF MutexInv, Fit
  <2>2. ListedWhereItWaits(k)
    BY <2>1, SoundListed
  <2> QED
    BY <2>1, <2>2 DEF TypeOK, Sound, Kernel, MutexTypes, CallTypes, Faults
<1> QED
  BY <1>1, MutexInvariant, PTL

(* Every change of priority comes to an end inside its critical section,   *)
(* in at most LongestWalk rounds, along any chain or circle of owners, and *)
(* also when it drags an owner down: a raise never comes back to a task, a *)
(* lowering may, but each time the task is lower than before.              *)
THEOREM MutexWalkEnds == Spec => []WalkEnds
<1>1. MutexInv => WalkEnds
  BY DEF MutexInv, Fit, MutexTypes, WalkEnds, Faults
<1> QED
  BY <1>1, MutexInvariant, PTL

(* A mutex is in the group of one live task, the one it says owns it, as   *)
(* long as anyone may wait for it, through every sequence of pends, posts, *)
(* timeouts and deletions that makes no mistake.                           *)
THEOREM MutexOwnedByOne == Spec => []OwnedByOne
<1>1. MutexInv => OwnedByOne
  <2> SUFFICES ASSUME MutexInv, Sane, NEW m \in Mutexes
               PROVE  /\ \A t \in Tasks : Times(k.group[t], m) = IF k.owner[m] = t THEN 1 ELSE 0
                      /\ k.owner[m] # None => k.task[k.owner[m]].state # "del"
                      /\ k.nest[m] = 0 <=> k.owner[m] = None
                      /\ k.list[m] # <<>> => k.owner[m] # None
    BY DEF OwnedByOne
  <2>1. Healthy(k) /\ Sound(k, Tasks) /\ MutexTypes(k)
    BY FitNow
  <2>2. ASSUME NEW t \in Tasks
        PROVE  Times(k.group[t], m) = IF k.owner[m] = t THEN 1 ELSE 0
    <3> DEFINE M == {n \in Mutexes : k.owner[n] = t}
    <3>1. Lists(k.group[t], M) /\ (m \in M <=> k.owner[m] = t)
      BY <2>1 DEF Healthy, Groups
    <3> HIDE DEF M
    <3> QED
      BY <3>1, ListsTimes
  <2>3. ASSUME k.list[m] # <<>> PROVE k.owner[m] # None
    <3>1. Lists(k.list[m], WaitingAt(k.task, Tasks, m))
      BY <2>1 DEF Sound, Placed, Mutexes
    <3>2. PICK t \in Tasks : k.task[t].state \in Blocked /\ k.task[t].on = m
      BY <2>3, <3>1, ListsNone DEF WaitingAt
    <3> QED
      BY <2>1, <3>2, PrioType DEF Healthy, Waited
  <2>4. k.owner[m] # None => k.task[k.owner[m]].state # "del"
    BY <2>1 DEF Healthy, Alive, MutexTypes
  <2> QED
    BY <2>1, <2>2, <2>3, <2>4 DEF Healthy, Nested
<1> QED
  BY <1>1, MutexInvariant, PTL

(* OSMutexPend says RTOS_ERR_NONE to the task that got the mutex, and only *)
(* to it, however long after the post, the timeout or the deletion the     *)
(* task runs and whatever others do in between.                            *)
THEOREM MutexToldTheTruth == Spec => []ToldTheTruth
<1>1. MutexInv => ToldTheTruth
  <2> SUFFICES ASSUME MutexInv, Sane PROVE ToldTheTruth
    BY DEF ToldTheTruth
  <2> QED
    BY FitNow DEF ToldTheTruth, Asking
<1> QED
  BY <1>1, MutexInvariant, PTL

-----------------------------------------------------------------------------
(* The order of the pend lists.                                            *)

(* Lists that stay, of tasks whose priorities stay.                        *)
LEMMA OrderKept ==
  ASSUME NEW s, NEW T \in SUBSET Tasks, Sound(s, T), ListsInOrder(s), NEW r, r.list = s.list,
         \A u \in T : s.task[u].state \in Blocked => r.task[u].prio = s.task[u].prio
  PROVE  ListsInOrder(r)
<1>1. ASSUME NEW o \in Objects PROVE InOrder(r.list[o], r.task)
  <2>1. InOrder(s.list[o], s.task)
    BY DEF ListsInOrder, InOrder
  <2>2. \A i \in 1..Len(s.list[o]) : s.task[s.list[o][i]].prio = r.task[s.list[o][i]].prio
    BY SoundLists
  <2> QED
    BY <2>1, <2>2, OrderAgree
<1> QED
  BY <1>1 DEF ListsInOrder, InOrder

(* One list shrinks.                                                       *)
LEMMA OrderShrunk ==
  ASSUME NEW s, NEW T \in SUBSET Tasks, Sound(s, T), ListsInOrder(s), NEW r, NEW o \in Objects,
         NEW t \in T, s.task[t].state \in Blocked, s.task[t].on = o,
         r.list = [s.list EXCEPT ![o] = Without(@, t)],
         \A u \in T \ {t} : r.task[u].prio = s.task[u].prio
  PROVE  ListsInOrder(r)
<1>1. ASSUME NEW c \in Objects PROVE InOrder(r.list[c], r.task)
  <2>1. /\ InOrder(s.list[c], s.task) /\ Len(s.list[c]) \in Nat
        /\ Lists(s.list[c], WaitingAt(s.task, T, c))
    BY SoundLists DEF ListsInOrder, InOrder, Sound, Placed
  <2>2. CASE c # o
    <3>1. r.list[c] = s.list[c]
      BY <2>2 DEF Sound, Placed
    <3>2. \A i \in 1..Len(s.list[c]) : s.list[c][i] \in T \ {t}
      BY <2>2, SoundLists
    <3> QED
      BY <2>1, <3>1, <3>2, OrderAgree
  <2>3. CASE c = o
    <3> DEFINE new == Without(s.list[o], t)
    <3>1. r.list[o] = new
      BY DEF Sound, Placed
    <3>2. t \in WaitingAt(s.task, T, o)
      BY DEF WaitingAt
    <3>3. Shrunk(s.list[o], new) /\ Lists(new, WaitingAt(s.task, T, o) \ {t})
      BY <2>1, <2>3, <3>2, ListsWithout DEF Shrunk
    <3> HIDE DEF new
    <3>4. InOrder(new, s.task)
      BY <2>1, <2>3, <3>3, OrderDeleted
    <3>5. \A i \in 1..Len(new) : new[i] \in T \ {t}
      BY <3>3, ListsNone DEF WaitingAt
    <3> QED
      BY <2>3, <3>1, <3>4, <3>5, OrderAgree
  <2> QED
    BY <2>2, <2>3
<1> QED
  BY <1>1 DEF ListsInOrder, InOrder

(* A waiter at a new priority finds its place.                             *)
LEMMA PendListChangePrioOrder ==
  ASSUME NEW s, NEW T \in SUBSET Tasks, Sound(s, T), ListsInOrder(s), NEW t \in T,
         NEW p \in Prios, s.task[t].state \in Blocked, s.task[t].on # None,
         NEW r, r = PendListChangePrio([s EXCEPT !.task[t].prio = p], t)
  PROVE  ListsInOrder(r)
<1> DEFINE b == [s EXCEPT !.task[t].prio = p]
           f == [s.task EXCEPT ![t].prio = p]
           o == s.task[t].on
           c == [b EXCEPT !.list[o] = Without(@, t)]
           U == T \ {t}
<1>1. s.task \in [Tasks -> TCBs] /\ t \in Tasks /\ o \in Objects
  BY DEF Sound, Kernel, TCBs
<1>2. /\ f \in [Tasks -> TCBs] /\ f[t].state \in Blocked /\ f[t].on = o
      /\ \A u \in Tasks \ {t} : f[u] = s.task[u]
  BY <1>1 DEF TCBs
<1>3. /\ Changes(s, b, {"task"}) /\ b.task = f /\ b.rdy = s.rdy /\ b.list = s.list
      /\ b.cur = s.cur /\ b.prioCur = s.prioCur
  BY DEF Changes, Sound, Kernel, CoreFields
<1>4. b.task[t].on = o /\ Kernel(b)
  BY <1>1, <1>2, <1>3 DEF Kernel, Changes, Sound
<1>5. Placed(b, f, T)
  <2>1. \A p_ : ReadyAt(f, T, p_) = ReadyAt(s.task, T, p_)
    BY <1>1, <1>2 DEF ReadyAt, Blocked
  <2>2. \A x : WaitingAt(f, T, x) = WaitingAt(s.task, T, x)
    BY <1>1, <1>2 DEF WaitingAt
  <2> HIDE DEF f, b
  <2> QED
    BY <1>3, <2>1, <2>2 DEF Sound, Placed
<1> HIDE DEF b, f
<1>6. CASE Len(b.list[o]) = 1
  <2>1. r = b
    BY <1>4, <1>6 DEF PendListChangePrio, b
  <2>2. ASSUME NEW x \in Objects PROVE InOrder(r.list[x], r.task)
    <3>1. CASE x = o
      <4>1. Len(r.list[x]) = 1
        BY <1>6, <2>1, <3>1
      <4>2. \A i, j \in 1..1 : ~(i < j)
        OBVIOUS
      <4> QED
        BY <4>1, <4>2 DEF InOrder
    <3>2. CASE x # o
      <4>1. InOrder(s.list[x], s.task)
        BY DEF ListsInOrder, InOrder
      <4>2. \A i \in 1..Len(s.list[x]) : s.list[x][i] \in Tasks \ {t}
        BY <3>2, SoundLists
      <4> QED
        BY <1>2, <1>3, <2>1, <4>1, <4>2, OrderAgree
    <3> QED
      BY <3>1, <3>2
  <2> QED
    BY <2>2 DEF ListsInOrder, InOrder
<1>7. CASE Len(b.list[o]) # 1
  <2>1. r = PendListInsertPrio(c, o, t)
    BY <1>4, <1>7 DEF PendListChangePrio, b
  <2>2. /\ Changes(b, c, {"list", "task"}) /\ Changes(b, c, {"list"})
        /\ c.list = [b.list EXCEPT ![o] = Without(@, t)] /\ c.task = f
    BY <1>3, <1>4 DEF Changes, Kernel, CoreFields
  <2> HIDE DEF c
  <2>3. Kernel(c) /\ Placed(c, f, U)
    <3>1. Placed(c, f, U)
      BY <1>1, <1>2, <1>4, <1>5, <2>2, PendOut
    <3> QED
      BY <1>2, <2>2, <3>1, <1>4 DEF Kernel, Changes
  <2>4. t \notin U /\ U \cup {t} = T /\ U \in SUBSET Tasks
    OBVIOUS
  <2>5. /\ Changes(c, r, {"list"})
        /\ \A x \in Objects \ {o} : r.list[x] = c.list[x]
        /\ InOrder(c.list[o], c.task) => InOrder(r.list[o], c.task)
    <3>1. f[t].state \in Blocked /\ f[t].on = o /\ t \in Tasks /\ o \in Objects
      BY <1>1, <1>2
    <3> HIDE DEF U, o
    <3>2. LET q == PendListInsertPrio(c, o, t)
          IN /\ Placed(q, f, U \cup {t}) /\ Changes(c, q, {"list"})
             /\ \A x \in Objects \ {o} : q.list[x] = c.list[x]
             /\ InOrder(c.list[o], c.task) => InOrder(q.list[o], c.task)
      BY <2>3, <2>4, <3>1, PendIn
    <3> QED
      BY <2>1, <3>2
  <2>6. ListsInOrder(c)
    <3>1. \A u \in T \ {t} : c.task[u].prio = s.task[u].prio
      BY <1>2, <2>2
    <3>2. c.list = [s.list EXCEPT ![o] = Without(@, t)]
      BY <1>3, <2>2
    <3> QED
      BY <1>1, <3>1, <3>2, OrderShrunk
  <2>7. ASSUME NEW x \in Objects PROVE InOrder(r.list[x], c.task)
    <3>1. InOrder(c.list[x], c.task)
      BY <2>6 DEF ListsInOrder, InOrder
    <3> QED
      BY <2>5, <3>1
  <2>8. r.task = c.task
    BY <2>3, <2>5 DEF Changes, Kernel, CoreFields
  <2> QED
    BY <2>7, <2>8 DEF ListsInOrder, InOrder
<1> QED
  BY <1>6, <1>7

-----------------------------------------------------------------------------
(* What a task is due: the highest of the priority it was given and those  *)
(* of the tasks that wait for the mutexes of M, or of the priorities of X, *)
(* which a call in progress is about to let it have.                       *)

Waits(s, v, M) == s.task[v].state \in Blocked /\ s.task[v].on \in M

Due(s, t, M, X, p) ==
  /\ p <= s.task[t].base
  /\ \A v \in Tasks : Waits(s, v, M) => p <= s.task[v].prio
  /\ \A q \in X : p <= q
  /\ \/ p = s.task[t].base
     \/ \E v \in Tasks : Waits(s, v, M) /\ s.task[v].prio = p
     \/ p \in X

Owned(s, t) == {m \in Mutexes : s.owner[m] = t}

(* Every live task has what it is due, e being the priorities on their way.*)
HasDue(s, e, t) == s.task[t].state # "del" => Due(s, t, Owned(s, t), e[t], s.task[t].prio)

Exact(s, e) == \A t \in Tasks : HasDue(s, e, t)

Nothing == [t \in Tasks |-> {}]

LEMMA DueOnce ==
  ASSUME NEW s, s.task \in [Tasks -> TCBs], NEW t \in Tasks, NEW M, NEW p \in Prios, NEW q \in Prios,
         Due(s, t, M, {}, p), Due(s, t, M, {}, q)
  PROVE  p = q
<1>1. p \in Nat /\ q \in Nat /\ s.task[t].base \in Nat /\ \A v \in Tasks : s.task[v].prio \in Nat
  BY PrioType DEF TCBs, Prios
<1>2. p <= q
  BY <1>1 DEF Due
<1>3. q <= p
  BY <1>1 DEF Due
<1> QED
  BY <1>1, <1>2, <1>3

(* Nobody in a pend list is above its head.                                *)
LEMMA HeadFirst ==
  ASSUME NEW s, NEW T \in SUBSET Tasks, Sound(s, T), ListsInOrder(s), NEW m \in Objects,
         NEW v \in T, s.task[v].state \in Blocked, s.task[v].on = m
  PROVE  s.list[m] # <<>> /\ s.task[Head(s.list[m])].prio <= s.task[v].prio
<1> DEFINE h == Head(s.list[m])
<1>1. PICK i \in 1..Len(s.list[m]) : s.list[m][i] = v
  BY SoundLists
<1>2. /\ Lists(s.list[m], WaitingAt(s.task, T, m)) /\ v \in WaitingAt(s.task, T, m)
  BY DEF Sound, Placed, WaitingAt
<1>3. s.list[m] # <<>> /\ h = s.list[m][1] /\ Len(s.list[m]) \in Nat /\ Len(s.list[m]) >= 1
  BY <1>2, ListsNone
<1> HIDE DEF h
<1>4. CASE i = 1
  <2>1. s.task[v].prio \in Nat /\ h = v
    BY <1>1, <1>3, <1>4, PrioType DEF Sound, Kernel, TCBs, Prios
  <2> QED
    BY <1>3, <2>1 DEF h
<1>5. CASE i # 1
  <2>1. 1 \in 1..Len(s.list[m]) /\ 1 < i
    BY <1>3, <1>5
  <2> QED
    BY <1>1, <1>3, <2>1 DEF ListsInOrder, h
<1> QED
  BY <1>4, <1>5

(* What the kernel computes from the heads of the lists is what is due.    *)
LEMMA UninheritedDue ==
  ASSUME NEW s, NEW T \in SUBSET Tasks, Sound(s, T), Outside(s, T), ListsInOrder(s),
         NEW t \in Tasks, NEW M \in SUBSET Mutexes, Lists(s.group[t], M)
  PROVE  Due(s, t, M, {}, Uninherited(s, t))
<1> DEFINE heads == {s.task[Head(s.list[m])].prio :
                       m \in {n \in ToSet(s.group[t]) : s.list[n] # <<>>}}
           all == heads \cup {PrioMax - 1}
           F == MutexGrpPrioFindHighest(s, t)
           base == s.task[t].base
<1>1. s.task \in [Tasks -> TCBs] /\ Prios \subseteq Nat /\ PrioMax - 1 \in Prios
      /\ \A p \in Prios : p <= PrioMax - 1
  BY PrioType DEF Sound, Kernel, Prios
<1>2. ToSet(s.group[t]) = M
  <2> DEFINE l == s.group[t]
  <2>1. /\ DOMAIN l = 1..Len(l) /\ \A i \in 1..Len(l) : l[i] \in M
        /\ \A x \in M : \E i \in 1..Len(l) : l[i] = x
    BY ListsNone DEF Lists
  <2> HIDE DEF l
  <2>2. ToSet(l) = M
    BY <2>1 DEF ToSet
  <2> QED
    BY <2>2 DEF l
<1>3. ASSUME NEW m \in M, s.list[m] # <<>>
      PROVE  LET h == Head(s.list[m])
             IN h \in Tasks /\ s.task[h].prio \in Prios /\ s.task[h].state \in Blocked /\ s.task[h].on = m
  <2>1. m \in Objects
    BY DEF Mutexes
  <2>2. Head(s.list[m]) \in WaitingAt(s.task, T, m)
    BY <1>3, <2>1, ListsNone DEF Sound, Placed
  <2> QED
    BY <1>1, <2>2 DEF WaitingAt, TCBs
<1>4. all \subseteq Prios
  BY <1>1, <1>2, <1>3
<1>5. F = CHOOSE p \in all : \A q \in heads : p <= q
  BY DEF MutexGrpPrioFindHighest
<1>6. F \in all /\ \A q \in heads : F <= q
  <2> HIDE DEF heads, F
  <2>1. PICK p \in all : \A q \in all : p <= q
    BY <1>1, <1>4, Least
  <2> QED
    BY <1>5, <2>1
<1>7. ASSUME NEW v \in Tasks, Waits(s, v, M) PROVE F <= s.task[v].prio
  <2> DEFINE m == s.task[v].on
             h == Head(s.list[m])
  <2>1. m \in M /\ m \in Objects /\ v \in T
    BY <1>7, PrioType DEF Waits, Outside, Mutexes
  <2>2. s.list[m] # <<>> /\ s.task[h].prio <= s.task[v].prio
    BY <1>7, <2>1, HeadFirst DEF Waits
  <2>6. s.task[h].prio \in heads
    BY <1>2, <2>1, <2>2, Zenon
  <2> HIDE DEF heads, F, h
  <2>7. F \in Nat /\ s.task[h].prio \in Nat /\ s.task[v].prio \in Nat
    BY <1>1, <1>4, <1>6, <2>6 DEF TCBs
  <2> QED
    BY <1>6, <2>2, <2>6, <2>7
<1>8. ASSUME F \in heads PROVE \E v \in Tasks : Waits(s, v, M) /\ s.task[v].prio = F
  <2> HIDE DEF F
  <2>1. PICK m \in {n \in ToSet(s.group[t]) : s.list[n] # <<>>} : F = s.task[Head(s.list[m])].prio
    BY <1>8
  <2> QED
    BY <1>2, <1>3, <2>1 DEF Waits
<1>9. base \in Nat /\ base \in Prios /\ F \in Nat /\ base <= PrioMax - 1
      /\ \A v \in Tasks : s.task[v].prio \in Nat
  <2> HIDE DEF F
  <2> QED
    BY <1>1, <1>4, <1>6 DEF TCBs
<1>10. F \in heads \/ F = PrioMax - 1
  BY <1>6
<1> HIDE DEF heads, F
<1>11. CASE F < base
  <2>1. Uninherited(s, t) = F
    BY <1>11 DEF Uninherited, Higher, F
  <2>2. F \in heads
    BY <1>1, <1>9, <1>10, <1>11
  <2> QED
    BY <1>7, <1>8, <1>9, <1>11, <2>1, <2>2 DEF Due
<1>12. CASE ~(F < base)
  <2>1. Uninherited(s, t) = base
    BY <1>12 DEF Uninherited, Higher, F
  <2>2. \A v \in Tasks : Waits(s, v, M) => base <= s.task[v].prio
    BY <1>7, <1>9, <1>12
  <2> QED
    BY <1>9, <2>1, <2>2 DEF Due
<1> QED
  BY <1>11, <1>12

-----------------------------------------------------------------------------
(* One task at a new priority: what the others are due.                    *)

RePrio(s, r, t, p) ==
  /\ s.task \in [Tasks -> TCBs] /\ t \in Tasks /\ p \in Prios
  /\ r.task = [s.task EXCEPT ![t].prio = p] /\ r.owner = s.owner

LEMMA RePrioTasks ==
  ASSUME NEW s, NEW r, NEW t, NEW p, RePrio(s, r, t, p)
  PROVE  /\ t \in Tasks /\ r.task[t].prio = p /\ p \in Nat
         /\ \A u \in Tasks : /\ r.task[u].base = s.task[u].base /\ r.task[u].state = s.task[u].state
                             /\ r.task[u].on = s.task[u].on
                             /\ u # t => r.task[u].prio = s.task[u].prio
                             /\ s.task[u].prio \in Nat /\ s.task[u].base \in Nat
                             /\ Owned(r, u) = Owned(s, u)
BY PrioType DEF RePrio, TCBs, Owned, Prios

LEMMA DueKept ==
  ASSUME NEW s, NEW r, NEW t \in Tasks, NEW M, NEW X, NEW p, Due(s, t, M, X, p),
         r.task[t].base = s.task[t].base,
         \A v \in Tasks : /\ Waits(r, v, M) <=> Waits(s, v, M)
                          /\ Waits(s, v, M) => r.task[v].prio = s.task[v].prio
  PROVE  Due(r, t, M, X, p)
BY DEF Due

LEMMA ElseDue ==
  ASSUME NEW s, NEW r, NEW t, NEW p, RePrio(s, r, t, p), NEW u \in Tasks,
         NEW M, NEW X, NEW q, Due(s, u, M, X, q), ~Waits(s, t, M)
  PROVE  Due(r, u, M, X, q)
<1>1. \A v \in Tasks : Waits(r, v, M) <=> Waits(s, v, M)
  BY RePrioTasks DEF Waits
<1>2. \A v \in Tasks : Waits(s, v, M) => r.task[v].prio = s.task[v].prio
  BY RePrioTasks
<1>3. r.task[u].base = s.task[u].base
  BY RePrioTasks
<1> QED
  BY <1>1, <1>2, <1>3, DueKept

(* A waiter that rises: its owner keeps what it has or is due the same.    *)
LEMMA HigherDue ==
  ASSUME NEW s, NEW r, NEW t, NEW p, RePrio(s, r, t, p), NEW o \in Tasks, NEW M,
         NEW X \in SUBSET Prios, NEW q \in Prios, Due(s, o, M, X, q), Waits(s, t, M),
         p < s.task[t].prio
  PROVE  Due(r, o, M, X, IF q <= p THEN q ELSE p)
<1>0. q \in Nat /\ X \subseteq Nat
  BY PrioType DEF Prios
<1>1. /\ t \in Tasks /\ p \in Nat /\ q \in Nat /\ X \subseteq Nat /\ r.task[t].prio = p
      /\ \A v \in Tasks : s.task[v].prio \in Nat /\ (v # t => r.task[v].prio = s.task[v].prio)
      /\ r.task[o].base = s.task[o].base /\ s.task[o].base \in Nat
  BY <1>0, RePrioTasks
<1>2. \A v \in Tasks : Waits(r, v, M) <=> Waits(s, v, M)
  BY RePrioTasks DEF Waits
<1>3. CASE q <= p
  <2>1. ASSUME NEW v \in Tasks, Waits(r, v, M) PROVE q <= r.task[v].prio
    BY <1>1, <1>2, <1>3, <2>1 DEF Due
  <2>2. ASSUME NEW v \in Tasks, Waits(s, v, M), s.task[v].prio = q
        PROVE  Waits(r, v, M) /\ r.task[v].prio = q
    BY <1>1, <1>2, <1>3, <2>2
  <2> QED
    BY <1>1, <1>3, <2>1, <2>2 DEF Due
<1>4. CASE ~(q <= p)
  <2>1. ASSUME NEW v \in Tasks, Waits(r, v, M) PROVE p <= r.task[v].prio
    BY <1>1, <1>2, <1>4, <2>1 DEF Due
  <2>2. Waits(r, t, M)
    BY <1>1, <1>2
  <2>3. p <= s.task[o].base /\ \A x \in X : p <= x
    BY <1>1, <1>4 DEF Due
  <2> QED
    BY <1>1, <1>4, <2>1, <2>2, <2>3 DEF Due
<1> QED
  BY <1>3, <1>4

(* A waiter that comes to what its owner has anyway.                       *)
LEMMA LowerDue ==
  ASSUME NEW s, NEW r, NEW t, NEW p, RePrio(s, r, t, p), NEW o \in Tasks, NEW M, NEW X,
         Due(s, o, M, X, p), Waits(s, t, M)
  PROVE  Due(r, o, M, X, p)
<1>1. /\ t \in Tasks /\ p \in Nat /\ r.task[t].prio = p
      /\ \A v \in Tasks : v # t => r.task[v].prio = s.task[v].prio
      /\ r.task[o].base = s.task[o].base
  BY RePrioTasks
<1>2. \A v \in Tasks : Waits(r, v, M) <=> Waits(s, v, M)
  BY RePrioTasks DEF Waits
<1>3. ASSUME NEW v \in Tasks, Waits(r, v, M) PROVE p <= r.task[v].prio
  BY <1>1, <1>2, <1>3 DEF Due
<1>4. ASSUME NEW v \in Tasks, Waits(s, v, M), s.task[v].prio = p
      PROVE  Waits(r, v, M) /\ r.task[v].prio = p
  BY <1>1, <1>2, <1>4
<1> QED
  BY <1>1, <1>3, <1>4 DEF Due

-----------------------------------------------------------------------------
(* The walk: all but the task it has come to have what they are due, and   *)
(* that one is due what the walk brings it.                                *)

WalkExact(w, e) ==
  /\ ListsInOrder(w.k)
  /\ \A u \in Tasks \ {w.task} : HasDue(w.k, e, u)
  /\ w.task # None /\ w.k.task[w.task].state # "del" =>
       Due(w.k, w.task, Owned(w.k, w.task), e[w.task], w.prio)

LEMMA DueAgree ==
  ASSUME NEW s, NEW r, r.task = s.task, r.owner = s.owner, NEW e
  PROVE  /\ \A u \in Tasks : HasDue(s, e, u) <=> HasDue(r, e, u)
         /\ \A t, M, X, p : Due(s, t, M, X, p) <=> Due(r, t, M, X, p)
         /\ \A t : Owned(s, t) = Owned(r, t)
BY DEF HasDue, Due, Owned, Waits

LEMMA WalkAgree ==
  ASSUME NEW s, NEW r, r.task = s.task, r.owner = s.owner, r.list = s.list, NEW e, NEW t, NEW p,
         WalkExact([k |-> s, task |-> t, prio |-> p], e)
  PROVE  WalkExact([k |-> r, task |-> t, prio |-> p], e)
BY DueAgree DEF WalkExact, ListsInOrder

(* The walk is over at a task that waits for nothing.                      *)
LEMMA OverExact ==
  ASSUME NEW s, NEW r, NEW t, NEW p, RePrio(s, r, t, p), ~Waits(s, t, Mutexes), NEW e,
         WalkExact([k |-> s, task |-> t, prio |-> p], e), ListsInOrder(r)
  PROVE  WalkExact([k |-> r, task |-> None, prio |-> p], e)
<1>1. \A u \in Tasks : ~Waits(s, t, Owned(s, u))
  BY DEF Waits, Owned
<1>2. ASSUME NEW u \in Tasks \ {t} PROVE HasDue(r, e, u)
  <2> SUFFICES ASSUME r.task[u].state # "del"
               PROVE  Due(r, u, Owned(r, u), e[u], r.task[u].prio)
    BY DEF HasDue
  <2>1. /\ s.task[u].state # "del" /\ Owned(r, u) = Owned(s, u)
        /\ r.task[u].prio = s.task[u].prio
    BY RePrioTasks
  <2>2. Due(s, u, Owned(s, u), e[u], s.task[u].prio)
    BY <2>1 DEF WalkExact, HasDue
  <2>3. Due(r, u, Owned(s, u), e[u], s.task[u].prio)
    BY <1>1, <2>2, ElseDue
  <2> QED
    BY <2>1, <2>3
<1>3. HasDue(r, e, t)
  <2> SUFFICES ASSUME r.task[t].state # "del"
               PROVE  Due(r, t, Owned(r, t), e[t], r.task[t].prio)
    BY DEF HasDue
  <2>1. t \in Tasks /\ t # None
    BY PrioType DEF RePrio
  <2>2. s.task[t].state # "del" /\ Owned(r, t) = Owned(s, t) /\ r.task[t].prio = p
    BY <2>1, RePrioTasks
  <2>3. Due(s, t, Owned(s, t), e[t], p)
    BY <2>1, <2>2 DEF WalkExact
  <2>4. Due(r, t, Owned(s, t), e[t], p)
    BY <1>1, <2>1, <2>3, ElseDue
  <2> QED
    BY <2>2, <2>4
<1> QED
  BY <1>2, <1>3 DEF WalkExact

(* OS_TaskChangePrio, one task of the walk.  With priorities on their way  *)
(* it only ever goes up.                                                   *)
LEMMA RoundExact ==
  ASSUME NEW T \in SUBSET Tasks, NEW w, Walk(w, T), w.task # None,
         NEW e \in [Tasks -> SUBSET Prios], WalkExact(w, e), Round(w).k.fault = {},
         e = Nothing \/ w.prio < w.k.task[w.task].prio
  PROVE  WalkExact(Round(w), e)
<1> DEFINE s == w.k
           t == w.task
           p == w.prio
           moved == [s EXCEPT !.task[t].prio = p]
           listed == PendListChangePrio(moved, t)
           o == s.owner[s.task[t].on]
           W(r, x, y) == [k |-> r, task |-> x, prio |-> y]
<1> SUFFICES ASSUME NEW q, q = Round(w), q.k.fault = {} PROVE WalkExact(q, e)
  OBVIOUS
<1>0. /\ Sound(s, T) /\ MutexTypes(s) /\ Walkable(s, T) /\ t \in Tasks /\ p \in Prios
      /\ s.task \in [Tasks -> TCBs] /\ s.fault \subseteq Faults
  BY DEF Walk, Walkable, Sound, Kernel, MutexTypes
<1>a. WalkExact(W(s, t, p), e) /\ ListsInOrder(s)
  BY DEF WalkExact
<1>b. \A r : Changes(s, r, {"task", "list", "rdy"}) /\ r.task = [s.task EXCEPT ![t].prio = p]
             => RePrio(s, r, t, p)
  BY <1>0 DEF RePrio, Changes, MutexTypes, CoreFields
<1>2. CASE s.task[t].state = "del"
  <2>1. q = W(s, None, p)
    BY <1>2, Zenon DEF Round, Blocked
  <2>2. WalkExact(W(s, None, p), e)
    <3>1. HasDue(s, e, t)
      BY <1>2 DEF HasDue
    <3> QED
      BY <1>a, <3>1 DEF WalkExact
  <2> QED
    BY <2>1, <2>2
<1>3. CASE s.task[t].state = "dly"
  <2>1. q = W(moved, None, p)
    BY <1>3, Zenon DEF Round, Blocked
  <2>2. /\ moved.task = [s.task EXCEPT ![t].prio = p] /\ moved.list = s.list
        /\ Changes(s, moved, {"task", "list", "rdy"})
    BY <1>0 DEF Changes, Sound, Kernel, CoreFields
  <2> HIDE DEF moved
  <2>3. RePrio(s, moved, t, p)
    BY <1>b, <2>2
  <2>4. ListsInOrder(moved)
    <3>1. \A u \in T : s.task[u].state \in Blocked => moved.task[u].prio = s.task[u].prio
      BY <1>0, <1>3, <2>2 DEF Blocked
    <3> QED
      BY <1>0, <1>a, <2>2, <3>1, OrderKept
  <2>5. ~Waits(s, t, Mutexes)
    BY <1>3 DEF Waits, Blocked
  <2>6. WalkExact(W(moved, None, p), e)
    BY <1>a, <2>3, <2>4, <2>5, OverExact
  <2> QED
    BY <2>1, <2>6
<1>4. CASE s.task[t].state = "rdy"
  <2> DEFINE off == [RdyListRemove(s, t) EXCEPT !.task[t].prio = p]
             r == IF t = s.cur THEN RdyListInsertHead(off, t) ELSE RdyListInsertTail(off, t)
  <2>1. q = W(r, None, p)
    BY <1>4, Zenon DEF Round, Blocked
  <2>2. t \in T
    BY <1>0, <1>4 DEF Walkable, Outside, Blocked
  <2>3. Moved(s, RdyListInsertHead(off, t), T, t, p) /\ Moved(s, RdyListInsertTail(off, t), T, t, p)
    BY <1>0, <1>4, <2>2, RdyMoveSound
  <2>4. Moved(s, r, T, t, p)
    BY <2>3
  <2> HIDE DEF off, r
  <2>5. /\ r.task = [s.task EXCEPT ![t].prio = p] /\ r.list = s.list
        /\ Changes(s, r, {"task", "list", "rdy"})
    BY <1>0, <2>4 DEF Moved, Changes, Sound, Kernel, CoreFields
  <2>6. RePrio(s, r, t, p)
    BY <1>b, <2>5
  <2>7. ListsInOrder(r)
    <3>1. \A u \in T : s.task[u].state \in Blocked => r.task[u].prio = s.task[u].prio
      BY <1>0, <1>4, <2>5 DEF Blocked
    <3> QED
      BY <1>0, <1>a, <2>5, <3>1, OrderKept
  <2>8. ~Waits(s, t, Mutexes)
    BY <1>4 DEF Waits, Blocked
  <2>9. WalkExact(W(r, None, p), e)
    BY <1>a, <2>6, <2>7, <2>8, OverExact
  <2> QED
    BY <2>1, <2>9
<1>5. CASE s.task[t].state \in Blocked /\ s.task[t].on = None
  <2> DEFINE r == [moved EXCEPT !.fault = @ \cup {"halt"}]
  <2>1. q = W(r, None, p)
    BY <1>5 DEF Round, Blocked
  <2>2. r.fault = s.fault \cup {"halt"}
    BY <1>0 DEF MutexTypes
  <2> HIDE DEF r
  <2> QED
    BY <2>1, <2>2
<1>6. CASE s.task[t].state \in Blocked /\ s.task[t].on # None
  <2> DEFINE F == IF listed.task[o].prio = p THEN {} ELSE {"drag"}
             dragged == [listed EXCEPT !.fault = @ \cup F]
             old == s.task[t].prio
             ofOwner == s.task[o].prio
             M == Owned(s, o)
  <2>1. t \in T /\ o \in Tasks \ {t} /\ s.task[t].on \in Mutexes
    BY <1>0, <1>6 DEF Walkable, Outside, Waited, Mutexes, TCBs
  <2>2. /\ Sound(listed, T) /\ Changes(s, listed, {"task", "list"})
        /\ listed.task = [s.task EXCEPT ![t].prio = p] /\ ListsInOrder(listed)
    <3> HIDE DEF listed
    <3> QED
      BY <1>0, <1>6, <1>a, <2>1, PendListChangePrioSound, PendListChangePrioOrder DEF listed
  <2>3. /\ old > p => q = IF listed.task[o].prio <= p THEN W(listed, None, p) ELSE W(listed, o, p)
        /\ ~(old > p) =>
             q = IF listed.task[o].prio = old
                 THEN IF Keeps(listed, o) THEN W(listed, None, p)
                      ELSE W(listed, o, Uninherited(listed, o))
                 ELSE W(dragged, o, p)
    BY <1>6, Zenon DEF Round, Blocked
  <2> HIDE DEF listed
  <2>4. RePrio(s, listed, t, p)
    BY <1>b, <2>2 DEF Changes
  <2>5. /\ listed.task[o].prio = ofOwner /\ listed.task[o].state = s.task[o].state
        /\ Owned(listed, o) = M /\ old \in Nat /\ p \in Nat /\ ofOwner \in Nat /\ ofOwner \in Prios
    <3>1. \A u \in Tasks : s.task[u].prio \in Prios
      BY <1>0 DEF TCBs
    <3> HIDE DEF o
    <3> QED
      BY <2>1, <2>4, <3>1, RePrioTasks
  <2>6. Waits(s, t, M) /\ \A u \in Tasks \ {o} : ~Waits(s, t, Owned(s, u))
    BY <1>6, <2>1 DEF Waits, Owned
  <2>7. ASSUME NEW u \in Tasks \ {o} PROVE HasDue(listed, e, u)
    <3> SUFFICES ASSUME listed.task[u].state # "del"
                 PROVE  Due(listed, u, Owned(listed, u), e[u], listed.task[u].prio)
      BY DEF HasDue
    <3>1. /\ s.task[u].state # "del" /\ Owned(listed, u) = Owned(s, u)
          /\ listed.task[u].prio = IF u = t THEN p ELSE s.task[u].prio
      BY <2>4, RePrioTasks
    <3>2. Due(s, u, Owned(s, u), e[u], listed.task[u].prio)
      BY <1>a, <3>1, PrioType DEF WalkExact, HasDue
    <3> QED
      BY <2>4, <2>6, <3>1, <3>2, ElseDue, Zenon
  <2>8. s.task[o].state # "del" => Due(s, o, M, e[o], ofOwner)
    BY <1>a, <2>1, Zenon DEF WalkExact, HasDue
  <2>9. ASSUME NEW x, HasDue(listed, e, o) PROVE WalkExact(W(listed, None, x), e)
    BY <2>2, <2>7, <2>9, Zenon DEF WalkExact
  <2>10. ASSUME NEW x, s.task[o].state # "del" => Due(listed, o, M, e[o], x)
         PROVE  WalkExact(W(listed, o, x), e)
    BY <2>2, <2>5, <2>7, <2>10, Zenon DEF WalkExact
  <2>11. HasDue(listed, e, o) <=> (s.task[o].state # "del" => Due(listed, o, M, e[o], ofOwner))
    BY <2>5, Zenon DEF HasDue
  <2>12. CASE old > p
    <3>1. s.task[o].state # "del" =>
            Due(listed, o, M, e[o], IF ofOwner <= p THEN ofOwner ELSE p)
      <4> SUFFICES ASSUME s.task[o].state # "del"
                   PROVE  Due(listed, o, M, e[o], IF ofOwner <= p THEN ofOwner ELSE p)
        BY Zenon
      <4>1. /\ Due(s, o, M, e[o], ofOwner) /\ e[o] \in SUBSET Prios /\ o \in Tasks /\ p < old
            /\ ofOwner \in Prios
        BY <2>1, <2>5, <2>8, <2>12, Zenon
      <4> HIDE DEF ofOwner, o, M
      <4> QED
        BY <2>4, <2>6, <4>1, HigherDue
    <3>2. CASE ofOwner <= p
      <4>1. WalkExact(W(listed, None, p), e)
        BY <2>9, <2>11, <3>1, <3>2, Zenon
      <4> QED
        BY <2>3, <2>5, <2>12, <3>2, <4>1, Zenon
    <3>3. CASE ~(ofOwner <= p)
      <4>1. WalkExact(W(listed, o, p), e)
        BY <2>10, <3>1, <3>3, Zenon
      <4> QED
        BY <2>3, <2>5, <2>12, <3>3, <4>1, Zenon
    <3> QED
      BY <3>2, <3>3
  <2>13. CASE ~(old > p)
    <3>0. e[o] = {}
      BY <2>1, <2>5, <2>13, Zenon DEF Nothing
    <3>1. CASE ofOwner = old
      <4>1. Due(listed, o, M, {}, Uninherited(listed, o))
        <5>1. Outside(listed, T) /\ M \in SUBSET Mutexes /\ listed.group = s.group
          BY <1>0, <2>2, <2>4, RePrioTasks DEF Outside, Walkable, Owned, Changes, MutexTypes, CoreFields
        <5>2. Lists(listed.group[o], M)
          BY <1>0, <2>1, <5>1, Zenon DEF Walkable, Groups, Owned
        <5> HIDE DEF o, M
        <5> QED
          BY <2>1, <2>2, <5>1, <5>2, UninheritedDue, Zenon DEF o
      <4>2. CASE Keeps(listed, o)
        <5>1. HasDue(listed, e, o)
          BY <2>5, <2>11, <3>0, <4>1, <4>2, Zenon DEF Keeps
        <5> QED
          BY <2>3, <2>5, <2>9, <2>13, <3>1, <4>2, <5>1, Zenon
      <4>3. CASE ~Keeps(listed, o)
        <5>1. WalkExact(W(listed, o, Uninherited(listed, o)), e)
          BY <2>10, <3>0, <4>1, Zenon
        <5> QED
          BY <2>3, <2>5, <2>13, <3>1, <4>3, <5>1, Zenon
      <4> QED
        BY <4>2, <4>3
    <3>2. CASE ofOwner # old
      <4>1. q = W(dragged, o, p)
        BY <2>3, <2>5, <2>13, <3>2, Zenon
      <4>2. listed.fault = s.fault /\ DOMAIN listed = DOMAIN s
        BY <1>0, <2>2 DEF Changes, MutexTypes, CoreFields
      <4>3. /\ dragged.fault = s.fault \cup F /\ dragged.task = listed.task
            /\ dragged.list = listed.list /\ dragged.owner = listed.owner
        BY <1>0, <4>2 DEF MutexTypes, CoreFields
      <4> HIDE DEF dragged, F
      <4>4. F = {}
        BY <4>1, <4>3
      <4>5. ofOwner = p
        BY <2>5, <4>4, Zenon DEF F
      <4>6. s.task[o].state # "del" => Due(listed, o, M, e[o], p)
        <5> SUFFICES ASSUME s.task[o].state # "del" PROVE Due(listed, o, M, e[o], p)
          BY Zenon
        <5>1. Due(s, o, M, e[o], p) /\ o \in Tasks
          BY <2>1, <2>8, <4>5, Zenon
        <5> HIDE DEF o, M
        <5> QED
          BY <2>4, <2>6, <5>1, LowerDue
      <4>7. WalkExact(W(listed, o, p), e)
        BY <2>10, <4>6, Zenon
      <4>8. WalkExact(W(dragged, o, p), e)
        BY <4>3, <4>7, WalkAgree
      <4> QED
        BY <4>1, <4>8
    <3> QED
      BY <3>1, <3>2
  <2> QED
    BY <2>12, <2>13
<1>7. s.task[t].state \in States
  BY <1>0 DEF TCBs
<1> QED
  BY <1>2, <1>3, <1>4, <1>5, <1>6, <1>7 DEF States

(* A walk that raises: whoever has the priority already, or a higher one,  *)
(* keeps what it has.                                                      *)
Rises(s, w, p) ==
  /\ w.prio = p
  /\ w.task # None => p < w.k.task[w.task].prio
  /\ \A u \in Tasks : s.task[u].prio <= p => w.k.task[u].prio = s.task[u].prio

LEMMA RoundRises ==
  ASSUME NEW T \in SUBSET Tasks, NEW w, Walk(w, T), w.task # None,
         w.prio < w.k.task[w.task].prio
  PROVE  Rises(w.k, Round(w), w.prio)
<1> DEFINE s == w.k
           t == w.task
           p == w.prio
           f == [s.task EXCEPT ![t].prio = p]
           moved == [s EXCEPT !.task[t].prio = p]
           listed == PendListChangePrio(moved, t)
           o == s.owner[s.task[t].on]
           W(r, x, y) == [k |-> r, task |-> x, prio |-> y]
<1> SUFFICES ASSUME NEW q, q = Round(w) PROVE Rises(s, q, p)
  OBVIOUS
<1>0. /\ Sound(s, T) /\ MutexTypes(s) /\ Walkable(s, T) /\ t \in Tasks /\ p \in Prios
      /\ s.task \in [Tasks -> TCBs] /\ p \in Nat /\ s.task[t].prio \in Nat
  BY PrioType DEF Walk, Walkable, Sound, Kernel, TCBs, Prios
<1>1. \A u \in Tasks : s.task[u].prio <= p => f[u].prio = s.task[u].prio
  BY <1>0
<1>2. ASSUME NEW r, r.task = s.task \/ r.task = f, q = W(r, None, p) PROVE Rises(s, q, p)
  <2>1. \A u \in Tasks : s.task[u].prio <= p => r.task[u].prio = s.task[u].prio
    BY <1>1, <1>2
  <2> QED
    BY <1>2, <2>1 DEF Rises
<1>3. CASE s.task[t].state = "del"
  <2>1. q = W(s, None, p)
    BY <1>3 DEF Round, Blocked
  <2> QED
    BY <1>2, <2>1
<1>4. CASE s.task[t].state = "dly"
  <2>1. q = W(moved, None, p)
    BY <1>4 DEF Round, Blocked
  <2>2. moved.task = f
    BY <1>0 DEF Sound, Kernel, CoreFields
  <2> HIDE DEF moved, f
  <2> QED
    BY <1>2, <2>1, <2>2
<1>5. CASE s.task[t].state = "rdy"
  <2> DEFINE off == [RdyListRemove(s, t) EXCEPT !.task[t].prio = p]
             r == IF t = s.cur THEN RdyListInsertHead(off, t) ELSE RdyListInsertTail(off, t)
  <2>1. q = W(r, None, p)
    BY <1>5, Zenon DEF Round, Blocked
  <2>2. t \in T
    BY <1>0, <1>5 DEF Walkable, Outside, Blocked
  <2>3. Moved(s, RdyListInsertHead(off, t), T, t, p) /\ Moved(s, RdyListInsertTail(off, t), T, t, p)
    BY <1>0, <1>5, <2>2, RdyMoveSound
  <2>4. Moved(s, r, T, t, p)
    BY <2>3
  <2> HIDE DEF off, r
  <2>5. r.task = f
    BY <2>4 DEF Moved
  <2> HIDE DEF f
  <2> QED
    BY <1>2, <2>1, <2>5
<1>6. CASE s.task[t].state \in Blocked /\ s.task[t].on = None
  <2> DEFINE r == [moved EXCEPT !.fault = @ \cup {"halt"}]
  <2>1. q = W(r, None, p)
    BY <1>6 DEF Round, Blocked
  <2>2. r.task = f
    BY <1>0 DEF Sound, Kernel, CoreFields
  <2> HIDE DEF r, f
  <2> QED
    BY <1>2, <2>1, <2>2
<1>7. CASE s.task[t].state \in Blocked /\ s.task[t].on # None
  <2>1. t \in T /\ o \in Tasks \ {t}
    BY <1>0, <1>7 DEF Walkable, Outside, Waited
  <2>2. listed.task = f
    <3> HIDE DEF listed
    <3> QED
      BY <1>0, <1>7, <2>1, PendListChangePrioSound DEF listed
  <2>3. q = IF listed.task[o].prio <= p THEN W(listed, None, p) ELSE W(listed, o, p)
    BY <1>0, <1>7, Zenon DEF Round, Blocked
  <2>4. f[o].prio \in Nat
    BY <1>0, <2>1, PrioType DEF TCBs, Prios
  <2> HIDE DEF listed, f, o
  <2>5. CASE listed.task[o].prio <= p
    BY <1>2, <2>2, <2>3, <2>5
  <2>6. CASE ~(listed.task[o].prio <= p)
    <3>1. q = W(listed, o, p) /\ p < listed.task[o].prio
      BY <1>0, <2>2, <2>3, <2>4, <2>6
    <3>2. q.prio = p /\ q.task = o /\ q.k = listed
      BY <3>1
    <3> QED
      BY <1>1, <2>2, <3>1, <3>2 DEF Rises
  <2> QED
    BY <2>5, <2>6
<1>8. s.task[t].state \in States
  BY <1>0 DEF TCBs
<1> QED
  BY <1>3, <1>4, <1>5, <1>6, <1>7, <1>8 DEF States

(* OS_TaskChangePrio as a whole.                                           *)
Settled(s, r, e, t, p) ==
  /\ ListsInOrder(r) /\ Exact(r, e)
  /\ p < s.task[t].prio =>
       \A u \in Tasks : s.task[u].prio <= p => r.task[u].prio = s.task[u].prio

LEMMA ChangePrioExact ==
  ASSUME NEW s, NEW T \in SUBSET Tasks, Walkable(s, T), NEW t \in Tasks, NEW p \in Prios,
         NEW e \in [Tasks -> SUBSET Prios], e = Nothing \/ p < s.task[t].prio,
         WalkExact([k |-> s, task |-> t, prio |-> p], e), ChangePrio(s, t, p).fault = {}
  PROVE  Settled(s, ChangePrio(s, t, p), e, t, p)
<1> DEFINE N == MaxRounds
           r == ChangePrio(s, t, p)
           up == p < s.task[t].prio
<1>0. N \in Nat
  BY MutexAssumption DEF MutexAssumption
<1>1. PICK w : /\ w[0] = [k |-> s, task |-> t, prio |-> p]
               /\ \A n \in 1..N :
                    w[n] = IF w[n - 1].task = None THEN w[n - 1] ELSE Round(w[n - 1])
               /\ r = IF w[N].task = None THEN w[N].k
                      ELSE [w[N].k EXCEPT !.fault = @ \cup {"endless"}]
  BY ChangePrioWalk
<1>a. r.fault = {}
  OBVIOUS
<1> HIDE DEF N, r, up
<1> DEFINE Good(v) ==
             /\ Walk(v, T) /\ Moves(s, v.k, T)
             /\ v.k.fault = {} => WalkExact(v, e) /\ (up => Rises(s, v, p))
           S == {n \in Nat : n <= N => Good(w[n])}
<1>2. 0 \in S
  <2> DEFINE first == [k |-> s, task |-> t, prio |-> p]
  <2>1. Moves(s, s, T) /\ Walk(first, T)
    BY MovesSelf DEF Walk, Walkable
  <2>2. up => Rises(s, first, p)
    BY DEF Rises, up
  <2>3. first.k = s
    OBVIOUS
  <2>4. Good(first)
    BY <2>1, <2>2, <2>3
  <2> HIDE DEF Good, first
  <2>5. Good(w[0])
    BY <1>1, <2>4 DEF first
  <2> QED
    BY <2>5
<1>3. ASSUME NEW n \in Nat, n \in S PROVE n + 1 \in S
  <2> SUFFICES ASSUME n + 1 <= N PROVE Good(w[n + 1])
    OBVIOUS
  <2>1. n + 1 \in 1..N /\ n + 1 - 1 = n /\ n <= N
    BY <1>0
  <2>2. w[n + 1] = IF w[n].task = None THEN w[n] ELSE Round(w[n])
    BY <1>1, <2>1
  <2>3. PICK v : v = w[n]
    OBVIOUS
  <2>4. Good(v)
    BY <1>3, <2>1, <2>3
  <2>5. CASE v.task = None
    <3>1. w[n + 1] = v
      BY <2>2, <2>3, <2>5
    <3> HIDE DEF Good
    <3> QED
      BY <2>4, <3>1
  <2>6. CASE v.task # None
    <3>1. w[n + 1] = Round(v)
      BY <2>2, <2>3, <2>6
    <3>2. Walk(Round(v), T) /\ Moves(v.k, Round(v).k, T)
      BY <2>4, <2>6, RoundMoves
    <3>3. Moves(s, Round(v).k, T)
      BY <2>4, <3>2, MovesTrans
    <3>4. ASSUME Round(v).k.fault = {}
          PROVE  WalkExact(Round(v), e) /\ (up => Rises(s, Round(v), p))
      <4>1. WalkExact(v, e) /\ (up => Rises(s, v, p))
        BY <2>4, <3>2, <3>4 DEF Moves
      <4>2. up => v.prio < v.k.task[v.task].prio
        BY <2>6, <4>1 DEF Rises
      <4>3. e = Nothing \/ v.prio < v.k.task[v.task].prio
        BY <4>2 DEF up
      <4>4. WalkExact(Round(v), e)
        BY <2>4, <2>6, <3>4, <4>1, <4>3, RoundExact
      <4>5. ASSUME up PROVE Rises(s, Round(v), p)
        <5>1. Rises(v.k, Round(v), v.prio)
          BY <2>4, <2>6, <4>2, <4>5, RoundRises
        <5>2. Rises(s, v, p)
          BY <4>1, <4>5
        <5> HIDE DEF Good
        <5> QED
          BY <5>1, <5>2 DEF Rises
      <4> QED
        BY <4>4, <4>5
    <3>5. Good(Round(v))
      BY <3>2, <3>3, <3>4
    <3> HIDE DEF Good
    <3> QED
      BY <3>1, <3>5
  <2> QED
    BY <2>5, <2>6
<1>4. Good(w[N])
  <2>1. Nat \subseteq S
    <3> HIDE DEF S
    <3> QED
      BY <1>2, <1>3, Induction
  <2>2. N \in S
    BY <1>0, <2>1
  <2> HIDE DEF Good
  <2> QED
    BY <1>0, <2>2
<1>5. PICK v : v = w[N]
  OBVIOUS
<1>6. Good(v) /\ r = IF v.task = None THEN v.k ELSE [v.k EXCEPT !.fault = @ \cup {"endless"}]
  BY <1>1, <1>4, <1>5
<1>7. v.task = None
  <2> SUFFICES ASSUME v.task # None PROVE FALSE
    OBVIOUS
  <2>1. DOMAIN v.k = CoreFields \cup {"owner", "nest", "group", "fault"}
    BY <1>6 DEF Moves, MutexTypes
  <2>2. r.fault = v.k.fault \cup {"endless"}
    BY <1>6, <2>1
  <2> QED
    BY <1>a, <2>2
<1>8. WalkExact(v, e) /\ (up => Rises(s, v, p)) /\ r = v.k
  BY <1>a, <1>6, <1>7
<1>9. Exact(r, e) /\ ListsInOrder(r)
  BY <1>7, <1>8, PrioType DEF WalkExact, Exact
<1> QED
  BY <1>8, <1>9 DEF Settled, Rises, r, up

-----------------------------------------------------------------------------
(* Between two calls nothing is on its way.                                *)

Inherits(s) == ListsInOrder(s) /\ Exact(s, Nothing)

(* Who waits for whom, and with which priority, stays.                     *)
SameDues(s, r) ==
  \A u \in Tasks :
    /\ r.task[u].base = s.task[u].base /\ r.task[u].prio = s.task[u].prio
    /\ s.task[u].state = "del" => r.task[u].state = "del"
    /\ r.task[u].state # "del" =>
         \A v \in Tasks : Waits(r, v, Owned(r, u)) <=> Waits(s, v, Owned(s, u))

LEMMA SameDuesExact ==
  ASSUME NEW s, NEW r, SameDues(s, r), NEW e, Exact(s, e)
  PROVE  Exact(r, e)
<1> SUFFICES ASSUME NEW u \in Tasks, r.task[u].state # "del"
             PROVE  Due(r, u, Owned(r, u), e[u], r.task[u].prio)
  BY DEF Exact, HasDue
<1>1. Due(s, u, Owned(s, u), e[u], s.task[u].prio)
  BY DEF Exact, HasDue, SameDues
<1> QED
  BY <1>1 DEF Due, SameDues

LEMMA InheritsKept ==
  ASSUME NEW s, NEW T \in SUBSET Tasks, Sound(s, T), NEW r, r.list = s.list, SameDues(s, r),
         Inherits(s)
  PROVE  Inherits(r)
<1>1. ListsInOrder(r)
  BY OrderKept DEF SameDues, Inherits
<1>2. Exact(r, Nothing)
  BY SameDuesExact DEF Inherits
<1> QED
  BY <1>1, <1>2 DEF Inherits

(* Nobody comes to wait or leaves, and only mutexes that nobody waits for  *)
(* change hands.                                                           *)
Quiet(s, r) ==
  /\ r.list = s.list
  /\ \A u \in Tasks : /\ r.task[u].base = s.task[u].base /\ r.task[u].prio = s.task[u].prio
                      /\ s.task[u].state = "del" => r.task[u].state = "del"
  /\ \A u \in Tasks, m \in Mutexes : Waits(r, u, {m}) <=> Waits(s, u, {m})
  /\ \A m \in Mutexes : r.owner[m] = s.owner[m] \/ \A u \in Tasks : ~Waits(s, u, {m})

LEMMA QuietInherits ==
  ASSUME NEW s, NEW T \in SUBSET Tasks, Sound(s, T), NEW r, Quiet(s, r), Inherits(s)
  PROVE  Inherits(r)
<1>1. ASSUME NEW u \in Tasks, NEW v \in Tasks
      PROVE  Waits(r, v, Owned(r, u)) <=> Waits(s, v, Owned(s, u))
  <2>1. ASSUME Waits(r, v, Owned(r, u)) PROVE Waits(s, v, Owned(s, u))
    <3> DEFINE m == r.task[v].on
    <3>1. m \in Mutexes /\ r.owner[m] = u /\ Waits(r, v, {m})
      BY <2>1 DEF Waits, Owned
    <3> HIDE DEF m
    <3>2. Waits(s, v, {m}) /\ s.owner[m] = u
      BY <3>1 DEF Quiet
    <3> QED
      BY <3>1, <3>2 DEF Waits, Owned
  <2>2. ASSUME Waits(s, v, Owned(s, u)) PROVE Waits(r, v, Owned(r, u))
    <3> DEFINE m == s.task[v].on
    <3>1. m \in Mutexes /\ s.owner[m] = u /\ Waits(s, v, {m})
      BY <2>2 DEF Waits, Owned
    <3> HIDE DEF m
    <3>2. Waits(r, v, {m}) /\ r.owner[m] = u
      BY <3>1 DEF Quiet
    <3> QED
      BY <3>1, <3>2 DEF Waits, Owned
  <2> QED
    BY <2>1, <2>2
<1>2. SameDues(s, r)
  BY <1>1 DEF SameDues, Quiet
<1> QED
  BY <1>2, InheritsKept DEF Quiet

(* A new task runs: no ready task is above it.                             *)
Switches(c, r) ==
  r.cur # c /\ r.cur # None =>
    \A u \in Tasks : r.task[u].state = "rdy" => r.task[r.cur].prio <= r.task[u].prio

LEMMA SchedSwitches ==
  ASSUME NEW s, Sound(s, Tasks)
  PROVE  Switches(s.cur, Sched(s))
<1> DEFINE r == Sched(s)
           p == PrioGetHighest(s)
<1> SUFFICES ASSUME r.cur # s.cur, r.cur # None, NEW u \in Tasks, r.task[u].state = "rdy"
             PROVE  r.task[r.cur].prio <= r.task[u].prio
  BY DEF Switches
<1>1. /\ s.task \in [Tasks -> TCBs] /\ \A q \in Prios : Lists(s.rdy[q], ReadyAt(s.task, Tasks, q))
      /\ DOMAIN s = DOMAIN s /\ CoreFields \subseteq DOMAIN s
  BY DEF Sound, Kernel, Placed
<1>2. ReadyPrios(s) # {} /\ r = [s EXCEPT !.cur = Head(s.rdy[p]), !.prioCur = p]
  BY <1>1 DEF Sched, CoreFields
<1>3. p \in ReadyPrios(s) /\ \A q \in ReadyPrios(s) : p <= q
  BY <1>2, Highest
<1> HIDE DEF p
<1>4. r.cur = Head(s.rdy[p]) /\ r.task = s.task
  BY <1>1, <1>2 DEF CoreFields
<1> HIDE DEF r
<1>5. p \in Prios /\ Head(s.rdy[p]) \in ReadyAt(s.task, Tasks, p)
  BY <1>1, <1>3, ListsNone DEF ReadyPrios
<1>6. s.task[u].prio \in Prios /\ u \in ReadyAt(s.task, Tasks, s.task[u].prio)
  BY <1>1, <1>4 DEF ReadyAt, TCBs
<1>7. s.task[u].prio \in ReadyPrios(s)
  <2>1. Lists(s.rdy[s.task[u].prio], ReadyAt(s.task, Tasks, s.task[u].prio))
    BY <1>1, <1>6
  <2>2. s.rdy[s.task[u].prio] # <<>>
    BY <1>6, <2>1, ListsNone
  <2> QED
    BY <1>6, <2>2 DEF ReadyPrios
<1> QED
  BY <1>3, <1>4, <1>5, <1>7 DEF ReadyAt

LEMMA SchedInherits ==
  ASSUME NEW s, Sound(s, Tasks), MutexTypes(s)
  PROVE  /\ Sched(s).fault = s.fault /\ Switches(s.cur, Sched(s))
         /\ Inherits(s) => Inherits(Sched(s))
<1> DEFINE r == Sched(s)
<1>1. Changes(s, r, {"cur", "prioCur"})
  BY SchedRuns
<1> HIDE DEF r
<1>2. r.task = s.task /\ r.list = s.list /\ r.owner = s.owner /\ r.fault = s.fault
  BY <1>1 DEF Changes, MutexTypes, CoreFields
<1>3. Quiet(s, r)
  BY <1>2 DEF Quiet, Waits
<1> QED
  BY <1>2, <1>3, QuietInherits, SchedSwitches DEF r

-----------------------------------------------------------------------------
(* A waiter comes, and a waiter goes.                                      *)

LEMMA JoinedDue ==
  ASSUME NEW s, NEW r, NEW o \in Tasks, NEW t \in Tasks, NEW M, NEW p,
         r.task[o].base = s.task[o].base,
         \A v \in Tasks \ {t} : /\ Waits(r, v, M) <=> Waits(s, v, M)
                                /\ r.task[v].prio = s.task[v].prio,
         ~Waits(s, t, M), Waits(r, t, M), NEW X, X = {r.task[t].prio}, Due(s, o, M, X, p)
  PROVE  Due(r, o, M, {}, p)
BY DEF Due

LEMMA LeftDue ==
  ASSUME NEW s, NEW r, NEW o \in Tasks, NEW t \in Tasks, NEW M, NEW p,
         r.task[o].base = s.task[o].base,
         \A v \in Tasks \ {t} : /\ Waits(r, v, M) <=> Waits(s, v, M)
                                /\ r.task[v].prio = s.task[v].prio,
         Waits(s, t, M), ~Waits(r, t, M), Due(s, o, M, {}, p)
  PROVE  Due(r, o, M, {s.task[t].prio}, p)
BY DEF Due

(* The owner of what a waiter left gives up what it had from it only.      *)
LEMMA DisinheritExact ==
  ASSUME NEW s, NEW T \in SUBSET Tasks, Walkable(s, T), NEW o \in Tasks, NEW left,
         ListsInOrder(s), \A u \in Tasks \ {o} : HasDue(s, Nothing, u),
         s.task[o].state # "del" => Due(s, o, Owned(s, o), {left}, s.task[o].prio),
         Disinherit(s, o, left).fault = {}
  PROVE  Inherits(Disinherit(s, o, left))
<1> DEFINE M == Owned(s, o)
           p == Uninherited(s, o)
           r == ChangePrio(s, o, p)
<1>1. /\ Sound(s, T) /\ Outside(s, T) /\ M \in SUBSET Mutexes /\ Lists(s.group[o], M)
      /\ s.task \in [Tasks -> TCBs] /\ s.task[o].prio \in Prios
  BY DEF Walkable, Groups, Owned, Sound, Kernel, TCBs
<1> HIDE DEF M
<1>2. Due(s, o, M, {}, p) /\ p \in Prios
  BY <1>1, UninheritedDue, UninheritedPrio
<1> HIDE DEF p
<1>3. CASE /\ s.task[o].prio # s.task[o].base /\ s.task[o].prio = left /\ ~Keeps(s, o)
  <2>1. Disinherit(s, o, left) = r
    BY <1>3 DEF Disinherit, p
  <2>2. WalkExact([k |-> s, task |-> o, prio |-> p], Nothing)
    BY <1>2 DEF WalkExact, Nothing, M
  <2>3. Nothing \in [Tasks -> SUBSET Prios]
    BY DEF Nothing
  <2>4. r.fault = {}
    BY <2>1
  <2>5. Settled(s, r, Nothing, o, p)
    <3>1. PICK e : e = Nothing
      OBVIOUS
    <3>2. Settled(s, r, e, o, p)
      BY <1>2, <2>2, <2>3, <2>4, <3>1, ChangePrioExact
    <3> QED
      BY <3>1, <3>2
  <2> QED
    BY <2>1, <2>5 DEF Settled, Inherits
<1>4. CASE ~(s.task[o].prio # s.task[o].base /\ s.task[o].prio = left /\ ~Keeps(s, o))
  <2>1. Disinherit(s, o, left) = s
    BY <1>4 DEF Disinherit
  <2>2. ASSUME s.task[o].state # "del" PROVE Due(s, o, M, {}, s.task[o].prio)
    <3>1. Due(s, o, M, {left}, s.task[o].prio)
      BY <2>2 DEF M
    <3>2. CASE Keeps(s, o)
      BY <1>2, <3>2 DEF Keeps, p
    <3>3. CASE s.task[o].prio = s.task[o].base \/ s.task[o].prio # left
      BY <3>1, <3>3 DEF Due
    <3> QED
      BY <1>4, <3>2, <3>3
  <2>3. HasDue(s, Nothing, o)
    BY <2>2 DEF HasDue, Nothing, M
  <2>4. Exact(s, Nothing)
    BY <2>3 DEF Exact
  <2> QED
    BY <2>1, <2>4 DEF Inherits
<1> QED
  BY <1>3, <1>4

-----------------------------------------------------------------------------
(* Each call: what it leaves.                                              *)

Kept(c, r) == r.fault = {} => Inherits(r) /\ Switches(c, r)

LEMMA SchedKept ==
  ASSUME NEW s, Sound(s, Tasks), MutexTypes(s), s.fault = {} => Inherits(s)
  PROVE  Kept(s.cur, s) /\ Kept(s.cur, Sched(s))
BY SchedInherits DEF Kept, Switches

LEMMA QuietKept ==
  ASSUME NEW s, Sound(s, Tasks), Inherits(s), NEW r, Sound(r, Tasks), MutexTypes(r), Quiet(s, r),
         r.cur = s.cur
  PROVE  Kept(s.cur, r) /\ Kept(s.cur, Sched(r))
BY QuietInherits, SchedKept

LEMMA KeptTake ==
  ASSUME MutexInv, Sane, Inherits(k), NEW t \in Tasks, NEW m \in Mutexes, MutexTake(t, m)
  PROVE  Kept(k.cur, k')
<1> DEFINE r == Own(k, m, t)
<1>1. k' = r /\ k.cur = t
  BY DEF MutexTake, Calls
<1>2. Healthy(k) /\ Sound(k, Tasks) /\ MutexTypes(k)
  BY FitNow
<1>3. k.owner[m] = None
  BY <1>2 DEF MutexTake, Healthy, Nested
<1>4. /\ Groups(r) /\ MutexTypes(r) /\ Changes(k, r, {"owner", "nest", "group"})
      /\ r.owner = [k.owner EXCEPT ![m] = t] /\ r.nest = [k.nest EXCEPT ![m] = 1]
  BY <1>2, <1>3, FreeGroupsBut, OwnGroups DEF Healthy
<1> HIDE DEF r
<1>5. Sound(r, Tasks) /\ r.task = k.task /\ r.cur = k.cur /\ r.list = k.list
  BY <1>2, <1>4, SoundOwners
<1>6. \A u \in Tasks : ~Waits(k, u, {m})
  BY <1>2, <1>3, PrioType DEF Healthy, Waited, Waits
<1>7. Quiet(k, r)
  BY <1>2, <1>4, <1>5, <1>6 DEF Quiet, Waits, MutexTypes
<1> QED
  BY <1>1, <1>2, <1>4, <1>5, <1>7, QuietKept

LEMMA KeptNesting ==
  ASSUME MutexInv, Sane, Inherits(k), NEW t \in Tasks, NEW m \in Mutexes,
         MutexTakeAgain(t, m) \/ MutexPostNested(t, m)
  PROVE  Kept(k.cur, k')
<1>1. Healthy(k) /\ Sound(k, Tasks) /\ MutexTypes(k)
  BY FitNow
<1>2. MutexInv'
  BY InvNesting
<1>3. Changes(k, k', {"nest"})
  BY <1>1 DEF MutexTakeAgain, MutexPostNested, Changes, MutexTypes
<1>4. k'.task = k.task /\ k'.list = k.list /\ k'.owner = k.owner /\ k'.cur = k.cur
  BY <1>1, <1>3 DEF Changes, MutexTypes, CoreFields
<1>5. Quiet(k, k')
  BY <1>4 DEF Quiet, Waits
<1>6. Sound(k', Tasks) /\ MutexTypes(k')
  BY <1>2 DEF MutexInv, Fit
<1> QED
  BY <1>1, <1>4, <1>5, <1>6, QuietKept

LEMMA KeptPendReturns ==
  ASSUME MutexInv, Sane, Inherits(k), k' = k
  PROVE  Kept(k.cur, k')
BY DEF Kept, Switches

LEMMA KeptPostFree ==
  ASSUME MutexInv, Sane, Inherits(k), NEW t \in Tasks, NEW m \in Mutexes, MutexPostFree(t, m)
  PROVE  Kept(k.cur, k')
<1> DEFINE d == Disown(k, m)
           r == [d EXCEPT !.owner[m] = None, !.nest[m] = 0]
<1>1. k' = r /\ k.cur = t /\ k.owner[m] = t /\ k.list[m] = <<>>
  BY DEF MutexPostFree, Calls
<1>2. Healthy(k) /\ Sound(k, Tasks) /\ MutexTypes(k)
  BY FitNow
<1>3. GroupsBut(d, m) /\ MutexTypes(d) /\ Changes(k, d, {"group"})
  BY <1>1, <1>2, DisownGroups DEF Healthy
<1> HIDE DEF d
<1>4. /\ MutexTypes(r) /\ Changes(d, r, {"owner", "nest"})
      /\ r.owner = [d.owner EXCEPT ![m] = None]
  BY <1>3, FreeGroups, Zenon
<1> HIDE DEF r
<1>5. /\ Changes(k, r, {"owner", "nest", "group"}) /\ r.owner = [k.owner EXCEPT ![m] = None]
  BY <1>2, <1>3, <1>4 DEF Changes, MutexTypes
<1>6. \A u \in Tasks : ~Waits(k, u, {m})
  BY <1>1, <1>2, NobodyWaits DEF Waits
<1>7. Sound(r, Tasks) /\ r.task = k.task /\ r.cur = k.cur /\ r.list = k.list
  BY <1>2, <1>5, SoundOwners
<1>8. Quiet(k, r)
  BY <1>2, <1>5, <1>6, <1>7 DEF Quiet, Waits, MutexTypes
<1> QED
  BY <1>1, <1>2, <1>4, <1>7, <1>8, QuietKept

LEMMA KeptDelNoPend ==
  ASSUME MutexInv, Sane, Inherits(k), NEW t \in Tasks, NEW m \in Mutexes, MutexDelNoPend(t, m)
  PROVE  Kept(k.cur, k')
<1> DEFINE r == Cleared(k, m)
<1>1. k' = r /\ k.list[m] = <<>>
  BY DEF MutexDelNoPend
<1>2. Healthy(k) /\ Sound(k, Tasks) /\ MutexTypes(k)
  BY FitNow
<1>3. /\ MutexTypes(r) /\ Changes(k, r, {"owner", "nest", "group"})
      /\ r.owner = [k.owner EXCEPT ![m] = None]
  BY <1>2, ClearedGroups DEF Healthy
<1> HIDE DEF r
<1>4. \A u \in Tasks : ~Waits(k, u, {m})
  BY <1>1, <1>2, NobodyWaits DEF Waits
<1>5. Sound(r, Tasks) /\ r.task = k.task /\ r.cur = k.cur /\ r.list = k.list
  BY <1>2, <1>3, SoundOwners
<1>6. Quiet(k, r)
  BY <1>2, <1>3, <1>4, <1>5 DEF Quiet, Waits, MutexTypes
<1> QED
  BY <1>1, <1>2, <1>3, <1>5, <1>6, QuietKept

LEMMA KeptTimeDly ==
  ASSUME MutexInv, Sane, Inherits(k), NEW t \in Tasks, TimeDly(t)
  PROVE  Kept(k.cur, k')
<1> DEFINE q == RdyListRemove(k, t)
           r == [q EXCEPT !.task[t].state = "dly"]
<1>1. k' = Sched(r) /\ k.cur = t
  BY DEF TimeDly, Calls
<1>2. /\ Healthy(k) /\ Sound(k, Tasks) /\ MutexTypes(k)
      /\ k.task[t].state = "rdy" /\ k.task \in [Tasks -> TCBs]
  BY <1>1, Caller
<1>3. Sound(q, Tasks \ {t}) /\ Changes(k, q, {"rdy"})
  BY <1>2, RdyOutSound
<1> HIDE DEF q
<1>4. /\ Sound(r, Tasks) /\ Changes(q, r, {"task"})
      /\ r.task = [q.task EXCEPT ![t].state = "dly"]
  BY <1>3, IdleSound
<1> HIDE DEF r
<1>5. /\ r.task = [k.task EXCEPT ![t].state = "dly"] /\ r.owner = k.owner /\ r.list = k.list
      /\ r.cur = k.cur /\ MutexTypes(r)
  BY <1>2, <1>3, <1>4 DEF Changes, CoreFields, MutexTypes
<1>6. Quiet(k, r)
  BY <1>2, <1>5 DEF Quiet, Waits, Blocked, TCBs
<1> QED
  BY <1>1, <1>2, <1>4, <1>5, <1>6, QuietKept

LEMMA KeptDelayOver ==
  ASSUME MutexInv, Sane, Inherits(k), NEW u \in Tasks, k.task[u].state = "dly", DelayOver(u)
  PROVE  Kept(k.cur, k')
<1> DEFINE r == RdyListInsert([k EXCEPT !.task[u].state = "rdy"], u)
<1>1. k' = Sched(r)
  BY DEF DelayOver
<1>2. Healthy(k) /\ Sound(k, Tasks) /\ MutexTypes(k) /\ k.task \in [Tasks -> TCBs]
  BY FitNow
<1>3. /\ Sound(r, Tasks) /\ Changes(k, r, {"task", "rdy"})
      /\ r.task = [k.task EXCEPT ![u].state = "rdy"]
  BY <1>2, BackSound
<1> HIDE DEF r
<1>4. r.owner = k.owner /\ r.list = k.list /\ r.cur = k.cur /\ MutexTypes(r)
  BY <1>2, <1>3 DEF Changes, CoreFields, MutexTypes
<1>5. Quiet(k, r)
  BY <1>2, <1>3, <1>4 DEF Quiet, Waits, Blocked, TCBs
<1> QED
  BY <1>1, <1>2, <1>3, <1>4, <1>5, QuietKept

LEMMA KeptYield ==
  ASSUME MutexInv, Sane, Inherits(k), NEW t \in Tasks, Yield(t)
  PROVE  Kept(k.cur, k')
<1> DEFINE r == Rotated(k)
<1>1. k' = Sched(r) /\ CanRotate(k)
  BY DEF Yield
<1>2. Sound(k, Tasks) /\ MutexTypes(k)
  BY FitNow
<1>3. Sound(r, Tasks) /\ Changes(k, r, {"rdy"})
  BY <1>1, <1>2, RotatedSound
<1> HIDE DEF r
<1>4. /\ r.task = k.task /\ r.owner = k.owner /\ r.list = k.list /\ r.cur = k.cur
      /\ MutexTypes(r)
  BY <1>2, <1>3 DEF Changes, MutexTypes, CoreFields
<1>5. Quiet(k, r)
  BY <1>4 DEF Quiet, Waits
<1> QED
  BY <1>1, <1>2, <1>3, <1>4, <1>5, QuietKept

LEMMA KeptBlock ==
  ASSUME MutexInv, Sane, Inherits(k), NEW t \in Tasks, NEW m \in Mutexes, NEW timed \in BOOLEAN,
         MutexBlock(t, m, timed)
  PROVE  Kept(k.cur, k')
<1> DEFINE o == k.owner[m]
           p == k.task[t].prio
           up == IF k.task[o].prio > p THEN ChangePrio(k, o, p) ELSE k
           r == Pend(up, m, timed)
           e == [Nothing EXCEPT ![o] = {p}]
<1>1. k' = Sched(r) /\ k.cur = t /\ k.nest[m] # 0 /\ o # t /\ k.fault = {}
  BY DEF MutexBlock, Calls, Sane
<1>2. /\ Healthy(k) /\ Sound(k, Tasks) /\ MutexTypes(k) /\ Walkable(k, Tasks)
      /\ k.task[t].state = "rdy" /\ t # None /\ k.task \in [Tasks -> TCBs]
  BY <1>1, Caller
<1>3. o \in Tasks /\ p \in Prios /\ p \in Nat /\ k.task[o].prio \in Nat
  BY <1>1, <1>2, PrioType DEF Healthy, Nested, MutexTypes, TCBs, Prios
<1>4. Moves(k, up, Tasks)
  <2>1. Moves(k, k, Tasks)
    BY <1>2, MovesSelf
  <2>2. Moves(k, ChangePrio(k, o, p), Tasks)
    BY <1>2, <1>3, ChangePrioMoves
  <2> QED
    BY <2>1, <2>2
<1>5. e \in [Tasks -> SUBSET Prios] /\ e[o] = {p} /\ \A u \in Tasks \ {o} : e[u] = {}
  BY <1>3 DEF Nothing
<1>6. ASSUME NEW u \in Tasks \ {o} PROVE HasDue(k, e, u)
  BY <1>5 DEF Inherits, Exact, HasDue, Nothing
<1>7. k.task[o].state # "del" /\ Due(k, o, Owned(k, o), {}, k.task[o].prio)
  BY <1>2, <1>3 DEF Healthy, Alive, Inherits, Exact, HasDue, Nothing
<1> HIDE DEF o, e
<1>8. ASSUME up.fault = {} PROVE ListsInOrder(up) /\ Exact(up, e) /\ up.task[t].prio = p
  <2>1. CASE k.task[o].prio > p
    <3>1. Due(k, o, Owned(k, o), {p}, p)
      <4>0. p < k.task[o].prio
        BY <1>3, <2>1
      <4>1. k.task[o].base \in Nat /\ \A v \in Tasks : k.task[v].prio \in Nat
        BY <1>2, <1>3, PrioType DEF TCBs, Prios
      <4>2. \A v \in Tasks : Waits(k, v, Owned(k, o)) => p <= k.task[v].prio
        BY <1>3, <1>7, <4>0, <4>1 DEF Due
      <4>3. p <= k.task[o].base /\ p <= p
        BY <1>3, <1>7, <4>0, <4>1 DEF Due
      <4> QED
        BY <4>2, <4>3 DEF Due
    <3>2. WalkExact([k |-> k, task |-> o, prio |-> p], e)
      BY <1>5, <1>6, <3>1 DEF WalkExact, Inherits
    <3>3. up = ChangePrio(k, o, p)
      BY <2>1
    <3>4. p < k.task[o].prio
      BY <1>3, <2>1
    <3> HIDE DEF up, p
    <3>5. Settled(k, up, e, o, p)
      BY <1>2, <1>3, <1>5, <1>8, <3>2, <3>3, <3>4, ChangePrioExact
    <3>6. p <= p
      BY <1>3
    <3> QED
      BY <3>4, <3>5, <3>6 DEF Settled, p
  <2>2. CASE ~(k.task[o].prio > p)
    <3>1. up = k
      BY <2>2
    <3>2. k.task[o].prio <= p
      BY <1>3, <2>2
    <3>3. Due(k, o, Owned(k, o), {p}, k.task[o].prio)
      BY <1>7, <3>2 DEF Due
    <3>4. HasDue(k, e, o)
      BY <1>5, <3>3 DEF HasDue
    <3>5. Exact(k, e)
      BY <1>6, <3>4 DEF Exact
    <3> QED
      BY <3>1, <3>5 DEF Inherits
  <2> QED
    BY <2>1, <2>2
<1> HIDE DEF up
<1>9. /\ Sound(up, Tasks) /\ MutexTypes(up) /\ up.cur = t /\ up.task[t].state = "rdy"
      /\ up.owner = k.owner /\ up.task \in [Tasks -> TCBs]
  BY <1>1, <1>2, <1>4 DEF Moves, Alike, SameCalls, Sound, Kernel
<1>10. /\ Sound(r, Tasks) /\ Changes(up, r, {"task", "list", "rdy"})
       /\ r.task = [up.task EXCEPT ![t] = Blocking(@, m, timed)]
       /\ ListsInOrder(up) => ListsInOrder(r)
  BY <1>9, PendSound DEF Mutexes
<1> HIDE DEF r, p
<1>11. /\ r.task[t].state \in Blocked /\ r.task[t].on = m
       /\ r.task[t].prio = up.task[t].prio /\ r.task[t].base = up.task[t].base
       /\ \A v \in Tasks \ {t} : r.task[v] = up.task[v]
  <2>1. r.task[t] = Blocking(up.task[t], m, timed) /\ up.task[t] \in TCBs /\ m \in Objects
    BY <1>9, <1>10 DEF Mutexes
  <2> QED
    BY <1>9, <1>10, <2>1, BlockingTCB
<1>12. /\ r.owner = k.owner /\ r.fault = up.fault /\ MutexTypes(r) /\ r.cur = t
       /\ \A u \in Tasks : Owned(r, u) = Owned(up, u)
  BY <1>9, <1>10 DEF Changes, MutexTypes, CoreFields, Owned
<1>13. ASSUME r.fault = {} PROVE Inherits(r)
  <2>1. ListsInOrder(up) /\ Exact(up, e) /\ up.task[t].prio = p
    BY <1>8, <1>12, <1>13
  <2>2. ASSUME NEW u \in Tasks, r.task[u].state # "del"
        PROVE  Due(r, u, Owned(r, u), {}, r.task[u].prio)
    <3>1. up.task[u].state # "del" /\ r.task[u].prio = up.task[u].prio
          /\ r.task[u].base = up.task[u].base
      BY <1>9, <1>11, <2>2
    <3>2. Due(up, u, Owned(up, u), e[u], up.task[u].prio)
      BY <2>1, <3>1 DEF Exact, HasDue
    <3>3. ~Waits(up, t, Owned(up, u))
      BY <1>9 DEF Waits, Blocked
    <3>4. \A v \in Tasks \ {t} : /\ Waits(r, v, Owned(up, u)) <=> Waits(up, v, Owned(up, u))
                                 /\ r.task[v].prio = up.task[v].prio
      BY <1>11 DEF Waits
    <3>5. Waits(r, t, Owned(up, u)) <=> u = o
      BY <1>9, <1>11 DEF Waits, Owned, o
    <3>6. CASE u = o
      <4>1. Due(up, u, Owned(up, u), {r.task[t].prio}, up.task[u].prio)
        BY <1>5, <1>11, <2>1, <3>2, <3>6
      <4>2. PICK X : X = {r.task[t].prio}
        OBVIOUS
      <4>3. Due(r, u, Owned(up, u), {}, up.task[u].prio)
        BY <3>1, <3>3, <3>4, <3>5, <3>6, <4>1, <4>2, JoinedDue
      <4> QED
        BY <1>12, <3>1, <4>3
    <3>7. CASE u # o
      <4>1. Due(up, u, Owned(up, u), {}, up.task[u].prio)
        BY <1>5, <3>2, <3>7
      <4>2. \A v \in Tasks : /\ Waits(r, v, Owned(up, u)) <=> Waits(up, v, Owned(up, u))
                             /\ Waits(up, v, Owned(up, u)) => r.task[v].prio = up.task[v].prio
        BY <3>3, <3>4, <3>5, <3>7
      <4>3. Due(r, u, Owned(up, u), {}, up.task[u].prio)
        BY <3>1, <4>1, <4>2, DueKept
      <4> QED
        BY <1>12, <3>1, <4>3
    <3> QED
      BY <3>6, <3>7
  <2> QED
    BY <1>10, <2>1, <2>2 DEF Inherits, Exact, HasDue, Nothing
<1> QED
  BY <1>1, <1>10, <1>12, <1>13, SchedKept

(* A waiter gives up: it was due nothing less, and the owner gives up what *)
(* it had from it.                                                         *)
LEMMA LeavesExact ==
  ASSUME NEW s, s.task \in [Tasks -> TCBs], Inherits(s), NEW u \in Tasks,
         s.task[u].state \in Blocked, s.task[u].on \in Mutexes,
         NEW o \in Tasks \ {u}, o = s.owner[s.task[u].on],
         NEW r, NEW T \in SUBSET Tasks, Walkable(r, T), ListsInOrder(r), r.owner = s.owner,
         \A v \in Tasks \ {u} : r.task[v] = s.task[v],
         r.task[u].prio = s.task[u].prio, r.task[u].base = s.task[u].base,
         ~Waits(r, u, Mutexes), Disinherit(r, o, s.task[u].prio).fault = {}
  PROVE  Inherits(Disinherit(r, o, s.task[u].prio))
<1>1. s.task[u].state # "del" /\ \A v \in Tasks : Owned(r, v) = Owned(s, v) /\ Owned(s, v) \subseteq Mutexes
  BY DEF Blocked, Owned
<1>2. \A v \in Tasks : /\ Waits(s, u, Owned(s, v)) <=> v = o
                       /\ ~Waits(r, u, Owned(s, v))
  BY <1>1 DEF Waits, Owned
<1>3. ASSUME NEW v \in Tasks, r.task[v].state # "del"
      PROVE  Due(s, v, Owned(s, v), {}, s.task[v].prio)
  BY <1>1, <1>3 DEF Inherits, Exact, HasDue, Nothing
<1>4. \A M : \A v \in Tasks \ {u} : /\ Waits(r, v, M) <=> Waits(s, v, M)
                                    /\ r.task[v].prio = s.task[v].prio
  BY DEF Waits
<1>5. \A v \in Tasks : r.task[v].prio = s.task[v].prio /\ r.task[v].base = s.task[v].base
  OBVIOUS
<1>6. ASSUME NEW v \in Tasks \ {o} PROVE HasDue(r, Nothing, v)
  <2> SUFFICES ASSUME r.task[v].state # "del" PROVE Due(r, v, Owned(s, v), {}, s.task[v].prio)
    BY <1>1, <1>5 DEF HasDue, Nothing
  <2>1. Due(s, v, Owned(s, v), {}, s.task[v].prio)
    BY <1>3
  <2>2. \A x \in Tasks : /\ Waits(r, x, Owned(s, v)) <=> Waits(s, x, Owned(s, v))
                         /\ Waits(s, x, Owned(s, v)) => r.task[x].prio = s.task[x].prio
    BY <1>2, <1>4
  <2> QED
    BY <1>5, <2>1, <2>2, DueKept
<1>7. ASSUME r.task[o].state # "del" PROVE Due(r, o, Owned(r, o), {s.task[u].prio}, r.task[o].prio)
  <2>1. Due(s, o, Owned(s, o), {}, s.task[o].prio)
    BY <1>3, <1>7
  <2>2. Waits(s, u, Owned(s, o)) /\ ~Waits(r, u, Owned(s, o))
    BY <1>2
  <2>3. \A v \in Tasks \ {u} : /\ Waits(r, v, Owned(s, o)) <=> Waits(s, v, Owned(s, o))
                               /\ r.task[v].prio = s.task[v].prio
    BY <1>4
  <2>4. Due(r, o, Owned(s, o), {s.task[u].prio}, s.task[o].prio)
    BY <1>5, <2>1, <2>2, <2>3, LeftDue, Zenon
  <2> QED
    BY <1>1, <1>5, <2>4, Zenon
<1> QED
  BY <1>6, <1>7, DisinheritExact

LEMMA KeptTimer ==
  ASSUME MutexInv, Sane, Inherits(k), NEW u \in Tasks, TimerCallback(u)
  PROVE  Kept(k.cur, k')
<1>1. CASE k.task[u].state = "dly" /\ DelayOver(u)
  BY <1>1, KeptDelayOver
<1>2. CASE /\ k.task[u].state = "pendTimeout"
           /\ k' = Sched(Disinherit(EndPend(k, u, "timeout"), k.owner[k.task[u].on],
                                    k.task[u].prio))
  <2> DEFINE r == EndPend(k, u, "timeout")
             o == k.owner[k.task[u].on]
             x == Readied(k.task[u], "timeout")
             left == k.task[u].prio
             q == Disinherit(r, o, left)
  <2>1. /\ Healthy(k) /\ Sound(k, Tasks) /\ MutexTypes(k) /\ k.task \in [Tasks -> TCBs]
        /\ Asking(k, u, asked[u], gone)
    BY FitNow
  <2>2. /\ k.task[u].state \in Blocked /\ k.task[u].on # None /\ o \in Tasks \ {u}
        /\ asked[u] = k.task[u].on /\ k.task[u].on \in Mutexes
    BY <1>2, <2>1 DEF Healthy, Waited, Asking, Blocked, TCBs, Mutexes
  <2>3. Ended(k, r, Tasks, u, "timeout") /\ ListsInOrder(r)
    BY <2>1, <2>2, EndPendSound, EndPendOrder DEF Statuses, Inherits
  <2> HIDE DEF r
  <2>4. /\ x \in TCBs /\ x.state = "rdy" /\ x.on = None /\ x.state \notin Blocked
        /\ x.status = "timeout" /\ x.prio = k.task[u].prio /\ x.base = k.task[u].base
    BY <2>1, ReadiedTCB DEF Statuses
  <2>5. /\ Sound(r, Tasks) /\ Changes(k, r, {"task", "list", "rdy"})
        /\ r.task = [k.task EXCEPT ![u] = x]
    BY <2>3 DEF Ended
  <2> HIDE DEF x
  <2>6. /\ r.task[u] = x /\ r.owner = k.owner /\ r.cur = k.cur /\ r.fault = {}
        /\ \A v \in Tasks \ {u} : r.task[v] = k.task[v]
    BY <2>1, <2>5 DEF Changes, MutexTypes, CoreFields, Sane
  <2>7. Asking(r, u, asked[u], gone)
    BY <2>2, <2>4, <2>6 DEF Asking
  <2>8. Fit(r, asked, gone)
    BY <2>4, <2>5, <2>7, Turned DEF MutexInv, Sane
  <2>9. Walkable(r, Tasks)
    BY <2>6, <2>8, FitWalkable
  <2>10. Moves(r, q, Tasks)
    <3> HIDE DEF o
    <3> QED
      BY <2>2, <2>9, DisinheritMoves
  <2>11. ASSUME q.fault = {} PROVE Inherits(q)
    <3>1. ~Waits(r, u, Mutexes)
      BY <2>4, <2>6 DEF Waits
    <3>2. r.task[u].prio = k.task[u].prio /\ r.task[u].base = k.task[u].base
      BY <2>4, <2>6
    <3>3. PICK oo \in Tasks \ {u} : oo = o
      BY <2>2
    <3>4. Disinherit(r, oo, k.task[u].prio).fault = {}
      BY <2>11, <3>3
    <3> HIDE DEF o, q
    <3>5. Inherits(Disinherit(r, oo, k.task[u].prio))
      BY <2>1, <2>2, <2>3, <2>6, <2>9, <3>1, <3>2, <3>3, <3>4, LeavesExact DEF o
    <3> QED
      BY <3>3, <3>5 DEF q
  <2>12. k' = Sched(q)
    BY <1>2 DEF r
  <2>13. q.cur = k.cur /\ Sound(q, Tasks) /\ MutexTypes(q)
    BY <2>6, <2>10 DEF Moves
  <2> HIDE DEF q
  <2> QED
    BY <2>11, <2>12, <2>13, SchedKept
<1> QED
  BY <1>1, <1>2 DEF TimerCallback

(* The poster, when the mutex has left its group, is what it is still due. *)
LEMMA RestoredDue ==
  ASSUME NEW s, Sound(s, Tasks), Outside(s, Tasks), ListsInOrder(s), NEW m \in Mutexes,
         GroupsBut(s, m), NEW t \in Tasks, s.task[t].state = "rdy",
         Due(s, t, Owned(s, t), {}, s.task[t].prio)
  PROVE  \E p \in Prios : /\ Restored(s, t).task = [s.task EXCEPT ![t].prio = p]
                          /\ Due(s, t, Owned(s, t) \ {m}, {}, p)
<1> DEFINE p == Uninherited(s, t)
           old == s.task[t].prio
           M == Owned(s, t) \ {m}
           tail == RdyListInsertTail([RdyListRemove(s, t) EXCEPT !.task[t].prio = p], t)
           r == [tail EXCEPT !.prioCur = p]
<1>1. s.task \in [Tasks -> TCBs] /\ M \in SUBSET Mutexes /\ Lists(s.group[t], M)
  <2>1. M = {n \in Mutexes \ {m} : s.owner[n] = t}
    BY DEF Owned
  <2> QED
    BY <2>1 DEF Sound, Kernel, GroupsBut
<1>2. /\ old \in Prios /\ old \in Nat /\ s.task[t].base \in Nat
      /\ \A v \in Tasks : s.task[v].prio \in Nat
  BY <1>1, PrioType DEF TCBs, Prios
<1>3. \A v \in Tasks : Waits(s, v, M) => Waits(s, v, Owned(s, t))
  BY DEF Waits
<1> HIDE DEF M, p, old
<1>4. Due(s, t, M, {}, p) /\ p \in Prios /\ p \in Nat
  <2>1. Due(s, t, M, {}, p) /\ p \in Prios
    BY <1>1, UninheritedDue, UninheritedPrio DEF p
  <2> QED
    BY <2>1, PrioType DEF Prios
<1>5. old <= s.task[t].base /\ \A v \in Tasks : Waits(s, v, M) => old <= s.task[v].prio
  BY <1>3 DEF Due, old
<1>6. CASE s.task[t].prio # s.task[t].base /\ p > s.task[t].prio
  <2>1. Restored(s, t) = r
    BY <1>6 DEF Restored, p
  <2>2. Moved(s, tail, Tasks, t, p)
    <3> HIDE DEF tail
    <3> QED
      BY <1>4, RdyMoveSound DEF tail
  <2> HIDE DEF tail
  <2>3. r.task = tail.task /\ tail.task = [s.task EXCEPT ![t].prio = p]
    BY <2>2 DEF Moved, Sound, Kernel, CoreFields
  <2> QED
    BY <1>4, <2>1, <2>3 DEF M
<1>7. CASE ~(s.task[t].prio # s.task[t].base /\ p > s.task[t].prio)
  <2>1. Restored(s, t) = s
    BY <1>7 DEF Restored, p
  <2>2. s.task = [s.task EXCEPT ![t].prio = old]
    BY <1>1 DEF TCBs, old
  <2>3. CASE old = s.task[t].base
    <3>1. Due(s, t, M, {}, old)
      BY <1>5, <2>3 DEF Due
    <3> QED
      BY <1>2, <2>1, <2>2, <3>1 DEF M
  <2>4. CASE old # s.task[t].base
    <3>1. p <= old
      BY <1>2, <1>4, <1>7, <2>4 DEF old
    <3>2. old <= p
      BY <1>4, <1>5 DEF Due
    <3>3. p = old
      BY <1>2, <1>4, <3>1, <3>2
    <3> QED
      BY <1>2, <1>4, <2>1, <2>2, <3>3 DEF M
  <2> QED
    BY <2>3, <2>4
<1> QED
  BY <1>6, <1>7

LEMMA KeptPostGive ==
  ASSUME MutexInv, Sane, Inherits(k), NEW t \in Tasks, NEW m \in Mutexes, NEW sched \in BOOLEAN,
         MutexPostGive(t, m, sched)
  PROVE  Kept(k.cur, k')
<1> DEFINE h == Head(k.list[m])
           d == Disown(k, m)
           x == Restored(d, t)
           y == Own(x, m, h)
           z == EndPend(y, h, "ok")
           rest == Owned(k, t) \ {m}
<1>1. /\ k' = IF sched THEN Sched(z) ELSE z
      /\ k.cur = t /\ k.owner[m] = t /\ k.list[m] # <<>>
  BY DEF MutexPostGive, Calls
<1>2. /\ Healthy(k) /\ Sound(k, Tasks) /\ MutexTypes(k) /\ k.task[t].state = "rdy" /\ t # None
      /\ k.task \in [Tasks -> TCBs]
  BY <1>1, Caller
<1>3. h \in Tasks /\ k.task[h].state \in Blocked /\ k.task[h].on = m
  <2>1. Lists(k.list[m], WaitingAt(k.task, Tasks, m))
    BY <1>2 DEF Sound, Placed, Mutexes
  <2>2. h \in WaitingAt(k.task, Tasks, m)
    BY <1>1, <2>1, ListsNone
  <2> QED
    BY <2>2 DEF WaitingAt
<1>4. h # t /\ m \in Objects /\ m # None
  BY <1>2, <1>3, PrioType DEF Blocked, Mutexes
<1>5. \A v \in Tasks : k.task[v].state \in Blocked /\ k.task[v].on = m =>
                        k.task[h].prio <= k.task[v].prio
  BY <1>2, <1>4, HeadFirst DEF Inherits
<1>6. GroupsBut(d, m) /\ MutexTypes(d) /\ Changes(k, d, {"group"})
  BY <1>1, <1>2, DisownGroups DEF Healthy
<1> HIDE DEF d, h
<1>7. /\ Sound(d, Tasks) /\ d.task = k.task /\ d.owner = k.owner /\ d.list = k.list
      /\ d.cur = k.cur /\ d.fault = k.fault
  <2>1. Changes(k, d, {"owner", "nest", "group"})
    BY <1>6 DEF Changes
  <2> QED
    BY <1>2, <1>6, <2>1, SoundOwners DEF Changes, MutexTypes
<1>8. ListsInOrder(d) /\ Outside(d, Tasks) /\ \A u \in Tasks : Owned(d, u) = Owned(k, u)
  BY <1>2, <1>7 DEF Inherits, ListsInOrder, Healthy, Outside, Owned
<1>9. ASSUME NEW u \in Tasks, k.task[u].state # "del"
      PROVE  Due(k, u, Owned(k, u), {}, k.task[u].prio)
  BY <1>9 DEF Inherits, Exact, HasDue, Nothing
<1>10. /\ Sound(x, Tasks) /\ MutexTypes(x) /\ Alike(d, x) /\ x.cur = d.cur /\ x.fault = d.fault
       /\ x.list = d.list
  BY <1>2, <1>6, <1>7, RestoredSound
<1>11. PICK p \in Prios : x.task = [k.task EXCEPT ![t].prio = p] /\ Due(k, t, rest, {}, p)
  <2>1. Due(d, t, Owned(d, t), {}, d.task[t].prio)
    <3>1. Due(k, t, Owned(k, t), {}, k.task[t].prio)
      BY <1>2, <1>9
    <3> QED
      BY <1>7, <3>1 DEF Due, Owned, Waits
  <2>2. PICK p \in Prios : x.task = [d.task EXCEPT ![t].prio = p] /\ Due(d, t, Owned(d, t) \ {m}, {}, p)
    BY <1>2, <1>6, <1>7, <1>8, <2>1, RestoredDue
  <2>3. Due(k, t, rest, {}, p)
    BY <1>7, <1>8, <2>2 DEF Due, Waits
  <2> QED
    BY <1>7, <2>2, <2>3
<1> HIDE DEF x, rest
<1>12. ListsInOrder(x)
  <2>1. \A u \in Tasks : d.task[u].state \in Blocked => x.task[u].prio = d.task[u].prio
    BY <1>2, <1>7, <1>11 DEF Blocked
  <2> QED
    BY <1>7, <1>8, <1>10, <2>1, OrderKept
<1>13. GroupsBut(x, m)
  BY <1>6, <1>10 DEF GroupsBut, Alike
<1>14. /\ Groups(y) /\ MutexTypes(y) /\ Changes(x, y, {"owner", "nest", "group"})
       /\ y.owner = [x.owner EXCEPT ![m] = h] /\ y.nest = [x.nest EXCEPT ![m] = 1]
  BY <1>3, <1>10, <1>13, OwnGroups
<1> HIDE DEF y
<1>15. Sound(y, Tasks) /\ y.task = x.task /\ y.cur = x.cur /\ y.list = x.list
  BY <1>10, <1>14, SoundOwners
<1>16. y.task[h].state \in Blocked /\ y.task[h].on # None /\ ListsInOrder(y)
  BY <1>3, <1>4, <1>11, <1>12, <1>15 DEF ListsInOrder
<1>17. Ended(y, z, Tasks, h, "ok") /\ ListsInOrder(z)
  BY <1>3, <1>15, <1>16, EndPendSound, EndPendOrder DEF Statuses
<1> HIDE DEF z
<1>18. /\ Sound(z, Tasks) /\ MutexTypes(z) /\ z.cur = k.cur
       /\ z.owner = [k.owner EXCEPT ![m] = h]
  BY <1>7, <1>10, <1>14, <1>15, <1>17 DEF Ended, Changes, MutexTypes, CoreFields, Alike
<1>19. /\ z.task[t].prio = p
       /\ \A u \in Tasks : z.task[u].base = k.task[u].base
       /\ \A u \in Tasks \ {t} : z.task[u].prio = k.task[u].prio
       /\ z.task[h].state = "rdy"
       /\ \A u \in Tasks \ {h} : /\ z.task[u].state = k.task[u].state
                                /\ z.task[u].on = k.task[u].on
  <2> DEFINE w == Readied(y.task[h], "ok")
  <2>1. z.task = [x.task EXCEPT ![h] = w]
    BY <1>15, <1>17 DEF Ended
  <2>2. w.state = "rdy" /\ w.prio = x.task[h].prio /\ w.base = x.task[h].base
    BY <1>3, <1>15, ReadiedTCB DEF Sound, Kernel, Statuses
  <2> HIDE DEF w
  <2>3. x.task[h].prio = k.task[h].prio /\ x.task[h].base = k.task[h].base
    BY <1>2, <1>3, <1>4, <1>11
  <2> QED
    BY <1>2, <1>3, <1>4, <1>11, <2>1, <2>2, <2>3 DEF TCBs
<1>20. ASSUME NEW M
       PROVE  /\ m \notin M => \A v \in Tasks : Waits(z, v, M) <=> Waits(k, v, M)
              /\ \A v \in Tasks : Waits(k, v, M) => z.task[v].prio = k.task[v].prio
              /\ ~Waits(z, h, M) /\ \A v \in Tasks \ {h} : Waits(z, v, M) <=> Waits(k, v, M)
  BY <1>2, <1>3, <1>4, <1>19 DEF Waits, Blocked
<1>21. /\ Owned(z, t) = rest /\ m \notin rest /\ Owned(z, h) = Owned(k, h) \cup {m}
       /\ \A u \in Tasks \ {t, h} : Owned(z, u) = Owned(k, u) /\ m \notin Owned(k, u)
       /\ m \notin Owned(k, h)
  BY <1>1, <1>2, <1>4, <1>18 DEF Owned, rest, MutexTypes
<1>22. ASSUME NEW u \in Tasks, z.task[u].state # "del"
       PROVE  Due(z, u, Owned(z, u), {}, z.task[u].prio)
  <2>1. CASE u = t
    <3>1. Due(z, t, rest, {}, p)
      BY <1>11, <1>19, <1>20, <1>21, DueKept
    <3> QED
      BY <1>19, <1>21, <2>1, <3>1
  <2>2. CASE u = h
    <3>1. Due(k, h, Owned(k, h), {}, k.task[h].prio)
      BY <1>3, <1>9 DEF Blocked
    <3>2. \A v \in Tasks : Waits(z, v, Owned(z, h)) => k.task[h].prio <= z.task[v].prio
      <4> SUFFICES ASSUME NEW v \in Tasks, Waits(z, v, Owned(z, h))
                   PROVE  k.task[h].prio <= z.task[v].prio
        OBVIOUS
      <4>1. Waits(k, v, Owned(z, h)) /\ z.task[v].prio = k.task[v].prio
        BY <1>20
      <4> QED
        BY <1>5, <1>21, <3>1, <4>1 DEF Due, Waits
    <3>3. \A v \in Tasks : Waits(k, v, Owned(k, h)) =>
                            Waits(z, v, Owned(z, h)) /\ z.task[v].prio = k.task[v].prio
      BY <1>20, <1>21 DEF Waits
    <3>4. z.task[h].prio = k.task[h].prio /\ z.task[h].base = k.task[h].base
      BY <1>3, <1>4, <1>19
    <3>5. Due(z, h, Owned(z, h), {}, k.task[h].prio)
      BY <3>1, <3>2, <3>3, <3>4 DEF Due
    <3> QED
      BY <2>2, <3>4, <3>5
  <2>3. CASE u \notin {t, h}
    <3>1. k.task[u].state # "del"
      BY <1>19, <1>22, <2>3
    <3>2. Due(k, u, Owned(k, u), {}, k.task[u].prio)
      BY <1>9, <3>1
    <3>3. Due(z, u, Owned(k, u), {}, k.task[u].prio)
      BY <1>19, <1>20, <1>21, <2>3, <3>2, DueKept
    <3> QED
      BY <1>19, <1>21, <2>3, <3>3
  <2> QED
    BY <2>1, <2>2, <2>3
<1>23. Inherits(z)
  BY <1>17, <1>22 DEF Inherits, Exact, HasDue, Nothing
<1> QED
  BY <1>1, <1>18, <1>23, SchedKept

(* With all but one task exact, the one is given what it is due, and the   *)
(* rest follows.                                                           *)
LEMMA GivenExact ==
  ASSUME NEW s, NEW T \in SUBSET Tasks, Walkable(s, T), NEW o \in Tasks, NEW p \in Prios,
         ListsInOrder(s), \A u \in Tasks \ {o} : HasDue(s, Nothing, u),
         s.task[o].state # "del" => Due(s, o, Owned(s, o), {}, p),
         ChangePrio(s, o, p).fault = {}
  PROVE  Inherits(ChangePrio(s, o, p))
<1>1. WalkExact([k |-> s, task |-> o, prio |-> p], Nothing)
  BY DEF WalkExact, Nothing
<1>2. PICK e : e = Nothing
  OBVIOUS
<1>3. e \in [Tasks -> SUBSET Prios]
  BY <1>2 DEF Nothing
<1>4. Settled(s, ChangePrio(s, o, p), e, o, p)
  BY <1>1, <1>2, <1>3, ChangePrioExact
<1> QED
  BY <1>2, <1>4 DEF Settled, Inherits

LEMMA KeptDelAlways ==
  ASSUME MutexInv, Sane, Inherits(k), NEW t \in Tasks, NEW m \in Mutexes, MutexDelAlways(t, m)
  PROVE  Kept(k.cur, k')
<1> DEFINE o == k.owner[m]
           who == {u \in Tasks : k.task[u].on = m}
           e == PendAbortAll(k, m, "del")
           c == Cleared(e, m)
           p == Uninherited(c, o)
           r == IF o # None /\ c.task[o].prio # c.task[o].base THEN ChangePrio(c, o, p) ELSE c
           over == gone \cup {m}
<1>1. k' = Sched(r)
  BY DEF MutexDelAlways
<1>2. /\ Fit(k, asked, gone) /\ MutexTypes(k) /\ Sound(k, Tasks) /\ k.task \in [Tasks -> TCBs]
      /\ asked \in [Tasks -> Mutexes \cup {None}] /\ k.fault = {}
  BY FitNow DEF MutexInv, CallTypes, Sane
<1>3. /\ Fit(e, asked, over) /\ e.fault = {} /\ e.owner = k.owner
      /\ \A u \in Tasks : e.task[u].state \in Blocked => e.task[u].on # m
  BY <1>2, AbortedFit
<1>4. /\ Changes(k, e, {"task", "list", "rdy"}) /\ ListsInOrder(e)
      /\ e.task = [u \in Tasks |-> IF u \in who /\ k.task[u].state \in Blocked /\ k.task[u].on = m
                                    THEN Readied(k.task[u], "del") ELSE k.task[u]]
  <2>1. m \in Objects /\ "del" \in Statuses
    BY DEF Mutexes, Statuses
  <2>2. e = EndPends(k, m, who, "del")
    BY DEF PendAbortAll
  <2> HIDE DEF who, e
  <2> QED
    BY <1>2, <2>1, <2>2, EndPendsSound DEF Inherits
<1>5. over \cup {m} = over
  OBVIOUS
<1> HIDE DEF e, over
<1>6. ASSUME NEW u \in Tasks
      PROVE  /\ e.task[u].prio = k.task[u].prio /\ e.task[u].base = k.task[u].base
             /\ e.task[u].state = "del" <=> k.task[u].state = "del"
             /\ e.task[u].state \in Blocked <=>
                   k.task[u].state \in Blocked /\ k.task[u].on # m
             /\ e.task[u].state \in Blocked => e.task[u].on = k.task[u].on
  <2>1. /\ Readied(k.task[u], "del").state = "rdy"
        /\ Readied(k.task[u], "del").prio = k.task[u].prio
        /\ Readied(k.task[u], "del").base = k.task[u].base
    BY <1>2, ReadiedTCB DEF Statuses
  <2>2. e.task[u] = IF u \in who /\ k.task[u].state \in Blocked /\ k.task[u].on = m
                    THEN Readied(k.task[u], "del") ELSE k.task[u]
    BY <1>4
  <2> QED
    BY <2>1, <2>2 DEF Blocked
<1>7. Fit(c, asked, over \cup {m}) /\ Changes(e, c, {"owner", "nest", "group"})
  BY <1>2, <1>3, ClearedFit
<1>8. c.owner = [k.owner EXCEPT ![m] = None]
  <2>1. MutexTypes(e) /\ Groups(e)
    BY <1>3 DEF Fit, Healthy
  <2>2. c.owner = [e.owner EXCEPT ![m] = None]
    BY <2>1, ClearedGroups
  <2> QED
    BY <1>3, <2>2
<1> HIDE DEF c
<1>9. Fit(c, asked, over) /\ c.fault = {} /\ c.cur = k.cur
  BY <1>2, <1>3, <1>4, <1>5, <1>7 DEF Changes, Fit, MutexTypes, CoreFields
<1>10. Walkable(c, Tasks) /\ o \in Tasks \cup {None} /\ Sound(c, Tasks) /\ MutexTypes(c)
  BY <1>2, <1>9, FitWalkable DEF MutexTypes, Fit
<1>11. c.task = e.task /\ c.list = e.list
  BY <1>3, <1>7, SoundOwners DEF Fit
<1>12. ListsInOrder(c)
  BY <1>4, <1>11 DEF ListsInOrder
<1>13. \A M : m \notin M =>
        \A v \in Tasks : /\ Waits(c, v, M) <=> Waits(k, v, M)
                         /\ Waits(k, v, M) => c.task[v].prio = k.task[v].prio
  BY <1>6, <1>11 DEF Waits
<1>14. \A u \in Tasks : Owned(c, u) = Owned(k, u) \ {m} /\ (u # o => m \notin Owned(k, u))
  BY <1>2, <1>8, PrioType DEF Owned, MutexTypes
<1>15. ASSUME NEW u \in Tasks, c.task[u].state # "del"
       PROVE  Due(k, u, Owned(k, u), {}, k.task[u].prio)
  <2>1. k.task[u].state # "del"
    BY <1>6, <1>11, <1>15
  <2> QED
    BY <2>1 DEF Inherits, Exact, HasDue, Nothing
<1> HIDE DEF o
<1>16. ASSUME NEW u \in Tasks \ {o} PROVE HasDue(c, Nothing, u)
  <2> SUFFICES ASSUME c.task[u].state # "del" PROVE Due(c, u, Owned(k, u), {}, k.task[u].prio)
    BY <1>6, <1>11, <1>14, Zenon DEF HasDue, Nothing
  <2>1. Due(k, u, Owned(k, u), {}, k.task[u].prio)
    BY <1>15
  <2>2. \A v \in Tasks : /\ Waits(c, v, Owned(k, u)) <=> Waits(k, v, Owned(k, u))
                         /\ Waits(k, v, Owned(k, u)) => c.task[v].prio = k.task[v].prio
    BY <1>13, <1>14
  <2>3. c.task[u].base = k.task[u].base
    BY <1>6, <1>11
  <2> QED
    BY <2>1, <2>2, <2>3, DueKept
<1>17. ASSUME r.fault = {} PROVE Inherits(r)
  <2>1. CASE o = None
    <3>1. r = c /\ None \notin Tasks
      BY <2>1, PrioType
    <3> HIDE DEF r
    <3> QED
      BY <1>12, <1>16, <2>1, <3>1 DEF Inherits, Exact
  <2>2. CASE o # None /\ c.task[o].prio # c.task[o].base
    <3>1. r = ChangePrio(c, o, p) /\ o \in Tasks
      BY <1>10, <2>2
    <3>2. p \in Prios
      BY <1>10, <3>1, WalkablePrio
    <3>3. Due(c, o, Owned(c, o), {}, p)
      <4>1. Outside(c, Tasks) /\ Owned(c, o) \in SUBSET Mutexes /\ Lists(c.group[o], Owned(c, o))
        BY <1>10, <3>1 DEF Walkable, Groups, Owned
      <4> QED
        BY <1>10, <1>12, <3>1, <4>1, UninheritedDue
    <3>4. ChangePrio(c, o, p).fault = {}
      BY <1>17, <3>1
    <3> HIDE DEF p, r
    <3>5. Inherits(ChangePrio(c, o, p))
      BY <1>10, <1>12, <1>16, <3>1, <3>2, <3>3, <3>4, GivenExact
    <3> QED
      BY <3>1, <3>5
  <2>3. CASE o # None /\ c.task[o].prio = c.task[o].base
    <3>1. r = c /\ o \in Tasks
      BY <1>10, <2>3
    <3> HIDE DEF r, p
    <3>2. ASSUME c.task[o].state # "del" PROVE Due(c, o, Owned(c, o), {}, c.task[o].prio)
      <4>1. Due(k, o, Owned(k, o), {}, k.task[o].prio)
        BY <1>15, <3>1, <3>2
      <4>2. c.task[o].prio = k.task[o].prio /\ c.task[o].base = k.task[o].base
        BY <1>6, <1>11, <3>1
      <4>3. \A v \in Tasks : Waits(c, v, Owned(c, o)) => c.task[o].prio <= c.task[v].prio
        <5> SUFFICES ASSUME NEW v \in Tasks, Waits(c, v, Owned(c, o))
                     PROVE  c.task[o].prio <= c.task[v].prio
          OBVIOUS
        <5>1. m \notin Owned(c, o) /\ Owned(c, o) \subseteq Owned(k, o)
          BY <1>14, <3>1
        <5>2. Waits(k, v, Owned(c, o)) /\ c.task[v].prio = k.task[v].prio
          BY <1>13, <5>1
        <5> QED
          BY <4>1, <4>2, <5>1, <5>2 DEF Due, Waits
      <4>4. c.task[o].prio <= c.task[o].base
        BY <4>1, <4>2 DEF Due
      <4> QED
        BY <2>3, <4>3, <4>4 DEF Due
    <3>3. HasDue(c, Nothing, o)
      BY <3>1, <3>2 DEF HasDue, Nothing
    <3> QED
      BY <1>12, <1>16, <3>1, <3>3 DEF Inherits, Exact
  <2> QED
    BY <2>1, <2>2, <2>3
<1>18. Moves(c, r, Tasks)
  <2>1. Moves(c, c, Tasks)
    BY <1>10, MovesSelf
  <2>2. CASE o # None
    <3>1. o \in Tasks
      BY <1>10, <2>2
    <3>2. Moves(c, ChangePrio(c, o, p), Tasks)
      BY <1>10, <3>1, WalkablePrio, ChangePrioMoves
    <3> QED
      BY <2>1, <3>2
  <2> QED
    BY <2>1, <2>2
<1> HIDE DEF r
<1>19. r.cur = k.cur /\ Sound(r, Tasks) /\ MutexTypes(r)
  BY <1>9, <1>18 DEF Moves
<1> QED
  BY <1>1, <1>17, <1>19, SchedKept

LEMMA KeptTaskChangePrio ==
  ASSUME MutexInv, Sane, Inherits(k), NEW t \in Tasks, NEW u \in Tasks, NEW p \in Prios,
         TaskChangePrio(t, u, p)
  PROVE  Kept(k.cur, k')
<1> DEFINE given == [k EXCEPT !.task[u].base = p]
           prio == IF k.group[u] # <<>> /\ p > k.task[u].prio
                   THEN Higher(p, MutexGrpPrioFindHighest(given, u)) ELSE p
           r == ChangePrio(given, u, prio)
           M == Owned(k, u)
<1>1. k' = Sched(r) /\ k.task[u].state # "del"
  BY DEF TaskChangePrio
<1>2. /\ Fit(k, asked, gone) /\ Sound(k, Tasks) /\ MutexTypes(k) /\ Walkable(k, Tasks)
      /\ k.task \in [Tasks -> TCBs] /\ Healthy(k)
  BY FitNow
<1>3. Moves(k, given, Tasks)
  BY <1>2, BaseMoves
<1>4. /\ given.list = k.list /\ given.task[u].base = p
      /\ \A v \in Tasks : /\ given.task[v].prio = k.task[v].prio
                          /\ given.task[v].state = k.task[v].state
                          /\ given.task[v].on = k.task[v].on
                          /\ v # u => given.task[v].base = k.task[v].base
  <2>1. given.list = k.list /\ given.task = [k.task EXCEPT ![u].base = p]
    BY <1>2 DEF Sound, Kernel, CoreFields
  <2> HIDE DEF given
  <2> QED
    BY <1>2, <2>1 DEF TCBs
<1> HIDE DEF given
<1>5. Walkable(given, Tasks)
  BY <1>2, <1>3, MovesWalkable
<1>6. prio \in Prios /\ MutexGrpPrioFindHighest(given, u) \in Prios
  BY <1>5, WalkablePrio DEF Higher
<1>7. given.owner = k.owner /\ given.cur = k.cur /\ given.group = k.group
  BY <1>3 DEF Moves, Alike
<1>8. \A v \in Tasks : Owned(given, v) = Owned(k, v)
  BY <1>7 DEF Owned
<1>9. \A v \in Tasks : \A S : Waits(given, v, S) <=> Waits(k, v, S)
  BY <1>4 DEF Waits
<1>10. ListsInOrder(given)
  BY <1>2, <1>4, OrderKept DEF Inherits
<1>11. ASSUME NEW v \in Tasks, k.task[v].state # "del"
       PROVE  Due(k, v, Owned(k, v), {}, k.task[v].prio)
  BY <1>11 DEF Inherits, Exact, HasDue, Nothing
<1>12. ASSUME NEW v \in Tasks \ {u} PROVE HasDue(given, Nothing, v)
  <2> SUFFICES ASSUME k.task[v].state # "del" PROVE Due(given, v, Owned(k, v), {}, k.task[v].prio)
    BY <1>4, <1>8 DEF HasDue, Nothing
  <2>1. Due(k, v, Owned(k, v), {}, k.task[v].prio)
    BY <1>11
  <2> QED
    BY <1>4, <1>9, <2>1, DueKept
<1>13. Due(given, u, M, {}, prio)
  <2>1. p \in Nat /\ k.task[u].prio \in Nat /\ \A v \in Tasks : k.task[v].prio \in Nat
    BY <1>2, PrioType DEF Prios, TCBs
  <2>2. CASE k.group[u] # <<>> /\ p > k.task[u].prio
    <3> DEFINE F == MutexGrpPrioFindHighest(given, u)
    <3>1. M \in SUBSET Mutexes /\ Lists(given.group[u], M) /\ Outside(given, Tasks) /\ Sound(given, Tasks)
      BY <1>5, <1>8 DEF Walkable, Groups, Owned
    <3>2. Due(given, u, M, {}, Uninherited(given, u))
      <4> HIDE DEF M
      <4> QED
        BY <1>10, <3>1, UninheritedDue
    <3>3. F \in Nat
      BY <1>6, PrioType DEF Prios
    <3>4. Uninherited(given, u) = prio
      <4>1. Uninherited(given, u) = Higher(F, p) /\ prio = Higher(p, F)
        BY <1>4, <2>2 DEF Uninherited
      <4> HIDE DEF F, prio
      <4> QED
        BY <2>1, <3>3, <4>1 DEF Higher
    <3> QED
      BY <3>2, <3>4
  <2>3. CASE k.group[u] = <<>>
    <3>1. M = {}
      BY <1>2, <2>3, ListsNone DEF Healthy, Groups, Owned
    <3>2. prio = p
      BY <2>3
    <3> HIDE DEF prio
    <3> QED
      BY <1>4, <2>1, <3>1, <3>2 DEF Due, Waits
  <2>4. CASE ~(p > k.task[u].prio)
    <3>1. prio = p /\ p <= k.task[u].prio
      BY <2>1, <2>4
    <3>2. Due(k, u, M, {}, k.task[u].prio)
      BY <1>1, <1>11
    <3> HIDE DEF prio, M
    <3>3. \A v \in Tasks : Waits(given, v, M) => p <= given.task[v].prio
      BY <1>4, <1>9, <2>1, <3>1, <3>2 DEF Due
    <3>4. p <= given.task[u].base /\ p = given.task[u].base
      BY <1>4, <2>1
    <3> QED
      BY <3>1, <3>3, <3>4 DEF Due
  <2> QED
    BY <2>2, <2>3, <2>4
<1> HIDE DEF prio
<1>14. Moves(given, r, Tasks)
  BY <1>5, <1>6, ChangePrioMoves
<1>15. ASSUME r.fault = {} PROVE Inherits(r)
  <2>1. Due(given, u, Owned(given, u), {}, prio)
    BY <1>8, <1>13
  <2>2. ChangePrio(given, u, prio).fault = {}
    BY <1>15
  <2> HIDE DEF r
  <2> QED
    BY <1>5, <1>6, <1>10, <1>12, <2>1, <2>2, GivenExact DEF r
<1> HIDE DEF r
<1>16. r.cur = k.cur /\ Sound(r, Tasks) /\ MutexTypes(r)
  BY <1>7, <1>14 DEF Moves
<1> QED
  BY <1>1, <1>15, <1>16, SchedKept

LEMMA OffInherits ==
  ASSUME MutexInv, Sane, Inherits(k), NEW u \in Tasks,
         Off(k, u).fault = {}
  PROVE  Inherits(Off(k, u))
<1> DEFINE T == Tasks \ {u}
           r == Off(k, u)
<1>1. /\ Healthy(k) /\ Sound(k, Tasks) /\ MutexTypes(k) /\ k.task \in [Tasks -> TCBs]
      /\ T \in SUBSET Tasks
  BY FitNow
<1>2. CASE k.task[u].state = "rdy"
  <2>1. r = RdyListRemove(k, u)
    BY <1>2 DEF Off
  <2>2. Changes(k, r, {"rdy"})
    BY <1>1, <1>2, <2>1, RdyOutSound
  <2> HIDE DEF r
  <2>3. r.task = k.task /\ r.owner = k.owner /\ r.list = k.list
    BY <1>1, <2>2 DEF Changes, MutexTypes, CoreFields
  <2>4. Quiet(k, r)
    BY <2>3 DEF Quiet, Waits
  <2> QED
    BY <1>1, <2>4, QuietInherits DEF r
<1>3. CASE k.task[u].state \in Blocked
  <2> DEFINE q == PendListRemove(k, u)
             c == k.task[u].on
  <2>1. PICK o \in Tasks \ {u} : o = k.owner[c] /\ c # None /\ c \in Mutexes
    BY <1>1, <1>3 DEF Healthy, Waited, TCBs, Mutexes
  <2>2. r = Disinherit(q, o, k.task[u].prio)
    BY <1>3, <2>1 DEF Off, Blocked
  <2>3. /\ Sound(q, T) /\ Changes(k, q, {"list", "task"})
        /\ q.task = [k.task EXCEPT ![u].on = None]
    BY <1>1, <1>3, <2>1, PendOutSound
  <2>4. q.list = [k.list EXCEPT ![c] = Without(@, u)]
    BY <1>1, <2>1 DEF PendListRemove, Sound, Kernel, CoreFields
  <2> HIDE DEF q, r, c
  <2>5. /\ q.owner = k.owner /\ q.group = k.group /\ MutexTypes(q)
    BY <1>1, <2>3 DEF Changes, MutexTypes, CoreFields
  <2>6. /\ q.task[u].on = None /\ q.task[u].state \in Blocked
        /\ q.task[u].prio = k.task[u].prio /\ q.task[u].base = k.task[u].base
        /\ \A v \in T : q.task[v] = k.task[v]
    BY <1>1, <1>3, <2>3 DEF TCBs
  <2>7. Groups(q)
    BY <1>1, <2>5 DEF Healthy, Groups
  <2>8. Waited(q, T)
    BY <1>1, <2>5, <2>6 DEF Healthy, Waited
  <2>9. Outside(q, T)
    BY <1>1, <2>6 DEF Healthy, Outside
  <2>10. Walkable(q, T)
    BY <2>3, <2>5, <2>7, <2>8, <2>9 DEF Walkable
  <2>11. ListsInOrder(q)
    <3>1. c \in Objects /\ k.task[u].on = c /\ \A v \in Tasks \ {u} : q.task[v].prio = k.task[v].prio
      BY <2>1, <2>6 DEF Mutexes, c
    <3> QED
      BY <1>1, <1>3, <2>4, <3>1, OrderShrunk DEF Inherits
  <2>12. ~Waits(q, u, Mutexes)
    BY <2>6, PrioType DEF Waits, Mutexes
  <2>13. Disinherit(q, o, k.task[u].prio).fault = {}
    BY <2>2 DEF r
  <2>14. Inherits(Disinherit(q, o, k.task[u].prio))
    <3> HIDE DEF T
    <3>1. \A v \in Tasks \ {u} : q.task[v] = k.task[v]
      BY <2>6 DEF T
    <3>2. k.task[u].on \in Mutexes /\ o = k.owner[k.task[u].on]
      BY <2>1 DEF c
    <3> QED
      BY <1>1, <1>3, <2>5, <2>6, <2>10, <2>11, <2>12, <2>13, <3>1, <3>2, LeavesExact
  <2> QED
    BY <2>2, <2>14 DEF r
<1>4. CASE k.task[u].state \in {"dly", "del"}
  BY <1>4 DEF Off, Blocked
<1>5. k.task[u].state \in States
  BY <1>1 DEF TCBs
<1> QED
  BY <1>2, <1>3, <1>4, <1>5 DEF States

LEMMA KeptTaskDel ==
  ASSUME MutexInv, Sane, Inherits(k), NEW t \in Tasks, NEW u \in Tasks, TaskDel(t, u)
  PROVE  Kept(k.cur, k')
<1> DEFINE off == Off(k, u)
           g == GrpPostAll(off, u)
           r == [g EXCEPT !.task[u].state = "del"]
           T == Tasks \ {u}
<1>1. k' = Sched(r)
  BY Zenon DEF TaskDel, Off
<1>2. Healthy(k) /\ Sound(k, Tasks) /\ MutexTypes(k)
  BY FitNow
<1>3. Left(k, off, u) /\ (off.fault = {} => Inherits(off))
  BY <1>1, OffLeft, OffInherits
<1> HIDE DEF off
<1>4. Groups(off) /\ Nested(off)
  BY <1>2, <1>3 DEF Left, Healthy, Groups, Nested
<1>5. Posted(off, g, u)
  BY <1>3, <1>4, GrpPosted DEF Left
<1> HIDE DEF g
<1>6. /\ Sound(r, Tasks) /\ Changes(g, r, {"task"})
      /\ r.task = [g.task EXCEPT ![u].state = "del"]
  BY <1>5, IdleSound DEF Posted
<1> HIDE DEF r
<1>7. /\ r.owner = g.owner /\ r.fault = g.fault /\ r.list = g.list /\ r.cur = g.cur
      /\ MutexTypes(r)
  BY <1>5, <1>6 DEF Posted, Changes, MutexTypes, CoreFields
<1>8. /\ r.task[u].state = "del" /\ r.task[u].prio = g.task[u].prio
      /\ r.task[u].base = g.task[u].base
      /\ \A v \in T : r.task[v] = g.task[v]
  BY <1>5, <1>6 DEF Posted, Sound, Kernel, TCBs
<1>9. ASSUME r.fault = {} PROVE Inherits(r) /\ r.cur = k.cur
  <2>1. /\ g.task = off.task /\ g.list = off.list /\ g.cur = off.cur /\ off.fault = {}
        /\ \A m \in Mutexes : /\ off.owner[m] = u => off.list[m] = <<>>
                              /\ off.owner[m] # u => g.owner[m] = off.owner[m]
    BY <1>5, <1>7, <1>9 DEF Posted
  <2>2. Sound(off, T) /\ off.task[u].on = None /\ off.cur = k.cur
    BY <1>3 DEF Left
  <2>3. \A m \in Mutexes : ~Waits(off, u, {m}) /\ ~Waits(r, u, {m})
    BY <1>8, <2>2, PrioType DEF Waits, Mutexes, Blocked
  <2>4. ASSUME NEW m \in Mutexes, off.owner[m] = u PROVE \A v \in Tasks : ~Waits(off, v, {m})
    <3>1. T \in SUBSET Tasks /\ \A v \in Tasks : v # u => v \in T
      OBVIOUS
    <3>2. off.list[m] = <<>>
      BY <2>1, <2>4
    <3> HIDE DEF T
    <3>3. \A v \in T : off.task[v].state \in Blocked => off.task[v].on # m
      BY <2>2, <3>1, <3>2, NobodyWaits
    <3> QED
      BY <2>3, <3>1, <3>3 DEF Waits
  <2>5. \A v \in Tasks, m \in Mutexes : Waits(r, v, {m}) <=> Waits(off, v, {m})
    BY <1>8, <2>1, <2>3 DEF Waits
  <2>6. Quiet(off, r)
    BY <1>7, <1>8, <2>1, <2>4, <2>5 DEF Quiet
  <2>7. T \in SUBSET Tasks
    OBVIOUS
  <2> HIDE DEF T
  <2> QED
    BY <1>3, <1>7, <2>1, <2>2, <2>6, <2>7, QuietInherits
<1>10. CASE r.fault = {}
  BY <1>1, <1>6, <1>7, <1>9, <1>10, SchedKept
<1>11. CASE r.fault # {}
  BY <1>1, <1>6, <1>7, <1>11, SchedInherits DEF Kept
<1> QED
  BY <1>10, <1>11

-----------------------------------------------------------------------------
(* What the calls keep.                                                    *)

InheritInv == MutexInv /\ (Sane => Inherits(k))

LEMMA InheritInit == Init => InheritInv
<1> SUFFICES ASSUME Init PROVE InheritInv
  OBVIOUS
<1>1. MutexInv
  BY InvInit
<1>2. /\ Started.task = [t \in Tasks |-> [prio |-> Base[t], base |-> Base[t], state |-> "rdy",
                                          on |-> None, status |-> "ok"]]
      /\ k.task = Started.task /\ k.list = [o \in Objects |-> <<>>]
  BY StartedSound DEF Init, Started
<1>3. ListsInOrder(k)
  BY <1>2 DEF ListsInOrder
<1>4. \A t \in Tasks : k.task[t].prio = k.task[t].base /\ k.task[t].prio \in Nat
                      /\ k.task[t].state = "rdy"
  BY <1>2, PrioType, OsAssumption DEF OsAssumption, Prios
<1>5. Exact(k, Nothing)
  BY <1>4 DEF Exact, HasDue, Due, Nothing, Waits, Blocked
<1> QED
  BY <1>1, <1>3, <1>5 DEF InheritInv, Inherits

LEMMA NextKept ==
  ASSUME InheritInv, [Next]_vars
  PROVE  Sane' => Inherits(k') /\ Switches(k.cur, k')
<1> SUFFICES ASSUME Sane' PROVE Inherits(k') /\ Switches(k.cur, k')
  OBVIOUS
<1>1. CASE Next
  <2>1. Sane /\ Calling /\ MutexInv /\ Inherits(k)
    BY <1>1 DEF Next, InheritInv
  <2>2. ASSUME NEW t \in Tasks, NEW m \in Mutexes,
               \/ MutexTake(t, m) \/ MutexTakeAgain(t, m)
               \/ \E timed \in BOOLEAN : MutexBlock(t, m, timed)
               \/ MutexPostNested(t, m) \/ MutexPostFree(t, m)
               \/ \E sched \in BOOLEAN : MutexPostGive(t, m, sched)
               \/ MutexDelNoPend(t, m) \/ MutexDelAlways(t, m)
        PROVE  Kept(k.cur, k')
    BY <2>1, <2>2, KeptTake, KeptNesting, KeptBlock, KeptPostFree, KeptPostGive, KeptDelNoPend,
       KeptDelAlways
  <2>3. ASSUME NEW t \in Tasks,
               MutexPendReturns(t) \/ TimeDly(t) \/ Yield(t) \/ TimerCallback(t)
        PROVE  Kept(k.cur, k')
    <3>1. CASE MutexPendReturns(t)
      BY <2>1, <3>1, KeptPendReturns DEF MutexPendReturns
    <3> QED
      BY <2>1, <2>3, <3>1, KeptTimeDly, KeptYield, KeptTimer
  <2>4. ASSUME NEW t \in Tasks, NEW u \in Tasks,
               \/ TaskDel(t, u) \/ TimeDlyResume(t, u)
               \/ \E p \in Prios : TaskChangePrio(t, u, p)
        PROVE  Kept(k.cur, k')
    <3>1. CASE TimeDlyResume(t, u)
      BY <2>1, <3>1, KeptDelayOver DEF TimeDlyResume
    <3> QED
      BY <2>1, <2>4, <3>1, KeptTaskDel, KeptTaskChangePrio
  <2>5. Kept(k.cur, k')
    BY <2>1, <2>2, <2>3, <2>4 DEF Calling
  <2> QED
    BY <2>5 DEF Kept, Sane
<1>2. CASE UNCHANGED vars
  <2>1. k' = k
    BY <1>2 DEF vars
  <2> QED
    BY <2>1 DEF InheritInv, Sane, Switches
<1> QED
  BY <1>1, <1>2

LEMMA InheritNext == InheritInv /\ [Next]_vars => InheritInv'
<1>1. InheritInv /\ [Next]_vars => MutexInv'
  BY InvNext DEF InheritInv
<1>2. InheritInv /\ [Next]_vars => (Sane' => Inherits(k'))
  BY NextKept
<1>3. Inherits(k)' <=> Inherits(k')
  BY DEF Inherits, ListsInOrder, Exact, HasDue, Due, Owned, Waits
<1> QED
  BY <1>1, <1>2, <1>3 DEF InheritInv

(* Who is due a priority has it, and the pend lists are in order: the      *)
(* invariant that the next two theorems are read off.                      *)
THEOREM MutexInheritance == Spec => []InheritInv
BY InheritInit, InheritNext, PTL DEF Spec

(* Priority inheritance is exact: between two calls every live task runs   *)
(* at the higher of the priority it was given and those of the tasks that  *)
(* wait for what it owns, for every number of tasks, mutexes and           *)
(* priorities, and every pend list is in the order of its tasks'           *)
(* priorities.                                                             *)
THEOREM MutexInheritsExactly == Spec => []InheritsExactly
<1>1. InheritInv => InheritsExactly
  <2> SUFFICES ASSUME InheritInv, Sane PROVE InheritsExactly
    BY DEF InheritsExactly
  <2>1. /\ Healthy(k) /\ Sound(k, Tasks) /\ MutexTypes(k) /\ k.task \in [Tasks -> TCBs]
        /\ Walkable(k, Tasks)
    BY FitNow DEF InheritInv
  <2>2. ListsInOrder(k) /\ Exact(k, Nothing)
    BY DEF InheritInv, Inherits
  <2>3. ASSUME NEW t \in Tasks, k.task[t].state # "del"
        PROVE  k.task[t].prio = Uninherited(k, t)
    <3> DEFINE M == Owned(k, t)
    <3>1. Lists(k.group[t], M) /\ M \in SUBSET Mutexes
      BY <2>1 DEF Healthy, Groups, Owned
    <3>2. Due(k, t, M, {}, k.task[t].prio)
      BY <2>2, <2>3 DEF Exact, HasDue, Nothing
    <3> HIDE DEF M
    <3>3. Outside(k, Tasks) /\ Tasks \in SUBSET Tasks
      BY <2>1 DEF Healthy
    <3>4. Uninherited(k, t) \in Prios
      BY <2>1, <3>1, <3>3, UninheritedPrio
    <3>5. Due(k, t, M, {}, Uninherited(k, t))
      BY <2>1, <2>2, <3>1, <3>3, UninheritedDue
    <3>6. k.task[t].prio \in Prios
      BY <2>1 DEF TCBs
    <3> QED
      BY <2>1, <3>2, <3>4, <3>5, <3>6, DueOnce
  <2> QED
    BY <2>2, <2>3 DEF InheritsExactly
<1> QED
  BY <1>1, MutexInheritance, PTL

(* No unbounded inversion: a switch never goes to a task below the first   *)
(* waiter of a mutex whose owner is ready, whatever call made it.          *)
THEOREM MutexNoInversion == Spec => NoInversion
<1>1. ASSUME InheritInv, InheritInv', [Next]_vars,
             k'.cur # k.cur, k'.cur # None, k'.fault = {},
             NEW m \in Mutexes, k'.list[m] # <<>>, k'.task[k'.owner[m]].state = "rdy"
      PROVE  k'.task[k'.cur].prio <= k'.task[Head(k'.list[m])].prio
  <2> DEFINE h == Head(k'.list[m])
             o == k'.owner[m]
             c == k'.cur
  <2>1. Exact(k', Nothing) /\ Switches(k.cur, k')
    BY <1>1, NextKept DEF Sane, Inherits
  <2>2. Healthy(k') /\ Sound(k', Tasks) /\ MutexTypes(k')
    <3>1. Fit(k', asked', gone')
      BY <1>1 DEF InheritInv, MutexInv
    <3> QED
      BY <1>1, <3>1 DEF Fit
  <2>3. h \in Tasks /\ k'.task[h].state \in Blocked /\ k'.task[h].on = m
    <3>1. Lists(k'.list[m], WaitingAt(k'.task, Tasks, m))
      BY <2>2 DEF Sound, Placed, Mutexes
    <3>2. h \in WaitingAt(k'.task, Tasks, m)
      BY <1>1, <3>1, ListsNone
    <3> QED
      BY <3>2 DEF WaitingAt
  <2>4. o \in Tasks
    BY <2>2, <2>3 DEF Healthy, Waited
  <2>5. c \in Tasks /\ k'.task \in [Tasks -> TCBs]
    BY <1>1, <2>2 DEF Sound, Kernel
  <2>6. k'.task[o].prio <= k'.task[h].prio
    <3>1. m \in Owned(k', o)
      BY DEF Owned
    <3>2. Due(k', o, Owned(k', o), {}, k'.task[o].prio)
      BY <1>1, <2>1, <2>4 DEF Exact, HasDue, Nothing
    <3>3. Waits(k', h, Owned(k', o))
      BY <2>3, <3>1 DEF Waits
    <3> QED
      BY <2>3, <3>2, <3>3 DEF Due
  <2>7. k'.task[c].prio <= k'.task[o].prio
    BY <1>1, <2>1, <2>4 DEF Switches
  <2>8. k'.task[c].prio \in Nat /\ k'.task[o].prio \in Nat /\ k'.task[h].prio \in Nat
    BY <2>3, <2>4, <2>5, PrioType DEF TCBs, Prios
  <2> HIDE DEF h, o, c
  <2>9. k'.task[c].prio <= k'.task[h].prio
    BY <2>6, <2>7, <2>8
  <2> QED
    BY <2>9 DEF h, c
<1>2. InheritInv /\ InheritInv' /\ [Next]_vars =>
        [k'.cur # k.cur /\ k'.cur # None /\ k'.fault = {} =>
           \A m \in Mutexes :
             k'.list[m] # <<>> /\ k'.task[k'.owner[m]].state = "rdy" =>
               k'.task[k'.cur].prio <= k'.task[Head(k'.list[m])].prio]_vars
  BY <1>1
<1> QED
  BY <1>2, MutexInheritance, PTL DEF Spec, NoInversion
=============================================================================
