----------------------------- MODULE SleepTimer -----------------------------
(***************************************************************************)
(* The sleeptimer: one comparator of the RTCC serves every timer.  Timers  *)
(* wait in a list, each with its distance (delta) to the one before; the   *)
(* deltas count from last_delta_update_count.  The comparator is set for   *)
(* the head.  The interrupt fires those that are due and sets it anew; it  *)
(* may come late, while other code goes on.  The counter and every count   *)
(* of ticks have W values.                                                 *)
(*                                                                         *)
(* Each public function is one atomic section.  The kernel is the only     *)
(* user in the program: its timers run once, all have priority 0, and      *)
(* their callback (OS_TimerCallback) uses no timer.  Periodic timers,      *)
(* priorities and callbacks that start timers are therefore not modelled,  *)
(* nor a timeout of 0, which only calls the callback, nor the wall clock,  *)
(* which is not built.                                                     *)
(***************************************************************************)
EXTENDS Integers, FiniteSets, SequencesExt

CONSTANTS
  Timers,
  W,             \* values of the counter (2^32)
  H,             \* values of overflow_counter (2^16)
  Timeouts,      \* what timers are started with
  Latency        \* the ticks an interrupt may wait, or take

ASSUME TimerAssumption ==
  /\ IsFiniteSet(Timers) /\ W \in Nat /\ W > 4 /\ H \in Nat \ {0}
  /\ Timeouts \subseteq 1..(W \div 2) /\ Latency \in Nat

VARIABLES
  cnt,           \* the RTCC counter
  high,          \* how often it wrapped, modulo H
  overflows,     \* overflow_counter
  q,             \* the timers: list, delta, and last_delta_update_count
  cc,            \* channel 1: value, on (interrupt and mode), flag
  flagOF,        \* the overflow flag
  irq,           \* process_timer_irq: at, delta_tot, current_cnt
  waited,        \* ticks since the interrupt is due
  left,          \* ticks left to every timer that runs
  late,          \* how late the callback at work came
  disturbed        \* was the head overdue at an update since timers run?

vars == <<cnt, high, overflows, q, cc, flagOF, irq, waited, left, late, disturbed>>

Quiet == [at |-> "idle", tot |-> 0, cur |-> 0]

Init ==
  /\ cnt = 0 /\ high = 0 /\ overflows = 0
  /\ q = [list |-> <<>>, delta |-> [t \in Timers |-> 0], last |-> 0]
  /\ cc = [value |-> 0, on |-> FALSE, flag |-> FALSE]
  /\ flagOF = FALSE /\ irq = Quiet
  /\ waited = 0 /\ left = [t \in Timers |-> 0] /\ late = 0 /\ disturbed = FALSE

Diff(a, b) == (a - b) % W
Runs(t) == Contains(q.list, t)

-----------------------------------------------------------------------------
(* The list of timers.                                                     *)

(* When the n-th of the list is due, counted from last.                    *)
Offset(r, n) ==
  LET sum[i \in 0..Len(r.list)] == IF i = 0 THEN 0 ELSE sum[i - 1] + r.delta[r.list[i]]
  IN sum[n]

(* Behind all that are not due later.                                      *)
delta_list_insert_timer(r, t, timeout) ==
  LET n == CHOOSE i \in 0..Len(r.list) :
             Offset(r, i) <= timeout /\ (i < Len(r.list) => timeout < Offset(r, i + 1))
      rest == timeout - Offset(r, n)
  IN [r EXCEPT !.list = InsertAt(@, n + 1, t),
               !.delta = [u \in Timers |->
                 IF u = t THEN rest
                 ELSE IF n < Len(r.list) /\ u = r.list[n + 1] THEN @[u] - rest ELSE @[u]]]

(* Slip: the distance of a timer that is removed is lost.                  *)
RemoveAlone(r, t) == [r EXCEPT !.list = SelectSeq(@, LAMBDA u : u # t)]

delta_list_remove_timer(r, t) ==
  LET n == CHOOSE i \in 1..Len(r.list) : r.list[i] = t
  IN [r EXCEPT !.list = RemoveAt(@, n),
               !.delta = [u \in Timers |->
                 IF n < Len(r.list) /\ u = r.list[n + 1] THEN @[u] + @[t] ELSE @[u]]]

(* The branch of a head that is overdue moves last as the code does.       *)
update_first_timer_delta(r) ==
  LET diff == Diff(cnt, r.last)
      first == Head(r.list)
  IN IF r.list = <<>> THEN [r EXCEPT !.last = cnt]
     ELSE IF r.delta[first] >= diff
       THEN [r EXCEPT !.delta[first] = @ - diff, !.last = cnt]
       ELSE [r EXCEPT !.delta[first] = 0, !.last = Diff(cnt, r.delta[first])]

-----------------------------------------------------------------------------
(* The comparator.                                                         *)

MinDiff == 2

(* A comparator about to fire is left alone; TMR_WIDTH is the largest      *)
(* value of the counter, so the modulus turns that one into 0.             *)
sleeptimer_hal_set_compare(c, value) ==
  LET ahead == Diff(c.value, cnt)
      reachable == IF Diff(value, cnt) < MinDiff THEN (cnt + MinDiff) % W ELSE value
  IN [c EXCEPT !.on = TRUE,
               !.value = IF c.flag \/ ahead > MinDiff \/ ahead = 0
                           THEN reachable % (W - 1) ELSE @]

set_comparator_for_next_timer(c, r) ==
  sleeptimer_hal_set_compare(c, (r.last + r.delta[Head(r.list)]) % W)

ComparatorFor(c, r) ==
  IF r.list = <<>> THEN [c EXCEPT !.on = FALSE] ELSE set_comparator_for_next_timer(c, r)

-----------------------------------------------------------------------------
Pending == flagOF \/ (cc.on /\ cc.flag)

(* The interrupt is asked for, or at work.                                 *)
Due == Pending \/ irq.at # "idle"

(* The head should have been fired before.                                 *)
Overdue == q.list # <<>> /\ q.delta[Head(q.list)] < Diff(cnt, q.last)

(* The counter goes on, unless the interrupt has waited long enough.       *)
Tick ==
  /\ irq.at # "loop" /\ (Due => waited < Latency)
  /\ waited' = IF Due THEN waited + 1 ELSE 0
  /\ cnt' = (cnt + 1) % W
  /\ high' = IF cnt' = 0 THEN (high + 1) % H ELSE high
  /\ flagOF' = (flagOF \/ cnt' = 0)
  /\ cc' = [cc EXCEPT !.flag = @ \/ (cc.on /\ cc.value = cnt')]
  /\ left' = [t \in Timers |-> IF Runs(t) THEN left[t] - 1 ELSE left[t]]
  /\ disturbed' = (disturbed /\ ~(q.list = <<>> /\ irq.at = "idle"))
  /\ UNCHANGED <<overflows, q, irq, late>>

(* Slip: the comparator is set only for the first timer that starts.       *)
StartLeavesComparator(t, timeout) ==
  LET r == delta_list_insert_timer(update_first_timer_delta(q), t, timeout)
  IN /\ irq.at = "idle" /\ ~Runs(t)
     /\ q' = r
     /\ cc' = IF r.list = <<t>> THEN set_comparator_for_next_timer(cc, r) ELSE cc
     /\ left' = [left EXCEPT ![t] = timeout]
     /\ disturbed' = (disturbed \/ Overdue)
     /\ UNCHANGED <<cnt, high, overflows, flagOF, irq, waited, late>>

(* Slip: a timer that runs is started again.                               *)
StartAgain(t, timeout) ==
  LET r == delta_list_insert_timer(update_first_timer_delta(q), t, timeout)
  IN /\ irq.at = "idle"
     /\ q' = r
     /\ cc' = IF Head(r.list) = t THEN set_comparator_for_next_timer(cc, r) ELSE cc
     /\ left' = [left EXCEPT ![t] = timeout]
     /\ disturbed' = (disturbed \/ Overdue)
     /\ UNCHANGED <<cnt, high, overflows, flagOF, irq, waited, late>>

(* sl_sleeptimer_start_timer and create_timer.                             *)
StartTimer(t, timeout) ==
  LET r == delta_list_insert_timer(update_first_timer_delta(q), t, timeout)
  IN /\ irq.at = "idle" /\ ~Runs(t)
     /\ q' = r
     /\ cc' = IF Head(r.list) = t THEN set_comparator_for_next_timer(cc, r) ELSE cc
     /\ left' = [left EXCEPT ![t] = timeout]
     /\ disturbed' = (disturbed \/ Overdue)
     /\ UNCHANGED <<cnt, high, overflows, flagOF, irq, waited, late>>

StopTimer(t) ==
  LET r == delta_list_remove_timer(update_first_timer_delta(q), t)
  IN /\ irq.at = "idle" /\ Runs(t)
     /\ q' = r
     /\ cc' = IF Head(q.list) = t \/ r.list = <<>> THEN ComparatorFor(cc, r) ELSE cc
     /\ left' = [left EXCEPT ![t] = 0]
     /\ disturbed' = (disturbed \/ Overdue)
     /\ UNCHANGED <<cnt, high, overflows, flagOF, irq, waited, late>>

(* A stop of a timer that does not run, and a question how much time one   *)
(* has left: the deltas are brought up to date, the comparator stays.      *)
DeltasUpdated ==
  /\ irq.at = "idle"
  /\ q' = update_first_timer_delta(q)
  /\ disturbed' = (disturbed \/ Overdue)
  /\ UNCHANGED <<cnt, high, overflows, cc, flagOF, irq, waited, left, late>>

(* Slip: an overflow that comes with a match is not counted.               *)
IrqEntersOnce ==
  LET r == IF flagOF THEN update_first_timer_delta(q) ELSE q
      cleared == [cc EXCEPT !.flag = FALSE]
  IN /\ irq.at = "idle" /\ Pending
     /\ q' = r
     /\ overflows' = IF flagOF /\ ~cc.flag THEN (overflows + 1) % H ELSE overflows
     /\ cc' = IF flagOF /\ r.list # <<>> THEN set_comparator_for_next_timer(cleared, r)
              ELSE cleared
     /\ irq' = IF cc.flag THEN [at |-> "loop", tot |-> Diff(cnt, r.last), cur |-> cnt] ELSE Quiet
     /\ flagOF' = FALSE
     /\ waited' = IF cc.flag THEN waited ELSE 0
     /\ disturbed' = (disturbed \/ (flagOF /\ Overdue))
     /\ UNCHANGED <<cnt, high, left, late>>

(* RTCC_IRQHandler takes the flags, both at once; the overflow goes first. *)
IrqEnters ==
  LET r == IF flagOF THEN update_first_timer_delta(q) ELSE q
      cleared == [cc EXCEPT !.flag = FALSE]
  IN /\ irq.at = "idle" /\ Pending
     /\ q' = r
     /\ overflows' = IF flagOF THEN (overflows + 1) % H ELSE overflows
     /\ cc' = IF flagOF /\ r.list # <<>> THEN set_comparator_for_next_timer(cleared, r)
              ELSE cleared
     /\ irq' = IF cc.flag THEN [at |-> "loop", tot |-> Diff(cnt, r.last), cur |-> cnt] ELSE Quiet
     /\ flagOF' = FALSE
     /\ waited' = IF cc.flag THEN waited ELSE 0
     /\ disturbed' = (disturbed \/ (flagOF /\ Overdue))
     /\ UNCHANGED <<cnt, high, left, late>>

IrqFires ==
  LET t == Head(q.list)
  IN /\ irq.at = "loop" /\ q.list # <<>> /\ irq.tot >= q.delta[t]
     /\ q' = delta_list_remove_timer([q EXCEPT !.delta[t] = 0, !.last = irq.cur], t)
     /\ irq' = [irq EXCEPT !.at = "callback", !.tot = @ - q.delta[t]]
     /\ left' = [left EXCEPT ![t] = 0]
     /\ late' = 0 - left[t]
     /\ UNCHANGED <<cnt, high, overflows, cc, flagOF, waited, disturbed>>

CallbackReturns ==
  /\ irq.at = "callback"
  /\ irq' = [at |-> "loop", tot |-> (irq.tot + Diff(cnt, irq.cur)) % W, cur |-> cnt]
  /\ late' = 0
  /\ UNCHANGED <<cnt, high, overflows, q, cc, flagOF, waited, left, disturbed>>

IrqLeaves ==
  LET r == IF q.list = <<>> THEN q
           ELSE [q EXCEPT !.delta[Head(q.list)] = @ - irq.tot, !.last = irq.cur]
  IN /\ irq.at = "loop" /\ (q.list # <<>> => irq.tot < q.delta[Head(q.list)])
     /\ q' = r
     /\ cc' = ComparatorFor(cc, r)
     /\ irq' = Quiet /\ waited' = 0
     /\ UNCHANGED <<cnt, high, overflows, flagOF, left, late, disturbed>>

Next ==
  \/ Tick \/ IrqEnters \/ IrqFires \/ CallbackReturns \/ IrqLeaves \/ DeltasUpdated
  \/ \E t \in Timers : StopTimer(t) \/ \E timeout \in Timeouts : StartTimer(t, timeout)

Spec == Init /\ [][Next]_vars
-----------------------------------------------------------------------------
(* Every variable has its type, and every timer is listed at most once.    *)
TypeOK ==
  /\ cnt \in 0..(W - 1) /\ high \in 0..(H - 1) /\ overflows \in 0..(H - 1)
  /\ IsInjective(q.list) /\ Range(q.list) \subseteq Timers
  /\ q.delta \in [Timers -> 0..(W - 1)] /\ q.last \in 0..(W - 1)
  /\ cc \in [value : 0..(W - 1), on : BOOLEAN, flag : BOOLEAN] /\ flagOF \in BOOLEAN
  /\ irq.at \in {"idle", "loop", "callback"} /\ irq.tot \in 0..(W - 1)
  /\ left \in [Timers -> Int]

(* sl_sleeptimer_get_tick_count64, its upper half: overflow_counter, read  *)
(* into 32 bits, and the overflow that is still to be counted.             *)
Count64 == overflows + (IF flagOF THEN 1 ELSE 0)

(* Every overflow is counted, whenever it is asked; in the width that      *)
(* overflow_counter has (the last one of it reads H until it is counted).  *)
CountsOverflows == Count64 % H = high

(* No timer is forgotten: while one runs, the comparator is reached,       *)
(* within two ticks, or at most 3 ticks after the head of the list is due. *)
Armed ==
  irq.at = "idle" /\ q.list # <<>> =>
    /\ cc.on
    /\ \/ cc.flag
       \/ \E n \in 1..(W - 1) :
            /\ Diff(cc.value, cnt) = n
            /\ n <= MinDiff \/ n - 3 <= q.delta[Head(q.list)] - Diff(cnt, q.last)

(* Every timer is on time, whatever others are started, stopped and fired, *)
(* by the two ticks the comparator needs and the wait of the interrupt:    *)
(* as long as no update of the deltas found the head overdue.              *)
OnTime ==
  ~disturbed =>
    /\ late \in 0..(MinDiff + Latency)
    /\ \A t \in Timers : Runs(t) => left[t] >= 0 - (MinDiff + Latency)

(* sl_sleeptimer.h: the callback is called "when initial/periodic timeout  *)
(* expires", and the timeout is given "in timer ticks": not before it, by  *)
(* more than the tick in which it was started.                             *)
NeverEarly == late >= 0 - 1
=============================================================================
