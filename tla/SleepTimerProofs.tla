-------------------------- MODULE SleepTimerProofs --------------------------
(***************************************************************************)
(* Theorems about SleepTimer, for any width of the counters, any number of *)
(* timers and any timeouts of at most half a turn of the counter:          *)
(*   - the 64-bit count of ticks misses no overflow;                       *)
(*   - the list of timers is well formed and its deltas keep their sums;   *)
(*   - the comparator is set whenever a timer runs;                        *)
(*   - the callbacks come on time.                                         *)
(***************************************************************************)
EXTENDS SleepTimer, SequenceTheorems, WellFoundedInduction, TLAPS

(* An interrupt never waits half a turn of the counter: 2^31 ticks of the  *)
(* RTCC are hours at any of its frequencies.                               *)
Prompt == 2 * Latency < W

(* The successor on a circle, and a number already on it.                  *)
LEMMA Successor ==
  ASSUME NEW m \in Nat \ {0}, NEW n \in 0..(m - 1)
  PROVE  /\ (n + 1) % m = IF n = m - 1 THEN 0 ELSE n + 1
         /\ (n + 0) % m = n
<1>1. CASE n = m - 1
  BY <1>1
<1>2. CASE n # m - 1
  BY <1>2
<1> QED
  BY <1>1, <1>2

LEMMA Constants ==
  W \in Nat \ {0} /\ W > 4 /\ H \in Nat \ {0} /\ Latency \in Nat
BY TimerAssumption DEF TimerAssumption

(* The flag of an overflow is taken before the counter wraps again.  It    *)
(* was set at 0; since then the interrupt at work has waited, and the next *)
(* one, which takes the flag.                                              *)
CountType ==
  /\ cnt \in 0..(W - 1) /\ high \in 0..(H - 1) /\ overflows \in 0..(H - 1)
  /\ waited \in 0..Latency /\ "at" \in DOMAIN irq

Recent ==
  flagOF => cnt <= waited \/ (irq.at = "idle" /\ cnt <= Latency + waited)

CountInv == CountType /\ Recent /\ CountsOverflows

LEMMA InitCount == Init => CountInv
<1> SUFFICES ASSUME Init PROVE CountInv
  OBVIOUS
<1>1. CountType /\ Recent
  <2>1. "at" \in DOMAIN irq
    BY DEF Init, Quiet
  <2>2. 0 \in 0..(W - 1) /\ 0 \in 0..(H - 1) /\ 0 \in 0..Latency
    BY Constants
  <2> QED
    BY <2>1, <2>2 DEF Init, CountType, Recent
<1>2. CountsOverflows
  BY Constants, Successor DEF Init, CountsOverflows, Count64
<1> QED
  BY <1>1, <1>2 DEF CountInv

(* Every step keeps it: Tick may set the flag, IrqEnters takes it.         *)
LEMMA CountStep == Prompt /\ CountInv /\ [Next]_vars => CountInv'
<1> SUFFICES ASSUME Prompt, CountInv, [Next]_vars PROVE CountInv'
  OBVIOUS
<1> USE Constants DEF CountInv, CountType, Recent
<1>1. CASE Tick
  <2>1. cnt' = IF cnt = W - 1 THEN 0 ELSE cnt + 1
    BY <1>1, Successor DEF Tick
  <2>2. flagOF => cnt' # 0 /\ waited < Latency
    <3> SUFFICES ASSUME flagOF PROVE cnt' # 0 /\ waited < Latency
      OBVIOUS
    <3>1. waited < Latency
      BY <1>1 DEF Tick, Due, Pending
    <3>2. cnt <= Latency + waited
      OBVIOUS
    <3>3. cnt < W - 1
      BY <3>1, <3>2 DEF Prompt
    <3> QED
      BY <2>1, <3>1, <3>3
  <2>3. waited' \in 0..Latency /\ (flagOF => waited' = waited + 1)
    BY <1>1 DEF Tick, Due, Pending
  <2>4. high' = IF cnt' # 0 THEN high ELSE IF high = H - 1 THEN 0 ELSE high + 1
    BY <1>1, Successor DEF Tick
  <2>5. overflows' = overflows /\ irq' = irq /\ (flagOF' <=> flagOF \/ cnt' = 0)
    BY <1>1 DEF Tick
  <2>6. CountType'
    BY <2>1, <2>3, <2>4, <2>5
  <2>7. Recent'
    <3>1. CASE flagOF
      BY <2>1, <2>2, <2>3, <2>5, <3>1
    <3>2. CASE ~flagOF
      BY <2>3, <2>5, <3>2
    <3> QED
      BY <3>1, <3>2
  <2>8. CountsOverflows'
    BY <2>2, <2>4, <2>5, Successor, ZenonT(60) DEF CountsOverflows, Count64
  <2> QED
    BY <2>6, <2>7, <2>8
<1>2. CASE IrqEnters
  <2>1. overflows' = IF flagOF THEN (overflows + 1) % H ELSE overflows
    BY <1>2 DEF IrqEnters
  <2>2. flagOF' = FALSE /\ high' = high /\ cnt' = cnt /\ waited' \in {waited, 0}
    BY <1>2 DEF IrqEnters
  <2>3. "at" \in DOMAIN irq'
    BY <1>2 DEF IrqEnters, Quiet
  <2>4. overflows' \in 0..(H - 1)
    BY <2>1, Successor
  <2>5. CountType'
    BY <2>2, <2>3, <2>4
  <2>6. CountsOverflows'
    BY <2>1, <2>2, <2>4, Successor DEF CountsOverflows, Count64
  <2>7. Recent'
    BY <2>2
  <2> QED
    BY <2>5, <2>6, <2>7
<1>3. CASE IrqFires
  <2>1. "at" \in DOMAIN irq' /\ irq.at = "loop"
    BY <1>3 DEF IrqFires
  <2> QED
    BY <1>3, <2>1 DEF IrqFires, CountsOverflows, Count64
<1>4. CASE CallbackReturns
  <2>1. "at" \in DOMAIN irq' /\ irq.at = "callback"
    BY <1>4 DEF CallbackReturns
  <2> QED
    BY <1>4, <2>1 DEF CallbackReturns, CountsOverflows, Count64
<1>5. CASE IrqLeaves
  <2>1. /\ "at" \in DOMAIN irq' /\ irq'.at = "idle"
        /\ irq.at = "loop" /\ waited' = 0
    BY <1>5 DEF IrqLeaves, Quiet
  <2> QED
    BY <1>5, <2>1 DEF IrqLeaves, CountsOverflows, Count64
<1>6. CASE \E t \in Timers : StopTimer(t)
  BY <1>6 DEF StopTimer, CountsOverflows, Count64
<1>7. CASE \E t \in Timers : \E timeout \in Timeouts : StartTimer(t, timeout)
  BY <1>7 DEF StartTimer, CountsOverflows, Count64
<1>8. CASE DeltasUpdated
  BY <1>8 DEF DeltasUpdated, CountsOverflows, Count64
<1>9. CASE UNCHANGED vars
  BY <1>9 DEF vars, CountsOverflows, Count64
<1> QED
  BY <1>1, <1>2, <1>3, <1>4, <1>5, <1>6, <1>7, <1>8, <1>9 DEF Next

(* sl_sleeptimer_get_tick_count64 adds the overflow that is still to be    *)
(* counted: whenever it is asked, the interrupt late or not, its high part *)
(* is how often the counter wrapped, in the width of overflow_counter.     *)
THEOREM OverflowsCounted ==
  ASSUME Prompt
  PROVE  Spec => []CountsOverflows
<1>1. CountInv /\ [Next]_vars => CountInv'
  BY CountStep
<1>2. CountInv => CountsOverflows
  BY DEF CountInv
<1> QED
  BY <1>1, <1>2, InitCount, PTL DEF Spec

-----------------------------------------------------------------------------
(* Numbers on the circle of the counter.                                   *)

Half == W \div 2

LEMMA HalfTurn == Half \in Nat /\ 2 * Half <= W /\ Half + 2 < W
<1>1. W \in Nat /\ W > 4
  BY Constants
<1> QED
  BY <1>1 DEF Half

(* At most one turn too much, or too little.                               *)
LEMMA OneTurn ==
  ASSUME NEW m \in Nat \ {0}, NEW n \in Int, 0 - m <= n, n < 2 * m
  PROVE  n % m = IF n < 0 THEN n + m ELSE IF n < m THEN n ELSE n - m
OBVIOUS

LEMMA DiffTurn ==
  ASSUME NEW a \in 0..(W - 1), NEW b \in 0..(W - 1)
  PROVE  /\ Diff(a, b) = IF a < b THEN a - b + W ELSE a - b
         /\ Diff(a, b) \in 0..(W - 1)
<1>1. W \in Nat \ {0}
  BY Constants
<1>2. a - b \in Int /\ 0 - W <= a - b /\ a - b < 2 * W
  BY <1>1
<1>3. Diff(a, b) = IF a - b < 0 THEN a - b + W ELSE IF a - b < W THEN a - b ELSE a - b - W
  BY <1>1, <1>2, OneTurn DEF Diff
<1> QED
  BY <1>1, <1>3

-----------------------------------------------------------------------------
(* The list with one timer more, or less.                                  *)

LEMMA InsertedAt ==
  ASSUME NEW s \in Seq(Timers), NEW n \in 1..(Len(s) + 1), NEW x \in Timers
  PROVE  /\ InsertAt(s, n, x) \in Seq(Timers) /\ Len(InsertAt(s, n, x)) = Len(s) + 1
         /\ \A i \in 1..(Len(s) + 1) :
              InsertAt(s, n, x)[i] = IF i < n THEN s[i] ELSE IF i = n THEN x ELSE s[i - 1]
<1> DEFINE a == SubSeq(s, 1, n - 1)
           b == SubSeq(s, n, Len(s))
<1>1. a \in Seq(Timers) /\ Len(a) = n - 1 /\ \A i \in 1..(n - 1) : a[i] = s[i]
  OBVIOUS
<1>2. b \in Seq(Timers) /\ Len(b) = Len(s) - n + 1 /\ \A i \in 1..(Len(s) - n + 1) : b[i] = s[i + n - 1]
  OBVIOUS
<1>3. InsertAt(s, n, x) = a \o <<x>> \o b
  BY DEF InsertAt
<1> DEFINE r == a \o <<x>> \o b
<1> HIDE DEF a, b
<1>4. r \in Seq(Timers) /\ Len(r) = Len(s) + 1
  BY <1>1, <1>2
<1>5. ASSUME NEW i \in 1..(Len(s) + 1)
      PROVE  /\ i < n => r[i] = a[i]
             /\ i = n => r[i] = x
             /\ i > n => r[i] = b[i - n]
  BY <1>1, <1>2
<1> HIDE DEF r
<1>6. ASSUME NEW i \in 1..(Len(s) + 1), i > n PROVE r[i] = s[i - 1]
  <2>1. i - n \in 1..(Len(s) - n + 1) /\ i - n + n - 1 = i - 1
    BY <1>6
  <2>2. b[i - n] = s[i - n + n - 1]
    BY <1>2, <2>1
  <2> QED
    BY <1>5, <1>6, <2>1, <2>2
<1>7. \A i \in 1..(Len(s) + 1) : r[i] = IF i < n THEN s[i] ELSE IF i = n THEN x ELSE s[i - 1]
  BY <1>1, <1>5, <1>6
<1> QED
  BY <1>3, <1>4, <1>7 DEF r

LEMMA RemovedAt ==
  ASSUME NEW s \in Seq(Timers), NEW n \in 1..Len(s)
  PROVE  /\ RemoveAt(s, n) \in Seq(Timers) /\ Len(RemoveAt(s, n)) = Len(s) - 1
         /\ \A i \in 1..(Len(s) - 1) :
              RemoveAt(s, n)[i] = IF i < n THEN s[i] ELSE s[i + 1]
<1> DEFINE a == SubSeq(s, 1, n - 1)
           b == SubSeq(s, n + 1, Len(s))
<1>1. a \in Seq(Timers) /\ Len(a) = n - 1 /\ \A i \in 1..(n - 1) : a[i] = s[i]
  OBVIOUS
<1>2. b \in Seq(Timers) /\ Len(b) = Len(s) - n /\ \A i \in 1..(Len(s) - n) : b[i] = s[i + n]
  OBVIOUS
<1>3. RemoveAt(s, n) = a \o b
  BY DEF RemoveAt
<1> DEFINE r == a \o b
<1> HIDE DEF a, b
<1>4. /\ r \in Seq(Timers) /\ Len(r) = Len(s) - 1
      /\ \A i \in 1..(Len(s) - 1) : r[i] = IF i <= n - 1 THEN a[i] ELSE b[i - (n - 1)]
  BY <1>1, <1>2, ConcatProperties
<1> HIDE DEF r
<1>5. ASSUME NEW i \in 1..(Len(s) - 1), i >= n PROVE r[i] = s[i + 1]
  <2>1. i - (n - 1) \in 1..(Len(s) - n) /\ i - (n - 1) + n = i + 1
    BY <1>5
  <2>2. b[i - (n - 1)] = s[i - (n - 1) + n]
    BY <1>2, <2>1
  <2> QED
    BY <1>4, <1>5, <2>1, <2>2
<1>6. \A i \in 1..(Len(s) - 1) : r[i] = IF i < n THEN s[i] ELSE s[i + 1]
  BY <1>1, <1>4, <1>5
<1> QED
  BY <1>3, <1>4, <1>6 DEF r

-----------------------------------------------------------------------------
(* A set of numbers has a least one.                                       *)
LEMMA Least ==
  ASSUME NEW T, T \subseteq Nat, T # {}
  PROVE  \E n \in T : \A m \in T : n <= m
<1> DEFINE R == OpToRel(<, Nat)
<1>1. IsWellFoundedOn(R, Nat)
  BY NatLessThanWellFounded, Zenon
<1>2. \A x \in Nat, y \in Nat : y < x => <<y, x>> \in R
  BY DEF OpToRel
<1> HIDE DEF R
<1>3. \E x \in T : \A y \in T : ~ (<<y, x>> \in R)
  BY <1>1, WFMin
<1>4. PICK n \in T : \A m \in T : ~ (<<m, n>> \in R)
  BY <1>3
<1>5. ASSUME NEW m \in T PROVE n <= m
  <2>1. ~(m < n)
    BY <1>2, <1>4
  <2>2. m \in Int /\ n \in Int
    OBVIOUS
  <2> QED
    BY <2>1, <2>2
<1> QED
  BY <1>5

LEMMA Induction ==
  ASSUME NEW S, 0 \in S, \A n \in Nat : n \in S => n + 1 \in S
  PROVE  Nat \subseteq S
<1> SUFFICES ASSUME NEW x \in Nat, x \notin S PROVE FALSE
  OBVIOUS
<1> DEFINE T == Nat \ S
<1>1. PICK n \in T : \A m \in T : n <= m
  BY Least
<1>2. n # 0 /\ n - 1 \in Nat /\ n - 1 \notin T
  BY <1>1
<1> QED
  BY <1>2

-----------------------------------------------------------------------------
(* Offset.                                                                 *)

LEMMA OffsetSteps ==
  ASSUME NEW r, r.list \in Seq(Timers)
  PROVE  /\ Offset(r, 0) = 0
         /\ \A i \in 1..Len(r.list) : Offset(r, i) = Offset(r, i - 1) + r.delta[r.list[i]]
<1> DEFINE N == Len(r.list)
           G(i, v) == v + r.delta[r.list[i]]
           Sums(w, m) == w = [i \in 0..m |-> IF i = 0 THEN 0 ELSE G(i, w[i - 1])]
           S == {m \in Nat : \E w : Sums(w, m)}
           sum == CHOOSE w : Sums(w, N)
<1>1. \A i : Offset(r, i) = sum[i]
  BY DEF Offset
<1>0. N \in Nat
  OBVIOUS
<1> HIDE DEF G, N
<1>2. 0 \in S
  <2>1. Sums([i \in 0..0 |-> 0], 0)
    OBVIOUS
  <2> QED
    BY <2>1
<1>3. ASSUME NEW m \in Nat, m \in S PROVE m + 1 \in S
  <2>1. PICK w : Sums(w, m)
    BY <1>3
  <2> DEFINE v == [i \in 0..(m + 1) |-> IF i = m + 1 THEN G(i, w[m]) ELSE w[i]]
  <2>2. ASSUME NEW i \in 0..(m + 1) PROVE v[i] = IF i = 0 THEN 0 ELSE G(i, v[i - 1])
    <3>1. CASE i = 0
      BY <2>1, <3>1
    <3>2. CASE i # 0 /\ i # m + 1
      <4>1. i \in 0..m /\ i - 1 \in 0..m /\ i - 1 # m + 1
        BY <3>2
      <4>2. v[i] = w[i] /\ v[i - 1] = w[i - 1] /\ w[i] = G(i, w[i - 1])
        BY <2>1, <3>2, <4>1
      <4> QED
        BY <3>2, <4>2
    <3>3. CASE i = m + 1
      <4>1. i - 1 = m /\ m \in 0..(m + 1) /\ m # m + 1 /\ i # 0
        BY <3>3
      <4>2. v[m] = w[m] /\ v[i] = G(i, w[m])
        BY <3>3, <4>1
      <4> QED
        BY <4>1, <4>2
    <3> QED
      BY <3>1, <3>2, <3>3
  <2>3. Sums(v, m + 1)
    <3>1. v = [i \in 0..(m + 1) |-> v[i]]
      OBVIOUS
    <3> HIDE DEF v
    <3> QED
      BY <2>2, <3>1
  <2> HIDE DEF Sums, v
  <2>4. m + 1 \in Nat /\ \E u : Sums(u, m + 1)
    BY <2>3
  <2> QED
    BY <2>4
<1>4. N \in S
  <2> HIDE DEF S
  <2> QED
    BY <1>0, <1>2, <1>3, Induction
<1>5. Sums(sum, N)
  BY <1>4
<1>6. sum[0] = 0 /\ \A i \in 1..N : sum[i] = G(i, sum[i - 1])
  <2> HIDE DEF sum
  <2> QED
    BY <1>0, <1>5
<1> HIDE DEF sum
<1> QED
  BY <1>1, <1>6 DEF G, N

(* Whatever grows by the same steps is Offset.                             *)
LEMMA OffsetIs ==
  ASSUME NEW r, r.list \in Seq(Timers), NEW f, f[0] = 0,
         \A i \in 1..Len(r.list) : f[i] = f[i - 1] + r.delta[r.list[i]]
  PROVE  \A i \in 0..Len(r.list) : Offset(r, i) = f[i]
<1> DEFINE N == Len(r.list)
           S == {m \in Nat : m <= N => Offset(r, m) = f[m]}
<1>1. N \in Nat
  OBVIOUS
<1>2. /\ Offset(r, 0) = 0
      /\ \A i \in 1..N : Offset(r, i) = Offset(r, i - 1) + r.delta[r.list[i]]
  BY OffsetSteps
<1>3. 0 \in S
  BY <1>2
<1>4. ASSUME NEW m \in Nat, m \in S PROVE m + 1 \in S
  <2> SUFFICES ASSUME m + 1 <= N PROVE Offset(r, m + 1) = f[m + 1]
    OBVIOUS
  <2>1. m + 1 \in 1..N /\ m + 1 - 1 = m /\ m <= N
    BY <1>1
  <2>2. /\ f[m + 1] = f[m] + r.delta[r.list[m + 1]]
        /\ Offset(r, m + 1) = Offset(r, m) + r.delta[r.list[m + 1]]
    BY <1>2, <2>1
  <2> QED
    BY <1>4, <2>1, <2>2
<1>5. Nat \subseteq S
  <2> HIDE DEF S
  <2> QED
    BY <1>3, <1>4, Induction
<1> QED
  BY <1>1, <1>5

-----------------------------------------------------------------------------
(* The list of timers: every timer is in it at most once, and none is due  *)
(* more than half a turn after last.                                       *)

Queues == [list : Seq(Timers), delta : [Timers -> 0..(W - 1)], last : 0..(W - 1)]

Queue(r) ==
  /\ r \in Queues /\ IsInjective(r.list)
  /\ \A i \in 0..Len(r.list) : Offset(r, i) <= Half

First(r) == r.delta[Head(r.list)]

(* What the timers are left with, d ticks after last.                      *)
Promise(r, l, d) == \A i \in 1..Len(r.list) : l[r.list[i]] = Offset(r, i) - d

LEMMA QueueOffsets ==
  ASSUME NEW r \in Queues
  PROVE  /\ Offset(r, 0) = 0 /\ \A i \in 0..Len(r.list) : Offset(r, i) \in Nat
         /\ \A i \in 1..Len(r.list) : Offset(r, i) = Offset(r, i - 1) + r.delta[r.list[i]]
         /\ \A i, j \in 0..Len(r.list) : i <= j => Offset(r, i) <= Offset(r, j)
<1> DEFINE N == Len(r.list)
           S == {m \in Nat : m <= N =>
                   /\ \A i \in 0..m : Offset(r, i) \in Nat
                   /\ \A i \in 0..m : Offset(r, i) <= Offset(r, m)}
<1>1. N \in Nat /\ \A i \in 1..N : r.list[i] \in Timers /\ r.delta[r.list[i]] \in Nat
  BY DEF Queues
<1>2. /\ Offset(r, 0) = 0
      /\ \A i \in 1..N : Offset(r, i) = Offset(r, i - 1) + r.delta[r.list[i]]
  BY OffsetSteps DEF Queues
<1>3. 0 \in S
  BY <1>2
<1>4. ASSUME NEW m \in Nat, m \in S PROVE m + 1 \in S
  <2> SUFFICES ASSUME m + 1 <= N
               PROVE  /\ \A i \in 0..(m + 1) : Offset(r, i) \in Nat
                      /\ \A i \in 0..(m + 1) : Offset(r, i) <= Offset(r, m + 1)
    OBVIOUS
  <2>1. m + 1 \in 1..N /\ m + 1 - 1 = m /\ m <= N /\ m \in 0..m
    BY <1>1
  <2>2. Offset(r, m + 1) = Offset(r, m) + r.delta[r.list[m + 1]]
    BY <1>2, <2>1
  <2>3. \A i \in 0..m : Offset(r, i) \in Nat /\ Offset(r, i) <= Offset(r, m)
    BY <1>4, <2>1
  <2>4. Offset(r, m + 1) \in Nat /\ Offset(r, m) <= Offset(r, m + 1) /\ Offset(r, m) \in Nat
    BY <1>1, <2>1, <2>2, <2>3
  <2>5. \A i \in 0..m : Offset(r, i) <= Offset(r, m + 1)
    BY <2>3, <2>4
  <2>6. \A i \in 0..(m + 1) : i \in 0..m \/ i = m + 1
    OBVIOUS
  <2> QED
    BY <2>3, <2>4, <2>5, <2>6
<1>5. Nat \subseteq S
  <2> HIDE DEF S
  <2> QED
    BY <1>3, <1>4, Induction
<1>6. \A m \in 0..N : m \in Nat /\ m <= N /\ m \in 0..m
  BY <1>1
<1>7. \A m \in 0..N : \A i \in 0..m : Offset(r, i) \in Nat /\ Offset(r, i) <= Offset(r, m)
  BY <1>5, <1>6
<1>8. \A i \in 0..N : Offset(r, i) \in Nat
  BY <1>6, <1>7
<1>9. ASSUME NEW i \in 0..N, NEW j \in 0..N, i <= j PROVE Offset(r, i) <= Offset(r, j)
  <2>1. i \in 0..j
    BY <1>9
  <2> QED
    BY <1>7, <2>1
<1> QED
  BY <1>2, <1>8, <1>9

LEMMA QueueHead ==
  ASSUME NEW r \in Queues, r.list # <<>>
  PROVE  /\ Head(r.list) = r.list[1] /\ Head(r.list) \in Timers /\ Len(r.list) >= 1
         /\ First(r) = Offset(r, 1) /\ First(r) \in Nat
<1>1. /\ r.list \in Seq(Timers) /\ Len(r.list) \in Nat /\ Len(r.list) >= 1
      /\ Head(r.list) = r.list[1] /\ r.list[1] \in Timers
  BY DEF Queues
<1>2. Offset(r, 0) = 0 /\ Offset(r, 1) = Offset(r, 1 - 1) + r.delta[r.list[1]]
  BY <1>1, QueueOffsets
<1>3. r.delta[r.list[1]] \in Nat
  BY <1>1 DEF Queues
<1> QED
  BY <1>1, <1>2, <1>3 DEF First

(* The head is counted from later on.                                      *)
Sooner(r, d, v) == [r EXCEPT !.delta[Head(r.list)] = @ - d, !.last = v]

IsSooner(r, p, d, v) ==
  /\ Queue(p) /\ p.list = r.list /\ p.last = v /\ First(p) = First(r) - d
  /\ \A i \in 1..Len(r.list) : Offset(p, i) = Offset(r, i) - d

LEMMA HeadSooner ==
  ASSUME NEW r, Queue(r), r.list # <<>>, NEW d \in Nat, d <= First(r), NEW v \in 0..(W - 1)
  PROVE  IsSooner(r, Sooner(r, d, v), d, v)
<1> DEFINE h == Head(r.list)
           N == Len(r.list)
           p == Sooner(r, d, v)
           f == [i \in 0..N |-> IF i = 0 THEN 0 ELSE Offset(r, i) - d]
<1>1. /\ r \in Queues /\ IsInjective(r.list) /\ N \in Nat /\ N >= 1
      /\ h = r.list[1] /\ h \in Timers /\ First(r) = Offset(r, 1) /\ First(r) = r.delta[h]
      /\ \A i \in 0..N : Offset(r, i) <= Half
  BY QueueHead DEF Queue, Queues, First
<1>2. /\ Offset(r, 0) = 0 /\ \A i \in 0..N : Offset(r, i) \in Nat
      /\ \A i \in 1..N : Offset(r, i) = Offset(r, i - 1) + r.delta[r.list[i]]
      /\ \A i \in 1..N : Offset(r, 1) <= Offset(r, i)
  <2>1. \A i \in 1..N : 1 \in 0..N /\ i \in 0..N /\ 1 <= i
    BY <1>1
  <2> QED
    BY <1>1, <2>1, QueueOffsets
<1>3. r.delta[h] \in 0..(W - 1) /\ r.delta[h] - d \in 0..(W - 1)
  BY <1>1, Constants DEF Queues
<1>4. /\ p \in Queues /\ p.list = r.list /\ p.last = v
      /\ p.delta = [r.delta EXCEPT ![h] = @ - d]
  BY <1>1, <1>3 DEF Queues, Sooner
<1>5. ASSUME NEW i \in 1..N PROVE f[i] = f[i - 1] + p.delta[r.list[i]]
  <2>1. i - 1 \in 0..N /\ i \in 0..N /\ r.list[i] \in Timers
    BY <1>1 DEF Queues
  <2>2. CASE i = 1
    BY <1>1, <1>2, <1>3, <1>4, <2>1, <2>2 DEF Queues
  <2>3. CASE i # 1
    <3>1. r.list[i] # h
      BY <1>1, <2>3 DEF IsInjective, Queues
    <3>2. p.delta[r.list[i]] = r.delta[r.list[i]]
      BY <1>4, <2>1, <3>1 DEF Queues
    <3>3. f[i] = Offset(r, i) - d /\ f[i - 1] = Offset(r, i - 1) - d
      BY <2>1, <2>3
    <3>4. r.delta[r.list[i]] \in Nat
      BY <1>1, <2>1 DEF Queues
    <3> QED
      BY <1>2, <2>1, <3>2, <3>3, <3>4, SMTT(30)
  <2> QED
    BY <2>2, <2>3
<1>6. f[0] = 0 /\ \A i \in 1..N : f[i] = Offset(r, i) - d
  BY <1>1
<1> HIDE DEF f, p
<1>7. \A i \in 0..N : Offset(p, i) = f[i]
  <2>1. p.list \in Seq(Timers)
    BY <1>4 DEF Queues
  <2>2. \A i \in 1..Len(p.list) : f[i] = f[i - 1] + p.delta[p.list[i]]
    BY <1>4, <1>5
  <2>3. \A i \in 0..Len(p.list) : Offset(p, i) = f[i]
    BY <1>6, <2>1, <2>2, OffsetIs
  <2> QED
    BY <1>4, <2>3
<1>8. ASSUME NEW i \in 1..N PROVE Offset(p, i) = Offset(r, i) - d /\ Offset(p, i) <= Half
  <2>1. i \in 0..N
    BY <1>1
  <2>2. Offset(r, i) \in Nat /\ Offset(r, i) <= Half /\ Offset(p, i) = Offset(r, i) - d
    BY <1>1, <1>2, <1>6, <1>7, <2>1
  <2> QED
    BY <2>2, HalfTurn
<1>9. \A i \in 0..N : Offset(p, i) <= Half
  BY <1>1, <1>6, <1>7, <1>8, HalfTurn
<1>10. First(p) = First(r) - d
  BY <1>1, <1>3, <1>4 DEF First, Queues
<1> QED
  BY <1>1, <1>4, <1>8, <1>9, <1>10 DEF Queue, p, IsSooner

(* A list with x in place m, sums with v there; and the other way round.   *)
Spliced(l, new, m, x) ==
  \A i \in 1..(Len(l) + 1) : new[i] = IF i < m THEN l[i] ELSE IF i = m THEN x ELSE l[i - 1]
SumsSpliced(n, o, f, m, v) ==
  \A i \in 0..(n + 1) : f[i] = IF i < m THEN o[i] ELSE IF i = m THEN v ELSE o[i - 1]

DeltasSpliced(l, delta, D, m, t, rest) ==
  /\ D[t] = rest
  /\ \A u \in Timers \ {t} :
       D[u] = IF m <= Len(l) /\ u = l[m] THEN delta[u] - rest ELSE delta[u]

Absent(l, t) == \A i \in 1..Len(l) : l[i] # t

Sums(l, delta, o) == o[0] = 0 /\ \A i \in 1..Len(l) : o[i] = o[i - 1] + delta[l[i]]

LEMMA TimersAfterInsert ==
  ASSUME NEW l \in Seq(Timers), IsInjective(l), NEW t \in Timers, Absent(l, t),
         NEW m \in 1..(Len(l) + 1)
  PROVE  /\ InsertAt(l, m, t) \in Seq(Timers) /\ Len(InsertAt(l, m, t)) = Len(l) + 1
         /\ IsInjective(InsertAt(l, m, t)) /\ Spliced(l, InsertAt(l, m, t), m, t)
<1> DEFINE new == InsertAt(l, m, t)
           N == Len(l)
           at(i) == IF i < m THEN i ELSE i - 1
<1>0. /\ new \in Seq(Timers) /\ Len(new) = N + 1
      /\ \A i \in 1..(N + 1) : new[i] = IF i < m THEN l[i] ELSE IF i = m THEN t ELSE l[i - 1]
  BY InsertedAt
<1> HIDE DEF new
<1>1. \A i \in 1..(N + 1) : new[i] = IF i < m THEN l[i] ELSE IF i = m THEN t ELSE l[i - 1]
  BY <1>0
<1>2. new[m] = t
  BY <1>1
<1>3. ASSUME NEW i \in 1..(N + 1), i # m
      PROVE  at(i) \in 1..N /\ new[i] = l[at(i)] /\ new[i] # t
  <2>1. CASE i < m
    <3>1. i \in 1..N
      BY <2>1
    <3> QED
      BY <1>1, <2>1, <3>1 DEF Absent
  <2>2. CASE i > m
    <3>1. i - 1 \in 1..N
      BY <2>2
    <3> QED
      BY <1>1, <2>2, <3>1 DEF Absent
  <2> QED
    BY <1>3, <2>1, <2>2
<1>4. ASSUME NEW i \in 1..(N + 1), NEW j \in 1..(N + 1), new[i] = new[j] PROVE i = j
  <2>1. CASE i = m \/ j = m
    <3> HIDE DEF at
    <3> QED
      BY <1>2, <1>3, <1>4, <2>1
  <2>2. CASE i # m /\ j # m
    <3>1. at(i) \in 1..N /\ at(j) \in 1..N /\ l[at(i)] = l[at(j)]
      BY <1>3, <1>4, <2>2
    <3>2. at(i) = at(j)
      <4> HIDE DEF at
      <4> QED
        BY <3>1 DEF IsInjective
    <3> QED
      BY <2>2, <3>2
  <2> QED
    BY <2>1, <2>2
<1>5. IsInjective(new)
  BY <1>0, <1>4 DEF IsInjective
<1>6. Spliced(l, new, m, t)
  BY <1>1 DEF Spliced
<1> QED
  BY <1>0, <1>5, <1>6 DEF new

(* delta_list_insert_timer: the deltas of the others keep their sums.      *)
Insertion(l, t, m, delta, o, w, timeout, D, new, f) ==
  /\ l \in Seq(Timers) /\ IsInjective(l) /\ t \in Timers /\ Absent(l, t)
  /\ m \in 1..(Len(l) + 1) /\ delta \in [Timers -> 0..(W - 1)] /\ Sums(l, delta, o)
  /\ w \in Nat /\ o[m - 1] = w /\ timeout \in Nat
  /\ Spliced(l, new, m, t) /\ SumsSpliced(Len(l), o, f, m, timeout)
  /\ DeltasSpliced(l, delta, D, m, t, timeout - w)

LEMMA DeltasAfterInsert ==
  ASSUME NEW l, NEW t, NEW m, NEW delta, NEW o, NEW w, NEW timeout, NEW D, NEW new, NEW f,
         Insertion(l, t, m, delta, o, w, timeout, D, new, f)
  PROVE  f[0] = 0 /\ \A i \in 1..(Len(l) + 1) : f[i] = f[i - 1] + D[new[i]]
<1> DEFINE rest == timeout - w
<1>0. /\ l \in Seq(Timers) /\ IsInjective(l) /\ t \in Timers /\ Absent(l, t)
      /\ m \in 1..(Len(l) + 1) /\ delta \in [Timers -> 0..(W - 1)] /\ Sums(l, delta, o)
      /\ w \in Nat /\ o[m - 1] = w /\ timeout \in Nat
      /\ Spliced(l, new, m, t) /\ SumsSpliced(Len(l), o, f, m, timeout)
      /\ DeltasSpliced(l, delta, D, m, t, rest) /\ rest = timeout - w
  BY DEF Insertion
<1> HIDE DEF rest
<1> DEFINE N == Len(l)
<1> USE <1>0
<1>1. N \in Nat /\ \A i \in 1..N : l[i] \in Timers \ {t} /\ delta[l[i]] \in Nat
  BY DEF Absent
<1>2. f[0] = 0
  BY <1>1, SMTT(30) DEF Sums, SumsSpliced
<1>3. \A i \in 1..N : m <= N => m \in 1..N /\ (l[i] = l[m] <=> i = m)
  BY <1>1, SMTT(30) DEF IsInjective
<1>4. \A i \in 1..N : D[l[i]] = IF i = m THEN delta[l[i]] - rest ELSE delta[l[i]]
  BY <1>1, <1>3, SMTT(30) DEF DeltasSpliced
<1>5. ASSUME NEW i \in 1..(N + 1) PROVE f[i] = f[i - 1] + D[new[i]]
  <2>1. i \in 0..(N + 1) /\ i - 1 \in 0..(N + 1)
    BY <1>1
  <2>2. CASE i < m
    <3>1. i \in 1..N /\ i # m /\ i - 1 < m
      BY <1>1, <2>2
    <3>2. new[i] = l[i]
      BY <2>2 DEF Spliced
    <3>3. f[i] = o[i] /\ f[i - 1] = o[i - 1]
      BY <2>1, <2>2, <3>1 DEF SumsSpliced
    <3>4. o[i] = o[i - 1] + delta[l[i]]
      BY <3>1 DEF Sums
    <3> QED
      BY <1>4, <3>1, <3>2, <3>3, <3>4
  <2>3. CASE i = m
    <3>1. new[i] = t
      BY <2>3 DEF Spliced
    <3>4. f[i] = timeout
      BY <2>1, <2>3 DEF SumsSpliced
    <3>5. i - 1 < m /\ i - 1 = m - 1
      BY <2>3
    <3>6. f[i - 1] = o[i - 1]
      BY <2>1, <3>5 DEF SumsSpliced
    <3>2. f[i] = timeout /\ f[i - 1] = w
      BY <3>4, <3>5, <3>6
    <3>3. D[t] = rest
      BY DEF DeltasSpliced
    <3> QED
      BY <3>1, <3>2, <3>3
  <2>4. CASE i > m
    <3> DEFINE j == i - 1
    <3>0. N \in Nat /\ m \in 1..(N + 1) /\ i \in 1..(N + 1)
      BY <1>1
    <3>1. j \in 1..N /\ ~(i < m) /\ i # m /\ ~(j < m) /\ i = j + 1
      <4> HIDE DEF N
      <4> QED
        BY <2>4, <3>0
    <3>2. new[i] = l[j]
      BY <3>1 DEF Spliced
    <3>3. f[i] = o[j] /\ f[j] = IF j = m THEN timeout ELSE o[j - 1]
      BY <2>1, <3>1 DEF SumsSpliced
    <3>4. o[j] = o[j - 1] + delta[l[j]] /\ delta[l[j]] \in Nat
      BY <1>1, <3>1 DEF Sums
    <3> HIDE DEF j
    <3>5. CASE j = m
      <4>1. D[l[j]] = delta[l[j]] - rest
        BY <1>4, <3>1, <3>5
      <4>2. o[j] = w + delta[l[j]]
        BY <3>4, <3>5
      <4> QED
        BY <3>2, <3>3, <3>4, <3>5, <4>1, <4>2 DEF j
    <3>6. CASE j # m
      <4>1. D[l[j]] = delta[l[j]]
        BY <1>4, <3>1, <3>6
      <4>2. f[i] = f[j] + D[new[i]]
        BY <3>2, <3>3, <3>4, <3>6, <4>1
      <4> QED
        BY <4>2 DEF j
    <3> QED
      BY <3>5, <3>6
  <2> QED
    BY <2>1, <2>2, <2>3, <2>4
<1> QED
  BY <1>2, <1>5

LEMMA TimerInserted ==
  ASSUME NEW r, Queue(r), NEW t \in Timers, Absent(r.list, t),
         NEW timeout \in 1..Half
  PROVE  LET p == delta_list_insert_timer(r, t, timeout)
         IN /\ Queue(p) /\ p.last = r.last
            /\ \E m \in 1..(Len(r.list) + 1) :
                 /\ Len(p.list) = Len(r.list) + 1 /\ Spliced(r.list, p.list, m, t)
                 /\ \A i \in 1..(Len(r.list) + 1) :
                      Offset(p, i) = IF i < m THEN Offset(r, i)
                                     ELSE IF i = m THEN timeout ELSE Offset(r, i - 1)
                 /\ m <= Len(r.list) => timeout < Offset(r, m)
<1> DEFINE l == r.list
           N == Len(l)
           o == [i \in 0..N |-> Offset(r, i)]
           Fits(i) == Offset(r, i) <= timeout /\ (i < N => timeout < Offset(r, i + 1))
           n == CHOOSE i \in 0..N : Fits(i)
           rest == timeout - Offset(r, n)
           new == InsertAt(l, n + 1, t)
           D == [u \in Timers |->
                   IF u = t THEN rest
                   ELSE IF n < N /\ u = l[n + 1] THEN r.delta[u] - rest ELSE r.delta[u]]
           p == delta_list_insert_timer(r, t, timeout)
           f == [i \in 0..(N + 1) |-> IF i < n + 1 THEN o[i]
                                      ELSE IF i = n + 1 THEN timeout ELSE o[i - 1]]
<1>1. /\ r \in Queues /\ l \in Seq(Timers) /\ IsInjective(l) /\ N \in Nat
      /\ \A i \in 1..N : l[i] \in Timers /\ l[i] # t
      /\ r.delta \in [Timers -> 0..(W - 1)] /\ r.last \in 0..(W - 1)
      /\ \A i \in 0..N : Offset(r, i) <= Half
  BY DEF Queue, Queues, Absent
<1>2. /\ Offset(r, 0) = 0 /\ \A i \in 0..N : Offset(r, i) \in Nat
      /\ \A i \in 1..N : Offset(r, i) = Offset(r, i - 1) + r.delta[l[i]]
  BY <1>1, QueueOffsets
<1>3. \E i \in 0..N : Fits(i)
  <2> DEFINE S == {i \in 1..N : timeout < Offset(r, i)}
  <2>1. CASE S = {}
    <3>1. N \in 0..N /\ ~(N < N)
      BY <1>1
    <3>2. Offset(r, N) <= timeout
      <4>1. CASE N = 0
        BY <1>2, <4>1
      <4>2. CASE N # 0
        <5>1. N \in 1..N /\ N \notin S /\ Offset(r, N) \in Nat
          BY <1>1, <1>2, <2>1, <4>2
        <5> QED
          BY <5>1
      <4> QED
        BY <4>1, <4>2
    <3> QED
      BY <3>1, <3>2
  <2>2. CASE S # {}
    <3>1. PICK i \in S : \A j \in S : i <= j
      <4>1. S \subseteq Nat
        OBVIOUS
      <4> HIDE DEF S
      <4> QED
        BY <2>2, <4>1, Least
    <3>2. i - 1 \in 0..N /\ i - 1 + 1 = i
      BY <1>1, <3>1
    <3>3. Offset(r, i - 1) <= timeout
      <4>1. CASE i = 1
        BY <1>2, <4>1
      <4>2. CASE i # 1
        <5>1. i - 1 \in 1..N /\ i - 1 < i
          BY <1>1, <3>1, <4>2
        <5>2. i - 1 \notin S
          BY <3>1, <5>1
        <5>3. Offset(r, i - 1) \in Nat
          BY <1>2, <3>2
        <5> QED
          BY <5>1, <5>2, <5>3
      <4> QED
        BY <4>1, <4>2
    <3> QED
      BY <3>1, <3>2, <3>3
  <2> QED
    BY <2>1, <2>2
<1>4. n \in 0..N /\ Fits(n)
  BY <1>3
<1>5. p = [r EXCEPT !.list = new, !.delta = D]
  BY DEF delta_list_insert_timer
<1> HIDE DEF n
<1> DEFINE m == n + 1
<1>6. m \in 1..(N + 1) /\ n = m - 1 /\ (n < N <=> m <= N)
  BY <1>1, <1>4
<1>7. /\ new \in Seq(Timers) /\ Len(new) = N + 1 /\ IsInjective(new)
      /\ Spliced(l, new, m, t)
  BY <1>1, <1>6, TimersAfterInsert
<1> HIDE DEF new
<1>8. Offset(r, n) \in Nat /\ rest \in Nat /\ rest \in 0..(W - 1)
  BY <1>2, <1>4, HalfTurn, Constants
<1>9. n < N => r.delta[l[n + 1]] - rest \in 0..(W - 1)
  <2> SUFFICES ASSUME n < N PROVE r.delta[l[n + 1]] - rest \in 0..(W - 1)
    OBVIOUS
  <2>1. m \in 1..N /\ m - 1 = n /\ l[m] \in Timers
    BY <1>1, <1>6
  <2>2. Offset(r, m) = Offset(r, m - 1) + r.delta[l[m]]
    BY <1>2, <2>1
  <2>3. r.delta[l[m]] \in 0..(W - 1)
    BY <1>1, <2>1
  <2>4. timeout < Offset(r, m) /\ Offset(r, m) = Offset(r, n) + r.delta[l[m]]
    BY <1>4, <2>1, <2>2
  <2> QED
    BY <1>8, <2>3, <2>4, Constants
<1>10. D \in [Timers -> 0..(W - 1)]
  BY <1>1, <1>8, <1>9
<1>11. p \in Queues /\ p.list = new /\ p.delta = D /\ p.last = r.last
  BY <1>1, <1>5, <1>7, <1>10, Zenon DEF Queues
<1>12. Sums(l, r.delta, o)
  <2>1. o[0] = 0 /\ \A i \in 1..N : o[i] = Offset(r, i) /\ o[i - 1] = Offset(r, i - 1)
    BY <1>1, <1>2
  <2> HIDE DEF o
  <2> QED
    BY <1>2, <2>1 DEF Sums
<1>13. SumsSpliced(N, o, f, m, timeout)
  BY DEF SumsSpliced
<1>14. o[m - 1] = Offset(r, n) /\ \A i \in 0..N : o[i] = Offset(r, i)
  BY <1>4, <1>6
<1>15. DeltasSpliced(l, r.delta, D, m, t, rest)
  BY <1>6 DEF DeltasSpliced
<1>16. Absent(l, t)
  BY DEF Absent
<1>23. timeout \in Nat /\ rest = timeout - Offset(r, n)
  BY HalfTurn
<1> HIDE DEF o, f, D, m, p, rest
<1>17. f[0] = 0 /\ \A i \in 1..(N + 1) : f[i] = f[i - 1] + D[new[i]]
  <2> HIDE DEF l
  <2>1. Insertion(l, t, m, r.delta, o, Offset(r, n), timeout, D, new, f)
    BY <1>1, <1>6, <1>7, <1>8, <1>12, <1>13, <1>14, <1>15, <1>16, <1>23 DEF Insertion
  <2> QED
    BY <2>1, DeltasAfterInsert
<1>18. \A i \in 0..(N + 1) : Offset(p, i) = f[i]
  <2>1. p.list \in Seq(Timers) /\ Len(p.list) = N + 1
    BY <1>7, <1>11
  <2>2. \A i \in 1..Len(p.list) : f[i] = f[i - 1] + p.delta[p.list[i]]
    BY <1>11, <1>17, <2>1
  <2>3. \A i \in 0..Len(p.list) : Offset(p, i) = f[i]
    BY <1>17, <2>1, <2>2, OffsetIs
  <2> QED
    BY <2>1, <2>3
<1>19. ASSUME NEW i \in 0..(N + 1)
       PROVE  /\ Offset(p, i) <= Half
              /\ i # 0 => Offset(p, i) = IF i < m THEN Offset(r, i)
                                         ELSE IF i = m THEN timeout ELSE Offset(r, i - 1)
  <2>1. f[i] = IF i < m THEN o[i] ELSE IF i = m THEN timeout ELSE o[i - 1]
    BY <1>13 DEF SumsSpliced
  <2>2. i < m => i \in 0..N
    BY <1>1, <1>6
  <2>3. ~(i < m) /\ i # m => i - 1 \in 0..N
    BY <1>1, <1>6
  <2> QED
    BY <1>1, <1>14, <1>18, <2>1, <2>2, <2>3
<1>20. Queue(p)
  BY <1>7, <1>11, <1>19 DEF Queue
<1>21. m <= N => timeout < Offset(r, m)
  BY <1>4, <1>6 DEF m
<1>22. \A i \in 1..(N + 1) :
         Offset(p, i) = IF i < m THEN Offset(r, i) ELSE IF i = m THEN timeout ELSE Offset(r, i - 1)
  BY <1>1, <1>19
<1> QED
  BY <1>6, <1>7, <1>11, <1>20, <1>21, <1>22 DEF p

(* A list without the one in place m, and its sums.                        *)
Cut(l, new, m) == \A i \in 1..(Len(l) - 1) : new[i] = IF i < m THEN l[i] ELSE l[i + 1]
SumsCut(n, o, f, m) == \A i \in 0..(n - 1) : f[i] = IF i < m THEN o[i] ELSE o[i + 1]

DeltasCut(l, delta, D, m, t) ==
  \A u \in Timers : D[u] = IF m < Len(l) /\ u = l[m + 1] THEN delta[u] + delta[t] ELSE delta[u]

Removal(l, t, m, delta, o, D, new, f) ==
  /\ l \in Seq(Timers) /\ IsInjective(l) /\ m \in 1..Len(l) /\ l[m] = t
  /\ delta \in [Timers -> 0..(W - 1)] /\ Sums(l, delta, o) /\ \A i \in 0..Len(l) : o[i] \in Nat
  /\ Cut(l, new, m) /\ SumsCut(Len(l), o, f, m) /\ DeltasCut(l, delta, D, m, t)

LEMMA TimersAfterRemove ==
  ASSUME NEW l \in Seq(Timers), IsInjective(l), NEW m \in 1..Len(l)
  PROVE  /\ RemoveAt(l, m) \in Seq(Timers) /\ Len(RemoveAt(l, m)) = Len(l) - 1
         /\ IsInjective(RemoveAt(l, m)) /\ Cut(l, RemoveAt(l, m), m)
         /\ Absent(RemoveAt(l, m), l[m])
<1> DEFINE new == RemoveAt(l, m)
           N == Len(l)
           at(i) == IF i < m THEN i ELSE i + 1
<1>0. /\ new \in Seq(Timers) /\ Len(new) = N - 1
      /\ \A i \in 1..(N - 1) : new[i] = IF i < m THEN l[i] ELSE l[i + 1]
  BY RemovedAt
<1> HIDE DEF new
<1>1. N \in Nat
  OBVIOUS
<1>2. ASSUME NEW i \in 1..(N - 1) PROVE at(i) \in 1..N /\ at(i) # m /\ new[i] = l[at(i)]
  <2>1. i \in 1..N /\ i + 1 \in 1..N /\ i + 1 \in Int
    BY <1>1
  <2> QED
    BY <1>0, <2>1
<1>3. ASSUME NEW i \in 1..(N - 1), NEW j \in 1..(N - 1), new[i] = new[j] PROVE i = j
  <2>1. at(i) = at(j)
    <3> HIDE DEF at
    <3> QED
      BY <1>2, <1>3 DEF IsInjective
  <2> QED
    BY <2>1
<1>4. ASSUME NEW i \in 1..(N - 1) PROVE new[i] # l[m]
  <2> HIDE DEF at
  <2> QED
    BY <1>2 DEF IsInjective
<1>5. IsInjective(new)
  BY <1>0, <1>3 DEF IsInjective
<1> QED
  BY <1>0, <1>4, <1>5 DEF new, Cut, Absent

LEMMA DeltasAfterRemove ==
  ASSUME NEW l, NEW t, NEW m, NEW delta, NEW o, NEW D, NEW new, NEW f,
         Removal(l, t, m, delta, o, D, new, f)
  PROVE  f[0] = 0 /\ \A i \in 1..(Len(l) - 1) : f[i] = f[i - 1] + D[new[i]]
<1> DEFINE N == Len(l)
<1>0. /\ l \in Seq(Timers) /\ IsInjective(l) /\ m \in 1..N /\ l[m] = t
      /\ delta \in [Timers -> 0..(W - 1)] /\ Sums(l, delta, o) /\ (\A i \in 0..N : o[i] \in Nat)
      /\ Cut(l, new, m) /\ SumsCut(N, o, f, m) /\ DeltasCut(l, delta, D, m, t) /\ N \in Nat
  BY DEF Removal
<1>1. \A i \in 1..N : /\ l[i] \in Timers /\ delta[l[i]] \in Nat
                      /\ m < N => m + 1 \in 1..N /\ (l[i] = l[m + 1] <=> i = m + 1)
  BY <1>0 DEF IsInjective
<1>2. f[0] = 0
  BY <1>0 DEF Sums, SumsCut
<1>3. \A i \in 1..N : D[l[i]] = IF m < N /\ i = m + 1 THEN delta[l[i]] + delta[t] ELSE delta[l[i]]
  BY <1>0, <1>1 DEF DeltasCut
<1>4. ASSUME NEW i \in 1..(N - 1) PROVE f[i] = f[i - 1] + D[new[i]]
  <2>1. /\ i \in 0..(N - 1) /\ i - 1 \in 0..(N - 1) /\ i \in 1..N /\ i + 1 \in 1..N
        /\ i - 1 + 1 = i /\ i + 1 - 1 = i
    BY <1>0
  <2>2. o[i] = o[i - 1] + delta[l[i]] /\ o[i + 1] = o[i] + delta[l[i + 1]]
    BY <1>0, <2>1 DEF Sums
  <2>3. o[i] \in Nat /\ o[i - 1] \in Nat /\ delta[l[i]] \in Nat /\ delta[l[i + 1]] \in Nat
    BY <1>0, <1>1, <2>1
  <2>4. CASE i < m
    <3>1. new[i] = l[i]
      BY <1>0, <2>4 DEF Cut
    <3>2. f[i] = o[i] /\ f[i - 1] = o[i - 1]
      BY <1>0, <2>1, <2>4 DEF SumsCut
    <3>3. D[l[i]] = delta[l[i]]
      BY <1>0, <1>3, <2>1, <2>4
    <3> QED
      BY <2>2, <3>1, <3>2, <3>3
  <2>5. CASE i = m
    <3>1. new[i] = l[i + 1]
      BY <1>0, <2>5 DEF Cut
    <3>2. f[i] = o[i + 1] /\ f[i - 1] = o[i - 1]
      BY <1>0, <2>1, <2>5 DEF SumsCut
    <3>3. D[l[i + 1]] = delta[l[i + 1]] + delta[t] /\ t = l[i]
      BY <1>0, <1>3, <2>1, <2>5
    <3> QED
      BY <2>2, <2>3, <3>1, <3>2, <3>3
  <2>6. CASE i > m
    <3>1. new[i] = l[i + 1]
      BY <1>0, <2>6 DEF Cut
    <3>2. f[i] = o[i + 1] /\ f[i - 1] = o[i]
      BY <1>0, <2>1, <2>6 DEF SumsCut
    <3>3. D[l[i + 1]] = delta[l[i + 1]]
      BY <1>0, <1>3, <2>1, <2>6
    <3> QED
      BY <2>2, <2>3, <3>1, <3>2, <3>3
  <2> QED
    BY <1>0, <2>4, <2>5, <2>6
<1> QED
  BY <1>2, <1>4

LEMMA TimerRemoved ==
  ASSUME NEW r, Queue(r), NEW t \in Timers, ~Absent(r.list, t)
  PROVE  LET p == delta_list_remove_timer(r, t)
         IN /\ Queue(p) /\ p.last = r.last /\ Absent(p.list, t)
            /\ \E m \in 1..Len(r.list) :
                 /\ r.list[m] = t /\ Len(p.list) = Len(r.list) - 1 /\ Cut(r.list, p.list, m)
                 /\ \A i \in 1..(Len(r.list) - 1) :
                      Offset(p, i) = IF i < m THEN Offset(r, i) ELSE Offset(r, i + 1)
<1> DEFINE l == r.list
           N == Len(l)
           o == [i \in 0..N |-> Offset(r, i)]
           m == CHOOSE i \in 1..N : l[i] = t
           new == RemoveAt(l, m)
           D == [u \in Timers |-> IF m < N /\ u = l[m + 1] THEN r.delta[u] + r.delta[t] ELSE r.delta[u]]
           p == delta_list_remove_timer(r, t)
           f == [i \in 0..(N - 1) |-> IF i < m THEN o[i] ELSE o[i + 1]]
<1>1. /\ r \in Queues /\ l \in Seq(Timers) /\ IsInjective(l) /\ N \in Nat
      /\ \A i \in 1..N : l[i] \in Timers
      /\ r.delta \in [Timers -> 0..(W - 1)] /\ r.last \in 0..(W - 1)
      /\ \A i \in 0..N : Offset(r, i) <= Half
  BY DEF Queue, Queues
<1>2. /\ Offset(r, 0) = 0 /\ \A i \in 0..N : Offset(r, i) \in Nat
      /\ \A i \in 1..N : Offset(r, i) = Offset(r, i - 1) + r.delta[l[i]]
  BY <1>1, QueueOffsets
<1>3. m \in 1..N /\ l[m] = t
  BY DEF Absent
<1>4. p = [r EXCEPT !.list = new, !.delta = D]
  BY DEF delta_list_remove_timer
<1> HIDE DEF m
<1>5. /\ new \in Seq(Timers) /\ Len(new) = N - 1 /\ IsInjective(new)
      /\ Cut(l, new, m) /\ Absent(new, t)
  <2> HIDE DEF l
  <2> QED
    BY <1>1, <1>3, TimersAfterRemove
<1> HIDE DEF new
<1>6. m < N => r.delta[l[m + 1]] + r.delta[t] \in 0..(W - 1)
  <2> SUFFICES ASSUME m < N PROVE r.delta[l[m + 1]] + r.delta[t] \in 0..(W - 1)
    OBVIOUS
  <2>1. /\ m + 1 \in 1..N /\ m \in 1..N /\ m - 1 \in 0..N /\ m + 1 - 1 = m /\ m + 1 \in 0..N
        /\ m \in 0..N
    BY <1>1, <1>3
  <2>2. Offset(r, m + 1) = Offset(r, m) + r.delta[l[m + 1]] /\ Offset(r, m + 1) <= Half
    BY <1>1, <1>2, <2>1, SMTT(30)
  <2>3. Offset(r, m) = Offset(r, m - 1) + r.delta[t] /\ Offset(r, m) \in Nat
    BY <1>2, <1>3, <2>1
  <2>4. Offset(r, m - 1) \in Nat
    BY <1>2, <2>1
  <2>5. r.delta[l[m + 1]] \in Nat /\ r.delta[t] \in Nat
    BY <1>1, <2>1
  <2> QED
    BY <2>2, <2>3, <2>4, <2>5, HalfTurn, Constants, SMTT(30)
<1>7. D \in [Timers -> 0..(W - 1)]
  BY <1>1, <1>6
<1>8. p \in Queues /\ p.list = new /\ p.delta = D /\ p.last = r.last
  BY <1>1, <1>4, <1>5, <1>7, Zenon DEF Queues
<1>9. Sums(l, r.delta, o)
  <2>1. o[0] = 0 /\ \A i \in 1..N : o[i] = Offset(r, i) /\ o[i - 1] = Offset(r, i - 1)
    BY <1>1, <1>2
  <2> HIDE DEF o
  <2> QED
    BY <1>2, <2>1 DEF Sums
<1>10. \A i \in 0..N : o[i] = Offset(r, i) /\ o[i] \in Nat
  BY <1>2
<1>11. SumsCut(N, o, f, m)
  BY DEF SumsCut
<1>12. DeltasCut(l, r.delta, D, m, t)
  BY DEF DeltasCut
<1> HIDE DEF o, f, D, p
<1>13. f[0] = 0 /\ \A i \in 1..(N - 1) : f[i] = f[i - 1] + D[new[i]]
  <2> HIDE DEF l
  <2>1. Removal(l, t, m, r.delta, o, D, new, f)
    BY <1>1, <1>3, <1>5, <1>9, <1>10, <1>11, <1>12 DEF Removal
  <2> QED
    BY <2>1, DeltasAfterRemove
<1>14. \A i \in 0..(N - 1) : Offset(p, i) = f[i]
  <2>1. p.list \in Seq(Timers) /\ Len(p.list) = N - 1
    BY <1>5, <1>8
  <2>2. \A i \in 1..Len(p.list) : f[i] = f[i - 1] + p.delta[p.list[i]]
    BY <1>8, <1>13, <2>1
  <2>3. \A i \in 0..Len(p.list) : Offset(p, i) = f[i]
    BY <1>13, <2>1, <2>2, OffsetIs, ZenonT(60)
  <2> QED
    BY <2>1, <2>3
<1>15. ASSUME NEW i \in 0..(N - 1)
       PROVE  /\ Offset(p, i) <= Half
              /\ Offset(p, i) = IF i < m THEN Offset(r, i) ELSE Offset(r, i + 1)
  <2>1. f[i] = IF i < m THEN o[i] ELSE o[i + 1]
    BY <1>11 DEF SumsCut
  <2>2. i \in 0..N /\ i + 1 \in 0..N
    BY <1>1
  <2> QED
    BY <1>1, <1>10, <1>14, <2>1, <2>2
<1>16. Queue(p)
  BY <1>5, <1>8, <1>15 DEF Queue
<1>17. \A i \in 1..(N - 1) : Offset(p, i) = IF i < m THEN Offset(r, i) ELSE Offset(r, i + 1)
  BY <1>15
<1> QED
  BY <1>3, <1>5, <1>8, <1>16, <1>17 DEF p

-----------------------------------------------------------------------------
(* The operations as the steps use them.                                   *)

(* What update_first_timer_delta makes of a list.                          *)
Updated(r, p) ==
  /\ Queue(p) /\ p.list = r.list
  /\ r.list = <<>> => p.last = cnt
  /\ r.list # <<>> /\ Diff(cnt, r.last) <= First(r) =>
       /\ p.last = cnt /\ First(p) = First(r) - Diff(cnt, r.last)
       /\ \A i \in 1..Len(r.list) : Offset(p, i) = Offset(r, i) - Diff(cnt, r.last)
  /\ r.list # <<>> /\ First(r) < Diff(cnt, r.last) => First(p) = 0

LEMMA UpdatedList ==
  ASSUME NEW r, Queue(r), cnt \in 0..(W - 1)
  PROVE  Updated(r, update_first_timer_delta(r))
<1> DEFINE d == Diff(cnt, r.last)
           h == Head(r.list)
           p == update_first_timer_delta(r)
<1>0. r \in Queues /\ r.last \in 0..(W - 1)
  BY DEF Queue, Queues
<1>1. /\ r \in Queues /\ r.last \in 0..(W - 1) /\ d \in 0..(W - 1) /\ d \in Nat
  <2>1. d \in 0..(W - 1)
    BY <1>0, DiffTurn
  <2> HIDE DEF d
  <2> QED
    BY <1>0, <2>1, Constants
<1>2. CASE r.list = <<>>
  <2>1. p = [r EXCEPT !.last = cnt]
    BY <1>2 DEF update_first_timer_delta
  <2>2. p \in Queues /\ p.list = r.list /\ p.last = cnt /\ p.delta = r.delta
    BY <1>1, <2>1 DEF Queues
  <2>3. \A i \in 0..Len(r.list) : Offset(p, i) <= Half
    <3>1. Len(r.list) = 0 /\ Offset(p, 0) = 0
      BY <1>2, <2>2, QueueOffsets
    <3> QED
      BY <3>1, HalfTurn
  <2>4. Queue(p)
    BY <2>2, <2>3 DEF Queue
  <2> QED
    BY <1>2, <2>2, <2>4 DEF Updated
<1>3. CASE r.list # <<>> /\ d <= First(r)
  <2>1. p = Sooner(r, d, cnt)
    BY <1>1, <1>3, QueueHead DEF update_first_timer_delta, First, Sooner
  <2>2. /\ Queue(p) /\ p.list = r.list /\ p.last = cnt /\ First(p) = First(r) - d
        /\ \A i \in 1..Len(r.list) : Offset(p, i) = Offset(r, i) - d
    <3> HIDE DEF d, p
    <3>1. IsSooner(r, p, d, cnt)
      BY <1>1, <1>3, <2>1, HeadSooner
    <3> QED
      BY <3>1 DEF IsSooner
  <2>3. ~(First(r) < d)
    BY <1>1, <1>3, QueueHead
  <2> QED
    BY <1>3, <2>2, <2>3 DEF Updated
<1>4. CASE r.list # <<>> /\ First(r) < d
  <2>1. First(r) \in Nat /\ First(r) = r.delta[h] /\ h \in Timers /\ ~(d <= First(r))
    BY <1>1, <1>4, QueueHead DEF First
  <2> DEFINE v == Diff(cnt, r.delta[h])
  <2>2. r.delta[h] \in 0..(W - 1)
    BY <1>1, <2>1 DEF Queues
  <2>3. v \in 0..(W - 1)
    BY <2>2, DiffTurn
  <2>4. p = [r EXCEPT !.delta[h] = 0, !.last = v]
    BY <1>4, <2>1 DEF update_first_timer_delta
  <2>5. p = Sooner(r, First(r), v)
    <3>1. r.delta[h] - First(r) = 0
      BY <2>1
    <3> HIDE DEF v, p, h
    <3> QED
      BY <2>4, <3>1 DEF Sooner, h
  <2>6. Queue(p) /\ p.list = r.list /\ First(p) = First(r) - First(r)
    <3> HIDE DEF v, p
    <3>1. First(r) <= First(r)
      BY <2>1
    <3>2. IsSooner(r, p, First(r), v)
      BY <1>4, <2>1, <2>3, <2>5, <3>1, HeadSooner
    <3> QED
      BY <3>2 DEF IsSooner
  <2>7. First(p) = 0
    BY <2>1, <2>6
  <2> QED
    BY <1>4, <2>1, <2>6, <2>7 DEF Updated
<1>5. r.list # <<>> => First(r) \in Nat
  BY <1>1, QueueHead
<1>6. r.list = <<>> \/ (r.list # <<>> /\ d <= First(r)) \/ (r.list # <<>> /\ First(r) < d)
  BY <1>1, <1>5
<1> QED
  BY <1>2, <1>3, <1>4, <1>6

(* What delta_list_insert_timer makes of it.                               *)
Inserted(r, p, t, timeout) ==
  /\ Queue(p) /\ p.last = r.last /\ p.list # <<>>
  /\ p.list = <<t>> \/ r.list # <<>>
  /\ \/ Head(p.list) = t /\ First(p) = timeout /\ (r.list = <<>> \/ timeout < First(r))
     \/ r.list # <<>> /\ Head(p.list) = Head(r.list) /\ Head(p.list) # t /\ First(p) = First(r)
  /\ \A l : Promise(r, l, 0) /\ l \in [Timers -> Int] =>
       Promise(p, [l EXCEPT ![t] = timeout], 0)

LEMMA InsertedList ==
  ASSUME NEW r, Queue(r), NEW t \in Timers, Absent(r.list, t), NEW timeout \in 1..Half
  PROVE  Inserted(r, delta_list_insert_timer(r, t, timeout), t, timeout)
<1> DEFINE p == delta_list_insert_timer(r, t, timeout)
           N == Len(r.list)
<1>1. /\ Queue(p) /\ p.last = r.last
      /\ \E m \in 1..(N + 1) :
           /\ Len(p.list) = N + 1 /\ Spliced(r.list, p.list, m, t)
           /\ \A i \in 1..(N + 1) :
                Offset(p, i) = IF i < m THEN Offset(r, i)
                               ELSE IF i = m THEN timeout ELSE Offset(r, i - 1)
           /\ m <= N => timeout < Offset(r, m)
  BY TimerInserted
<1> HIDE DEF p
<1>2. PICK m \in 1..(N + 1) :
           /\ Len(p.list) = N + 1 /\ Spliced(r.list, p.list, m, t)
           /\ \A i \in 1..(N + 1) :
                Offset(p, i) = IF i < m THEN Offset(r, i)
                               ELSE IF i = m THEN timeout ELSE Offset(r, i - 1)
           /\ m <= N => timeout < Offset(r, m)
  BY <1>1
<1>3. /\ r \in Queues /\ p \in Queues /\ r.list \in Seq(Timers) /\ p.list \in Seq(Timers)
      /\ N \in Nat /\ p.list # <<>> /\ (r.list = <<>> <=> N = 0)
  BY <1>1, <1>2, SMTT(30) DEF Queue, Queues
<1>4. /\ Head(p.list) = p.list[1] /\ First(p) = Offset(p, 1) /\ Head(p.list) \in Timers
      /\ r.list # <<>> => Head(r.list) = r.list[1] /\ First(r) = Offset(r, 1) /\ N >= 1
  BY <1>3, QueueHead
<1>5. \A i \in 1..(N + 1) : p.list[i] = IF i < m THEN r.list[i] ELSE IF i = m THEN t ELSE r.list[i - 1]
  BY <1>2 DEF Spliced
<1>6. 1 \in 1..(N + 1)
  BY <1>3
<1>7. p.list = <<t>> \/ r.list # <<>>
  <2> SUFFICES ASSUME r.list = <<>> PROVE p.list = <<t>>
    OBVIOUS
  <2>1. N = 0 /\ m = 1 /\ Len(p.list) = 1 /\ p.list[1] = t
    BY <1>2, <1>3, <1>5, <1>6
  <2> QED
    BY <1>3, <2>1
<1>8. ASSUME m = 1
      PROVE  Head(p.list) = t /\ First(p) = timeout /\ (r.list = <<>> \/ timeout < First(r))
  <2>1. Head(p.list) = t /\ First(p) = timeout
    BY <1>2, <1>4, <1>5, <1>6, <1>8
  <2>2. r.list = <<>> \/ timeout < First(r)
    BY <1>2, <1>3, <1>4, <1>8
  <2> QED
    BY <2>1, <2>2
<1>9. ASSUME m # 1
      PROVE  /\ r.list # <<>> /\ Head(p.list) = Head(r.list)
             /\ Head(p.list) # t /\ First(p) = First(r)
  <2>1. N # 0 /\ r.list # <<>> /\ 1 < m /\ 1 \in 1..N
    BY <1>3, <1>9
  <2>2. Head(p.list) = Head(r.list) /\ First(p) = First(r)
    BY <1>2, <1>4, <1>5, <1>6, <2>1
  <2>3. Head(r.list) # t
    BY <1>4, <2>1 DEF Absent
  <2> QED
    BY <2>1, <2>2, <2>3
<1>10. ASSUME NEW l, Promise(r, l, 0), l \in [Timers -> Int]
       PROVE  Promise(p, [l EXCEPT ![t] = timeout], 0)
  <2> DEFINE k == [l EXCEPT ![t] = timeout]
  <2>1. k[t] = timeout /\ \A u \in Timers \ {t} : k[u] = l[u]
    BY <1>10
  <2> HIDE DEF k
  <2>2. \A i \in 1..N : r.list[i] \in Timers \ {t} /\ l[r.list[i]] = Offset(r, i) - 0
    BY <1>3, <1>10 DEF Absent, Promise
  <2>3. \A i \in 0..N : Offset(r, i) \in Nat
    BY <1>3, QueueOffsets
  <2>4. ASSUME NEW i \in 1..(N + 1) PROVE k[p.list[i]] = Offset(p, i) - 0
    <3>1. CASE i < m
      <4>1. i \in 1..N /\ i \in 0..N /\ p.list[i] = r.list[i] /\ Offset(p, i) = Offset(r, i)
        BY <1>2, <1>3, <1>5, <3>1
      <4> QED
        BY <2>1, <2>2, <4>1
    <3>2. CASE i = m
      <4>1. p.list[i] = t /\ Offset(p, i) = timeout
        BY <1>2, <1>5, <3>2
      <4> QED
        BY <2>1, <4>1
    <3>3. CASE i > m
      <4>1. ~(i < m) /\ i # m /\ i - 1 \in 1..N
        BY <1>3, <3>3
      <4>2. p.list[i] = r.list[i - 1] /\ Offset(p, i) = Offset(r, i - 1)
        BY <1>2, <1>5, <4>1
      <4> QED
        BY <2>1, <2>2, <4>1, <4>2
    <3> QED
      BY <1>3, <3>1, <3>2, <3>3
  <2> QED
    BY <1>2, <2>4 DEF Promise, k
<1> QED
  BY <1>1, <1>3, <1>7, <1>8, <1>9, <1>10 DEF Inserted, p

(* What delta_list_remove_timer makes of it.                               *)
Removed(r, p, t) ==
  /\ Queue(p) /\ p.last = r.last /\ Absent(p.list, t)
  /\ Head(r.list) = t /\ p.list # <<>> => First(r) <= First(p)
  /\ Head(r.list) # t => p.list # <<>> /\ Head(p.list) = Head(r.list) /\ First(p) = First(r)
  /\ \A l, d : Promise(r, l, d) /\ l \in [Timers -> Int] => Promise(p, [l EXCEPT ![t] = 0], d)

LEMMA RemovedList ==
  ASSUME NEW r, Queue(r), NEW t \in Timers, ~Absent(r.list, t)
  PROVE  Removed(r, delta_list_remove_timer(r, t), t)
<1> DEFINE p == delta_list_remove_timer(r, t)
           N == Len(r.list)
<1>0. N \in Nat
  BY DEF Queue, Queues
<1>1. /\ Queue(p) /\ p.last = r.last /\ Absent(p.list, t)
      /\ \E m \in 1..N :
           /\ r.list[m] = t /\ Len(p.list) = N - 1 /\ Cut(r.list, p.list, m)
           /\ \A i \in 1..(N - 1) : Offset(p, i) = IF i < m THEN Offset(r, i) ELSE Offset(r, i + 1)
  BY TimerRemoved
<1> HIDE DEF p
<1>2. PICK m \in 1..N :
           /\ r.list[m] = t /\ Len(p.list) = N - 1 /\ Cut(r.list, p.list, m)
           /\ \A i \in 1..(N - 1) : Offset(p, i) = IF i < m THEN Offset(r, i) ELSE Offset(r, i + 1)
  BY <1>1
<1>3. /\ r \in Queues /\ p \in Queues /\ r.list \in Seq(Timers) /\ p.list \in Seq(Timers)
      /\ N \in Nat /\ N >= 1 /\ r.list # <<>> /\ (p.list = <<>> <=> N = 1) /\ IsInjective(r.list)
  <2>1. /\ r \in Queues /\ p \in Queues /\ r.list \in Seq(Timers) /\ p.list \in Seq(Timers)
        /\ IsInjective(r.list)
    BY <1>1 DEF Queue, Queues
  <2>2. r.list # <<>>
    BY DEF N
  <2>3. p.list = <<>> <=> Len(p.list) = 0
    BY <2>1
  <2> HIDE DEF N
  <2>4. N >= 1 /\ (Len(p.list) = 0 <=> N = 1)
    BY <1>0, <1>2
  <2> QED
    BY <1>0, <2>1, <2>2, <2>3, <2>4
<1>4. /\ Head(r.list) = r.list[1] /\ First(r) = Offset(r, 1)
      /\ p.list # <<>> => Head(p.list) = p.list[1] /\ First(p) = Offset(p, 1)
  BY <1>3, QueueHead
<1>5. \A i \in 1..(N - 1) : p.list[i] = IF i < m THEN r.list[i] ELSE r.list[i + 1]
  BY <1>2 DEF Cut
<1>6. Head(r.list) = t <=> m = 1
  BY <1>2, <1>3, <1>4 DEF IsInjective
<1>7. ASSUME Head(r.list) = t, p.list # <<>> PROVE First(r) <= First(p)
  <2>1. 1 \in 1..(N - 1) /\ 1 \in 0..N /\ 2 \in 0..N /\ 1 + 1 = 2 /\ ~(1 < m)
    <3> HIDE DEF N
    <3> QED
      BY <1>3, <1>6, <1>7
  <2>2. Offset(p, 1) = Offset(r, 2)
    BY <1>2, <2>1
  <2>3. Offset(r, 1) <= Offset(r, 2)
    BY <1>3, <2>1, QueueOffsets
  <2> QED
    BY <1>4, <1>7, <2>2, <2>3
<1>8. ASSUME Head(r.list) # t
      PROVE  p.list # <<>> /\ Head(p.list) = Head(r.list) /\ First(p) = First(r)
  <2>1. 1 < m /\ N # 1 /\ 1 \in 1..(N - 1)
    <3> HIDE DEF N
    <3> QED
      BY <1>2, <1>3, <1>6, <1>8
  <2>2. p.list # <<>> /\ p.list[1] = r.list[1] /\ Offset(p, 1) = Offset(r, 1)
    BY <1>2, <1>3, <1>5, <2>1
  <2> QED
    BY <1>4, <2>2
<1>9. ASSUME NEW l, NEW d, Promise(r, l, d), l \in [Timers -> Int]
      PROVE  Promise(p, [l EXCEPT ![t] = 0], d)
  <2> DEFINE k == [l EXCEPT ![t] = 0]
  <2>1. \A u \in Timers \ {t} : k[u] = l[u]
    BY <1>9
  <2> HIDE DEF k
  <2>2. \A i \in 1..N : r.list[i] \in Timers /\ l[r.list[i]] = Offset(r, i) - d
    BY <1>3, <1>9 DEF Promise
  <2>4. ASSUME NEW i \in 1..(N - 1) PROVE k[p.list[i]] = Offset(p, i) - d
    <3>0. p.list[i] # t /\ i \in 1..N /\ i + 1 \in 1..N
      BY <1>1, <1>2, <1>3 DEF Absent
    <3>1. CASE i < m
      <4>1. p.list[i] = r.list[i] /\ Offset(p, i) = Offset(r, i)
        BY <1>2, <1>5, <3>1
      <4> QED
        BY <2>1, <2>2, <3>0, <4>1
    <3>2. CASE ~(i < m)
      <4>1. p.list[i] = r.list[i + 1] /\ Offset(p, i) = Offset(r, i + 1)
        BY <1>2, <1>5, <3>2
      <4> QED
        BY <2>1, <2>2, <3>0, <4>1
    <3> QED
      BY <3>1, <3>2
  <2> QED
    BY <1>2, <2>4 DEF Promise, k
<1> QED
  BY <1>1, <1>7, <1>8, <1>9 DEF Removed, p

-----------------------------------------------------------------------------
(* The comparator.                                                         *)

Comparators == [value : 0..(W - 1), on : BOOLEAN, flag : BOOLEAN]
Ahead(c) == Diff(c.value, cnt)

(* What set_comparator_for_next_timer makes of c, for the head of r.       *)
Compared(c, s, r) ==
  /\ s \in Comparators /\ s.on /\ s.flag = c.flag
  /\ c.flag \/ Ahead(c) \in 1..MinDiff \/ r.last = cnt =>
       \/ s.flag
       \/ Ahead(c) \in 1..MinDiff /\ Ahead(s) = Ahead(c)
       \/ /\ Ahead(c) \notin 1..MinDiff /\ r.last = cnt
          /\ Ahead(s) \in 1..(W - 1) /\ (Ahead(s) <= 3 \/ Ahead(s) <= First(r) + 1)

(* From the counter to a value at most half a turn ahead, or the least     *)
(* distance, and the one tick more where the modulus is TMR_WIDTH.         *)
LEMMA Reached ==
  ASSUME cnt \in 0..(W - 1), NEW m \in 0..Half
  PROVE  LET v == (cnt + m) % W
             w == IF Diff(v, cnt) < MinDiff THEN (cnt + MinDiff) % W ELSE v
             n == Diff(w % (W - 1), cnt)
         IN /\ v \in 0..(W - 1) /\ w % (W - 1) \in 0..(W - 1)
            /\ n \in 1..(W - 1) /\ (n <= 3 \/ n <= m + 1)
<1> DEFINE On(k) == IF cnt + k < W THEN cnt + k ELSE cnt + k - W
           v == (cnt + m) % W
           w == IF Diff(v, cnt) < MinDiff THEN (cnt + MinDiff) % W ELSE v
           k == IF m < MinDiff THEN MinDiff ELSE m
           n == Diff(w % (W - 1), cnt)
<1>1. W \in Nat \ {0} /\ W > 4 /\ Half \in Nat /\ 2 * Half <= W /\ MinDiff = 2
  BY Constants, HalfTurn DEF MinDiff
<1>2. ASSUME NEW j \in 0..(W - 1) PROVE (cnt + j) % W = On(j) /\ On(j) \in 0..(W - 1)
  <2>1. cnt + j \in Int /\ 0 - W <= cnt + j /\ cnt + j < 2 * W /\ ~(cnt + j < 0)
    BY <1>1
  <2> DEFINE x == cnt + j
  <2>2. x % W = IF x < 0 THEN x + W ELSE IF x < W THEN x ELSE x - W
    <3> HIDE DEF x
    <3>1. x \in Int /\ 0 - W <= x /\ x < 2 * W
      BY <2>1 DEF x
    <3> QED
      BY <1>1, <3>1, OneTurn
  <2> QED
    BY <1>1, <2>1, <2>2
<1>3. ASSUME NEW j \in 0..(W - 1) PROVE Diff(On(j), cnt) = j
  <2>1. On(j) \in 0..(W - 1)
    BY <1>2
  <2> HIDE DEF On
  <2>2. Diff(On(j), cnt) = IF On(j) < cnt THEN On(j) - cnt + W ELSE On(j) - cnt
    BY <2>1, DiffTurn
  <2> QED
    BY <1>1, <2>2 DEF On
<1>4. m \in 0..(W - 1) /\ MinDiff \in 0..(W - 1) /\ k \in 2..(W - 1) /\ (k = 2 \/ k = m)
      /\ 2 * k <= W + 1
  BY <1>1
<1>5. v = On(m) /\ v \in 0..(W - 1) /\ Diff(v, cnt) = m
  BY <1>2, <1>3, <1>4
<1>6. w = On(k) /\ w \in 0..(W - 1) /\ Diff(w, cnt) = k
  <2> HIDE DEF On, v
  <2> QED
    BY <1>1, <1>2, <1>3, <1>4, <1>5
<1> HIDE DEF w, k, v
<1>7. CASE w = W - 1
  <2>1. w % (W - 1) = 0 /\ 0 \in 0..(W - 1)
    BY <1>1, <1>7
  <2>2. n = IF 0 < cnt THEN 0 - cnt + W ELSE 0 - cnt
    BY <2>1, DiffTurn
  <2>3. ~(w < cnt) /\ k = w - cnt
    <3>1. ~(w < cnt)
      BY <1>1, <1>7
    <3>2. Diff(w, cnt) = IF w < cnt THEN w - cnt + W ELSE w - cnt
      BY <1>6, DiffTurn
    <3> QED
      BY <1>6, <3>1, <3>2
  <2>4. cnt # 0
    BY <1>1, <1>4, <1>7, <2>3
  <2>5. n = k + 1 /\ n \in 1..(W - 1)
    <3>1. n = W - cnt
      BY <1>1, <2>2, <2>4
    <3> HIDE DEF n
    <3> QED
      BY <1>1, <1>7, <2>3, <2>4, <3>1
  <2> HIDE DEF n
  <2>6. n <= 3 \/ n <= m + 1
    BY <1>4, <2>5
  <2> QED
    BY <1>1, <1>5, <2>1, <2>5, <2>6 DEF n, w, v
<1>8. CASE w # W - 1
  <2>1. w % (W - 1) = w
    BY <1>1, <1>6, <1>8
  <2>2. n = k
    BY <1>6, <2>1
  <2> HIDE DEF n
  <2>3. n \in 1..(W - 1) /\ (n <= 3 \/ n <= m + 1)
    BY <1>1, <1>4, <2>2
  <2> QED
    BY <1>5, <1>6, <2>1, <2>3 DEF n, w, v
<1> QED
  BY <1>7, <1>8

LEMMA ComparedNext ==
  ASSUME cnt \in 0..(W - 1), NEW c \in Comparators, NEW r, Queue(r), r.list # <<>>
  PROVE  Compared(c, set_comparator_for_next_timer(c, r), r)
<1> DEFINE v == (r.last + First(r)) % W
           w == IF Diff(v, cnt) < MinDiff THEN (cnt + MinDiff) % W ELSE v
           s == set_comparator_for_next_timer(c, r)
           again == c.flag \/ Ahead(c) > MinDiff \/ Ahead(c) = 0
<1>1. s = [c EXCEPT !.on = TRUE, !.value = IF again THEN w % (W - 1) ELSE @]
  BY DEF set_comparator_for_next_timer, sleeptimer_hal_set_compare, First, Ahead
<1>2. c.value \in 0..(W - 1) /\ c.flag \in BOOLEAN
  BY DEF Comparators
<1>3. Ahead(c) \in 0..(W - 1) /\ W \in Nat /\ W > 4 /\ MinDiff = 2
  BY <1>2, DiffTurn, Constants DEF Ahead, MinDiff
<1>4. w % (W - 1) \in 0..(W - 1)
  <2>1. w \in Nat
    <3>1. r \in Queues /\ r.last \in Nat /\ First(r) \in Nat
      BY QueueHead DEF Queue, Queues
    <3>2. v \in Nat /\ (cnt + MinDiff) % W \in Nat
      BY <1>3, <3>1
    <3> QED
      BY <3>2
  <2> HIDE DEF w
  <2> QED
    BY <1>3, <2>1
<1>5. s \in Comparators /\ s.on /\ s.flag = c.flag
      /\ s.value = IF again THEN w % (W - 1) ELSE c.value
  <2> HIDE DEF w, again
  <2> QED
    BY <1>1, <1>2, <1>4 DEF Comparators
<1>6. ASSUME ~c.flag, Ahead(c) \in 1..MinDiff PROVE Ahead(s) = Ahead(c)
  <2>1. ~again
    BY <1>3, <1>6
  <2> QED
    BY <1>5, <2>1 DEF Ahead
<1>7. ASSUME ~c.flag, Ahead(c) \notin 1..MinDiff, r.last = cnt
      PROVE  Ahead(s) \in 1..(W - 1) /\ (Ahead(s) <= 3 \/ Ahead(s) <= First(r) + 1)
  <2>1. again
    BY <1>3, <1>7
  <2>2. First(r) \in 0..Half
    <3>1. r \in Queues /\ Len(r.list) \in Nat /\ \A i \in 0..Len(r.list) : Offset(r, i) <= Half
      BY DEF Queue, Queues
    <3>2. First(r) = Offset(r, 1) /\ First(r) \in Nat /\ Len(r.list) >= 1
      BY <3>1, QueueHead
    <3> QED
      BY <3>1, <3>2, HalfTurn
  <2>3. v = (cnt + First(r)) % W
    BY <1>7
  <2>4. s.value = w % (W - 1)
    BY <1>5, <2>1
  <2> QED
    BY <2>2, <2>3, <2>4, Reached DEF Ahead
<1> QED
  BY <1>5, <1>6, <1>7 DEF Compared, s

-----------------------------------------------------------------------------
(* Armed and OnTime, for the head of r and the comparator c.               *)

ArmedFor(c, r, now) ==
  /\ c.on
  /\ \/ c.flag
     \/ /\ Diff(c.value, now) # 0
        /\ \/ Diff(c.value, now) <= MinDiff
           \/ Diff(c.value, now) - 3 <= First(r) - Diff(now, r.last)

(* It fires at most MinDiff late, w ago if it has.                         *)
InTime(c, r, now, w) ==
  IF c.flag THEN 0 - MinDiff - w <= First(r) - Diff(now, r.last)
  ELSE Diff(c.value, now) - MinDiff <= First(r) - Diff(now, r.last)

Soon(c) == c.flag \/ Ahead(c) \in 1..MinDiff

LEMMA NoTurn == cnt \in 0..(W - 1) => Diff(cnt, cnt) = 0
<1> SUFFICES ASSUME cnt \in 0..(W - 1) PROVE Diff(cnt, cnt) = 0
  OBVIOUS
<1>1. Diff(cnt, cnt) = IF cnt < cnt THEN cnt - cnt + W ELSE cnt - cnt
  BY DiffTurn
<1> QED
  BY <1>1, Constants

LEMMA QueueFirst ==
  ASSUME NEW r, Queue(r), r.list # <<>>
  PROVE  First(r) \in 0..Half
<1>1. r \in Queues /\ Len(r.list) \in Nat /\ \A i \in 0..Len(r.list) : Offset(r, i) <= Half
  BY DEF Queue, Queues
<1>2. First(r) = Offset(r, 1) /\ First(r) \in Nat /\ Len(r.list) >= 1
  BY <1>1, QueueHead
<1> QED
  BY <1>1, <1>2, HalfTurn

(* An update never makes the comparator late; if the head is overdue, the  *)
(* comparator is as good as there.                                         *)
LEMMA AfterUpdate ==
  ASSUME cnt \in 0..(W - 1), NEW c \in Comparators, NEW r, Queue(r), r.list # <<>>,
         NEW p, Updated(r, p), ArmedFor(c, r, cnt)
  PROVE  /\ ArmedFor(c, p, cnt)
         /\ Soon(c) \/ p.last = cnt
         /\ \A w \in Nat : InTime(c, r, cnt, w) /\ ~(First(r) < Diff(cnt, r.last)) =>
              InTime(c, p, cnt, w) /\ (First(p) = 0 => Soon(c))
<1> DEFINE d == Diff(cnt, r.last)
           n == Ahead(c)
<1>1. r.last \in 0..(W - 1) /\ c.value \in 0..(W - 1) /\ c.flag \in BOOLEAN
  BY DEF Queue, Queues, Comparators
<1>2. d \in 0..(W - 1) /\ n \in 0..(W - 1) /\ W \in Nat /\ MinDiff = 2
  BY <1>1, DiffTurn, Constants DEF Ahead, MinDiff
<1>3. First(r) \in Nat /\ First(p) \in Nat /\ p.list # <<>> /\ Queue(p)
  BY QueueFirst, HalfTurn DEF Updated
<1>4. c.on /\ (c.flag \/ (n # 0 /\ (n <= MinDiff \/ n - 3 <= First(r) - d)))
  BY DEF ArmedFor, Ahead
<1>5. CASE d <= First(r)
  <2>1. p.last = cnt /\ First(p) = First(r) - d /\ Diff(cnt, p.last) = 0
    BY <1>5, NoTurn DEF Updated
  <2>2. ArmedFor(c, p, cnt)
    <3> HIDE DEF d, n
    <3>1. c.on /\ (c.flag \/ (n # 0 /\ (n <= MinDiff \/ n - 3 <= First(p) - Diff(cnt, p.last))))
      BY <1>2, <1>3, <1>4, <2>1
    <3> QED
      BY <3>1 DEF ArmedFor, n, Ahead
  <2>3. ASSUME NEW w \in Nat, InTime(c, r, cnt, w)
        PROVE  InTime(c, p, cnt, w) /\ (First(p) = 0 => Soon(c))
    <3>1. IF c.flag THEN 0 - MinDiff - w <= First(r) - d ELSE n - MinDiff <= First(r) - d
      BY <2>3 DEF InTime, Ahead
    <3> HIDE DEF d, n
    <3>2. /\ IF c.flag THEN 0 - MinDiff - w <= First(p) - Diff(cnt, p.last)
             ELSE n - MinDiff <= First(p) - Diff(cnt, p.last)
          /\ First(p) = 0 => c.flag \/ n \in 1..MinDiff
      BY <1>1, <1>2, <1>3, <1>4, <2>1, <3>1
    <3> QED
      BY <3>2 DEF InTime, n, Ahead, Soon
  <2> QED
    BY <2>1, <2>2, <2>3
<1>6. CASE First(r) < d
  <2>1. c.on /\ (c.flag \/ (n # 0 /\ n <= MinDiff))
    <3> HIDE DEF d, n
    <3> QED
      BY <1>2, <1>3, <1>4, <1>6
  <2>2. ArmedFor(c, p, cnt)
    BY <2>1 DEF ArmedFor, Ahead
  <2>3. Soon(c)
    <3>1. c.flag \/ n \in 1..MinDiff
      <4> HIDE DEF n
      <4> QED
        BY <1>2, <2>1
    <3> QED
      BY <3>1 DEF Soon
  <2> QED
    BY <1>6, <2>2, <2>3
<1>7. d <= First(r) \/ First(r) < d
  <2> HIDE DEF d
  <2> QED
    BY <1>2, <1>3
<1> QED
  BY <1>5, <1>6, <1>7

LEMMA AfterCompare ==
  ASSUME cnt \in 0..(W - 1), NEW c \in Comparators, NEW s, NEW r, Queue(r), r.list # <<>>,
         Compared(c, s, r), Soon(c) \/ r.last = cnt
  PROVE  /\ ArmedFor(s, r, cnt)
         /\ \A w \in Nat : r.last = cnt /\ (First(r) = 0 => Soon(c)) => InTime(s, r, cnt, w)
<1> DEFINE n == Ahead(s)
           d == Diff(cnt, r.last)
<1>1. /\ s \in Comparators /\ s.on /\ s.flag = c.flag
      /\ \/ s.flag
         \/ Ahead(c) \in 1..MinDiff /\ n = Ahead(c)
         \/ /\ Ahead(c) \notin 1..MinDiff /\ r.last = cnt
            /\ n \in 1..(W - 1) /\ (n <= 3 \/ n <= First(r) + 1)
  BY DEF Compared, Soon
<1>2. First(r) \in Nat /\ W \in Nat /\ MinDiff = 2
  BY QueueFirst, HalfTurn, Constants DEF MinDiff
<1>3. r.last = cnt => d = 0
  BY NoTurn
<1>4. s.flag \in BOOLEAN
  BY <1>1 DEF Comparators
<1> HIDE DEF n, d
<1>5. s.on /\ (s.flag \/ (n # 0 /\ (n <= MinDiff \/ n - 3 <= First(r) - d)))
  BY <1>1, <1>2, <1>3
<1>6. ASSUME NEW w \in Nat, r.last = cnt, First(r) = 0 => Soon(c)
      PROVE  IF s.flag THEN 0 - MinDiff - w <= First(r) - d ELSE n - MinDiff <= First(r) - d
  <2>1. First(r) = 0 => s.flag \/ Ahead(c) \in 1..MinDiff
    BY <1>1, <1>6 DEF Soon
  <2> QED
    BY <1>1, <1>2, <1>3, <1>6, <2>1
<1> QED
  BY <1>5, <1>6 DEF ArmedFor, InTime, n, d, Ahead

LEMMA PromiseUpdated ==
  ASSUME cnt \in 0..(W - 1), NEW r, Queue(r), NEW p, Updated(r, p), NEW l,
         Promise(r, l, Diff(cnt, r.last)), ~(r.list # <<>> /\ First(r) < Diff(cnt, r.last))
  PROVE  Promise(p, l, 0) /\ p.last = cnt /\ Diff(cnt, p.last) = 0
<1> DEFINE d == Diff(cnt, r.last)
<1>1. r \in Queues /\ r.list \in Seq(Timers) /\ r.last \in 0..(W - 1) /\ p.list = r.list
  BY DEF Queue, Queues, Updated
<1>2. d \in 0..(W - 1) /\ d \in Nat
  <2>1. d \in 0..(W - 1)
    BY <1>1, DiffTurn
  <2> HIDE DEF d
  <2> QED
    BY <2>1, Constants
<1>3. CASE r.list = <<>>
  <2>1. p.last = cnt /\ Len(p.list) = 0
    BY <1>1, <1>3 DEF Updated
  <2> QED
    BY <2>1, NoTurn DEF Promise
<1>4. CASE r.list # <<>>
  <2>1. d <= First(r)
    BY <1>2, <1>4, QueueFirst, HalfTurn
  <2>2. p.last = cnt /\ \A i \in 1..Len(r.list) : Offset(p, i) = Offset(r, i) - d
    BY <1>4, <2>1 DEF Updated
  <2>3. ASSUME NEW i \in 1..Len(r.list) PROVE l[p.list[i]] = Offset(p, i) - 0
    <3>1. i \in 0..Len(r.list)
      OBVIOUS
    <3>2. Offset(r, i) \in Nat
      BY <1>1, <3>1, QueueOffsets
    <3>3. l[r.list[i]] = Offset(r, i) - d /\ Offset(p, i) = Offset(r, i) - d
      BY <2>2 DEF Promise
    <3> HIDE DEF d
    <3> QED
      BY <1>1, <1>2, <3>2, <3>3
  <2> QED
    BY <1>1, <2>2, <2>3, NoTurn DEF Promise
<1> QED
  BY <1>3, <1>4

-----------------------------------------------------------------------------
(* The invariants.                                                         *)

Registers ==
  /\ cnt \in 0..(W - 1) /\ high \in 0..(H - 1) /\ overflows \in 0..(H - 1)
  /\ waited \in 0..Latency /\ flagOF \in BOOLEAN /\ disturbed \in BOOLEAN
  /\ cc \in Comparators

SleepInv ==
  /\ Registers /\ Queue(q) /\ left \in [Timers -> Int]
  /\ irq \in [at : {"idle", "loop", "callback"}, tot : 0..(W - 1), cur : 0..(W - 1)]
  /\ irq.at = "loop" => irq.cur = cnt
  /\ irq.at # "callback" => late = 0
  /\ irq.at = "idle" /\ q.list # <<>> => ArmedFor(cc, q, cnt)

(* What the head has waited since last.                                    *)
Waits == IF irq.at = "idle" THEN Diff(cnt, q.last) ELSE irq.tot + Diff(cnt, irq.cur)

Timely ==
  /\ Promise(q, left, Waits)
  /\ q.list # <<>> =>
       IF irq.at = "idle" THEN InTime(cc, q, cnt, waited)
       ELSE 0 - MinDiff - waited <= First(q) - Waits
  /\ late \in 0..(MinDiff + Latency)

TimelyInv == ~disturbed => Timely

(* The wait of the interrupt and the two ticks of the comparator are less  *)
(* than half a turn of the counter, hours at any frequency of the RTCC.    *)
Punctual == 2 * (MinDiff + Latency) < W

LEMMA InitSleep == Init => SleepInv /\ TimelyInv
<1> SUFFICES ASSUME Init PROVE SleepInv /\ TimelyInv
  OBVIOUS
<1>1. W \in Nat \ {0} /\ H \in Nat \ {0} /\ Latency \in Nat
  BY Constants
<1>2. Registers
  <2>1. 0 \in 0..(W - 1) /\ 0 \in 0..(H - 1) /\ 0 \in 0..Latency
    BY <1>1
  <2>2. cc \in Comparators
    BY <2>1 DEF Init, Comparators
  <2> QED
    BY <2>1, <2>2 DEF Init, Registers
<1>3. q \in Queues /\ q.list = <<>> /\ left \in [Timers -> Int] /\ late = 0
  BY <1>1 DEF Init, Queues
<1>4. Queue(q)
  <2>1. Len(q.list) = 0 /\ Offset(q, 0) = 0 /\ IsInjective(q.list)
    BY <1>3, QueueOffsets DEF IsInjective
  <2> QED
    BY <1>3, <2>1, HalfTurn DEF Queue
<1>5. irq \in [at : {"idle", "loop", "callback"}, tot : 0..(W - 1), cur : 0..(W - 1)] /\ irq.at = "idle"
  BY <1>1 DEF Init, Quiet
<1>6. SleepInv
  BY <1>2, <1>3, <1>4, <1>5 DEF SleepInv
<1>7. Promise(q, left, Waits)
  BY <1>3 DEF Promise
<1>8. late \in 0..(MinDiff + Latency)
  BY <1>1, <1>3 DEF MinDiff
<1> QED
  BY <1>3, <1>6, <1>7, <1>8 DEF TimelyInv, Timely

LEMMA NotListed == \A t : Runs(t) <=> ~Absent(q.list, t)
BY DEF Runs, Contains, Absent

LEMMA StartStep ==
  ASSUME SleepInv, NEW t \in Timers, NEW timeout \in Timeouts, StartTimer(t, timeout)
  PROVE  SleepInv' /\ (TimelyInv => TimelyInv')
<1> DEFINE p == update_first_timer_delta(q)
           r == delta_list_insert_timer(p, t, timeout)
<1>1. /\ irq.at = "idle" /\ ~Runs(t) /\ q' = r
      /\ cc' = IF Head(r.list) = t THEN set_comparator_for_next_timer(cc, r) ELSE cc
      /\ left' = [left EXCEPT ![t] = timeout]
      /\ disturbed' = (disturbed \/ Overdue)
      /\ cnt' = cnt /\ high' = high /\ overflows' = overflows /\ flagOF' = flagOF
      /\ irq' = irq /\ waited' = waited /\ late' = late
  BY DEF StartTimer
<1>2. /\ cnt \in 0..(W - 1) /\ cc \in Comparators /\ Queue(q) /\ left \in [Timers -> Int]
      /\ waited \in Nat /\ disturbed \in BOOLEAN
      /\ q.list # <<>> => ArmedFor(cc, q, cnt)
  BY <1>1, Constants DEF SleepInv, Registers
<1>3. Updated(q, p)
  BY <1>2, UpdatedList
<1>4. timeout \in 1..Half /\ timeout \in Nat
  <2>1. Timeouts \subseteq 1..Half
    BY TimerAssumption DEF TimerAssumption, Half
  <2> QED
    BY <2>1
<1> HIDE DEF p
<1>5. Queue(p) /\ p.list = q.list /\ Absent(p.list, t)
  BY <1>1, <1>3, NotListed DEF Updated
<1>6. Inserted(p, r, t, timeout)
  BY <1>4, <1>5, InsertedList
<1> HIDE DEF r
<1>7. /\ Queue(r) /\ r.last = p.last /\ r.list # <<>>
      /\ \/ Head(r.list) = t /\ First(r) = timeout /\ (p.list = <<>> \/ timeout < First(p))
         \/ p.list # <<>> /\ Head(r.list) # t /\ First(r) = First(p)
      /\ \A l : Promise(p, l, 0) /\ l \in [Timers -> Int] =>
           Promise(r, [l EXCEPT ![t] = timeout], 0)
  BY <1>6 DEF Inserted
<1>8. q.list # <<>> =>
        /\ ArmedFor(cc, p, cnt)
        /\ \A w \in Nat : InTime(cc, q, cnt, w) /\ ~(First(q) < Diff(cnt, q.last)) =>
             InTime(cc, p, cnt, w)
  BY <1>2, <1>3, AfterUpdate
<1>9. ASSUME Head(r.list) = t
      PROVE  /\ cc' \in Comparators /\ ArmedFor(cc', r, cnt)
             /\ \A w \in Nat : InTime(cc', r, cnt, w)
  <2>1. First(r) = timeout /\ (p.list = <<>> \/ timeout < First(p))
    BY <1>7, <1>9
  <2>2. Compared(cc, cc', r)
    BY <1>1, <1>2, <1>7, <1>9, ComparedNext
  <2>3. r.last = cnt
    <3>1. CASE q.list = <<>>
      BY <1>3, <1>7, <3>1 DEF Updated
    <3>2. CASE q.list # <<>>
      <4>1. First(p) # 0
        BY <1>4, <1>5, <2>1, <3>2
      <4>2. ~(First(q) < Diff(cnt, q.last))
        BY <1>3, <3>2, <4>1 DEF Updated
      <4>3. First(q) \in Nat /\ Diff(cnt, q.last) \in Nat
        <5>1. First(q) \in Nat
          BY <1>2, <3>2, QueueFirst, HalfTurn
        <5>2. q.last \in 0..(W - 1)
          BY <1>2 DEF Queue, Queues
        <5>3. Diff(cnt, q.last) \in 0..(W - 1)
          BY <1>2, <5>2, DiffTurn
        <5> QED
          BY <5>1, <5>3, Constants
      <4>4. Diff(cnt, q.last) <= First(q)
        BY <4>2, <4>3
      <4> QED
        BY <1>3, <1>7, <3>2, <4>4 DEF Updated
    <3> QED
      BY <3>1, <3>2
  <2>4. First(r) # 0
    BY <1>4, <2>1
  <2> QED
    BY <1>2, <1>7, <2>2, <2>3, <2>4, AfterCompare DEF Compared
<1>10. ASSUME Head(r.list) # t
       PROVE  /\ cc' = cc /\ ArmedFor(cc', r, cnt)
              /\ \A w \in Nat : InTime(cc, q, cnt, w) /\ ~(First(q) < Diff(cnt, q.last)) =>
                   InTime(cc', r, cnt, w)
  <2>1. q.list # <<>> /\ First(r) = First(p) /\ r.last = p.last /\ cc' = cc
    BY <1>1, <1>5, <1>7, <1>10
  <2> QED
    BY <1>8, <2>1 DEF ArmedFor, InTime
<1>11. SleepInv'
  <2>1. cc' \in Comparators /\ ArmedFor(cc', r, cnt)
    BY <1>2, <1>9, <1>10
  <2>2. disturbed' \in BOOLEAN
    BY <1>1, <1>2 DEF Overdue
  <2>3. Registers'
    BY <1>1, <2>1, <2>2 DEF SleepInv, Registers
  <2>4. left' \in [Timers -> Int]
    BY <1>1, <1>2, <1>4
  <2> QED
    BY <1>1, <1>7, <2>1, <2>3, <2>4 DEF SleepInv
<1>12. ASSUME TimelyInv, ~disturbed' PROVE Timely'
  <2>1. Timely /\ ~Overdue
    BY <1>1, <1>2, <1>12 DEF TimelyInv
  <2>2. ~(q.list # <<>> /\ First(q) < Diff(cnt, q.last))
    BY <2>1 DEF Overdue, First
  <2>3. Promise(q, left, Diff(cnt, q.last)) /\ (q.list # <<>> => InTime(cc, q, cnt, waited))
    BY <1>1, <2>1 DEF Timely, Waits
  <2>4. Promise(p, left, 0) /\ p.last = cnt /\ Diff(cnt, p.last) = 0
    BY <1>2, <1>3, <2>2, <2>3, PromiseUpdated
  <2>5. Promise(r, left', 0)
    BY <1>1, <1>2, <1>7, <2>4
  <2>6. Waits' = 0
    BY <1>1, <1>7, <2>4 DEF Waits
  <2>7. InTime(cc', r, cnt, waited)
    <3>1. CASE Head(r.list) = t
      BY <1>2, <1>9, <3>1
    <3>2. CASE Head(r.list) # t
      BY <1>2, <1>5, <1>7, <1>10, <2>2, <2>3, <3>2
    <3> QED
      BY <3>1, <3>2
  <2> QED
    BY <1>1, <2>1, <2>5, <2>6, <2>7 DEF Timely
<1> QED
  BY <1>11, <1>12 DEF TimelyInv

LEMMA StopStep ==
  ASSUME SleepInv, NEW t \in Timers, StopTimer(t)
  PROVE  SleepInv' /\ (TimelyInv => TimelyInv')
<1> DEFINE p == update_first_timer_delta(q)
           r == delta_list_remove_timer(p, t)
<1>1. /\ irq.at = "idle" /\ Runs(t) /\ q' = r
      /\ cc' = IF Head(q.list) = t \/ r.list = <<>> THEN ComparatorFor(cc, r) ELSE cc
      /\ left' = [left EXCEPT ![t] = 0]
      /\ disturbed' = (disturbed \/ Overdue)
      /\ cnt' = cnt /\ high' = high /\ overflows' = overflows /\ flagOF' = flagOF
      /\ irq' = irq /\ waited' = waited /\ late' = late
  BY DEF StopTimer
<1>2. /\ cnt \in 0..(W - 1) /\ cc \in Comparators /\ Queue(q) /\ left \in [Timers -> Int]
      /\ waited \in Nat /\ disturbed \in BOOLEAN
      /\ q.list # <<>> => ArmedFor(cc, q, cnt)
  BY <1>1, Constants DEF SleepInv, Registers
<1>3. Updated(q, p)
  BY <1>2, UpdatedList
<1> HIDE DEF p
<1>4. Queue(p) /\ p.list = q.list /\ ~Absent(p.list, t) /\ q.list # <<>>
  <2>1. ~Absent(q.list, t)
    BY <1>1, NotListed
  <2>2. q.list # <<>>
    BY <2>1 DEF Absent
  <2> QED
    BY <1>3, <2>1, <2>2 DEF Updated
<1>5. Removed(p, r, t)
  BY <1>4, RemovedList
<1> HIDE DEF r
<1>6. /\ Queue(r) /\ r.last = p.last
      /\ Head(q.list) = t /\ r.list # <<>> => First(p) <= First(r)
      /\ Head(q.list) # t => r.list # <<>> /\ First(r) = First(p)
      /\ \A l, d : Promise(p, l, d) /\ l \in [Timers -> Int] => Promise(r, [l EXCEPT ![t] = 0], d)
  BY <1>4, <1>5 DEF Removed
<1>7. /\ ArmedFor(cc, p, cnt) /\ (Soon(cc) \/ p.last = cnt)
      /\ \A w \in Nat : InTime(cc, q, cnt, w) /\ ~(First(q) < Diff(cnt, q.last)) =>
           InTime(cc, p, cnt, w) /\ (First(p) = 0 => Soon(cc))
  BY <1>2, <1>3, <1>4, AfterUpdate
<1>8. ASSUME Head(q.list) = t, r.list # <<>>
      PROVE  /\ cc' \in Comparators /\ ArmedFor(cc', r, cnt)
             /\ \A w \in Nat : r.last = cnt /\ (First(p) = 0 => Soon(cc)) => InTime(cc', r, cnt, w)
  <2>1. cc' = set_comparator_for_next_timer(cc, r)
    BY <1>1, <1>8 DEF ComparatorFor
  <2>2. Compared(cc, cc', r)
    BY <1>2, <1>6, <1>8, <2>1, ComparedNext
  <2>3. First(r) = 0 => First(p) = 0
    <3>1. First(p) \in Nat /\ First(r) \in Nat /\ First(p) <= First(r)
      BY <1>4, <1>6, <1>8, QueueFirst, HalfTurn
    <3> QED
      BY <3>1
  <2>4. Soon(cc) \/ r.last = cnt
    BY <1>6, <1>7
  <2> QED
    BY <1>2, <1>6, <1>8, <2>2, <2>3, <2>4, AfterCompare DEF Compared
<1>9. ASSUME Head(q.list) # t
      PROVE  /\ cc' = cc /\ ArmedFor(cc', r, cnt)
             /\ \A w \in Nat : InTime(cc, p, cnt, w) => InTime(cc', r, cnt, w)
  <2>1. First(r) = First(p) /\ r.last = p.last /\ cc' = cc
    BY <1>1, <1>6, <1>9
  <2> QED
    BY <1>7, <2>1 DEF ArmedFor, InTime
<1>10. ASSUME r.list = <<>> PROVE cc' \in Comparators
  BY <1>1, <1>2, <1>10 DEF ComparatorFor, Comparators
<1>11. SleepInv'
  <2>1. cc' \in Comparators /\ (r.list # <<>> => ArmedFor(cc', r, cnt))
    BY <1>2, <1>8, <1>9, <1>10
  <2>2. disturbed' \in BOOLEAN
    BY <1>1, <1>2 DEF Overdue
  <2>3. Registers'
    BY <1>1, <2>1, <2>2 DEF SleepInv, Registers
  <2>4. left' \in [Timers -> Int]
    BY <1>1, <1>2
  <2> QED
    BY <1>1, <1>6, <2>1, <2>3, <2>4 DEF SleepInv
<1>12. ASSUME TimelyInv, ~disturbed' PROVE Timely'
  <2>1. Timely /\ ~Overdue
    BY <1>1, <1>2, <1>12 DEF TimelyInv
  <2>2. ~(First(q) < Diff(cnt, q.last))
    BY <1>4, <2>1 DEF Overdue, First
  <2>3. Promise(q, left, Diff(cnt, q.last)) /\ InTime(cc, q, cnt, waited)
    BY <1>1, <1>4, <2>1 DEF Timely, Waits
  <2>4. Promise(p, left, 0) /\ p.last = cnt /\ Diff(cnt, p.last) = 0
    BY <1>2, <1>3, <2>2, <2>3, PromiseUpdated
  <2>5. Promise(r, left', 0)
    BY <1>1, <1>2, <1>6, <2>4
  <2>6. Waits' = 0
    BY <1>1, <1>6, <2>4 DEF Waits
  <2>7. r.list # <<>> => InTime(cc', r, cnt, waited)
    <3>1. InTime(cc, p, cnt, waited) /\ (First(p) = 0 => Soon(cc))
      BY <1>2, <1>7, <2>2, <2>3
    <3> QED
      BY <1>2, <1>6, <1>8, <1>9, <2>4, <3>1
  <2> QED
    BY <1>1, <2>1, <2>5, <2>6, <2>7 DEF Timely
<1> QED
  BY <1>11, <1>12 DEF TimelyInv

LEMMA UpdateStep ==
  ASSUME SleepInv, DeltasUpdated
  PROVE  SleepInv' /\ (TimelyInv => TimelyInv')
<1> DEFINE p == update_first_timer_delta(q)
<1>1. /\ irq.at = "idle" /\ q' = p /\ cc' = cc /\ left' = left
      /\ disturbed' = (disturbed \/ Overdue)
      /\ cnt' = cnt /\ high' = high /\ overflows' = overflows /\ flagOF' = flagOF
      /\ irq' = irq /\ waited' = waited /\ late' = late
  BY DEF DeltasUpdated
<1>2. /\ cnt \in 0..(W - 1) /\ cc \in Comparators /\ Queue(q) /\ left \in [Timers -> Int]
      /\ waited \in Nat /\ disturbed \in BOOLEAN
      /\ q.list # <<>> => ArmedFor(cc, q, cnt)
  BY <1>1, Constants DEF SleepInv, Registers
<1>3. Updated(q, p)
  BY <1>2, UpdatedList
<1> HIDE DEF p
<1>4. Queue(p) /\ p.list = q.list
  BY <1>3 DEF Updated
<1>5. ASSUME q.list # <<>>
      PROVE  /\ ArmedFor(cc, p, cnt)
             /\ \A w \in Nat : InTime(cc, q, cnt, w) /\ ~(First(q) < Diff(cnt, q.last)) =>
                  InTime(cc, p, cnt, w)
  BY <1>2, <1>3, <1>5, AfterUpdate
<1>6. SleepInv'
  <2>1. disturbed' \in BOOLEAN
    BY <1>1, <1>2 DEF Overdue
  <2>2. Registers'
    BY <1>1, <2>1 DEF SleepInv, Registers
  <2> QED
    BY <1>1, <1>4, <1>5, <2>2 DEF SleepInv
<1>7. ASSUME TimelyInv, ~disturbed' PROVE Timely'
  <2>1. Timely /\ ~Overdue
    BY <1>1, <1>2, <1>7 DEF TimelyInv
  <2>2. ~(q.list # <<>> /\ First(q) < Diff(cnt, q.last))
    BY <2>1 DEF Overdue, First
  <2>3. /\ Promise(q, left, Diff(cnt, q.last))
        /\ q.list # <<>> => InTime(cc, q, cnt, waited)
    BY <1>1, <2>1 DEF Timely, Waits
  <2>4. Promise(p, left, 0) /\ p.last = cnt /\ Diff(cnt, p.last) = 0
    BY <1>2, <1>3, <2>2, <2>3, PromiseUpdated
  <2>5. Waits' = 0
    BY <1>1, <2>4 DEF Waits
  <2>6. q.list # <<>> => InTime(cc, p, cnt, waited)
    BY <1>2, <1>5, <2>2, <2>3
  <2> QED
    BY <1>1, <1>4, <2>1, <2>4, <2>5, <2>6 DEF Timely
<1> QED
  BY <1>6, <1>7 DEF TimelyInv

LEMMA EntersStep ==
  ASSUME SleepInv, IrqEnters
  PROVE  SleepInv' /\ (TimelyInv => TimelyInv')
<1> DEFINE p == update_first_timer_delta(q)
           r == IF flagOF THEN p ELSE q
           cleared == [cc EXCEPT !.flag = FALSE]
<1>1. /\ irq.at = "idle" /\ Pending /\ q' = r
      /\ overflows' = IF flagOF THEN (overflows + 1) % H ELSE overflows
      /\ cc' = IF flagOF /\ r.list # <<>> THEN set_comparator_for_next_timer(cleared, r)
               ELSE cleared
      /\ irq' = IF cc.flag THEN [at |-> "loop", tot |-> Diff(cnt, r.last), cur |-> cnt] ELSE Quiet
      /\ flagOF' = FALSE
      /\ waited' = IF cc.flag THEN waited ELSE 0
      /\ disturbed' = (disturbed \/ (flagOF /\ Overdue))
      /\ cnt' = cnt /\ high' = high /\ left' = left /\ late' = late
  BY DEF IrqEnters
<1>2. /\ cnt \in 0..(W - 1) /\ cc \in Comparators /\ Queue(q) /\ left \in [Timers -> Int]
      /\ waited \in Nat /\ waited \in 0..Latency /\ disturbed \in BOOLEAN /\ flagOF \in BOOLEAN
      /\ cc.flag \in BOOLEAN /\ late = 0
      /\ q.list # <<>> => ArmedFor(cc, q, cnt)
  BY <1>1, Constants DEF SleepInv, Registers, Comparators
<1>3. Updated(q, p)
  BY <1>2, UpdatedList
<1>4. cleared \in Comparators /\ ~cleared.flag /\ Ahead(cleared) = Ahead(cc)
  BY <1>2 DEF Comparators, Ahead
<1> HIDE DEF p, cleared
<1>5. Queue(p) /\ p.list = q.list /\ Queue(r) /\ r.list = q.list
  BY <1>2, <1>3 DEF Updated
<1>6. q.list # <<>> =>
        /\ Soon(cc) \/ p.last = cnt
        /\ \A w \in Nat : InTime(cc, q, cnt, w) /\ ~(First(q) < Diff(cnt, q.last)) =>
             (First(p) = 0 => Soon(cc))
  BY <1>2, <1>3, AfterUpdate
<1>7. ~cc.flag => flagOF /\ r = p
  BY <1>1, <1>2 DEF Pending
<1>8. ASSUME flagOF, q.list # <<>> PROVE cc' \in Comparators /\ Compared(cleared, cc', p)
  <2>1. cc' = set_comparator_for_next_timer(cleared, p)
    BY <1>1, <1>5, <1>8
  <2> QED
    BY <1>2, <1>4, <1>5, <1>8, <2>1, ComparedNext DEF Compared
<1>9. ASSUME ~cc.flag, q.list # <<>>
      PROVE  /\ ArmedFor(cc', p, cnt)
             /\ p.last = cnt /\ (First(p) = 0 => Soon(cc)) => InTime(cc', p, cnt, 0)
  <2>1. Compared(cleared, cc', p) /\ (Soon(cc) <=> Soon(cleared))
    BY <1>2, <1>4, <1>7, <1>8, <1>9 DEF Soon
  <2> QED
    BY <1>2, <1>4, <1>5, <1>6, <1>9, <2>1, AfterCompare
<1>10. r.last \in 0..(W - 1) /\ Diff(cnt, r.last) \in 0..(W - 1)
  <2>1. r.last \in 0..(W - 1)
    BY <1>5 DEF Queue, Queues
  <2> HIDE DEF r
  <2> QED
    BY <1>2, <2>1, DiffTurn
<1> HIDE DEF r
<1>11. SleepInv'
  <2>1. cc' \in Comparators
    BY <1>1, <1>4, <1>5, <1>8
  <2>2. overflows' \in 0..(H - 1) /\ waited' \in 0..Latency /\ disturbed' \in BOOLEAN
    <3>1. overflows \in 0..(H - 1) /\ (overflows + 1) % H \in 0..(H - 1)
      BY Constants DEF SleepInv, Registers
    <3> QED
      BY <1>1, <1>2, <3>1, Constants
  <2>3. Registers'
    BY <1>1, <2>1, <2>2 DEF SleepInv, Registers
  <2>4. /\ irq' \in [at : {"idle", "loop", "callback"}, tot : 0..(W - 1), cur : 0..(W - 1)]
        /\ irq'.at # "callback" /\ (irq'.at = "loop" => irq'.cur = cnt)
        /\ irq'.at = "idle" <=> ~cc.flag
    <3>1. CASE cc.flag
      BY <1>1, <1>2, <1>10, <3>1
    <3>2. CASE ~cc.flag
      BY <1>1, <3>2, Constants DEF Quiet
    <3> QED
      BY <3>1, <3>2
  <2>5. irq'.at = "idle" /\ r.list # <<>> => ArmedFor(cc', r, cnt)
    BY <1>5, <1>7, <1>9, <2>4
  <2> QED
    BY <1>1, <1>2, <1>5, <2>3, <2>4, <2>5 DEF SleepInv
<1>12. ASSUME TimelyInv, ~disturbed' PROVE Timely'
  <2>1. Timely /\ ~(flagOF /\ Overdue)
    BY <1>1, <1>2, <1>12 DEF TimelyInv
  <2>2. flagOF => ~(q.list # <<>> /\ First(q) < Diff(cnt, q.last))
    BY <2>1 DEF Overdue, First
  <2>3. Promise(q, left, Diff(cnt, q.last)) /\ (q.list # <<>> => InTime(cc, q, cnt, waited))
    BY <1>1, <2>1 DEF Timely, Waits
  <2>4. flagOF => Promise(p, left, 0) /\ p.last = cnt /\ Diff(cnt, p.last) = 0
    BY <1>2, <1>3, <2>2, <2>3, PromiseUpdated
  <2>5. Promise(r, left, Diff(cnt, r.last))
    BY <1>2, <2>3, <2>4 DEF r
  <2>6. Waits' = Diff(cnt, r.last)
    <3>1. CASE cc.flag
      <4>1. irq'.at = "loop" /\ irq'.tot = Diff(cnt, r.last) /\ irq'.cur = cnt /\ Diff(cnt, cnt) = 0
        BY <1>1, <1>2, <3>1, NoTurn
      <4>2. Waits' = Diff(cnt, r.last) + Diff(cnt, cnt)
        BY <1>1, <4>1 DEF Waits
      <4> QED
        BY <1>10, <4>1, <4>2, Constants
    <3>2. CASE ~cc.flag
      BY <1>1, <3>2 DEF Waits, Quiet
    <3> QED
      BY <3>1, <3>2
  <2>7. ASSUME q.list # <<>>, cc.flag
        PROVE  0 - MinDiff - waited <= First(r) - Diff(cnt, r.last)
    <3>1. CASE flagOF
      <4>1. First(p) \in Nat /\ Diff(cnt, p.last) = 0 /\ r = p
        BY <1>5, <2>4, <2>7, <3>1, QueueFirst, HalfTurn DEF r
      <4> QED
        BY <1>2, <4>1 DEF MinDiff
    <3>2. CASE ~flagOF
      BY <2>3, <2>7, <3>2 DEF InTime, r
    <3> QED
      BY <1>2, <3>1, <3>2
  <2>8. ASSUME q.list # <<>>, ~cc.flag PROVE InTime(cc', r, cnt, 0)
    <3>1. r = p /\ p.last = cnt /\ ~(First(q) < Diff(cnt, q.last))
      BY <1>7, <2>2, <2>4, <2>8
    <3>2. First(p) = 0 => Soon(cc)
      BY <1>2, <1>6, <2>3, <2>8, <3>1
    <3> QED
      BY <1>9, <2>8, <3>1, <3>2
  <2>9. /\ cc.flag => irq'.at = "loop" /\ waited' = waited
        /\ ~cc.flag => irq'.at = "idle" /\ waited' = 0
    BY <1>1 DEF Quiet
  <2> QED
    BY <1>1, <1>2, <1>5, <2>1, <2>5, <2>6, <2>7, <2>8, <2>9 DEF Timely
<1> QED
  BY <1>11, <1>12 DEF TimelyInv

LEMMA FiresStep ==
  ASSUME SleepInv, IrqFires
  PROVE  SleepInv' /\ (TimelyInv => TimelyInv')
<1> DEFINE t == Head(q.list)
           p == Sooner(q, First(q), irq.cur)
           r == delta_list_remove_timer(p, t)
<1>list. q' = delta_list_remove_timer([q EXCEPT !.delta[t] = 0, !.last = irq.cur], t)
  BY DEF IrqFires
<1>left. left' = [left EXCEPT ![t] = 0]
  BY DEF IrqFires
<1>1. /\ irq.at = "loop" /\ q.list # <<>> /\ irq.tot >= First(q)
      /\ irq' = [irq EXCEPT !.at = "callback", !.tot = @ - First(q)]
      /\ late' = 0 - left[t]
      /\ cnt' = cnt /\ high' = high /\ overflows' = overflows /\ cc' = cc
      /\ flagOF' = flagOF /\ waited' = waited /\ disturbed' = disturbed
  BY DEF IrqFires, First
<1>2. /\ cnt \in 0..(W - 1) /\ Queue(q) /\ left \in [Timers -> Int] /\ Registers
      /\ irq \in [at : {"idle", "loop", "callback"}, tot : 0..(W - 1), cur : 0..(W - 1)]
      /\ irq.cur = cnt /\ irq.tot \in 0..(W - 1) /\ irq.tot \in Nat
      /\ waited \in 0..Latency
  <2>1. irq.tot \in 0..(W - 1)
    BY DEF SleepInv
  <2> QED
    BY <1>1, <2>1, Constants DEF SleepInv, Registers
<1>3. First(q) \in Nat /\ First(q) = q.delta[t] /\ q \in Queues
      /\ t = q.list[1] /\ t \in Timers /\ First(q) = Offset(q, 1) /\ Len(q.list) \in Nat
      /\ Len(q.list) >= 1
  <2>1. q \in Queues /\ q.list \in Seq(Timers)
    BY <1>2 DEF Queue, Queues
  <2> QED
    BY <1>1, <2>1, QueueHead DEF First
<1>4. q' = r
  <2>1. q.delta[t] - First(q) = 0
    BY <1>3
  <2>2. p = [q EXCEPT !.delta[t] = 0, !.last = irq.cur]
    BY <2>1 DEF Sooner
  <2> QED
    BY <1>list, <2>2
<1>5. IsSooner(q, p, First(q), irq.cur)
  <2>1. First(q) <= First(q) /\ irq.cur \in 0..(W - 1)
    BY <1>2, <1>3
  <2> QED
    BY <1>1, <1>2, <1>3, <2>1, HeadSooner
<1> HIDE DEF p
<1>6. /\ Queue(p) /\ p.list = q.list /\ First(p) = 0 /\ p.last = irq.cur
      /\ \A i \in 1..Len(q.list) : Offset(p, i) = Offset(q, i) - First(q)
  BY <1>3, <1>5 DEF IsSooner
<1>7. ~Absent(p.list, t)
  <2>1. 1 \in 1..Len(p.list)
    BY <1>3, <1>6
  <2> QED
    BY <1>3, <1>6, <2>1 DEF Absent
<1>8. Removed(p, r, t)
  BY <1>3, <1>6, <1>7, RemovedList
<1> HIDE DEF r
<1>9. /\ Queue(r) /\ (r.list # <<>> => 0 <= First(r) /\ First(r) \in Nat)
      /\ \A l, d : Promise(p, l, d) /\ l \in [Timers -> Int] => Promise(r, [l EXCEPT ![t] = 0], d)
  BY <1>6, <1>8, QueueFirst, HalfTurn DEF Removed
<1>10. /\ irq' \in [at : {"idle", "loop", "callback"}, tot : 0..(W - 1), cur : 0..(W - 1)]
       /\ irq'.at = "callback" /\ irq'.tot = irq.tot - First(q) /\ irq'.cur = cnt
  <2>1. irq.tot - First(q) \in 0..(W - 1)
    BY <1>1, <1>2, <1>3, Constants, SMTT(30)
  <2> HIDE DEF t
  <2> QED
    BY <1>1, <1>2, <2>1
<1>11. SleepInv'
  <2>1. Registers'
    BY <1>1, <1>2 DEF Registers
  <2>2. left' \in [Timers -> Int]
    <3>1. left \in [Timers -> Int] /\ t \in Timers
      BY <1>2, <1>3
    <3> HIDE DEF t
    <3> QED
      BY <1>left, <3>1
  <2> QED
    BY <1>4, <1>9, <1>10, <2>1, <2>2 DEF SleepInv
<1>12. ASSUME TimelyInv, ~disturbed' PROVE Timely'
  <2>1. Timely
    BY <1>1, <1>12 DEF TimelyInv
  <2>2. Waits = irq.tot /\ Waits' = irq.tot - First(q)
    <3>1. Diff(cnt, cnt) = 0
      BY <1>2, NoTurn
    <3>2. Waits = irq.tot + Diff(cnt, cnt) /\ Waits' = irq.tot - First(q) + Diff(cnt, cnt)
      BY <1>1, <1>2, <1>10 DEF Waits
    <3> QED
      BY <1>2, <1>3, <3>1, <3>2
  <2>3. Promise(q, left, irq.tot) /\ 0 - MinDiff - waited <= First(q) - irq.tot
    BY <1>1, <2>1, <2>2 DEF Timely
  <2>4. Promise(p, left, irq.tot - First(q))
    <3>1. ASSUME NEW i \in 1..Len(q.list)
          PROVE  left[q.list[i]] = Offset(p, i) - (irq.tot - First(q))
      <4>1. i \in 0..Len(q.list)
        OBVIOUS
      <4>2. Offset(q, i) \in Nat
        BY <1>3, <4>1, QueueOffsets
      <4>3. Offset(p, i) = Offset(q, i) - First(q) /\ left[q.list[i]] = Offset(q, i) - irq.tot
        BY <1>6, <2>3 DEF Promise
      <4> QED
        BY <1>2, <1>3, <4>2, <4>3
    <3> QED
      BY <1>6, <3>1 DEF Promise
  <2>5. Promise(r, left', irq.tot - First(q))
    BY <1>2, <1>9, <1>left, <2>4
  <2>6. late' \in 0..(MinDiff + Latency)
    <3>1. left[t] = First(q) - irq.tot
      <4>1. 1 \in 1..Len(q.list)
        BY <1>3
      <4> QED
        BY <1>3, <2>3, <4>1 DEF Promise
    <3>2. late' = irq.tot - First(q)
      BY <1>1, <1>2, <1>3, <3>1
    <3>3. /\ irq.tot >= First(q) /\ 0 - MinDiff - waited <= First(q) - irq.tot
          /\ irq.tot \in Nat /\ First(q) \in Nat /\ waited \in 0..Latency /\ Latency \in Nat
      BY <1>1, <1>2, <1>3, <2>3, Constants
    <3> QED
      BY <3>2, <3>3 DEF MinDiff
  <2>7. r.list # <<>> => 0 - MinDiff - waited <= First(r) - (irq.tot - First(q))
    BY <1>2, <1>3, <1>9, <2>3 DEF MinDiff
  <2> QED
    BY <1>1, <1>4, <1>10, <2>2, <2>5, <2>6, <2>7 DEF Timely
<1> QED
  BY <1>11, <1>12 DEF TimelyInv

LEMMA ReturnsStep ==
  ASSUME SleepInv, CallbackReturns
  PROVE  SleepInv' /\ (Punctual /\ TimelyInv => TimelyInv')
<1> DEFINE d == Diff(cnt, irq.cur)
<1>1. /\ irq.at = "callback" /\ late' = 0
      /\ irq' = [at |-> "loop", tot |-> (irq.tot + d) % W, cur |-> cnt]
      /\ cnt' = cnt /\ high' = high /\ overflows' = overflows /\ q' = q /\ cc' = cc
      /\ flagOF' = flagOF /\ waited' = waited /\ left' = left /\ disturbed' = disturbed
  BY DEF CallbackReturns
<1>2. /\ cnt \in 0..(W - 1) /\ Queue(q) /\ left \in [Timers -> Int] /\ Registers
      /\ irq.cur \in 0..(W - 1) /\ irq.tot \in 0..(W - 1) /\ waited \in 0..Latency
  BY DEF SleepInv, Registers
<1>3. d \in 0..(W - 1) /\ W \in Nat \ {0} /\ Latency \in Nat
  BY <1>2, DiffTurn, Constants
<1> HIDE DEF d
<1>4. (irq.tot + d) % W \in 0..(W - 1)
  BY <1>2, <1>3
<1>5. SleepInv'
  <2>1. Registers'
    BY <1>1, <1>2 DEF Registers
  <2>2. irq' \in [at : {"idle", "loop", "callback"}, tot : 0..(W - 1), cur : 0..(W - 1)]
    BY <1>1, <1>2, <1>4
  <2> QED
    BY <1>1, <1>2, <2>1, <2>2 DEF SleepInv
<1>6. ASSUME Punctual, TimelyInv, ~disturbed' PROVE Timely'
  <2>1. Timely /\ Waits = irq.tot + d
    BY <1>1, <1>6 DEF TimelyInv, Waits, d
  <2>2. late' \in 0..(MinDiff + Latency)
    BY <1>1, <1>3 DEF MinDiff
  <2>3. CASE q.list = <<>>
    BY <1>1, <2>2, <2>3 DEF Timely, Promise
  <2>4. CASE q.list # <<>>
    <3>1. 0 - MinDiff - waited <= First(q) - Waits /\ Promise(q, left, Waits)
      BY <1>1, <2>1, <2>4 DEF Timely
    <3>2. irq.tot + d < W
      <4>1. First(q) \in 0..Half /\ 2 * Half <= W /\ Half \in Nat
        BY <1>2, <2>4, QueueFirst, HalfTurn
      <4> QED
        BY <1>2, <1>3, <1>6, <2>1, <3>1, <4>1 DEF Punctual, MinDiff
    <3>3. irq'.tot = irq.tot + d /\ irq'.at = "loop" /\ irq'.cur = cnt
      BY <1>1, <1>2, <1>3, <3>2
    <3>4. Waits' = Waits
      <4>1. Waits' = irq'.tot + Diff(cnt, cnt) /\ Diff(cnt, cnt) = 0
        BY <1>1, <1>2, <3>3, NoTurn DEF Waits
      <4> QED
        BY <1>2, <1>3, <2>1, <3>3, <4>1
    <3> QED
      BY <1>1, <2>2, <3>1, <3>3, <3>4 DEF Timely
  <2> QED
    BY <2>3, <2>4
<1> QED
  BY <1>5, <1>6 DEF TimelyInv

LEMMA LeavesStep ==
  ASSUME SleepInv, IrqLeaves
  PROVE  SleepInv' /\ (TimelyInv => TimelyInv')
<1> DEFINE r == IF q.list = <<>> THEN q
                ELSE [q EXCEPT !.delta[Head(q.list)] = @ - irq.tot, !.last = irq.cur]
<1>1. /\ irq.at = "loop" /\ (q.list # <<>> => irq.tot < First(q))
      /\ q' = r /\ cc' = ComparatorFor(cc, r) /\ irq' = Quiet /\ waited' = 0
      /\ cnt' = cnt /\ high' = high /\ overflows' = overflows
      /\ flagOF' = flagOF /\ left' = left /\ late' = late /\ disturbed' = disturbed
  BY DEF IrqLeaves, First
<1>2. /\ cnt \in 0..(W - 1) /\ Queue(q) /\ left \in [Timers -> Int] /\ Registers
      /\ irq.cur = cnt /\ irq.tot \in 0..(W - 1) /\ irq.tot \in Nat /\ waited \in 0..Latency
      /\ cc \in Comparators /\ late = 0 /\ W \in Nat \ {0} /\ Latency \in Nat
  <2>1. irq.tot \in 0..(W - 1)
    BY DEF SleepInv
  <2> QED
    BY <1>1, <2>1, Constants DEF SleepInv, Registers
<1>3. q.list # <<>> => IsSooner(q, r, irq.tot, irq.cur) /\ First(q) \in Nat
  <2> SUFFICES ASSUME q.list # <<>>
               PROVE  IsSooner(q, r, irq.tot, irq.cur) /\ First(q) \in Nat
    OBVIOUS
  <2>1. First(q) \in Nat
    BY <1>2, QueueFirst, HalfTurn
  <2>2. irq.tot <= First(q) /\ r = Sooner(q, irq.tot, irq.cur) /\ irq.cur \in 0..(W - 1)
    BY <1>1, <1>2, <2>1 DEF Sooner
  <2> HIDE DEF r
  <2>3. IsSooner(q, r, irq.tot, irq.cur)
    BY <1>2, <2>2, HeadSooner
  <2> QED
    BY <2>1, <2>3
<1>4. q.list = <<>> => r = q
  OBVIOUS
<1> HIDE DEF r
<1>5. Queue(r) /\ r.list = q.list
      /\ (q.list # <<>> => r.last = cnt /\ First(r) = First(q) - irq.tot /\ First(r) # 0)
  <2>1. q.list # <<>> => First(q) - irq.tot # 0
    BY <1>1, <1>2, <1>3
  <2> QED
    BY <1>2, <1>3, <1>4, <2>1 DEF IsSooner
<1>6. cc' \in Comparators
      /\ (r.list # <<>> => ArmedFor(cc', r, cnt) /\ \A w \in Nat : InTime(cc', r, cnt, w))
  <2>1. CASE r.list = <<>>
    BY <1>1, <1>2, <2>1 DEF ComparatorFor, Comparators
  <2>2. CASE r.list # <<>>
    <3>1. cc' = set_comparator_for_next_timer(cc, r)
      BY <1>1, <2>2 DEF ComparatorFor
    <3>2. Compared(cc, cc', r)
      BY <1>2, <1>5, <2>2, <3>1, ComparedNext
    <3>3. r.last = cnt /\ First(r) # 0
      BY <1>5, <2>2
    <3> QED
      BY <1>2, <1>5, <2>2, <3>2, <3>3, AfterCompare DEF Compared
  <2> QED
    BY <2>1, <2>2
<1>7. irq'.at = "idle"
      /\ irq' \in [at : {"idle", "loop", "callback"}, tot : 0..(W - 1), cur : 0..(W - 1)]
  BY <1>1, <1>2 DEF Quiet
<1>8. SleepInv'
  <2>1. Registers'
    BY <1>1, <1>2, <1>6 DEF Registers
  <2> QED
    BY <1>1, <1>2, <1>5, <1>6, <1>7, <2>1 DEF SleepInv
<1>9. ASSUME TimelyInv, ~disturbed' PROVE Timely'
  <2>1. Timely
    BY <1>1, <1>9 DEF TimelyInv
  <2>2. late' \in 0..(MinDiff + Latency)
    BY <1>1, <2>1 DEF Timely
  <2>3. CASE q.list = <<>>
    BY <1>1, <1>5, <2>2, <2>3 DEF Timely, Promise
  <2>4. CASE q.list # <<>>
    <3>1. Diff(cnt, cnt) = 0
      BY <1>2, NoTurn
    <3>2. Waits = irq.tot /\ Waits' = 0
      BY <1>1, <1>2, <1>5, <1>7, <2>4, <3>1 DEF Waits
    <3>3. Promise(q, left, irq.tot)
      BY <2>1, <3>2 DEF Timely
    <3>4. Promise(r, left, 0)
      <4>1. ASSUME NEW i \in 1..Len(q.list) PROVE left[q.list[i]] = Offset(r, i) - 0
        <5>1. q \in Queues /\ i \in 0..Len(q.list)
          BY <1>2 DEF Queue
        <5>2. Offset(q, i) \in Nat
          BY <5>1, QueueOffsets
        <5>3. Offset(r, i) = Offset(q, i) - irq.tot /\ left[q.list[i]] = Offset(q, i) - irq.tot
          BY <1>3, <2>4, <3>3 DEF Promise, IsSooner
        <5> QED
          BY <1>2, <5>2, <5>3
      <4> QED
        BY <1>5, <4>1 DEF Promise
    <3> QED
      BY <1>1, <1>5, <1>6, <1>7, <2>2, <2>4, <3>2, <3>4 DEF Timely
  <2> QED
    BY <2>3, <2>4
<1> QED
  BY <1>8, <1>9 DEF TimelyInv

(* The counter, seen from a place on its circle.                           *)
LEMMA DiffNext ==
  ASSUME cnt \in 0..(W - 1), NEW b \in 0..(W - 1), NEW next,
         next = IF cnt = W - 1 THEN 0 ELSE cnt + 1
  PROVE  /\ next \in 0..(W - 1)
         /\ Diff(next, b) = IF Diff(cnt, b) = W - 1 THEN 0 ELSE Diff(cnt, b) + 1
         /\ Diff(b, next) = IF Diff(b, cnt) = 0 THEN W - 1 ELSE Diff(b, cnt) - 1
         /\ b = next <=> Diff(b, cnt) = 1
<1>1. W \in Nat \ {0} /\ W > 4 /\ next \in 0..(W - 1)
  BY Constants
<1>2. /\ Diff(cnt, b) = IF cnt < b THEN cnt - b + W ELSE cnt - b
      /\ Diff(next, b) = IF next < b THEN next - b + W ELSE next - b
      /\ Diff(b, cnt) = IF b < cnt THEN b - cnt + W ELSE b - cnt
      /\ Diff(b, next) = IF b < next THEN b - next + W ELSE b - next
  BY <1>1, DiffTurn
<1> DEFINE A == Diff(cnt, b)
           B == Diff(next, b)
           C == Diff(b, cnt)
           D == Diff(b, next)
<1>3. /\ A = IF cnt < b THEN cnt - b + W ELSE cnt - b
      /\ B = IF next < b THEN next - b + W ELSE next - b
      /\ C = IF b < cnt THEN b - cnt + W ELSE b - cnt
      /\ D = IF b < next THEN b - next + W ELSE b - next
  BY <1>2
<1> HIDE DEF A, B, C, D
<1>4. CASE cnt = W - 1
  <2>1. next = 0
    BY <1>4
  <2> QED
    BY <1>1, <1>3, <1>4, <2>1 DEF A, B, C, D
<1>5. CASE cnt # W - 1
  <2>1. next = cnt + 1
    BY <1>5
  <2> QED
    BY <1>1, <1>3, <1>5, <2>1 DEF A, B, C, D
<1> QED
  BY <1>4, <1>5

LEMMA TickStep ==
  ASSUME SleepInv, Tick
  PROVE  SleepInv' /\ (Punctual /\ TimelyInv => TimelyInv')
<1>1. /\ irq.at # "loop" /\ (Due => waited < Latency)
      /\ waited' = IF Due THEN waited + 1 ELSE 0
      /\ high' = IF cnt' = 0 THEN (high + 1) % H ELSE high
      /\ flagOF' = (flagOF \/ cnt' = 0)
      /\ disturbed' = (disturbed /\ ~(q.list = <<>> /\ irq.at = "idle"))
      /\ overflows' = overflows /\ q' = q /\ irq' = irq /\ late' = late
  BY DEF Tick
<1>2. /\ cc' = [cc EXCEPT !.flag = @ \/ (cc.on /\ cc.value = cnt')]
      /\ left' = [t \in Timers |-> IF Runs(t) THEN left[t] - 1 ELSE left[t]]
  BY DEF Tick
<1>3. /\ cnt \in 0..(W - 1) /\ high \in 0..(H - 1) /\ overflows \in 0..(H - 1)
      /\ waited \in 0..Latency /\ flagOF \in BOOLEAN /\ disturbed \in BOOLEAN
      /\ Queue(q) /\ left \in [Timers -> Int] /\ cc \in Comparators
      /\ irq.at \in {"idle", "loop", "callback"} /\ irq.tot \in 0..(W - 1) /\ irq.cur \in 0..(W - 1)
      /\ W \in Nat \ {0} /\ H \in Nat \ {0} /\ Latency \in Nat /\ MinDiff = 2
  BY Constants DEF SleepInv, Registers, MinDiff
<1>4. cc.value \in 0..(W - 1) /\ cc.on \in BOOLEAN /\ cc.flag \in BOOLEAN
  BY <1>3 DEF Comparators
<1>5. /\ cc' \in Comparators /\ cc'.value = cc.value /\ cc'.on = cc.on
      /\ cc'.flag = (cc.flag \/ (cc.on /\ cc.value = cnt'))
  <2> DEFINE f == cc.flag \/ (cc.on /\ cc.value = cnt')
  <2>1. f \in BOOLEAN
    OBVIOUS
  <2>2. cc' = [cc EXCEPT !.flag = f]
    BY <1>2
  <2> HIDE DEF f
  <2>3. /\ cc' \in Comparators /\ cc'.value = cc.value /\ cc'.on = cc.on /\ cc'.flag = f
    BY <1>3, <2>1, <2>2 DEF Comparators
  <2> QED
    BY <2>3 DEF f
<1>6. cnt' = IF cnt = W - 1 THEN 0 ELSE cnt + 1
  <2>1. cnt' = (cnt + 1) % W
    BY DEF Tick
  <2> QED
    BY <1>3, <2>1, Successor
<1>7. cnt' \in 0..(W - 1) /\ (cc.value = cnt' <=> Diff(cc.value, cnt) = 1)
      /\ Diff(cc.value, cnt') = IF Diff(cc.value, cnt) = 0 THEN W - 1 ELSE Diff(cc.value, cnt) - 1
  BY <1>3, <1>4, <1>6, DiffNext
<1>8. q.last \in 0..(W - 1)
      /\ Diff(cnt', q.last) = IF Diff(cnt, q.last) = W - 1 THEN 0 ELSE Diff(cnt, q.last) + 1
  <2>1. q.last \in 0..(W - 1)
    BY <1>3 DEF Queue, Queues
  <2> QED
    BY <1>3, <1>6, <2>1, DiffNext
<1>9. Diff(cnt', irq.cur) = IF Diff(cnt, irq.cur) = W - 1 THEN 0 ELSE Diff(cnt, irq.cur) + 1
  BY <1>3, <1>6, DiffNext
<1> DEFINE n == Diff(cc.value, cnt)
           next == Diff(cc.value, cnt')
           d == Diff(cnt, q.last)
           e == Diff(cnt, irq.cur)
<1>10. n \in 0..(W - 1) /\ d \in 0..(W - 1) /\ e \in 0..(W - 1)
  BY <1>3, <1>4, <1>8, DiffTurn
<1>11. /\ next = IF n = 0 THEN W - 1 ELSE n - 1
       /\ cc'.flag = (cc.flag \/ (cc.on /\ n = 1))
  BY <1>5, <1>7
<1>12. Diff(cnt', q.last) = IF d = W - 1 THEN 0 ELSE d + 1
  BY <1>8
<1>13. Diff(cnt', irq.cur) = IF e = W - 1 THEN 0 ELSE e + 1
  BY <1>9
<1>14. q.list # <<>> => First(q) \in 0..Half /\ First(q) \in Nat
  BY <1>3, QueueFirst, HalfTurn
<1>15. irq.at = "idle" /\ q.list # <<>> =>
         cc.on /\ (cc.flag \/ (n # 0 /\ (n <= MinDiff \/ n - 3 <= First(q) - d)))
  BY DEF SleepInv, ArmedFor
<1> HIDE DEF n, d, e, next
<1>16. ASSUME irq.at = "idle", q.list # <<>> PROVE ArmedFor(cc', q, cnt')
  <2>1. ASSUME ~cc'.flag
        PROVE  next # 0 /\ (next <= MinDiff \/ next - 3 <= First(q) - Diff(cnt', q.last))
    <3>1. next = n - 1 /\ n \notin {0, 1} /\ (n <= MinDiff \/ n - 3 <= First(q) - d)
      BY <1>11, <1>15, <1>16, <2>1
    <3>2. Diff(cnt', q.last) \in Int /\ Diff(cnt', q.last) <= d + 1
      BY <1>3, <1>10, <1>12
    <3> QED
      BY <1>3, <1>10, <1>14, <1>16, <3>1, <3>2
  <2> QED
    BY <1>5, <1>15, <1>16, <2>1 DEF ArmedFor, next
<1>17. SleepInv'
  <2>1. high' \in 0..(H - 1)
    <3>1. (high + 1) % H \in 0..(H - 1)
      BY <1>3
    <3> QED
      BY <1>1, <1>3, <3>1
  <2>2. waited' \in 0..Latency
    BY <1>1, <1>3
  <2>3. flagOF' \in BOOLEAN /\ disturbed' \in BOOLEAN
    BY <1>1
  <2>4. Registers'
    BY <1>1, <1>3, <1>5, <1>7, <2>1, <2>2, <2>3 DEF Registers
  <2>5. left' \in [Timers -> Int]
    BY <1>2, <1>3
  <2>6. irq.at # "callback" => late = 0
    BY DEF SleepInv
  <2>7. irq \in [at : {"idle", "loop", "callback"}, tot : 0..(W - 1), cur : 0..(W - 1)]
    BY DEF SleepInv
  <2> QED
    BY <1>1, <1>3, <1>16, <2>4, <2>5, <2>6, <2>7 DEF SleepInv
<1>18. ASSUME Punctual, TimelyInv, ~disturbed' PROVE Timely'
  <2>1. late' \in 0..(MinDiff + Latency)
    <3>1. CASE disturbed
      <4>1. late' = 0
        BY <1>1, <1>18, <3>1 DEF SleepInv
      <4> QED
        BY <1>3, <4>1
    <3>2. CASE ~disturbed
      BY <1>1, <1>18, <3>2 DEF TimelyInv, Timely
    <3> QED
      BY <3>1, <3>2
  <2>2. CASE q.list = <<>>
    BY <1>1, <2>1, <2>2 DEF Timely, Promise
  <2>3. CASE q.list # <<>>
    <3>1. Timely
      BY <1>1, <1>3, <1>18, <2>3 DEF TimelyInv
    <3>2. Half \in Nat /\ 2 * Half <= W /\ Half + 2 < W /\ 2 * (2 + Latency) < W
      BY <1>3, <1>18, HalfTurn DEF Punctual
    <3>3. ASSUME NEW w \in Nat, Promise(q, left, w) PROVE Promise(q, left', w + 1)
      <4>1. ASSUME NEW i \in 1..Len(q.list)
            PROVE  left'[q.list[i]] = Offset(q, i) - (w + 1)
        <5>1. Runs(q.list[i])
          BY DEF Runs, Contains
        <5>2. q \in Queues /\ q.list[i] \in Timers /\ i \in 0..Len(q.list)
          BY <1>3 DEF Queue, Queues
        <5>3. left'[q.list[i]] = left[q.list[i]] - 1
          BY <1>2, <5>1, <5>2
        <5>4. Offset(q, i) \in Nat /\ left[q.list[i]] = Offset(q, i) - w
          BY <3>3, <5>2, QueueOffsets DEF Promise
        <5> QED
          BY <5>3, <5>4
      <4> QED
        BY <4>1 DEF Promise
    <3>4. CASE irq.at = "idle"
      <4>1. /\ Waits = d /\ Waits' = Diff(cnt', q.last)
        BY <1>1, <3>4 DEF Waits, d
      <4>2. IF cc.flag THEN 0 - MinDiff - waited <= First(q) - d ELSE n - MinDiff <= First(q) - d
        BY <2>3, <3>1, <3>4 DEF Timely, InTime, n, d
      <4>3. cc.flag => Due
        BY <1>15, <2>3, <3>4 DEF Due, Pending
      <4>4. d # W - 1
        <5>1. CASE cc.flag
          <6>1. waited < Latency
            BY <1>1, <4>3, <5>1
          <6> QED
            BY <1>3, <1>10, <1>14, <2>3, <3>2, <4>2, <5>1, <6>1
        <5>2. CASE ~cc.flag
          <6>1. n # 0
            BY <1>15, <2>3, <3>4, <5>2
          <6> QED
            BY <1>3, <1>10, <1>14, <2>3, <3>2, <4>2, <5>2, <6>1
        <5> QED
          BY <5>1, <5>2
      <4>5. Waits' = d + 1 /\ Diff(cnt', q.last) = d + 1
        BY <1>12, <4>1, <4>4
      <4>6. Promise(q, left', Waits')
        <5>1. Promise(q, left, d) /\ d \in Nat
          BY <1>3, <1>10, <3>1, <4>1 DEF Timely
        <5> QED
          BY <3>3, <4>5, <5>1
      <4>7. InTime(cc', q, cnt', waited')
        <5>1. IF cc'.flag THEN 0 - MinDiff - waited' <= First(q) - (d + 1)
              ELSE next - MinDiff <= First(q) - (d + 1)
          <6>1. CASE cc.flag
            <7>1. waited' = waited + 1 /\ cc'.flag
              BY <1>1, <1>11, <4>3, <6>1
            <7> QED
              BY <1>3, <1>10, <1>14, <2>3, <4>2, <6>1, <7>1
          <6>2. CASE ~cc.flag
            <7>1. n # 0 /\ next = n - 1 /\ (cc'.flag => n = 1)
              BY <1>11, <1>15, <2>3, <3>4, <6>2
            <7>2. waited' \in Nat
              BY <1>1, <1>3
            <7> QED
              BY <1>3, <1>10, <1>14, <2>3, <4>2, <6>2, <7>1, <7>2
          <6> QED
            BY <6>1, <6>2
        <5> QED
          BY <1>5, <4>5, <5>1 DEF InTime, next
      <4> QED
        BY <1>1, <2>1, <3>4, <4>6, <4>7 DEF Timely
    <3>5. CASE irq.at # "idle"
      <4>1. Waits = irq.tot + e /\ Waits' = irq.tot + Diff(cnt', irq.cur)
        BY <1>1, <3>5 DEF Waits, e
      <4>2. 0 - MinDiff - waited <= First(q) - (irq.tot + e) /\ Promise(q, left, irq.tot + e)
        BY <2>3, <3>1, <3>5, <4>1 DEF Timely
      <4>3. waited < Latency /\ waited' = waited + 1
        BY <1>1, <3>5 DEF Due
      <4>4. e # W - 1
        BY <1>3, <1>10, <1>14, <2>3, <3>2, <4>2, <4>3
      <4>5. Waits' = irq.tot + e + 1 /\ irq.tot + e \in Nat
        BY <1>3, <1>10, <1>13, <4>1, <4>4
      <4>6. Promise(q, left', Waits')
        <5> DEFINE w == irq.tot + e
        <5>1. w \in Nat /\ Promise(q, left, w) /\ Waits' = w + 1
          BY <4>2, <4>5
        <5> HIDE DEF w
        <5> QED
          BY <3>3, <5>1
      <4>7. 0 - MinDiff - waited' <= First(q) - Waits'
        BY <1>3, <1>10, <1>14, <2>3, <4>2, <4>3, <4>5, SMTT(30)
      <4> QED
        BY <1>1, <2>1, <3>5, <4>6, <4>7 DEF Timely
    <3> QED
      BY <3>4, <3>5
  <2> QED
    BY <2>2, <2>3
<1> QED
  BY <1>17, <1>18 DEF TimelyInv

-----------------------------------------------------------------------------
LEMMA SleepStep ==
  SleepInv /\ [Next]_vars => SleepInv' /\ (Punctual /\ TimelyInv => TimelyInv')
<1> SUFFICES ASSUME SleepInv, [Next]_vars
             PROVE  SleepInv' /\ (Punctual /\ TimelyInv => TimelyInv')
  OBVIOUS
<1>1. CASE Tick
  BY <1>1, TickStep
<1>2. CASE IrqEnters
  BY <1>2, EntersStep
<1>3. CASE IrqFires
  BY <1>3, FiresStep
<1>4. CASE CallbackReturns
  BY <1>4, ReturnsStep
<1>5. CASE IrqLeaves
  BY <1>5, LeavesStep
<1>6. CASE \E t \in Timers : StopTimer(t)
  BY <1>6, StopStep
<1>7. CASE \E t \in Timers : \E timeout \in Timeouts : StartTimer(t, timeout)
  BY <1>7, StartStep
<1>8. CASE DeltasUpdated
  BY <1>8, UpdateStep
<1>9. CASE UNCHANGED vars
  <2>1. SleepInv'
    BY <1>9 DEF vars, SleepInv, Registers
  <2>2. TimelyInv => TimelyInv'
    BY <1>9 DEF vars, TimelyInv, Timely, Waits
  <2> QED
    BY <2>1, <2>2
<1> QED
  BY <1>1, <1>2, <1>3, <1>4, <1>5, <1>6, <1>7, <1>8, <1>9 DEF Next

LEMMA SleepTyped == SleepInv => TypeOK
<1> SUFFICES ASSUME SleepInv PROVE TypeOK
  OBVIOUS
<1>1. /\ q.list \in Seq(Timers) /\ IsInjective(q.list)
      /\ q.delta \in [Timers -> 0..(W - 1)] /\ q.last \in 0..(W - 1)
  BY DEF SleepInv, Queue, Queues
<1>2. Range(q.list) \subseteq Timers
  BY <1>1 DEF Range
<1>3. irq.at \in {"idle", "loop", "callback"} /\ irq.tot \in 0..(W - 1)
  BY DEF SleepInv
<1> QED
  BY <1>1, <1>2, <1>3 DEF SleepInv, Registers, Comparators, TypeOK

LEMMA SleepArmed == SleepInv => Armed
<1> SUFFICES ASSUME SleepInv, irq.at = "idle", q.list # <<>>
             PROVE  /\ cc.on
                    /\ \/ cc.flag
                       \/ \E n \in 1..(W - 1) :
                            /\ Diff(cc.value, cnt) = n
                            /\ n <= MinDiff \/ n - 3 <= First(q) - Diff(cnt, q.last)
  BY DEF Armed, First
<1>1. ArmedFor(cc, q, cnt) /\ cnt \in 0..(W - 1) /\ cc.value \in 0..(W - 1)
  BY DEF SleepInv, Registers, Comparators
<1>2. Diff(cc.value, cnt) \in 0..(W - 1)
  BY <1>1, DiffTurn
<1>3. Diff(cc.value, cnt) # 0 => Diff(cc.value, cnt) \in 1..(W - 1)
  BY <1>2, Constants
<1> QED
  BY <1>1, <1>3 DEF ArmedFor

LEMMA SleepOnTime == SleepInv /\ TimelyInv => OnTime
<1> SUFFICES ASSUME SleepInv, Timely
             PROVE  /\ late \in 0..(MinDiff + Latency)
                    /\ \A t \in Timers : Runs(t) => left[t] >= 0 - (MinDiff + Latency)
  BY DEF TimelyInv, OnTime
<1>1. late \in 0..(MinDiff + Latency)
  BY DEF Timely
<1>2. ASSUME NEW t \in Timers, Runs(t) PROVE left[t] >= 0 - (MinDiff + Latency)
  <2>1. PICK i \in 1..Len(q.list) : q.list[i] = t
    BY <1>2 DEF Runs, Contains
  <2>2. /\ Queue(q) /\ q \in Queues /\ q.list # <<>> /\ Len(q.list) \in Nat /\ cc \in Comparators
        /\ cnt \in 0..(W - 1) /\ waited \in 0..Latency /\ Latency \in Nat /\ q.last \in 0..(W - 1)
        /\ irq.at = "idle" => ArmedFor(cc, q, cnt)
        /\ irq.tot \in 0..(W - 1) /\ irq.cur \in 0..(W - 1)
    BY <2>1, Constants, SMTT(30) DEF SleepInv, Registers, Queue, Queues
  <2>3. /\ Diff(cnt, q.last) \in 0..(W - 1) /\ Diff(cc.value, cnt) \in 0..(W - 1)
        /\ Diff(cnt, irq.cur) \in 0..(W - 1)
    BY <2>2, DiffTurn DEF Comparators
  <2>4. Waits \in Nat
    BY <2>2, <2>3, Constants DEF Waits
  <2>5. Offset(q, i) \in Nat /\ First(q) <= Offset(q, i) /\ First(q) \in Nat
    <3>1. 1 \in 0..Len(q.list) /\ i \in 0..Len(q.list) /\ 1 <= i
      BY <2>2
    <3>2. First(q) = Offset(q, 1)
      BY <2>2, QueueHead
    <3> QED
      BY <2>2, <3>1, <3>2, QueueOffsets
  <2>6. left[t] = Offset(q, i) - Waits
    BY <2>1 DEF Timely, Promise
  <2>7. 0 - MinDiff - waited <= First(q) - Waits
    <3>1. CASE irq.at = "idle"
      <4>1. Waits = Diff(cnt, q.last) /\ InTime(cc, q, cnt, waited)
        BY <2>2, <3>1 DEF Timely, Waits
      <4>2. CASE cc.flag
        BY <4>1, <4>2 DEF InTime
      <4>3. CASE ~cc.flag
        <5>1. Diff(cc.value, cnt) - MinDiff <= First(q) - Waits
          BY <4>1, <4>3 DEF InTime
        <5> QED
          BY <2>2, <2>3, <2>4, <2>5, <5>1, Constants DEF MinDiff
      <4> QED
        BY <4>2, <4>3
    <3>2. CASE irq.at # "idle"
      BY <2>2, <3>2 DEF Timely
    <3> QED
      BY <3>1, <3>2
  <2> QED
    BY <2>2, <2>4, <2>5, <2>6, <2>7 DEF MinDiff
<1> QED
  BY <1>1, <1>2

(* The list holds every timer at most once and its deltas never leave      *)
(* their width, however timers are started, stopped and fired: whatever    *)
(* the interrupt's wait.                                                   *)
THEOREM SleepTypeCorrect == Spec => []TypeOK
<1>1. Init => SleepInv
  BY InitSleep
<1>2. SleepInv /\ [Next]_vars => SleepInv'
  BY SleepStep
<1> QED
  BY <1>1, <1>2, SleepTyped, PTL DEF Spec

(* No timer is forgotten: outside the interrupt, the comparator is set     *)
(* whenever a timer runs, to be reached within two ticks or no more than 3 *)
(* ticks after the first of them is due; sleeptimer_hal_set_compare leaves it alone only when it is about   *)
(* to fire, and an overdue head finds it so.                               *)
THEOREM TimersArmed == Spec => []Armed
<1>1. Init => SleepInv
  BY InitSleep
<1>2. SleepInv /\ [Next]_vars => SleepInv'
  BY SleepStep
<1> QED
  BY <1>1, <1>2, SleepArmed, PTL DEF Spec

(* Every timer is on time, however others are inserted before it and       *)
(* removed: by the two ticks of the comparator and the wait of the         *)
(* interrupt, as long as no update of the deltas finds the head overdue.   *)
THEOREM TimersOnTime ==
  ASSUME Punctual
  PROVE  Spec => []OnTime
<1>1. Init => SleepInv /\ TimelyInv
  BY InitSleep
<1>2. (SleepInv /\ TimelyInv) /\ [Next]_vars => (SleepInv /\ TimelyInv)'
  BY SleepStep
<1>3. SleepInv /\ TimelyInv => OnTime
  BY SleepOnTime
<1> QED
  BY <1>1, <1>2, <1>3, PTL DEF Spec
=============================================================================
