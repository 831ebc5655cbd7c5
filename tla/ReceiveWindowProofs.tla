------------------------ MODULE ReceiveWindowProofs ------------------------
(***************************************************************************)
(* The receive window opens on time and lasts, for every offset, window,   *)
(* clock and preemption.  The invariant bounds the moment at which the     *)
(* timer will underflow, Ends, from what was loaded and when:    *)
(* the truncation of Match and the phase of the clock at the load each     *)
(* cost less than a tick.  A wait whose interrupt came before              *)
(* leTimerRunning was set never ends: NoVainWait excludes it, unless other *)
(* tasks hold the processor for the whole of a delay.                      *)
(***************************************************************************)
EXTENDS ReceiveWindow, TLAPS

(* Microseconds until the timer underflows.                                *)
Left == (timer + 1) * UsPerTick - phase

(* When it will, since the transmission began.                             *)
Ends == elapsed + Left

(* Who may be running, and when the flag may be set.                       *)
TimerInv ==
  /\ uf => timer = -1
  /\ pc \in {"send", "loadOffset", "loadWindow"} => timer = -1 /\ ~uf /\ ~running
  /\ pc \in {"markOffset", "markWindow"} => ~running
  /\ pc \in {"waitOffset", "startRx", "waitWindow"} /\ ~running => timer = -1 /\ ~uf

(* t is RxOffset to within a tick and the time s stolen.                   *)
Within(t, s) == t > RxOffset - UsPerTick /\ t <= RxOffset + UsPerTick + s

InTime(t) == Within(t, stolen)

Over == timer = -1 /\ (uf \/ ~running)

OffsetInv ==
  /\ pc = "loadOffset" => elapsed >= RxOffset - delay /\ elapsed <= RxOffset - delay + stolen
  /\ pc \in {"markOffset", "waitOffset"} /\ timer >= 0 => InTime(Ends)
  /\ pc \in {"markOffset", "waitOffset"} /\ Over => InTime(elapsed)
  /\ pc \in {"loadWindow", "markWindow", "startRx"} => InTime(elapsed)
  /\ pc = "waitWindow" => InTime(opened)

(* Listening for t is long enough when s was stolen; the window ends at t  *)
(* at the latest, long before elapsed saturates.                           *)
Lasts(t, s) == t + s > RxWindow - UsPerTick
Soon(t, s) == t <= RxOffset + RxWindow + 2 * UsPerTick + s

ListeningInv ==
  /\ pc \in {"markWindow", "startRx"} /\ timer >= 0 =>
       Lasts(Left, stolen) /\ Soon(Ends, stolen)
  /\ pc \in {"markWindow", "startRx"} /\ timer = -1 => Lasts(0, stolen)
  /\ pc = "waitWindow" /\ timer >= 0 =>
       Lasts(Ends - opened, stolen) /\ Soon(Ends, stolen)
  /\ pc = "waitWindow" /\ Over => Lasts(elapsed - opened, stolen)
  /\ closed # 0 => pc = "send" /\ closed - opened > RxWindow - UsPerTick - stolen

WindowInv == TypeOK /\ TimerInv /\ OffsetInv /\ ListeningInv

-----------------------------------------------------------------------------
(* Arithmetic.                                                             *)

(* A tick lasts a whole number of microseconds.                            *)
LEMMA TickLasts == UsPerTick \in Nat \ {0} /\ Den = Num * UsPerTick
  BY WindowAssumption DEF WindowAssumption, UsPerTick

(* Euclidean division, and the order it is compared in.                    *)
LEMMA Quotient ==
  ASSUME NEW a \in Nat, NEW b \in Nat \ {0}
  PROVE  a \div b \in Nat /\ (a \div b) * b <= a /\ a < (a \div b) * b + b
  OBVIOUS

LEMMA Smaller ==
  ASSUME NEW a \in Int, NEW b \in Int, NEW n \in Nat \ {0}, n * a <= n * b
  PROVE  a <= b
  OBVIOUS

LEMMA StrictlySmaller ==
  ASSUME NEW a \in Int, NEW b \in Int, NEW n \in Nat \ {0}, n * a < n * b
  PROVE  a < b
  OBVIOUS

(* The ticks loaded for a delay are those that fit into it.                *)
LEMMA Truncates ==
  ASSUME NEW us \in Nat, us * Num < Word
  PROVE  /\ Match(us) \in Nat
         /\ Match(us) * UsPerTick <= us
         /\ us < Match(us) * UsPerTick + UsPerTick
<1> DEFINE q == (us * Num) \div Den
<1>1. Num \in Nat \ {0} /\ Den \in Nat \ {0} /\ us * Num \in Nat
  BY WindowAssumption DEF WindowAssumption
<1>2. UsPerTick \in Nat \ {0} /\ Den = Num * UsPerTick
  BY TickLasts
<1>3. Match(us) = q
  <2>1. (us * Num) % Word = us * Num
    BY <1>1, WindowAssumption DEF WindowAssumption
  <2>2. QED BY <2>1 DEF Match
<1>4. q \in Nat /\ q * Den <= us * Num /\ us * Num < q * Den + Den
  BY <1>1, Quotient
<1> HIDE DEF q
<1>5. q * UsPerTick \in Nat /\ q * UsPerTick + UsPerTick \in Nat
  BY <1>2, <1>4
<1>6. q * UsPerTick <= us
  <2>1. Num * (q * UsPerTick) = q * Den
    BY <1>1, <1>2, <1>4
  <2>2. Num * (q * UsPerTick) <= Num * us
    BY <1>1, <1>4, <2>1
  <2>3. QED BY <1>1, <1>5, <2>2, Smaller
<1>7. us < q * UsPerTick + UsPerTick
  <2>1. Num * (q * UsPerTick + UsPerTick) = q * Den + Den
    BY <1>1, <1>2, <1>4
  <2>2. Num * us < Num * (q * UsPerTick + UsPerTick)
    BY <1>1, <1>4, <2>1
  <2>3. QED BY <1>1, <1>5, <2>2, StrictlySmaller
<1>8. QED BY <1>3, <1>4, <1>6, <1>7

(* So a timer that was loaded is within the bounds of TypeOK.              *)
LEMMA LoadedTicks ==
  ASSUME NEW us \in Nat, NEW max \in Nat, us <= max, us * Num < Word
  PROVE  Match(us) \in Nat /\ Match(us) <= max \div UsPerTick
<1> DEFINE t == Match(us)
           d == max \div UsPerTick
<1>1. UsPerTick \in Nat \ {0}
  BY TickLasts
<1>2. t \in Nat /\ t * UsPerTick <= us
  BY Truncates
<1>3. d \in Nat /\ max < d * UsPerTick + UsPerTick
  BY <1>1, Quotient
<1> HIDE DEF t, d
<1>4. t * UsPerTick \in Nat /\ d * UsPerTick \in Nat
  BY <1>1, <1>2, <1>3
<1>5. UsPerTick * t < UsPerTick * (d + 1)
  BY <1>1, <1>2, <1>3, <1>4
<1>6. t < d + 1
  BY <1>1, <1>2, <1>3, <1>5, StrictlySmaller
<1>7. QED BY <1>2, <1>3, <1>6 DEF t, d

(* Left, just after a load: as long as the delay, but for a tick.          *)
LEMMA LeftAtLoad ==
  ASSUME NEW us \in Nat, us * Num < Word, NEW t, t = Match(us),
         NEW p \in 0..(UsPerTick - 1)
  PROVE  /\ (t + 1) * UsPerTick - p > us - UsPerTick
         /\ (t + 1) * UsPerTick - p <= us + UsPerTick
<1>1. UsPerTick \in Nat \ {0}
  BY TickLasts
<1>2. t \in Nat /\ t * UsPerTick <= us /\ us < t * UsPerTick + UsPerTick
  BY Truncates
<1>3. t * UsPerTick \in Nat /\ (t + 1) * UsPerTick = t * UsPerTick + UsPerTick
  BY <1>1, <1>2
<1>4. QED BY <1>1, <1>2, <1>3

(* The constants, in the form the steps need.                             *)
LEMMA Constants ==
  /\ RxOffset \in Nat /\ RxWindow \in Nat /\ UsPerTick \in Nat \ {0}
  /\ MaxStolen \in Nat /\ MaxTx \in 0..RxOffset
  /\ Cap \in Nat /\ Cap > RxOffset + RxWindow + MaxStolen + 2 * UsPerTick
  BY TickLasts, WindowAssumption DEF WindowAssumption

(* More time stolen only widens the tolerances.                            *)
LEMMA Tolerant ==
  \A t, t2, s, s2 \in Int : t2 = t /\ s <= s2 =>
    /\ Within(t, s) => Within(t2, s2)
    /\ Lasts(t, s) => Lasts(t2, s2)
    /\ Soon(t, s) => Soon(t2, s2)
<1> SUFFICES ASSUME NEW t \in Int, NEW t2 \in Int, NEW s \in Int, NEW s2 \in Int,
                    t2 = t, s <= s2
             PROVE  /\ Within(t, s) => Within(t2, s2)
                    /\ Lasts(t, s) => Lasts(t2, s2)
                    /\ Soon(t, s) => Soon(t2, s2)
  OBVIOUS
<1> QED BY Constants DEF Within, Lasts, Soon

(* Time since an instant grows with time.                                  *)
LEMMA Apart ==
  \A a, b, o, o2 \in Int :
    o2 = o => /\ a - o \in Int /\ b - o2 \in Int
              /\ a <= b => a - o <= b - o2
              /\ b = a => b - o2 = a - o
  OBVIOUS

(* And so does more time listened.                                         *)
LEMMA Longer ==
  \A t, t2, s, s2 \in Int : t <= t2 /\ s <= s2 /\ Lasts(t, s) => Lasts(t2, s2)
<1> SUFFICES ASSUME NEW t \in Int, NEW t2 \in Int, NEW s \in Int, NEW s2 \in Int,
                    t <= t2, s <= s2, Lasts(t, s)
             PROVE  Lasts(t2, s2)
  OBVIOUS
<1> QED BY Constants DEF Lasts

(* Left counts down, one by one, until the flag is set.                    *)
LEMMA CountsDown ==
  ASSUME TypeOK, timer >= 0,
         phase' = (phase + 1) % UsPerTick,
         timer' = IF timer >= 0 /\ phase' = 0 THEN timer - 1 ELSE timer
  PROVE  /\ Left \in Nat \ {0} /\ Left' = Left - 1
         /\ (timer' = -1 <=> timer = 0 /\ phase' = 0)
         /\ (timer' = -1 => Left = 1)
         /\ phase' \in 0..(UsPerTick - 1)
<1>1. UsPerTick \in Nat \ {0} /\ timer \in Nat /\ phase \in 0..(UsPerTick - 1)
  <2>1. UsPerTick \in Nat \ {0}
    BY TickLasts
  <2>2. timer \in Int /\ phase \in 0..(UsPerTick - 1)
    BY <2>1, WindowAssumption, Quotient DEF TypeOK, WindowAssumption
  <2>3. QED BY <2>1, <2>2
<1>2. timer * UsPerTick \in Nat /\ (timer + 1) * UsPerTick = timer * UsPerTick + UsPerTick
  BY <1>1
<1>3. CASE phase = UsPerTick - 1
  <2>1. phase' = 0
    BY <1>1, <1>3
  <2>2. timer' = timer - 1
    BY <1>1, <2>1
  <2>3. Left' = timer * UsPerTick
    BY <1>1, <2>1, <2>2 DEF Left
  <2>4. Left = timer * UsPerTick + 1
    BY <1>1, <1>2, <1>3 DEF Left
  <2>5. QED BY <1>1, <1>2, <2>1, <2>2, <2>3, <2>4
<1>4. CASE phase # UsPerTick - 1
  <2>1. phase' = phase + 1 /\ phase' # 0
    BY <1>1, <1>4
  <2>2. timer' = timer
    BY <2>1
  <2>3. Left' = Left - 1 /\ Left \in Nat \ {0}
    BY <1>1, <1>2, <1>4, <2>1, <2>2 DEF Left
  <2>4. QED BY <1>1, <2>1, <2>2, <2>3
<1>5. QED BY <1>3, <1>4

-----------------------------------------------------------------------------
(* The invariant.                                                          *)

(* The ranges TypeOK gives, and that Left is a number.                     *)
LEMMA Ranges ==
  ASSUME TypeOK
  PROVE  /\ elapsed \in Nat /\ elapsed <= Cap /\ phase \in 0..(UsPerTick - 1)
         /\ delay \in 0..RxOffset /\ timer \in Int /\ timer >= -1
         /\ stolen \in 0..MaxStolen /\ opened \in Nat /\ closed \in Nat
         /\ Left \in Int
<1>1. timer \in Int /\ timer >= -1
  BY Constants, Quotient DEF TypeOK
<1>2. phase \in 0..(UsPerTick - 1)
  BY DEF TypeOK
<1>3. (timer + 1) * UsPerTick \in Int
  BY <1>1, Constants
<1>4. Left \in Int
  BY <1>2, <1>3, Constants DEF Left
<1>5. QED BY <1>1, <1>2, <1>4, Constants DEF TypeOK

(* It holds initially.                                                     *)
LEMMA InitInv == Init => WindowInv
<1> SUFFICES ASSUME Init PROVE WindowInv
  OBVIOUS
<1>1. RxOffset \div UsPerTick \in Nat
  BY Constants, Quotient
<1>2. TypeOK
  <2>1. phase \in 0..(UsPerTick - 1) /\ timer = -1 /\ -1 \in -1..(RxOffset \div UsPerTick)
    BY <1>1, Constants DEF Init
  <2>2. 0 \in 0..Cap /\ 0 \in 0..RxOffset /\ 0 \in 0..MaxStolen
    BY Constants
  <2>3. QED BY <2>1, <2>2 DEF Init, TypeOK, PCs
<1>3. QED BY <1>2, Constants
  DEF Init, WindowInv, TimerInv, OffsetInv, ListeningInv, Over

(* A microsecond passes.                                                   *)
LEMMA TickKeeps == WindowInv /\ Tick => WindowInv'
<1> SUFFICES ASSUME WindowInv, Tick PROVE WindowInv'
  OBVIOUS
<1>1. /\ TypeOK /\ TimerInv /\ OffsetInv /\ ListeningInv
      /\ elapsed \in Nat /\ elapsed <= Cap /\ phase \in 0..(UsPerTick - 1)
      /\ delay \in 0..RxOffset /\ timer \in Int /\ timer >= -1
      /\ stolen \in 0..MaxStolen /\ opened \in Nat /\ closed \in Nat /\ Left \in Int
  BY Ranges DEF WindowInv
<1>2. /\ ~uf /\ pc # "send" /\ UNCHANGED <<pc, delay, running, opened, closed>>
      /\ phase' = (phase + 1) % UsPerTick
      /\ timer' = IF timer >= 0 /\ phase' = 0 THEN timer - 1 ELSE timer
      /\ uf' = (timer = 0 /\ phase' = 0)
      /\ elapsed' = IF elapsed + 1 > Cap THEN Cap ELSE elapsed + 1
  BY DEF Tick, Capped
<1>3. \/ Spinning /\ stolen' = stolen
      \/ ~Spinning /\ stolen' = stolen + 1 /\ stolen < MaxStolen
  BY DEF Tick
<1>4. /\ elapsed' \in Nat /\ elapsed' <= Cap /\ elapsed <= elapsed' /\ elapsed' <= elapsed + 1
      /\ stolen' \in 0..MaxStolen /\ stolen <= stolen'
  BY <1>1, <1>2, <1>3, Constants
<1>5. phase' \in 0..(UsPerTick - 1)
  BY <1>1, <1>2, Constants
<1>6. /\ elapsed \in Int /\ elapsed' \in Int /\ opened \in Int /\ opened' \in Int /\ Left \in Int
      /\ stolen \in Int /\ stolen' \in Int /\ stolen <= stolen' /\ elapsed <= elapsed'
      /\ opened' <= opened /\ opened <= opened'
      /\ RxOffset \in Int /\ RxWindow \in Int /\ UsPerTick \in Int
  BY <1>1, <1>2, <1>4, Constants
<1>7. CASE timer >= 0
  <2>1. /\ Left \in Nat \ {0} /\ Left' = Left - 1
        /\ timer' = -1 <=> uf'
        /\ timer' = -1 => Left = 1
    BY <1>1, <1>2, <1>7, CountsDown
  <2>2. timer' \in Int /\ timer' >= -1 /\ timer' <= timer
    BY <1>1, <1>2, <1>7
  <2>3. TypeOK'
    <3>1. timer' \in -1..(RxOffset \div UsPerTick) \/ timer' \in -1..(RxWindow \div UsPerTick)
      BY <1>1, <2>2, Constants, Quotient DEF TypeOK
    <3>2. QED BY <1>1, <1>2, <1>4, <1>5, <3>1 DEF TypeOK
  <2>4. pc \notin {"send", "loadOffset", "loadWindow"}
    BY <1>1, <1>7 DEF TimerInv
  <2>5. TimerInv'
    BY <1>1, <1>2, <1>7, <2>1, <2>4 DEF TimerInv
  <2>6. CASE pc \in {"markOffset", "waitOffset"}
    <3>1. InTime(Ends)
      BY <1>1, <1>7, <2>6 DEF OffsetInv
    <3>2. Ends <= RxOffset + UsPerTick + stolen /\ Ends > RxOffset - UsPerTick
      BY <3>1 DEF InTime, Within
    <3>3. elapsed' = elapsed + 1
      BY <1>1, <1>2, <2>1, <3>2, Constants DEF Ends
    <3>4. Ends' = Ends
      BY <1>1, <2>1, <3>3 DEF Ends
    <3>5. InTime(Ends)' /\ (timer' = -1 => InTime(elapsed)')
      <4>1. Ends \in Int /\ Ends' \in Int
        BY <1>6, <3>4 DEF Ends
      <4>2. InTime(Ends)'
        BY <1>6, <3>1, <3>4, <4>1, Tolerant DEF InTime
      <4>3. ASSUME timer' = -1 PROVE InTime(elapsed)'
        <5>1. elapsed' = Ends
          BY <2>1, <3>3, <4>3 DEF Ends
        <5>2. QED BY <1>6, <3>1, <4>1, <5>1, Tolerant DEF InTime
      <4>4. QED BY <4>2, <4>3
    <3>6. OffsetInv'
      BY <1>2, <2>6, <3>5 DEF OffsetInv, Over
    <3>7. ListeningInv'
      BY <1>1, <1>2, <2>6 DEF ListeningInv
    <3>8. QED BY <2>3, <2>5, <3>6, <3>7 DEF WindowInv
  <2>7. CASE pc \in {"markWindow", "startRx"}
    <3>1. ~Spinning
      BY <2>7 DEF Spinning
    <3>2. stolen' = stolen + 1
      BY <1>3, <3>1
    <3>3. /\ Lasts(Left, stolen) /\ Soon(Ends, stolen)
          /\ Left + stolen > RxWindow - UsPerTick
      BY <1>1, <1>7, <2>7 DEF ListeningInv, Lasts
    <3>4. elapsed' = elapsed + 1
      BY <1>1, <1>2, <2>1, <3>3, Constants DEF Soon, Ends
    <3>5. InTime(elapsed)'
      BY <1>1, <2>7, <3>2, <3>4, Constants DEF OffsetInv, InTime, Within
    <3>6. OffsetInv'
      BY <1>2, <2>7, <3>5 DEF OffsetInv
    <3>7. Lasts(Left, stolen)' /\ (timer' = -1 => Lasts(0, stolen'))
      BY <1>1, <2>1, <3>2, <3>3, Constants DEF Lasts
    <3>10. Soon(Ends, stolen)'
      <4>1. /\ Ends' = Ends
            /\ Ends \in Int /\ Ends' \in Int
        BY <1>1, <2>1, <3>4 DEF Ends
      <4>2. QED BY <1>6, <3>3, <4>1, Tolerant
    <3>8. ListeningInv'
      BY <1>1, <1>2, <2>7, <3>7, <3>10 DEF ListeningInv
    <3>9. QED BY <2>3, <2>5, <3>6, <3>8 DEF WindowInv
  <2>8. CASE pc = "waitWindow"
    <3>1. Lasts(Ends - opened, stolen) /\ Soon(Ends, stolen)
      BY <1>1, <1>7, <2>8 DEF ListeningInv
    <3>2. elapsed' = elapsed + 1
      BY <1>1, <1>2, <2>1, <3>1, Constants DEF Soon, Ends
    <3>3. InTime(opened)'
      <4>1. InTime(opened)
        BY <1>1, <2>8 DEF OffsetInv
      <4>2. opened' = opened
        BY <1>2
      <4>3. QED BY <1>6, <4>1, <4>2, Tolerant DEF InTime
    <3>4. OffsetInv'
      BY <1>2, <2>8, <3>3 DEF OffsetInv
    <3>5. /\ Lasts(Ends - opened, stolen)' /\ Soon(Ends, stolen)'
          /\ timer' = -1 => Lasts(elapsed - opened, stolen)'
      <4>1. /\ Ends' = Ends /\ Ends \in Int
            /\ Ends' \in Int
        BY <1>1, <2>1, <3>2 DEF Ends
      <4>2. /\ Ends' - opened' = Ends - opened
            /\ Ends - opened \in Int /\ Ends' - opened' \in Int
        <5>1. opened' = opened
          BY <1>2
        <5>2. Ends' - opened' = Ends - opened
          BY <1>6, <4>1, <5>1, Apart
        <5>3. Ends - opened \in Int
          BY <1>1, <4>1
        <5>4. QED BY <5>2, <5>3
      <4>3. Lasts(Ends - opened, stolen)' /\ Soon(Ends, stolen)'
        <5>1. Lasts(Ends - opened, stolen)'
          BY <1>6, <3>1, <4>2, Tolerant
        <5>2. Soon(Ends, stolen)'
          BY <1>6, <3>1, <4>1, Tolerant
        <5>3. QED BY <5>1, <5>2
      <4>4. ASSUME timer' = -1 PROVE Lasts(elapsed - opened, stolen)'
        <5>1. elapsed' - opened' = Ends - opened /\ elapsed' - opened' \in Int
          BY <1>1, <1>2, <2>1, <3>2, <4>4 DEF Ends
        <5>2. QED BY <1>6, <3>1, <4>2, <5>1, Tolerant
      <4>5. QED BY <4>3, <4>4
    <3>6. ListeningInv'
      BY <1>1, <1>2, <2>8, <3>5 DEF ListeningInv, Over
    <3>7. QED BY <2>3, <2>5, <3>4, <3>6 DEF WindowInv
  <2>9. QED BY <1>1, <2>4, <2>6, <2>7, <2>8 DEF TypeOK, PCs
<1>8. CASE timer = -1
  <2>1. timer' = -1 /\ ~uf'
    <3>1. ~(timer >= 0) /\ timer # 0
      BY <1>8
    <3>2. QED BY <1>2, <1>8, <3>1
  <2>2. TypeOK'
    BY <1>1, <1>2, <1>4, <1>5, <1>8, <2>1 DEF TypeOK
  <2>3. TimerInv'
    BY <1>1, <1>2, <2>1 DEF TimerInv
  <2>4. pc \notin {"waitOffset", "waitWindow"} \/ ~running => stolen' = stolen + 1
    BY <1>3 DEF Spinning
  <2>5. OffsetInv'
    <3>1. pc = "loadOffset" => elapsed' >= RxOffset - delay' /\ elapsed' <= RxOffset - delay' + stolen'
      BY <1>1, <1>2, <1>4, <2>4, Constants DEF OffsetInv
    <3>2. InTime(elapsed) /\ stolen' = stolen + 1 => InTime(elapsed)'
      BY <1>1, <1>4, Constants DEF InTime, Within
    <3>3. InTime(opened) => InTime(opened)'
      <4>1. opened' = opened
        BY <1>2
      <4>2. QED BY <1>6, <4>1, Tolerant DEF InTime
    <3>4. (pc \in {"markOffset", "waitOffset"} /\ Over)' => InTime(elapsed)'
      BY <1>1, <1>2, <1>8, <2>1, <2>4, <3>2 DEF OffsetInv, Over
    <3>5. pc \in {"loadWindow", "markWindow", "startRx"} => InTime(elapsed)'
      BY <1>1, <2>4, <3>2 DEF OffsetInv
    <3>6. pc = "waitWindow" => InTime(opened)'
      BY <1>1, <3>3 DEF OffsetInv
    <3>7. QED BY <1>2, <2>1, <3>1, <3>4, <3>5, <3>6 DEF OffsetInv
  <2>6. ListeningInv'
    <3>1. pc \in {"markWindow", "startRx"} => Lasts(0, stolen')
      <4>1. 0 \in Int /\ stolen \in Int /\ stolen' \in Int
        BY <1>6
      <4>2. QED BY <1>1, <1>6, <1>8, <4>1, Tolerant DEF ListeningInv
    <3>2. pc = "waitWindow" /\ ~running => Lasts(elapsed - opened, stolen)'
      <4>1. elapsed' <= elapsed + 1 /\ elapsed <= elapsed' /\ opened' = opened
        BY <1>1, <1>2, <1>4
      <4>2. elapsed - opened \in Int /\ elapsed - opened <= elapsed' - opened' /\ elapsed' - opened' \in Int
        BY <1>6, <4>1, Apart
      <4>3. QED BY <1>1, <1>6, <1>8, <4>2, Longer DEF ListeningInv, Over
    <3>3. closed' = 0
      BY <1>1, <1>2 DEF ListeningInv
    <3>4. QED BY <1>2, <2>1, <3>1, <3>2, <3>3 DEF ListeningInv, Over
  <2>7. QED BY <2>2, <2>3, <2>5, <2>6 DEF WindowInv
<1>9. QED BY <1>1, <1>7, <1>8

(* The delay left after the transmission fits into the word it is kept in. *)
LEMMA DelayFits ==
  ASSUME NEW d \in 0..MaxTx
  PROVE  /\ d \in Nat /\ (RxOffset - d) % Word = RxOffset - d
         /\ RxOffset - d \in 0..RxOffset
<1>1. RxOffset \in Nat /\ Num \in Nat \ {0} /\ Word \in Nat /\ RxOffset * Num < Word
  BY WindowAssumption DEF WindowAssumption
<1>2. RxOffset <= RxOffset * Num
  BY <1>1
<1>3. RxOffset < Word /\ d \in Nat /\ d <= RxOffset
  BY <1>1, <1>2, Constants
<1>4. RxOffset - d \in 0..RxOffset /\ RxOffset - d < Word
  BY <1>1, <1>3
<1>5. QED BY <1>1, <1>3, <1>4

(* Nor does the product that makes ticks of any part of it overflow.       *)
LEMMA ProductFits ==
  ASSUME NEW us \in 0..RxOffset
  PROVE  us \in Nat /\ us <= RxOffset /\ us * Num < Word
<1>1. RxOffset \in Nat /\ Num \in Nat \ {0} /\ Word \in Nat /\ RxOffset * Num < Word
  BY WindowAssumption DEF WindowAssumption
<1>2. us * Num <= RxOffset * Num /\ us * Num \in Nat /\ RxOffset * Num \in Nat
  BY <1>1
<1>3. QED BY <1>1, <1>2

(* Loaded after p of a tick, with e elapsed: the underflow is rxOffset     *)
(* away from the transmission, and a window ends when it should.           *)
LEMMA Underflows ==
  ASSUME NEW us \in Nat, us * Num < Word, NEW p \in 0..(UsPerTick - 1), NEW e \in Nat,
         NEW s \in Nat
  PROVE  LET l == (Match(us) + 1) * UsPerTick - p IN
         /\ e >= RxOffset - us /\ e <= RxOffset - us + s => Within(e + l, s)
         /\ us = RxWindow /\ Within(e, s) => Lasts(l, s) /\ Soon(e + l, s)
<1> DEFINE l == (Match(us) + 1) * UsPerTick - p
<1>1. l > us - UsPerTick /\ l <= us + UsPerTick
  BY LeftAtLoad
<1>2. l \in Int
  <2>1. Match(us) \in Nat
    BY Truncates
  <2>2. (Match(us) + 1) * UsPerTick \in Int /\ p \in Int
    BY <2>1, Constants
  <2>3. QED BY <2>2
<1> HIDE DEF l
<1>3. e >= RxOffset - us /\ e <= RxOffset - us + s => Within(e + l, s)
  BY <1>1, <1>2, Constants DEF Within
<1>4. us = RxWindow /\ Within(e, s) => Lasts(l, s) /\ Soon(e + l, s)
  BY <1>1, <1>2, Constants DEF Within, Lasts, Soon
<1>5. QED BY <1>3, <1>4 DEF l

(* RAIL_StartTx returns.                                                   *)
LEMMA StartTxKeeps == \A d \in 0..MaxTx : WindowInv /\ StartTx(d) => WindowInv'
<1> SUFFICES ASSUME NEW d \in 0..MaxTx, WindowInv, StartTx(d) PROVE WindowInv'
  OBVIOUS
<1>1. TypeOK /\ TimerInv /\ phase \in 0..(UsPerTick - 1)
  BY Ranges DEF WindowInv
<1>2. /\ pc = "send" /\ elapsed' = d /\ stolen' = 0 /\ closed' = 0 /\ opened' = 0
      /\ delay' = RxOffset - d
      /\ pc' = IF delay' = 0 THEN "loadWindow" ELSE "loadOffset"
      /\ phase' = (phase + d) % UsPerTick
      /\ UNCHANGED <<timer, uf, running>>
  BY DelayFits DEF StartTx, At
<1>3. timer = -1 /\ ~uf /\ ~running
  BY <1>1, <1>2 DEF TimerInv
<1>4. d \in 0..Cap /\ 0 \in 0..Cap /\ RxOffset - d \in 0..RxOffset /\ 0 \in 0..MaxStolen
  BY DelayFits, Constants
<1>5. TypeOK'
  <2>1. phase' \in 0..(UsPerTick - 1)
    BY <1>1, <1>2, <1>4, Constants
  <2>2. QED BY <1>1, <1>2, <1>4, <2>1 DEF TypeOK, PCs
<1>6. TimerInv'
  BY <1>2, <1>3 DEF TimerInv
<1>7. OffsetInv'
  <2>1. CASE RxOffset - d = 0
    <3>1. Within(d, 0)
      BY <1>4, <2>1, Constants DEF Within
    <3>2. QED BY <1>2, <2>1, <3>1 DEF OffsetInv, InTime
  <2>2. CASE RxOffset - d # 0
    <3>1. d >= RxOffset - (RxOffset - d) /\ d <= RxOffset - (RxOffset - d) + 0
      BY <1>4, Constants
    <3>2. QED BY <1>2, <2>2, <3>1 DEF OffsetInv
  <2>3. QED BY <2>1, <2>2
<1>8. ListeningInv'
  BY <1>2 DEF ListeningInv
<1>9. QED BY <1>5, <1>6, <1>7, <1>8 DEF WindowInv

(* The timer is loaded with what is left of rxOffset.                      *)
LEMMA LoadOffsetKeeps == WindowInv /\ LoadOffset => WindowInv'
<1> SUFFICES ASSUME WindowInv, LoadOffset PROVE WindowInv'
  OBVIOUS
<1>1. TypeOK /\ TimerInv /\ OffsetInv /\ ListeningInv
  BY DEF WindowInv
<1>2. /\ pc = "loadOffset" /\ pc' = "markOffset" /\ timer' = Match(delay) /\ uf' = FALSE
      /\ UNCHANGED <<elapsed, phase, delay, running, stolen, opened, closed>>
  BY DEF LoadOffset, LoadLeTimer, At
<1>3. delay \in Nat /\ delay <= RxOffset /\ delay * Num < Word
  BY <1>1, Ranges, ProductFits
<1>4. Match(delay) \in Nat /\ Match(delay) <= RxOffset \div UsPerTick
  BY <1>3, LoadedTicks, Constants
<1>5. RxOffset \div UsPerTick \in Nat
  BY Constants, Quotient
<1>6. timer' \in -1..(RxOffset \div UsPerTick) /\ timer' >= 0 /\ timer' # -1
  BY <1>2, <1>4, <1>5
<1>7. TypeOK'
  BY <1>1, <1>2, <1>6 DEF TypeOK, PCs
<1>8. TimerInv'
  BY <1>1, <1>2 DEF TimerInv
<1>9. InTime(Ends)'
  <2>1. elapsed \in Nat /\ stolen \in Nat /\ phase \in 0..(UsPerTick - 1)
    BY <1>1, Ranges
  <2>2. elapsed >= RxOffset - delay /\ elapsed <= RxOffset - delay + stolen
    BY <1>1, <1>2 DEF OffsetInv
  <2>3. Within(elapsed + ((Match(delay) + 1) * UsPerTick - phase), stolen)
    BY <1>3, <2>1, <2>2, Underflows
  <2>4. Ends' = elapsed + ((Match(delay) + 1) * UsPerTick - phase) /\ stolen' = stolen
    BY <1>2 DEF Ends, Left
  <2>5. QED BY <2>3, <2>4 DEF InTime
<1>10. OffsetInv'
  BY <1>2, <1>6, <1>9 DEF OffsetInv, Over
<1>11. ListeningInv'
  BY <1>1, <1>2 DEF ListeningInv
<1>12. QED BY <1>7, <1>8, <1>10, <1>11 DEF WindowInv

(* The timer is loaded with the window.                                    *)
LEMMA LoadWindowKeeps == WindowInv /\ LoadWindow => WindowInv'
<1> SUFFICES ASSUME WindowInv, LoadWindow PROVE WindowInv'
  OBVIOUS
<1>1. TypeOK /\ TimerInv /\ OffsetInv /\ ListeningInv
  BY DEF WindowInv
<1>2. /\ pc = "loadWindow" /\ pc' = "markWindow" /\ timer' = Match(RxWindow) /\ uf' = FALSE
      /\ UNCHANGED <<elapsed, phase, delay, running, stolen, opened, closed>>
  BY DEF LoadWindow, LoadLeTimer, At
<1>3. RxWindow \in Nat /\ RxWindow * Num < Word
  BY WindowAssumption DEF WindowAssumption
<1>4. Match(RxWindow) \in Nat /\ Match(RxWindow) <= RxWindow \div UsPerTick
  BY <1>3, LoadedTicks
<1>5. RxWindow \div UsPerTick \in Nat
  BY Constants, Quotient
<1>6. timer' \in -1..(RxWindow \div UsPerTick) /\ timer' >= 0 /\ timer' # -1
  BY <1>2, <1>4, <1>5
<1>7. TypeOK'
  BY <1>1, <1>2, <1>6 DEF TypeOK, PCs
<1>8. TimerInv'
  BY <1>1, <1>2 DEF TimerInv
<1>9. InTime(elapsed)
  BY <1>1, <1>2 DEF OffsetInv
<1>10. InTime(elapsed)' /\ OffsetInv'
  BY <1>2, <1>9 DEF OffsetInv, InTime
<1>11. Lasts(Left, stolen)' /\ Soon(Ends, stolen)'
  <2>1. elapsed \in Nat /\ stolen \in Nat /\ phase \in 0..(UsPerTick - 1)
    BY <1>1, Ranges
  <2>2. /\ Lasts((Match(RxWindow) + 1) * UsPerTick - phase, stolen)
        /\ Soon(elapsed + ((Match(RxWindow) + 1) * UsPerTick - phase), stolen)
    BY <1>3, <1>9, <2>1, Underflows DEF InTime
  <2>3. /\ Left' = (Match(RxWindow) + 1) * UsPerTick - phase
        /\ Ends' = elapsed + ((Match(RxWindow) + 1) * UsPerTick - phase) /\ stolen' = stolen
    BY <1>2 DEF Ends, Left
  <2>4. QED BY <2>2, <2>3
<1>12. ListeningInv'
  BY <1>1, <1>2, <1>6, <1>11 DEF ListeningInv
<1>13. QED BY <1>7, <1>8, <1>10, <1>12 DEF WindowInv

(* GpdTask goes on: it marks the timer running, sees the wait over, starts *)
(* the receiver, idles it.                                                 *)
LEMMA TaskKeeps ==
  WindowInv /\ (MarkRunning \/ OffsetOver \/ StartRx \/ WindowOver) => WindowInv'
<1> SUFFICES ASSUME WindowInv PROVE MarkRunning \/ OffsetOver \/ StartRx \/ WindowOver => WindowInv'
  OBVIOUS
<1>1. TypeOK /\ TimerInv /\ OffsetInv /\ ListeningInv
  BY DEF WindowInv
<1>2. ASSUME MarkRunning PROVE WindowInv'
  <2>1. /\ \/ pc = "markOffset" /\ pc' = "waitOffset"
           \/ pc = "markWindow" /\ pc' = "startRx"
        /\ ~uf /\ running' = TRUE
        /\ UNCHANGED <<elapsed, phase, delay, timer, uf, stolen, opened, closed>>
    BY <1>2 DEF MarkRunning, At
  <2>2. TypeOK' /\ TimerInv'
    BY <1>1, <2>1 DEF TypeOK, TimerInv, PCs
  <2>3. Left' = Left /\ Ends' = Ends
    BY <2>1 DEF Left, Ends
  <2>4. OffsetInv'
    BY <1>1, <2>1, <2>3 DEF OffsetInv, TimerInv, Over, InTime
  <2>5. ListeningInv'
    BY <1>1, <2>1, <2>3 DEF ListeningInv, Over
  <2>6. QED BY <2>2, <2>4, <2>5 DEF WindowInv
<1>3. ASSUME OffsetOver PROVE WindowInv'
  <2>1. /\ pc = "waitOffset" /\ pc' = "loadWindow" /\ ~running /\ ~uf
        /\ UNCHANGED <<elapsed, phase, delay, timer, uf, running, stolen, opened, closed>>
    BY <1>3 DEF OffsetOver, At
  <2>2. TypeOK' /\ TimerInv'
    BY <1>1, <2>1 DEF TypeOK, TimerInv, PCs
  <2>3. InTime(elapsed)
    BY <1>1, <2>1 DEF OffsetInv, TimerInv, Over
  <2>4. OffsetInv'
    BY <2>1, <2>3 DEF OffsetInv, InTime
  <2>5. ListeningInv'
    BY <1>1, <2>1 DEF ListeningInv
  <2>6. QED BY <2>2, <2>4, <2>5 DEF WindowInv
<1>4. ASSUME StartRx PROVE WindowInv'
  <2>1. /\ pc = "startRx" /\ pc' = "waitWindow" /\ ~uf /\ opened' = elapsed
        /\ UNCHANGED <<elapsed, phase, delay, timer, uf, running, stolen, closed>>
    BY <1>4 DEF StartRx, At
  <2>2. TypeOK' /\ TimerInv'
    BY <1>1, <2>1 DEF TypeOK, TimerInv, PCs
  <2>3. OffsetInv'
    BY <1>1, <2>1 DEF OffsetInv, InTime
  <2>4. elapsed \in Int /\ Left \in Int
    BY <1>1, Ranges
  <2>5. elapsed - elapsed = 0 /\ Ends - elapsed = Left /\ Left' = Left /\ Ends' = Ends
    BY <2>1, <2>4 DEF Left, Ends
  <2>6. ListeningInv'
    BY <1>1, <2>1, <2>5 DEF ListeningInv, Over
  <2>7. QED BY <2>2, <2>3, <2>6 DEF WindowInv
<1>5. ASSUME WindowOver PROVE WindowInv'
  <2>1. /\ pc = "waitWindow" /\ pc' = "send" /\ ~running /\ ~uf /\ closed' = elapsed
        /\ UNCHANGED <<elapsed, phase, delay, timer, uf, running, stolen, opened>>
    BY <1>5 DEF WindowOver, At
  <2>2. TypeOK' /\ TimerInv'
    BY <1>1, <2>1 DEF TypeOK, TimerInv, PCs
  <2>3. OffsetInv'
    BY <2>1 DEF OffsetInv
  <2>4. elapsed - opened > RxWindow - UsPerTick - stolen
    <3>1. Lasts(elapsed - opened, stolen)
      BY <1>1, <2>1 DEF ListeningInv, TimerInv, Over
    <3>2. QED BY <1>1, <3>1, Ranges, Constants DEF Lasts
  <2>5. ListeningInv'
    BY <2>1, <2>4 DEF ListeningInv
  <2>6. QED BY <2>2, <2>3, <2>5 DEF WindowInv
<1>6. QED BY <1>2, <1>3, <1>4, <1>5

(* The timer interrupt is served.                                          *)
LEMMA IrqKeeps == WindowInv /\ LETIMER0_IRQHandler => WindowInv'
<1> SUFFICES ASSUME WindowInv, LETIMER0_IRQHandler PROVE WindowInv'
  OBVIOUS
<1>1. TypeOK /\ TimerInv /\ OffsetInv /\ ListeningInv
  BY DEF WindowInv
<1>2. /\ uf /\ uf' = FALSE /\ running' = FALSE /\ timer = -1
      /\ UNCHANGED <<pc, elapsed, phase, delay, timer, stolen, opened, closed>>
  BY <1>1 DEF LETIMER0_IRQHandler, TimerInv
<1>3. TypeOK' /\ TimerInv'
  BY <1>1, <1>2 DEF TypeOK, TimerInv
<1>4. ~(timer >= 0)
  BY <1>2
<1>5. OffsetInv'
  BY <1>1, <1>2, <1>4 DEF OffsetInv, Over, InTime
<1>6. ListeningInv'
  BY <1>1, <1>2, <1>4 DEF ListeningInv, Over
<1>7. QED BY <1>3, <1>5, <1>6 DEF WindowInv

-----------------------------------------------------------------------------
(* The invariant is inductive.                                             *)
THEOREM Invariant == Spec => []WindowInv
<1>1. WindowInv /\ UNCHANGED vars => WindowInv'
  BY DEF vars, WindowInv, TypeOK, TimerInv, OffsetInv, ListeningInv, Over, InTime, Ends, Left
<1>2. WindowInv /\ Next => WindowInv'
  BY StartTxKeeps, LoadOffsetKeeps, LoadWindowKeeps, TaskKeeps, TickKeeps, IrqKeeps
  DEF Next, GpdTask
<1>3. QED BY <1>1, <1>2, InitInv, PTL DEF Spec

(* The unsigned subtraction that gives the delay never wraps, and the      *)
(* timer never counts more than was asked of it.                           *)
THEOREM TypeCorrect == Spec => []TypeOK
<1>1. WindowInv => TypeOK
  BY DEF WindowInv
<1>2. QED BY <1>1, Invariant, PTL

(* The receiver opens rxOffset after the transmission began, whatever it   *)
(* took and whatever the timer's resolution.                               *)
THEOREM OpensAtOffset == Spec => []OpensOnTime
<1>1. WindowInv => OpensOnTime
  BY DEF WindowInv, OffsetInv, OpensOnTime, InTime, Within
<1>2. QED BY <1>1, Invariant, PTL

(* And it has listened for the whole window when it is idled.              *)
THEOREM ListensForWindow == Spec => []ListensLongEnough
<1>1. WindowInv => ListensLongEnough
  BY DEF WindowInv, ListeningInv, ListensLongEnough
<1>2. QED BY <1>1, Invariant, PTL

-----------------------------------------------------------------------------
(* GpdTask does not spin for ever.                                         *)

(* The delays the timer is loaded with: what is left of rxOffset, if       *)
(* anything is, and the window.                                            *)
Delays == ({RxOffset - d : d \in 0..MaxTx} \ {0}) \cup {RxWindow}

(* Other tasks never keep GpdTask, which emberGpdLoadLeTimer does not      *)
(* guard, off the processor for the whole of a delay.                      *)
Unhurried == \A us \in Delays : MaxStolen <= Match(us) * UsPerTick

(* Between LETIMER_Enable and leTimerRunning = true more is left of the    *)
(* delay than may still be stolen; afterwards the flag is set only as long *)
(* as an interrupt will clear it.                                          *)
Ahead == timer >= 0 /\ ~uf /\ Left + stolen > MaxStolen

SpinInv ==
  /\ pc = "loadOffset" => delay \in Delays
  /\ pc \in {"markOffset", "markWindow"} => Ahead
  /\ pc \in {"waitOffset", "startRx", "waitWindow"} /\ running => timer >= 0 \/ uf

(* A load leaves GpdTask ahead of the underflow.                           *)
LEMMA LoadIsAhead ==
  ASSUME Unhurried, TypeOK, NEW us \in Delays, us \in Nat, us * Num < Word,
         LoadLeTimer(us), UNCHANGED <<phase, stolen>>
  PROVE  Ahead'
<1>1. Match(us) \in Nat /\ UsPerTick \in Nat \ {0} /\ MaxStolen \in Nat
  BY Truncates, Constants
<1>2. phase \in 0..(UsPerTick - 1) /\ stolen \in 0..MaxStolen
  BY DEF TypeOK
<1>3. timer' = Match(us) /\ uf' = FALSE /\ phase' = phase /\ stolen' = stolen
  BY DEF LoadLeTimer
<1>4. MaxStolen <= Match(us) * UsPerTick
  BY DEF Unhurried
<1>5. /\ Match(us) * UsPerTick \in Nat
      /\ (Match(us) + 1) * UsPerTick = Match(us) * UsPerTick + UsPerTick
  BY <1>1
<1>6. (Match(us) + 1) * UsPerTick - phase > MaxStolen
  BY <1>1, <1>2, <1>4, <1>5
<1>7. Left' = (Match(us) + 1) * UsPerTick - phase /\ Left' \in Int
  BY <1>1, <1>2, <1>3, <1>5 DEF Left
<1>8. Left' + stolen' > MaxStolen
  BY <1>1, <1>2, <1>3, <1>6, <1>7
<1>9. QED BY <1>1, <1>3, <1>8 DEF Ahead

(* A stolen microsecond, counted on both sides, keeps it ahead.            *)
LEMMA StaysAhead ==
  ASSUME TypeOK, Ahead, Tick, ~Spinning
  PROVE  Ahead'
<1>1. /\ stolen < MaxStolen /\ stolen' = stolen + 1
      /\ stolen \in Nat /\ MaxStolen \in Nat /\ Left \in Int
  BY Ranges, Constants DEF Tick
<1>2. /\ timer >= 0 /\ Left + stolen > MaxStolen
      /\ phase' = (phase + 1) % UsPerTick
      /\ timer' = IF timer >= 0 /\ phase' = 0 THEN timer - 1 ELSE timer
      /\ uf' = (timer = 0 /\ phase' = 0)
  BY DEF Ahead, Tick
<1>3. /\ Left' = Left - 1 /\ (timer' = -1 <=> timer = 0 /\ phase' = 0)
      /\ timer' = -1 => Left = 1
  BY <1>2, CountsDown
<1>4. Left > 1 /\ Left' + stolen' > MaxStolen
  BY <1>1, <1>2, <1>3
<1>5. timer' # -1 /\ ~uf'
  <2>1. timer' # -1 /\ ~(timer = 0 /\ phase' = 0)
    BY <1>1, <1>3, <1>4
  <2>2. QED BY <1>2, <2>1
<1>6. timer' >= 0
  <2>1. timer \in Int
    BY Ranges
  <2>2. QED BY <1>2, <1>5, <2>1
<1>7. QED BY <1>4, <1>5, <1>6 DEF Ahead

LEMMA SpinStep ==
  ASSUME Unhurried, TypeOK, SpinInv, [Next]_vars PROVE SpinInv'
<1>1. ASSUME NEW d \in 0..MaxTx, StartTx(d) PROVE SpinInv'
  <2>1. delay' = RxOffset - d /\ (pc' = IF delay' = 0 THEN "loadWindow" ELSE "loadOffset")
    BY <1>1, DelayFits DEF StartTx
  <2>2. CASE delay' = 0
    BY <2>1, <2>2 DEF SpinInv
  <2>3. CASE delay' # 0
    BY <2>1, <2>3 DEF SpinInv, Delays
  <2>4. QED BY <2>2, <2>3
<1>2. ASSUME LoadOffset PROVE SpinInv'
  <2>1. /\ pc = "loadOffset" /\ pc' = "markOffset" /\ LoadLeTimer(delay)
        /\ UNCHANGED <<phase, stolen>>
    BY <1>2 DEF LoadOffset, At
  <2>2. delay \in Delays /\ delay \in Nat /\ delay * Num < Word
    BY <2>1, Ranges, ProductFits DEF SpinInv
  <2>3. Ahead'
    BY <2>1, <2>2, LoadIsAhead
  <2>4. QED BY <2>1, <2>3 DEF SpinInv
<1>3. ASSUME LoadWindow PROVE SpinInv'
  <2>1. /\ pc' = "markWindow" /\ LoadLeTimer(RxWindow)
        /\ UNCHANGED <<phase, stolen>>
    BY <1>3 DEF LoadWindow
  <2>2. RxWindow \in Delays /\ RxWindow \in Nat /\ RxWindow * Num < Word
    BY WindowAssumption DEF WindowAssumption, Delays
  <2>3. Ahead'
    BY <2>1, <2>2, LoadIsAhead
  <2>4. QED BY <2>1, <2>3 DEF SpinInv
<1>4. ASSUME MarkRunning PROVE SpinInv'
  <2>1. /\ pc \in {"markOffset", "markWindow"} /\ pc' \in {"waitOffset", "startRx"}
        /\ UNCHANGED timer
    BY <1>4 DEF MarkRunning, At
  <2>2. QED BY <2>1 DEF SpinInv, Ahead
<1>5. ASSUME OffsetOver \/ WindowOver PROVE SpinInv'
  BY <1>5 DEF OffsetOver, WindowOver, SpinInv
<1>6. ASSUME StartRx PROVE SpinInv'
  BY <1>6 DEF StartRx, At, SpinInv
<1>7. ASSUME Tick PROVE SpinInv'
  <2>1. /\ UNCHANGED <<pc, delay, running>> /\ ~uf
        /\ timer' = IF timer >= 0 /\ phase' = 0 THEN timer - 1 ELSE timer
        /\ uf' = (timer = 0 /\ phase' = 0)
        /\ timer \in Int
    BY <1>7, Ranges DEF Tick
  <2>2. CASE pc \in {"markOffset", "markWindow"}
    <3>1. Ahead'
      BY <1>7, <2>2, StaysAhead DEF SpinInv, Spinning
    <3>2. QED BY <2>1, <2>2, <3>1 DEF SpinInv
  <2>3. CASE pc \notin {"markOffset", "markWindow"}
    <3>1. timer >= 0 => timer' >= 0 \/ uf'
      <4>1. CASE timer = 0 /\ phase' = 0
        <5>1. uf' = TRUE
          BY <2>1, <4>1
        <5>2. QED BY <5>1
      <4>2. CASE ~(timer = 0 /\ phase' = 0)
        BY <2>1, <4>2
      <4>3. QED BY <4>1, <4>2
    <3>2. QED BY <2>1, <2>3, <3>1 DEF SpinInv
  <2>4. QED BY <2>2, <2>3
<1>8. ASSUME LETIMER0_IRQHandler PROVE SpinInv'
  <2>1. pc \notin {"markOffset", "markWindow"} /\ ~running' /\ UNCHANGED <<pc, delay>>
    BY <1>8 DEF LETIMER0_IRQHandler, SpinInv, Ahead
  <2>2. QED BY <2>1 DEF SpinInv
<1>9. ASSUME UNCHANGED vars PROVE SpinInv'
  BY <1>9 DEF vars, SpinInv, Ahead, Left
<1>10. QED BY <1>1, <1>2, <1>3, <1>4, <1>5, <1>6, <1>7, <1>8, <1>9
  DEF Next, GpdTask

(* As long as no other task holds the processor for the whole of a delay,  *)
(* the flag GpdTask spins on always has an interrupt to come: no wait of   *)
(* emberAfGpdfSend is for ever.                                            *)
THEOREM NoVainWait == ASSUME Unhurried PROVE Spec => []NeverSpinsInVain
<1>1. Init => SpinInv
  BY DEF Init, SpinInv
<1>2. TypeOK /\ SpinInv /\ [Next]_vars => SpinInv'
  BY SpinStep
<1>3. SpinInv => NeverSpinsInVain
  BY DEF SpinInv, NeverSpinsInVain
<1>4. QED BY <1>1, <1>2, <1>3, TypeCorrect, PTL DEF Spec
=============================================================================
