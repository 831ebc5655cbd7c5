---------------------------- MODULE ReceiveWindow ----------------------------
(***************************************************************************)
(* The receive window of emberAfGpdfSend: GpdTask transmits, waits for     *)
(* rxOffset, listens for minRxWindow, and spins on leTimerRunning in       *)
(* between, while the low-energy timer interrupt clears that flag and      *)
(* higher-priority tasks may steal the processor from GpdTask at any step. *)
(*                                                                         *)
(* Time is in microseconds.  GpdTask's own instructions take none; it      *)
(* passes while GpdTask spins, and while it is preempted.                  *)
(***************************************************************************)
EXTENDS Integers

CONSTANTS
  RxOffset,      \* gpd->rxOffset, in us
  RxWindow,      \* gpd->minRxWindow, in us
  Word,          \* uint32_t arithmetic is modulo Word
  Num, Den,      \* a tick of the timer lasts Den / Num us (32768, 1000000)
  MaxTx,         \* longest time RAIL_StartTx may take: within rxOffset
  MaxStolen,     \* most time stolen from GpdTask during one send
  Cap            \* elapsed saturates here

UsPerTick == Den \div Num

ASSUME WindowAssumption ==
  /\ Num \in Nat \ {0} /\ Den \in Nat \ {0} /\ Den % Num = 0
  /\ RxOffset \in Nat \ {0} /\ RxWindow \in Nat \ {0}
  /\ Word \in Nat /\ Word > RxOffset * Num /\ Word > RxWindow * Num
  /\ MaxTx \in 0..RxOffset /\ MaxStolen \in Nat
  /\ Cap \in Nat /\ Cap > RxOffset + RxWindow + MaxTx + MaxStolen + 2 * UsPerTick

PCs == {"send", "loadOffset", "markOffset", "waitOffset", "loadWindow",
        "markWindow", "startRx", "waitWindow"}

VARIABLES
  pc,            \* where GpdTask is
  elapsed,       \* us since preTxRailTime
  phase,         \* us since the last edge of the timer clock
  delay,         \* startDelayInUs
  timer,         \* LETIMER0: "off", or the ticks left before the underflow
  uf,            \* underflow interrupt pending
  running,       \* leTimerRunning
  stolen,        \* us stolen from GpdTask in this send
  opened,        \* elapsed when the receiver was last started
  closed         \* elapsed when it was last idled; 0 while it listens

vars == <<pc, elapsed, phase, delay, timer, uf, running, stolen, opened, closed>>

(* matchValue: the product wraps, the quotient truncates.                  *)
Match(us) == ((us * Num) % Word) \div Den

Spinning == pc \in {"waitOffset", "waitWindow"} /\ running

(* GpdTask runs when no interrupt is pending.                              *)
At(l) == pc = l /\ ~uf

Capped(n) == IF n > Cap THEN Cap ELSE n

-----------------------------------------------------------------------------
Init ==
  /\ pc = "send" /\ elapsed = 0 /\ phase \in 0..(UsPerTick - 1) /\ delay = 0
  /\ timer = -1 /\ uf = FALSE /\ running = FALSE /\ stolen = 0
  /\ opened = 0 /\ closed = 0

(* Slip: the time the transmission took is not taken off.                  *)
StartTxLate(d) ==
  /\ At("send")
  /\ elapsed' = d /\ stolen' = 0 /\ closed' = 0 /\ opened' = 0
  /\ delay' = RxOffset
  /\ phase' = (phase + d) % UsPerTick
  /\ pc' = IF delay' = 0 THEN "loadWindow" ELSE "loadOffset"
  /\ UNCHANGED <<timer, uf, running>>

(* Slip: the operands of the subtraction are swapped, and it wraps.        *)
StartTxSwapped(d) ==
  /\ At("send")
  /\ elapsed' = d /\ stolen' = 0 /\ closed' = 0 /\ opened' = 0
  /\ delay' = (d - RxOffset) % Word
  /\ phase' = (phase + d) % UsPerTick
  /\ pc' = IF delay' = 0 THEN "loadWindow" ELSE "loadOffset"
  /\ UNCHANGED <<timer, uf, running>>

(* RAIL_StartTx takes d us; the rest of rxOffset is left to wait, if any.  *)
StartTx(d) ==
  /\ At("send")
  /\ elapsed' = d /\ stolen' = 0 /\ closed' = 0 /\ opened' = 0
  /\ delay' = (RxOffset - d) % Word
  /\ phase' = (phase + d) % UsPerTick
  /\ pc' = IF delay' = 0 THEN "loadWindow" ELSE "loadOffset"
  /\ UNCHANGED <<timer, uf, running>>

(* emberGpdLoadLeTimer up to LETIMER_Enable: the timer counts.             *)
LoadLeTimer(us) == timer' = Match(us) /\ uf' = FALSE

LoadOffset ==
  /\ At("loadOffset") /\ LoadLeTimer(delay) /\ pc' = "markOffset"
  /\ UNCHANGED <<elapsed, phase, delay, running, stolen, opened, closed>>

(* Slip: the window is converted to ticks twice.                           *)
LoadWindowTwice ==
  /\ At("loadWindow") /\ LoadLeTimer(Match(RxWindow)) /\ pc' = "markWindow"
  /\ UNCHANGED <<elapsed, phase, delay, running, stolen, opened, closed>>

LoadWindow ==
  /\ At("loadWindow") /\ LoadLeTimer(RxWindow) /\ pc' = "markWindow"
  /\ UNCHANGED <<elapsed, phase, delay, running, stolen, opened, closed>>

(* Its last statement, leTimerRunning = true.                              *)
MarkRunning ==
  /\ \/ At("markOffset") /\ pc' = "waitOffset"
     \/ At("markWindow") /\ pc' = "startRx"
  /\ running' = TRUE
  /\ UNCHANGED <<elapsed, phase, delay, timer, uf, stolen, opened, closed>>

OffsetOver ==
  /\ At("waitOffset") /\ ~running
  /\ pc' = "loadWindow"
  /\ UNCHANGED <<elapsed, phase, delay, timer, uf, running, stolen, opened, closed>>

StartRx ==
  /\ At("startRx")
  /\ opened' = elapsed
  /\ pc' = "waitWindow"
  /\ UNCHANGED <<elapsed, phase, delay, timer, uf, running, stolen, closed>>

(* The window is over: emberGpdRailIdleWrapper.                            *)
WindowOver ==
  /\ At("waitWindow") /\ ~running
  /\ closed' = elapsed
  /\ pc' = "send"
  /\ UNCHANGED <<elapsed, phase, delay, timer, uf, running, stolen, opened>>

(* A microsecond passes: the timer counts on its clock edges, one shot.    *)
Tick ==
  /\ ~uf /\ pc # "send"
  /\ \/ Spinning /\ UNCHANGED stolen
     \/ ~Spinning /\ stolen < MaxStolen /\ stolen' = stolen + 1
  /\ elapsed' = Capped(elapsed + 1)
  /\ phase' = (phase + 1) % UsPerTick
  /\ timer' = IF timer >= 0 /\ phase' = 0 THEN timer - 1 ELSE timer
  /\ uf' = (timer = 0 /\ phase' = 0)
  /\ UNCHANGED <<pc, delay, running, opened, closed>>

(* Slip: the flag is left alone.                                           *)
IrqKeepsRunning ==
  /\ uf /\ uf' = FALSE
  /\ UNCHANGED <<pc, elapsed, phase, delay, timer, running, stolen, opened, closed>>

(* LETIMER0_IRQHandler.                                                    *)
LETIMER0_IRQHandler ==
  /\ uf /\ uf' = FALSE /\ running' = FALSE
  /\ UNCHANGED <<pc, elapsed, phase, delay, timer, stolen, opened, closed>>

GpdTask ==
  \/ LoadOffset \/ LoadWindow \/ MarkRunning \/ OffsetOver \/ StartRx \/ WindowOver

Next == (\E d \in 0..MaxTx : StartTx(d)) \/ GpdTask \/ Tick \/ LETIMER0_IRQHandler

Spec == Init /\ [][Next]_vars

(* Time passes, interrupts are served, GpdTask gets the processor back.    *)
FairSpec ==
  Spec /\ WF_vars(GpdTask) /\ WF_vars(Tick) /\ WF_vars(LETIMER0_IRQHandler)

-----------------------------------------------------------------------------
(* Every variable has its type; the unsigned subtraction of the time spent *)
(* transmitting from rxOffset does not wrap, nor does the product that     *)
(* makes ticks of microseconds.                                            *)
TypeOK ==
  /\ pc \in PCs /\ elapsed \in 0..Cap /\ phase \in 0..(UsPerTick - 1)
  /\ delay \in 0..RxOffset
  /\ timer \in -1..(RxOffset \div UsPerTick) \/ timer \in -1..(RxWindow \div UsPerTick)
  /\ uf \in BOOLEAN /\ running \in BOOLEAN /\ stolen \in 0..MaxStolen
  /\ opened \in 0..Cap /\ closed \in 0..Cap

(* The receiver opens rxOffset after the transmission began ("to provide   *)
(* the exact rxOffset before receive"), to within a tick of the timer and  *)
(* the time stolen by other tasks, however long the transmission took.     *)
OpensOnTime ==
  pc = "waitWindow" => /\ opened > RxOffset - UsPerTick
                       /\ opened <= RxOffset + UsPerTick + stolen

(* It then listens for the whole window, but for the same tolerances.      *)
ListensLongEnough ==
  closed # 0 => closed - opened > RxWindow - UsPerTick - stolen

(* GpdTask never spins for nothing: while it waits for leTimerRunning to   *)
(* be cleared, the timer that will clear it counts, or its interrupt is    *)
(* pending.  An underflow before the last statement of emberGpdLoadLeTimer *)
(* would be the end of it: the flag would be set for ever.                 *)
NeverSpinsInVain ==
  pc \in {"waitOffset", "waitWindow"} /\ running => timer >= 0 \/ uf

(* "Code blocker for the entire time of receive window"                    *)
(* (gpd-send-receive.c:57), and no longer: each wait ends.                 *)
WaitsEnd == pc \in {"waitOffset", "waitWindow"} ~> pc = "send"
=============================================================================
