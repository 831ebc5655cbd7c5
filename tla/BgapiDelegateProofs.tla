------------------------- MODULE BgapiDelegateProofs -------------------------
(***************************************************************************)
(* Theorems about BgapiDelegate, for any number of command numbers: the    *)
(* types, and that the application task, the higher of two callers without *)
(* a mutex, still gets its own command executed and its own answer.        *)
(***************************************************************************)
EXTENDS BgapiDelegate, TLAPS

-----------------------------------------------------------------------------
(* Types.                                                                  *)

(* A command belongs to the task that made it.                             *)
OwnCommands == \A c \in Callers : cmd[c].by = c

TypeInv == TypeOK /\ OwnCommands

LEMMA InitType == Init => TypeInv
<1> SUFFICES ASSUME Init PROVE TypeInv
  OBVIOUS
<1>1. 0 \in Numbers
  BY DelegateAssumption DEF DelegateAssumption, Numbers
<1> QED
  BY <1>1
     DEF Init, TypeInv, TypeOK, OwnCommands, Commands, Steps, NoOne, Parts

(* The number of the next command.                                         *)
LEMMA NextNumber == ASSUME NEW n \in Numbers PROVE (n + 1) % Window \in Numbers
BY DelegateAssumption DEF DelegateAssumption, Numbers

(* Every step keeps the types: one case per action.                        *)
LEMMA TypeStep == TypeInv /\ [Next]_vars => TypeInv'
<1> SUFFICES ASSUME TypeInv, [Next]_vars PROVE TypeInv'
  OBVIOUS
<1> USE DEF TypeInv, TypeOK, OwnCommands, Steps, Goto, At
<1>1. ASSUME NEW c \in Callers, Fill(c) PROVE TypeInv'
  <2>1. (cmd[c].n + 1) % Window \in Numbers
    BY NextNumber DEF Commands
  <2>2. cmd' \in [Callers -> Commands] /\ \A d \in Callers : cmd'[d].by = d
    BY <1>1, <2>1 DEF Fill, Commands
  <2> QED
    BY <1>1, <2>2 DEF Fill
<1>2. ASSUME NEW c \in Callers, FillHeader(c) PROVE TypeInv'
  BY <1>2 DEF FillHeader
<1>3. ASSUME NEW c \in Callers, Call(c) PROVE TypeInv'
  BY <1>3 DEF Call
<1>4. ASSUME NEW c \in Callers, SetHeader(c) PROVE TypeInv'
  BY <1>4 DEF SetHeader
<1>5. ASSUME NEW c \in Callers, SetHandler(c) PROVE TypeInv'
  BY <1>5 DEF SetHandler
<1>6. ASSUME NEW c \in Callers, PostCommand(c) PROVE TypeInv'
  BY <1>6 DEF PostCommand
<1>7. ASSUME NEW c \in Callers, PendTakes(c) PROVE TypeInv'
  BY <1>7 DEF PendTakes
<1>8. ASSUME NEW c \in Callers, PendBlocks(c) PROVE TypeInv'
  BY <1>8 DEF PendBlocks
<1>9. ASSUME NEW c \in Callers, Wake(c) PROVE TypeInv'
  BY <1>9 DEF Wake
<1>10. ASSUME NEW c \in Callers, Read(c) PROVE TypeInv'
  BY <1>10 DEF Read
<1>11. CASE Execute
  BY <1>11 DEF Execute, Parts
<1>12. CASE UNCHANGED vars
  BY <1>12 DEF vars
<1> QED
  BY <1>1, <1>2, <1>3, <1>4, <1>5, <1>6, <1>7, <1>8, <1>9, <1>10, <1>11, <1>12
     DEF Next, Proceeds

THEOREM Invariant == Spec => []TypeInv
BY InitType, TypeStep, PTL DEF Spec

(* In every reachable state every variable has its type, and only blocked  *)
(* tasks are in the ready list.                                            *)
THEOREM TypeCorrect == Spec => []TypeOK
<1>1. TypeInv => TypeOK
  BY DEF TypeInv
<1> QED
  BY <1>1, Invariant, PTL

-----------------------------------------------------------------------------
(* The application task's calls.                                           *)

(* What a step of the call has put in place is there until the answer:     *)
(* GpdTask does not move, for the application task never blocks (the stack *)
(* executes before it reaches its pend).                                   *)
Filled  == msg.payload = cmd["app"]
Headed  == Filled /\ msg.header = cmd["app"]
Passed  == Filled /\ arg["app"] = cmd["app"]
Set     == Filled /\ command.header = cmd["app"]
Handled == Set /\ command.handler = cmd["app"]
Done    == "CMD" \notin flags /\ rsp = Whole(cmd["app"])

AppInv ==
  /\ pc["app"] # "blocked"
  /\ pc["app"] \notin {"idle", "pend"} => "CMD" \notin flags
  /\ pc["app"] = "header"   => Filled
  /\ pc["app"] = "call"     => Headed
  /\ pc["app"] = "delegate" => Passed
  /\ pc["app"] = "handler"  => Set
  /\ pc["app"] = "post"     => Handled
  /\ pc["app"] = "pend"     => \/ Handled /\ "CMD" \in flags
                               \/ Done /\ "RSP" \in flags
  /\ pc["app"] = "read"     => Done

LEMMA InitApp == "app" \in Callers /\ Init => AppInv
BY DEF Init, AppInv

(* While the application task is in a call, GpdTask does not run.          *)
LEMMA Alone ==
  ASSUME "app" \in Callers, TypeInv, AppInv, NEW c \in Callers, Runs(c)
  PROVE  c = "app" \/ pc["app"] = "idle"
BY DelegateAssumption DEF DelegateAssumption, Runs, Waiting, AppInv

(* Every step keeps it, and is a step of the service or leaves request and *)
(* answer alone.                                                           *)
LEMMA AppStep ==
  "app" \in Callers /\ TypeInv /\ AppInv /\ [Next]_vars
  => AppInv' /\ [Service!Next]_Service!vars
<1> SUFFICES ASSUME "app" \in Callers, TypeInv, AppInv, [Next]_vars
             PROVE  AppInv' /\ [Service!Next]_Service!vars
  OBVIOUS
<1> DEFINE Request == IF pc["app"] = "idle" THEN None ELSE cmd["app"]
           Same == Request' = Request /\ Answer("app")' = Answer("app")
<1> USE DEF At, Goto, Steps
<1>0. /\ pc \in [Callers -> Steps] /\ cmd \in [Callers -> Commands]
      /\ arg \in [Callers -> Commands \cup {None}]
      /\ cmd["app"] \in [by : {"app"}, n : Numbers] /\ cmd["app"] # None
      /\ msg \in [header : Commands \cup {None}, payload : Commands \cup {None}]
      /\ command \in [header : Commands \cup {None},
                      handler : Commands \cup {None}]
  BY DelegateAssumption
     DEF DelegateAssumption, TypeInv, TypeOK, OwnCommands, Commands, Numbers
<1>s. ASSUME Same PROVE [Service!Next]_Service!vars
  BY <1>s DEF Service!vars
<1>a. Answer("app") = IF pc["app"] = "read" THEN cmd["app"] ELSE None
  BY DEF Answer, AppInv, Done, Whole
<1>1. ASSUME NEW c \in Callers, Fill(c) \/ Proceeds(c), c # "app"
      PROVE  AppInv' /\ [Service!Next]_Service!vars
  <2>1. Runs(c)
    BY <1>1
       DEF Proceeds, Fill, FillHeader, Call, SetHeader, SetHandler, PostCommand,
           PendTakes, PendBlocks, Wake, Read
  <2>2. pc["app"] = "idle"
    BY <1>1, <2>1, Alone
  <2>3. pc'["app"] = "idle"
    BY <1>0, <1>1, <2>2
       DEF Proceeds, Fill, FillHeader, Call, SetHeader, SetHandler, PostCommand,
           PendTakes, PendBlocks, Wake, Read
  <2>4. AppInv' /\ Same
    BY <2>2, <2>3 DEF AppInv, Answer
  <2> QED
    BY <1>s, <2>4
<1>2. CASE Fill("app")
  <2>1. pc["app"] = "idle" /\ pc'["app"] = "header" /\ "CMD" \notin flags'
    BY <1>0, <1>2 DEF Fill, Runs
  <2>2. cmd'["app"] \in [by : {"app"}, n : Numbers] /\ msg'.payload = cmd'["app"]
    BY <1>0, <1>2, NextNumber DEF Fill
  <2>3. AppInv'
    BY <2>1, <2>2 DEF AppInv, Filled
  <2>4. Service!Ask(cmd'["app"])
    BY <2>1, <1>a DEF Service!Ask, Answer
  <2> QED
    BY <2>2, <2>3, <2>4 DEF Service!Next
<1>3. CASE FillHeader("app")
  <2>1. AppInv' /\ Same
    BY <1>0, <1>3 DEF FillHeader, Runs, AppInv, Filled, Headed, Answer
  <2> QED
    BY <1>s, <2>1
<1>4. CASE Call("app")
  <2>1. AppInv' /\ Same
    BY <1>0, <1>4 DEF Call, Runs, AppInv, Filled, Headed, Passed, Answer
  <2> QED
    BY <1>s, <2>1
<1>5. CASE SetHeader("app")
  <2>1. AppInv' /\ Same
    BY <1>0, <1>5 DEF SetHeader, Runs, AppInv, Filled, Passed, Set, Answer
  <2> QED
    BY <1>s, <2>1
<1>6. CASE SetHandler("app")
  <2>1. AppInv' /\ Same
    BY <1>0, <1>6 DEF SetHandler, Runs, AppInv, Filled, Set, Handled, Answer
  <2> QED
    BY <1>s, <2>1
<1>7. CASE PostCommand("app")
  <2>1. /\ pc["app"] = "post" /\ pc'["app"] = "pend" /\ cmd' = cmd
        /\ "CMD" \in flags'
    BY <1>0, <1>7 DEF PostCommand
  <2>2. Handled'
    BY <1>7, <2>1 DEF PostCommand, AppInv, Filled, Set, Handled
  <2>3. AppInv'
    BY <2>1, <2>2 DEF AppInv
  <2>4. Same
    BY <2>1 DEF Answer
  <2> QED
    BY <1>s, <2>3, <2>4
<1>8. CASE PendTakes("app")
  <2>1. pc["app"] = "pend" /\ pc'["app"] = "read" /\ cmd' = cmd /\ Done /\ Done'
    BY <1>0, <1>8 DEF PendTakes, Runs, AppInv, Done
  <2>2. Answer("app")' = cmd["app"]
    BY <2>1 DEF Answer, Done, Whole
  <2>3. AppInv'
    BY <2>1 DEF AppInv, Done
  <2>4. Service!Answer
    BY <1>0, <1>a, <2>1, <2>2 DEF Service!Answer
  <2> QED
    BY <2>3, <2>4 DEF Service!Next
<1>9. CASE PendBlocks("app") \/ Wake("app")
  BY <1>9 DEF PendBlocks, Wake, Runs, AppInv
<1>10. CASE Read("app")
  <2>1. pc["app"] = "read" /\ pc'["app"] = "idle"
    BY <1>0, <1>10 DEF Read
  <2>2. Service!Take
    BY <1>0, <1>a, <2>1 DEF Service!Take, Answer
  <2> QED
    BY <2>1, <2>2 DEF AppInv, Service!Next
<1>11. CASE Execute
  <2>1. pc["app"] \in {"idle", "pend"} /\ pc' = pc /\ cmd' = cmd
    BY <1>0, <1>11 DEF Execute, AppInv
  <2>2. pc["app"] = "pend" => Handled
    BY <1>11 DEF Execute, AppInv, Done
  <2>3. pc["app"] = "pend" => Done' /\ "RSP" \in flags'
    BY <1>11, <2>1, <2>2 DEF Execute, Handled, Set, Filled, Done, Whole
  <2>4. AppInv' /\ Same
    BY <2>1, <2>3 DEF AppInv, Answer
  <2> QED
    BY <1>s, <2>4
<1>12. CASE UNCHANGED vars
  <2>1. AppInv' /\ Same
    BY <1>12
       DEF vars, AppInv, Filled, Headed, Passed, Set, Handled, Done, Answer
  <2> QED
    BY <1>s, <2>1
<1> QED
  BY <1>1, <1>2, <1>3, <1>4, <1>5, <1>6, <1>7, <1>8, <1>9, <1>10, <1>11, <1>12
     DEF Next, Proceeds

(* Whatever GpdTask was doing when the application task started its call,  *)
(* the application task is answered by its own command, whole, and nothing *)
(* else: the delegate implements the service for it (safety part).         *)
THEOREM AnswersApp ==
  ASSUME "app" \in Callers
  PROVE  Spec => Service!Spec
<1>1. Init => AppInv
  BY InitApp
<1>2. TypeInv /\ AppInv /\ [Next]_vars => AppInv' /\ [Service!Next]_Service!vars
  BY AppStep
<1>3. Init => Service!Init
  BY DEF Init, Service!Init, Answer
<1> QED
  BY <1>1, <1>2, <1>3, Invariant, PTL DEF Spec, Service!Spec
=============================================================================
