---------------------------- MODULE BgapiDelegate ----------------------------
(***************************************************************************)
(* How tasks call the Bluetooth stack: a gecko_cmd_xxx function fills one  *)
(* static message buffer, sli_bt_cmd_handler_rtos_delegate copies its      *)
(* header, handler and payload address into three static variables, posts  *)
(* CMD_WAITING and waits for RSP_WAITING, BluetoothTask executes and       *)
(* answers into one static response buffer, and the caller reads it.       *)
(*                                                                         *)
(* Two tasks call: "app", bluetoothAppTask (priority 5), at any BLE event, *)
(* and "gpd", GpdTask (7) to load and save its context.  Neither takes     *)
(* BluetoothMutex.  BluetoothTask (4) outranks both: a command posted is   *)
(* executed before either of them moves, so its step is atomic.            *)
(***************************************************************************)
EXTENDS Naturals

CONSTANTS
  Callers,       \* the tasks that call
  Window,        \* commands are numbered modulo Window
  None           \* no command, no handler

ASSUME DelegateAssumption ==
  /\ Callers \subseteq {"app", "gpd"}
  /\ Window \in Nat \ {0}
  /\ None \notin [by : Callers, n : 0..(Window - 1)]

Numbers  == 0..(Window - 1)
Commands == [by : Callers, n : Numbers]

(* What one execution is made of: each part may come from another command. *)
Parts == [header : Commands \cup {None}, handler : Commands \cup {None},
          payload : Commands \cup {None}]
Whole(c) == [header |-> c, handler |-> c, payload |-> c]

Steps == {"idle", "header", "call", "delegate", "handler", "post", "pend",
          "blocked", "read"}

VARIABLES
  pc,            \* where each caller is
  cmd,           \* the command each caller is making, or has made last
  msg,           \* gecko_cmd_msg_buf: header and payload
  arg,           \* the header argument each caller passed to the delegate
  command,       \* command_header, command_handler_func
  flags,         \* bluetooth_event_flags: CMD_WAITING, RSP_WAITING
  ready,         \* callers a post has made ready
  rsp            \* gecko_rsp_msg_buf: what the answer in it answers

vars == <<pc, cmd, msg, arg, command, flags, ready, rsp>>

NoOne == [header |-> None, handler |-> None, payload |-> None]

Init ==
  /\ pc = [c \in Callers |-> "idle"]
  /\ cmd = [c \in Callers |-> [by |-> c, n |-> 0]]
  /\ msg = [header |-> None, payload |-> None]
  /\ arg = [c \in Callers |-> None]
  /\ command = [header |-> None, handler |-> None]
  /\ flags = {} /\ ready = {}
  /\ rsp = NoOne

-----------------------------------------------------------------------------
(* The scheduler.                                                          *)

Waiting(c) == pc[c] = "idle" \/ (pc[c] = "blocked" /\ c \notin ready)

(* Slip: the two priorities are swapped.                                   *)
RunsSwapped(c) ==
  /\ "CMD" \notin flags
  /\ c = "app" /\ "gpd" \in Callers => Waiting("gpd")

(* The stack task outranks the callers, and "app" outranks "gpd".          *)
Runs(c) ==
  /\ "CMD" \notin flags
  /\ c = "gpd" /\ "app" \in Callers => Waiting("app")

At(c, l) == Runs(c) /\ pc[c] = l
Goto(c, l) == pc' = [pc EXCEPT ![c] = l]

-----------------------------------------------------------------------------
(* gecko_cmd_xxx: fill the payload, then the header, of the one buffer.    *)
Fill(c) ==
  /\ At(c, "idle") /\ Goto(c, "header")
  /\ cmd' = [cmd EXCEPT ![c].n = (@ + 1) % Window]
  /\ msg' = [msg EXCEPT !.payload = cmd'[c]]
  /\ UNCHANGED <<arg, command, flags, ready, rsp>>

FillHeader(c) ==
  /\ At(c, "header") /\ Goto(c, "call")
  /\ msg' = [msg EXCEPT !.header = cmd[c]]
  /\ UNCHANGED <<cmd, arg, command, flags, ready, rsp>>

(* The header is passed by value, the payload by address.                  *)
Call(c) ==
  /\ At(c, "call") /\ Goto(c, "delegate")
  /\ arg' = [arg EXCEPT ![c] = msg.header]
  /\ UNCHANGED <<cmd, msg, command, flags, ready, rsp>>

(* sli_bt_cmd_handler_rtos_delegate: command_header, command_handler_func  *)
(* (command_data is always the address of the same payload).               *)
SetHeader(c) ==
  /\ At(c, "delegate") /\ Goto(c, "handler")
  /\ command' = [command EXCEPT !.header = arg[c]]
  /\ UNCHANGED <<cmd, msg, arg, flags, ready, rsp>>

SetHandler(c) ==
  /\ At(c, "handler") /\ Goto(c, "post")
  /\ command' = [command EXCEPT !.handler = cmd[c]]
  /\ UNCHANGED <<cmd, msg, arg, flags, ready, rsp>>

PostCommand(c) ==
  /\ At(c, "post") /\ Goto(c, "pend")
  /\ flags' = flags \cup {"CMD"}
  /\ UNCHANGED <<cmd, msg, arg, command, ready, rsp>>

(* OSFlagPend for RSP_WAITING: consumed if set, else wait for a post.      *)
PendTakes(c) ==
  /\ At(c, "pend") /\ "RSP" \in flags /\ Goto(c, "read")
  /\ flags' = flags \ {"RSP"}
  /\ UNCHANGED <<cmd, msg, arg, command, ready, rsp>>

PendBlocks(c) ==
  /\ At(c, "pend") /\ "RSP" \notin flags /\ Goto(c, "blocked")
  /\ UNCHANGED <<cmd, msg, arg, command, flags, ready, rsp>>

(* Slip: the task stays in the ready list.                                 *)
WakeStaysReady(c) ==
  /\ At(c, "blocked") /\ c \in ready /\ Goto(c, "read")
  /\ flags' = flags \ {"RSP"}
  /\ UNCHANGED <<cmd, msg, arg, command, ready, rsp>>

(* A task made ready consumes the flag when it runs.                       *)
Wake(c) ==
  /\ At(c, "blocked") /\ c \in ready /\ Goto(c, "read")
  /\ flags' = flags \ {"RSP"} /\ ready' = ready \ {c}
  /\ UNCHANGED <<cmd, msg, arg, command, rsp>>

(* The caller looks at the result in the response buffer.                  *)
Read(c) ==
  /\ At(c, "read") /\ Goto(c, "idle")
  /\ UNCHANGED <<cmd, msg, arg, command, flags, ready, rsp>>

(* BluetoothTask: execute, forget the handler, answer whoever waits.       *)
Execute ==
  /\ "CMD" \in flags
  /\ rsp' = [header |-> command.header, handler |-> command.handler,
             payload |-> msg.payload]
  /\ command' = [command EXCEPT !.handler = None]
  /\ flags' = (flags \ {"CMD"}) \cup {"RSP"}
  /\ ready' = ready \cup {c \in Callers : pc[c] = "blocked"}
  /\ UNCHANGED <<pc, cmd, msg, arg>>

Proceeds(c) ==
  \/ FillHeader(c) \/ Call(c) \/ SetHeader(c) \/ SetHandler(c)
  \/ PostCommand(c) \/ PendTakes(c) \/ PendBlocks(c) \/ Wake(c) \/ Read(c)

Next == Execute \/ \E c \in Callers : Fill(c) \/ Proceeds(c)

Spec == Init /\ [][Next]_vars

(* BluetoothTask and the application task run when they are ready, GpdTask *)
(* whenever it is left the processor again and again.  Nothing obliges a   *)
(* task to make another call.                                              *)
FairSpec ==
  /\ Spec /\ WF_vars(Execute)
  /\ \A c \in Callers : SF_vars(Proceeds(c))

-----------------------------------------------------------------------------
(* Every variable has its type; only blocked tasks are in the ready list.  *)
TypeOK ==
  /\ pc \in [Callers -> Steps]
  /\ cmd \in [Callers -> Commands]
  /\ msg \in [header : Commands \cup {None}, payload : Commands \cup {None}]
  /\ arg \in [Callers -> Commands \cup {None}]
  /\ command \in [header : Commands \cup {None}, handler : Commands \cup {None}]
  /\ flags \subseteq {"CMD", "RSP"}
  /\ ready \subseteq {c \in Callers : pc[c] = "blocked"}
  /\ rsp \in Parts

(* The answer a caller has before it, if its parts belong together.        *)
Answer(c) ==
  CASE pc[c] # "read" -> None
    [] pc[c] = "read" /\ rsp = Whole(rsp.handler) -> rsp.handler
    [] OTHER -> "garbled"

Service == INSTANCE CommandService WITH
  Requests <- [by : {"app"}, n : Numbers],
  Resets   <- FALSE,
  request  <- IF pc["app"] = "idle" THEN None ELSE cmd["app"],
  response <- Answer("app")

(* The application task, whatever GpdTask was doing when it started its    *)
(* call, has its own command executed, whole, gets the answer to it, and   *)
(* never waits for ever.                                                   *)
AppServed == Service!FairSpec

-----------------------------------------------------------------------------
(* What comments say, and two callers without the mutex do not get.        *)

(* rtos_bluetooth.c:219, "wait for response": the response to a command    *)
(* executed comes, without a further command.                              *)
ResponseComes ==
  \A c \in Callers : pc[c] = "pend" ~> pc[c] = "read"
=============================================================================
