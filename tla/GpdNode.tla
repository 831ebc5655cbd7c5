------------------------------- MODULE GpdNode -------------------------------
(***************************************************************************)
(* The Green Power Device: GpdTask (the sequencer), GpdLinklayerTask,      *)
(* gpdAppTask, the BLE task that calls the GPD API, the receive interrupt, *)
(* and the persistent store key that survives a reset.                     *)
(*                                                                         *)
(* Tasks have fixed, distinct priorities and no time slicing: BLE          *)
(* application 5, link layer 6, GpdTask 7, gpdAppTask 8.  A lower task     *)
(* therefore moves only when the higher ones are blocked; GpdRuns and      *)
(* AppRuns say so.  GpdTask polls (never blocks) in a receive window.      *)
(***************************************************************************)
EXTENDS Naturals, Sequences

CONSTANTS
  FCMod,         \* the security frame counter is an unsigned FCMod-valued word
  AcSeq,         \* the channels visited by one all-channels pass, in order
  RxChannel,     \* EMBER_AP_PLUGIN_APPS_APP_NEXT_RX_CHANNEL
  RxRequests,    \* channel requests sent on the receive channel per pass
  CommRequests,  \* commissioning requests allowed
  Frames,        \* the frames the sink may send us
  Faults,        \* subset of FaultKinds: what may go wrong
  None           \* no value

FaultKinds == {"flash", "radio", "reset"}

Channels == {AcSeq[i] : i \in 1..Len(AcSeq)} \cup {RxChannel}
                \cup {f.ch : f \in {g \in Frames : g.type = "channelConfig"}}

Levels == {"none", "full"}
Keys   == {"oob", "net", "zero", "tclk"}

ChannelConfigs(C) == [type : {"channelConfig"}, ch : C]
Replies == [type : {"reply"}, key : {"absent", "net", "corrupt"}, level : Levels]
Others  == [type : {"other"}]

States == {"NOT_COMMISSIONED", "CHANNEL_REQUEST", "CHANNEL_RECEIVED",
           "REPLY_RECEIVED", "SUCCESS_REQUEST", "OPERATIONAL",
           "OPERATIONAL_COMMAND_REQUEST"}

Cmds == {"commission", "send"}

(* EmberGpd_t, what is said of a built frame, and what the persistent      *)
(* store key holds.                                                        *)
Gpds == [state : States, channel : Channels, level : Levels, key : Keys,
         rxAfterTx : BOOLEAN, fc : 0..(FCMod - 1), commReq : 0..CommRequests]
Pdus == [fc : 0..(FCMod - 1), level : Levels, key : Keys \cup {None}]
Contexts == [fc : 0..(FCMod - 1), key : Keys, level : Levels,
             channel : Channels, state : States]

ASSUME NodeAssumption ==
  /\ FCMod \in Nat \ {0, 1}
  /\ AcSeq \in Seq(Nat) /\ AcSeq # <<>>
  /\ RxChannel \in Nat
  /\ RxRequests \in Nat \ {0}
  /\ CommRequests \in Nat \ {0}
  /\ Frames \subseteq ChannelConfigs(Nat) \cup Replies \cup Others
  /\ Faults \subseteq FaultKinds
  /\ None \notin Nat /\ None \notin Cmds /\ None \notin Contexts
  /\ None # "commissioned"
  /\ None \notin [key : Keys, level : Levels]

Ops  == {"ac", "rx", "comm", "success", "toggle"}

(* gpd_event_flags, and the bits GpdTask pends on.                         *)
Bits     == {"STACK", "LL", "CMD", "RSP", "EVT_WAITING", "EVT_HANDLED"}
TaskBitsNoCmd == {"STACK", "EVT_HANDLED"}     \* slip: the pend omits CMD_WAITING
TaskBits == {"STACK", "EVT_HANDLED", "CMD"}

PCs == {"boot", "top", "dispatch", "rxLoop", "send", "tx", "window", "sent",
        "store", "pend", "blocked", "trap"}

VARIABLES
  gpd,           \* EmberGpd_t gpdNode
  ccmKey,        \* the key loaded in the CCM context
  chReqSubstate, \* static substate of the channel request machine
  txMpdu,        \* the frame last built: its counter, security level and key
  pc, op, idx,   \* where GpdTask is, which send it is in, its loop counter
  flags,         \* GpdTask's local flags
  timeout,       \* taskTimeoutTicks: 0 is "for ever"
  osFlags,       \* gpd_event_flags
  flagsRdy,      \* FlagsRdy of the blocked GpdTask, set by the post that readies it
  radio,         \* "rx" while a receive window is open and nothing was received
  rxMpdu,        \* the single receive buffer
  cmd, rsp,      \* global_gpd_cmd.id, global_gpd_rsp.id
  client,        \* the BLE application task: idle or waiting for the response
  evt, app, led, \* global_gpd_evt.id, gpdAppTask, LED 0
  nv,            \* the persistent store key: None or the saved context
  aired,         \* history: counter of the last frame handed to the radio, ever
  wrapped,       \* history: the frame counter has overflowed in the device's life
  deal,          \* history: key and level of the last accepted reply since boot
  heard          \* history: channel of the last channel configuration since boot

ramVars  == <<gpd, ccmKey, chReqSubstate, txMpdu>>
taskVars == <<pc, op, idx, flags, timeout>>
flagVars == <<osFlags, flagsRdy>>
airVars  == <<radio, rxMpdu>>
apiVars  == <<cmd, rsp, client>>
appVars  == <<evt, app, led>>
histVars == <<aired, wrapped, deal, heard>>
vars == <<ramVars, taskVars, flagVars, airVars, apiVars, appVars, nv, histVars>>

-----------------------------------------------------------------------------
(* Data.                                                                   *)

NextFC(n) == IF n = FCMod - 1 THEN 0 ELSE n + 1

(* emberGpdLoadGpdDefaultConfiguration over the zeroed gpdNode.            *)
DefaultGpd ==
  [state |-> "NOT_COMMISSIONED", channel |-> AcSeq[1], level |-> "full",
   key |-> "oob", rxAfterTx |-> TRUE, fc |-> 0, commReq |-> 0]

(* emberGpdCopyToShadow: the part of the context that is saved.            *)
Context(g) == [fc |-> g.fc, key |-> g.key, level |-> g.level,
               channel |-> g.channel, state |-> g.state]

(* emberGpdLoadSecDataFromNV over the defaults.                            *)
Restored(c) ==
  [DefaultGpd EXCEPT !.fc = c.fc, !.key = c.key, !.level = c.level,
                     !.channel = c.channel, !.state = c.state]

(* The frame emberBuildOutGoingPdu makes of the context.  Channel requests *)
(* are maintenance frames, which are never secured.                        *)
Pdu(o, g, k) ==
  LET level == IF o \in {"ac", "rx"} THEN "none" ELSE g.level
  IN  [fc |-> g.fc, level |-> level, key |-> IF level = "none" THEN None ELSE k]

Requested(c) == IF c = "commission" THEN "CHANNEL_REQUEST"
                                    ELSE "OPERATIONAL_COMMAND_REQUEST"

-----------------------------------------------------------------------------
(* The event flag group.                                                   *)

(* OSFlagPost: set the bits; if GpdTask is blocked on one of them it is    *)
(* made ready with the bits set at that moment.                            *)
Post(bits) ==
  /\ osFlags' = osFlags \cup bits
  /\ flagsRdy' = IF pc = "blocked" /\ flagsRdy = {}
                   THEN (osFlags \cup bits) \cap TaskBits
                   ELSE flagsRdy

GpdRuns == "LL" \notin osFlags /\ "RSP" \notin osFlags
AppRuns == GpdRuns /\ pc = "blocked" /\ flagsRdy = {}

-----------------------------------------------------------------------------
(* Boot and reset.                                                         *)

RamAtReset ==
  /\ gpd' = DefaultGpd /\ ccmKey' = "oob" /\ chReqSubstate' = "ALL_CHANNELS"
  /\ txMpdu' = Pdu("ac", DefaultGpd, "oob")
  /\ pc' = "boot" /\ op' = "ac" /\ idx' = 1
  /\ flags' = {"EVT_HANDLED"} /\ timeout' = 0
  /\ osFlags' = {} /\ flagsRdy' = {}
  /\ radio' = "idle" /\ rxMpdu' = None
  /\ cmd' = "commission" /\ rsp' = "commission" /\ client' = "idle"
  /\ evt' = None /\ app' = "wait" /\ led' = FALSE
  /\ deal' = None /\ heard' = None

(* The chip resets (power loss, watchdog, DFU): everything but flash and   *)
(* what has been transmitted is gone.                                      *)
Reset ==
  /\ "reset" \in Faults
  /\ RamAtReset
  /\ UNCHANGED <<nv, aired, wrapped>>

(* Slip: the restored state is resumed at once.                            *)
BootLoadResumes ==
  /\ pc = "boot" /\ nv # None
  /\ gpd' = Restored(nv)
  /\ ccmKey' = nv.key
  /\ Post({"STACK"})
  /\ pc' = "top"
  /\ UNCHANGED <<chReqSubstate, txMpdu, op, idx, flags, timeout, airVars,
                 apiVars, appVars, nv, histVars>>

(* gpdAppTask in gpd_start: gpd_init, then GpdTask enters its loop.  The   *)
(* flash load finds the saved context ...                                  *)
BootLoad ==
  /\ pc = "boot" /\ nv # None
  /\ gpd' = Restored(nv)
  /\ ccmKey' = nv.key
  /\ pc' = "top"
  /\ UNCHANGED <<chReqSubstate, txMpdu, op, idx, flags, timeout, flagVars,
                 airVars, apiVars, appVars, nv, histVars>>

(* ... or answers 0x502: erase, and save the defaults.                     *)
BootFresh ==
  /\ pc = "boot" /\ nv = None
  /\ nv' = Context(gpd)
  /\ ccmKey' = gpd.key
  /\ pc' = "top"
  /\ UNCHANGED <<gpd, chReqSubstate, txMpdu, op, idx, flags, timeout, flagVars,
                 airVars, apiVars, appVars, histVars>>

(* Any flash error is trapped in an endless loop; so is a refused          *)
(* RAIL_StartTx.                                                           *)
Trap ==
  /\ \/ "flash" \in Faults /\ pc \in {"boot", "send", "store"}
     \/ "radio" \in Faults /\ pc = "tx"
  /\ GpdRuns
  /\ pc' = "trap"
  /\ gpd' = IF pc = "send" THEN [gpd EXCEPT !.fc = NextFC(@)] ELSE gpd
  /\ wrapped' = (wrapped \/ (pc = "send" /\ gpd.fc = FCMod - 1))
  /\ UNCHANGED <<ccmKey, chReqSubstate, txMpdu, op, idx, flags, timeout,
                 flagVars, airVars, apiVars, appVars, nv, aired, deal, heard>>

-----------------------------------------------------------------------------
(* GpdTask: commands.                                                      *)

(* Slip: the local bit is not cleared.                                     *)
CommandKeepsBit ==
  /\ GpdRuns /\ pc = "top" /\ "CMD" \in flags
  /\ gpd' = [gpd EXCEPT !.state = Requested(cmd)]
  /\ rsp' = cmd
  /\ Post({"STACK", "RSP"})
  /\ pc' = "dispatch"
  /\ UNCHANGED <<ccmKey, chReqSubstate, txMpdu, op, idx, flags, timeout,
                 airVars, cmd, client, appVars, nv, histVars>>

(* CMD_WAITING: emberGpdSetState, answer, clear the local bit.             *)
Command ==
  /\ GpdRuns /\ pc = "top" /\ "CMD" \in flags
  /\ gpd' = [gpd EXCEPT !.state = Requested(cmd)]
  /\ rsp' = cmd
  /\ flags' = flags \ {"CMD"}
  /\ Post({"STACK", "RSP"})
  /\ pc' = "dispatch"
  /\ UNCHANGED <<ccmKey, chReqSubstate, txMpdu, op, idx, timeout, airVars,
                 cmd, client, appVars, nv, histVars>>

(* GpdTask: the stack pass, one action per case of the state switch.       *)
AtDispatch == GpdRuns /\ (pc = "dispatch" \/ (pc = "top" /\ "CMD" \notin flags))
StackPass(s) == AtDispatch /\ "STACK" \in flags /\ gpd.state \in s

NoStackWork ==
  /\ AtDispatch /\ "STACK" \notin flags
  /\ pc' = "pend"
  /\ UNCHANGED <<ramVars, op, idx, flags, timeout, flagVars, airVars, apiVars,
                 appVars, nv, histVars>>

Idle ==
  /\ StackPass({"NOT_COMMISSIONED", "OPERATIONAL"})
  /\ timeout' = 0
  /\ pc' = "store"
  /\ UNCHANGED <<ramVars, op, idx, flags, flagVars, airVars, apiVars, appVars,
                 nv, histVars>>

(* Send the frame of operation o, in the context g.                        *)
BeginSend(o, g) == op' = o /\ gpd' = g /\ pc' = "send"

(* CHANNEL_REQUEST, substate 0: on every channel, no receive window.       *)
ChannelRequestAll ==
  /\ StackPass({"CHANNEL_REQUEST"}) /\ chReqSubstate = "ALL_CHANNELS"
  /\ timeout' = 900 /\ idx' = 1
  /\ BeginSend("ac", [gpd EXCEPT !.level = "none", !.rxAfterTx = FALSE,
                                 !.channel = AcSeq[1]])
  /\ UNCHANGED <<ccmKey, chReqSubstate, txMpdu, flags, flagVars, airVars,
                 apiVars, appVars, nv, histVars>>

(* CHANNEL_REQUEST, substate 1: on the receive channel, with windows.      *)
ChannelRequestRx ==
  /\ StackPass({"CHANNEL_REQUEST"}) /\ chReqSubstate = "RX_CHANNEL"
  /\ timeout' = 900 /\ idx' = 1 /\ op' = "rx"
  /\ gpd' = [gpd EXCEPT !.level = "none", !.rxAfterTx = TRUE]
  /\ pc' = "rxLoop"
  /\ UNCHANGED <<ccmKey, chReqSubstate, txMpdu, flags, flagVars, airVars,
                 apiVars, appVars, nv, histVars>>

(* Slip: one request too many.                                             *)
CommissioningRequestOneMore ==
  /\ StackPass({"CHANNEL_RECEIVED"}) /\ gpd.commReq <= CommRequests
  /\ timeout' = 900
  /\ ccmKey' = "tclk"
  /\ BeginSend("comm", [gpd EXCEPT !.level = "none"])
  /\ UNCHANGED <<chReqSubstate, txMpdu, idx, flags, flagVars, airVars, apiVars,
                 appVars, nv, histVars>>

(* CHANNEL_RECEIVED: one commissioning request per pass, unsecured; the    *)
(* key it carries is wrapped with the link key, left in the CCM context.   *)
CommissioningRequest ==
  /\ StackPass({"CHANNEL_RECEIVED"}) /\ gpd.commReq < CommRequests
  /\ timeout' = 900
  /\ ccmKey' = "tclk"
  /\ BeginSend("comm", [gpd EXCEPT !.level = "none"])
  /\ UNCHANGED <<chReqSubstate, txMpdu, idx, flags, flagVars, airVars, apiVars,
                 appVars, nv, histVars>>

(* CHANNEL_RECEIVED with the allowance spent: give up (a plain assignment, *)
(* no post).                                                               *)
CommissioningGivesUp ==
  /\ StackPass({"CHANNEL_RECEIVED"}) /\ gpd.commReq >= CommRequests
  /\ timeout' = 900
  /\ gpd' = [gpd EXCEPT !.state = "NOT_COMMISSIONED"]
  /\ pc' = "store"
  /\ UNCHANGED <<ccmKey, chReqSubstate, txMpdu, op, idx, flags, flagVars,
                 airVars, apiVars, appVars, nv, histVars>>

(* REPLY_RECEIVED: the success frame.                                      *)
CommissioningSuccess ==
  /\ StackPass({"REPLY_RECEIVED"})
  /\ timeout' = 900
  /\ BeginSend("success", [gpd EXCEPT !.state = "SUCCESS_REQUEST"])
  /\ Post({"STACK"})
  /\ UNCHANGED <<ccmKey, chReqSubstate, txMpdu, idx, flags, airVars, apiVars,
                 appVars, nv, histVars>>

(* SUCCESS_REQUEST: raise the commissioned event.                          *)
ReportCommissioned ==
  /\ StackPass({"SUCCESS_REQUEST"})
  /\ evt' = "commissioned"
  /\ gpd' = [gpd EXCEPT !.state = "OPERATIONAL"]
  /\ Post({"STACK"})
  /\ pc' = "store"
  /\ UNCHANGED <<ccmKey, chReqSubstate, txMpdu, op, idx, flags, timeout,
                 airVars, apiVars, app, led, nv, histVars>>

SendToggle ==
  /\ StackPass({"OPERATIONAL_COMMAND_REQUEST"})
  /\ timeout' = 0
  /\ BeginSend("toggle", gpd)
  /\ UNCHANGED <<ccmKey, chReqSubstate, txMpdu, idx, flags, flagVars, airVars,
                 apiVars, appVars, nv, histVars>>

-----------------------------------------------------------------------------
(* GpdTask: emberAfGpdfSend, shared by the five operations.                *)

(* Slip: the counter is not saved.                                         *)
SaveAndBuildUnsaved ==
  /\ GpdRuns /\ pc = "send"
  /\ gpd' = [gpd EXCEPT !.fc = NextFC(@)]
  /\ wrapped' = (wrapped \/ gpd.fc = FCMod - 1)
  /\ txMpdu' = Pdu(op, gpd', ccmKey)
  /\ pc' = "tx"
  /\ UNCHANGED <<ccmKey, chReqSubstate, op, idx, flags, timeout, flagVars,
                 airVars, apiVars, appVars, nv, aired, deal, heard>>

(* Bump the counter, save it, build the frame.  Only the counter changes   *)
(* in the store: the rest of the shadow still holds the last save or load. *)
SaveAndBuild ==
  /\ GpdRuns /\ pc = "send"
  /\ gpd' = [gpd EXCEPT !.fc = NextFC(@)]
  /\ wrapped' = (wrapped \/ gpd.fc = FCMod - 1)
  /\ nv' = [nv EXCEPT !.fc = gpd'.fc]
  /\ txMpdu' = Pdu(op, gpd', ccmKey)
  /\ pc' = "tx"
  /\ UNCHANGED <<ccmKey, chReqSubstate, op, idx, flags, timeout, flagVars,
                 airVars, apiVars, appVars, aired, deal, heard>>

(* Hand the frame to the radio; after rxOffset open the receive window.    *)
StartTx ==
  /\ GpdRuns /\ pc = "tx"
  /\ aired' = txMpdu.fc
  /\ IF gpd.rxAfterTx THEN pc' = "window" /\ radio' = "rx"
                      ELSE pc' = "sent" /\ radio' = "idle"
  /\ UNCHANGED <<ramVars, op, idx, flags, timeout, flagVars, rxMpdu, apiVars,
                 appVars, nv, wrapped, deal, heard>>

CloseWindow ==
  /\ GpdRuns /\ pc = "window"
  /\ radio' = "idle"
  /\ pc' = "sent"
  /\ UNCHANGED <<ramVars, op, idx, flags, timeout, flagVars, rxMpdu, apiVars,
                 appVars, nv, histVars>>

AfterSend(o) == GpdRuns /\ pc = "sent" /\ op = o

AcNext ==
  /\ AfterSend("ac") /\ idx < Len(AcSeq)
  /\ idx' = idx + 1
  /\ BeginSend("ac", [gpd EXCEPT !.channel = AcSeq[idx + 1]])
  /\ UNCHANGED <<ccmKey, chReqSubstate, txMpdu, flags, timeout, flagVars,
                 airVars, apiVars, appVars, nv, histVars>>

AcDone ==
  /\ AfterSend("ac") /\ idx = Len(AcSeq)
  /\ chReqSubstate' = "RX_CHANNEL"
  /\ pc' = "store"
  /\ UNCHANGED <<gpd, ccmKey, txMpdu, op, idx, flags, timeout, flagVars,
                 airVars, apiVars, appVars, nv, histVars>>

(* The loop of the receive-channel pass: stop when a channel arrived ...   *)
RxHeard ==
  /\ GpdRuns /\ pc = "rxLoop" /\ idx <= RxRequests
  /\ gpd.state = "CHANNEL_RECEIVED"
  /\ chReqSubstate' = "ALL_CHANNELS"
  /\ pc' = "store"
  /\ UNCHANGED <<gpd, ccmKey, txMpdu, op, idx, flags, timeout, flagVars,
                 airVars, apiVars, appVars, nv, histVars>>

(* ... or send the next request ...                                        *)
RxRequest ==
  /\ GpdRuns /\ pc = "rxLoop" /\ idx <= RxRequests
  /\ gpd.state # "CHANNEL_RECEIVED"
  /\ BeginSend("rx", [gpd EXCEPT !.channel = RxChannel])
  /\ UNCHANGED <<ccmKey, chReqSubstate, txMpdu, idx, flags, timeout, flagVars,
                 airVars, apiVars, appVars, nv, histVars>>

(* ... and after the last one put the state back, whatever it is by now.   *)
RxExhausted ==
  /\ GpdRuns /\ pc = "rxLoop" /\ idx > RxRequests
  /\ gpd' = [gpd EXCEPT !.state = "CHANNEL_REQUEST"]
  /\ chReqSubstate' = "ALL_CHANNELS"
  /\ pc' = "store"
  /\ UNCHANGED <<ccmKey, txMpdu, op, idx, flags, timeout, flagVars, airVars,
                 apiVars, appVars, nv, histVars>>

RxSent ==
  /\ AfterSend("rx")
  /\ idx' = idx + 1
  /\ pc' = "rxLoop"
  /\ UNCHANGED <<ramVars, op, flags, timeout, flagVars, airVars, apiVars,
                 appVars, nv, histVars>>

CommSent ==
  /\ AfterSend("comm")
  /\ gpd' = [gpd EXCEPT !.commReq = @ + 1]
  /\ pc' = "store"
  /\ UNCHANGED <<ccmKey, chReqSubstate, txMpdu, op, idx, flags, timeout,
                 flagVars, airVars, apiVars, appVars, nv, histVars>>

SuccessSent ==
  /\ AfterSend("success")
  /\ pc' = "store"
  /\ UNCHANGED <<ramVars, op, idx, flags, timeout, flagVars, airVars, apiVars,
                 appVars, nv, histVars>>

(* Slip: the state is left as it was.                                      *)
ToggleSentKeepsState ==
  /\ AfterSend("toggle")
  /\ Post({"STACK"})
  /\ pc' = "store"
  /\ UNCHANGED <<ramVars, op, idx, flags, timeout, airVars, apiVars, appVars,
                 nv, histVars>>

ToggleSent ==
  /\ AfterSend("toggle")
  /\ gpd' = [gpd EXCEPT !.state = "OPERATIONAL"]
  /\ Post({"STACK"})
  /\ pc' = "store"
  /\ UNCHANGED <<ccmKey, chReqSubstate, txMpdu, op, idx, flags, timeout,
                 airVars, apiVars, appVars, nv, histVars>>

-----------------------------------------------------------------------------
(* GpdTask: end of the pass and OSFlagPend.                                *)

(* Slip: EVT_WAITING is not posted.                                        *)
StoreSilent ==
  /\ GpdRuns /\ pc = "store"
  /\ nv' = Context(gpd)
  /\ flags' = flags \ {"EVT_HANDLED"}
  /\ pc' = "pend"
  /\ UNCHANGED <<ramVars, op, idx, timeout, flagVars, airVars, apiVars, appVars,
                 histVars>>

(* emberGpdStoreSecDataToNV, then EVT_WAITING.  The local STACK bit stays. *)
Store ==
  /\ GpdRuns /\ pc = "store"
  /\ nv' = Context(gpd)
  /\ Post({"EVT_WAITING"})
  /\ flags' = flags \ {"EVT_HANDLED"}
  /\ pc' = "pend"
  /\ UNCHANGED <<ramVars, op, idx, timeout, airVars, apiVars, appVars, histVars>>

(* Bits already set are taken without blocking.                            *)
PendTakes ==
  /\ GpdRuns /\ pc = "pend" /\ osFlags \cap TaskBits # {}
  /\ flags' = flags \cup (osFlags \cap TaskBits)
  /\ osFlags' = osFlags \ TaskBits
  /\ pc' = "top"
  /\ UNCHANGED <<ramVars, op, idx, timeout, flagsRdy, airVars, apiVars,
                 appVars, nv, histVars>>

PendBlocks ==
  /\ GpdRuns /\ pc = "pend" /\ osFlags \cap TaskBits = {}
  /\ pc' = "blocked"
  /\ UNCHANGED <<ramVars, op, idx, flags, timeout, flagVars, airVars, apiVars,
                 appVars, nv, histVars>>

(* Readied by a post: take, and consume, the bits of that post.            *)
Wake ==
  /\ GpdRuns /\ pc = "blocked" /\ flagsRdy # {}
  /\ flags' = flags \cup flagsRdy
  /\ osFlags' = osFlags \ flagsRdy
  /\ flagsRdy' = {}
  /\ pc' = "top"
  /\ UNCHANGED <<ramVars, op, idx, timeout, airVars, apiVars, appVars, nv,
                 histVars>>

(* The pend returns 0: the local flags are as they were.                   *)
Timeout ==
  /\ GpdRuns /\ pc = "blocked" /\ flagsRdy = {} /\ timeout # 0
  /\ pc' = "top"
  /\ UNCHANGED <<ramVars, op, idx, flags, timeout, flagVars, airVars, apiVars,
                 appVars, nv, histVars>>

-----------------------------------------------------------------------------
(* Receive interrupt and GpdLinklayerTask.                                 *)

(* RAILCb_Generic: one frame per window, a received frame idles the radio. *)
Receive(f) ==
  /\ pc = "window" /\ radio = "rx"
  /\ rxMpdu' = f
  /\ radio' = "idle"
  /\ Post({"LL"})
  /\ UNCHANGED <<ramVars, taskVars, apiVars, appVars, nv, histVars>>

LinkLayerTakes(bits) == "LL" \in osFlags /\ osFlags' = (osFlags \ {"LL"}) \cup bits

(* Slip: the channel is not adopted.                                       *)
ChannelConfigIgnored ==
  /\ LinkLayerTakes({"STACK"}) /\ rxMpdu.type = "channelConfig"
  /\ gpd' = [gpd EXCEPT !.state = "CHANNEL_RECEIVED"]
  /\ heard' = rxMpdu.ch
  /\ UNCHANGED <<ccmKey, chReqSubstate, txMpdu, taskVars, flagsRdy, airVars,
                 apiVars, appVars, nv, aired, wrapped, deal>>

ChannelConfig ==
  /\ LinkLayerTakes({"STACK"}) /\ rxMpdu.type = "channelConfig"
  /\ gpd' = [gpd EXCEPT !.channel = rxMpdu.ch, !.state = "CHANNEL_RECEIVED"]
  /\ heard' = rxMpdu.ch
  /\ UNCHANGED <<ccmKey, chReqSubstate, txMpdu, taskVars, flagsRdy, airVars,
                 apiVars, appVars, nv, aired, wrapped, deal>>

(* Slip: the delivered key is not loaded into the CCM context.             *)
ReplyAcceptedNotLoaded ==
  /\ LinkLayerTakes({"STACK"}) /\ rxMpdu.type = "reply" /\ rxMpdu.key # "corrupt"
  /\ gpd' = [gpd EXCEPT !.key = IF rxMpdu.key = "absent" THEN @ ELSE rxMpdu.key,
                        !.level = rxMpdu.level, !.state = "REPLY_RECEIVED"]
  /\ deal' = [key |-> gpd'.key, level |-> rxMpdu.level]
  /\ UNCHANGED <<ccmKey, chReqSubstate, txMpdu, taskVars, flagsRdy, airVars,
                 apiVars, appVars, nv, aired, wrapped, heard>>

(* A commissioning reply, in whatever state the device is.                 *)
ReplyAccepted ==
  /\ LinkLayerTakes({"STACK"}) /\ rxMpdu.type = "reply" /\ rxMpdu.key # "corrupt"
  /\ gpd' = [gpd EXCEPT !.key = IF rxMpdu.key = "absent" THEN @ ELSE rxMpdu.key,
                        !.level = rxMpdu.level, !.state = "REPLY_RECEIVED"]
  /\ ccmKey' = gpd'.key
  /\ deal' = [key |-> gpd'.key, level |-> rxMpdu.level]
  /\ UNCHANGED <<chReqSubstate, txMpdu, taskVars, flagsRdy, airVars, apiVars,
                 appVars, nv, aired, wrapped, heard>>

(* The key does not authenticate: the decryption has already wiped the     *)
(* device key, and the link key stays in the CCM context.                  *)
ReplyRejected ==
  /\ LinkLayerTakes({}) /\ rxMpdu.type = "reply" /\ rxMpdu.key = "corrupt"
  /\ gpd' = [gpd EXCEPT !.key = "zero"]
  /\ ccmKey' = "tclk"
  /\ UNCHANGED <<chReqSubstate, txMpdu, taskVars, flagsRdy, airVars, apiVars,
                 appVars, nv, histVars>>

(* Another command, or a frame the parser drops: it has used up the window *)
(* and the buffer, and nothing else.                                       *)
FrameDropped ==
  /\ LinkLayerTakes({}) /\ rxMpdu.type = "other"
  /\ UNCHANGED <<ramVars, taskVars, flagsRdy, airVars, apiVars, appVars, nv,
                 histVars>>

-----------------------------------------------------------------------------
(* The BLE application task (caller of the GPD API) and gpdAppTask.        *)

(* gpd_cmd_commission, gpd_cmd_send: a characteristic was written.  The    *)
(* peer is connected by then, so gpd_init is over.                         *)
Issue(c) ==
  /\ client = "idle" /\ pc # "boot"
  /\ cmd' = c
  /\ client' = "waiting"
  /\ Post({"CMD"})
  /\ UNCHANGED <<ramVars, taskVars, airVars, rsp, appVars, nv, histVars>>

Return ==
  /\ client = "waiting" /\ "RSP" \in osFlags
  /\ osFlags' = osFlags \ {"RSP"}
  /\ client' = "idle"
  /\ UNCHANGED <<ramVars, taskVars, flagsRdy, airVars, cmd, rsp, appVars, nv,
                 histVars>>

AppTakes ==
  /\ AppRuns /\ app = "wait" /\ "EVT_WAITING" \in osFlags
  /\ osFlags' = osFlags \ {"EVT_WAITING"}
  /\ led' = (led \/ evt = "commissioned")
  /\ app' = "handled"
  /\ UNCHANGED <<ramVars, taskVars, flagsRdy, airVars, apiVars, evt, nv, histVars>>

(* Slip: EVT_HANDLED is not posted.                                        *)
AppPostsNothing ==
  /\ AppRuns /\ app = "handled"
  /\ app' = "wait"
  /\ UNCHANGED <<ramVars, taskVars, flagVars, airVars, apiVars, evt, led, nv,
                 histVars>>

AppPosts ==
  /\ AppRuns /\ app = "handled"
  /\ Post({"EVT_HANDLED"})
  /\ app' = "wait"
  /\ UNCHANGED <<ramVars, taskVars, airVars, apiVars, evt, led, nv, histVars>>

-----------------------------------------------------------------------------
Init ==
  /\ gpd = DefaultGpd /\ ccmKey = "oob" /\ chReqSubstate = "ALL_CHANNELS"
  /\ txMpdu = Pdu("ac", DefaultGpd, "oob")
  /\ pc = "boot" /\ op = "ac" /\ idx = 1
  /\ flags = {"EVT_HANDLED"} /\ timeout = 0
  /\ osFlags = {} /\ flagsRdy = {}
  /\ radio = "idle" /\ rxMpdu = None
  /\ cmd = "commission" /\ rsp = "commission" /\ client = "idle"
  /\ evt = None /\ app = "wait" /\ led = FALSE
  /\ nv = None
  /\ aired = 0 /\ wrapped = FALSE /\ deal = None /\ heard = None

Boot == BootLoad \/ BootFresh

GpdTask ==
  \/ Command \/ NoStackWork \/ Idle
  \/ ChannelRequestAll \/ ChannelRequestRx
  \/ CommissioningRequest \/ CommissioningGivesUp \/ CommissioningSuccess
  \/ ReportCommissioned \/ SendToggle
  \/ SaveAndBuild \/ StartTx \/ CloseWindow
  \/ AcNext \/ AcDone \/ RxHeard \/ RxRequest \/ RxExhausted \/ RxSent
  \/ CommSent \/ SuccessSent \/ ToggleSent
  \/ Store \/ PendTakes \/ PendBlocks \/ Wake \/ Timeout

GpdLinklayerTask ==
  ChannelConfig \/ ReplyAccepted \/ ReplyRejected \/ FrameDropped

GpdAppTask == AppTakes \/ AppPosts

Next ==
  \/ Reset \/ Boot \/ Trap
  \/ GpdTask \/ GpdLinklayerTask \/ GpdAppTask
  \/ \E f \in Frames : Receive(f)
  \/ \E c \in Cmds : Issue(c)
  \/ Return

Spec == Init /\ [][Next]_vars

(* Every task that is ready and has the processor eventually runs.         *)
(* gpdAppTask, the lowest, gets it whenever GpdTask blocks: if that        *)
(* happens again and again it runs.  Nothing obliges frames or commands    *)
(* to arrive, or the chip to reset.                                        *)
Fairness ==
  /\ WF_vars(Boot) /\ WF_vars(GpdTask) /\ WF_vars(GpdLinklayerTask)
  /\ WF_vars(Return) /\ SF_vars(AppTakes) /\ SF_vars(AppPosts)

FairSpec == Spec /\ Fairness

-----------------------------------------------------------------------------
(* Properties.                                                             *)

RamType == /\ gpd \in Gpds /\ ccmKey \in Keys
           /\ chReqSubstate \in {"ALL_CHANNELS", "RX_CHANNEL"}
           /\ txMpdu \in Pdus
TaskType == /\ pc \in PCs /\ op \in Ops /\ idx \in Nat \ {0}
            /\ flags \subseteq TaskBits /\ timeout \in {0, 900}
FlagType == osFlags \subseteq Bits /\ flagsRdy \subseteq TaskBits
AirType  == radio \in {"idle", "rx"} /\ rxMpdu \in Frames \cup {None}
ApiType  == cmd \in Cmds /\ rsp \in Cmds /\ client \in {"idle", "waiting"}
AppType  == /\ evt \in {"commissioned", None} /\ app \in {"wait", "handled"}
            /\ led \in BOOLEAN
HistType == /\ aired \in 0..(FCMod - 1) /\ wrapped \in BOOLEAN
            /\ deal \in [key : Keys, level : Levels] \cup {None}
            /\ heard \in Channels \cup {None}

(* Every variable has its type; the commissioning requests sent never      *)
(* exceed the allowance of gpd-configuration.h.                            *)
TypeOK ==
  /\ RamType /\ TaskType /\ FlagType /\ AirType /\ ApiType /\ AppType
  /\ nv \in Contexts \cup {None}
  /\ HistType

(* A frame never goes on air with a counter at or below one already used,  *)
(* resets and flash failures included, until the 32-bit word overflows:    *)
(* emberAfGpdfSend saves the counter before it transmits.                  *)
FreshFrameCounter == pc = "tx" => wrapped \/ txMpdu.fc > aired

(* The success frame is secured "based on the negotiated security          *)
(* material at the commissioning reply" (sendSuccess), whatever frames,    *)
(* commands and resets came between.                                       *)
SuccessSecuredAsNegotiated ==
  pc = "tx" /\ op = "success" =>
    /\ deal # None
    /\ txMpdu.level = deal.level
    /\ txMpdu.level = "full" => txMpdu.key = deal.key

(* Commissioning frames leave on the channel the sink assigned in the last *)
(* channel configuration the device heard.                                 *)
CommissioningOnGrantedChannel ==
  pc = "tx" /\ op \in {"comm", "success"} => gpd.channel = heard

(* The commissioned event is raised only right after a success frame, as   *)
(* negotiated, went on air in this life of the device: a reset between the *)
(* two does not let the restored state report by itself.                   *)
ReportedAfterSuccess ==
  [][gpd.state = "SUCCESS_REQUEST" /\ gpd'.state = "OPERATIONAL" =>
       /\ op = "success" /\ deal # None
       /\ txMpdu.level = deal.level /\ aired = txMpdu.fc]_vars

(* A command is in exactly one place (posted, taken by GpdTask, or         *)
(* answered) while its caller waits, nowhere when no caller does, and the  *)
(* response on offer is its own.                                           *)
OneCommandAtATime ==
  LET posted   == "CMD" \in osFlags
      taken    == "CMD" \in flags
      answered == "RSP" \in osFlags
  IN  /\ client = "idle" => ~posted /\ ~taken /\ ~answered
      /\ client = "waiting" => posted \/ taken \/ answered
      /\ ~(posted /\ taken) /\ ~(posted /\ answered) /\ ~(taken /\ answered)
      /\ answered => rsp = cmd

(* As long as no reply fails to authenticate, every secured frame is       *)
(* secured with the key of the device, not with the link key that wraps it *)
(* in commissioning requests.                                              *)
SecuredWithDeviceKey ==
  pc = "tx" /\ txMpdu.level = "full" => txMpdu.key = gpd.key

(* GpdTask never sleeps on work.  Its local STACK bit makes every return   *)
(* of OSFlagPend a pass over the state, but nothing posts STACK for a      *)
(* state the sequencer assigns itself (CommissioningGivesUp), and the pend *)
(* may last "for ever": the pass comes of gpdAppTask, whose turn it is     *)
(* whenever GpdTask is blocked with that bit set.                          *)
NeverAsleepOnWork ==
  pc = "blocked" /\ flagsRdy = {} /\ "STACK" \in flags =>
    "EVT_WAITING" \in osFlags \/ app = "handled"

(* The commissioned event is not missed: until the application task has    *)
(* acted on it, it is announced or about to be, although it is a single    *)
(* slot and its flag may have been consumed for the pass before.           *)
ReportNotMissed ==
  evt = "commissioned" /\ ~led =>
    "EVT_WAITING" \in osFlags \/ pc \in {"store", "trap"}

(* The flags and buffers of the GPD API implement a call: what the caller  *)
(* sees is one request, answered once, by its own response.                *)
Service == INSTANCE CommandService WITH
  Requests <- Cmds,
  Resets   <- "reset" \in Faults,
  request  <- IF client = "waiting" THEN cmd ELSE None,
  response <- IF "RSP" \in osFlags THEN rsp ELSE None

(* Every step of the device is a step of the service or invisible to the   *)
(* caller, and a caller always gets its answer: it waits with no timeout.  *)
ServesCommands == Service!FairSpec
ServesSafely   == Service!Spec

FramesCease   == <>[]("LL" \notin osFlags)
CommandsCease == <>[](client = "idle")

(* The states of one pass do not last: the sequencer always runs again.    *)
(* (A sink that repeats its reply in every window keeps the device sending *)
(* success frames for as long as it does.)                                 *)
Transient == {"REPLY_RECEIVED", "SUCCESS_REQUEST", "OPERATIONAL_COMMAND_REQUEST"}
TransientStatesPass ==
  FramesCease => (gpd.state \in Transient ~> gpd.state \notin Transient)

(* The application task sees the commissioned event, although the event is *)
(* a single slot, EVT_HANDLED is not waited for, and GpdTask outranks it:  *)
(* enough that frames and commands do not keep GpdTask busy for ever.      *)
CommissioningReported ==
  FramesCease /\ CommandsCease => (evt = "commissioned" ~> led)

-----------------------------------------------------------------------------
(* What comments and documents say, and the code does not do.              *)

(* gpd-apps-commission.c:376-377: the second substate sends "with receive  *)
(* window so that it can receive back the channel configuration": a        *)
(* channel received is not forgotten, except for a new command.            *)
ChannelConfigurationKept ==
  [][gpd.state = "CHANNEL_RECEIVED" /\ gpd'.state = "CHANNEL_REQUEST"
       => pc = "top" \/ pc' = "boot"]_vars
=============================================================================
