---------------------------- MODULE GpdNodeProofs ----------------------------
(***************************************************************************)
(* Theorems about GpdNode, for every value of its constants.               *)
(***************************************************************************)
EXTENDS GpdNode, TLAPS

-----------------------------------------------------------------------------
(* Types.                                                                  *)

(* The link layer task is only woken with a frame in the buffer, and a     *)
(* commissioning request is only under way within the allowance.           *)
FramePending == "LL" \in osFlags => rxMpdu \in Frames
WithinAllowance ==
  op = "comm" /\ pc \in {"send", "tx", "window", "sent"} => gpd.commReq < CommRequests

(* Once booted there is a saved context.                                   *)
SavedContext == pc \notin {"boot", "trap"} => nv \in Contexts

TypeInv == TypeOK /\ FramePending /\ WithinAllowance /\ SavedContext

(* What the assumption on the constants says of the channel list and of the*)
(* two bounds.                                                             *)
LEMMA Constants ==
  /\ FCMod \in Nat /\ FCMod > 1
  /\ CommRequests \in Nat /\ CommRequests > 0
  /\ RxChannel \in Channels
  /\ \A i \in 1..Len(AcSeq) : AcSeq[i] \in Channels
  /\ Len(AcSeq) \in Nat /\ 1 \in 1..Len(AcSeq)
<1>1. Len(AcSeq) \in Nat /\ Len(AcSeq) # 0
  BY NodeAssumption DEF NodeAssumption
<1> QED
  BY <1>1, NodeAssumption DEF NodeAssumption, Channels

(* What a frame of the sink carries, by its type.                          *)
LEMMA FrameTypes ==
  ASSUME NEW f \in Frames
  PROVE  /\ f.type = "channelConfig" => f.ch \in Channels
         /\ f.type = "reply" => /\ f.key \in {"absent", "net", "corrupt"}
                                /\ f.level \in Levels
<1>1. f \in ChannelConfigs(Nat) \cup Replies \cup Others
  BY NodeAssumption DEF NodeAssumption
<1>2. CASE f.type = "channelConfig"
  BY <1>2 DEF Channels
<1>3. CASE f.type = "reply"
  BY <1>1, <1>3 DEF ChannelConfigs, Replies, Others
<1> QED
  BY <1>1, <1>2, <1>3

(* emberGpdLoadGpdDefaultConfiguration gives a context, with counter 0.    *)
LEMMA DefaultType == DefaultGpd \in Gpds /\ DefaultGpd.fc = 0
BY Constants DEF DefaultGpd, Gpds, States, Levels, Keys

(* The increment of the frame counter stays in its word.                   *)
LEMMA NextFCType ==
  ASSUME NEW n \in 0..(FCMod - 1)
  PROVE  NextFC(n) \in 0..(FCMod - 1)
BY Constants DEF NextFC

(* emberBuildOutGoingPdu gives a frame that carries the counter of the     *)
(* context.                                                                *)
LEMMA PduType ==
  ASSUME NEW o \in Ops, NEW g \in Gpds, NEW k \in Keys
  PROVE  Pdu(o, g, k) \in Pdus /\ Pdu(o, g, k).fc = g.fc
BY DEF Pdu, Pdus, Gpds, Levels

(* emberGpdCopyToShadow gives something to save, with the same counter.    *)
LEMMA ContextType ==
  ASSUME NEW g \in Gpds
  PROVE  Context(g) \in Contexts /\ Context(g) # None /\ Context(g).fc = g.fc
<1>1. Context(g) \in Contexts /\ Context(g).fc = g.fc
  BY DEF Context, Contexts, Gpds
<1> QED
  BY <1>1, NodeAssumption DEF NodeAssumption

(* emberGpdLoadSecDataFromNV gives a context, with the saved counter.      *)
LEMMA RestoredType ==
  ASSUME NEW c \in Contexts
  PROVE  Restored(c) \in Gpds /\ Restored(c).fc = c.fc
BY DefaultType DEF Restored, Contexts, Gpds

(* At power up every variable has its type.                                *)
THEOREM InitType == Init => TypeInv
<1> SUFFICES ASSUME Init PROVE TypeInv
  OBVIOUS
<1>1. gpd \in Gpds /\ txMpdu \in Pdus
  BY DefaultType, PduType DEF Init, Ops, Keys
<1>2. aired \in 0..(FCMod - 1) /\ idx \in Nat \ {0} /\ timeout \in {0, 900}
  BY Constants DEF Init
<1>3. TypeOK
  BY <1>1, <1>2
     DEF Init, TypeOK, RamType, TaskType, FlagType, AirType, ApiType, AppType,
         HistType, Keys, PCs, Ops, TaskBits, Cmds
<1>4. FramePending /\ WithinAllowance /\ SavedContext
  BY DEF Init, FramePending, WithinAllowance, SavedContext
<1> QED
  BY <1>3, <1>4 DEF TypeInv

(* Every step keeps the types: one case per action.                        *)
LEMMA TypeStep == TypeInv /\ [Next]_vars => TypeInv'
<1> SUFFICES ASSUME TypeInv, [Next]_vars PROVE TypeInv'
  OBVIOUS
<1> USE DEF TypeInv, TypeOK, FramePending, WithinAllowance, SavedContext,
      RamType, TaskType, FlagType, AirType, ApiType, AppType, HistType,
      ramVars, taskVars, flagVars, airVars, apiVars, appVars, histVars
<1>1. CASE NoStackWork
  BY <1>1 DEF NoStackWork, AtDispatch, PCs
<1>2. CASE Idle
  BY <1>2 DEF Idle, AtDispatch, StackPass, PCs
<1>3. CASE ChannelRequestAll
  <2>1. gpd' \in Gpds
    BY <1>3, Constants, ZenonT(60) DEF ChannelRequestAll, BeginSend, Gpds, Levels
  <2>2. TaskType' /\ RamType'
    BY <1>3, <2>1 DEF ChannelRequestAll, BeginSend, PCs, Ops
  <2> QED
    BY <1>3, <2>1, <2>2 DEF ChannelRequestAll, BeginSend, StackPass, AtDispatch
<1>4. CASE ChannelRequestRx
  <2>1. gpd' \in Gpds
    BY <1>4 DEF ChannelRequestRx, Gpds, Levels
  <2>2. TaskType' /\ RamType'
    BY <1>4, <2>1 DEF ChannelRequestRx, PCs, Ops
  <2> QED
    BY <1>4, <2>1, <2>2 DEF ChannelRequestRx, StackPass, AtDispatch
<1>5. CASE CommissioningRequest
  BY <1>5
     DEF CommissioningRequest, AtDispatch, StackPass, BeginSend, Gpds, Levels,
         Keys, PCs, Ops
<1>6. CASE CommissioningGivesUp
  BY <1>6 DEF CommissioningGivesUp, AtDispatch, StackPass, Gpds, States, PCs
<1>7. CASE CommissioningSuccess
  BY <1>7
     DEF CommissioningSuccess, AtDispatch, StackPass, BeginSend, Post, Gpds,
         States, PCs, Ops, Bits, TaskBits
<1>8. CASE ReportCommissioned
  BY <1>8
     DEF ReportCommissioned, AtDispatch, StackPass, Post, Gpds, States, PCs,
         Bits, TaskBits
<1>9. CASE SendToggle
  BY <1>9 DEF SendToggle, AtDispatch, StackPass, BeginSend, PCs, Ops
<1>10. CASE SaveAndBuild
  <2>1. gpd' \in Gpds
    BY <1>10, NextFCType DEF SaveAndBuild, Gpds
  <2>2. nv' \in Contexts
    BY <1>10, <2>1 DEF SaveAndBuild, Gpds, Contexts
  <2>3. txMpdu' \in Pdus
    BY <1>10, <2>1, PduType DEF SaveAndBuild
  <2> QED
    BY <1>10, <2>1, <2>2, <2>3 DEF SaveAndBuild, PCs, Gpds
<1>11. CASE StartTx
  BY <1>11 DEF StartTx, Pdus, PCs
<1>12. CASE CloseWindow
  BY <1>12 DEF CloseWindow, PCs
<1>13. CASE AcNext
  <2>a. idx + 1 \in 1..Len(AcSeq)
    BY <1>13, Constants DEF AcNext
  <2>b. AcSeq[idx + 1] \in Channels
    BY <2>a, Constants
  <2>1. gpd' \in Gpds
    BY <1>13, <2>b DEF AcNext, BeginSend, Gpds
  <2>2. TaskType' /\ RamType'
    BY <1>13, <2>1 DEF AcNext, BeginSend, PCs, Ops
  <2> QED
    BY <1>13, <2>1, <2>2 DEF AcNext, BeginSend, AfterSend
<1>14. CASE AcDone
  BY <1>14 DEF AcDone, AfterSend, PCs
<1>15. CASE RxHeard
  BY <1>15 DEF RxHeard, PCs
<1>16. CASE RxRequest
  BY <1>16, Constants DEF RxRequest, BeginSend, Gpds, PCs, Ops
<1>17. CASE RxExhausted
  BY <1>17 DEF RxExhausted, Gpds, States, PCs
<1>18. CASE RxSent
  BY <1>18 DEF RxSent, AfterSend, PCs
<1>19. CASE CommSent
  BY <1>19, Constants DEF CommSent, AfterSend, Gpds, PCs
<1>20. CASE SuccessSent
  BY <1>20 DEF SuccessSent, AfterSend, PCs
<1>21. CASE ToggleSent
  BY <1>21 DEF ToggleSent, AfterSend, Post, Gpds, States, PCs, Bits, TaskBits
<1>22. CASE Store
  BY <1>22, ContextType DEF Store, Post, PCs, Bits, TaskBits
<1>23. CASE PendTakes
  <2>1. TaskType' /\ FlagType'
    BY <1>23 DEF PendTakes, PCs
  <2>2. FramePending'
    BY <1>23 DEF PendTakes
  <2> QED
    BY <1>23, <2>1, <2>2 DEF PendTakes
<1>24. CASE PendBlocks
  BY <1>24 DEF PendBlocks, PCs
<1>25. CASE Wake
  BY <1>25 DEF Wake, PCs
<1>26. CASE Timeout
  BY <1>26 DEF Timeout, PCs
<1>27. CASE Reset
  <2>1. RamType'
    BY <1>27, DefaultType, PduType DEF Reset, RamAtReset, Keys, Ops
  <2>2. TaskType' /\ FlagType'
    BY <1>27 DEF Reset, RamAtReset, PCs, Ops, TaskBits
  <2>3. AirType' /\ ApiType' /\ AppType'
    BY <1>27, ZenonT(60) DEF Reset, RamAtReset, Cmds
  <2>4. HistType' /\ FramePending' /\ WithinAllowance' /\ SavedContext'
    BY <1>27 DEF Reset, RamAtReset
  <2> QED
    BY <1>27, <2>1, <2>2, <2>3, <2>4 DEF Reset
<1>28. CASE BootLoad
  BY <1>28, RestoredType DEF BootLoad, PCs, Contexts
<1>29. CASE BootFresh
  BY <1>29, ContextType DEF BootFresh, PCs, Gpds
<1>30. CASE Trap
  BY <1>30, NextFCType DEF Trap, Gpds, PCs
<1>31. CASE Command
  BY <1>31 DEF Command, Post, Requested, Gpds, States, PCs, Bits, TaskBits
<1>32. CASE ChannelConfig
  <2>1. rxMpdu \in Frames
    BY <1>32 DEF ChannelConfig, LinkLayerTakes
  <2>2. gpd' \in Gpds
    BY <1>32, <2>1, FrameTypes DEF ChannelConfig, Gpds, States
  <2>3. FlagType' /\ HistType'
    BY <1>32, <2>1, FrameTypes DEF ChannelConfig, LinkLayerTakes, Bits
  <2>4. WithinAllowance'
    BY <1>32, <2>1 DEF ChannelConfig, Gpds
  <2> QED
    BY <1>32, <2>1, <2>2, <2>3, <2>4 DEF ChannelConfig
<1>33. CASE ReplyAccepted
  <2>1. rxMpdu \in Frames
    BY <1>33 DEF ReplyAccepted, LinkLayerTakes
  <2>2. gpd' \in Gpds /\ gpd'.commReq = gpd.commReq
    BY <1>33, <2>1, FrameTypes DEF ReplyAccepted, Gpds, States, Keys
  <2>3. gpd'.key \in Keys
    BY <1>33, <2>2 DEF Gpds
  <2>4. FlagType'
    BY <1>33 DEF ReplyAccepted, LinkLayerTakes, Bits
  <2>5. HistType'
    BY <1>33, <2>1, <2>3, FrameTypes DEF ReplyAccepted
  <2> QED
    BY <1>33, <2>1, <2>2, <2>3, <2>4, <2>5 DEF ReplyAccepted
<1>34. CASE ReplyRejected
  BY <1>34 DEF ReplyRejected, LinkLayerTakes, Gpds, Keys, Bits
<1>35. CASE AppTakes
  BY <1>35 DEF AppTakes
<1>36. CASE AppPosts
  BY <1>36 DEF AppPosts, Post, Bits, TaskBits
<1>37. CASE Return
  BY <1>37 DEF Return
<1>38. CASE \E f \in Frames : Receive(f)
  BY <1>38 DEF Receive, Post, Bits, TaskBits
<1>39. CASE \E c \in Cmds : Issue(c)
  BY <1>39 DEF Issue, Post, Bits, TaskBits
<1>40. CASE FrameDropped
  BY <1>40 DEF FrameDropped, LinkLayerTakes, Bits
<1>41. CASE UNCHANGED vars
  BY <1>41 DEF vars
<1> QED
  BY <1>1, <1>2, <1>3, <1>4, <1>5, <1>6, <1>7, <1>8, <1>9, <1>10,
     <1>11, <1>12, <1>13, <1>14, <1>15, <1>16, <1>17, <1>18, <1>19, <1>20,
     <1>21, <1>22, <1>23, <1>24, <1>25, <1>26, <1>27, <1>28, <1>29, <1>30,
     <1>31, <1>32, <1>33, <1>34, <1>35, <1>36, <1>37, <1>38, <1>39, <1>40,
     <1>41
     DEF Next, Boot, GpdTask, GpdLinklayerTask, GpdAppTask

(* Type correctness: in every reachable state every variable of the device *)
(* has its type, and the commissioning requests stay within the allowance. *)
THEOREM TypeCorrect == Spec => []TypeOK
<1>1. TypeInv => TypeOK
  BY DEF TypeInv
<1> QED
  BY <1>1, InitType, TypeStep, PTL DEF Spec

(* The inductive form of TypeCorrect, which the next invariants rest on.   *)
THEOREM TypeInvariant == Spec => []TypeInv
BY InitType, TypeStep, PTL DEF Spec

-----------------------------------------------------------------------------
(* Frame counters.                                                         *)

(* The saved counter is the one in RAM whenever GpdTask is past boot, and  *)
(* never behind the last one on air; a fresh chip has sent nothing.        *)
CounterInv ==
  /\ pc = "boot" => gpd.fc = 0
  /\ pc \notin {"boot", "trap"} => nv.fc = gpd.fc
  /\ nv = None => aired = 0
  /\ wrapped \/ nv = None \/ aired <= nv.fc
  /\ pc = "tx" => txMpdu.fc = gpd.fc
  /\ FreshFrameCounter

(* At power up nothing was sent and nothing saved.                         *)
LEMMA InitCounter == Init => CounterInv
BY DefaultType DEF Init, CounterInv, FreshFrameCounter

(* Every step keeps it: SaveAndBuild puts nv ahead of aired before StartTx *)
(* lets aired catch up, and a reset falls back on nv.                      *)
LEMMA CounterStep == TypeInv /\ CounterInv /\ [Next]_vars => CounterInv'
<1> SUFFICES ASSUME TypeInv, CounterInv, [Next]_vars PROVE CounterInv'
  OBVIOUS
<1> USE DEF CounterInv, FreshFrameCounter, ramVars, taskVars, histVars
<1>1. CASE NoStackWork
  BY <1>1 DEF NoStackWork, AtDispatch
<1>2. CASE Idle
  BY <1>2 DEF Idle, StackPass, AtDispatch
<1>3. CASE ChannelRequestAll
  BY <1>3
     DEF ChannelRequestAll, StackPass, AtDispatch, BeginSend, Gpds, TypeInv,
         TypeOK, RamType
<1>4. CASE ChannelRequestRx
  BY <1>4
     DEF ChannelRequestRx, StackPass, AtDispatch, Gpds, TypeInv, TypeOK,
         RamType
<1>5. CASE CommissioningRequest
  BY <1>5
     DEF CommissioningRequest, StackPass, AtDispatch, BeginSend, Gpds, TypeInv,
         TypeOK, RamType
<1>6. CASE CommissioningGivesUp
  BY <1>6
     DEF CommissioningGivesUp, StackPass, AtDispatch, Gpds, TypeInv, TypeOK,
         RamType
<1>7. CASE CommissioningSuccess
  BY <1>7
     DEF CommissioningSuccess, StackPass, AtDispatch, BeginSend, Gpds, TypeInv,
         TypeOK, RamType
<1>8. CASE ReportCommissioned
  BY <1>8
     DEF ReportCommissioned, StackPass, AtDispatch, Gpds, TypeInv, TypeOK,
         RamType
<1>9. CASE SendToggle
  BY <1>9 DEF SendToggle, StackPass, AtDispatch, BeginSend
<1>10. CASE SaveAndBuild
  <2>1. gpd.fc \in 0..(FCMod - 1) /\ nv \in Contexts /\ nv # None /\ nv.fc = gpd.fc
    BY <1>10, NodeAssumption
       DEF SaveAndBuild, Gpds, SavedContext, NodeAssumption, TypeInv, TypeOK,
           RamType
  <2>2. gpd' \in Gpds /\ gpd'.fc = NextFC(gpd.fc)
    BY <1>10, NextFCType DEF SaveAndBuild, Gpds, TypeInv, TypeOK, RamType
  <2>3. nv' # None /\ nv'.fc = gpd'.fc
    BY <1>10, <2>1, <2>2, NodeAssumption
       DEF SaveAndBuild, Contexts, Gpds, NodeAssumption
  <2>4. txMpdu' = Pdu(op, gpd', ccmKey) /\ op \in Ops /\ ccmKey \in Keys
    BY <1>10 DEF SaveAndBuild, TaskType, TypeInv, TypeOK, RamType
  <2>5. txMpdu'.fc = gpd'.fc
    BY <1>10, <2>2, <2>4, PduType
  <2>6. wrapped' <=> (wrapped \/ gpd.fc = FCMod - 1)
    BY <1>10 DEF SaveAndBuild
  <2>7. wrapped \/ aired <= gpd.fc
    BY <1>10, <2>1
  <2>8. aired \in Nat /\ aired' = aired
    BY <1>10 DEF SaveAndBuild, HistType, TypeInv, TypeOK
  <2>9. gpd.fc = FCMod - 1 \/ NextFC(gpd.fc) = gpd.fc + 1
    BY <1>10, <2>1, Constants DEF NextFC
  <2>10. wrapped' \/ gpd'.fc > aired'
    BY <1>10, <2>1, <2>2, <2>6, <2>7, <2>8, <2>9, Constants
  <2>11. wrapped' \/ aired' <= nv'.fc
    BY <1>10, <2>1, <2>2, <2>3, <2>8, <2>10, NextFCType, Constants
  <2> QED
    BY <1>10, <2>2, <2>3, <2>5, <2>10, <2>11 DEF SaveAndBuild
<1>11. CASE StartTx
  <2>1. nv # None /\ aired' = nv.fc /\ nv.fc \in Nat
    BY <1>11, NodeAssumption, Constants
       DEF StartTx, SavedContext, Contexts, NodeAssumption, TypeInv, TypeOK,
           RamType
  <2> QED
    BY <1>11, <2>1 DEF StartTx
<1>12. CASE CloseWindow
  BY <1>12 DEF CloseWindow
<1>13. CASE AcNext
  BY <1>13 DEF AcNext, AfterSend, BeginSend, Gpds, TypeInv, TypeOK, RamType
<1>14. CASE AcDone
  BY <1>14 DEF AcDone, AfterSend
<1>15. CASE RxHeard
  BY <1>15 DEF RxHeard
<1>16. CASE RxRequest
  BY <1>16 DEF RxRequest, BeginSend, Gpds, TypeInv, TypeOK, RamType
<1>17. CASE RxExhausted
  BY <1>17 DEF RxExhausted, Gpds, TypeInv, TypeOK, RamType
<1>18. CASE RxSent
  BY <1>18 DEF RxSent, AfterSend
<1>19. CASE CommSent
  BY <1>19 DEF CommSent, AfterSend, Gpds, TypeInv, TypeOK, RamType
<1>20. CASE SuccessSent
  BY <1>20 DEF SuccessSent, AfterSend
<1>21. CASE ToggleSent
  BY <1>21 DEF ToggleSent, AfterSend, Gpds, TypeInv, TypeOK, RamType
<1>22. CASE Store
  <2>1. nv # None /\ nv.fc = gpd.fc
    BY <1>22, NodeAssumption DEF Store, SavedContext, NodeAssumption, TypeInv
  <2>2. nv' # None /\ nv'.fc = gpd.fc
    BY <1>22, ContextType DEF Store, TypeInv, TypeOK, RamType
  <2> QED
    BY <1>22, <2>1, <2>2 DEF Store
<1>23. CASE PendTakes
  BY <1>23 DEF PendTakes
<1>24. CASE PendBlocks
  BY <1>24 DEF PendBlocks
<1>25. CASE Wake
  BY <1>25 DEF Wake
<1>26. CASE Timeout
  BY <1>26 DEF Timeout
<1>27. CASE Reset
  BY <1>27, DefaultType DEF Reset, RamAtReset
<1>28. CASE BootLoad
  BY <1>28, RestoredType DEF BootLoad, TypeInv, TypeOK
<1>29. CASE BootFresh
  BY <1>29, ContextType DEF BootFresh, TypeInv, TypeOK, RamType
<1>30. CASE Trap
  <2>1. pc = "boot" \/ nv # None
    BY <1>30, NodeAssumption DEF Trap, SavedContext, NodeAssumption, TypeInv
  <2>2. nv' = nv /\ aired' = aired /\ pc' = "trap" /\ (wrapped => wrapped')
    BY <1>30 DEF Trap
  <2> QED
    BY <1>30, <2>1, <2>2
<1>31. CASE Command
  BY <1>31 DEF Command, Gpds, TypeInv, TypeOK, RamType
<1>32. CASE ChannelConfig
  BY <1>32 DEF ChannelConfig, Gpds, TypeInv, TypeOK, RamType
<1>33. CASE ReplyAccepted
  BY <1>33 DEF ReplyAccepted, Gpds, TypeInv, TypeOK, RamType
<1>34. CASE ReplyRejected
  BY <1>34 DEF ReplyRejected, Gpds, TypeInv, TypeOK, RamType
<1>35. CASE AppTakes
  BY <1>35 DEF AppTakes
<1>36. CASE AppPosts
  BY <1>36 DEF AppPosts
<1>37. CASE Return
  BY <1>37 DEF Return
<1>38. CASE \E f \in Frames : Receive(f)
  BY <1>38 DEF Receive
<1>39. CASE \E c \in Cmds : Issue(c)
  BY <1>39 DEF Issue
<1>40. CASE FrameDropped
  BY <1>40 DEF FrameDropped
<1>41. CASE UNCHANGED vars
  BY <1>41 DEF vars
<1> QED
  BY <1>1, <1>2, <1>3, <1>4, <1>5, <1>6, <1>7, <1>8, <1>9, <1>10,
     <1>11, <1>12, <1>13, <1>14, <1>15, <1>16, <1>17, <1>18, <1>19, <1>20,
     <1>21, <1>22, <1>23, <1>24, <1>25, <1>26, <1>27, <1>28, <1>29, <1>30,
     <1>31, <1>32, <1>33, <1>34, <1>35, <1>36, <1>37, <1>38, <1>39, <1>40,
     <1>41
     DEF Next, Boot, GpdTask, GpdLinklayerTask, GpdAppTask

(* No frame counter is reused before the word overflows, whatever resets   *)
(* and failures happen: what receivers rely on to tell a new frame from an *)
(* old one, and CCM to never see a nonce twice.                            *)
THEOREM CounterFresh == Spec => []FreshFrameCounter
<1>1. CounterInv => FreshFrameCounter
  BY DEF CounterInv
<1>2. Spec => []CounterInv
  BY TypeInvariant, InitCounter, CounterStep, PTL DEF Spec
<1> QED
  BY <1>1, <1>2, PTL

-----------------------------------------------------------------------------
(* The command interface.                                                  *)

(* A command bit in GpdTask's local flags is served by the very next step, *)
(* and a wake-up under way holds bits that are still in the group.         *)
CallInv ==
  /\ OneCommandAtATime
  /\ "CMD" \in flags => pc = "top"
  /\ flagsRdy \subseteq osFlags
  /\ flagsRdy # {} => pc = "blocked"

(* At power up no command is under way.                                    *)
LEMMA InitCall == Init => CallInv
BY DEF Init, CallInv, OneCommandAtATime

(* Every step keeps each command in one place: one case per action.        *)
LEMMA CallStep == TypeInv /\ CallInv /\ [Next]_vars => CallInv'
<1> SUFFICES ASSUME TypeInv, CallInv, [Next]_vars PROVE CallInv'
  OBVIOUS
<1> USE DEF CallInv, OneCommandAtATime, taskVars, flagVars, apiVars
<1>1. CASE NoStackWork
  BY <1>1 DEF NoStackWork, StackPass, AtDispatch
<1>2. CASE Idle
  BY <1>2 DEF Idle, StackPass, AtDispatch
<1>3. CASE ChannelRequestAll
  BY <1>3 DEF ChannelRequestAll, StackPass, AtDispatch, BeginSend
<1>4. CASE ChannelRequestRx
  BY <1>4 DEF ChannelRequestRx, StackPass, AtDispatch
<1>5. CASE CommissioningRequest
  BY <1>5 DEF CommissioningRequest, StackPass, AtDispatch, BeginSend
<1>6. CASE CommissioningGivesUp
  BY <1>6 DEF CommissioningGivesUp, StackPass, AtDispatch
<1>7. CASE CommissioningSuccess
  BY <1>7 DEF CommissioningSuccess, StackPass, AtDispatch, BeginSend, Post
<1>8. CASE ReportCommissioned
  BY <1>8 DEF ReportCommissioned, StackPass, AtDispatch, Post
<1>9. CASE SendToggle
  BY <1>9 DEF SendToggle, StackPass, AtDispatch, BeginSend
<1>10. CASE SaveAndBuild
  BY <1>10 DEF SaveAndBuild
<1>11. CASE StartTx
  BY <1>11 DEF StartTx
<1>12. CASE CloseWindow
  BY <1>12 DEF CloseWindow
<1>13. CASE AcNext
  BY <1>13 DEF AcNext, AfterSend, BeginSend
<1>14. CASE AcDone
  BY <1>14 DEF AcDone, AfterSend
<1>15. CASE RxHeard
  BY <1>15 DEF RxHeard
<1>16. CASE RxRequest
  BY <1>16 DEF RxRequest, BeginSend
<1>17. CASE RxExhausted
  BY <1>17 DEF RxExhausted
<1>18. CASE RxSent
  BY <1>18 DEF RxSent, AfterSend
<1>19. CASE CommSent
  BY <1>19 DEF CommSent, AfterSend
<1>20. CASE SuccessSent
  BY <1>20 DEF SuccessSent, AfterSend
<1>21. CASE ToggleSent
  BY <1>21 DEF ToggleSent, AfterSend, Post
<1>22. CASE Store
  BY <1>22 DEF Store, Post
<1>23. CASE PendTakes
  BY <1>23 DEF PendTakes, TaskBits
<1>24. CASE PendBlocks
  BY <1>24 DEF PendBlocks
<1>25. CASE Wake
  BY <1>25 DEF Wake, FlagType, TaskBits, TypeInv, TypeOK
<1>26. CASE Timeout
  BY <1>26 DEF Timeout
<1>27. CASE Reset
  BY <1>27 DEF Reset, RamAtReset
<1>28. CASE BootLoad
  BY <1>28 DEF BootLoad
<1>29. CASE BootFresh
  BY <1>29 DEF BootFresh
<1>30. CASE Trap
  BY <1>30 DEF Trap
<1>31. CASE Command
  BY <1>31 DEF Command, Post
<1>32. CASE ChannelConfig
  BY <1>32
     DEF ChannelConfig, FlagType, TaskBits, TypeInv, TypeOK, LinkLayerTakes
<1>33. CASE ReplyAccepted
  BY <1>33
     DEF ReplyAccepted, FlagType, TaskBits, TypeInv, TypeOK, LinkLayerTakes
<1>34. CASE ReplyRejected
  BY <1>34
     DEF ReplyRejected, FlagType, TaskBits, TypeInv, TypeOK, LinkLayerTakes
<1>35. CASE AppTakes
  BY <1>35 DEF AppTakes, FlagType, TaskBits, TypeInv, TypeOK
<1>36. CASE AppPosts
  BY <1>36 DEF AppPosts, Post
<1>37. CASE Return
  BY <1>37 DEF Return, FlagType, TaskBits, TypeInv, TypeOK, ApiType
<1>38. CASE \E f \in Frames : Receive(f)
  BY <1>38 DEF Receive, Post
<1>39. CASE \E c \in Cmds : Issue(c)
  BY <1>39 DEF Issue, Post, TypeInv, TypeOK, ApiType
<1>40. CASE FrameDropped
  BY <1>40
     DEF FrameDropped, FlagType, TaskBits, TypeInv, TypeOK, LinkLayerTakes
<1>41. CASE UNCHANGED vars
  BY <1>41 DEF vars
<1> QED
  BY <1>1, <1>2, <1>3, <1>4, <1>5, <1>6, <1>7, <1>8, <1>9, <1>10,
     <1>11, <1>12, <1>13, <1>14, <1>15, <1>16, <1>17, <1>18, <1>19, <1>20,
     <1>21, <1>22, <1>23, <1>24, <1>25, <1>26, <1>27, <1>28, <1>29, <1>30,
     <1>31, <1>32, <1>33, <1>34, <1>35, <1>36, <1>37, <1>38, <1>39, <1>40,
     <1>41
     DEF Next, Boot, GpdTask, GpdLinklayerTask, GpdAppTask

(* The inductive form of CommandsOneByOne.                                 *)
THEOREM CallInvariant == Spec => []CallInv
BY TypeInvariant, InitCall, CallStep, PTL DEF Spec

(* A command is never lost, duplicated or answered with another's          *)
(* response between the API, the flag group and GpdTask's local copy.      *)
THEOREM CommandsOneByOne == Spec => []OneCommandAtATime
<1>1. CallInv => OneCommandAtATime
  BY DEF CallInv
<1> QED
  BY <1>1, CallInvariant, PTL

(* Steps of the device seen by the caller of the API.                      *)
ServiceView == <<cmd, rsp, client, "RSP" \in osFlags>>

(* A step that keeps the command, the response and the caller is invisible *)
(* to the caller.                                                          *)
LEMMA ServiceStutters == UNCHANGED ServiceView => UNCHANGED Service!vars
BY DEF ServiceView, Service!vars

(* Every other step asks, answers, takes the answer or loses the request.  *)
LEMMA ServiceStep == TypeInv /\ CallInv /\ [Next]_vars => [Service!Next]_Service!vars
<1> SUFFICES ASSUME TypeInv, CallInv, [Next]_vars
             PROVE  Service!Next \/ UNCHANGED ServiceView
  BY ServiceStutters
<1> USE DEF ServiceView, flagVars, apiVars
<1>0. cmd \in Cmds /\ rsp \in Cmds /\ cmd # None /\ rsp # None
  BY NodeAssumption DEF NodeAssumption, TypeInv, TypeOK, ApiType
<1>1. CASE NoStackWork
  BY <1>1 DEF NoStackWork
<1>2. CASE Idle
  BY <1>2 DEF Idle
<1>3. CASE ChannelRequestAll
  BY <1>3 DEF ChannelRequestAll
<1>4. CASE ChannelRequestRx
  BY <1>4 DEF ChannelRequestRx
<1>5. CASE CommissioningRequest
  BY <1>5 DEF CommissioningRequest
<1>6. CASE CommissioningGivesUp
  BY <1>6 DEF CommissioningGivesUp
<1>7. CASE CommissioningSuccess
  BY <1>7 DEF CommissioningSuccess, Post
<1>8. CASE ReportCommissioned
  BY <1>8 DEF ReportCommissioned, Post
<1>9. CASE SendToggle
  BY <1>9 DEF SendToggle
<1>10. CASE SaveAndBuild
  BY <1>10 DEF SaveAndBuild
<1>11. CASE StartTx
  BY <1>11 DEF StartTx
<1>12. CASE CloseWindow
  BY <1>12 DEF CloseWindow
<1>13. CASE AcNext
  BY <1>13 DEF AcNext
<1>14. CASE AcDone
  BY <1>14 DEF AcDone
<1>15. CASE RxHeard
  BY <1>15 DEF RxHeard
<1>16. CASE RxRequest
  BY <1>16 DEF RxRequest
<1>17. CASE RxExhausted
  BY <1>17 DEF RxExhausted
<1>18. CASE RxSent
  BY <1>18 DEF RxSent
<1>19. CASE CommSent
  BY <1>19 DEF CommSent
<1>20. CASE SuccessSent
  BY <1>20 DEF SuccessSent
<1>21. CASE ToggleSent
  BY <1>21 DEF ToggleSent, Post
<1>22. CASE Store
  BY <1>22 DEF Store, Post
<1>23. CASE PendTakes
  BY <1>23 DEF PendTakes, TaskBits
<1>24. CASE PendBlocks
  BY <1>24 DEF PendBlocks
<1>25. CASE Wake
  BY <1>25 DEF Wake, FlagType, TaskBits, TypeInv, TypeOK
<1>26. CASE Timeout
  BY <1>26 DEF Timeout
<1>27. CASE Reset
  <2>1. Service!Lose
    BY <1>27 DEF Reset, RamAtReset, Service!Lose
  <2> QED
    BY <1>27, <2>1 DEF Service!Next
<1>28. CASE BootLoad
  BY <1>28 DEF BootLoad
<1>29. CASE BootFresh
  BY <1>29 DEF BootFresh
<1>30. CASE Trap
  BY <1>30 DEF Trap
<1>31. CASE Command
  <2>1. client = "waiting" /\ "RSP" \notin osFlags
    BY <1>31
       DEF Command, GpdRuns, CallInv, OneCommandAtATime, TypeInv, TypeOK,
           ApiType
  <2>2. Service!Answer
    BY <1>31, <1>0, <2>1 DEF Command, Post, Service!Answer
  <2> QED
    BY <1>31, <2>2 DEF Service!Next
<1>32. CASE ChannelConfig
  BY <1>32 DEF ChannelConfig, LinkLayerTakes
<1>33. CASE ReplyAccepted
  BY <1>33 DEF ReplyAccepted, LinkLayerTakes
<1>34. CASE ReplyRejected
  BY <1>34 DEF ReplyRejected, LinkLayerTakes
<1>35. CASE AppTakes
  BY <1>35 DEF AppTakes
<1>36. CASE AppPosts
  BY <1>36 DEF AppPosts, Post
<1>37. CASE Return
  <2>1. Service!Take
    BY <1>37, <1>0 DEF Return, Service!Take
  <2> QED
    BY <1>37, <2>1 DEF Service!Next
<1>38. CASE \E f \in Frames : Receive(f)
  BY <1>38 DEF Receive, Post
<1>39. CASE \E c \in Cmds : Issue(c)
  <2> PICK c \in Cmds : Issue(c)
    BY <1>39
  <2>1. "RSP" \notin osFlags /\ "RSP" \notin osFlags'
    BY DEF Issue, Post, CallInv, OneCommandAtATime
  <2>2. Service!Ask(c)
    BY <2>1, NodeAssumption DEF Issue, Service!Ask, NodeAssumption
  <2> QED
    BY <2>2 DEF Service!Next
<1>40. CASE FrameDropped
  BY <1>40 DEF FrameDropped, LinkLayerTakes
<1>41. CASE UNCHANGED vars
  BY <1>41 DEF vars
<1> QED
  BY <1>1, <1>2, <1>3, <1>4, <1>5, <1>6, <1>7, <1>8, <1>9, <1>10,
     <1>11, <1>12, <1>13, <1>14, <1>15, <1>16, <1>17, <1>18, <1>19, <1>20,
     <1>21, <1>22, <1>23, <1>24, <1>25, <1>26, <1>27, <1>28, <1>29, <1>30,
     <1>31, <1>32, <1>33, <1>34, <1>35, <1>36, <1>37, <1>38, <1>39, <1>40,
     <1>41
     DEF Next, Boot, GpdTask, GpdLinklayerTask, GpdAppTask

(* The device implements the command service: a refinement, safety part.   *)
THEOREM ImplementsService == Spec => ServesSafely
<1>1. Init => Service!Init
  BY DEF Init, Service!Init
<1> QED
  BY <1>1, TypeInvariant, CallInvariant, ServiceStep, PTL
     DEF Spec, ServesSafely, Service!Spec


-----------------------------------------------------------------------------
(* A commissioning run, whatever the sink sends and wherever a reset comes:*)
(* the inductive invariant of the channel it talks on, the security of its *)
(* success frame, and what the commissioned event is worth.                *)

(* GpdTask is in a pass that sends frame o.                                *)
Sending(o) == op = o /\ pc \in {"rxLoop", "send", "tx", "window", "sent"}

(* The stack runs on the state of the context: STACK was posted.  After a  *)
(* boot the restored state waits, unused, until a command replaces it.     *)
Live == pc # "trap" /\ "STACK" \in flags \cup osFlags

(* A frame may still arrive in the window about to open, or opened.        *)
Expecting == pc \in {"send", "tx"} \/ radio = "rx" \/ "LL" \in osFlags

AtBoot == pc = "boot" => ~Live /\ gpd.state = "NOT_COMMISSIONED"

WorksLive == pc \in {"rxLoop", "send", "tx", "window", "sent", "store"} => Live

(* One frame per window, handled before GpdTask closes it.                 *)
OneFrame ==
  /\ "LL" \in osFlags \/ radio = "rx" => pc = "window"
  /\ radio = "rx" => "LL" \notin osFlags

(* The state while a frame is out: what the sender had, until an answer.   *)
SenderState ==
  /\ pc = "rxLoop" => op = "rx"
  /\ Sending("ac") =>
       gpd.state = "CHANNEL_REQUEST" /\ ~gpd.rxAfterTx /\ pc # "window"
  /\ Sending("rx") =>
       gpd.state \in {"CHANNEL_REQUEST", "CHANNEL_RECEIVED", "REPLY_RECEIVED"}
  /\ Expecting /\ op = "comm"    => gpd.state = "CHANNEL_RECEIVED"
  /\ Expecting /\ op = "success" => gpd.state = "SUCCESS_REQUEST"
  /\ Expecting /\ op = "toggle"  => gpd.state = "OPERATIONAL_COMMAND_REQUEST"

(* The channel is the granted one from the configuration on.  A reply heard*)
(* on another (in a channel request or a toggle window) is set aside when  *)
(* the pass ends.                                                          *)
OnGranted ==
  Live =>
    /\ gpd.state \in {"CHANNEL_RECEIVED", "SUCCESS_REQUEST"}
         => gpd.channel = heard
    /\ gpd.state = "REPLY_RECEIVED" /\ ~Sending("rx") /\ ~Sending("toggle")
         => gpd.channel = heard

(* The context holds the deal between the reply and the success frame.     *)
Agreed == deal # None /\ gpd.level = deal.level /\ ccmKey = deal.key

OnTerms ==
  /\ Live /\ gpd.state = "REPLY_RECEIVED" /\ ~Sending("rx") => Agreed
  /\ op = "success" /\ pc = "send" => Agreed

(* SUCCESS_REQUEST is only ever the state of a success frame being sent,   *)
(* or sent: the last frame on air, and as agreed.                          *)
SuccessOut ==
  Live /\ gpd.state = "SUCCESS_REQUEST" =>
    /\ op = "success"
    /\ pc \notin {"send", "tx"} =>
         deal # None /\ txMpdu.level = deal.level /\ aired = txMpdu.fc

CommissioningInv ==
  /\ AtBoot /\ WorksLive /\ OneFrame /\ SenderState
  /\ OnGranted /\ OnTerms /\ SuccessOut
  /\ SuccessSecuredAsNegotiated

(* At power up nothing is out and nothing agreed.                          *)
LEMMA InitCommissioning == Init => CommissioningInv
BY DEF Init, CommissioningInv, AtBoot, WorksLive, OneFrame, SenderState,
       OnGranted, OnTerms, SuccessOut, SuccessSecuredAsNegotiated, Sending,
       Live, Expecting, DefaultGpd

(* Every step keeps it: one case per action.                               *)
LEMMA CommissioningStep ==
  TypeInv /\ CallInv /\ CommissioningInv /\ [Next]_vars => CommissioningInv'
<1> SUFFICES ASSUME gpd \in Gpds, flagsRdy \subseteq osFlags, TypeInv,
                    CommissioningInv, [Next]_vars
             PROVE  CommissioningInv'
  BY DEF TypeInv, TypeOK, RamType, CallInv
<1> USE DEF CommissioningInv, AtBoot, WorksLive, OneFrame, SenderState,
      OnGranted, OnTerms, SuccessOut, SuccessSecuredAsNegotiated, Sending,
      Live, Expecting, Agreed, Gpds, GpdRuns, TaskBits,
      ramVars, taskVars, flagVars, airVars, apiVars, appVars, histVars
<1>1. CASE NoStackWork
  BY <1>1 DEF NoStackWork, AtDispatch
<1>2. CASE Idle
  BY <1>2 DEF Idle, AtDispatch, StackPass
<1>3. CASE ChannelRequestAll
  BY <1>3 DEF ChannelRequestAll, AtDispatch, StackPass, BeginSend
<1>4. CASE ChannelRequestRx
  BY <1>4 DEF ChannelRequestRx, AtDispatch, StackPass
<1>5. CASE CommissioningRequest
  BY <1>5 DEF CommissioningRequest, AtDispatch, StackPass, BeginSend
<1>6. CASE CommissioningGivesUp
  BY <1>6 DEF CommissioningGivesUp, AtDispatch, StackPass
<1>7. CASE CommissioningSuccess
  BY <1>7 DEF CommissioningSuccess, AtDispatch, StackPass, BeginSend, Post
<1>8. CASE ReportCommissioned
  BY <1>8 DEF ReportCommissioned, AtDispatch, StackPass, Post
<1>9. CASE SendToggle
  BY <1>9 DEF SendToggle, AtDispatch, StackPass, BeginSend
<1>10. CASE SaveAndBuild
  BY <1>10 DEF SaveAndBuild, Pdu
<1>11. CASE StartTx
  BY <1>11 DEF StartTx
<1>12. CASE CloseWindow
  BY <1>12 DEF CloseWindow
<1>13. CASE AcNext
  BY <1>13 DEF AcNext, AfterSend, BeginSend
<1>14. CASE AcDone
  BY <1>14 DEF AcDone, AfterSend
<1>15. CASE RxHeard
  BY <1>15 DEF RxHeard
<1>16. CASE RxRequest
  BY <1>16 DEF RxRequest, BeginSend
<1>17. CASE RxExhausted
  BY <1>17 DEF RxExhausted
<1>18. CASE RxSent
  BY <1>18 DEF RxSent, AfterSend
<1>19. CASE CommSent
  BY <1>19 DEF CommSent, AfterSend
<1>20. CASE SuccessSent
  BY <1>20 DEF SuccessSent, AfterSend
<1>21. CASE ToggleSent
  BY <1>21 DEF ToggleSent, AfterSend, Post
<1>22. CASE Store
  BY <1>22 DEF Store, Post
<1>23. CASE PendTakes
  BY <1>23 DEF PendTakes
<1>24. CASE PendBlocks
  BY <1>24 DEF PendBlocks
<1>25. CASE Wake
  BY <1>25 DEF Wake
<1>26. CASE Timeout
  BY <1>26 DEF Timeout
<1>27. CASE Reset
  BY <1>27 DEF Reset, RamAtReset, DefaultGpd
<1>28. CASE BootLoad
  BY <1>28 DEF BootLoad
<1>29. CASE BootFresh
  BY <1>29 DEF BootFresh
<1>30. CASE Trap
  BY <1>30 DEF Trap
<1>31. CASE Command
  BY <1>31 DEF Command, Post, Requested
<1>32. CASE ChannelConfig
  <2>1. /\ pc = "window" /\ pc' = pc /\ op' = op /\ flags' = flags
        /\ radio = "idle" /\ radio' = radio /\ op \in Ops \ {"ac"}
        /\ osFlags' = (osFlags \ {"LL"}) \cup {"STACK"}
    BY <1>32 DEF ChannelConfig, LinkLayerTakes, AirType, TaskType, TypeInv,
           TypeOK
  <2>2. /\ gpd'.state = "CHANNEL_RECEIVED" /\ gpd'.channel = heard'
    BY <1>32 DEF ChannelConfig
  <2> QED
    BY <2>1, <2>2
<1>33. CASE ReplyAccepted
  <2>1. /\ pc = "window" /\ pc' = pc /\ op' = op /\ flags' = flags
        /\ radio = "idle" /\ radio' = radio /\ op \in Ops \ {"ac"}
        /\ osFlags' = (osFlags \ {"LL"}) \cup {"STACK"}
    BY <1>33 DEF ReplyAccepted, LinkLayerTakes, AirType, TaskType, TypeInv,
           TypeOK
  <2>2. /\ gpd'.state = "REPLY_RECEIVED" /\ gpd'.channel = gpd.channel
        /\ heard' = heard
    BY <1>33 DEF ReplyAccepted
  <2>3. rxMpdu \in Frames /\ gpd'.key \in Keys
    BY <1>33, FrameTypes
       DEF ReplyAccepted, LinkLayerTakes, Keys, FramePending, TypeInv
  <2>4. Agreed'
    BY <1>33, <2>3, FrameTypes, NodeAssumption DEF ReplyAccepted, NodeAssumption
  <2>5. op \in {"comm", "success"} => gpd.channel = heard
    BY <1>33, <2>1 DEF ReplyAccepted, LinkLayerTakes
  <2>6. Live' /\ ~Expecting'
    BY <2>1
  <2>7. SenderState' /\ OneFrame' /\ AtBoot' /\ WorksLive'
    BY <2>1, <2>2, <2>6
  <2>8. OnGranted'
    BY <2>1, <2>2, <2>5 DEF Ops
  <2> QED
    BY <2>1, <2>2, <2>4, <2>7, <2>8
<1>34. CASE ReplyRejected
  <2>1. /\ pc = "window" /\ pc' = pc /\ op' = op /\ flags' = flags
        /\ radio = "idle" /\ radio' = radio /\ op \in Ops \ {"ac"}
        /\ osFlags' = osFlags \ {"LL"}
    BY <1>34 DEF ReplyRejected, LinkLayerTakes, AirType, TaskType, TypeInv,
           TypeOK
  <2>2. /\ gpd'.state = gpd.state /\ gpd'.channel = gpd.channel
        /\ heard' = heard /\ deal' = deal /\ txMpdu' = txMpdu /\ aired' = aired
    BY <1>34 DEF ReplyRejected
  <2>3. gpd.state = "REPLY_RECEIVED" => op = "rx"
    BY <1>34, <2>1 DEF ReplyRejected, LinkLayerTakes, Ops
  <2> QED
    BY <2>1, <2>2, <2>3
<1>35. CASE AppTakes
  BY <1>35 DEF AppTakes
<1>36. CASE AppPosts
  BY <1>36 DEF AppPosts, Post
<1>37. CASE Return
  BY <1>37 DEF Return
<1>38. CASE \E f \in Frames : Receive(f)
  BY <1>38 DEF Receive, Post
<1>39. CASE \E c \in Cmds : Issue(c)
  BY <1>39 DEF Issue, Post
<1>40. CASE FrameDropped
  BY <1>40 DEF FrameDropped, LinkLayerTakes
<1>41. CASE UNCHANGED vars
  BY <1>41 DEF vars
<1> QED
  BY <1>1, <1>2, <1>3, <1>4, <1>5, <1>6, <1>7, <1>8, <1>9, <1>10,
     <1>11, <1>12, <1>13, <1>14, <1>15, <1>16, <1>17, <1>18, <1>19, <1>20,
     <1>21, <1>22, <1>23, <1>24, <1>25, <1>26, <1>27, <1>28, <1>29, <1>30,
     <1>31, <1>32, <1>33, <1>34, <1>35, <1>36, <1>37, <1>38, <1>39, <1>40,
     <1>41
     DEF Next, Boot, GpdTask, GpdLinklayerTask, GpdAppTask

(* The inductive form of the theorems below.                               *)
LEMMA CommissioningInvariant == Spec => []CommissioningInv
BY TypeInvariant, CallInvariant, InitCommissioning, CommissioningStep, PTL
   DEF Spec

-----------------------------------------------------------------------------
(* What a commissioning run guarantees.                                    *)

(* The success frame is secured with the level and the key of the last     *)
(* reply accepted since the boot, whatever came between.                   *)
THEOREM SuccessAsNegotiated == Spec => []SuccessSecuredAsNegotiated
<1>1. CommissioningInv => SuccessSecuredAsNegotiated
  BY DEF CommissioningInv
<1> QED
  BY <1>1, CommissioningInvariant, PTL

(* Commissioning requests and success frames leave on the channel of the   *)
(* last channel configuration heard since the boot.                        *)
THEOREM OnGrantedChannel == Spec => []CommissioningOnGrantedChannel
<1>1. CommissioningInv => CommissioningOnGrantedChannel
  <2> SUFFICES ASSUME CommissioningInv, pc = "tx", op \in {"comm", "success"}
               PROVE  gpd.channel = heard
    BY DEF CommissioningOnGrantedChannel
  <2>1. Live /\ Expecting
    BY DEF CommissioningInv, WorksLive, Expecting
  <2>2. gpd.state \in {"CHANNEL_RECEIVED", "SUCCESS_REQUEST"}
    BY <2>1 DEF CommissioningInv, SenderState
  <2> QED
    BY <2>1, <2>2 DEF CommissioningInv, OnGranted
<1> QED
  BY <1>1, CommissioningInvariant, PTL

(* Nothing but ReportCommissioned takes the context from SUCCESS_REQUEST to*)
(* OPERATIONAL.                                                            *)
LEMMA OnlyReported ==
  TypeInv /\ CommissioningInv /\ [Next]_vars
    /\ gpd.state = "SUCCESS_REQUEST" /\ gpd'.state = "OPERATIONAL"
  => ReportCommissioned
<1> SUFFICES ASSUME gpd \in Gpds, CommissioningInv, [Next]_vars,
                    gpd.state = "SUCCESS_REQUEST", gpd'.state = "OPERATIONAL",
                    ~ReportCommissioned
             PROVE  FALSE
  BY DEF TypeInv, TypeOK, RamType
<1> USE DEF Gpds, ramVars
<1>1. CASE NoStackWork \/ Idle \/ SaveAndBuild \/ StartTx \/ CloseWindow
  BY <1>1 DEF NoStackWork, Idle, SaveAndBuild, StartTx, CloseWindow
<1>2. CASE ChannelRequestAll \/ ChannelRequestRx \/ AcNext \/ AcDone
  <2>1. CASE ChannelRequestAll
    BY <2>1 DEF ChannelRequestAll, BeginSend
  <2>2. CASE ChannelRequestRx
    BY <2>2 DEF ChannelRequestRx
  <2>3. CASE AcNext \/ AcDone
    BY <2>3 DEF AcNext, AcDone, BeginSend
  <2> QED
    BY <1>2, <2>1, <2>2, <2>3
<1>3. CASE RxHeard \/ RxRequest \/ RxExhausted \/ RxSent
  BY <1>3 DEF RxHeard, RxRequest, RxExhausted, RxSent, BeginSend
<1>4. CASE CommissioningRequest \/ CommissioningGivesUp \/ CommSent
  BY <1>4
     DEF CommissioningRequest, CommissioningGivesUp, CommSent, BeginSend
<1>5. CASE CommissioningSuccess \/ SuccessSent \/ SendToggle
  BY <1>5 DEF CommissioningSuccess, SuccessSent, SendToggle, BeginSend
<1>6. CASE ToggleSent
  <2>1. op = "toggle" /\ Live
    BY <1>6 DEF ToggleSent, AfterSend, CommissioningInv, WorksLive
  <2> QED
    BY <2>1 DEF CommissioningInv, SuccessOut
<1>7. CASE Store \/ PendTakes \/ PendBlocks \/ Wake \/ Timeout
  BY <1>7 DEF Store, PendTakes, PendBlocks, Wake, Timeout
<1>8. CASE Reset
  BY <1>8 DEF Reset, RamAtReset, DefaultGpd
<1>9. CASE BootLoad \/ BootFresh
  BY <1>9 DEF BootLoad, BootFresh, CommissioningInv, AtBoot
<1>10. CASE Trap
  BY <1>10 DEF Trap
<1>11. CASE Command
  BY <1>11 DEF Command, Requested
<1>12. CASE GpdLinklayerTask
  BY <1>12
     DEF GpdLinklayerTask, ChannelConfig, ReplyAccepted, ReplyRejected,
         FrameDropped
<1>13. CASE GpdAppTask \/ Return
  BY <1>13 DEF GpdAppTask, AppTakes, AppPosts, Return
<1>14. CASE \E f \in Frames : Receive(f)
  BY <1>14 DEF Receive
<1>15. CASE \E c \in Cmds : Issue(c)
  BY <1>15 DEF Issue
<1>16. CASE UNCHANGED vars
  BY <1>16 DEF vars
<1> QED
  BY <1>1, <1>2, <1>3, <1>4, <1>5, <1>6, <1>7, <1>8, <1>9, <1>10, <1>11,
     <1>12, <1>13, <1>14, <1>15, <1>16
     DEF Next, Boot, GpdTask

(* The commissioned event always follows a success frame, as negotiated,   *)
(* sent in the same life of the device.                                    *)
THEOREM ReportFollowsSuccess == Spec => ReportedAfterSuccess
<1>1. TypeInv /\ CommissioningInv /\ [Next]_vars
      => [gpd.state = "SUCCESS_REQUEST" /\ gpd'.state = "OPERATIONAL" =>
            /\ op = "success" /\ deal # None
            /\ txMpdu.level = deal.level /\ aired = txMpdu.fc]_vars
  <2> SUFFICES ASSUME TypeInv, CommissioningInv, [Next]_vars,
                      gpd.state = "SUCCESS_REQUEST", gpd'.state = "OPERATIONAL"
               PROVE  /\ op = "success" /\ deal # None
                      /\ txMpdu.level = deal.level /\ aired = txMpdu.fc
    OBVIOUS
  <2>1. ReportCommissioned
    BY OnlyReported
  <2>2. Live /\ pc \notin {"send", "tx"}
    BY <2>1 DEF ReportCommissioned, StackPass, AtDispatch, Live
  <2> QED
    BY <2>2 DEF CommissioningInv, SuccessOut
<1> QED
  BY <1>1, TypeInvariant, CommissioningInvariant, PTL
     DEF Spec, ReportedAfterSuccess

-----------------------------------------------------------------------------
(* The key of secured frames.                                              *)

(* The key of every reply that reaches the device authenticates.           *)
ConformingSink == \A f \in Frames : f.type = "reply" => f.key # "corrupt"

(* Where frames are secured the CCM context holds the device key: the link *)
(* key that a commissioning request leaves there goes with level none.     *)
KeyInv ==
  /\ gpd.level = "full" => ccmKey = gpd.key
  /\ SecuredWithDeviceKey

(* One group of cases per part of the device; those that touch the key, the*)
(* level or the frame are SaveAndBuild, the three sends that clear the     *)
(* level, the boot and the replies.                                        *)
LEMMA KeyStep ==
  ConformingSink /\ TypeInv /\ CommissioningInv /\ KeyInv /\ [Next]_vars
  => KeyInv'
<1> SUFFICES ASSUME ConformingSink, gpd \in Gpds, FramePending, OneFrame,
                    KeyInv, [Next]_vars
             PROVE  KeyInv'
  BY DEF TypeInv, TypeOK, RamType, CommissioningInv
<1> USE DEF KeyInv, SecuredWithDeviceKey, Gpds, ramVars, taskVars
<1>1. CASE NoStackWork \/ Idle \/ StartTx \/ CloseWindow
  BY <1>1 DEF NoStackWork, Idle, StartTx, CloseWindow
<1>2. CASE ChannelRequestAll \/ ChannelRequestRx \/ AcNext \/ AcDone
  <2>1. CASE ChannelRequestAll
    BY <2>1 DEF ChannelRequestAll, BeginSend
  <2>2. CASE ChannelRequestRx
    BY <2>2 DEF ChannelRequestRx
  <2>3. CASE AcNext \/ AcDone
    BY <2>3 DEF AcNext, AcDone, BeginSend
  <2> QED
    BY <1>2, <2>1, <2>2, <2>3
<1>3. CASE RxHeard \/ RxRequest \/ RxExhausted \/ RxSent
  BY <1>3 DEF RxHeard, RxRequest, RxExhausted, RxSent, BeginSend
<1>4. CASE CommissioningRequest \/ CommissioningGivesUp \/ CommSent
  BY <1>4
     DEF CommissioningRequest, CommissioningGivesUp, CommSent, BeginSend
<1>5. CASE CommissioningSuccess \/ SuccessSent \/ ReportCommissioned
  BY <1>5 DEF CommissioningSuccess, SuccessSent, ReportCommissioned, BeginSend
<1>6. CASE SendToggle \/ ToggleSent
  BY <1>6 DEF SendToggle, ToggleSent, BeginSend
<1>7. CASE SaveAndBuild
  BY <1>7 DEF SaveAndBuild, Pdu
<1>8. CASE Store \/ PendTakes \/ PendBlocks \/ Wake \/ Timeout
  BY <1>8 DEF Store, PendTakes, PendBlocks, Wake, Timeout
<1>9. CASE Reset
  BY <1>9 DEF Reset, RamAtReset, DefaultGpd
<1>10. CASE BootLoad
  BY <1>10 DEF BootLoad, Restored, DefaultGpd
<1>11. CASE BootFresh
  BY <1>11 DEF BootFresh
<1>12. CASE Trap
  BY <1>12 DEF Trap
<1>13. CASE Command
  BY <1>13 DEF Command
<1>14. CASE ChannelConfig \/ FrameDropped
  BY <1>14 DEF ChannelConfig, FrameDropped
<1>15. CASE ReplyAccepted
  BY <1>15 DEF ReplyAccepted, LinkLayerTakes, OneFrame
<1>16. CASE ReplyRejected
  BY <1>16 DEF ReplyRejected, LinkLayerTakes, FramePending, ConformingSink
<1>17. CASE GpdAppTask \/ Return
  BY <1>17 DEF GpdAppTask, AppTakes, AppPosts, Return
<1>18. CASE \E f \in Frames : Receive(f)
  BY <1>18 DEF Receive
<1>19. CASE \E c \in Cmds : Issue(c)
  BY <1>19 DEF Issue
<1>20. CASE UNCHANGED vars
  BY <1>20 DEF vars
<1> QED
  BY <1>1, <1>2, <1>3, <1>4, <1>5, <1>6, <1>7, <1>8, <1>9, <1>10, <1>11,
     <1>12, <1>13, <1>14, <1>15, <1>16, <1>17, <1>18, <1>19, <1>20
     DEF Next, Boot, GpdTask, GpdLinklayerTask

(* As long as the sink's replies authenticate, every secured frame is      *)
(* secured with the key of the device, resets and failures included.       *)
THEOREM DeviceKeySecures ==
  ASSUME ConformingSink
  PROVE  Spec => []SecuredWithDeviceKey
<1>1. Init => KeyInv
  BY DEF Init, KeyInv, SecuredWithDeviceKey, DefaultGpd
<1>2. TypeInv /\ CommissioningInv /\ KeyInv /\ [Next]_vars => KeyInv'
  BY KeyStep
<1>3. KeyInv => SecuredWithDeviceKey
  BY DEF KeyInv
<1> QED
  BY <1>1, <1>2, <1>3, TypeInvariant, CommissioningInvariant, PTL DEF Spec

-----------------------------------------------------------------------------
(* gpdAppTask and GpdTask keep each other going.                           *)

(* A pass that leaves the local STACK bit set has stored the context, so   *)
(* EVT_WAITING is on offer when GpdTask comes to pend: gpdAppTask can take *)
(* it only once GpdTask is blocked, and then owes it EVT_HANDLED, a bit    *)
(* the pend waits for.                                                     *)
AwakeInv ==
  /\ pc = "pend" /\ "STACK" \in flags => "EVT_WAITING" \in osFlags
  /\ NeverAsleepOnWork
  /\ ReportNotMissed

(* GpdTask at work on a pass: the event is left alone, flags are only      *)
(* posted, and the pass is not over.                                       *)
AtWork ==
  /\ UNCHANGED <<evt, led>> /\ osFlags \subseteq osFlags'
  /\ pc \notin {"store", "trap"} /\ pc' \notin {"pend", "blocked"}

(* Such a step takes nothing from gpdAppTask.                              *)
LEMMA WorkKeepsAwake == AwakeInv /\ AtWork => AwakeInv'
BY DEF AwakeInv, AtWork, NeverAsleepOnWork, ReportNotMissed

(* The steps of the sequencer, but for the one that reports.               *)
LEMMA PassIsWork ==
  \/ Idle \/ ChannelRequestAll \/ ChannelRequestRx \/ CommissioningRequest
  \/ CommissioningGivesUp \/ CommissioningSuccess \/ SendToggle \/ Command
  => AtWork
<1> USE DEF AtWork, StackPass, AtDispatch, BeginSend, Post, flagVars, appVars
<1>1. CASE Idle
  BY <1>1 DEF Idle
<1>2. CASE ChannelRequestAll
  BY <1>2 DEF ChannelRequestAll
<1>3. CASE ChannelRequestRx
  BY <1>3 DEF ChannelRequestRx
<1>4. CASE CommissioningRequest
  BY <1>4 DEF CommissioningRequest
<1>5. CASE CommissioningGivesUp
  BY <1>5 DEF CommissioningGivesUp
<1>6. CASE CommissioningSuccess
  BY <1>6 DEF CommissioningSuccess
<1>7. CASE SendToggle
  BY <1>7 DEF SendToggle
<1>8. CASE Command
  BY <1>8 DEF Command
<1> QED
  BY <1>1, <1>2, <1>3, <1>4, <1>5, <1>6, <1>7, <1>8

(* So are those of emberAfGpdfSend and of its callers, and the boot.       *)
LEMMA SendIsWork ==
  \/ SaveAndBuild \/ StartTx \/ CloseWindow \/ AcNext \/ AcDone \/ RxHeard
  \/ RxRequest \/ RxExhausted \/ RxSent \/ CommSent \/ SuccessSent \/ ToggleSent
  \/ Boot
  => AtWork
<1> USE DEF AtWork, AfterSend, BeginSend, Post, flagVars, appVars
<1>1. CASE SaveAndBuild
  BY <1>1 DEF SaveAndBuild
<1>2. CASE StartTx
  BY <1>2 DEF StartTx
<1>3. CASE CloseWindow
  BY <1>3 DEF CloseWindow
<1>4. CASE AcNext
  BY <1>4 DEF AcNext
<1>5. CASE AcDone
  BY <1>5 DEF AcDone
<1>6. CASE RxHeard
  BY <1>6 DEF RxHeard
<1>7. CASE RxRequest
  BY <1>7 DEF RxRequest
<1>8. CASE RxExhausted
  BY <1>8 DEF RxExhausted
<1>9. CASE RxSent
  BY <1>9 DEF RxSent
<1>10. CASE CommSent
  BY <1>10 DEF CommSent
<1>11. CASE SuccessSent
  BY <1>11 DEF SuccessSent
<1>12. CASE ToggleSent
  BY <1>12 DEF ToggleSent
<1>13. CASE Boot
  BY <1>13 DEF Boot, BootLoad, BootFresh
<1> QED
  BY <1>1, <1>2, <1>3, <1>4, <1>5, <1>6, <1>7, <1>8, <1>9, <1>10, <1>11,
     <1>12, <1>13

(* The other tasks and the interrupt leave GpdTask where it is, take       *)
(* neither its bits nor EVT_WAITING, and have no event of their own.       *)
Elsewhere ==
  /\ UNCHANGED <<pc, flags, evt, led, app>>
  /\ "EVT_WAITING" \in osFlags => "EVT_WAITING" \in osFlags'
  /\ flagsRdy \subseteq flagsRdy'

LEMMA ElsewhereKeepsAwake == AwakeInv /\ Elsewhere => AwakeInv'
BY DEF AwakeInv, Elsewhere, NeverAsleepOnWork, ReportNotMissed

LEMMA OthersAreElsewhere ==
  ASSUME GpdLinklayerTask \/ Return \/ (\E f \in Frames : Receive(f))
                          \/ (\E c \in Cmds : Issue(c))
  PROVE  Elsewhere
<1> USE DEF Elsewhere, taskVars, appVars, flagVars
<1>1. CASE GpdLinklayerTask
  BY <1>1
     DEF GpdLinklayerTask, ChannelConfig, ReplyAccepted, ReplyRejected,
         FrameDropped, LinkLayerTakes
<1>2. CASE Return
  BY <1>2 DEF Return
<1>3. CASE \E f \in Frames : Receive(f)
  BY <1>3 DEF Receive, Post
<1>4. CASE \E c \in Cmds : Issue(c)
  BY <1>4 DEF Issue, Post
<1> QED
  BY <1>1, <1>2, <1>3, <1>4

(* Every step keeps AwakeInv.                                              *)
LEMMA AwakeStep == TypeInv /\ AwakeInv /\ [Next]_vars => AwakeInv'
<1> SUFFICES ASSUME TypeInv, AwakeInv, [Next]_vars PROVE AwakeInv'
  OBVIOUS
<1> USE DEF AwakeInv, NeverAsleepOnWork, ReportNotMissed, taskVars, flagVars,
            appVars
<1>1. CASE NoStackWork
  BY <1>1 DEF NoStackWork, AtDispatch
<1>2. CASE ReportCommissioned
  BY <1>2 DEF ReportCommissioned
<1>3. CASE Store
  BY <1>3 DEF Store, Post
<1>4. CASE PendTakes
  BY <1>4 DEF PendTakes, TaskBits
<1>5. CASE PendBlocks
  BY <1>5 DEF PendBlocks
<1>6. CASE Wake
  BY <1>6 DEF Wake, TypeInv, TypeOK, FlagType, TaskBits
<1>7. CASE Timeout
  BY <1>7 DEF Timeout
<1>8. CASE AppTakes
  BY <1>8 DEF AppTakes, AppRuns, TypeInv, TypeOK, AppType
<1>9. CASE AppPosts
  BY <1>9 DEF AppPosts, AppRuns, Post, TaskBits
<1>10. CASE Trap
  BY <1>10 DEF Trap
<1>11. CASE Reset
  BY <1>11, NodeAssumption DEF Reset, RamAtReset, NodeAssumption
<1>12. CASE UNCHANGED vars
  BY <1>12 DEF vars
<1> QED
  BY <1>1, <1>2, <1>3, <1>4, <1>5, <1>6, <1>7, <1>8, <1>9, <1>10, <1>11,
     <1>12, PassIsWork, SendIsWork, WorkKeepsAwake, OthersAreElsewhere,
     ElsewhereKeepsAwake
     DEF Next, GpdTask, GpdAppTask

LEMMA AwakeInvariant == Spec => []AwakeInv
<1>1. Init => AwakeInv
  BY NodeAssumption
     DEF Init, AwakeInv, NeverAsleepOnWork, ReportNotMissed, NodeAssumption
<1> QED
  BY <1>1, TypeInvariant, AwakeStep, PTL DEF Spec

(* GpdTask is never blocked over a state it has assigned itself without    *)
(* gpdAppTask about to wake it, for every sink and wherever a reset comes. *)
THEOREM NeverAsleep == Spec => []NeverAsleepOnWork
<1>1. AwakeInv => NeverAsleepOnWork
  BY DEF AwakeInv
<1> QED
  BY <1>1, AwakeInvariant, PTL

(* The single event slot loses no commissioned event: its flag is up, or   *)
(* about to be, until gpdAppTask has acted on it.                          *)
THEOREM NeverMissed == Spec => []ReportNotMissed
<1>1. AwakeInv => ReportNotMissed
  BY DEF AwakeInv
<1> QED
  BY <1>1, AwakeInvariant, PTL
=============================================================================
