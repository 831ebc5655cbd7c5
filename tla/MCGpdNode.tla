------------------------------ MODULE MCGpdNode ------------------------------
(***************************************************************************)
(* Small instances of GpdNode: a 3-value frame counter, two channels in    *)
(* the all-channels pass, one of them the receive channel, two requests    *)
(* per receive pass and two commissioning requests.                        *)
(***************************************************************************)
EXTENDS GpdNode

MCAcSeq == <<12, 11>>

Config(c)   == [type |-> "channelConfig", ch |-> c]
Reply(k, l) == [type |-> "reply", key |-> k, level |-> l]

(* Every command the device acts on that a sink, or a corrupted link, may  *)
(* deliver (a dropped frame, which only uses up a window, is in the        *)
(* liveness instance).                                                     *)
AllFrames ==
  {Config(15), Reply("absent", "none"), Reply("net", "full"), Reply("corrupt", "full")}

(* What a conforming sink delivers.                                        *)
SinkFrames == {Config(15), Reply("net", "full")}

(* A conforming sink, and other traffic in the receive window.             *)
NoisyFrames == SinkFrames \cup {[type |-> "other"]}

AllFaults == FaultKinds
NoFaults  == {}
=============================================================================
