------------------------------- MODULE GpdNwk -------------------------------
(***************************************************************************)
(* Frames: how the device builds and secures what it sends, how it parses  *)
(* what it hears, and the one CCM context and two nonces both use.  The    *)
(* format is written down four times in the code (header, security of a    *)
(* frame sent, parser, security of a frame received), each time as offsets *)
(* and lengths, some computed and some constant; here they meet.           *)
(*                                                                         *)
(* Bytes are counted, not spelled: buffer[0] holds the length, byte i is   *)
(* buffer[i].  A key, a command and an address are values.  The sequencer  *)
(* is GpdNode's: here its operations come in any order, each send with its *)
(* receive window is one step, and so is a frame heard.  Not modelled: the *)
(* type of the key and the sequence number, which the device does not read *)
(* back, and devices addressed by IEEE address (another build).            *)
(***************************************************************************)
EXTENDS Integers

CONSTANTS
  FCMod,         \* the frame counter is an unsigned FCMod-valued word
  Own,           \* EMBER_AF_PLUGIN_APPS_SRC_ID
  Heads,         \* the headers of the frames that may be heard
  None           \* no frame sent yet

Levels  == 0..3
Secured == {2, 3}                 \* LONG_AUTH_ONLY, LONG_FULL
Keys    == {"oob", "net", "zero", "tclk"}
Counters == 0..(FCMod - 1)
NoKey   == "none"

TAG_SIZE == 4
MAC_FOOTER_SIZE == 2
AUTH_START == 8                   \* EMBER_GPD_AUTH_START_SRC_ID
AUTH_FIXED_LEN == 10              \* EMBER_GPD_AUTH_FIXED_LEN_SRC_ID
MaxPayload == 59                  \* EMBER_GPD_SRC_ID_MAX_PAYLOAD_SIZE

(* What a frame that is heard says before its payload.  macLong: its       *)
(* addresses are long; toGpd: the direction bit.                           *)
HeadSet == [macLong : BOOLEAN, type : {"data", "maint"}, autoCom : BOOLEAN,
            ext : BOOLEAN, toGpd : BOOLEAN, rx : BOOLEAN, level : Levels,
            srcId : Nat]

ASSUME NwkAssumption ==
  /\ FCMod \in Nat \ {0} /\ Own \in Nat \ {0}
  /\ Heads \subseteq HeadSet
  (* Bits of the extension that is not there.                              *)
  /\ \A h \in Heads : ~h.ext => ~h.rx /\ h.level = 0

(* The commands the device acts on, and one it does not.                   *)
Replies == [cmd : {"reply"}, key : {"absent", "plain", "wrapped", "corrupt"}, level : Levels]
Commands == [cmd : {"config", "other"}] \cup Replies

VARIABLES
  gpd,           \* EmberGpd_t: level, key, rxAfterTx, autoCom, fc
  ccm,           \* the CCM context and nonceTx, nonceRx: key, tx, rx
  mpdu,          \* the frame last sent
  listened,      \* was a receive window opened after it?
  open           \* is it still open, with nothing heard?

vars == <<gpd, ccm, mpdu, listened, open>>

B(b) == IF b THEN 1 ELSE 0

-----------------------------------------------------------------------------
(* Building and securing.                                                  *)

Unsealed == [key |-> NoKey, nonce |-> 0, authAt |-> 0, authLen |-> 0, encLen |-> 0, micAt |-> 0]

Seal(c, authLen, encLen, micAt) ==
  [key |-> c.key, nonce |-> c.tx, authAt |-> AUTH_START, authLen |-> authLen,
   encLen |-> encLen, micAt |-> micAt]

MicLength(level) == IF level \in Secured THEN TAG_SIZE ELSE 0

(* gpdBuildHeader: MAC header, network frame control, its extension, the   *)
(* SrcId, the frame counter; the payload comes at index.  own is history:  *)
(* the key of the device, that the frame is to be secured with.            *)
gpdBuildHeader(g, cmd, size) ==
  LET ext == g.level > 0 \/ g.rxAfterTx
      index == 9 + B(ext) + 4 + (IF g.level \in Secured THEN 4 ELSE 0)
  IN [type |-> "data", autoCom |-> g.autoCom, ext |-> ext, rx |-> ext /\ g.rxAfterTx,
      level |-> g.level, own |-> g.key, fc |-> g.fc, cmd |-> cmd, at |-> index, size |-> size,
      length |-> index + 1 + size + MicLength(g.level)]

(* buildMaintHeader: enterRx is !autoCommissioning, and clears the bit.    *)
buildMaintHeader(g, cmd, size) ==
  [type |-> "maint", autoCom |-> g.autoCom, ext |-> FALSE, rx |-> FALSE,
   level |-> 0, own |-> g.key, fc |-> g.fc, cmd |-> cmd, at |-> 9, size |-> size,
   length |-> 9 + 1 + size]

(* The success frame does not announce a window, even if one follows.      *)
emberGpdBuildMpdu(g, cmd, size) ==
  [gpdBuildHeader(g, cmd, size) EXCEPT !.rx = @ /\ cmd # "success"]

(* emberGpdSecureOutgoingMPdu: the ranges that are authenticated and       *)
(* encrypted start where a secured header has its frame control, by        *)
(* constants; the MIC goes to the end.  What is written to the radio.      *)
emberGpdSecureOutgoingMPdu(f, c) ==
  LET mpduLength == f.at + f.size
  IN [header |-> f,
      seal |-> CASE f.level = 2 -> Seal(c, AUTH_FIXED_LEN + f.size, 0, mpduLength)
                 [] f.level = 3 -> Seal(c, AUTH_FIXED_LEN, f.size, mpduLength)
                 [] OTHER -> Unsealed,
      written |-> mpduLength + MicLength(f.level)]

emberBuildOutGoingPdu(type, g, c, cmd, size) ==
  emberGpdSecureOutgoingMPdu(
    IF type = "data" THEN emberGpdBuildMpdu(g, cmd, size) ELSE buildMaintHeader(g, cmd, size), c)

(* Slip: the nonces are set before the counter is incremented.             *)
SendStaleNonce(type, cmd, size, g, c) ==
  LET fc == (g.fc + 1) % FCMod
      sent == [g EXCEPT !.fc = fc]
      used == [c EXCEPT !.tx = g.fc, !.rx = g.fc]
  IN /\ gpd' = sent /\ ccm' = used
     /\ mpdu' = emberBuildOutGoingPdu(type, sent, used, cmd,
                                      IF size < MaxPayload THEN size ELSE MaxPayload)
     /\ listened' = g.rxAfterTx /\ open' = g.rxAfterTx

(* Slip: the counter does not wrap.                                        *)
SendUnwrapped(type, cmd, size, g, c) ==
  LET fc == g.fc + 1
      sent == [g EXCEPT !.fc = fc]
      used == [c EXCEPT !.tx = fc, !.rx = fc]
  IN /\ fc <= FCMod /\ gpd' = sent /\ ccm' = used
     /\ mpdu' = emberBuildOutGoingPdu(type, sent, used, cmd,
                                      IF size < MaxPayload THEN size ELSE MaxPayload)
     /\ listened' = g.rxAfterTx /\ open' = g.rxAfterTx

(* emberAfGpdfSend, in a context g and with a CCM context c that its       *)
(* caller has prepared: bump the counter, set both nonces, build,          *)
(* transmit, open the window if the context says so.                       *)
emberAfGpdfSend(type, cmd, size, g, c) ==
  LET fc == (g.fc + 1) % FCMod
      sent == [g EXCEPT !.fc = fc]
      used == [c EXCEPT !.tx = fc, !.rx = fc]
  IN /\ gpd' = sent /\ ccm' = used
     /\ mpdu' = emberBuildOutGoingPdu(type, sent, used, cmd,
                                      IF size < MaxPayload THEN size ELSE MaxPayload)
     /\ listened' = g.rxAfterTx /\ open' = g.rxAfterTx

-----------------------------------------------------------------------------
(* Parsing.  A frame that is heard: its head, the command it carries, the  *)
(* key and counter it was sealed with, and where the layout of the format  *)
(* puts its parts.                                                         *)

FcOffset(h) == IF h.macLong THEN 14 ELSE 8
AddrLen(h)  == IF h.type = "data" THEN 4 ELSE 0
PayloadAt(h) == FcOffset(h) + 1 + B(h.ext) + AddrLen(h) + MicLength(h.level)
Length(h, size) == PayloadAt(h) + size - 1 + MicLength(h.level) + MAC_FOOTER_SIZE

(* What a sink seals: the network header, and the payload in clear or not. *)
SinkSeal(h, size, key, fc) ==
  LET header == PayloadAt(h) - FcOffset(h)
  IN [key |-> key, nonce |-> fc, authAt |-> FcOffset(h),
      authLen |-> header + (IF h.level = 2 THEN size ELSE 0),
      encLen |-> IF h.level = 3 THEN size ELSE 0, micAt |-> PayloadAt(h) + size]

(* A frame may come with the seal of a sink, whatever its key and counter  *)
(* (those of an earlier answer), or with none, whatever its header says.   *)
Seals(h, size) ==
  {SinkSeal(h, size, key, fc) : key \in Keys, fc \in Counters} \cup {Unsealed}

nwkPayloadLength(h, size) == Length(h, size) - MAC_FOOTER_SIZE

(* Slip: a frame without the extension is taken for one of ours.           *)
DropsOnlyAddressed(h, size) ==
  \/ nwkPayloadLength(h, size) < 8
  \/ h.ext /\ ~h.toGpd
  \/ h.ext /\ h.rx /\ h.autoCom
  \/ h.type = "data" /\ h.ext /\ h.srcId # Own

(* The early returns of emberGpdIncomingMessageHandler.  A data frame      *)
(* without the extension has the address 0.                                *)
Drops(h, size) ==
  \/ nwkPayloadLength(h, size) < 8
  \/ h.ext /\ ~h.toGpd
  \/ h.ext /\ h.rx /\ h.autoCom
  \/ h.type = "data" /\ (IF h.ext THEN h.srcId ELSE 0) # Own

(* currentFinger, where the payload is looked for, and how long it is.     *)
Finger(h) ==
  FcOffset(h) + 1 + B(h.ext) + (IF h.ext THEN AddrLen(h) ELSE 0) + MicLength(h.level)
gpdfAppPayloadLength(h, size) ==
  nwkPayloadLength(h, size) - (Finger(h) + MicLength(h.level) - 1)

(* Slip: the first byte of the frame is counted as if it were buffer[0].   *)
RxSealShort(h, size, c) ==
  LET encLen == nwkPayloadLength(h, size) - AUTH_START - AUTH_FIXED_LEN - TAG_SIZE
  IN [key |-> c.key, nonce |-> c.rx, authAt |-> AUTH_START, authLen |-> AUTH_FIXED_LEN,
      encLen |-> encLen, micAt |-> AUTH_START + AUTH_FIXED_LEN + encLen]

(* The ranges emberDecryptRxBuffer is called with at level LONG_FULL: from *)
(* the frame control of a frame with short addresses.                      *)
RxSeal(h, size, c) ==
  LET encLen == nwkPayloadLength(h, size) - AUTH_START + 1 - AUTH_FIXED_LEN - TAG_SIZE
  IN [key |-> c.key, nonce |-> c.rx, authAt |-> AUTH_START, authLen |-> AUTH_FIXED_LEN,
      encLen |-> encLen, micAt |-> AUTH_START + AUTH_FIXED_LEN + encLen]

(* A data frame at level LONG_FULL that does not authenticate is zeroed.   *)
(* Nothing else is decrypted, maintenance frames at that level included;   *)
(* at LONG_AUTH_ONLY the result of the test is not looked at.  (A payload  *)
(* that is still enciphered is read too, as whatever its bytes say, which  *)
(* is what a frame in clear may carry.)                                    *)
Readable(h, size, seal, c) ==
  IF h.level = 3 /\ h.type = "data" THEN RxSeal(h, size, c) = seal ELSE seal.encLen = 0

(* Does the device act on what the frame carries?                          *)
Hears(h, size, seal, c) ==
  /\ ~Drops(h, size)
  /\ gpdfAppPayloadLength(h, size) > 0
  /\ Readable(h, size, seal, c)

-----------------------------------------------------------------------------
(* The operations.                                                         *)

Init ==
  /\ gpd = [level |-> 3, key |-> "oob", rxAfterTx |-> TRUE, autoCom |-> FALSE, fc |-> 0]
  /\ ccm = [key |-> "oob", tx |-> 0, rx |-> 0]
  /\ mpdu = None /\ listened = FALSE /\ open = FALSE

(* A restart: the context is the default one with what was saved, and      *)
(* emberGpdSecurityInit sets key and nonces.                               *)
Restart ==
  /\ gpd' = [gpd EXCEPT !.rxAfterTx = TRUE, !.autoCom = FALSE]
  /\ ccm' = [key |-> gpd.key, tx |-> gpd.fc, rx |-> gpd.fc]
  /\ open' = FALSE
  /\ UNCHANGED <<mpdu, listened>>

(* Slip: autoCommissioning is not set.                                     *)
ChannelRequestSilent ==
  emberAfGpdfSend("maint", "channelRequest", 2,
                  [gpd EXCEPT !.level = 0, !.rxAfterTx = FALSE], ccm)

(* gpdCommissioningChannelRequestStateOnAllChannel: one of its requests.   *)
ChannelRequestOnAllChannel ==
  emberAfGpdfSend("maint", "channelRequest", 2,
                  [gpd EXCEPT !.level = 0, !.rxAfterTx = FALSE, !.autoCom = TRUE], ccm)

(* gpdCommissioningChannelRequestOnRxChannel: one of its requests.         *)
ChannelRequestOnRxChannel ==
  emberAfGpdfSend("maint", "channelRequest", 2,
                  [gpd EXCEPT !.level = 0, !.rxAfterTx = TRUE, !.autoCom = FALSE], ccm)

(* The key in the command is wrapped under the link key, with the SrcId    *)
(* for a counter: emberGpdSecurityEncryptKey leaves both behind.           *)
sendCommissioningRequest ==
  emberAfGpdfSend("data", "commissioning", 28, [gpd EXCEPT !.level = 0],
                  [ccm EXCEPT !.key = "tclk", !.tx = Own % FCMod])

sendSuccess == emberAfGpdfSend("data", "success", 1, gpd, ccm)
sendToggle  == emberAfGpdfSend("data", "toggle", 1, gpd, ccm)

(* Slip: the key a reply brings is not loaded.                             *)
ProcessReplyUnloaded(p, fc) ==
  LET key == CASE p.key = "absent" -> gpd.key [] p.key = "corrupt" -> "zero" [] OTHER -> "net"
      rx == IF p.key \in {"wrapped", "corrupt"} THEN fc ELSE ccm.rx
      opened == IF p.key \in {"wrapped", "corrupt"} THEN "tclk" ELSE ccm.key
  IN /\ gpd' = [gpd EXCEPT !.key = key, !.level = IF p.key = "corrupt" THEN @ ELSE p.level]
     /\ ccm' = [ccm EXCEPT !.key = opened, !.rx = rx]

(* emberGpdProcessCommissioningReply: a wrapped key comes with the counter *)
(* of the sink, which becomes that of nonceRx; one that does not           *)
(* authenticate has wiped the key, and the link key stays loaded.          *)
ProcessReply(p, fc) ==
  LET key == CASE p.key = "absent" -> gpd.key [] p.key = "corrupt" -> "zero" [] OTHER -> "net"
      rx == IF p.key \in {"wrapped", "corrupt"} THEN fc ELSE ccm.rx
  IN IF p.key = "corrupt"
       THEN gpd' = [gpd EXCEPT !.key = key] /\ ccm' = [ccm EXCEPT !.key = "tclk", !.rx = rx]
       ELSE /\ gpd' = [gpd EXCEPT !.key = key, !.level = p.level]
            /\ ccm' = [ccm EXCEPT !.key = key, !.rx = rx]

SizeOf(p) ==
  IF p.cmd = "reply" /\ p.key = "plain" THEN 18
  ELSE IF p.cmd = "reply" /\ p.key # "absent" THEN 26 ELSE 2

(* A frame is heard ...                                                    *)
Receive(p, fc) ==
  /\ open /\ open' = FALSE
  /\ {h \in Heads : \E seal \in Seals(h, SizeOf(p)) : Hears(h, SizeOf(p), seal, ccm)} # {}
  /\ IF p.cmd = "reply" THEN ProcessReply(p, fc) ELSE UNCHANGED <<gpd, ccm>>
  /\ UNCHANGED <<mpdu, listened>>

(* ... or nothing, or one that is dropped.                                 *)
CloseWindow ==
  /\ open /\ open' = FALSE
  /\ UNCHANGED <<gpd, ccm, mpdu, listened>>

Next ==
  \/ Restart \/ ChannelRequestOnAllChannel \/ ChannelRequestOnRxChannel
  \/ sendCommissioningRequest \/ sendSuccess \/ sendToggle \/ CloseWindow
  \/ \E p \in Commands, fc \in Counters : Receive(p, fc)

Spec == Init /\ [][Next]_vars

-----------------------------------------------------------------------------
Gpds == [level : Levels, key : Keys, rxAfterTx : BOOLEAN, autoCom : BOOLEAN, fc : Counters]

(* Every variable has its type; only a frame that was followed by a window *)
(* can be waiting for an answer.                                           *)
TypeOK ==
  /\ gpd \in Gpds
  /\ ccm \in [key : Keys, tx : Nat, rx : Counters]
  /\ listened \in BOOLEAN /\ open \in BOOLEAN
  /\ open => listened

(* A sink answers a frame that announces a window: in the extension of a   *)
(* data frame, or by a clear bit for auto-commissioning in a maintenance   *)
(* frame.                                                                  *)
Announces(f) == IF f.type = "data" THEN f.ext /\ f.rx ELSE ~f.autoCom

(* The device listens after every frame that announces it, and never       *)
(* unannounced, but for the success frame (gpd-nwk.c:130): two bits of the *)
(* header and the flag emberAfGpdfSend looks at come from three fields     *)
(* that commissioning sets, clears and leaves behind in any order.         *)
ListensAsAnnounced ==
  mpdu # None =>
    /\ Announces(mpdu.header) => listened
    /\ listened => Announces(mpdu.header) \/ mpdu.header.cmd = "success"

(* The keys a CCM context may hold in a device at this level with this     *)
(* key: its own wherever it secures frames, unless a reply that did not    *)
(* authenticate has wiped it (gpd-apps-commission.c:473); else the link    *)
(* key as well, which a commissioning request leaves behind.               *)
KeysInUse(level, key) == IF level \in Secured /\ key # "zero" THEN {key} ELSE {key, "tclk"}

(* Every frame reads back as it was meant: the payload is where a parser   *)
(* of the header finds it, the first byte is the length of what is written *)
(* to the radio, and a secured frame is sealed where the format says, over *)
(* its own header and payload, under the counter it carries and the key    *)
(* the device had when it was sent (unless that was wiped), although       *)
(* ranges are constants and nonce and key have other users.                *)
ReadsBack ==
  mpdu # None =>
    LET f == mpdu.header
        h == [macLong |-> FALSE, type |-> f.type, ext |-> f.ext, level |-> f.level]
    IN /\ f.at = PayloadAt(h) /\ f.length = Length(h, f.size)
       /\ mpdu.written = f.length - 1
       /\ IF f.level \in Secured
            THEN \E key \in KeysInUse(f.level, f.own) : mpdu.seal = SinkSeal(h, f.size, key, f.fc)
            ELSE mpdu.seal = Unsealed

(* What the device acts on it has read whole, from its first byte to its   *)
(* last; and a data frame that says it is secured in full was sealed, over *)
(* all of it, under the key in use and the counter of the last frame sent: *)
(* a late answer to an earlier one is not taken for it.  Nothing of the    *)
(* kind holds of other frames: data frames at lower levels are not         *)
(* authenticated, nor are maintenance frames, which gpd-nwk.c:361 leaves   *)
(* to be dropped when they say they are secured.                           *)
HearsWhole ==
  open =>
    \A h \in Heads, size \in {2, 18, 26} : \A seal \in Seals(h, size) :
      Hears(h, size, seal, ccm) =>
        /\ Finger(h) = PayloadAt(h) /\ gpdfAppPayloadLength(h, size) = size
        /\ h.type = "data" /\ h.level = 3 =>
             \E key \in KeysInUse(gpd.level, gpd.key) : seal = SinkSeal(h, size, key, gpd.fc)

(* A sink that addresses the device in the format it uses itself: secured  *)
(* only if the device is, and maintenance frames never.                    *)
Conforms(h) ==
  /\ ~h.macLong /\ ~(h.autoCom /\ h.rx) /\ h.toGpd
  /\ h.type = "data" => h.ext /\ h.srcId = Own
  /\ h.level \in Secured => h.type = "data" /\ gpd.level \in Secured

(* Its answer to the last frame sent, under the key of the device, is      *)
(* heard: sending has left the CCM context and the nonce of reception as   *)
(* the answer needs them (unless the key was wiped).                       *)
HearsAnswers ==
  open /\ gpd.key # "zero" =>
    \A h \in Heads, size \in {2, 18, 26} :
      Conforms(h) => Hears(h, size, SinkSeal(h, size, gpd.key, gpd.fc), ccm)
=============================================================================
