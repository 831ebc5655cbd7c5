---------------------------- MODULE GpdNwkProofs ----------------------------
(***************************************************************************)
(* What GpdNwk promises of frames and windows, for every counter width,    *)
(* every address and every set of headers.  Whatever a frame is built from *)
(* reads back if its nonce is its counter and its key one in use           *)
(* (DataReadsBack, MaintReadsBack, BuiltWell), and headers that pass the   *)
(* parser are those its constants fit (HeardWhole): these are facts about  *)
(* the operators.  The invariant adds what ties them to the state: the two *)
(* bits that announce a window are opposite; while one is open the nonce   *)
(* of reception is the counter of the last frame; and the CCM context      *)
(* holds the key of the device wherever the level asks for one, as whoever *)
(* loads the link key lowers the level, and whoever raises the level loads *)
(* the key (but for a reply that does not authenticate).                   *)
(***************************************************************************)
EXTENDS GpdNwk, TLAPS

Ccms == [key : Keys, tx : Nat, rx : Counters]

(* What ReadsBack and ListensAsAnnounced say of one frame.                 *)
Reads(m) ==
  LET f == m.header
      h == [macLong |-> FALSE, type |-> f.type, ext |-> f.ext, level |-> f.level]
  IN /\ f.at = PayloadAt(h) /\ f.length = Length(h, f.size)
     /\ m.written = f.length - 1
     /\ IF f.level \in Secured
          THEN \E key \in KeysInUse(f.level, f.own) : m.seal = SinkSeal(h, f.size, key, f.fc)
          ELSE m.seal = Unsealed

Announced(m, w) ==
  /\ Announces(m.header) => w
  /\ w => Announces(m.header) \/ m.header.cmd = "success"

NwkInv ==
  /\ TypeOK
  /\ gpd.autoCom = ~gpd.rxAfterTx
  /\ ccm.key \in KeysInUse(gpd.level, gpd.key)
  /\ open => ccm.rx = gpd.fc
  /\ mpdu # None => Announced(mpdu, listened) /\ Reads(mpdu)

(* A counter, incremented, is a counter.                                   *)
LEMMA Wraps == ASSUME NEW n \in Nat PROVE n % FCMod \in Counters
  BY NwkAssumption DEF NwkAssumption, Counters

(* A data frame reads back, sealed or not, if its nonce is its counter and *)
(* the key in the CCM context one the device may use at its level.         *)
LEMMA DataReadsBack ==
  ASSUME NEW g \in Gpds, NEW c \in Ccms, c.tx = g.fc, c.key \in KeysInUse(g.level, g.key),
         NEW cmd, NEW size \in Nat
  PROVE  Reads(emberGpdSecureOutgoingMPdu(emberGpdBuildMpdu(g, cmd, size), c))
<1> DEFINE f == emberGpdBuildMpdu(g, cmd, size)
           h == [macLong |-> FALSE, type |-> f.type, ext |-> f.ext, level |-> f.level]
           m == emberGpdSecureOutgoingMPdu(f, c)
           mic == MicLength(g.level)
<1>1. /\ g.level \in Levels /\ g.rxAfterTx \in BOOLEAN /\ g.fc \in Nat
      /\ mic = IF g.level \in Secured THEN 4 ELSE 0
  BY NwkAssumption DEF Gpds, MicLength, TAG_SIZE, NwkAssumption, Counters
<1>2. /\ f.type = "data" /\ f.level = g.level /\ f.fc = g.fc /\ f.size = size
      /\ f.own = g.key
      /\ f.ext = (g.level > 0 \/ g.rxAfterTx)
      /\ f.at = 13 + B(f.ext) + mic
      /\ f.length = f.at + 1 + size + mic
  <2> DEFINE ext == g.level > 0 \/ g.rxAfterTx
             d == gpdBuildHeader(g, cmd, size)
  <2>1. /\ d.type = "data" /\ d.level = g.level /\ d.fc = g.fc /\ d.size = size
        /\ d.own = g.key
        /\ d.ext = ext
        /\ d.at = 9 + B(ext) + 4 + (IF g.level \in Secured THEN 4 ELSE 0)
        /\ d.length = d.at + 1 + size + MicLength(g.level)
    BY DEF gpdBuildHeader
  <2>2. /\ f.type = d.type /\ f.level = d.level /\ f.fc = d.fc /\ f.size = d.size
        /\ f.ext = d.ext /\ f.at = d.at /\ f.length = d.length /\ f.own = d.own
    BY DEF emberGpdBuildMpdu, gpdBuildHeader
  <2>3. f.ext = ext /\ f.at = 9 + B(f.ext) + 4 + mic
    BY <1>1, <2>1, <2>2
  <2>4. B(f.ext) \in {0, 1}
    BY DEF B
  <2>5. f.at = 13 + B(f.ext) + mic
    BY <1>1, <2>3, <2>4
  <2>6. QED BY <2>1, <2>2, <2>3, <2>5
<1>3. PayloadAt(h) = 13 + B(f.ext) + mic
  BY <1>1, <1>2 DEF PayloadAt, FcOffset, AddrLen, B, MicLength, TAG_SIZE
<1>4. /\ m.header = f /\ m.written = f.at + size + mic
      /\ m.seal = CASE f.level = 2 -> Seal(c, AUTH_FIXED_LEN + f.size, 0, f.at + f.size)
                    [] f.level = 3 -> Seal(c, AUTH_FIXED_LEN, f.size, f.at + f.size)
                    [] OTHER -> Unsealed
  BY <1>2 DEF emberGpdSecureOutgoingMPdu
<1>5. Length(h, size) = f.length
  BY <1>1, <1>2, <1>3 DEF Length, MAC_FOOTER_SIZE, B, MicLength
<1>6. m.written = f.length - 1
  BY <1>1, <1>2, <1>4 DEF B
<1>7. m.seal = IF f.level \in Secured THEN SinkSeal(h, f.size, c.key, f.fc) ELSE Unsealed
  <2>1. CASE f.level \notin Secured
    BY <2>1, <1>4 DEF Secured
  <2>2. CASE f.level \in Secured
    <3>1. f.ext = TRUE /\ mic = 4 /\ f.at = 18 /\ PayloadAt(h) = 18 /\ FcOffset(h) = 8
      <4>1. g.level \in {2, 3} /\ mic = 4
        BY <2>2, <1>1, <1>2 DEF Secured
      <4>2. f.ext = TRUE
        <5>1. g.level > 0
          BY <4>1
        <5>2. QED BY <5>1, <1>2, Zenon
      <4>3. B(f.ext) = 1
        BY <4>2 DEF B
      <4>4. FcOffset(h) = 8
        BY DEF FcOffset
      <4>5. QED BY <4>1, <4>2, <4>3, <4>4, <1>2, <1>3
    <3>2. CASE f.level = 2
      BY <3>1, <3>2, <2>2, <1>1, <1>2, <1>4
      DEF Seal, SinkSeal, AUTH_START, AUTH_FIXED_LEN
    <3>3. CASE f.level = 3
      BY <3>1, <3>3, <2>2, <1>1, <1>2, <1>4
      DEF Seal, SinkSeal, AUTH_START, AUTH_FIXED_LEN
    <3>4. QED BY <3>2, <3>3, <2>2 DEF Secured
  <2>3. QED BY <2>1, <2>2
<1>8. f.at = PayloadAt(h) /\ Length(h, f.size) = f.length
  BY <1>2, <1>3, <1>5
<1>9. c.key \in KeysInUse(f.level, f.own)
  BY <1>2
<1>10. QED BY <1>4, <1>6, <1>7, <1>8, <1>9 DEF Reads

(* A maintenance frame reads back; it is not sealed.                       *)
LEMMA MaintReadsBack ==
  ASSUME NEW g, NEW c, NEW cmd, NEW size \in Nat
  PROVE  Reads(emberGpdSecureOutgoingMPdu(buildMaintHeader(g, cmd, size), c))
BY DEF Reads, emberGpdSecureOutgoingMPdu, buildMaintHeader, Secured, PayloadAt, FcOffset,
       AddrLen, B, MicLength, Length, MAC_FOOTER_SIZE

(* A frame built in a context that announces a window by one of two        *)
(* opposite bits, under a nonce that is its counter, announces a window if *)
(* the context asks for one, and reads back.                               *)
LEMMA BuiltWell ==
  ASSUME NEW type \in {"data", "maint"}, NEW cmd, NEW s \in Nat,
         cmd = "success" => type = "data",
         NEW g2 \in Gpds, NEW c2 \in Ccms,
         g2.autoCom = ~g2.rxAfterTx, c2.tx = g2.fc, c2.key \in KeysInUse(g2.level, g2.key),
         NEW m, m = emberBuildOutGoingPdu(type, g2, c2, cmd, s)
  PROVE  Announced(m, g2.rxAfterTx) /\ Reads(m)
<1>1. CASE type = "data"
  <2> DEFINE f == emberGpdBuildMpdu(g2, cmd, s)
  <2>1. m = emberGpdSecureOutgoingMPdu(f, c2)
    BY <1>1 DEF emberBuildOutGoingPdu
  <2>2. Reads(m)
    BY <2>1, DataReadsBack
  <2>3. m.header = f
    BY <2>1 DEF emberGpdSecureOutgoingMPdu
  <2>4. Announced(m, g2.rxAfterTx)
    <3> DEFINE d == gpdBuildHeader(g2, cmd, s)
    <3>1. /\ d.type = "data" /\ d.cmd = cmd
          /\ d.ext <=> g2.level > 0 \/ g2.rxAfterTx
          /\ d.rx <=> d.ext /\ g2.rxAfterTx
      BY DEF gpdBuildHeader
    <3>2. /\ f.type = d.type /\ f.cmd = d.cmd /\ f.ext = d.ext
          /\ f.rx <=> d.rx /\ cmd # "success"
      BY DEF emberGpdBuildMpdu, gpdBuildHeader
    <3>3. Announces(f) <=> g2.rxAfterTx /\ cmd # "success"
      BY <3>1, <3>2 DEF Announces
    <3>4. f.cmd = cmd
      BY <3>1, <3>2
    <3>5. QED BY <2>3, <3>3, <3>4 DEF Announced
  <2>5. QED BY <2>2, <2>4
<1>2. CASE type = "maint"
  <2> DEFINE f == buildMaintHeader(g2, cmd, s)
  <2>1. m = emberGpdSecureOutgoingMPdu(f, c2)
    BY <1>2 DEF emberBuildOutGoingPdu
  <2>2. Reads(m)
    BY <2>1, MaintReadsBack
  <2>3. m.header = f
    BY <2>1 DEF emberGpdSecureOutgoingMPdu
  <2>4. Announces(f) <=> g2.rxAfterTx
    BY DEF Announces, buildMaintHeader, Gpds
  <2>5. Announced(m, g2.rxAfterTx)
    BY <2>3, <2>4 DEF Announced
  <2>6. QED BY <2>2, <2>5
<1>3. QED BY <1>1, <1>2

-----------------------------------------------------------------------------
(* The device starts able to listen, with nothing sent.                    *)
LEMMA InitInv == Init => NwkInv
<1> SUFFICES ASSUME Init PROVE NwkInv
  OBVIOUS
<1>1. 0 \in Counters
  BY NwkAssumption DEF NwkAssumption, Counters
<1>2. gpd \in Gpds /\ gpd.autoCom = ~gpd.rxAfterTx
  <2>1. gpd.autoCom = FALSE /\ gpd.rxAfterTx = TRUE
    BY DEF Init
  <2>2. gpd \in Gpds
    BY <1>1 DEF Init, Gpds, Levels, Keys
  <2>3. QED BY <2>1, <2>2
<1>3. ccm \in [key : Keys, tx : Nat, rx : Counters]
  BY <1>1 DEF Init, Keys
<1>4. ccm.key \in KeysInUse(gpd.level, gpd.key)
  BY DEF Init, KeysInUse
<1>5. QED BY <1>2, <1>3, <1>4 DEF Init, NwkInv, TypeOK

(* One send, from a context and a CCM context derived from the current ones. *)
LEMMA SendKeeps ==
  ASSUME NEW type \in {"data", "maint"}, NEW cmd, NEW size \in Nat,
         cmd = "success" => type = "data"
  PROVE  \A g \in Gpds, c \in Ccms :
           /\ g.autoCom = ~g.rxAfterTx /\ c.key \in KeysInUse(g.level, g.key)
           /\ emberAfGpdfSend(type, cmd, size, g, c)
           => NwkInv'
<1> SUFFICES ASSUME NEW g \in Gpds, NEW c \in Ccms, g.autoCom = ~g.rxAfterTx,
                    c.key \in KeysInUse(g.level, g.key),
                    emberAfGpdfSend(type, cmd, size, g, c)
             PROVE  NwkInv'
  OBVIOUS
<1>1. /\ gpd' = [g EXCEPT !.fc = (g.fc + 1) % FCMod]
      /\ ccm' = [c EXCEPT !.tx = (g.fc + 1) % FCMod, !.rx = (g.fc + 1) % FCMod]
      /\ mpdu' = emberBuildOutGoingPdu(type, gpd', ccm', cmd,
                                       IF size < MaxPayload THEN size ELSE MaxPayload)
      /\ listened' = g.rxAfterTx /\ open' = g.rxAfterTx
  BY DEF emberAfGpdfSend
<1>2. /\ (g.fc + 1) % FCMod \in Counters /\ Counters \subseteq Nat
  BY Wraps, NwkAssumption DEF Gpds, Counters, NwkAssumption
<1>3. /\ gpd' \in Gpds /\ gpd'.autoCom = g.autoCom /\ gpd'.rxAfterTx = g.rxAfterTx
      /\ gpd'.fc = (g.fc + 1) % FCMod /\ gpd'.level = g.level /\ gpd'.key = g.key
  BY <1>1, <1>2 DEF Gpds
<1>4. /\ ccm' \in Ccms /\ ccm'.tx = (g.fc + 1) % FCMod /\ ccm'.rx = (g.fc + 1) % FCMod
      /\ ccm'.key = c.key
  BY <1>1, <1>2 DEF Ccms
<1>5. (IF size < MaxPayload THEN size ELSE MaxPayload) \in Nat
  BY DEF MaxPayload
<1>6. Announced(mpdu', gpd'.rxAfterTx) /\ Reads(mpdu')
  <2>1. gpd'.autoCom = ~gpd'.rxAfterTx
    BY <1>3, Zenon
  <2>2. ccm'.key \in KeysInUse(gpd'.level, gpd'.key)
    BY <1>3, <1>4
  <2>3. QED BY <1>1, <1>3, <1>4, <1>5, <2>1, <2>2, BuiltWell
<1>7. g.rxAfterTx \in BOOLEAN
  BY DEF Gpds
<1>8. TypeOK'
  BY <1>1, <1>3, <1>4, <1>7 DEF TypeOK, Ccms
<1>9. Announced(mpdu', listened') /\ Reads(mpdu')
  BY <1>1, <1>3, <1>6, Zenon
<1>10. ccm'.key \in KeysInUse(gpd'.level, gpd'.key)
  BY <1>3, <1>4
<1>11. QED BY <1>1, <1>3, <1>4, <1>8, <1>9, <1>10 DEF NwkInv, Announced, Reads

(* The context of a channel request is a context.                          *)
LEMMA SetsBits ==
  ASSUME NEW x \in Gpds, NEW l \in Levels, NEW r \in BOOLEAN, NEW a \in BOOLEAN
  PROVE  [x EXCEPT !.level = l, !.rxAfterTx = r, !.autoCom = a] \in Gpds
BY DEF Gpds

(* At level 0 the CCM context may hold any key it may hold at all.         *)
LEMMA AnyKeyUnsecured ==
  ASSUME NEW level, NEW key, NEW k \in KeysInUse(level, key) PROVE k \in KeysInUse(0, key)
BY DEF KeysInUse, Secured

(* Every operation keeps the invariant: all but replies and restarts are   *)
(* one send.                                                               *)
LEMMA StepKeeps == NwkInv /\ [Next]_vars => NwkInv'
<1> SUFFICES ASSUME NwkInv, [Next]_vars PROVE NwkInv'
  OBVIOUS
<1>1. /\ TypeOK /\ gpd \in Gpds /\ ccm \in Ccms /\ gpd.autoCom = ~gpd.rxAfterTx
      /\ ccm.key \in KeysInUse(gpd.level, gpd.key)
      /\ mpdu # None => Announced(mpdu, listened) /\ Reads(mpdu)
  BY DEF NwkInv, TypeOK, Ccms
<1>2. CASE Restart
  <2>1. gpd' \in Gpds /\ gpd'.autoCom = FALSE /\ gpd'.rxAfterTx = TRUE
    BY <1>1, <1>2 DEF Restart, Gpds
  <2>2. ccm' \in Ccms
    BY <1>1, <1>2, NwkAssumption DEF Restart, Ccms, Gpds, Counters, NwkAssumption
  <2>3. TypeOK'
    BY <1>1, <1>2, <2>1, <2>2 DEF Restart, TypeOK, Ccms
  <2>4. ccm'.key \in KeysInUse(gpd'.level, gpd'.key)
    BY <1>1, <1>2 DEF Restart, Gpds, KeysInUse
  <2>5. QED BY <1>1, <1>2, <2>1, <2>3, <2>4 DEF Restart, NwkInv, Announced, Reads
<1>3. CASE ChannelRequestOnAllChannel
  <2> DEFINE g == [gpd EXCEPT !.level = 0, !.rxAfterTx = FALSE, !.autoCom = TRUE]
  <2>1. g \in Gpds /\ g.autoCom = TRUE /\ g.rxAfterTx = FALSE
    <3>1. gpd \in Gpds
      BY <1>1
    <3>2. g \in Gpds
      <4>1. 0 \in Levels
        BY DEF Levels
      <4>2. QED BY <3>1, <4>1, SetsBits, Zenon
    <3>3. g.autoCom = TRUE /\ g.rxAfterTx = FALSE
      BY <3>1 DEF Gpds
    <3>4. QED BY <3>2, <3>3
  <2>2. emberAfGpdfSend("maint", "channelRequest", 2, g, ccm)
    BY <1>3 DEF ChannelRequestOnAllChannel
  <2>3. ccm.key \in KeysInUse(g.level, g.key)
    BY <1>1, AnyKeyUnsecured DEF Gpds
  <2> HIDE DEF g
  <2>4. QED BY <1>1, <2>1, <2>2, <2>3, SendKeeps
<1>4. CASE ChannelRequestOnRxChannel
  <2> DEFINE g == [gpd EXCEPT !.level = 0, !.rxAfterTx = TRUE, !.autoCom = FALSE]
  <2>1. g \in Gpds /\ g.autoCom = FALSE /\ g.rxAfterTx = TRUE
    <3>1. gpd \in Gpds
      BY <1>1
    <3>2. g \in Gpds
      <4>1. 0 \in Levels
        BY DEF Levels
      <4>2. QED BY <3>1, <4>1, SetsBits, Zenon
    <3>3. g.autoCom = FALSE /\ g.rxAfterTx = TRUE
      BY <3>1 DEF Gpds
    <3>4. QED BY <3>2, <3>3
  <2>2. emberAfGpdfSend("maint", "channelRequest", 2, g, ccm)
    BY <1>4 DEF ChannelRequestOnRxChannel
  <2>3. ccm.key \in KeysInUse(g.level, g.key)
    BY <1>1, AnyKeyUnsecured DEF Gpds
  <2> HIDE DEF g
  <2>4. QED BY <1>1, <2>1, <2>2, <2>3, SendKeeps
<1>5. CASE sendCommissioningRequest
  <2> DEFINE g == [gpd EXCEPT !.level = 0]
             c == [ccm EXCEPT !.key = "tclk", !.tx = Own % FCMod]
  <2>1. g \in Gpds /\ g.autoCom = gpd.autoCom /\ g.rxAfterTx = gpd.rxAfterTx
    BY <1>1 DEF Gpds, Levels
  <2>2. g.autoCom = ~g.rxAfterTx
    BY <1>1, <2>1, Zenon
  <2>3. Own % FCMod \in Nat
    BY Wraps, NwkAssumption DEF NwkAssumption, Counters
  <2>4. c \in Ccms
    BY <1>1, <2>3 DEF Ccms, Keys
  <2>5. emberAfGpdfSend("data", "commissioning", 28, g, c)
    BY <1>5 DEF sendCommissioningRequest
  <2>6. c.key \in KeysInUse(g.level, g.key)
    BY <1>1 DEF Gpds, Ccms, KeysInUse, Secured
  <2> HIDE DEF g, c
  <2>7. QED BY <2>1, <2>2, <2>4, <2>5, <2>6, SendKeeps
<1>6. CASE sendSuccess
  BY <1>1, <1>6, SendKeeps DEF sendSuccess
<1>7. CASE sendToggle
  BY <1>1, <1>7, SendKeeps DEF sendToggle
<1>8. CASE CloseWindow
  BY <1>1, <1>8 DEF CloseWindow, NwkInv, TypeOK, Announced, Reads
<1>9. ASSUME NEW p \in Commands, NEW fc \in Counters, Receive(p, fc)
      PROVE  NwkInv'
  <2>1. open' = FALSE /\ mpdu' = mpdu /\ listened' = listened
    BY <1>9 DEF Receive
  <2>2. CASE p.cmd = "reply"
    <3> DEFINE key == CASE p.key = "absent" -> gpd.key [] p.key = "corrupt" -> "zero" [] OTHER -> "net"
               rx == IF p.key \in {"wrapped", "corrupt"} THEN fc ELSE ccm.rx
    <3>1. p \in Replies
      BY <2>2 DEF Commands, Replies
    <3>2. key \in Keys /\ rx \in Counters /\ "tclk" \in Keys /\ p.level \in Levels
      BY <1>1, <3>1 DEF Keys, Gpds, Ccms, Replies
    <3>3. IF p.key = "corrupt"
            THEN gpd' = [gpd EXCEPT !.key = key] /\ ccm' = [ccm EXCEPT !.key = "tclk", !.rx = rx]
            ELSE /\ gpd' = [gpd EXCEPT !.key = key, !.level = p.level]
                 /\ ccm' = [ccm EXCEPT !.key = key, !.rx = rx]
      BY <1>9, <2>2 DEF Receive, ProcessReply
    <3> HIDE DEF key, rx
    <3>4. gpd' \in Gpds /\ gpd'.autoCom = gpd.autoCom /\ gpd'.rxAfterTx = gpd.rxAfterTx
      BY <1>1, <3>2, <3>3 DEF Gpds
    <3>5. ccm' \in Ccms
      BY <1>1, <3>2, <3>3 DEF Ccms
    <3>6. gpd'.autoCom = ~gpd'.rxAfterTx
      BY <1>1, <3>4, Zenon
    <3>7. TypeOK'
      BY <1>1, <2>1, <3>4, <3>5 DEF TypeOK, Ccms
    <3>8. ccm'.key \in KeysInUse(gpd'.level, gpd'.key)
      <4>1. CASE p.key = "corrupt"
        <5>1. gpd'.key = "zero" /\ ccm'.key = "tclk"
          BY <1>1, <3>3, <4>1 DEF Gpds, Ccms, key
        <5>2. QED BY <5>1 DEF KeysInUse
      <4>2. CASE p.key # "corrupt"
        <5>1. ccm'.key = gpd'.key
          BY <1>1, <3>3, <4>2 DEF Gpds, Ccms
        <5>2. QED BY <5>1 DEF KeysInUse
      <4>3. QED BY <4>1, <4>2
    <3>9. QED BY <1>1, <2>1, <3>6, <3>7, <3>8 DEF NwkInv, Announced, Reads
  <2>3. CASE p.cmd # "reply"
    <3>1. gpd' = gpd /\ ccm' = ccm
      BY <1>9, <2>3 DEF Receive
    <3>2. QED BY <1>1, <2>1, <3>1 DEF NwkInv, TypeOK, Announced, Reads
  <2>4. QED BY <2>2, <2>3
<1>10. CASE UNCHANGED vars
  BY <1>1, <1>10 DEF vars, NwkInv, TypeOK, Announced, Reads
<1>11. QED
  BY <1>2, <1>3, <1>4, <1>5, <1>6, <1>7, <1>8, <1>9, <1>10 DEF Next

(* The invariant the theorems below are read off.                          *)
THEOREM Invariant == Spec => []NwkInv
<1>1. QED BY InitInv, StepKeeps, PTL DEF Spec

-----------------------------------------------------------------------------
(* Types, for every width of the counter.                                  *)
THEOREM TypeCorrect == Spec => []TypeOK
<1>1. NwkInv => TypeOK
  BY DEF NwkInv
<1>2. QED BY <1>1, Invariant, PTL

(* The device listens when it said it would: gpd-nwk.c and                 *)
(* gpd-send-receive.c agree, although they look at different fields.       *)
THEOREM WindowsAnnounced == Spec => []ListensAsAnnounced
<1>1. NwkInv => ListensAsAnnounced
  BY DEF NwkInv, ListensAsAnnounced, Announced
<1>2. QED BY <1>1, Invariant, PTL

(* Every frame reads back as it was meant, sealed or not.                  *)
THEOREM FramesReadBack == Spec => []ReadsBack
<1>1. NwkInv => ReadsBack
  BY DEF NwkInv, ReadsBack, Reads
<1>2. QED BY <1>1, Invariant, PTL

-----------------------------------------------------------------------------
(* Reception: what passes the early returns has its payload where the      *)
(* parser looks for it, and what it opens was sealed under its nonce.  A   *)
(* frame without a seal does not pass for one: no key is NoKey.            *)
LEMMA HeardWhole ==
  ASSUME NEW h \in Heads, NEW size \in Nat, NEW c \in Ccms, NEW seal \in Seals(h, size),
         Hears(h, size, seal, c)
  PROVE  /\ Finger(h) = PayloadAt(h) /\ gpdfAppPayloadLength(h, size) = size
         /\ h.type = "data" /\ h.level = 3 => seal = SinkSeal(h, size, c.key, c.rx)
<1>1. h \in HeadSet
  BY NwkAssumption DEF NwkAssumption
<1>2. CASE h.type = "data"
  <2>1. h.ext
    BY <1>2, NwkAssumption DEF Hears, Drops, NwkAssumption
  <2>2. Finger(h) = PayloadAt(h)
    BY <1>2, <2>1 DEF Finger, PayloadAt
  <2>3. PayloadAt(h) \in Int /\ MicLength(h.level) \in Int
    BY DEF PayloadAt, FcOffset, B, AddrLen, MicLength, TAG_SIZE
  <2>4. gpdfAppPayloadLength(h, size) = size
    BY <2>2, <2>3 DEF gpdfAppPayloadLength, nwkPayloadLength, Length, MAC_FOOTER_SIZE
  <2>5. ASSUME h.level = 3 PROVE seal = SinkSeal(h, size, c.key, c.rx)
    <3>1. RxSeal(h, size, c) = seal
      BY <1>2, <2>5 DEF Hears, Readable
    <3>2. seal.nonce = c.rx /\ seal.key = c.key
      BY <3>1 DEF RxSeal
    <3>3. seal # Unsealed
      BY <3>2 DEF Unsealed, Ccms, Keys, NoKey
    <3>4. PICK key \in Keys, fc \in Counters : seal = SinkSeal(h, size, key, fc)
      BY <3>3 DEF Seals
    <3>5. seal.nonce = fc /\ seal.key = key
      BY <3>4 DEF SinkSeal
    <3>6. QED BY <3>2, <3>4, <3>5
  <2>6. QED BY <2>2, <2>4, <2>5
<1>3. CASE h.type = "maint"
  <2>1. MicLength(h.level) \in Int /\ AddrLen(h) = 0
    BY <1>3 DEF MicLength, TAG_SIZE, AddrLen
  <2>2. FcOffset(h) \in Int /\ B(h.ext) \in Int
    BY DEF FcOffset, B
  <2>3. Finger(h) = PayloadAt(h)
    BY <2>1, <2>2 DEF Finger, PayloadAt
  <2>4. PayloadAt(h) \in Int
    BY <2>1, <2>2 DEF PayloadAt
  <2>5. gpdfAppPayloadLength(h, size) = size
    BY <2>1, <2>3, <2>4 DEF gpdfAppPayloadLength, nwkPayloadLength, Length, MAC_FOOTER_SIZE
  <2>6. QED BY <1>3, <2>3, <2>5
<1>4. QED BY <1>1, <1>2, <1>3 DEF HeadSet

(* What the device acts on, maintenance frames at any level included, it   *)
(* has read whole; and a data frame that says it is secured in full was    *)
(* sealed under the key in use and the counter of the last frame sent.     *)
THEOREM WholeAnswers == Spec => []HearsWhole
<1>1. NwkInv => HearsWhole
  <2> SUFFICES ASSUME NwkInv, open,
                      NEW h \in Heads, NEW size \in {2, 18, 26}, NEW seal \in Seals(h, size),
                      Hears(h, size, seal, ccm)
               PROVE  /\ Finger(h) = PayloadAt(h) /\ gpdfAppPayloadLength(h, size) = size
                      /\ h.type = "data" /\ h.level = 3 =>
                           \E key \in KeysInUse(gpd.level, gpd.key) :
                              seal = SinkSeal(h, size, key, gpd.fc)
    BY DEF HearsWhole
  <2>1. /\ ccm \in Ccms /\ ccm.rx = gpd.fc
        /\ ccm.key \in KeysInUse(gpd.level, gpd.key)
    BY DEF NwkInv, TypeOK, Ccms
  <2>2. size \in Nat
    OBVIOUS
  <2>3. QED BY <2>1, <2>2, HeardWhole
<1>2. QED BY <1>1, Invariant, PTL

(* An answer in the device's own format, under the counter and, if it is   *)
(* secured, the key loaded, passes the early returns and authenticates.    *)
LEMMA ConformingHeard ==
  ASSUME NEW h \in Heads, NEW size \in Nat, size >= 2, NEW c \in Ccms, Conforms(h),
         NEW key, h.level \in Secured => key = c.key
  PROVE  Hears(h, size, SinkSeal(h, size, key, c.rx), c)
<1> DEFINE mic == MicLength(h.level)
           at == PayloadAt(h)
           seal == SinkSeal(h, size, key, c.rx)
<1>1. h \in HeadSet /\ (h.type = "maint" => h.level \notin Secured)
  BY NwkAssumption DEF NwkAssumption, Conforms
<1>2. FcOffset(h) = 8
  BY DEF Conforms, FcOffset
<1>3. /\ B(h.ext) \in {0, 1} /\ AddrLen(h) \in {0, 4} /\ mic \in {0, 4}
      /\ at = 9 + B(h.ext) + AddrLen(h) + mic
      /\ h.type = "data" => h.ext /\ B(h.ext) = 1 /\ AddrLen(h) = 4
      /\ h.type = "maint" => AddrLen(h) = 0 /\ mic = 0
      /\ h.level = 3 => mic = 4
  <2>1. B(h.ext) \in {0, 1} /\ AddrLen(h) \in {0, 4} /\ mic \in {0, 4}
    BY DEF B, AddrLen, MicLength, TAG_SIZE
  <2>2. at = 9 + B(h.ext) + AddrLen(h) + mic
    BY <1>2, <2>1 DEF PayloadAt
  <2>3. ASSUME h.type = "data" PROVE h.ext /\ B(h.ext) = 1 /\ AddrLen(h) = 4
    BY <2>3 DEF Conforms, B, AddrLen
  <2>4. ASSUME h.type = "maint" PROVE AddrLen(h) = 0 /\ mic = 0
    BY <1>1, <2>4 DEF AddrLen, MicLength
  <2>5. h.level = 3 => mic = 4
    BY DEF MicLength, Secured, TAG_SIZE
  <2>6. QED BY <2>1, <2>2, <2>3, <2>4, <2>5
<1>4. at \in Nat /\ at >= 9 /\ nwkPayloadLength(h, size) = at + size - 1 + mic
  BY <1>3 DEF nwkPayloadLength, Length, MAC_FOOTER_SIZE
<1>5. ~Drops(h, size)
  <2>1. ~(nwkPayloadLength(h, size) < 8)
    BY <1>3, <1>4
  <2>2. QED BY <2>1, <1>3 DEF Drops, Conforms
<1>6. Finger(h) = at
  <2>1. h.type = "data" \/ h.type = "maint"
    BY <1>1 DEF HeadSet
  <2>2. QED BY <2>1, <1>2, <1>3 DEF Finger
<1>7. gpdfAppPayloadLength(h, size) > 0
  BY <1>3, <1>4, <1>6 DEF gpdfAppPayloadLength
<1>8. ASSUME h.level = 3, h.type = "data" PROVE RxSeal(h, size, c) = seal
  <2>1. at = 18 /\ mic = 4 /\ key = c.key
    BY <1>3, <1>8 DEF Secured
  <2>2. nwkPayloadLength(h, size) = 21 + size
    BY <1>4, <2>1
  <2>3. RxSeal(h, size, c) = [key |-> c.key, nonce |-> c.rx, authAt |-> 8, authLen |-> 10,
                              encLen |-> size, micAt |-> 18 + size]
    BY <2>2 DEF RxSeal, AUTH_START, AUTH_FIXED_LEN, TAG_SIZE
  <2>4. seal = [key |-> c.key, nonce |-> c.rx, authAt |-> 8, authLen |-> 10,
                encLen |-> size, micAt |-> 18 + size]
    BY <2>1, <1>2, <1>8 DEF SinkSeal
  <2>5. QED BY <2>3, <2>4
<1>9. ASSUME ~(h.level = 3 /\ h.type = "data") PROVE seal.encLen = 0
  <2>1. h.level # 3
    BY <1>1, <1>9 DEF HeadSet, Secured
  <2>2. QED BY <2>1 DEF SinkSeal
<1>10. Readable(h, size, seal, c)
  BY <1>8, <1>9 DEF Readable
<1>11. QED BY <1>5, <1>7, <1>10 DEF Hears

(* A sink that answers the last frame in the device's format, under the    *)
(* key of the device, is heard.                                            *)
THEOREM AnswersHeard == Spec => []HearsAnswers
<1>1. NwkInv => HearsAnswers
  <2> SUFFICES ASSUME NwkInv, open, gpd.key # "zero",
                      NEW h \in Heads, NEW size \in {2, 18, 26}, Conforms(h)
               PROVE  Hears(h, size, SinkSeal(h, size, gpd.key, gpd.fc), ccm)
    BY DEF HearsAnswers
  <2>1. /\ ccm \in Ccms /\ ccm.rx = gpd.fc
        /\ ccm.key \in KeysInUse(gpd.level, gpd.key)
    BY DEF NwkInv, TypeOK, Ccms
  <2>2. size \in Nat /\ size >= 2
    OBVIOUS
  <2>3. h.level \in Secured => gpd.key = ccm.key
    BY <2>1 DEF Conforms, KeysInUse
  <2>4. QED BY <2>1, <2>2, <2>3, ConformingHeard
<1>2. QED BY <1>1, Invariant, PTL
=============================================================================
