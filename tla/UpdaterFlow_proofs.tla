--------------------------- MODULE UpdaterFlow_proofs ---------------------------
(***************************************************************************)
(* The updater, for any number of retries, any capacity of the channels,   *)
(* any number of images, of processes and of faults: the sequences keep to *)
(* their commands and the rings never overflow, and what is in flight is   *)
(* what the process found, what its handshake could not tell apart, and    *)
(* the one command it waits on.  In a process that found clean channels a  *)
(* sequence is in step with its answers before it programs the flash,      *)
(* flashes only a system that booted in order, leaves the OTA buffer alone *)
(* while RTSS may read it, and commits only what is flashed.               *)
(***************************************************************************)
EXTENDS UpdaterFlow, TLAPS

-----------------------------------------------------------------------------
(***************************************************************************)
(* The commands of the sequences                                           *)
(***************************************************************************)
Ids ==
    {"HELLO", "none", "corrupt", "CHECK_GPT", "READ_GPT", "WRITE_GPT", "FIX_GPT",
     "UPDATE_GPT", "GET_OTA_METADATAINFO", "GET_OTA_METADATA", "SET_OTA_METADATA",
     "GET_BOOTINFO", "FLASH_IMAGE", "READ_IMAGE", "OTA_DONE",
     "REDUNDANCY_ESTABLISHED", "UPDATE_ARB"}

\* Every message, request or answer; an image is flashed by its number.
Message ==
    {m \in [id : Ids, img : Nat, status : Status] :
        m.id = "FLASH_IMAGE" => m.img \in Images}

\* Msg makes messages.
LEMMA MsgType ==
    ASSUME NEW id \in Ids, NEW img \in Nat, NEW st \in Status,
           id = "FLASH_IMAGE" => img \in Images
    PROVE  Msg(id, img, st) \in Message
<1>1. /\ Msg(id, img, st) \in [id : Ids, img : Nat, status : Status]
      /\ Msg(id, img, st).id = id /\ Msg(id, img, st).img = img
  BY DEF Msg
<1> QED
  BY <1>1 DEF Message

\* The commands without an image, the HELLO and the empty message.
LEMMA SimpleCommands ==
    {rtss_updater_chkgpt, rtss_updater_readgpt, rtss_updater_writegpt, rtss_updater_fixgpt,
     rtss_updater_updategpt, rtss_updater_get_metadata_info, rtss_updater_get_metadata,
     rtss_updater_set_metadata, rtss_updater_get_bl_info, rtss_updater_update_ota_done_state,
     rtss_updater_redundancy_established, rtss_updater_update_arb, HELLO, NoMsg}
    \subseteq Message
<1>1. \A id \in Ids \ {"FLASH_IMAGE"} : Msg(id, 0, "SUCCESS") \in Message
  BY MsgType DEF Status
<1> QED
  BY <1>1 DEF Ids, HELLO, NoMsg, rtss_updater_chkgpt, rtss_updater_readgpt,
       rtss_updater_writegpt, rtss_updater_fixgpt, rtss_updater_updategpt,
       rtss_updater_get_metadata_info, rtss_updater_get_metadata, rtss_updater_set_metadata,
       rtss_updater_get_bl_info, rtss_updater_update_ota_done_state,
       rtss_updater_redundancy_established, rtss_updater_update_arb

\* The commands on one image of the configuration.
LEMMA ImageCommands ==
    \A i \in Images : rtss_updater_flashimg(i) \in Message /\ rtss_updater_readimg(i) \in Message
<1>1. Images \subseteq Nat /\ "SUCCESS" \in Status
  BY FlowAssumption DEF Images, Status
<1> QED
  BY <1>1, MsgType DEF Ids, rtss_updater_flashimg, rtss_updater_readimg

\* Every sequence consists of commands, at least one.
NonEmptySeq(S) == Seq(S) \ {<<>>}

\* A sequence stays one when commands are added.
LEMMA Joined ==
    ASSUME NEW S, NEW s \in NonEmptySeq(S), NEW t \in Seq(S)
    PROVE  s \o t \in NonEmptySeq(S)
BY DEF NonEmptySeq

\* rtss_updater_devprog_flasher counts its images round and round; each is one
\* of the configuration.
LEMMA FlasherImages ==
    ASSUME NEW banks \in Nat, NEW n \in 1..NImages
    PROVE  [k \in 1 .. banks * n |-> rtss_updater_flashimg(1 + ((k - 1) % n))] \in Seq(Message)
<1> DEFINE flash == [k \in 1 .. banks * n |-> rtss_updater_flashimg(1 + ((k - 1) % n))]
<1>1. NImages \in Nat /\ n \in Nat \ {0}
  BY FlowAssumption
<1>2. \A k \in Nat \ {0} : (k - 1) % n \in 0..(n - 1)
  BY <1>1
<1>3. \A k \in Nat \ {0} : 1 + ((k - 1) % n) \in Images
  BY <1>1, <1>2 DEF Images
<1>4. banks * n \in Nat
  BY <1>1
<1> DEFINE m == banks * n
<1> HIDE DEF m
<1>5. \A k \in 1..m : rtss_updater_flashimg(1 + ((k - 1) % n)) \in Message
  BY <1>3, <1>4, ImageCommands DEF m
<1>6. flash = [k \in 1..m |-> rtss_updater_flashimg(1 + ((k - 1) % n))]
  BY DEF m
<1>7. flash \in [1..m -> Message]
  BY <1>5, <1>6
<1> HIDE DEF flash
<1>8. flash \in Seq(Message)
  BY <1>4, <1>7 DEF m
<1> QED
  BY <1>8 DEF flash

\* Its sequence begins with the checks.
LEMMA FlasherCommands ==
    ASSUME NEW banks \in Nat, NEW n \in 1..NImages
    PROVE  rtss_updater_devprog_flasher(banks, n) \in NonEmptySeq(Message)
<1> DEFINE head == <<rtss_updater_chkgpt, rtss_updater_get_metadata_info,
                     rtss_updater_get_metadata, rtss_updater_get_bl_info>>
           flash == [k \in 1 .. banks * n |-> rtss_updater_flashimg(1 + ((k - 1) % n))]
<1>1. head \in NonEmptySeq(Message)
  BY SimpleCommands DEF NonEmptySeq
<1>2. flash \in Seq(Message)
  BY FlasherImages
<1> HIDE DEF head, flash
<1> QED
  BY <1>1, <1>2, Joined DEF rtss_updater_devprog_flasher, head, flash

\* rtss_updater_preboot_demosequence.
LEMMA PrebootCommands == rtss_updater_preboot_demosequence \in NonEmptySeq(Message)
<1> DEFINE head == <<rtss_updater_chkgpt, rtss_updater_get_metadata_info,
                     rtss_updater_get_metadata, rtss_updater_get_bl_info>>
           flash == [i \in Images |-> rtss_updater_flashimg(i)]
           last == <<rtss_updater_updategpt>>
<1>1. head \in NonEmptySeq(Message) /\ last \in Seq(Message)
  BY SimpleCommands DEF NonEmptySeq
<1>2. flash \in Seq(Message)
  BY ImageCommands, FlowAssumption DEF Images
<1> HIDE DEF head, flash, last
<1>3. head \o flash \in NonEmptySeq(Message)
  BY <1>1, <1>2, Joined
<1>4. (head \o flash) \o last \in NonEmptySeq(Message)
  BY <1>1, <1>3, Joined
<1> QED
  BY <1>4 DEF rtss_updater_preboot_demosequence, head, flash, last

\* rtss_updater_postboot_demosequence reads and flashes each image in turn.
LEMMA MirrorCommands ==
    [k \in 1 .. 2 * NImages |-> IF k % 2 = 1 THEN rtss_updater_readimg((k + 1) \div 2)
                                            ELSE rtss_updater_flashimg(k \div 2)] \in Seq(Message)
<1> DEFINE images == [k \in 1 .. 2 * NImages |-> IF k % 2 = 1
                                   THEN rtss_updater_readimg((k + 1) \div 2)
                                   ELSE rtss_updater_flashimg(k \div 2)]
<1>1. NImages \in Nat
  BY FlowAssumption
<1>2. \A k \in 1 .. 2 * NImages :
         IF k % 2 = 1 THEN (k + 1) \div 2 \in Images ELSE k \div 2 \in Images
  BY <1>1 DEF Images
<1>3. \A k \in 1 .. 2 * NImages : images[k] \in Message
  BY <1>2, ImageCommands
<1>4. images \in [1 .. 2 * NImages -> Message]
  BY <1>3
<1> HIDE DEF images
<1>5. images \in Seq(Message)
  BY <1>1, <1>4
<1> QED
  BY <1>5 DEF images

\* Before the images it acknowledges the boot and checks; after them it has
\* the rest mirrored.
LEMMA PostbootCommands == rtss_updater_postboot_demosequence \in NonEmptySeq(Message)
<1> DEFINE head == <<rtss_updater_update_ota_done_state, rtss_updater_get_bl_info,
                     rtss_updater_chkgpt>>
           images == [k \in 1 .. 2 * NImages |-> IF k % 2 = 1
                                   THEN rtss_updater_readimg((k + 1) \div 2)
                                   ELSE rtss_updater_flashimg(k \div 2)]
           last == <<rtss_updater_fixgpt, rtss_updater_redundancy_established,
                     rtss_updater_get_metadata_info, rtss_updater_set_metadata,
                     rtss_updater_update_arb>>
<1>1. head \in NonEmptySeq(Message) /\ last \in Seq(Message)
  BY SimpleCommands DEF NonEmptySeq
<1>2. images \in Seq(Message)
  BY MirrorCommands
<1> HIDE DEF head, images, last
<1>3. head \o images \in NonEmptySeq(Message)
  BY <1>1, <1>2, Joined
<1>4. (head \o images) \o last \in NonEmptySeq(Message)
  BY <1>1, <1>3, Joined
<1> QED
  BY <1>4 DEF rtss_updater_postboot_demosequence, head, images, last

\* Every choice that main makes is a sequence of commands, and not empty.
LEMMA SequencesOfCommands ==
    \A f \in AllFlows : Sequence[f] \in NonEmptySeq(Message)
<1> SUFFICES ASSUME NEW f \in AllFlows
             PROVE  Sequence[f] \in NonEmptySeq(Message)
  OBVIOUS
<1>1. CASE f = "preboot"
  BY <1>1, PrebootCommands, Zenon DEF Sequence
<1>2. CASE f = "postboot"
  BY <1>2, PostbootCommands, Zenon DEF Sequence
<1>3. CASE f = "ackstate"
  <2>1. <<rtss_updater_update_ota_done_state>> \in NonEmptySeq(Message)
    BY SimpleCommands DEF NonEmptySeq
  <2> QED
    BY <1>3, <2>1, Zenon DEF Sequence
<1>4. CASE f \in {"flasher", "bank", "single"}
  <2>1. NImages \in 1..NImages /\ 1 \in 1..NImages /\ 1 \in Nat /\ 2 \in Nat
    BY FlowAssumption
  <2>2. /\ rtss_updater_devprog_flasher(2, NImages) \in NonEmptySeq(Message)
        /\ rtss_updater_devprog_flasher(1, NImages) \in NonEmptySeq(Message)
        /\ rtss_updater_devprog_flasher(2, 1) \in NonEmptySeq(Message)
    BY <2>1, FlasherCommands
  <2>3. CASE f = "flasher"
    BY <2>2, <2>3, Zenon DEF Sequence
  <2>4. CASE f = "bank"
    BY <2>2, <2>4, Zenon DEF Sequence
  <2>5. CASE f = "single"
    BY <2>2, <2>5, Zenon DEF Sequence
  <2> QED
    BY <1>4, <2>3, <2>4, <2>5
<1>5. CASE f = "gpt"
  <2>1. rtss_updater_image_update_gpt \in NonEmptySeq(Message)
    BY SimpleCommands DEF NonEmptySeq, rtss_updater_image_update_gpt
  <2> QED
    BY <1>5, <2>1, Zenon DEF Sequence
<1> QED
  BY <1>1, <1>2, <1>3, <1>4, <1>5 DEF AllFlows

\* What the slots of the rings hold from before are messages.
LEMMA OldMessagesType == OldMessages \subseteq Message
<1> SUFFICES ASSUME NEW m \in OldMessages
             PROVE  m \in Message
  OBVIOUS
<1>1. PICK st \in Status :
         \/ m \in {[HELLO EXCEPT !.status = st], Msg("corrupt", 0, st)}
         \/ \E f \in AllFlows : \E k \in DOMAIN Sequence[f] :
               m = [Sequence[f][k] EXCEPT !.status = st]
  BY OldAssumption, Zenon
<1>2. \A c \in Message : [c EXCEPT !.status = st] \in Message
  BY DEF Message
<1>3. CASE m \in {[HELLO EXCEPT !.status = st], Msg("corrupt", 0, st)}
  <2>1. [HELLO EXCEPT !.status = st] \in Message
    BY <1>2, SimpleCommands, Zenon
  <2>2. Msg("corrupt", 0, st) \in Message
    BY MsgType DEF Ids
  <2> QED
    BY <1>3, <2>1, <2>2, Zenon
<1>4. ASSUME NEW f \in AllFlows, NEW k \in DOMAIN Sequence[f],
             m = [Sequence[f][k] EXCEPT !.status = st]
      PROVE  m \in Message
  <2>1. Sequence[f] \in Seq(Message)
    BY SequencesOfCommands, Zenon DEF NonEmptySeq
  <2>2. Sequence[f][k] \in Message
    BY <2>1
  <2> QED
    BY <1>2, <1>4, <2>2, Zenon
<1> QED
  BY <1>1, <1>3, <1>4, Zenon

\* What a reset brings back is a queue of messages, not empty, that fits.
LEMMA ReplaysType ==
    ASSUME NEW old \in Replays
    PROVE  /\ old \in Seq(Message) /\ Len(old) \in Nat \ {0} /\ Len(old) <= Capacity
           /\ Head(old) \in Message /\ Tail(old) \in Seq(Message)
           /\ Len(Tail(old)) = Len(old) - 1
<1>1. PICK n \in 1..MaxReplay : old \in [1..n -> OldMessages]
  BY Zenon DEF Replays
<1>2. old \in [1..n -> Message]
  BY <1>1, OldMessagesType
<1>3. n \in Nat \ {0} /\ n <= Capacity
  BY <1>1, HandshakeAssumption
<1>4. old \in Seq(Message) /\ Len(old) = n
  BY <1>2, <1>3
<1> QED
  BY <1>3, <1>4

-----------------------------------------------------------------------------
(***************************************************************************)
(* The inductive invariant.  The channels are full of messages and have    *)
(* room for the answer RTSS is about to write; a sequence runs only after  *)
(* a handshake; and at every label of the handshake what is in flight is   *)
(* accounted for: a HELLO that is sent is one more than was found and than *)
(* was counted, until its answer is read or an error is counted for it.    *)
(* The send of a command that is reported as failed may have sent it.      *)
(***************************************************************************)
ChannelInv ==
    /\ txq \in Seq(Message) /\ Len(txq) <= Capacity
    /\ rxq \in Seq(Message) /\ Len(rxq) <= Capacity
    /\ req \in Message
    /\ rtss \in {"idle", "work", "write"}
    /\ rtss = "write" => Len(rxq) < Capacity

PlaceInv ==
    /\ pc \in {"start", "ping", "recovery", "reset_rx", "reset_both", "true", "false"}
    /\ fpc \in {"off", "prepare", "send", "wait", "ok", "failed", "dead"}
    /\ pc \notin {"true", "false"} => fpc = "off"
    /\ pc = "false" => fpc = "failed"
    /\ pc = "true" => fpc # "off"
    /\ pc = "true" => flow \in Flows /\ step \in 1..Len(Sequence[flow])
    /\ pc # "true" => step = 1
    /\ ~mbok => pc = "true"

OutcomeInv ==
    /\ respStatus \in Status
    /\ entries \in {"zero", "boot", "other"}
    /\ flashed \subseteq Images

\* The messages sent and neither answered nor counted as an error.
Pending ==
    IF \/ pc \in {"recovery", "reset_rx", "reset_both"}
       \/ pc = "true" /\ fpc \in {"wait", "failed"}
    THEN 1 ELSE 0

CountInv ==
    /\ ping_err_cnt \in Nat /\ strays \in Nat
    /\ mbok => InFlight <= strays + ping_err_cnt + Pending

IInv == ChannelInv /\ PlaceInv /\ OutcomeInv /\ CountInv

-----------------------------------------------------------------------------
(***************************************************************************)
(* What the steps do                                                       *)
(***************************************************************************)
\* The sequences are sequences of messages; the current command is one.
LEMMA CommandType ==
    ASSUME PlaceInv, pc = "true"
    PROVE  Command \in Message /\ Len(Sequence[flow]) \in Nat
<1>1. flow \in AllFlows /\ step \in 1..Len(Sequence[flow])
  BY FlowAssumption DEF PlaceInv
<1>2. Sequence[flow] \in Seq(Message)
  BY <1>1, SequencesOfCommands, Zenon DEF NonEmptySeq
<1> QED
  BY <1>1, <1>2 DEF Command

\* The handshake is done with "true", which begins a sequence, or "false".
LEMMA HandshakeMoves ==
    ASSUME Handshake
    PROVE  /\ pc' = "true" => fpc' = "prepare" /\ flow' \in Flows
           /\ pc' = "false" => fpc' = "failed"
           /\ pc' \notin {"true", "false"} => fpc' = "off"
           /\ pc' # "true" => flow' = flow
<1>1. CASE pc' = "true"
  BY <1>1, Zenon DEF Handshake
<1>2. CASE pc' = "false"
  BY <1>2, Zenon DEF Handshake
<1>3. CASE pc' \notin {"true", "false"}
  BY <1>3, Zenon DEF Handshake
<1> QED
  BY <1>1, <1>2, <1>3, Zenon

\* A sequence gives up, ends after its last command or goes on to the next.
LEMMA NextCommandMoves ==
    ASSUME NextCommand
    PROVE  \/ fpc' = "failed" /\ step' = step
           \/ fpc' = "ok" /\ step' = step
           \/ fpc' = "prepare" /\ step' = step + 1 /\ step # Len(Sequence[flow])
BY Zenon DEF NextCommand

\* Executing a request fills the image entries or overwrites them, or neither.
LEMMA ExecuteMoves ==
    ASSUME NEW st, ExecuteRequest(st)
    PROVE  entries' \in {"boot", "other", entries}
<1>1. entries' = CASE req.id = "GET_BOOTINFO" /\ st = "SUCCESS" -> "boot"
                    [] req.id \in {"GET_OTA_METADATA", "READ_GPT", "READ_IMAGE", "FIX_GPT",
                                   "UPDATE_GPT"} -> "other"
                    [] OTHER -> entries
  BY Zenon DEF ExecuteRequest
<1>2. CASE req.id = "GET_BOOTINFO" /\ st = "SUCCESS"
  <2>1. req.id \notin {"GET_OTA_METADATA", "READ_GPT", "READ_IMAGE", "FIX_GPT", "UPDATE_GPT"}
    BY <1>2
  <2> QED
    BY <1>1, <1>2, <2>1, Zenon
<1>3. CASE req.id \in {"GET_OTA_METADATA", "READ_GPT", "READ_IMAGE", "FIX_GPT", "UPDATE_GPT"}
  <2>1. ~(req.id = "GET_BOOTINFO" /\ st = "SUCCESS")
    BY <1>3
  <2> QED
    BY <1>1, <1>3, <2>1, Zenon
<1>4. CASE /\ ~(req.id = "GET_BOOTINFO" /\ st = "SUCCESS")
           /\ req.id \notin {"GET_OTA_METADATA", "READ_GPT", "READ_IMAGE", "FIX_GPT", "UPDATE_GPT"}
  BY <1>1, <1>4, Zenon
<1> QED
  BY <1>2, <1>3, <1>4
-----------------------------------------------------------------------------
(***************************************************************************)
(* The channels                                                            *)
(***************************************************************************)
\* A queue after appending a message and after taking one.
LEMMA QueueSteps ==
    ASSUME NEW S, NEW q \in Seq(S)
    PROVE  /\ Len(q) \in Nat
           /\ \A m \in S : Append(q, m) \in Seq(S) /\ Len(Append(q, m)) = Len(q) + 1
           /\ q # <<>> => /\ Head(q) \in S
                          /\ Tail(q) \in Seq(S)
                          /\ Len(q) > 0 /\ Len(Tail(q)) = Len(q) - 1
BY SMT

\* The steps of a ping that race with no step of RTSS: it sends a HELLO where
\* there is room, reads an answer, or resets.
QuietPing ==
    /\ rtss' = rtss /\ req' = req /\ strays' = strays
    /\ \/ txq' = txq
       \/ txq' = <<>>
       \/ Len(txq) < Capacity /\ txq' = Append(txq, HELLO)
    /\ \/ rxq' = rxq
       \/ rxq' = <<>>
       \/ rxq # <<>> /\ rxq' = Tail(rxq)

\* The resets that do.
RacedRx(old) ==
    /\ rtss = "write" /\ rtss' = "idle" /\ req' = NoMsg
    /\ Len(old) < Capacity
    /\ rxq' = Append(old, req) /\ txq' = txq
    /\ strays' = strays + Len(old)

RacedTx(old) ==
    /\ rtss = "idle" /\ rtss' = "work"
    /\ \/ txq # <<>> /\ req' = Head(txq) /\ txq' = old
       \/ req' = Head(old) /\ txq' = Tail(old)
    /\ rxq' = rxq
    /\ strays' = strays + Len(old)

\* A ping is one of these.
LEMMA PingMoves ==
    ASSUME Ping
    PROVE  QuietPing \/ \E old \in Replays : RacedRx(old) \/ RacedTx(old)
<1>1. CASE rtss_upd_is_ready \/ Ping_GiveUp \/ Recovery_Timeout
  BY <1>1, Zenon DEF rtss_upd_is_ready, Ping_GiveUp, Recovery_Timeout, channels, rtssvars,
     QuietPing
<1>2. CASE Ping_Send
  BY <1>2, Zenon DEF Ping_Send, rtssvars, QuietPing
<1>3. CASE Ping_SendFails
  BY <1>3, Zenon DEF Ping_SendFails, rtssvars, QuietPing
<1>4. CASE Ping_ResetBoth
  BY <1>4, Zenon DEF Ping_ResetBoth, ResetTx, rtssvars, QuietPing, RacedTx
<1>5. CASE Recovery_ResetRx
  BY <1>5, Zenon DEF Recovery_ResetRx, ResetRx, rtssvars, QuietPing, RacedRx
<1>6. CASE Recovery_Match
  BY <1>6, Zenon DEF Recovery_Match, rtssvars, QuietPing
<1>7. CASE Recovery_Mismatch
  BY <1>7, Zenon DEF Recovery_Mismatch, rtssvars, QuietPing
<1> QED
  BY <1>1, <1>2, <1>3, <1>4, <1>5, <1>6, <1>7, Zenon DEF Ping

\* Nothing the updater does fills a channel beyond its capacity, nor takes
\* the room of the answer that RTSS writes.
LEMMA ChannelKept_Updater ==
    ASSUME IInv, Updater
    PROVE  ChannelInv'
<1>1. /\ <<>> \in Seq(Message) /\ Len(<<>>) = 0
      /\ Capacity \in Nat \ {0}
      /\ HELLO \in Message
  BY HandshakeAssumption, SimpleCommands
<1>2. /\ \A m \in Message : Append(txq, m) \in Seq(Message) /\ Len(Append(txq, m)) = Len(txq) + 1
      /\ rxq # <<>> => Tail(rxq) \in Seq(Message) /\ Len(Tail(rxq)) = Len(rxq) - 1
      /\ Len(txq) \in Nat /\ Len(rxq) \in Nat
  BY QueueSteps DEF IInv, ChannelInv
<1> USE <1>1, <1>2 DEF IInv, ChannelInv, channels, rtssvars
<1>3. CASE Handshake
  <2>1. Ping
    BY <1>3 DEF Handshake
  <2>2. CASE QuietPing
    <3>1. txq' \in Seq(Message) /\ Len(txq') <= Capacity
      <4>1. CASE txq' = txq
        BY <4>1
      <4>2. CASE txq' = <<>>
        BY <4>2
      <4>3. CASE Len(txq) < Capacity /\ txq' = Append(txq, HELLO)
        BY <4>3
      <4> QED
        BY <2>2, <4>1, <4>2, <4>3 DEF QuietPing
    <3>2. rxq' \in Seq(Message) /\ Len(rxq') <= Len(rxq)
      <4>1. CASE rxq' = rxq
        BY <4>1
      <4>2. CASE rxq' = <<>>
        BY <4>2
      <4>3. CASE rxq # <<>> /\ rxq' = Tail(rxq)
        BY <4>3
      <4> QED
        BY <2>2, <4>1, <4>2, <4>3 DEF QuietPing
    <3>3. Len(rxq') \in Nat
      BY <3>2
    <3>4. rtss' = rtss /\ req' = req
      BY <2>2 DEF QuietPing
    <3> QED
      BY <3>1, <3>2, <3>3, <3>4
  <2>3. ASSUME NEW old \in Replays, RacedRx(old)
        PROVE  ChannelInv'
    <3>1. /\ old \in Seq(Message) /\ Len(old) \in Nat /\ Len(old) < Capacity
          /\ rxq' = Append(old, req) /\ txq' = txq /\ rtss' = "idle" /\ req' = NoMsg
      BY <2>3, ReplaysType DEF RacedRx
    <3>2. Append(old, req) \in Seq(Message) /\ Len(Append(old, req)) = Len(old) + 1
      BY <3>1, QueueSteps
    <3>3. NoMsg \in Message
      BY SimpleCommands
    <3> QED
      BY <3>1, <3>2, <3>3
  <2>4. ASSUME NEW old \in Replays, RacedTx(old)
        PROVE  ChannelInv'
    <3>1. /\ old \in Seq(Message) /\ Len(old) \in Nat \ {0} /\ Len(old) <= Capacity
          /\ Head(old) \in Message /\ Tail(old) \in Seq(Message)
          /\ Len(Tail(old)) = Len(old) - 1
      BY ReplaysType
    <3>2. txq # <<>> => Head(txq) \in Message
      BY QueueSteps
    <3>3. rxq' = rxq /\ rtss' = "work"
      BY <2>4 DEF RacedTx
    <3>4. req' \in Message /\ txq' \in Seq(Message) /\ Len(txq') <= Capacity
      <4>1. CASE txq # <<>> /\ req' = Head(txq) /\ txq' = old
        BY <3>1, <3>2, <4>1
      <4>2. CASE req' = Head(old) /\ txq' = Tail(old)
        BY <3>1, <4>2
      <4> QED
        BY <2>4, <4>1, <4>2 DEF RacedTx
    <3> QED
      BY <3>3, <3>4
  <2> QED
    BY <2>1, <2>2, <2>3, <2>4, PingMoves, Zenon
<1>4. CASE PrepareCommand
  BY <1>4 DEF PrepareCommand, Stay, hsvars
<1>5. CASE PrepareFails
  BY <1>5 DEF PrepareFails, Stay, hsvars
<1>6. CASE LoadFileFails
  BY <1>6 DEF LoadFileFails, Stay, hsvars
<1>7. CASE SendCommand
  <2>1. pc = "true"
    BY <1>7 DEF SendCommand, PlaceInv
  <2>2. Command \in Message
    BY <2>1, CommandType
  <2> HIDE DEF Command
  <2> QED
    BY <1>7, <2>2 DEF SendCommand
<1>8. CASE SendCommandFails
  <2>1. pc = "true"
    BY <1>8 DEF SendCommandFails, PlaceInv
  <2>2. Command \in Message
    BY <2>1, CommandType
  <2>3. /\ \/ txq' = txq
           \/ Len(txq) < Capacity /\ txq' = Append(txq, Command)
        /\ rxq' = rxq /\ rtss' = rtss /\ req' = req
    BY <1>8 DEF SendCommandFails
  <2> HIDE DEF Command
  <2>4. CASE txq' = txq
    BY <2>3, <2>4
  <2>5. CASE Len(txq) < Capacity /\ txq' = Append(txq, Command)
    <3>1. /\ Append(txq, Command) \in Seq(Message)
          /\ Len(Append(txq, Command)) = Len(txq) + 1
      BY <1>2, <2>2, Zenon
    <3> QED
      BY <2>3, <2>5, <3>1
  <2> QED
    BY <2>3, <2>4, <2>5
<1>9. CASE rtss_updater_cbk_notify_handler
  BY <1>9 DEF rtss_updater_cbk_notify_handler
<1>10. CASE notify_handler_ReadFails
  BY <1>10 DEF notify_handler_ReadFails
<1>11. CASE Launch
  BY <1>11 DEF Launch, Relaunch
<1> QED
  BY <1>3, <1>4, <1>5, <1>6, <1>7, <1>8, <1>9, <1>10, <1>11 DEF Updater

\* RTSS begins to write an answer only when there is room for it.
LEMMA ChannelKept_Rtss ==
    ASSUME IInv, Rtss
    PROVE  ChannelInv'
<1>1. /\ <<>> \in Seq(Message) /\ Len(<<>>) = 0
      /\ Capacity \in Nat \ {0}
      /\ NoMsg \in Message
  BY HandshakeAssumption, SimpleCommands
<1>2. /\ \A m \in Message : Append(rxq, m) \in Seq(Message) /\ Len(Append(rxq, m)) = Len(rxq) + 1
      /\ txq # <<>> => /\ Head(txq) \in Message
                       /\ Tail(txq) \in Seq(Message) /\ Len(Tail(txq)) = Len(txq) - 1
      /\ Len(txq) \in Nat /\ Len(rxq) \in Nat
  BY QueueSteps DEF IInv, ChannelInv
<1> USE <1>1, <1>2 DEF IInv, ChannelInv, channels, rtssvars
<1>3. CASE TakeRequest
  BY <1>3 DEF TakeRequest, RtssTake
<1>4. ASSUME NEW st \in Status, ExecuteRequest(st)
      PROVE  ChannelInv'
  <2>1. [req EXCEPT !.status = st] \in Message
    BY DEF Message
  <2> QED
    BY <1>4, <2>1 DEF ExecuteRequest, RtssExecute
<1>5. CASE PublishAnswer
  BY <1>5 DEF PublishAnswer, RtssPublish
<1>6. ASSUME NEW st \in Status, CorruptAnswer(st)
      PROVE  ChannelInv'
  <2>1. Msg("corrupt", 0, st) \in Message
    BY MsgType DEF Ids
  <2> QED
    BY <1>6, <2>1 DEF CorruptAnswer
<1>7. CASE RtssDown
  BY <1>7 DEF RtssDown, hsvars
<1>8. CASE RtssUp
  BY <1>8 DEF RtssUp
<1> QED
  BY <1>3, <1>4, <1>5, <1>6, <1>7, <1>8 DEF Rtss

-----------------------------------------------------------------------------
(***************************************************************************)
(* The handshake and the sequence                                          *)
(***************************************************************************)
\* A sequence begins at its first command when the handshake is done, goes on
\* one command at a time, and ends after the last.
LEMMA PlaceKept_Updater ==
    ASSUME IInv, Updater
    PROVE  PlaceInv'
<1>1. \A f \in Flows : 1 \in 1..Len(Sequence[f])
  <2>1. \A s \in NonEmptySeq(Message) : Len(s) \in Nat \ {0}
    BY DEF NonEmptySeq
  <2>2. \A f \in Flows : Len(Sequence[f]) \in Nat \ {0}
    BY <2>1, SequencesOfCommands, FlowAssumption
  <2> QED
    BY <2>2
<1>2. pc = "true" => Len(Sequence[flow]) \in Nat
  BY CommandType DEF IInv
<1> USE DEF IInv, PlaceInv
<1>3. CASE Handshake
  <2>1. /\ mbok /\ mbok' = mbok /\ step' = step
        /\ pc \in {"start", "ping", "recovery", "reset_rx", "reset_both"}
        /\ pc' \in {"ping", "recovery", "reset_rx", "reset_both", "true", "false"}
    <3>1. Ping /\ mbok /\ UNCHANGED <<step, mbok>>
      BY <1>3 DEF Handshake
    <3> QED
      BY <3>1 DEF Ping, rtss_upd_is_ready, Ping_GiveUp, Ping_Send, Ping_SendFails,
         Ping_ResetBoth, Recovery_Timeout, Recovery_ResetRx, Recovery_Match, Recovery_Mismatch
  <2>2. /\ pc' = "true" => fpc' = "prepare" /\ flow' \in Flows
        /\ pc' = "false" => fpc' = "failed"
        /\ pc' \notin {"true", "false"} => fpc' = "off"
    BY <1>3, HandshakeMoves
  <2> QED
    BY <2>1, <2>2, <1>1
<1>4. CASE \/ PrepareCommand
           \/ PrepareFails
           \/ LoadFileFails
           \/ SendCommand
           \/ SendCommandFails
  <2>1. /\ pc = "true" /\ pc' = pc /\ flow' = flow /\ step' = step /\ mbok' = mbok
        /\ fpc' \in {"send", "failed", "dead", "wait"}
    BY <1>4 DEF PrepareCommand, PrepareFails, LoadFileFails, SendCommand, SendCommandFails,
       Stay, hsvars
  <2> QED
    BY <2>1
<1>5. CASE rtss_updater_cbk_notify_handler \/ notify_handler_ReadFails
  <2>1. pc = "true" /\ pc' = pc /\ flow' = flow /\ mbok' = mbok /\ NextCommand
    BY <1>5 DEF rtss_updater_cbk_notify_handler, notify_handler_ReadFails, Stay, hsvars
  <2>2. \/ fpc' = "failed" /\ step' = step
        \/ fpc' = "ok" /\ step' = step
        \/ fpc' = "prepare" /\ step' = step + 1 /\ step # Len(Sequence[flow])
    BY <2>1, NextCommandMoves
  <2> QED
    BY <2>1, <2>2, <1>2
<1>6. CASE Launch
  BY <1>6 DEF Launch, Relaunch
<1> QED
  BY <1>3, <1>4, <1>5, <1>6 DEF Updater

\* RTSS goes down only while a sequence runs and moves nobody.
LEMMA PlaceKept_Rtss ==
    ASSUME IInv, Rtss
    PROVE  PlaceInv'
<1>1. /\ pc' = pc /\ fpc' = fpc /\ flow' = flow /\ step' = step
      /\ mbok' \/ mbok' = mbok \/ pc = "true"
  BY DEF Rtss, TakeRequest, ExecuteRequest, PublishAnswer, CorruptAnswer, RtssDown, RtssUp,
     RtssTake, RtssExecute, RtssPublish, hsvars, fvars
<1> QED
  BY <1>1 DEF IInv, PlaceInv
-----------------------------------------------------------------------------
(***************************************************************************)
(* What a command leaves behind                                            *)
(***************************************************************************)
\* The updater takes over the status of an answer and nothing else from it.
LEMMA OutcomeKept_Updater ==
    ASSUME IInv, Updater
    PROVE  OutcomeInv'
<1> USE DEF IInv, OutcomeInv
<1>0. CASE Handshake
  <2>1. UNCHANGED <<respStatus, entries>> /\ (flashed' = flashed \/ flashed' = flashed \ {req'.img})
    BY <1>0, Zenon DEF Handshake, Erased, resp
  <2> QED
    BY <2>1
<1>1. CASE \/ SendCommand
           \/ SendCommandFails
           \/ notify_handler_ReadFails
           \/ LoadFileFails
  <2>1. UNCHANGED <<respStatus, entries, flashed>>
    BY <1>1 DEF SendCommand, SendCommandFails, notify_handler_ReadFails,
       LoadFileFails, Stay, hsvars, resp, nor
  <2> QED
    BY <2>1
<1>2. CASE PrepareCommand \/ PrepareFails
  <2>1. /\ UNCHANGED <<respStatus, flashed>>
        /\ entries' \in {"zero", "other", entries}
    BY <1>2 DEF PrepareCommand, PrepareFails, Stay, resp, nor
  <2> QED
    BY <2>1
<1>3. CASE rtss_updater_cbk_notify_handler
  <2>1. rxq # <<>> /\ respStatus' = Head(rxq).status /\ UNCHANGED <<entries, flashed>>
    BY <1>3 DEF rtss_updater_cbk_notify_handler, nor
  <2>2. Head(rxq) \in Message
    BY <2>1, QueueSteps, Zenon DEF ChannelInv
  <2>3. Head(rxq).status \in Status
    BY <2>2 DEF Message
  <2> QED
    BY <2>1, <2>3
<1>4. CASE Launch
  <2>1. respStatus' = "SUCCESS" /\ UNCHANGED <<entries, flashed>>
    BY <1>4 DEF Launch, nor
  <2> QED
    BY <2>1 DEF Status
<1> QED
  BY <1>0, <1>1, <1>2, <1>3, <1>4 DEF Updater

\* The image of a FLASH_IMAGE request is one of the configuration's.
LEMMA OutcomeKept_Rtss ==
    ASSUME IInv, Rtss
    PROVE  OutcomeInv'
<1> USE DEF IInv, OutcomeInv
<1>1. CASE TakeRequest
  <2>1. UNCHANGED <<respStatus, entries>> /\ (flashed' = flashed \/ flashed' = flashed \ {req'.img})
    BY <1>1, Zenon DEF TakeRequest, Erased, resp
  <2> QED
    BY <2>1
<1>2. ASSUME NEW st \in Status, ExecuteRequest(st)
      PROVE  OutcomeInv'
  <2>1. /\ respStatus' = respStatus
        /\ flashed' = flashed \/ (req.id = "FLASH_IMAGE" /\ flashed' = flashed \cup {req.img})
    BY <1>2 DEF ExecuteRequest, resp
  <2>2. req.id = "FLASH_IMAGE" => req.img \in Images
    BY DEF ChannelInv, Message
  <2>3. entries' \in {"boot", "other", entries}
    BY <1>2, ExecuteMoves
  <2> QED
    BY <2>1, <2>2, <2>3
<1>3. CASE PublishAnswer
  BY <1>3 DEF PublishAnswer, fvars, resp, nor
<1>4. ASSUME NEW st \in Status, CorruptAnswer(st)
      PROVE  OutcomeInv'
  BY <1>4 DEF CorruptAnswer, resp, nor
<1>5. CASE RtssDown
  BY <1>5 DEF RtssDown, resp, nor
<1>6. CASE RtssUp
  BY <1>6 DEF RtssUp, resp, nor
<1> QED
  BY <1>1, <1>2, <1>3, <1>4, <1>5, <1>6 DEF Rtss

-----------------------------------------------------------------------------
(***************************************************************************)
(* What is in flight                                                       *)
(***************************************************************************)
\* The number of messages, in numbers.
LEMMA InFlightIs ==
    ASSUME ChannelInv
    PROVE  /\ Len(txq) \in Nat /\ Len(rxq) \in Nat /\ InFlight \in Nat
           /\ rtss = "idle" => InFlight = Len(txq) + Len(rxq)
           /\ rtss # "idle" => InFlight = Len(txq) + Len(rxq) + 1
<1>1. Len(txq) \in Nat /\ Len(rxq) \in Nat
  BY QueueSteps DEF ChannelInv
<1> QED
  BY <1>1 DEF InFlight

\* Taking a request and publishing an answer move a message from one place
\* to the next; corrupting one changes what it says.
LEMMA InFlight_Rtss ==
    ASSUME IInv, ChannelInv', Rtss
    PROVE  /\ UNCHANGED <<pc, fpc, ping_err_cnt, strays>>
           /\ InFlight' = InFlight \/ InFlight' = 0
           /\ mbok => InFlight' = InFlight
           /\ mbok' /\ ~mbok => InFlight' = 0
<1>1. UNCHANGED <<pc, fpc, ping_err_cnt, strays>>
  BY DEF Rtss, TakeRequest, ExecuteRequest, PublishAnswer, CorruptAnswer, RtssDown, RtssUp,
     RtssTake, RtssExecute, RtssPublish, hsvars, fvars, counters
<1>2. /\ rtss = "idle" => InFlight = Len(txq) + Len(rxq)
      /\ rtss # "idle" => InFlight = Len(txq) + Len(rxq) + 1
      /\ Len(txq) \in Nat /\ Len(rxq) \in Nat
  BY InFlightIs DEF IInv
<1>3. /\ rtss' = "idle" => InFlight' = Len(txq') + Len(rxq')
      /\ rtss' # "idle" => InFlight' = Len(txq') + Len(rxq') + 1
  BY DEF InFlight
<1>4. /\ txq # <<>> => Len(Tail(txq)) = Len(txq) - 1
      /\ \A m \in Message : Len(Append(rxq, m)) = Len(rxq) + 1
  BY QueueSteps DEF IInv, ChannelInv
<1>5. CASE TakeRequest
  <2>1. /\ rtss = "idle" /\ rtss' = "work" /\ txq # <<>> /\ txq' = Tail(txq) /\ rxq' = rxq
        /\ mbok /\ mbok' = mbok
    BY <1>5 DEF TakeRequest, RtssTake
  <2> QED
    BY <1>1, <1>2, <1>3, <1>4, <2>1
<1>6. ASSUME NEW st \in Status, ExecuteRequest(st)
      PROVE  InFlight' = InFlight /\ mbok
  <2>1. rtss = "work" /\ rtss' = "write" /\ txq' = txq /\ rxq' = rxq /\ mbok
    BY <1>6 DEF ExecuteRequest, RtssExecute, channels
  <2> QED
    BY <1>2, <1>3, <2>1
<1>7. CASE PublishAnswer
  <2>1. rtss = "write" /\ rtss' = "idle" /\ txq' = txq /\ rxq' = Append(rxq, req) /\ mbok
    BY <1>7 DEF PublishAnswer, RtssPublish
  <2>2. req \in Message
    BY DEF IInv, ChannelInv
  <2> QED
    BY <1>1, <1>2, <1>3, <1>4, <2>1, <2>2
<1>8. ASSUME NEW st \in Status, CorruptAnswer(st)
      PROVE  InFlight' = InFlight /\ mbok
  <2>1. /\ rtss = "write" /\ rtss' = "idle" /\ txq' = txq
        /\ rxq' = Append(rxq, Msg("corrupt", 0, st)) /\ mbok
    BY <1>8 DEF CorruptAnswer
  <2>2. Msg("corrupt", 0, st) \in Message
    BY MsgType DEF Ids
  <2> QED
    BY <1>2, <1>3, <1>4, <2>1, <2>2
<1>9. CASE RtssDown
  BY <1>1, <1>9 DEF RtssDown, hsvars, channels, rtssvars, InFlight
<1>10. CASE RtssUp
  <2>1. ~mbok /\ rtss' = "idle" /\ txq' = <<>> /\ rxq' = <<>>
    BY <1>10 DEF RtssUp
  <2> QED
    BY <1>1, <1>3, <2>1
<1> QED
  BY <1>1, <1>5, <1>6, <1>7, <1>8, <1>9, <1>10 DEF Rtss

\* A step that counts no error, and d strays; one that counts an error; and the
\* launch of a process, for which all is strays.
Counted(d) ==
    /\ ping_err_cnt' = ping_err_cnt /\ mbok' = mbok /\ strays' = strays + d
    /\ InFlight' + Pending <= InFlight + Pending' + d

Erred(d) ==
    /\ ping_err_cnt' = ping_err_cnt + 1 /\ mbok' = mbok /\ strays' = strays + d
    /\ InFlight' <= InFlight + d /\ Pending' + 1 >= Pending

Launched == strays' = InFlight' /\ ping_err_cnt' = 0 /\ Pending' = 0

\* A HELLO that is sent is pending, and so is the command that is waited on;
\* an answer that is read is gone; a reset counts one error.  What a reset
\* brings back, or an answer that could not be read, is a stray.
LEMMA InFlight_Updater ==
    ASSUME IInv, ChannelInv', Updater, pc # "true" => mbok
    PROVE  \/ \E d \in Nat : Counted(d) \/ Erred(d)
           \/ Launched
           \/ ~mbok /\ UNCHANGED <<ping_err_cnt, strays, mbok>>
<1>1. /\ rtss = "idle" => InFlight = Len(txq) + Len(rxq)
      /\ rtss # "idle" => InFlight = Len(txq) + Len(rxq) + 1
      /\ Len(txq) \in Nat /\ Len(rxq) \in Nat /\ InFlight \in Nat
  BY InFlightIs DEF IInv
<1>2. /\ rtss' = "idle" => InFlight' = Len(txq') + Len(rxq')
      /\ rtss' # "idle" => InFlight' = Len(txq') + Len(rxq') + 1
  BY DEF InFlight
<1>3. /\ rxq # <<>> => Len(Tail(rxq)) = Len(rxq) - 1
      /\ \A m \in Message : Len(Append(txq, m)) = Len(txq) + 1
      /\ HELLO \in Message /\ Len(<<>>) = 0
  BY QueueSteps, SimpleCommands DEF IInv, ChannelInv
<1>z. strays \in Nat /\ strays + 0 = strays /\ 0 \in Nat
  BY DEF IInv, CountInv
<1>4. CASE Handshake
  <2> USE DEF channels, rtssvars, counters
  <2>1. Ping /\ mbok /\ mbok' = mbok
    BY <1>4 DEF Handshake
  <2>2. /\ pc' = "true" => fpc' = "prepare"
        /\ pc \notin {"true", "false"} => fpc = "off"
    BY <1>4, HandshakeMoves DEF IInv, PlaceInv
  <2>3. ASSUME rtss_upd_is_ready \/ Ping_GiveUp
        PROVE  Counted(0)
    <3>1. /\ UNCHANGED <<txq, rxq, rtss, ping_err_cnt, strays>>
          /\ pc \in {"start", "ping"} /\ pc' \in {"ping", "false"}
      BY <2>3 DEF rtss_upd_is_ready, Ping_GiveUp
    <3> QED
      BY <1>1, <1>2, <1>z, <2>1, <3>1 DEF Pending, Counted, Erred
  <2>4. ASSUME Ping_Send \/ Ping_SendFails
        PROVE  Counted(0)
    <3>1. /\ UNCHANGED <<rxq, rtss, ping_err_cnt, strays>>
          /\ pc = "ping" /\ pc' \in {"recovery", "reset_both"}
          /\ txq' = txq \/ txq' = Append(txq, HELLO)
      BY <2>4 DEF Ping_Send, Ping_SendFails
    <3>2. Len(txq') = Len(txq) \/ Len(txq') = Len(txq) + 1
      BY <1>3, <3>1, Zenon
    <3>3. Pending = 0 /\ Pending' = 1
      BY <3>1 DEF Pending
    <3>4. Len(rxq') = Len(rxq) /\ rtss' = rtss
      BY <3>1, Zenon
    <3>5. InFlight' + 0 <= InFlight + 1 + 0
      BY <1>1, <1>2, <3>2, <3>4
    <3>6. ping_err_cnt' = ping_err_cnt /\ strays' = strays
      BY <3>1
    <3> QED
      BY <1>z, <2>1, <3>3, <3>5, <3>6, Zenon DEF Counted
  <2>5. ASSUME Ping_ResetBoth
        PROVE  \E d \in Nat : Counted(d)
    <3>1. /\ rxq' = rxq /\ ping_err_cnt' = ping_err_cnt
          /\ pc = "reset_both" /\ pc' = "reset_rx" /\ ResetTx
      BY <2>5 DEF Ping_ResetBoth
    <3>2. Pending = 1 /\ Pending' = 1
      BY <3>1 DEF Pending
    <3>3. CASE txq' = <<>> /\ rtss' = rtss /\ strays' = strays
      <4>1. Len(txq') = 0
        BY <1>3, <3>3, Zenon
      <4> QED
        BY <1>1, <1>2, <1>z, <2>1, <3>1, <3>2, <3>3, <4>1 DEF Counted
    <3>4. ASSUME NEW old \in Replays, RacedTx(old)
          PROVE  Counted(Len(old)) /\ Len(old) \in Nat
      <4>1. Len(old) \in Nat \ {0} /\ Len(Tail(old)) = Len(old) - 1
        BY ReplaysType
      <4>2. /\ rtss = "idle" /\ rtss' = "work" /\ strays' = strays + Len(old)
            /\ \/ txq # <<>> /\ txq' = old
               \/ txq' = Tail(old)
        BY <3>4, Zenon DEF RacedTx
      <4>3. Len(rxq') = Len(rxq)
        BY <3>1, Zenon
      <4>4. txq # <<>> => Len(txq) >= 1
        BY QueueSteps DEF IInv, ChannelInv
      <4>5. \/ Len(txq) >= 1 /\ Len(txq') = Len(old)
            \/ Len(txq') = Len(old) - 1
        BY <4>1, <4>2, <4>4, Zenon
      <4>6. InFlight' = Len(txq') + Len(rxq) + 1 /\ InFlight = Len(txq) + Len(rxq)
        BY <1>1, <1>2, <4>2, <4>3
      <4>7. \A n, t, r, t2 \in Nat : (t >= 1 /\ t2 = n) \/ t2 = n - 1
                                  => /\ t2 + r + 1 + 1 <= t + r + 1 + n
        OBVIOUS
      <4>8. Len(txq') \in Nat
        <5>1. Len(old) \in Nat /\ Len(old) - 1 \in Nat
          BY <4>1
        <5> QED
          BY <4>5, <5>1, Zenon
      <4>9. Len(txq') + Len(rxq) + 1 + 1 <= Len(txq) + Len(rxq) + 1 + Len(old)
        BY <1>1, <4>1, <4>5, <4>7, <4>8, Zenon
      <4> QED
        BY <2>1, <3>1, <3>2, <4>1, <4>2, <4>6, <4>9, Zenon DEF Counted
    <3>5. \/ txq' = <<>> /\ rtss' = rtss /\ strays' = strays
          \/ \E old \in Replays : RacedTx(old)
      BY <3>1, Zenon DEF ResetTx, RacedTx
    <3> QED
      BY <1>z, <3>3, <3>4, <3>5, Zenon
  <2>9. ASSUME Recovery_ResetRx
        PROVE  \E d \in Nat : Erred(d)
    <3>1. /\ txq' = txq /\ ping_err_cnt' = ping_err_cnt + 1
          /\ pc = "reset_rx" /\ pc' = "ping" /\ ResetRx
      BY <2>9 DEF Recovery_ResetRx
    <3>2. Pending = 1 /\ Pending' = 0
      BY <3>1 DEF Pending
    <3>3. CASE rxq' = <<>> /\ rtss' = rtss /\ strays' = strays
      <4>1. Len(rxq') = 0
        BY <1>3, <3>3, Zenon
      <4> QED
        BY <1>1, <1>2, <1>z, <2>1, <3>1, <3>2, <3>3, <4>1 DEF Erred
    <3>4. ASSUME NEW old \in Replays, RacedRx(old)
          PROVE  Erred(Len(old)) /\ Len(old) \in Nat
      <4>1. Len(old) \in Nat /\ old \in Seq(Message)
        BY ReplaysType
      <4>2. /\ rtss = "write" /\ rtss' = "idle" /\ strays' = strays + Len(old)
            /\ rxq' = Append(old, req)
        BY <3>4 DEF RacedRx
      <4>3. Len(rxq') = Len(old) + 1
        <5>1. req \in Message
          BY DEF IInv, ChannelInv
        <5>2. Len(Append(old, req)) = Len(old) + 1
          BY <4>1, <5>1, QueueSteps
        <5> QED
          BY <4>2, <5>2, Zenon
      <4>4. Len(txq') = Len(txq)
        BY <3>1, Zenon
      <4>5. InFlight' = Len(txq) + Len(rxq') /\ InFlight = Len(txq) + Len(rxq) + 1
        BY <1>1, <1>2, <4>2, <4>4
      <4>6. InFlight' <= InFlight + Len(old)
        BY <1>1, <4>1, <4>3, <4>5
      <4> QED
        BY <2>1, <3>1, <3>2, <4>1, <4>2, <4>6 DEF Erred
    <3>5. \/ rxq' = <<>> /\ rtss' = rtss /\ strays' = strays
          \/ \E old \in Replays : RacedRx(old)
      <4>1. ASSUME NEW old \in Replays, rtss = "write", Len(old) < Capacity,
                   rxq' = Append(old, req), strays' = strays + Len(old),
                   rtss' = "idle", req' = NoMsg
            PROVE  RacedRx(old)
        BY <3>1, <4>1, Zenon DEF RacedRx
      <4> QED
        BY <3>1, <4>1, Zenon DEF ResetRx
    <3> QED
      BY <1>z, <3>3, <3>4, <3>5, Zenon
  <2>6. ASSUME Recovery_Timeout
        PROVE  Counted(0)
    <3>1. /\ UNCHANGED <<txq, rxq, rtss, ping_err_cnt, strays>>
          /\ pc = "recovery" /\ pc' = "reset_rx"
      BY <2>6 DEF Recovery_Timeout
    <3> QED
      BY <1>1, <1>2, <1>z, <2>1, <3>1 DEF Pending, Counted, Erred
  <2>7. ASSUME Recovery_Match
        PROVE  Counted(0)
    <3>1. /\ UNCHANGED <<txq, rtss, ping_err_cnt, strays>>
          /\ pc = "recovery" /\ pc' \in {"ping", "true"}
          /\ rxq # <<>> /\ rxq' = Tail(rxq)
      BY <2>7 DEF Recovery_Match
    <3>2. Len(rxq') = Len(rxq) - 1
      BY <1>3, <3>1, Zenon
    <3> QED
      BY <1>1, <1>2, <1>z, <2>1, <2>2, <3>1, <3>2 DEF Pending, Counted, Erred
  <2>8. ASSUME Recovery_Mismatch
        PROVE  Erred(0)
    <3>1. /\ UNCHANGED <<txq, rtss, strays>> /\ ping_err_cnt' = ping_err_cnt + 1
          /\ pc = "recovery" /\ pc' \in {"false", "recovery"}
          /\ rxq # <<>> /\ rxq' = Tail(rxq)
      BY <2>8 DEF Recovery_Mismatch
    <3>2. Len(rxq') = Len(rxq) - 1
      BY <1>3, <3>1, Zenon
    <3> QED
      BY <1>1, <1>2, <1>z, <2>1, <3>1, <3>2 DEF Pending, Counted, Erred
  <2> HIDE DEF channels, rtssvars, counters
  <2> QED
    BY <1>z, <2>1, <2>3, <2>4, <2>5, <2>6, <2>7, <2>8, <2>9, Zenon DEF Ping
<1>5. ASSUME PrepareCommand \/ PrepareFails \/ LoadFileFails
      PROVE  Counted(0)
  <2>1. UNCHANGED <<txq, rxq, rtss, pc, ping_err_cnt, strays, mbok>>
    BY <1>5 DEF PrepareCommand, PrepareFails, LoadFileFails, Stay, hsvars,
       channels, rtssvars, counters
  <2>2. fpc = "prepare"
    BY <1>5 DEF PrepareCommand, PrepareFails, LoadFileFails
  <2>3. fpc \notin {"wait", "failed"} /\ pc = "true"
    BY <2>2 DEF IInv, PlaceInv
  <2> QED
    BY <1>1, <1>2, <1>z, <2>1, <2>3 DEF Pending, Counted
<1>10. ASSUME SendCommandFails
       PROVE  Counted(0)
  <2>1. /\ fpc = "send" /\ fpc' = "failed"
        /\ txq' = txq \/ txq' = Append(txq, Command)
        /\ UNCHANGED <<rxq, rtss, pc, ping_err_cnt, strays, mbok>>
    BY <1>10 DEF SendCommandFails, rtssvars, counters
  <2>2. pc = "true"
    BY <2>1 DEF IInv, PlaceInv
  <2>3. Command \in Message
    BY <2>2, CommandType DEF IInv
  <2>4. Len(txq') = Len(txq) \/ Len(txq') = Len(txq) + 1
    BY <1>3, <2>1, <2>3, Zenon
  <2> QED
    BY <1>1, <1>2, <1>z, <2>1, <2>2, <2>4 DEF Pending, Counted
<1>6. ASSUME SendCommand
      PROVE  Counted(0)
  <2>1. /\ fpc = "send" /\ fpc' = "wait" /\ txq' = Append(txq, Command)
        /\ UNCHANGED <<rxq, rtss, pc, ping_err_cnt, strays, mbok>>
    BY <1>6 DEF SendCommand, rtssvars, counters
  <2>2. pc = "true"
    BY <2>1 DEF IInv, PlaceInv
  <2>3. Command \in Message
    BY <2>2, CommandType DEF IInv
  <2>4. Len(txq') = Len(txq) + 1
    BY <1>3, <2>1, <2>3, Zenon
  <2> QED
    BY <1>1, <1>2, <1>z, <2>1, <2>2, <2>4 DEF Pending, Counted
<1>7. ASSUME rtss_updater_cbk_notify_handler
      PROVE  Counted(0)
  <2>1. /\ fpc = "wait" /\ rxq # <<>> /\ rxq' = Tail(rxq) /\ NextCommand
        /\ UNCHANGED <<txq, rtss, pc, ping_err_cnt, strays, mbok>>
    BY <1>7 DEF rtss_updater_cbk_notify_handler, rtssvars, counters
  <2>2. pc = "true" /\ fpc' \in {"failed", "ok", "prepare"}
    BY <2>1, NextCommandMoves DEF IInv, PlaceInv
  <2>3. Len(rxq') = Len(rxq) - 1
    BY <1>3, <2>1, Zenon
  <2> QED
    BY <1>1, <1>2, <1>z, <2>1, <2>2, <2>3 DEF Pending, Counted
<1>8. ASSUME notify_handler_ReadFails
      PROVE  \/ Counted(1)
             \/ ~mbok /\ UNCHANGED <<ping_err_cnt, strays, mbok>>
  <2>1. /\ UNCHANGED <<txq, rxq, rtss, pc, ping_err_cnt, mbok>>
        /\ \/ strays' = strays + 1
           \/ ~mbok /\ strays' = strays
    BY <1>8 DEF notify_handler_ReadFails, channels, rtssvars, counters
  <2>2. InFlight' = InFlight
    BY <2>1, Zenon DEF InFlight
  <2>3. Pending \in 0..1 /\ Pending' \in 0..1
    BY DEF Pending
  <2>4. \A n \in Nat : \A p, p2 \in 0..1 : n + p <= n + p2 + 1
    OBVIOUS
  <2>5. InFlight + Pending <= InFlight + Pending' + 1
    BY <1>1, <2>3, <2>4, Zenon
  <2>6. ping_err_cnt' = ping_err_cnt /\ mbok' = mbok
    BY <2>1
  <2>7. \/ strays' = strays + 1
        \/ ~mbok /\ strays' = strays
    BY <2>1
  <2>9. InFlight' + Pending <= InFlight + Pending' + 1
    BY <2>2, <2>5, Zenon
  <2>8. ASSUME strays' = strays + 1
        PROVE  Counted(1)
    BY ONLY <2>6, <2>8, <2>9, Zenon DEF Counted
  <2> QED
    BY <2>6, <2>7, <2>8, Zenon
<1>9. ASSUME Launch
      PROVE  Launched
  <2>1. /\ strays' = InFlight /\ ping_err_cnt' = 0 /\ pc' = "start"
        /\ UNCHANGED <<txq, rxq, rtss>>
    BY <1>9 DEF Launch, Relaunch, channels, rtssvars
  <2> QED
    BY <1>1, <1>2, <2>1 DEF Pending, Launched
<1>11. 1 \in Nat
  OBVIOUS
<1> QED
  BY <1>z, <1>4, <1>5, <1>6, <1>7, <1>8, <1>9, <1>10, <1>11, Zenon DEF Updater

\* The count is an invariant.
LEMMA CountKept ==
    ASSUME IInv, ChannelInv', Next
    PROVE  CountInv'
<1>1. /\ ping_err_cnt \in Nat /\ strays \in Nat /\ Pending \in 0..1 /\ Pending' \in 0..1
      /\ mbok => InFlight <= strays + ping_err_cnt + Pending
      /\ InFlight \in Nat
  BY InFlightIs DEF IInv, CountInv, Pending
<1>2. InFlight' \in Nat
  <2>1. txq' \in Seq(Message) /\ rxq' \in Seq(Message)
    BY DEF ChannelInv
  <2>2. Len(txq') \in Nat /\ Len(rxq') \in Nat
    BY <2>1, QueueSteps
  <2>3. \/ InFlight' = Len(txq') + Len(rxq') + 0
        \/ InFlight' = Len(txq') + Len(rxq') + 1
    BY ONLY Zenon DEF InFlight
  <2> QED
    BY <2>2, <2>3
<1>3. CASE Updater
  <2>1. pc # "true" => mbok
    BY DEF IInv, PlaceInv
  <2>2. \/ \E d \in Nat : Counted(d) \/ Erred(d)
        \/ Launched
        \/ ~mbok /\ UNCHANGED <<ping_err_cnt, strays, mbok>>
    BY <1>3, <2>1, InFlight_Updater
  <2>3. ASSUME NEW d \in Nat, Counted(d) \/ Erred(d)
        PROVE  CountInv'
    <3>1. /\ strays' = strays + d /\ mbok' = mbok
          /\ \/ ping_err_cnt' = ping_err_cnt /\ InFlight' + Pending <= InFlight + Pending' + d
             \/ /\ ping_err_cnt' = ping_err_cnt + 1
                /\ InFlight' <= InFlight + d /\ Pending' + 1 >= Pending
      BY <2>3, Zenon DEF Counted, Erred
    <3>2. /\ InFlight \in Nat /\ strays \in Nat /\ ping_err_cnt \in Nat
          /\ Pending \in 0..1 /\ Pending' \in 0..1 /\ InFlight' \in Nat
      BY <1>1, <1>2
    <3>3. ASSUME NEW n \in Nat, NEW i \in Nat, NEW e \in Nat, NEW p \in 0..1,
                 NEW n2 \in Nat, NEW p2 \in 0..1,
                 n = InFlight, i = strays, e = ping_err_cnt, p = Pending,
                 n2 = InFlight', p2 = Pending'
          PROVE  /\ ping_err_cnt' \in Nat /\ strays' \in Nat
                 /\ mbok => n2 <= strays' + ping_err_cnt' + p2
      <4>1. mbok => n <= i + e + p
        BY <1>1, <3>3, Zenon
      <4>2. /\ strays' = i + d
            /\ \/ ping_err_cnt' = e /\ n2 + p <= n + p2 + d
               \/ ping_err_cnt' = e + 1 /\ n2 <= n + d /\ p2 + 1 >= p
        BY <3>1, <3>3, Zenon
      <4> QED
        BY <4>1, <4>2
    <3>4. /\ ping_err_cnt' \in Nat /\ strays' \in Nat
          /\ mbok => InFlight' <= strays' + ping_err_cnt' + Pending'
      BY <3>2, <3>3, Zenon
    <3> QED
      BY <3>1, <3>4, Zenon DEF CountInv
  <2>4. CASE Launched
    <3>1. strays' = InFlight' /\ ping_err_cnt' = 0 /\ Pending' = 0
      BY <2>4 DEF Launched
    <3>2. \A n \in Nat : n <= n + 0 + 0
      OBVIOUS
    <3>3. InFlight' <= strays' + ping_err_cnt' + Pending'
      BY <1>2, <3>1, <3>2, Zenon
    <3>4. ping_err_cnt' \in Nat /\ strays' \in Nat
      BY <1>2, <3>1
    <3> QED
      BY <3>3, <3>4, Zenon DEF CountInv
  <2>5. CASE ~mbok /\ UNCHANGED <<ping_err_cnt, strays, mbok>>
    BY <1>1, <2>5, Zenon DEF CountInv
  <2> QED
    BY <2>2, <2>3, <2>4, <2>5, Zenon
<1>4. CASE Rtss
  BY <1>1, <1>2, <1>4, InFlight_Rtss DEF CountInv, Pending
<1> QED
  BY <1>3, <1>4 DEF Next

-----------------------------------------------------------------------------
(***************************************************************************)
(* The theorems                                                            *)
(***************************************************************************)
\* The first process begins with empty channels.
LEMMA Initially == Init => IInv
<1> SUFFICES ASSUME Init PROVE IInv
  OBVIOUS
<1>1. ChannelInv
  BY SimpleCommands, HandshakeAssumption DEF Init, HandshakeInit, ChannelInv
<1>2. PlaceInv
  BY DEF Init, HandshakeInit, PlaceInv
<1>3. OutcomeInv
  BY DEF Init, OutcomeInv, Status
<1>4. CountInv
  BY DEF Init, HandshakeInit, CountInv, InFlight, Pending
<1> QED
  BY <1>1, <1>2, <1>3, <1>4 DEF IInv

\* No step of the updater or of RTSS breaks the invariant.
LEMMA Inductive == IInv /\ [Next]_vars => IInv'
<1> SUFFICES ASSUME IInv, [Next]_vars
             PROVE  IInv'
  OBVIOUS
<1>1. CASE Next
  <2>1. ChannelInv'
    BY <1>1, ChannelKept_Updater, ChannelKept_Rtss DEF Next
  <2>2. PlaceInv' /\ OutcomeInv'
    BY <1>1, PlaceKept_Updater, PlaceKept_Rtss, OutcomeKept_Updater, OutcomeKept_Rtss DEF Next
  <2>3. CountInv'
    BY <1>1, <2>1, CountKept
  <2> QED
    BY <2>1, <2>2, <2>3 DEF IInv
<1>2. CASE UNCHANGED vars
  BY <1>2 DEF vars, hsvars, fvars, channels, rtssvars, counters, resp, nor, faults, IInv,
     ChannelInv, PlaceInv, OutcomeInv, CountInv, InFlight, Pending
<1> QED
  BY <1>1, <1>2

\* The inductive invariant of the updater, for every number of pings, of
\* errors, of images and of processes.
THEOREM Invariance == Spec => []IInv
<1>1. Init => IInv
  BY Initially
<1>2. IInv /\ [Next]_vars => IInv'
  BY Inductive
<1> QED
  BY <1>1, <1>2, PTL DEF Spec

\* A sequence never runs past its last command, and the channels never
\* overflow: for every number of images, the lengths of the sequences of
\* rtss_updater.c included.
THEOREM TypeCorrect == Spec => []TypeOK
<1>1. IInv => TypeOK
  BY DEF IInv, ChannelInv, PlaceInv, OutcomeInv, TypeOK
<1> QED
  BY <1>1, Invariance, PTL

\* What a handshake leaves behind, for every RTSS_UPD_PING_RETRY_CNT and
\* RTSS_UPD_PING_ERR_CNT: at most what it found or a reset brought back, and
\* one message for each error it counted, however late RTSS answers and
\* whatever resets drop; the sequence adds the command it waits on, or the
\* one whose send was reported as failed.
THEOREM Leftovers == Spec => []LeftoversCounted
<1>1. IInv => LeftoversCounted
  BY DEF IInv, PlaceInv, CountInv, Pending, LeftoversCounted
<1> QED
  BY <1>1, Invariance, PTL

-----------------------------------------------------------------------------
(***************************************************************************)
(* The marker of a sequence: the command whose answer, known by its data,  *)
(* tells that the sequence is reading the answers to its own commands.     *)
(***************************************************************************)
MarkerOf(f) == IF f = "gpt" THEN "CHECK_GPT" ELSE "GET_BOOTINFO"

\* The identifiers of the commands.
LEMMA CommandIds ==
    /\ rtss_updater_chkgpt.id = "CHECK_GPT"
    /\ rtss_updater_readgpt.id = "READ_GPT"
    /\ rtss_updater_writegpt.id = "WRITE_GPT"
    /\ rtss_updater_fixgpt.id = "FIX_GPT"
    /\ rtss_updater_updategpt.id = "UPDATE_GPT"
    /\ rtss_updater_get_metadata_info.id = "GET_OTA_METADATAINFO"
    /\ rtss_updater_get_metadata.id = "GET_OTA_METADATA"
    /\ rtss_updater_set_metadata.id = "SET_OTA_METADATA"
    /\ rtss_updater_get_bl_info.id = "GET_BOOTINFO"
    /\ rtss_updater_update_ota_done_state.id = "OTA_DONE"
    /\ rtss_updater_redundancy_established.id = "REDUNDANCY_ESTABLISHED"
    /\ rtss_updater_update_arb.id = "UPDATE_ARB"
    /\ \A i \in Images : /\ rtss_updater_flashimg(i).id = "FLASH_IMAGE"
                         /\ rtss_updater_flashimg(i).img = i
                         /\ rtss_updater_readimg(i).id = "READ_IMAGE"
BY DEF Msg, rtss_updater_chkgpt, rtss_updater_readgpt,
       rtss_updater_writegpt, rtss_updater_fixgpt,
       rtss_updater_updategpt, rtss_updater_get_metadata_info, rtss_updater_get_metadata,
       rtss_updater_set_metadata, rtss_updater_get_bl_info, rtss_updater_update_ota_done_state,
       rtss_updater_redundancy_established, rtss_updater_update_arb, rtss_updater_flashimg,
       rtss_updater_readimg

\* A sequence is what it begins with.
LEMMA JoinedBegins ==
    ASSUME NEW S, NEW s \in Seq(S), NEW t \in Seq(S)
    PROVE  /\ s \o t \in Seq(S) /\ Len(s) \in Nat /\ Len(s) <= Len(s \o t)
           /\ \A i \in 1..Len(s) : (s \o t)[i] = s[i]
BY SMT

\* A sequence that asks for the boot information in its fourth command, after
\* three that program nothing.
LEMMA MarkerFourth ==
    ASSUME NEW s, s[1].id = "CHECK_GPT", s[2].id = "GET_OTA_METADATAINFO",
           s[3].id = "GET_OTA_METADATA", s[4].id = "GET_BOOTINFO",
           NEW i \in Nat \ {0}, s[i].id \in Programs
    PROVE  \E j \in 1..(i - 1) : s[j].id = "GET_BOOTINFO"
<1>1. i # 1 /\ i # 2 /\ i # 3 /\ i # 4
  BY DEF Programs
<1>2. 4 \in 1..(i - 1)
  BY <1>1
<1> QED
  BY <1>2

\* The commands before the images in pre-reboot and flasher sequences.
LEMMA HeadOfFour ==
    ASSUME NEW t \in Seq(Message), NEW s,
           s = <<rtss_updater_chkgpt, rtss_updater_get_metadata_info,
                 rtss_updater_get_metadata, rtss_updater_get_bl_info>> \o t
    PROVE  /\ s[1].id = "CHECK_GPT" /\ s[2].id = "GET_OTA_METADATAINFO"
           /\ s[3].id = "GET_OTA_METADATA" /\ s[4].id = "GET_BOOTINFO"
           /\ s \in Seq(Message) /\ Len(s) \in Nat /\ 4 <= Len(s)
<1> DEFINE head == <<rtss_updater_chkgpt, rtss_updater_get_metadata_info,
                     rtss_updater_get_metadata, rtss_updater_get_bl_info>>
<1>1. /\ head \in Seq(Message) /\ Len(head) = 4
      /\ head[1] = rtss_updater_chkgpt /\ head[2] = rtss_updater_get_metadata_info
      /\ head[3] = rtss_updater_get_metadata /\ head[4] = rtss_updater_get_bl_info
  BY SimpleCommands
<1>2. 1 \in 1..4 /\ 2 \in 1..4 /\ 3 \in 1..4 /\ 4 \in 1..4
  OBVIOUS
<1>3. s = head \o t
  OBVIOUS
<1> HIDE DEF head
<1>4. \A i \in 1..Len(head) : (head \o t)[i] = head[i]
  BY <1>1, JoinedBegins, Zenon
<1>5. \A i \in 1..4 : s[i] = head[i]
  BY <1>1, <1>3, <1>4, Zenon
<1>6. /\ s[1] = rtss_updater_chkgpt /\ s[2] = rtss_updater_get_metadata_info
      /\ s[3] = rtss_updater_get_metadata /\ s[4] = rtss_updater_get_bl_info
  BY <1>1, <1>2, <1>5, Zenon
<1>7. s \in Seq(Message) /\ Len(head) <= Len(s)
  BY <1>1, <1>3, JoinedBegins, Zenon
<1>8. Len(s) \in Nat /\ 4 <= Len(s)
  BY <1>1, <1>7, QueueSteps
<1> QED
  BY <1>6, <1>7, <1>8, CommandIds, Zenon

\* The GPT update checks the GPT and then reads it; it flashes no image.
LEMMA GptCommands ==
    /\ Len(Sequence["gpt"]) = 4
    /\ Sequence["gpt"][1].id = "CHECK_GPT" /\ Sequence["gpt"][2].id = "READ_GPT"
    /\ \A i \in 1..4 : /\ Sequence["gpt"][i].id # "FLASH_IMAGE"
                       /\ Sequence["gpt"][i].id = "CHECK_GPT" => i = 1
<1>1. Sequence["gpt"] = rtss_updater_image_update_gpt
  BY Zenon DEF Sequence, AllFlows
<1>2. rtss_updater_image_update_gpt = <<rtss_updater_chkgpt, rtss_updater_readgpt,
                                        rtss_updater_writegpt, rtss_updater_fixgpt>>
  BY DEF rtss_updater_image_update_gpt
<1> QED
  BY <1>1, <1>2, CommandIds

\* No sequence has a command that programs the flash before its marker.
LEMMA MarkerFirst ==
    ASSUME NEW f \in AllFlows, NEW i \in 1..Len(Sequence[f]), Sequence[f][i].id \in Programs
    PROVE  \E j \in 1..(i - 1) : Sequence[f][j].id = MarkerOf(f)
<1> DEFINE s == Sequence[f]
<1>0. s \in Seq(Message) /\ Len(s) \in Nat /\ i \in Nat \ {0}
  <2>1. s \in Seq(Message)
    BY SequencesOfCommands, Zenon DEF NonEmptySeq
  <2> HIDE DEF s
  <2>2. Len(s) \in Nat
    BY <2>1, QueueSteps, Zenon
  <2>3. i \in Nat \ {0}
    BY <2>2 DEF s
  <2> QED
    BY <2>1, <2>2, <2>3
<1>1. CASE f = "preboot"
  <2> DEFINE first == <<rtss_updater_chkgpt, rtss_updater_get_metadata_info,
                        rtss_updater_get_metadata, rtss_updater_get_bl_info>>
                      \o [k \in Images |-> rtss_updater_flashimg(k)]
             last == <<rtss_updater_updategpt>>
  <2>1. s = first \o last
    BY <1>1, Zenon DEF Sequence, rtss_updater_preboot_demosequence
  <2>2. last \in Seq(Message)
    BY SimpleCommands
  <2>3. [k \in Images |-> rtss_updater_flashimg(k)] \in Seq(Message)
    BY ImageCommands, FlowAssumption DEF Images
  <2>4. /\ first[1].id = "CHECK_GPT" /\ first[2].id = "GET_OTA_METADATAINFO"
        /\ first[3].id = "GET_OTA_METADATA" /\ first[4].id = "GET_BOOTINFO"
        /\ first \in Seq(Message) /\ Len(first) \in Nat /\ 4 <= Len(first)
    BY <2>3, HeadOfFour, Zenon
  <2> HIDE DEF s, first, last
  <2>5. \A j \in 1..Len(first) : (first \o last)[j] = first[j]
    BY <2>2, <2>4, JoinedBegins, Zenon
  <2>6. 1 \in 1..Len(first) /\ 2 \in 1..Len(first) /\ 3 \in 1..Len(first) /\ 4 \in 1..Len(first)
    BY <2>4
  <2>7. /\ s[1].id = "CHECK_GPT" /\ s[2].id = "GET_OTA_METADATAINFO"
        /\ s[3].id = "GET_OTA_METADATA" /\ s[4].id = "GET_BOOTINFO"
    BY <2>1, <2>4, <2>5, <2>6, Zenon
  <2>8. s[i].id \in Programs
    BY DEF s
  <2>9. \E j \in 1..(i - 1) : s[j].id = "GET_BOOTINFO"
    BY <1>0, <2>7, <2>8, MarkerFourth, Zenon
  <2> QED
    BY <1>1, <2>9 DEF s, MarkerOf
<1>2. CASE f = "postboot"
  <2> DEFINE head == <<rtss_updater_update_ota_done_state, rtss_updater_get_bl_info,
                       rtss_updater_chkgpt>>
             images == [k \in 1 .. 2 * NImages |-> IF k % 2 = 1
                                     THEN rtss_updater_readimg((k + 1) \div 2)
                                     ELSE rtss_updater_flashimg(k \div 2)]
             last == <<rtss_updater_fixgpt, rtss_updater_redundancy_established,
                       rtss_updater_get_metadata_info, rtss_updater_set_metadata,
                       rtss_updater_update_arb>>
             first == head \o images
  <2>1. s = first \o last
    BY <1>2, Zenon DEF Sequence, rtss_updater_postboot_demosequence
  <2>2. /\ last \in Seq(Message) /\ head \in Seq(Message) /\ Len(head) = 3
        /\ head[1] = rtss_updater_update_ota_done_state
        /\ head[2] = rtss_updater_get_bl_info
    BY SimpleCommands
  <2>3. images \in Seq(Message)
    BY MirrorCommands
  <2> HIDE DEF s, head, images, last
  <2>4. /\ first \in Seq(Message) /\ Len(head) <= Len(first)
        /\ \A j \in 1..Len(head) : first[j] = head[j]
    BY <2>2, <2>3, JoinedBegins, Zenon
  <2> HIDE DEF first
  <2>5. /\ Len(first) \in Nat
        /\ \A j \in 1..Len(first) : s[j] = first[j]
    BY <2>1, <2>2, <2>4, JoinedBegins, Zenon
  <2>6. 1 \in 1..Len(head) /\ 2 \in 1..Len(head) /\ 1 \in 1..Len(first) /\ 2 \in 1..Len(first)
    BY <2>2, <2>4, <2>5
  <2>7. s[1].id = "OTA_DONE" /\ s[2].id = "GET_BOOTINFO"
    <3>1. s[1] = first[1] /\ s[2] = first[2]
      BY <2>5, <2>6, Zenon
    <3>2. first[1] = head[1] /\ first[2] = head[2]
      BY <2>4, <2>6, Zenon
    <3>3. /\ s[1] = rtss_updater_update_ota_done_state
          /\ s[2] = rtss_updater_get_bl_info
      BY <2>2, <3>1, <3>2, Zenon
    <3> QED
      BY <3>3, CommandIds
  <2>8. s[i].id \in Programs
    BY DEF s
  <2>9. i # 1 /\ i # 2
    BY <2>7, <2>8 DEF Programs
  <2>10. 2 \in 1..(i - 1)
    BY <1>0, <2>9
  <2> QED
    BY <1>2, <2>7, <2>10 DEF s, MarkerOf
<1>3. CASE f = "ackstate"
  <2>1. s = <<rtss_updater_update_ota_done_state>>
    BY <1>3, Zenon DEF Sequence
  <2>2. i = 1 /\ s[1].id = "OTA_DONE"
    BY <2>1, CommandIds
  <2> QED
    BY <2>2 DEF Programs
<1>4. CASE f \in {"flasher", "bank", "single"}
  <2>1. PICK banks \in {1, 2}, n \in 1..NImages : s = rtss_updater_devprog_flasher(banks, n)
    <3>1. NImages \in 1..NImages /\ 1 \in 1..NImages
      BY FlowAssumption
    <3>2. CASE f = "flasher"
      BY <3>1, <3>2, Zenon DEF Sequence
    <3>3. CASE f = "bank"
      BY <3>1, <3>3, Zenon DEF Sequence
    <3>4. CASE f = "single"
      BY <3>1, <3>4, Zenon DEF Sequence
    <3> QED
      BY <1>4, <3>2, <3>3, <3>4
  <2> DEFINE flash == [k \in 1 .. banks * n |-> rtss_updater_flashimg(1 + ((k - 1) % n))]
  <2>2. flash \in Seq(Message)
    BY FlasherImages
  <2>3. s = <<rtss_updater_chkgpt, rtss_updater_get_metadata_info,
              rtss_updater_get_metadata, rtss_updater_get_bl_info>> \o flash
    BY <2>1, Zenon DEF rtss_updater_devprog_flasher
  <2> HIDE DEF s, flash
  <2>4. /\ s[1].id = "CHECK_GPT" /\ s[2].id = "GET_OTA_METADATAINFO"
        /\ s[3].id = "GET_OTA_METADATA" /\ s[4].id = "GET_BOOTINFO"
    BY <2>2, <2>3, HeadOfFour, Zenon
  <2>5. s[i].id \in Programs
    BY DEF s
  <2>6. \E j \in 1..(i - 1) : s[j].id = "GET_BOOTINFO"
    BY <1>0, <2>4, <2>5, MarkerFourth, Zenon
  <2> QED
    BY <1>4, <2>6 DEF s, MarkerOf
<1>5. CASE f = "gpt"
  <2>1. s[1].id = "CHECK_GPT" /\ 1 \in Nat
    BY <1>5, GptCommands, Zenon DEF s
  <2>2. i # 1
    BY <2>1 DEF Programs
  <2>3. 1 \in 1..(i - 1)
    BY <1>0, <2>2
  <2> QED
    BY <1>5, <2>1, <2>3 DEF MarkerOf
<1> QED
  BY <1>1, <1>2, <1>3, <1>4, <1>5 DEF AllFlows

-----------------------------------------------------------------------------
(***************************************************************************)
(* The invariant of a sequence in a process that found clean channels.     *)
(* Its first answers may be those of surplus HELLOs.  The marker is sent   *)
(* once: when its answer has been read, the channels being queues, nothing *)
(* else is in flight, and from then on the sequence is in step.            *)
(***************************************************************************)
\* The messages of a queue, all in flight, and the answers among them.
Elems(q) == {q[k] : k \in 1..Len(q)}
Transit == Elems(rxq) \cup Elems(txq) \cup (IF rtss = "idle" THEN {} ELSE {req})
Answers == Elems(rxq) \cup (IF rtss = "write" THEN {req} ELSE {})

\* No message in flight has one of the identifiers ids.
Nowhere(ids) == \A m \in Transit : m.id \notin ids

\* Only the last message of a queue may have the identifier id, and only the
\* last one in flight.
Ends(q, id) == \A k \in 1..Len(q) : q[k].id = id => k = Len(q)
OnlyLast(id) ==
    /\ Ends(rxq, id) /\ Ends(txq, id)
    /\ (\E m \in Elems(rxq) : m.id = id) => rtss = "idle" /\ txq = <<>>
    /\ rtss # "idle" /\ req.id = id => txq = <<>>

Marker == MarkerOf(flow)

\* The marker is one of the commands behind.
Passed == \E j \in 1..(step - 1) : Sequence[flow][j].id = Marker

\* Its answer has been read.
InStep == pc = "true" /\ Passed /\ Marker \in stored

\* What a process that found clean channels can have in them at first.
OwnIds == Ids \ {"HELLO", "corrupt"}

\* Before the marker is passed: it is not sent yet, or it is the last message
\* that was.
MarkerInv ==
    /\ pc # "true" => stored = {} /\ Nowhere(OwnIds)
    /\ pc = "true" /\ ~Passed /\ (Command.id = Marker => fpc \in {"prepare", "send"}) =>
           Marker \notin stored /\ Nowhere({Marker})
    /\ pc = "true" /\ ~Passed /\ Command.id = Marker /\ fpc = "wait" =>
           Marker \notin stored /\ OnlyLast(Marker)

\* After it.  The GPT update passes the marker without its answer, but cannot
\* send the next command.
StepInv ==
    pc = "true" /\ Passed =>
        /\ Marker \notin stored => flow = "gpt" /\ step = 2 /\ fpc \in {"prepare", "send", "failed"}
        /\ Marker \in stored /\ mbok =>
               InFlight <= (IF fpc \in {"wait", "failed"} THEN 1 ELSE 0)

\* Only in step is a command sent that programs the flash.
ProgramsInv == ~InStep => Nowhere(Programs)

\* The answer of the boot information, which no later request has overwritten,
\* and what it must have said; a restart after it is known.
BootInv ==
    /\ pc = "true" /\ ~Passed /\ Command.id = Marker /\ fpc = "wait" /\ flow # "gpt" =>
           \A m \in Answers : m.id = "GET_BOOTINFO" /\ m.status = "SUCCESS" =>
               entries = "boot" /\ boot # "any"
    /\ pc = "true" /\ Passed /\ flow # "gpt" /\ ~rebooted =>
           mbok /\ boot \notin {"any", "B", "damaged"}

CleanInv == MarkerInv /\ StepInv /\ ProgramsInv /\ BootInv

\* The messages of a queue after appending one and after taking one.
LEMMA QueueElements ==
    ASSUME NEW S, NEW q \in Seq(S)
    PROVE  /\ Elems(<<>>) = {}
           /\ q # <<>> => Head(q) \in Elems(q) /\ Elems(Tail(q)) \subseteq Elems(q)
           /\ \A m \in S : Elems(Append(q, m)) = Elems(q) \cup {m}
<1>1. Elems(<<>>) = {}
  BY DEF Elems
<1>2. ASSUME q # <<>>
      PROVE  Head(q) \in Elems(q) /\ Elems(Tail(q)) \subseteq Elems(q)
  <2>1. /\ Len(q) \in Nat \ {0} /\ Head(q) = q[1] /\ Len(Tail(q)) = Len(q) - 1
        /\ \A k \in 1..Len(Tail(q)) : Tail(q)[k] = q[k + 1] /\ k + 1 \in 1..Len(q)
    BY <1>2
  <2>2. 1 \in 1..Len(q)
    BY <2>1
  <2>3. Head(q) \in Elems(q)
    BY <2>1, <2>2, Zenon DEF Elems
  <2>4. ASSUME NEW x \in Elems(Tail(q))
        PROVE  x \in Elems(q)
    <3>1. PICK k \in 1..Len(Tail(q)) : x = Tail(q)[k]
      BY <2>4, Zenon DEF Elems
    <3>2. x = q[k + 1] /\ k + 1 \in 1..Len(q)
      BY <2>1, <3>1, Zenon
    <3> QED
      BY <3>2, Zenon DEF Elems
  <2> QED
    BY <2>3, <2>4
<1>3. ASSUME NEW m \in S
      PROVE  Elems(Append(q, m)) = Elems(q) \cup {m}
  <2>1. /\ Len(q) \in Nat /\ Len(Append(q, m)) = Len(q) + 1
        /\ \A k \in 1..Len(q) : Append(q, m)[k] = q[k]
        /\ Append(q, m)[Len(q) + 1] = m
    BY SMT
  <2>2. 1..(Len(q) + 1) = (1..Len(q)) \cup {Len(q) + 1}
    BY <2>1
  <2> QED
    BY <2>1, <2>2, Zenon DEF Elems
<1> QED
  BY <1>1, <1>2, <1>3

\* A message that only the last of a queue can be.
LEMMA QueueEnds ==
    ASSUME NEW S, NEW q \in Seq(S), NEW id
    PROVE  /\ Ends(<<>>, id)
           /\ q # <<>> /\ Ends(q, id) =>
                  Ends(Tail(q), id) /\ (Head(q).id = id => Tail(q) = <<>>)
           /\ (\A m \in Elems(q) : m.id # id) => \A m \in S : Ends(Append(q, m), id)
<1>1. Ends(<<>>, id)
  BY DEF Ends
<1>2. ASSUME q # <<>>, Ends(q, id)
      PROVE  Ends(Tail(q), id) /\ (Head(q).id = id => Tail(q) = <<>>)
  <2>1. /\ Len(q) \in Nat \ {0} /\ Head(q) = q[1] /\ Len(Tail(q)) = Len(q) - 1
        /\ \A k \in 1..Len(Tail(q)) : Tail(q)[k] = q[k + 1] /\ k + 1 \in 1..Len(q)
        /\ Tail(q) \in Seq(S)
    BY <1>2
  <2>2. Ends(Tail(q), id)
    <3> SUFFICES ASSUME NEW k \in 1..Len(Tail(q)), Tail(q)[k].id = id
                 PROVE  k = Len(Tail(q))
      BY DEF Ends
    <3>1. q[k + 1].id = id /\ k + 1 \in 1..Len(q)
      BY <2>1, Zenon
    <3>2. k + 1 = Len(q)
      BY <1>2, <3>1, Zenon DEF Ends
    <3>3. \A n \in Nat \ {0} : \A i \in 1..(n - 1) : i + 1 = n => i = n - 1
      OBVIOUS
    <3>4. k \in 1..(Len(q) - 1)
      BY <2>1, Zenon
    <3>5. k = Len(q) - 1
      BY <2>1, <3>2, <3>3, <3>4, Zenon
    <3> QED
      BY <2>1, <3>5, Zenon
  <2>3. ASSUME Head(q).id = id
        PROVE  Tail(q) = <<>>
    <3>1. 1 \in 1..Len(q) /\ q[1].id = id
      BY <2>1, <2>3
    <3>2. Len(q) = 1
      BY <1>2, <3>1, Zenon DEF Ends
    <3>3. Tail(q) \in Seq(S) /\ Len(Tail(q)) = 0
      BY <2>1, <3>2
    <3>4. \A t \in Seq(S) : Len(t) = 0 => t = <<>>
      OBVIOUS
    <3> QED
      BY <3>3, <3>4, Zenon
  <2> QED
    BY <2>2, <2>3
<1>3. ASSUME \A m \in Elems(q) : m.id # id, NEW m \in S
      PROVE  Ends(Append(q, m), id)
  <2>1. /\ Len(q) \in Nat /\ Len(Append(q, m)) = Len(q) + 1
        /\ \A k \in 1..Len(q) : Append(q, m)[k] = q[k]
    BY SMT
  <2>2. \A k \in 1..(Len(q) + 1) : k \in 1..Len(q) \/ k = Len(q) + 1
    BY <2>1
  <2>3. \A k \in 1..Len(q) : Append(q, m)[k].id # id
    BY <1>3, <2>1, Zenon DEF Elems
  <2> QED
    BY <2>1, <2>2, <2>3, Zenon DEF Ends
<1> QED
  BY <1>1, <1>2, <1>3

\* An answer is the request with a status.
LEMMA AnswerOf ==
    ASSUME NEW m \in Message, NEW n, NEW st, n = [m EXCEPT !.status = st]
    PROVE  n.id = m.id /\ n.img = m.img /\ n.status = st
BY DEF Message

\* What RTSS does to the messages in flight: it moves them on, makes requests
\* answers and corrupts answers, but makes up nothing.
LEMMA Transit_Rtss ==
    ASSUME IInv, Rtss
    PROVE  \A m \in Transit' : \/ m.id = "corrupt"
                               \/ \E n \in Transit : n.id = m.id /\ n.img = m.img
<1>1. txq \in Seq(Message) /\ rxq \in Seq(Message) /\ req \in Message
  BY DEF IInv, ChannelInv
<1>2. /\ txq # <<>> => Head(txq) \in Elems(txq) /\ Elems(Tail(txq)) \subseteq Elems(txq)
      /\ \A m \in Message : Elems(Append(rxq, m)) = Elems(rxq) \cup {m}
      /\ Elems(<<>>) = {}
  BY <1>1, QueueElements
<1>3. CASE TakeRequest
  <2>1. /\ rtss = "idle" /\ txq # <<>> /\ txq' = Tail(txq) /\ rxq' = rxq
        /\ req' = Head(txq)
    BY <1>3 DEF TakeRequest, RtssTake
  <2>2. Transit' \subseteq Transit
    <3>1. Elems(txq') \subseteq Elems(txq) /\ req' \in Elems(txq) /\ Elems(rxq') = Elems(rxq)
      BY <1>2, <2>1, Zenon
    <3> QED
      BY <3>1 DEF Transit
  <2> QED
    BY <2>2, Zenon
<1>4. ASSUME NEW st \in Status, ExecuteRequest(st)
      PROVE  \A m \in Transit' : \E n \in Transit : n.id = m.id /\ n.img = m.img
  <2>1. /\ rtss = "work" /\ rtss' = "write" /\ UNCHANGED <<txq, rxq>>
        /\ req' = [req EXCEPT !.status = st]
    BY <1>4 DEF ExecuteRequest, RtssExecute, channels
  <2>2. req'.id = req.id /\ req'.img = req.img
    BY <1>1, <2>1, AnswerOf, Zenon
  <2>3. /\ Transit = Elems(rxq) \cup Elems(txq) \cup {req}
        /\ Transit' = Elems(rxq) \cup Elems(txq) \cup {req'}
    BY <2>1 DEF Transit
  <2> QED
    BY <2>2, <2>3, Zenon
<1>5. CASE PublishAnswer
  <2>1. rtss = "write" /\ rtss' = "idle" /\ txq' = txq /\ rxq' = Append(rxq, req)
    BY <1>5 DEF PublishAnswer, RtssPublish
  <2>2. Elems(rxq') = Elems(rxq) \cup {req} /\ Elems(txq') = Elems(txq)
    BY <1>1, <1>2, <2>1, Zenon
  <2>3. Transit' \subseteq Transit
    BY <2>1, <2>2 DEF Transit
  <2> QED
    BY <2>3, Zenon
<1>6. ASSUME NEW st \in Status, CorruptAnswer(st)
      PROVE  \A m \in Transit' : m.id = "corrupt" \/ m \in Transit
  <2> DEFINE c == Msg("corrupt", 0, st)
  <2>1. rtss = "write" /\ rtss' = "idle" /\ txq' = txq /\ rxq' = Append(rxq, c)
    BY <1>6 DEF CorruptAnswer
  <2>2. c \in Message /\ c.id = "corrupt"
    BY MsgType DEF Ids, Msg
  <2> HIDE DEF c
  <2>3. Elems(rxq') = Elems(rxq) \cup {c} /\ Elems(txq') = Elems(txq)
    BY <1>2, <2>1, <2>2, Zenon
  <2>4. Transit' \subseteq Transit \cup {c}
    BY <2>1, <2>3 DEF Transit
  <2> QED
    BY <2>2, <2>4, Zenon
<1>7. CASE RtssDown
  <2>1. UNCHANGED <<txq, rxq, rtss, req>>
    BY <1>7 DEF RtssDown, hsvars, channels, rtssvars
  <2>2. Transit' = Transit
    BY <2>1 DEF Transit, Elems
  <2> QED
    BY <2>2, Zenon
<1>8. CASE RtssUp
  <2>1. txq' = <<>> /\ rxq' = <<>> /\ rtss' = "idle"
    BY <1>8 DEF RtssUp
  <2>2. Elems(txq') = {} /\ Elems(rxq') = {}
    BY <1>2, <2>1, Zenon
  <2> QED
    BY <2>1, <2>2 DEF Transit
<1> QED
  BY <1>3, <1>4, <1>5, <1>6, <1>7, <1>8, Zenon DEF Rtss

\* The last message in flight is still the last one when RTSS has moved it on.
LEMMA OnlyLast_Rtss ==
    ASSUME IInv, Rtss, NEW id, id # "corrupt", OnlyLast(id)
    PROVE  OnlyLast(id)'
<1>1. txq \in Seq(Message) /\ rxq \in Seq(Message) /\ req \in Message
  BY DEF IInv, ChannelInv
<1>2. /\ Ends(rxq, id) /\ Ends(txq, id)
      /\ (\E m \in Elems(rxq) : m.id = id) => rtss = "idle" /\ txq = <<>>
      /\ rtss # "idle" /\ req.id = id => txq = <<>>
  BY Zenon DEF OnlyLast
<1> SUFFICES /\ Ends(rxq', id) /\ Ends(txq', id)
             /\ (\E m \in Elems(rxq') : m.id = id) => rtss' = "idle" /\ txq' = <<>>
             /\ rtss' # "idle" /\ req'.id = id => txq' = <<>>
  BY Zenon DEF OnlyLast
<1>3. /\ Ends(<<>>, id) /\ Elems(<<>>) = {}
      /\ \A m \in Message : Elems(Append(rxq, m)) = Elems(rxq) \cup {m}
      /\ txq # <<>> => Ends(Tail(txq), id) /\ (Head(txq).id = id => Tail(txq) = <<>>)
      /\ (\A m \in Elems(rxq) : m.id # id) => \A m \in Message : Ends(Append(rxq, m), id)
  BY <1>1, <1>2, QueueElements, QueueEnds, Zenon
<1>4. CASE TakeRequest
  <2>1. /\ rtss = "idle" /\ txq # <<>> /\ txq' = Tail(txq) /\ rxq' = rxq
        /\ req' = Head(txq)
    BY <1>4 DEF TakeRequest, RtssTake
  <2>2. \A m \in Elems(rxq) : m.id # id
    BY <1>2, <2>1, Zenon
  <2> QED
    BY <1>2, <1>3, <2>1, <2>2, Zenon
<1>5. ASSUME NEW st \in Status, ExecuteRequest(st)
      PROVE  /\ UNCHANGED <<txq, rxq>> /\ rtss # "idle" /\ rtss' # "idle"
             /\ req'.id = req.id
  <2>1. /\ rtss = "work" /\ rtss' = "write" /\ UNCHANGED <<txq, rxq>>
        /\ req' = [req EXCEPT !.status = st]
    BY <1>5 DEF ExecuteRequest, RtssExecute, channels
  <2>2. req'.id = req.id /\ req'.img = req.img
    BY <1>1, <2>1, AnswerOf, Zenon
  <2> QED
    BY <2>1, <2>2
<1>6. CASE PublishAnswer
  <2>1. rtss = "write" /\ rtss' = "idle" /\ txq' = txq /\ rxq' = Append(rxq, req)
    BY <1>6 DEF PublishAnswer, RtssPublish
  <2>2. \A m \in Elems(rxq) : m.id # id
    BY <1>2, <2>1, Zenon
  <2>3. Ends(rxq', id) /\ Elems(rxq') = Elems(rxq) \cup {req}
    BY <1>1, <1>3, <2>1, <2>2, Zenon
  <2>4. (\E m \in Elems(rxq') : m.id = id) => req.id = id
    BY <2>2, <2>3, Zenon
  <2> QED
    BY <1>2, <2>1, <2>3, <2>4, Zenon
<1>7. ASSUME NEW st \in Status, CorruptAnswer(st)
      PROVE  /\ Ends(rxq', id) /\ txq' = txq /\ rtss' = "idle"
             /\ \A m \in Elems(rxq') : m.id # id
  <2> DEFINE c == Msg("corrupt", 0, st)
  <2>1. rtss = "write" /\ rtss' = "idle" /\ txq' = txq /\ rxq' = Append(rxq, c)
    BY <1>7 DEF CorruptAnswer
  <2>2. c \in Message /\ c.id = "corrupt"
    BY MsgType DEF Ids, Msg
  <2> HIDE DEF c
  <2>3. \A m \in Elems(rxq) : m.id # id
    BY <1>2, <2>1, Zenon
  <2>4. Ends(rxq', id) /\ Elems(rxq') = Elems(rxq) \cup {c}
    BY <1>3, <2>1, <2>2, <2>3, Zenon
  <2>5. \A m \in Elems(rxq') : m.id # id
    BY <2>2, <2>3, <2>4, Zenon
  <2> QED
    BY <2>1, <2>4, <2>5, Zenon
<1>8. CASE RtssDown
  <2>1. UNCHANGED <<txq, rxq, rtss, req>>
    BY <1>8 DEF RtssDown, hsvars, channels, rtssvars
  <2> QED
    BY <1>2, <2>1, Zenon
<1>9. CASE RtssUp
  <2>1. txq' = <<>> /\ rxq' = <<>> /\ rtss' = "idle"
    BY <1>9 DEF RtssUp
  <2> QED
    BY <1>3, <2>1, Zenon
<1>10. ASSUME NEW st \in Status, ExecuteRequest(st)
       PROVE  /\ Ends(rxq', id) /\ Ends(txq', id)
              /\ (\E m \in Elems(rxq') : m.id = id) => rtss' = "idle" /\ txq' = <<>>
              /\ rtss' # "idle" /\ req'.id = id => txq' = <<>>
  BY <1>2, <1>5, <1>10, Zenon
<1>11. ASSUME NEW st \in Status, CorruptAnswer(st)
       PROVE  /\ Ends(rxq', id) /\ Ends(txq', id)
              /\ (\E m \in Elems(rxq') : m.id = id) => rtss' = "idle" /\ txq' = <<>>
              /\ rtss' # "idle" /\ req'.id = id => txq' = <<>>
  BY <1>2, <1>7, <1>11, Zenon
<1> QED
  BY <1>4, <1>6, <1>8, <1>9, <1>10, <1>11, Zenon DEF Rtss

\* While the sequence stays at its command, what is said of the command stays.
LEMMA SameCommand ==
    ASSUME flow' = flow, step' = step
    PROVE  Command' = Command /\ (Passed' <=> Passed) /\ Marker' = Marker
BY Zenon DEF Command, Passed, Marker

\* Nothing RTSS does sets back or ends the wait for the marker.
LEMMA Clean_Rtss ==
    ASSUME IInv, Rtss, CleanInv, InFlight' \in Nat
    PROVE  CleanInv'
<1>1. UNCHANGED <<pc, fpc, flow, step, stored>>
  BY DEF Rtss, TakeRequest, ExecuteRequest, PublishAnswer, CorruptAnswer, RtssDown, RtssUp,
     RtssTake, RtssExecute, RtssPublish, hsvars, fvars, resp
<1>2. /\ Command' = Command /\ (Passed' <=> Passed) /\ Marker' = Marker
      /\ InStep' <=> InStep
  <2>1. Command' = Command /\ (Passed' <=> Passed) /\ Marker' = Marker
    BY <1>1, SameCommand, Zenon
  <2> QED
    BY <1>1, <2>1, Zenon DEF InStep
<1>3. ASSUME NEW ids, "corrupt" \notin ids, Nowhere(ids)
      PROVE  Nowhere(ids)'
  BY <1>3, Transit_Rtss, Zenon DEF Nowhere
<1>4. Marker # "corrupt"
  BY DEF Marker, MarkerOf
<1>5. MarkerInv'
  <2>1. pc # "true" => stored = {} /\ Nowhere(OwnIds)'
    BY <1>3, Zenon DEF CleanInv, MarkerInv, OwnIds
  <2>2. pc = "true" /\ ~Passed /\ (Command.id = Marker => fpc \in {"prepare", "send"}) =>
           Marker \notin stored /\ Nowhere({Marker})'
    <3> SUFFICES ASSUME pc = "true", ~Passed, Command.id = Marker => fpc \in {"prepare", "send"}
                 PROVE  Marker \notin stored /\ Nowhere({Marker})'
      OBVIOUS
    <3>1. Marker \notin stored /\ \A m \in Transit : m.id # Marker
      BY Zenon DEF CleanInv, MarkerInv, Nowhere
    <3>2. \A m \in Transit' : m.id # Marker
      BY <1>4, <3>1, Transit_Rtss, Zenon
    <3> QED
      BY <1>2, <3>1, <3>2, Zenon DEF Nowhere
  <2>3. pc = "true" /\ ~Passed /\ Command.id = Marker /\ fpc = "wait" =>
           Marker \notin stored /\ OnlyLast(Marker)'
    <3> SUFFICES ASSUME pc = "true", ~Passed, Command.id = Marker, fpc = "wait"
                 PROVE  Marker \notin stored /\ OnlyLast(Marker)'
      OBVIOUS
    <3>1. Marker \notin stored /\ OnlyLast(Marker)
      BY Zenon DEF CleanInv, MarkerInv
    <3>2. ASSUME NEW id, id = Marker
          PROVE  OnlyLast(Marker)'
      <4>1. OnlyLast(id)
        BY <3>1, <3>2, Zenon DEF OnlyLast
      <4>2. OnlyLast(id)'
        BY <1>4, <3>2, <4>1, OnlyLast_Rtss, Zenon
      <4> QED
        BY <1>2, <3>2, <4>2, Zenon DEF OnlyLast
    <3> QED
      BY <3>1, <3>2, Zenon
  <2> QED
    BY <1>1, <1>2, <2>1, <2>2, <2>3, Zenon DEF MarkerInv
<1>6. StepInv'
  <2>1. ASSUME pc = "true", Passed, Marker \in stored, mbok'
        PROVE  InFlight' <= (IF fpc \in {"wait", "failed"} THEN 1 ELSE 0)
    <3>1. mbok => InFlight <= (IF fpc \in {"wait", "failed"} THEN 1 ELSE 0)
      BY <2>1 DEF CleanInv, StepInv
    <3>2. /\ InFlight' = InFlight \/ InFlight' = 0
          /\ mbok' /\ ~mbok => InFlight' = 0
      BY InFlight_Rtss, ChannelKept_Rtss
    <3>3. CASE InFlight' = 0
      <4>1. 0 <= (IF fpc \in {"wait", "failed"} THEN 1 ELSE 0)
        OBVIOUS
      <4> QED
        BY <3>3, <4>1, Zenon
    <3>4. CASE mbok /\ InFlight' = InFlight
      BY <3>1, <3>4, Zenon
    <3> QED
      BY <2>1, <3>2, <3>3, <3>4, Zenon
  <2>2. pc = "true" /\ Passed /\ Marker \notin stored =>
           flow = "gpt" /\ step = 2 /\ fpc \in {"prepare", "send", "failed"}
    BY Zenon DEF CleanInv, StepInv
  <2> QED
    BY <1>1, <1>2, <2>1, <2>2, Zenon DEF StepInv
<1>7. ProgramsInv'
  <2>1. "corrupt" \notin Programs
    BY DEF Programs
  <2> QED
    BY <1>2, <1>3, <2>1, Zenon DEF CleanInv, ProgramsInv
<1>8. /\ boot # "any" /\ mbok => boot' = boot
      /\ rebooted => rebooted'
      /\ mbok => \/ mbok'
                 \/ "GET_BOOTINFO" \in stored => rebooted'
  <2>1. CASE RtssDown
    BY <2>1, Zenon DEF RtssDown
  <2>2. CASE RtssUp
    BY <2>2, Zenon DEF RtssUp
  <2>3. CASE TakeRequest
    BY <2>3, Zenon DEF TakeRequest
  <2>4. ASSUME NEW st \in Status, ExecuteRequest(st)
        PROVE  mbok /\ mbok' = mbok /\ rebooted' = rebooted /\ (boot # "any" => boot' = boot)
    BY <2>4, Zenon DEF ExecuteRequest
  <2>5. ASSUME NEW st \in Status, CorruptAnswer(st)
        PROVE  mbok /\ mbok' = mbok /\ rebooted' = rebooted /\ boot' = boot
    BY <2>5 DEF CorruptAnswer, nor
  <2>6. CASE PublishAnswer
    <3>1. mbok /\ mbok' = mbok /\ rebooted' = rebooted /\ boot' = boot
      BY <2>6 DEF PublishAnswer, fvars, nor
    <3> QED
      BY <3>1, Zenon
  <2> QED
    BY <2>1, <2>2, <2>3, <2>4, <2>5, <2>6, Zenon DEF Rtss
<1>9. ASSUME pc = "true", ~Passed, Command.id = Marker, fpc = "wait", flow # "gpt",
             NEW m \in Answers', m.id = "GET_BOOTINFO", m.status = "SUCCESS"
      PROVE  entries' = "boot" /\ boot' # "any"
  <2>1. Marker = "GET_BOOTINFO" /\ OnlyLast("GET_BOOTINFO")
    <3>1. Marker = "GET_BOOTINFO"
      BY <1>9, Zenon DEF Marker, MarkerOf
    <3>2. OnlyLast(Marker)
      BY <1>9, Zenon DEF CleanInv, MarkerInv
    <3> QED
      BY <3>1, <3>2, Zenon DEF OnlyLast
  <2>2. \A n \in Answers : n.id = "GET_BOOTINFO" /\ n.status = "SUCCESS" =>
            entries = "boot" /\ boot # "any"
    BY <1>9, Zenon DEF CleanInv, BootInv
  <2>3. txq \in Seq(Message) /\ rxq \in Seq(Message) /\ req \in Message
    BY DEF IInv, ChannelInv
  <2>4. /\ \A n \in Message : Elems(Append(rxq, n)) = Elems(rxq) \cup {n}
        /\ Elems(<<>>) = {}
    BY <2>3, QueueElements, Zenon
  <2>5. CASE TakeRequest
    <3>1. /\ rtss = "idle" /\ rtss' = "work" /\ rxq' = rxq
          /\ UNCHANGED <<entries, boot>>
      BY <2>5 DEF TakeRequest, RtssTake
    <3>2. m \in Answers
      BY <1>9, <3>1 DEF Answers, Elems
    <3> QED
      BY <1>9, <2>2, <3>1, <3>2, Zenon
  <2>6. ASSUME NEW st \in Status, ExecuteRequest(st)
        PROVE  entries' = "boot" /\ boot' # "any"
    <3>1. /\ rtss = "work" /\ rtss' = "write" /\ rxq' = rxq
          /\ req' = [req EXCEPT !.status = st]
      BY <2>6 DEF ExecuteRequest, RtssExecute, channels
    <3>2. req'.id = req.id /\ req'.status = st
      <4>1. \A x \in Message : /\ [x EXCEPT !.status = st].id = x.id
                              /\ [x EXCEPT !.status = st].status = st
        BY AnswerOf
      <4> QED
        BY <2>3, <3>1, <4>1, Zenon
    <3>3. m \in Elems(rxq) \/ m = req'
      BY <1>9, <3>1 DEF Answers, Elems
    <3>4. \A n \in Elems(rxq) : n.id # "GET_BOOTINFO"
      BY <2>1, <3>1, Zenon DEF OnlyLast
    <3>5. req.id = "GET_BOOTINFO" /\ st = "SUCCESS"
      BY <1>9, <3>2, <3>3, <3>4, Zenon
    <3>6. "any" \notin Boots
      BY FlowAssumption DEF BootStates
    <3>7. boot' # "any"
      <4>1. mbok /\ (boot = "any" => boot' \in Boots)
        BY <2>6, <3>5 DEF ExecuteRequest
      <4> QED
        BY <1>8, <3>6, <4>1, Zenon
    <3>8. entries' = CASE req.id = "GET_BOOTINFO" /\ st = "SUCCESS" -> "boot"
                    [] req.id \in {"GET_OTA_METADATA", "READ_GPT", "READ_IMAGE", "FIX_GPT",
                                   "UPDATE_GPT"} -> "other"
                    [] OTHER -> entries
      BY <2>6, Zenon DEF ExecuteRequest
    <3>9. req.id \notin {"GET_OTA_METADATA", "READ_GPT", "READ_IMAGE", "FIX_GPT", "UPDATE_GPT"}
      BY <3>5
    <3> QED
      BY <3>5, <3>7, <3>8, <3>9, Zenon
  <2>7. CASE PublishAnswer
    <3>1. /\ rtss = "write" /\ rtss' = "idle" /\ rxq' = Append(rxq, req)
          /\ UNCHANGED <<entries, boot>>
      BY <2>7 DEF PublishAnswer, RtssPublish, fvars, nor
    <3>2. Elems(rxq') = Elems(rxq) \cup {req}
      BY <2>3, <2>4, <3>1, Zenon
    <3>3. m \in Answers
      BY <1>9, <3>1, <3>2 DEF Answers
    <3> QED
      BY <1>9, <2>2, <3>1, <3>3, Zenon
  <2>8. ASSUME NEW st \in Status, CorruptAnswer(st)
        PROVE  entries' = "boot" /\ boot' # "any"
    <3> DEFINE c == Msg("corrupt", 0, st)
    <3>1. /\ rtss' = "idle" /\ rxq' = Append(rxq, c)
          /\ UNCHANGED <<entries, boot>>
      BY <2>8 DEF CorruptAnswer, nor
    <3>2. c \in Message /\ c.id = "corrupt"
      BY MsgType DEF Ids, Msg
    <3> HIDE DEF c
    <3>3. Elems(rxq') = Elems(rxq) \cup {c}
      BY <2>4, <3>1, <3>2, Zenon
    <3>4. m \in Answers \/ m = c
      BY <1>9, <3>1, <3>3 DEF Answers
    <3>5. m \in Answers
      BY <1>9, <3>2, <3>4
    <3> QED
      BY <1>9, <2>2, <3>1, <3>5, Zenon
  <2>9. CASE RtssDown
    <3>1. UNCHANGED <<rxq, rtss, req, entries, boot>>
      BY <2>9 DEF RtssDown, hsvars, channels, rtssvars, nor
    <3>2. m \in Answers
      BY <1>9, <3>1 DEF Answers, Elems
    <3> QED
      BY <1>9, <2>2, <3>1, <3>2, Zenon
  <2>10. CASE RtssUp
    <3>1. rxq' = <<>> /\ rtss' = "idle"
      BY <2>10 DEF RtssUp
    <3>2. Elems(rxq') = {}
      BY <2>4, <3>1, Zenon
    <3> QED
      BY <1>9, <3>1, <3>2 DEF Answers
  <2> QED
    BY <2>5, <2>6, <2>7, <2>8, <2>9, <2>10, Zenon DEF Rtss
<1>10. BootInv'
  <2>1. ASSUME pc = "true", Passed, flow # "gpt", ~rebooted'
        PROVE  mbok' /\ boot' \notin {"any", "B", "damaged"}
    <3>1. ~rebooted
      BY <1>8, <2>1, Zenon
    <3>2. mbok /\ boot \notin {"any", "B", "damaged"}
      BY <2>1, <3>1, Zenon DEF CleanInv, BootInv
    <3>3. "GET_BOOTINFO" \in stored
      BY <2>1, Zenon DEF CleanInv, StepInv, Marker, MarkerOf
    <3> QED
      BY <1>8, <2>1, <3>2, <3>3, Zenon
  <2> QED
    BY <1>1, <1>2, <1>9, <2>1, Zenon DEF BootInv
<1> QED
  BY <1>5, <1>6, <1>7, <1>10, Zenon DEF CleanInv

\* Passing a command.
LEMMA PassedNext ==
    ASSUME step \in Nat \ {0}, flow' = flow, step' = step + 1
    PROVE  Marker' = Marker /\ (Passed' <=> Passed \/ Command.id = Marker)
<1>1. Marker' = Marker
  BY Zenon DEF Marker
<1>2. 1..(step' - 1) = (1..(step - 1)) \cup {step}
  BY Z3
<1> QED
  BY <1>1, <1>2, Zenon DEF Passed, Command

\* A sequence goes on only after a status of success, and past the boot
\* information only when there is some and it is found in order.
LEMMA NextCommandChecks ==
    ASSUME NextCommand, fpc' # "failed"
    PROVE  /\ respStatus' = "SUCCESS"
           /\ Command.id = "GET_BOOTINFO" =>
                  /\ "GET_BOOTINFO" \in stored' /\ boot # "damaged"
                  /\ entries = "boot" => boot # "B"
<1>1. PICK ok \in IF Command.id = "GET_BOOTINFO" THEN rtss_updater_validate_boot_info
                  ELSE {TRUE} : ~(respStatus' # "SUCCESS" \/ ~ok)
  BY Zenon DEF NextCommand
<1>2. ASSUME Command.id = "GET_BOOTINFO"
      PROVE  /\ "GET_BOOTINFO" \in stored' /\ boot # "damaged"
             /\ entries = "boot" => boot # "B"
  <2>1. ok \in rtss_updater_validate_boot_info /\ ok
    BY <1>1, <1>2, Zenon
  <2>2. "GET_BOOTINFO" \in stored' /\ boot # "damaged"
    BY <2>1, Zenon DEF rtss_updater_validate_boot_info
  <2>3. ASSUME entries = "boot" PROVE boot # "B"
    <3>1. rtss_updater_validate_boot_info = {boot # "B"}
      BY <2>2, <2>3, Zenon DEF rtss_updater_validate_boot_info
    <3> QED
      BY <2>1, <3>1, Zenon
  <2> QED
    BY <2>2, <2>3, Zenon
<1> QED
  BY <1>1, <1>2, Zenon

\* Pings add HELLOs only, and reading an answer nothing.
LEMMA Transit_Updater ==
    ASSUME IInv, rtss' = rtss, req' = req
    PROVE  /\ \A m \in Message :
                  /\ txq' = txq \/ txq' = <<>> \/ txq' = Append(txq, m)
                  /\ rxq' = rxq \/ rxq' = <<>> \/ (rxq # <<>> /\ rxq' = Tail(rxq))
                  => Transit' \subseteq Transit \cup {m}
           /\ txq' = txq /\ rxq # <<>> /\ rxq' = Tail(rxq) => Transit' \subseteq Transit
           /\ rxq # <<>> => Head(rxq) \in Answers /\ Head(rxq) \in Transit
<1>1. /\ Elems(<<>>) = {}
      /\ rxq # <<>> => Head(rxq) \in Elems(rxq) /\ Elems(Tail(rxq)) \subseteq Elems(rxq)
      /\ \A m \in Message : Elems(Append(txq, m)) = Elems(txq) \cup {m}
  BY QueueElements DEF IInv, ChannelInv
<1>2. ASSUME NEW m \in Message,
             txq' = txq \/ txq' = <<>> \/ txq' = Append(txq, m),
             rxq' = rxq \/ rxq' = <<>> \/ (rxq # <<>> /\ rxq' = Tail(rxq))
      PROVE  Transit' \subseteq Transit \cup {m}
  <2>1. Elems(txq') \subseteq Elems(txq) \cup {m}
    BY <1>1, <1>2, Zenon
  <2>2. Elems(rxq') \subseteq Elems(rxq)
    BY <1>1, <1>2, Zenon
  <2> QED
    BY <2>1, <2>2 DEF Transit
<1>3. ASSUME txq' = txq, rxq # <<>>, rxq' = Tail(rxq)
      PROVE  Transit' \subseteq Transit
  <2>1. Elems(txq') = Elems(txq) /\ Elems(rxq') \subseteq Elems(rxq)
    BY <1>1, <1>3, Zenon
  <2> QED
    BY <2>1 DEF Transit
<1>4. rxq # <<>> => Head(rxq) \in Answers /\ Head(rxq) \in Transit
  BY <1>1 DEF Answers, Transit
<1> QED
  BY <1>2, <1>3, <1>4, Zenon

\* What a race with a reset brings back is strays.
LEMMA QuietHandshake ==
    ASSUME IInv, Handshake, strays' = 0
    PROVE  QuietPing /\ flashed' = flashed
<1>1. Ping
  BY DEF Handshake
<1>2. QuietPing
  <2>1. ASSUME NEW old \in Replays, RacedRx(old) \/ RacedTx(old)
        PROVE  FALSE
    <3>1. strays' = strays + Len(old)
      BY <2>1 DEF RacedRx, RacedTx
    <3>2. strays \in Nat /\ Len(old) \in Nat \ {0}
      BY ReplaysType DEF IInv, CountInv
    <3> QED
      BY <3>1, <3>2
  <2> QED
    BY <1>1, <2>1, PingMoves, Zenon
<1>3. ~(rtss = "idle" /\ rtss' = "work")
  BY <1>2 DEF QuietPing
<1>4. flashed' = IF rtss = "idle" /\ rtss' = "work" THEN Erased(req') ELSE flashed
  BY Zenon DEF Handshake
<1> QED
  BY <1>2, <1>3, <1>4, Zenon

\* The handshake leaves a sequence at its first command.
LEMMA Clean_Handshake ==
    ASSUME IInv, Handshake, CleanInv, strays' = 0
    PROVE  CleanInv'
<1>1. /\ pc # "true" /\ UNCHANGED <<step, stored, boot>>
  <2>1. Ping /\ UNCHANGED <<step, stored, boot>>
    BY DEF Handshake, resp, nor
  <2>2. pc # "true"
    BY <2>1 DEF Ping, rtss_upd_is_ready, Ping_GiveUp, Ping_Send, Ping_SendFails,
       Ping_ResetBoth, Recovery_Timeout, Recovery_ResetRx, Recovery_Match, Recovery_Mismatch
  <2> QED
    BY <2>1, <2>2
<1>2. stored = {} /\ step = 1 /\ Nowhere(OwnIds)
  BY <1>1, Zenon DEF CleanInv, MarkerInv, IInv, PlaceInv
<1>3. Transit' \subseteq Transit \cup {HELLO}
  <2>1. QuietPing
    BY QuietHandshake
  <2>2. HELLO \in Message
    BY SimpleCommands
  <2>3. /\ rtss' = rtss /\ req' = req
        /\ txq' = txq \/ txq' = <<>> \/ txq' = Append(txq, HELLO)
        /\ rxq' = rxq \/ rxq' = <<>> \/ (rxq # <<>> /\ rxq' = Tail(rxq))
    BY <2>1, Zenon DEF QuietPing
  <2> QED
    BY <2>2, <2>3, Transit_Updater, Zenon
<1>4. Nowhere(OwnIds)'
  <2>1. HELLO.id \notin OwnIds
    BY DEF HELLO, Msg, OwnIds
  <2> QED
    BY <1>2, <1>3, <2>1, Zenon DEF Nowhere
<1>5. Programs \subseteq OwnIds /\ MarkerOf(flow') \in OwnIds
  BY DEF Programs, OwnIds, Ids, MarkerOf
<1>6. pc' = "true" => ~Passed' /\ fpc' # "wait"
  <2>1. 1..(step' - 1) = {}
    BY <1>1, <1>2
  <2>2. ~Passed'
    BY <2>1, Zenon DEF Passed
  <2>3. pc' = "true" => fpc' = "prepare"
    BY HandshakeMoves, Zenon
  <2> QED
    BY <2>2, <2>3
<1>7. MarkerInv'
  BY <1>1, <1>2, <1>4, <1>5, <1>6, Zenon DEF MarkerInv, Marker, Nowhere
<1>8. StepInv' /\ BootInv'
  BY <1>6, Zenon DEF StepInv, BootInv
<1>9. ProgramsInv'
  BY <1>4, <1>5, Zenon DEF ProgramsInv, Nowhere
<1> QED
  BY <1>7, <1>8, <1>9, Zenon DEF CleanInv

\* A process that is launched when nothing is in flight finds clean channels.
LEMMA Clean_Launch ==
    ASSUME IInv, Launch, strays' = 0
    PROVE  CleanInv'
<1>1. /\ pc' = "start" /\ stored' = {} /\ strays' = InFlight
      /\ UNCHANGED <<txq, rxq, rtss, req>>
  BY DEF Launch, Relaunch, channels, rtssvars
<1>2. Len(txq) = 0 /\ Len(rxq) = 0 /\ rtss = "idle"
  BY <1>1, InFlightIs DEF IInv
<1>3. Transit' = {}
  BY <1>1, <1>2 DEF Transit, Elems
<1> QED
  BY <1>1, <1>3 DEF CleanInv, MarkerInv, StepInv, ProgramsInv, BootInv, Nowhere, InStep

\* Preparing a command, and giving up.
Prepares ==
    \/ PrepareCommand
    \/ PrepareFails
    \/ LoadFileFails
    \/ SendCommandFails /\ txq' = txq

\* These send and read nothing.
LEMMA PreparesMoves ==
    ASSUME Prepares
    PROVE  /\ UNCHANGED <<txq, rxq, rtss, req, pc, strays, flow, step, stored, mbok, boot, rebooted,
                          flashed, otaDone, unanswered, restarts>>
           /\ fpc \in {"prepare", "send"} /\ fpc' \in {"send", "failed", "dead"}
           /\ fpc' = "dead" => LoadsFile
BY DEF Prepares, PrepareCommand, PrepareFails, LoadFileFails, SendCommandFails, Stay, hsvars,
       channels, rtssvars, resp, nor, faults

\* Sending a command, which may be reported as failed, adds it to the channel.
LEMMA SendsMoves ==
    ASSUME Sends
    PROVE  /\ fpc = "send" /\ mbok /\ ~EmptyPayload
           /\ fpc' \in {"wait", "failed"} /\ txq' = Append(txq, Command)
           /\ UNCHANGED <<rxq, rtss, req, pc, strays, flow, step, respStatus, stored, entries, mbok,
                          boot, rebooted, flashed, otaDone, unanswered, restarts>>
BY DEF Sends, SendCommand, SendCommandFails, rtssvars, resp, nor, faults

LEMMA Clean_Prepare ==
    ASSUME IInv, CleanInv, Prepares
    PROVE  CleanInv'
<1>1. /\ UNCHANGED <<txq, rxq, rtss, req, pc, flow, step, stored, mbok, boot, rebooted>>
      /\ fpc \in {"prepare", "send"} /\ fpc' \in {"send", "failed", "dead"}
      /\ fpc' = "dead" => LoadsFile
  BY PreparesMoves
<1>2. /\ Command' = Command /\ (Passed' <=> Passed) /\ Marker' = Marker
      /\ InStep' <=> InStep
  <2>1. Command' = Command /\ (Passed' <=> Passed) /\ Marker' = Marker
    BY <1>1, SameCommand, Zenon
  <2> QED
    BY <1>1, <2>1, Zenon DEF InStep
<1>3. Transit' = Transit /\ InFlight' = InFlight
  BY <1>1 DEF Transit, Elems, InFlight
<1>4. fpc \notin {"wait", "failed"} /\ fpc' # "wait"
  BY <1>1
<1>5. MarkerInv'
  <2>1. pc' # "true" => stored' = {} /\ Nowhere(OwnIds)'
    BY <1>1, <1>3, Zenon DEF CleanInv, MarkerInv, Nowhere
  <2>2. ASSUME pc = "true", ~Passed, Command.id = Marker => fpc' \in {"prepare", "send"}
        PROVE  Marker \notin stored /\ Nowhere({Marker})'
    <3>1. Marker \notin stored /\ Nowhere({Marker})
      BY <1>1, <2>2, Zenon DEF CleanInv, MarkerInv
    <3> QED
      BY <1>2, <1>3, <3>1, Zenon DEF Nowhere
  <2> QED
    BY <1>1, <1>2, <1>4, <2>1, <2>2, Zenon DEF MarkerInv
<1>6. StepInv'
  <2>1. ASSUME pc = "true", Passed, Marker \notin stored
        PROVE  flow = "gpt" /\ step = 2 /\ fpc' \in {"prepare", "send", "failed"}
    <3>1. flow = "gpt" /\ step = 2
      BY <2>1, Zenon DEF CleanInv, StepInv
    <3>2. ~LoadsFile
      BY <3>1, GptCommands DEF LoadsFile, Command
    <3> QED
      BY <1>1, <3>1, <3>2
  <2>2. ASSUME pc = "true", Passed, Marker \in stored, mbok
        PROVE  InFlight <= (IF fpc' \in {"wait", "failed"} THEN 1 ELSE 0)
    <3>1. InFlight <= (IF fpc \in {"wait", "failed"} THEN 1 ELSE 0)
      BY <2>2, Zenon DEF CleanInv, StepInv
    <3>2. InFlight <= 0 /\ InFlight \in Nat
      BY <1>4, <3>1, InFlightIs DEF IInv
    <3>3. \A n \in Nat : n <= 0 => n <= 1
      OBVIOUS
    <3> QED
      BY <3>2, <3>3, Zenon
  <2> QED
    BY <1>1, <1>2, <1>3, <2>1, <2>2, Zenon DEF StepInv
<1>7. ProgramsInv'
  BY <1>2, <1>3, Zenon DEF CleanInv, ProgramsInv, Nowhere
<1>8. BootInv'
  BY <1>1, <1>2, <1>4, Zenon DEF CleanInv, BootInv
<1> QED
  BY <1>5, <1>6, <1>7, <1>8, Zenon DEF CleanInv

\* Who may send: before the marker is passed no command that programs the
\* flash, and after it only with an answer to it.
LEMMA SendInStep ==
    ASSUME IInv, CleanInv, Sends
    PROVE  /\ pc = "true"
           /\ Passed => Marker \in stored /\ InFlight = 0
           /\ Command.id \in Programs => Passed
           /\ Command.id = "FLASH_IMAGE" => flow # "gpt"
<1>1. fpc = "send" /\ mbok /\ ~EmptyPayload
  BY SendsMoves
<1>2. pc = "true" /\ flow \in AllFlows /\ step \in 1..Len(Sequence[flow])
  BY <1>1, FlowAssumption DEF IInv, PlaceInv
<1>3. ASSUME Passed
      PROVE  Marker \in stored /\ InFlight = 0
  <2>1. Marker \in stored
    <3> SUFFICES ASSUME Marker \notin stored
                 PROVE  FALSE
      OBVIOUS
    <3>1. flow = "gpt" /\ step = 2
      BY <1>2, <1>3, Zenon DEF CleanInv, StepInv
    <3>2. Command.id = "READ_GPT" /\ Marker = "CHECK_GPT"
      BY <3>1, GptCommands, Zenon DEF Command, Marker, MarkerOf
    <3> QED
      BY <1>1, <3>2, Zenon DEF EmptyPayload
  <2>2. InFlight <= (IF fpc \in {"wait", "failed"} THEN 1 ELSE 0)
    BY <1>1, <1>2, <1>3, <2>1, Zenon DEF CleanInv, StepInv
  <2>3. InFlight \in Nat
    BY InFlightIs DEF IInv
  <2> QED
    BY <1>1, <2>1, <2>2, <2>3
<1>4. ASSUME Command.id \in Programs
      PROVE  Passed
  BY <1>2, <1>4, MarkerFirst, Zenon DEF Command, Passed, Marker
<1>5. ASSUME Command.id = "FLASH_IMAGE", flow = "gpt"
      PROVE  FALSE
  BY <1>2, <1>5, GptCommands DEF Command
<1> QED
  BY <1>2, <1>3, <1>4, <1>5

\* A command that is sent is the last in flight, and in step the only one.
LEMMA Clean_Send ==
    ASSUME IInv, CleanInv, Sends, InFlight' \in Nat
    PROVE  CleanInv'
<1>1. /\ fpc = "send" /\ fpc' \in {"wait", "failed"} /\ mbok /\ txq' = Append(txq, Command)
      /\ UNCHANGED <<rxq, rtss, req, pc, flow, step, stored, mbok, boot, rebooted, entries>>
  BY SendsMoves
<1>2. /\ pc = "true"
      /\ Passed => Marker \in stored /\ InFlight = 0
      /\ Command.id \in Programs => Passed
  BY SendInStep
<1>3. Command \in Message
  BY <1>2, CommandType DEF IInv
<1>4. /\ Command' = Command /\ (Passed' <=> Passed) /\ Marker' = Marker
      /\ InStep' <=> InStep
  <2>1. Command' = Command /\ (Passed' <=> Passed) /\ Marker' = Marker
    BY <1>1, SameCommand, Zenon
  <2> QED
    BY <1>1, <2>1, Zenon DEF InStep
<1>5. Transit' \subseteq Transit \cup {Command}
  BY <1>1, <1>3, Transit_Updater, Zenon
<1>6. txq \in Seq(Message) /\ rxq \in Seq(Message)
  BY DEF IInv, ChannelInv
<1>7. MarkerInv'
  <2>1. ASSUME ~Passed, Command.id # Marker
        PROVE  Marker \notin stored /\ Nowhere({Marker})'
    <3>1. Marker \notin stored /\ Nowhere({Marker})
      BY <1>2, <2>1, Zenon DEF CleanInv, MarkerInv
    <3> QED
      BY <1>4, <1>5, <2>1, <3>1, Zenon DEF Nowhere
  <2>2. ASSUME ~Passed, Command.id = Marker
        PROVE  Marker \notin stored /\ OnlyLast(Marker)'
    <3>1. Marker \notin stored /\ Nowhere({Marker})
      BY <1>1, <1>2, <2>2, Zenon DEF CleanInv, MarkerInv
    <3>2. \A m \in Transit : m.id # Marker
      BY <3>1, Zenon DEF Nowhere
    <3>3. /\ \A m \in Elems(rxq) : m.id # Marker
          /\ \A m \in Elems(txq) : m.id # Marker
          /\ rtss # "idle" => req.id # Marker
      BY <3>2, Zenon DEF Transit
    <3>4. Ends(txq', Marker)
      BY <1>1, <1>3, <1>6, <3>3, QueueEnds, Zenon
    <3>5. Ends(rxq', Marker)
      BY <1>1, <3>3, Zenon DEF Ends, Elems
    <3> QED
      BY <1>1, <1>4, <3>1, <3>3, <3>4, <3>5, Zenon DEF OnlyLast
  <2> QED
    BY <1>1, <1>2, <1>4, <2>1, <2>2, Zenon DEF MarkerInv
<1>8. StepInv'
  <2>1. ASSUME Passed
        PROVE  Marker \in stored /\ InFlight' <= 1
    <3>1. Marker \in stored /\ InFlight = 0
      BY <1>2, <2>1
    <3>2. Len(txq) = 0 /\ Len(rxq) = 0 /\ rtss = "idle"
      BY <3>1, InFlightIs DEF IInv
    <3>3. Len(txq') = Len(txq) + 1 /\ Len(rxq') = Len(rxq)
      BY <1>1, <1>3, <1>6, QueueSteps, Zenon
    <3>4. InFlight' = Len(txq') + Len(rxq') + 0
      BY <1>1, <3>2, Zenon DEF InFlight
    <3>5. InFlight' = 1
      BY <3>2, <3>3, <3>4, Z3
    <3> QED
      BY <3>1, <3>5, Z3
  <2>2. ASSUME Passed
        PROVE  Marker \in stored /\ InFlight' <= (IF fpc' \in {"wait", "failed"} THEN 1 ELSE 0)
    BY <1>1, <2>1, <2>2, Zenon
  <2> QED
    BY <1>1, <1>4, <2>2, Zenon DEF StepInv
<1>9. ProgramsInv'
  <2>1. ASSUME ~InStep
        PROVE  Nowhere(Programs)'
    <3>1. Nowhere(Programs)
      BY <2>1, Zenon DEF CleanInv, ProgramsInv
    <3>2. Command.id \notin Programs
      BY <1>2, <2>1, Zenon DEF InStep
    <3> QED
      BY <1>5, <3>1, <3>2, Zenon DEF Nowhere
  <2> QED
    BY <1>4, <2>1, Zenon DEF ProgramsInv
<1>10. BootInv'
  <2>1. ASSUME ~Passed, Command.id = Marker, flow # "gpt", NEW m \in Answers'
        PROVE  m.id # "GET_BOOTINFO"
    <3>1. Marker = "GET_BOOTINFO"
      BY <2>1, Zenon DEF Marker, MarkerOf
    <3>2. m \in Transit
      BY <1>1 DEF Answers, Transit, Elems
    <3>3. Nowhere({Marker})
      BY <1>1, <1>2, <2>1, Zenon DEF CleanInv, MarkerInv
    <3> QED
      BY <3>1, <3>2, <3>3, Zenon DEF Nowhere
  <2>2. pc = "true" /\ Passed /\ flow # "gpt" /\ ~rebooted =>
            mbok /\ boot \notin {"any", "B", "damaged"}
    BY Zenon DEF CleanInv, BootInv
  <2> QED
    BY <1>1, <1>4, <2>1, <2>2, Zenon DEF BootInv
<1> QED
  BY <1>7, <1>8, <1>9, <1>10, Zenon DEF CleanInv

\* The command after the one that was waited on.
LEMMA WaitEnds ==
    ASSUME IInv, fpc = "wait", NextCommand, UNCHANGED <<pc, flow>>
    PROVE  /\ pc = "true" /\ flow \in AllFlows /\ step \in 1..Len(Sequence[flow])
           /\ step \in Nat \ {0} /\ Marker' = Marker /\ fpc' \in {"failed", "ok", "prepare"}
           /\ \/ fpc' # "prepare" /\ step' = step /\ Command' = Command /\ (Passed' <=> Passed)
              \/ /\ fpc' = "prepare" /\ step' = step + 1
                 /\ Passed' <=> Passed \/ Command.id = Marker
<1>1. pc = "true" /\ flow \in AllFlows /\ step \in 1..Len(Sequence[flow])
  BY FlowAssumption DEF IInv, PlaceInv
<1>2. step \in Nat \ {0}
  BY <1>1, CommandType DEF IInv
<1>3. CASE fpc' # "prepare"
  <2>1. step' = step /\ fpc' \in {"failed", "ok", "prepare"}
    BY <1>3, NextCommandMoves, Zenon
  <2> QED
    BY <1>1, <1>2, <1>3, <2>1, SameCommand, Zenon
<1>4. CASE fpc' = "prepare"
  <2>1. step' = step + 1
    BY <1>4, NextCommandMoves
  <2> QED
    BY <1>1, <1>2, <1>4, <2>1, PassedNext, Zenon
<1> QED
  BY <1>3, <1>4

\* Before the marker: nothing that is read is its answer.
LEMMA WaitBefore ==
    ASSUME IInv, CleanInv, fpc = "wait", NextCommand, UNCHANGED <<pc, flow, boot>>,
           ~Passed, Command.id # Marker,
           Transit' \subseteq Transit, Marker \notin stored'
    PROVE  CleanInv'
<1>1. /\ pc = "true" /\ Marker' = Marker /\ fpc' # "wait" /\ ~Passed'
      /\ fpc' # "prepare" => Command' = Command
      /\ fpc' = "failed" \/ fpc' = "ok" \/ fpc' = "prepare"
  BY WaitEnds
<1>2. Nowhere({Marker}) /\ Nowhere(Programs)
  BY <1>1, Zenon DEF CleanInv, MarkerInv, ProgramsInv, InStep
<1>3. Nowhere({Marker})' /\ Nowhere(Programs)'
  BY <1>1, <1>2, Zenon DEF Nowhere
<1> QED
  BY <1>1, <1>3, Zenon DEF CleanInv, MarkerInv, StepInv, ProgramsInv, BootInv

\* The marker's turn, and an answer that is not its own, or none: only the GPT
\* update goes on.
LEMMA WaitWithout ==
    ASSUME IInv, CleanInv, fpc = "wait", NextCommand, UNCHANGED <<pc, flow, boot>>,
           ~Passed, Command.id = Marker,
           Transit' \subseteq Transit, Marker \notin stored'
    PROVE  CleanInv'
<1>1. /\ pc = "true" /\ flow \in AllFlows /\ step \in 1..Len(Sequence[flow])
      /\ Marker' = Marker /\ fpc' # "wait"
      /\ fpc' # "prepare" => Command' = Command /\ ~Passed'
      /\ fpc' = "prepare" => step' = step + 1
  BY WaitEnds
<1>2. Nowhere(Programs)'
  BY <1>1, Zenon DEF CleanInv, ProgramsInv, InStep, Nowhere
<1>3. CASE flow # "gpt"
  <2>1. Marker = "GET_BOOTINFO"
    BY <1>3, Zenon DEF Marker, MarkerOf
  <2>2. fpc' = "failed"
    BY <2>1, NextCommandChecks, Zenon
  <2>3. ~Passed' /\ Command'.id = Marker'
    BY <1>1, <2>2, Zenon
  <2> QED
    BY <1>1, <1>2, <2>2, <2>3 DEF CleanInv, MarkerInv, StepInv, ProgramsInv, BootInv
<1>4. CASE flow = "gpt"
  <2>1. step = 1 /\ Len(Sequence[flow]) = 4
    <3>1. Sequence[flow][step].id = "CHECK_GPT"
      BY <1>4, Zenon DEF Command, Marker, MarkerOf
    <3>2. Sequence["gpt"][step].id = "CHECK_GPT" /\ step \in 1..Len(Sequence["gpt"])
      BY <1>1, <1>4, <3>1, Zenon
    <3>3. Len(Sequence["gpt"]) = 4
      BY GptCommands
    <3>4. step \in 1..4
      BY <3>2, <3>3, Zenon
    <3>5. step = 1
      BY <3>2, <3>4, GptCommands, Zenon
    <3> QED
      BY <1>4, <3>3, <3>5, Zenon
  <2>2. fpc' \in {"prepare", "failed"}
    <3>1. step # Len(Sequence[flow])
      BY <2>1
    <3> QED
      BY <3>1, Zenon DEF NextCommand
  <2>3. CASE fpc' = "prepare"
    <3>1. step' = 2 /\ flow' = "gpt"
      BY <1>1, <1>4, <2>1, <2>3
    <3>2. Passed'
      <4>1. 1 \in 1..(step' - 1)
        BY <3>1
      <4>2. Marker' = Sequence[flow'][1].id
        BY <1>4, GptCommands, Zenon DEF Marker, MarkerOf
      <4> QED
        BY <4>1, <4>2, Zenon DEF Passed
    <3> QED
      BY <1>1, <1>2, <2>3, <3>1, <3>2, Zenon
         DEF CleanInv, MarkerInv, StepInv, ProgramsInv, BootInv
  <2>4. CASE fpc' = "failed"
    <3>1. ~Passed' /\ Command'.id = Marker'
      BY <1>1, <2>4, Zenon
    <3> QED
      BY <1>1, <1>2, <2>4, <3>1 DEF CleanInv, MarkerInv, StepInv, ProgramsInv, BootInv
  <2> QED
    BY <2>2, <2>3, <2>4
<1> QED
  BY <1>3, <1>4

\* The marker's turn, and its own answer: nothing else is in flight, and what
\* the boot information says is what RTSS wrote last.
LEMMA WaitForMarker ==
    ASSUME IInv, CleanInv, rtss_updater_cbk_notify_handler,
           ~Passed, Command.id = Marker, Head(rxq).id = Marker
    PROVE  CleanInv'
<1>1. /\ fpc = "wait" /\ NextCommand /\ rxq # <<>> /\ rxq' = Tail(rxq)
      /\ respStatus' = Head(rxq).status /\ stored' = Store(Head(rxq).id)
      /\ mbok /\ mbok' = mbok /\ UNCHANGED <<txq, rtss, req, pc, flow, boot>>
  BY DEF rtss_updater_cbk_notify_handler, rtssvars, nor
<1>2. /\ pc = "true" /\ Marker' = Marker /\ fpc' # "wait"
      /\ fpc' # "prepare" => ~Passed' /\ Command' = Command
      /\ fpc' = "prepare" => Passed'
      /\ fpc' = "failed" \/ fpc' = "ok" \/ fpc' = "prepare"
  BY <1>1, WaitEnds
<1>3. OnlyLast(Marker)
  BY <1>1, <1>2, Zenon DEF CleanInv, MarkerInv
<1>4. /\ Head(rxq) \in Answers /\ Head(rxq) \in Elems(rxq)
      /\ Ends(rxq, Marker) => Tail(rxq) = <<>>
      /\ Transit' \subseteq Transit
  <2>1. rxq \in Seq(Message)
    BY DEF IInv, ChannelInv
  <2>2. Head(rxq) \in Elems(rxq) /\ (Ends(rxq, Marker) => Tail(rxq) = <<>>)
    BY <1>1, <2>1, QueueElements, QueueEnds, Zenon
  <2> QED
    BY <1>1, <2>2, Transit_Updater, Zenon
<1>5. rtss' = "idle" /\ txq' = <<>> /\ rxq' = <<>>
  BY <1>1, <1>3, <1>4, Zenon DEF OnlyLast
<1>6. InFlight' = 0
  BY <1>5 DEF InFlight
<1>7. Marker \in stored'
  BY <1>1, Zenon DEF Store, Marker, MarkerOf
<1>8. Nowhere(Programs)'
  BY <1>2, <1>4, Zenon DEF CleanInv, ProgramsInv, InStep, Nowhere
<1>9. ASSUME Passed', flow' # "gpt"
      PROVE  mbok' /\ boot' \notin {"any", "B", "damaged"}
  <2>1. fpc' = "prepare" /\ Marker = "GET_BOOTINFO" /\ flow # "gpt"
    BY <1>1, <1>2, <1>9, Zenon DEF Marker, MarkerOf
  <2>2. respStatus' = "SUCCESS" /\ boot # "damaged" /\ (entries = "boot" => boot # "B")
    <3>1. NextCommand /\ fpc' # "failed" /\ Command.id = "GET_BOOTINFO"
      BY <1>1, <2>1
    <3> QED
      BY <3>1, NextCommandChecks, Zenon
  <2>3. entries = "boot" /\ boot # "any"
    BY <1>1, <1>2, <1>4, <2>1, <2>2, Zenon DEF CleanInv, BootInv
  <2> QED
    BY <1>1, <2>2, <2>3
<1>10. MarkerInv' /\ BootInv'
  BY <1>1, <1>2, <1>9, Zenon DEF MarkerInv, BootInv
<1>11. StepInv'
  <2>1. InFlight' <= (IF fpc' \in {"wait", "failed"} THEN 1 ELSE 0)
    <3>1. 0 <= 0 /\ 0 <= 1
      OBVIOUS
    <3> QED
      BY <1>6, <3>1, Zenon
  <2> QED
    BY <1>2, <1>7, <2>1, Zenon DEF StepInv
<1> QED
  BY <1>8, <1>10, <1>11, Zenon DEF CleanInv, ProgramsInv

\* In step: the answer is the only message in flight.
LEMMA WaitInStep ==
    ASSUME IInv, CleanInv, Passed, fpc = "wait", NextCommand,
           UNCHANGED <<pc, flow, boot, rebooted, mbok>>,
           stored \subseteq stored', Transit' \subseteq Transit, mbok => InFlight' <= InFlight - 1,
           InFlight' \in Nat
    PROVE  CleanInv'
<1>1. pc = "true" /\ Marker' = Marker /\ fpc' # "wait" /\ Passed'
  BY WaitEnds
<1>2. Marker \in stored /\ (mbok => InFlight <= 1)
  <2>1. Marker \in stored
    BY <1>1, Zenon DEF CleanInv, StepInv
  <2>2. mbok => InFlight <= (IF fpc \in {"wait", "failed"} THEN 1 ELSE 0)
    BY <1>1, <2>1, Zenon DEF CleanInv, StepInv
  <2> QED
    BY <2>1, <2>2
<1>3. mbok' => InFlight' <= (IF fpc' \in {"wait", "failed"} THEN 1 ELSE 0)
  <2>1. ASSUME mbok
        PROVE  InFlight' <= 0
    <3>1. InFlight \in Nat
      BY InFlightIs DEF IInv
    <3>2. InFlight <= 1 /\ InFlight' <= InFlight - 1
      BY <1>2, <2>1
    <3>3. \A n \in Nat, k \in Nat : n <= 1 /\ k <= n - 1 => k <= 0
      OBVIOUS
    <3> QED
      BY <3>1, <3>2, <3>3, Zenon
  <2>2. \A k \in Nat : k <= 0 => k <= 1
    OBVIOUS
  <2> QED
    BY <1>1, <2>1, <2>2, Zenon
<1>4. Marker' \in stored' /\ InStep'
  BY <1>1, <1>2, Zenon DEF InStep
<1>5. flow # "gpt" /\ ~rebooted => mbok' /\ boot' \notin {"any", "B", "damaged"}
  BY <1>1, Zenon DEF CleanInv, BootInv
<1> QED
  BY <1>1, <1>3, <1>4, <1>5, Zenon DEF CleanInv, MarkerInv, StepInv, ProgramsInv, BootInv

\* An answer is read, whichever command it answers.
LEMMA Clean_Read ==
    ASSUME IInv, CleanInv, rtss_updater_cbk_notify_handler, InFlight' \in Nat
    PROVE  CleanInv'
<1>1. /\ fpc = "wait" /\ mbok /\ NextCommand /\ rxq # <<>> /\ rxq' = Tail(rxq)
      /\ stored' = Store(Head(rxq).id)
      /\ UNCHANGED <<txq, rtss, req, pc, flow, boot, rebooted, mbok>>
  BY DEF rtss_updater_cbk_notify_handler, rtssvars, nor
<1>2. pc = "true"
  BY <1>1 DEF IInv, PlaceInv
<1>3. Transit' \subseteq Transit /\ Head(rxq) \in Transit
  BY <1>1, Transit_Updater, Zenon
<1>4. stored \subseteq stored' /\ (stored' \subseteq stored \cup {Head(rxq).id})
  <2>1. stored' = stored \cup {Head(rxq).id} \/ stored' = stored
    BY <1>1, Zenon DEF Store
  <2> QED
    BY <2>1, Zenon
<1>5. CASE Passed
  <2>1. InFlight' <= InFlight - 1
    <3>1. Len(txq) \in Nat /\ Len(rxq) \in Nat
      BY InFlightIs DEF IInv
    <3>2. Len(rxq') = Len(rxq) - 1 /\ Len(txq') = Len(txq)
      BY <1>1, QueueSteps, Zenon DEF IInv, ChannelInv
    <3>3. /\ rtss = "idle" => InFlight = Len(txq) + Len(rxq)
          /\ rtss # "idle" => InFlight = Len(txq) + Len(rxq) + 1
      BY InFlightIs DEF IInv
    <3>4. /\ rtss' = "idle" => InFlight' = Len(txq') + Len(rxq')
          /\ rtss' # "idle" => InFlight' = Len(txq') + Len(rxq') + 1
      BY DEF InFlight
    <3> QED
      BY <1>1, <3>1, <3>2, <3>3, <3>4
  <2> QED
    BY <1>1, <1>3, <1>4, <1>5, <2>1, WaitInStep, Zenon
<1>6. CASE ~Passed /\ Command.id # Marker
  <2>1. Marker \notin stored /\ Nowhere({Marker})
    BY <1>2, <1>6, Zenon DEF CleanInv, MarkerInv
  <2>2. Marker \notin stored'
    BY <1>3, <1>4, <2>1, Zenon DEF Nowhere
  <2> QED
    BY <1>1, <1>3, <1>6, <2>2, WaitBefore, Zenon
<1>7. CASE ~Passed /\ Command.id = Marker /\ Head(rxq).id # Marker
  <2>1. Marker \notin stored
    BY <1>1, <1>2, <1>7, Zenon DEF CleanInv, MarkerInv
  <2>2. Marker \notin stored'
    BY <1>4, <1>7, <2>1, Zenon
  <2> QED
    BY <1>1, <1>3, <1>7, <2>2, WaitWithout, Zenon
<1>8. CASE ~Passed /\ Command.id = Marker /\ Head(rxq).id = Marker
  BY <1>8, WaitForMarker, Zenon
<1> QED
  BY <1>5, <1>6, <1>7, <1>8, Zenon

\* No answer is read: when RTSS is down, or the answer becomes a stray.
LEMMA ReadFailsMoves ==
    ASSUME IInv, notify_handler_ReadFails, strays' = 0
    PROVE  /\ fpc = "wait" /\ ~mbok /\ NextCommand /\ unanswered' = TRUE
           /\ UNCHANGED <<txq, rxq, rtss, req, pc, strays, flow, respStatus, stored, entries, mbok,
                          boot, rebooted, flashed, otaDone, restarts>>
<1>1. strays' # strays + 1
  BY DEF IInv, CountInv
<1> QED
  BY <1>1 DEF notify_handler_ReadFails, channels, rtssvars, resp, nor

\* RTSS is down.
LEMMA Clean_ReadFails ==
    ASSUME IInv, CleanInv, notify_handler_ReadFails, InFlight' \in Nat, strays' = 0
    PROVE  CleanInv'
<1>1. /\ fpc = "wait" /\ ~mbok /\ NextCommand
      /\ UNCHANGED <<txq, rxq, rtss, req, pc, flow, boot, rebooted, mbok, stored>>
  BY ReadFailsMoves
<1>2. pc = "true"
  BY <1>1 DEF IInv, PlaceInv
<1>3. Transit' = Transit
  BY <1>1 DEF Transit, Elems
<1>4. CASE Passed
  BY <1>1, <1>3, <1>4, WaitInStep, Zenon
<1>5. CASE ~Passed
  <2>1. Marker \notin stored'
    BY <1>1, <1>2, <1>5, Zenon DEF CleanInv, MarkerInv
  <2>2. UNCHANGED <<pc, flow, boot>> /\ Transit' \subseteq Transit
    BY <1>1, <1>3
  <2> QED
    BY <1>1, <1>5, <2>1, <2>2, WaitBefore, WaitWithout, Zenon
<1> QED
  BY <1>4, <1>5

\* Only a new process may have fewer strays.
LEMMA StraysStay ==
    ASSUME IInv, Next, ~Launch, strays' = 0
    PROVE  strays = 0
<1>1. CASE Rtss
  BY <1>1, InFlight_Rtss, ChannelKept_Rtss
<1>2. CASE Handshake
  BY <1>2, QuietHandshake DEF QuietPing
<1>3. CASE PrepareCommand \/ PrepareFails \/ LoadFileFails \/ SendCommand \/ SendCommandFails
  BY <1>3 DEF PrepareCommand, PrepareFails, LoadFileFails, SendCommand, SendCommandFails, Stay,
     hsvars
<1>4. CASE rtss_updater_cbk_notify_handler
  BY <1>4 DEF rtss_updater_cbk_notify_handler
<1>5. CASE notify_handler_ReadFails
  BY <1>5, ReadFailsMoves
<1> QED
  BY <1>1, <1>2, <1>3, <1>4, <1>5 DEF Next, Updater

\* The invariant of the sequences, of every process: one that found clean
\* channels.
SeqInv == strays = 0 => CleanInv

\* No step breaks the invariant of the sequences.
LEMMA SeqInductive == IInv /\ SeqInv /\ [Next]_vars => SeqInv'
<1> SUFFICES ASSUME IInv, SeqInv, [Next]_vars, strays' = 0
             PROVE  CleanInv'
  BY Zenon DEF SeqInv
<1>1. InFlight' \in Nat
  <2>1. IInv'
    BY Inductive
  <2>2. Len(txq') \in Nat /\ Len(rxq') \in Nat
    BY <2>1, QueueSteps DEF IInv, ChannelInv
  <2>3. \/ InFlight' = Len(txq') + Len(rxq') + 0
        \/ InFlight' = Len(txq') + Len(rxq') + 1
    BY ONLY Zenon DEF InFlight
  <2> QED
    BY <2>2, <2>3
<1>2. CASE Launch
  BY <1>2, Clean_Launch, Zenon
<1>4. ASSUME Next, ~Launch
      PROVE  CleanInv'
  <2>1. CleanInv
    BY <1>4, StraysStay, Zenon DEF SeqInv
  <2> QED
    BY <1>1, <1>4, <2>1, Clean_Rtss, Clean_Handshake, Clean_Prepare, Clean_Send, Clean_Read,
       Clean_ReadFails, Zenon DEF Next, Updater, Prepares, Sends
<1>5. CASE UNCHANGED vars
  <2>1. CleanInv
    BY <1>5 DEF SeqInv, vars, hsvars
  <2> QED
    BY <1>5, <2>1 DEF vars, hsvars, fvars, channels, rtssvars, resp, nor, CleanInv, MarkerInv,
       StepInv, ProgramsInv, BootInv, Nowhere, OnlyLast, Transit, Answers, InStep, InFlight,
       Marker, Passed, Command
<1> QED
  BY <1>2, <1>4, <1>5

\* No sequence has begun.
LEMMA SeqInitially == Init => SeqInv
<1> SUFFICES ASSUME Init PROVE CleanInv
  BY DEF SeqInv
<1>1. Transit = {}
  BY DEF Init, HandshakeInit, Transit, Elems
<1> QED
  BY <1>1 DEF Init, HandshakeInit, CleanInv, MarkerInv, StepInv, ProgramsInv, BootInv,
     Nowhere, InStep

\* The invariant of the sequences holds of every process, of every sequence,
\* for every number of images and every capacity of the channels.
THEOREM SequenceInvariance == Spec => [](IInv /\ SeqInv)
<1>1. Init => IInv /\ SeqInv
  BY Initially, SeqInitially
<1>2. IInv /\ SeqInv /\ [Next]_vars => (IInv /\ SeqInv)'
  BY Inductive, SeqInductive
<1> QED
  BY <1>1, <1>2, PTL DEF Spec

\* The answers carry no number and rtss_updater_cbk_notify_handler does not
\* compare them with the command: still, no command that programs the flash is
\* sent while one is outstanding, because the boot information, or the CRC of
\* an empty GPT, stops the sequence at its marker before that.
THEOREM FlashedInStep == Spec => ProgramsInStep
<1>1. IInv /\ SeqInv /\ Sends /\ strays = 0 /\ Command.id \in Programs => InFlight = 0
  BY SendInStep, Zenon DEF SeqInv
<1>2. IInv /\ SeqInv /\ [Next]_vars =>
          [Sends /\ strays = 0 /\ Command.id \in Programs => InFlight = 0]_vars
  BY <1>1, Zenon
<1> QED
  BY <1>2, SequenceInvariance, PTL DEF Spec, ProgramsInStep

\* No image is flashed on a system that booted from B, has a damaged GPT or
\* was not asked, unless RTSS went down after it had told: the boot information
\* that was read is the one RTSS wrote to the OTA buffer last, as the handler
\* reads it from there.
THEOREM FlashedFromA == Spec => NoFlashFromB
<1>1. IInv /\ SeqInv /\ Sends /\ strays = 0 /\ ~rebooted /\ Command.id = "FLASH_IMAGE"
          => boot \notin {"any", "B", "damaged"}
  <2> SUFFICES ASSUME IInv, CleanInv, Sends, ~rebooted, Command.id = "FLASH_IMAGE"
               PROVE  boot \notin {"any", "B", "damaged"}
    BY Zenon DEF SeqInv
  <2>1. "FLASH_IMAGE" \in Programs
    BY DEF Programs
  <2>2. pc = "true" /\ Passed /\ flow # "gpt"
    BY <2>1, SendInStep, Zenon
  <2> QED
    BY <2>2, Zenon DEF CleanInv, BootInv
<1>2. IInv /\ SeqInv /\ [Next]_vars =>
          [Sends /\ strays = 0 /\ ~rebooted /\ Command.id = "FLASH_IMAGE"
           => boot \notin {"any", "B", "damaged"}]_vars
  BY <1>1, Zenon
<1> QED
  BY <1>2, SequenceInvariance, PTL DEF Spec, NoFlashFromB

\* The OTA buffer is refilled only when RTSS has read the payload of every
\* earlier command from it: in step there is no such command in flight, and
\* before that none has been sent.
THEOREM BufferKept == Spec => BufferStable
<1>1. IInv /\ SeqInv /\ PrepareCommand /\ FillsBuffer /\ strays = 0 /\ mbok
          => /\ rtss = "idle" \/ req.id \notin ReadsBuffer
             /\ \A k \in DOMAIN txq : txq[k].id \notin ReadsBuffer
  <2> SUFFICES ASSUME IInv, CleanInv, PrepareCommand, mbok
               PROVE  /\ rtss = "idle" \/ req.id \notin ReadsBuffer
                      /\ \A k \in DOMAIN txq : txq[k].id \notin ReadsBuffer
    BY Zenon DEF SeqInv
  <2>1. fpc = "prepare" /\ pc = "true" /\ DOMAIN txq = 1..Len(txq)
    BY DEF PrepareCommand, IInv, PlaceInv, ChannelInv
  <2>2. CASE InStep
    <3>1. InFlight <= (IF fpc \in {"wait", "failed"} THEN 1 ELSE 0) /\ fpc \notin {"wait", "failed"}
      BY <2>1, <2>2 DEF CleanInv, StepInv, InStep
    <3>2. Len(txq) = 0 /\ rtss = "idle"
      BY <3>1, InFlightIs DEF IInv
    <3> QED
      BY <2>1, <3>2
  <2>3. CASE ~InStep
    <3>1. \A m \in Transit : m.id \notin Programs
      BY <2>3, Zenon DEF CleanInv, ProgramsInv, Nowhere
    <3>2. \A m \in Transit : m.id \notin ReadsBuffer
      BY <3>1 DEF Programs, ReadsBuffer
    <3>3. /\ rtss # "idle" => req \in Transit
          /\ \A k \in 1..Len(txq) : txq[k] \in Transit
      BY Zenon DEF Transit, Elems
    <3> QED
      BY <2>1, <3>2, <3>3, Zenon
  <2> QED
    BY <2>2, <2>3
<1>2. IInv /\ SeqInv /\ [Next]_vars =>
          [PrepareCommand /\ FillsBuffer /\ strays = 0 /\ mbok =>
              /\ rtss = "idle" \/ req.id \notin ReadsBuffer
              /\ \A k \in DOMAIN txq : txq[k].id \notin ReadsBuffer]_vars
  BY <1>1, Zenon
<1> QED
  BY <1>2, SequenceInvariance, PTL DEF Spec, BufferStable

-----------------------------------------------------------------------------
(***************************************************************************)
(* The sequences that program a system to be switched to, command by       *)
(* command                                                                 *)
(***************************************************************************)
\* Three sequences joined: the length, and the elements of each.
LEMMA JoinedLength ==
    ASSUME NEW S, NEW r \in Seq(S), NEW s \in Seq(S), NEW t \in Seq(S)
    PROVE  (r \o s) \o t \in Seq(S) /\ Len((r \o s) \o t) = Len(r) + Len(s) + Len(t)
BY SMT

\* The elements of the first of three joined sequences.
LEMMA JoinedFirst ==
    ASSUME NEW S, NEW r \in Seq(S), NEW s \in Seq(S), NEW t \in Seq(S)
    PROVE  \A i \in 1..Len(r) : ((r \o s) \o t)[i] = r[i]
BY SMT

\* Those of the second.
LEMMA JoinedSecond ==
    ASSUME NEW S, NEW r \in Seq(S), NEW s \in Seq(S), NEW t \in Seq(S)
    PROVE  \A i \in 1..Len(s) : ((r \o s) \o t)[Len(r) + i] = s[i]
BY SMT

\* Those of the third.
LEMMA JoinedThird ==
    ASSUME NEW S, NEW r \in Seq(S), NEW s \in Seq(S), NEW t \in Seq(S)
    PROVE  \A i \in 1..Len(t) : ((r \o s) \o t)[Len(r) + Len(s) + i] = t[i]
BY SMT

\* All of it together.
LEMMA JoinedThree ==
    ASSUME NEW S, NEW r \in Seq(S), NEW s \in Seq(S), NEW t \in Seq(S)
    PROVE  /\ (r \o s) \o t \in Seq(S) /\ Len((r \o s) \o t) = Len(r) + Len(s) + Len(t)
           /\ \A i \in 1..Len(r) : ((r \o s) \o t)[i] = r[i]
           /\ \A i \in 1..Len(s) : ((r \o s) \o t)[Len(r) + i] = s[i]
           /\ \A i \in 1..Len(t) : ((r \o s) \o t)[Len(r) + Len(s) + i] = t[i]
<1>1. (r \o s) \o t \in Seq(S) /\ Len((r \o s) \o t) = Len(r) + Len(s) + Len(t)
  BY JoinedLength
<1>2. \A i \in 1..Len(r) : ((r \o s) \o t)[i] = r[i]
  BY JoinedFirst
<1>3. \A i \in 1..Len(s) : ((r \o s) \o t)[Len(r) + i] = s[i]
  BY JoinedSecond
<1>4. \A i \in 1..Len(t) : ((r \o s) \o t)[Len(r) + Len(s) + i] = t[i]
  BY JoinedThird
<1> QED
  BY <1>1, <1>2, <1>3, <1>4, Zenon

\* A list of n commands.
LEMMA ListElements ==
    ASSUME NEW S, NEW n \in Nat, NEW f \in [1..n -> S]
    PROVE  f \in Seq(S) /\ Len(f) = n
BY SMT

\* rtss_updater_preboot_demosequence: four checks, the images, the switch.
LEMMA PrebootElements ==
    ASSUME NEW s, s = Sequence["preboot"]
    PROVE  /\ Len(s) = 4 + NImages + 1
           /\ \A i \in 1..4 : s[i].id \notin Programs
           /\ \A k \in 1..NImages, j \in Nat :
                  j = 4 + k => s[j].id = "FLASH_IMAGE" /\ s[j].img = k
           /\ \A j \in Nat : j = 4 + NImages + 1 => s[j].id = "UPDATE_GPT"
<1> DEFINE head == <<rtss_updater_chkgpt, rtss_updater_get_metadata_info,
                     rtss_updater_get_metadata, rtss_updater_get_bl_info>>
           flash == [i \in Images |-> rtss_updater_flashimg(i)]
           last == <<rtss_updater_updategpt>>
<1>1. NImages \in Nat /\ 4 \in Nat /\ 1 \in Nat
  BY FlowAssumption
<1>2. /\ head \in Seq(Message) /\ Len(head) = 4
      /\ \A i \in 1..4 : head[i].id \notin Programs
      /\ last \in Seq(Message) /\ Len(last) = 1 /\ last[1].id = "UPDATE_GPT"
  BY SimpleCommands, CommandIds DEF Programs
<1>3. flash \in Seq(Message) /\ Len(flash) = NImages
  <2>1. flash \in [1..NImages -> Message]
    BY ImageCommands DEF Images
  <2> HIDE DEF flash
  <2> QED
    BY <1>1, <2>1, ListElements
<1>4. \A k \in 1..NImages : flash[k].id = "FLASH_IMAGE" /\ flash[k].img = k
  BY CommandIds DEF Images
<1>5. s = (head \o flash) \o last
  BY Zenon DEF rtss_updater_preboot_demosequence, Sequence, AllFlows
<1> HIDE DEF head, flash, last
<1>6. /\ Len(s) = 4 + NImages + 1
      /\ \A i \in 1..4 : s[i] = head[i]
      /\ \A i \in 1..NImages : s[4 + i] = flash[i]
      /\ \A i \in 1..1 : s[4 + NImages + i] = last[i]
  <2>1. head \in Seq(Message) /\ flash \in Seq(Message) /\ last \in Seq(Message)
    BY <1>2, <1>3
  <2>2. /\ Len(s) = Len(head) + Len(flash) + Len(last)
        /\ \A i \in 1..Len(head) : s[i] = head[i]
        /\ \A i \in 1..Len(flash) : s[Len(head) + i] = flash[i]
        /\ \A i \in 1..Len(last) : s[Len(head) + Len(flash) + i] = last[i]
    <3> DEFINE v == (head \o flash) \o last
    <3>1. /\ Len(v) = Len(head) + Len(flash) + Len(last)
          /\ \A i \in 1..Len(head) : v[i] = head[i]
          /\ \A i \in 1..Len(flash) : v[Len(head) + i] = flash[i]
          /\ \A i \in 1..Len(last) : v[Len(head) + Len(flash) + i] = last[i]
      BY ONLY <2>1, JoinedThree
    <3>2. s = v
      BY <1>5
    <3> HIDE DEF v
    <3> QED
      BY <3>1, <3>2, Zenon
  <2> QED
    BY <1>2, <1>3, <2>2, Zenon
<1>7. \A i \in 1..4 : s[i].id \notin Programs
  BY <1>2, <1>6, Zenon
<1>8. ASSUME NEW k \in 1..NImages, NEW j \in Nat, j = 4 + k
      PROVE  s[j].id = "FLASH_IMAGE" /\ s[j].img = k
  BY <1>4, <1>6, <1>8, Zenon
<1>9. ASSUME NEW j \in Nat, j = 4 + NImages + 1
      PROVE  s[j].id = "UPDATE_GPT"
  <2>1. 1 \in 1..1
    OBVIOUS
  <2> QED
    BY <1>2, <1>6, <1>9, <2>1, Zenon
<1> QED
  BY <1>6, <1>7, <1>8, <1>9

\* rtss_updater_postboot_demosequence: the acknowledgement, two checks, the
\* images, each read before it is flashed, and the rest.
LEMMA PostbootElements ==
    ASSUME NEW s, s = Sequence["postboot"]
    PROVE  /\ Len(s) = 3 + 2 * NImages + 5
           /\ s[1].id = "OTA_DONE" /\ s[2].id = "GET_BOOTINFO" /\ s[3].id = "CHECK_GPT"
           /\ \A k \in 1..NImages, j \in Nat :
                  /\ j = 3 + (2 * k - 1) => s[j].id = "READ_IMAGE"
                  /\ j = 3 + 2 * k => s[j].id = "FLASH_IMAGE" /\ s[j].img = k
           /\ \A i \in 1..5, j \in Nat :
                  j = 3 + 2 * NImages + i => s[j].id \notin {"FLASH_IMAGE", "UPDATE_GPT"}
<1> DEFINE head == <<rtss_updater_update_ota_done_state, rtss_updater_get_bl_info,
                     rtss_updater_chkgpt>>
           images == [k \in 1 .. 2 * NImages |-> IF k % 2 = 1
                                   THEN rtss_updater_readimg((k + 1) \div 2)
                                   ELSE rtss_updater_flashimg(k \div 2)]
           last == <<rtss_updater_fixgpt, rtss_updater_redundancy_established,
                     rtss_updater_get_metadata_info, rtss_updater_set_metadata,
                     rtss_updater_update_arb>>
<1>1. NImages \in Nat /\ 2 * NImages \in Nat /\ 3 \in Nat /\ 5 \in Nat
  BY FlowAssumption
<1>2. /\ head \in Seq(Message) /\ Len(head) = 3
      /\ head[1].id = "OTA_DONE" /\ head[2].id = "GET_BOOTINFO" /\ head[3].id = "CHECK_GPT"
  BY SimpleCommands, CommandIds
<1>3. /\ last \in Seq(Message) /\ Len(last) = 5
      /\ \A i \in 1..5 : last[i].id \notin {"FLASH_IMAGE", "UPDATE_GPT"}
  BY SimpleCommands, CommandIds
<1>4. images \in Seq(Message) /\ Len(images) = 2 * NImages
  <2>1. images \in Seq(Message) /\ DOMAIN images = 1 .. 2 * NImages
    BY MirrorCommands
  <2> HIDE DEF images
  <2> QED
    BY <1>1, <2>1
<1>5. \A k \in 1..NImages : /\ images[2 * k - 1].id = "READ_IMAGE"
                            /\ images[2 * k].id = "FLASH_IMAGE" /\ images[2 * k].img = k
  <2> TAKE k \in 1..NImages
  <2>1. /\ 2 * k - 1 \in 1..(2 * NImages) /\ (2 * k - 1) % 2 = 1 /\ (2 * k - 1 + 1) \div 2 = k
        /\ 2 * k \in 1..(2 * NImages) /\ (2 * k) % 2 # 1 /\ (2 * k) \div 2 = k
    BY <1>1
  <2>2. images[2 * k - 1] = rtss_updater_readimg(k) /\ images[2 * k] = rtss_updater_flashimg(k)
    BY <2>1, Zenon
  <2> QED
    BY <2>2, CommandIds DEF Images
<1>6. s = (head \o images) \o last
  BY Zenon DEF rtss_updater_postboot_demosequence, Sequence, AllFlows
<1> HIDE DEF head, images, last
<1>7. /\ Len(s) = 3 + 2 * NImages + 5
      /\ \A i \in 1..3 : s[i] = head[i]
      /\ \A i \in 1..(2 * NImages) : s[3 + i] = images[i]
      /\ \A i \in 1..5 : s[3 + 2 * NImages + i] = last[i]
  <2>1. head \in Seq(Message) /\ images \in Seq(Message) /\ last \in Seq(Message)
    BY <1>2, <1>3, <1>4
  <2>2. /\ Len(s) = Len(head) + Len(images) + Len(last)
        /\ \A i \in 1..Len(head) : s[i] = head[i]
        /\ \A i \in 1..Len(images) : s[Len(head) + i] = images[i]
        /\ \A i \in 1..Len(last) : s[Len(head) + Len(images) + i] = last[i]
    <3> DEFINE v == (head \o images) \o last
    <3>1. /\ Len(v) = Len(head) + Len(images) + Len(last)
          /\ \A i \in 1..Len(head) : v[i] = head[i]
          /\ \A i \in 1..Len(images) : v[Len(head) + i] = images[i]
          /\ \A i \in 1..Len(last) : v[Len(head) + Len(images) + i] = last[i]
      BY ONLY <2>1, JoinedThree
    <3>2. s = v
      BY <1>6
    <3> HIDE DEF v
    <3> QED
      BY <3>1, <3>2, Zenon
  <2> QED
    BY <1>2, <1>3, <1>4, <2>2, Zenon
<1>9. \A k \in 1..NImages : 2 * k - 1 \in 1..(2 * NImages) /\ 2 * k \in 1..(2 * NImages)
  BY <1>1
<1>10. /\ s[1] = head[1] /\ s[2] = head[2] /\ s[3] = head[3]
       /\ \A k \in 1..NImages : /\ s[3 + (2 * k - 1)] = images[2 * k - 1]
                                /\ s[3 + 2 * k] = images[2 * k]
  <2>1. s[1] = head[1] /\ s[2] = head[2] /\ s[3] = head[3]
    BY <1>7
  <2>2. ASSUME NEW k \in 1..NImages
        PROVE  s[3 + (2 * k - 1)] = images[2 * k - 1] /\ s[3 + 2 * k] = images[2 * k]
    BY <1>7, <1>9
  <2> QED
    BY <2>1, <2>2
<1>11. ASSUME NEW k \in 1..NImages, NEW j \in Nat
       PROVE  /\ j = 3 + (2 * k - 1) => s[j].id = "READ_IMAGE"
              /\ j = 3 + 2 * k => s[j].id = "FLASH_IMAGE" /\ s[j].img = k
  <2>1. j = 3 + (2 * k - 1) => s[j] = images[2 * k - 1]
    BY <1>10, Zenon
  <2>2. j = 3 + 2 * k => s[j] = images[2 * k]
    BY <1>10, Zenon
  <2>3. /\ images[2 * k - 1].id = "READ_IMAGE"
        /\ images[2 * k].id = "FLASH_IMAGE" /\ images[2 * k].img = k
    BY <1>5, Zenon
  <2> QED
    BY <2>1, <2>2, <2>3, Zenon
<1>12. ASSUME NEW i \in 1..5, NEW j \in Nat, j = 3 + 2 * NImages + i
       PROVE  s[j].id \notin {"FLASH_IMAGE", "UPDATE_GPT"}
  BY <1>3, <1>7, <1>12, Zenon
<1>13. s[1].id = "OTA_DONE" /\ s[2].id = "GET_BOOTINFO" /\ s[3].id = "CHECK_GPT"
  BY <1>2, <1>10
<1> QED
  BY <1>7, <1>11, <1>12, <1>13

\* The commands of two sequences joined are theirs.
LEMMA JoinedElems ==
    ASSUME NEW S, NEW r \in Seq(S), NEW s \in Seq(S)
    PROVE  Elems(r \o s) \subseteq Elems(r) \cup Elems(s)
<1> SUFFICES ASSUME NEW x \in Elems(r \o s)
             PROVE  x \in Elems(r) \cup Elems(s)
  OBVIOUS
<1>1. PICK i \in 1..Len(r \o s) : x = (r \o s)[i]
  BY DEF Elems
<1>2. \/ i \in 1..Len(r) /\ x = r[i]
      \/ i - Len(r) \in 1..Len(s) /\ x = s[i - Len(r)]
  BY <1>1
<1> QED
  BY <1>2, Zenon DEF Elems

\* What the flasher and its variants send.
LEMMA FlasherElems ==
    ASSUME NEW banks \in Nat, NEW n \in 1..NImages,
           NEW x \in Elems(rtss_updater_devprog_flasher(banks, n))
    PROVE  x.id \notin {"UPDATE_GPT", "REDUNDANCY_ESTABLISHED"}
<1> DEFINE head == <<rtss_updater_chkgpt, rtss_updater_get_metadata_info,
                     rtss_updater_get_metadata, rtss_updater_get_bl_info>>
           flash == [k \in 1 .. banks * n |-> rtss_updater_flashimg(1 + ((k - 1) % n))]
<1>1. /\ head \in Seq(Message)
      /\ \A y \in Elems(head) : y.id \notin {"UPDATE_GPT", "REDUNDANCY_ESTABLISHED"}
  BY SimpleCommands, CommandIds DEF Elems
<1>2. flash \in Seq(Message)
  BY FlasherImages
<1>3. \A y \in Elems(flash) : y.id = "FLASH_IMAGE"
  <2>1. DOMAIN flash = 1..(banks * n)
    OBVIOUS
  <2>2. \A i : rtss_updater_flashimg(i).id = "FLASH_IMAGE"
    BY DEF rtss_updater_flashimg, Msg
  <2>3. ASSUME NEW m, m = banks * n, NEW k \in 1..m
        PROVE  flash[k].id = "FLASH_IMAGE"
    BY <2>2, <2>3, Zenon
  <2>4. \A k \in DOMAIN flash : flash[k].id = "FLASH_IMAGE"
    BY <2>1, <2>3, Zenon
  <2> HIDE DEF flash
  <2>5. DOMAIN flash = 1..Len(flash)
    BY <1>2
  <2> QED
    BY <2>4, <2>5, Zenon DEF Elems
<1>4. x \in Elems(head \o flash)
  BY Zenon DEF rtss_updater_devprog_flasher
<1> HIDE DEF head, flash
<1>5. x \in Elems(head) \/ x \in Elems(flash)
  BY <1>1, <1>2, <1>4, JoinedElems
<1> QED
  BY <1>1, <1>3, <1>5

\* Where the pre-reboot sequence flashes each image, and when it switches.
LEMMA PrebootPlaces ==
    ASSUME NEW s, s = Sequence["preboot"], NEW i \in 1..Len(s)
    PROVE  /\ s[i].id = "FLASH_IMAGE" => i = 4 + s[i].img
           /\ s[i].id = "UPDATE_GPT" => i = 4 + NImages + 1
           /\ s[i].id # "REDUNDANCY_ESTABLISHED"
<1>1. /\ Len(s) = 4 + NImages + 1
      /\ \A j \in 1..4 : s[j].id \notin Programs
      /\ \A k \in 1..NImages, j \in Nat :
             j = 4 + k => s[j].id = "FLASH_IMAGE" /\ s[j].img = k
      /\ \A j \in Nat : j = 4 + NImages + 1 => s[j].id = "UPDATE_GPT"
  BY PrebootElements
<1>2. NImages \in Nat
  BY FlowAssumption
<1>3. CASE i \in 1..4
  BY <1>1, <1>3 DEF Programs
<1>4. CASE i = 4 + NImages + 1
  BY <1>1, <1>4
<1>5. ASSUME i \notin 1..4, i # 4 + NImages + 1
      PROVE  s[i].id = "FLASH_IMAGE" /\ i = 4 + s[i].img
  <2>1. i - 4 \in 1..NImages /\ 4 + (i - 4) = i
    BY <1>1, <1>2, <1>5
  <2>2. ASSUME NEW k \in 1..NImages, 4 + k = i
        PROVE  s[i].id = "FLASH_IMAGE" /\ i = 4 + s[i].img
    BY <1>1, <2>2
  <2> QED
    BY <2>1, <2>2
<1> QED
  BY <1>3, <1>4, <1>5

\* The same of the post-reboot sequence.
LEMMA PostbootPlaces ==
    ASSUME NEW s, s = Sequence["postboot"], NEW i \in 1..Len(s)
    PROVE  /\ s[i].id = "FLASH_IMAGE" => i = 3 + 2 * s[i].img
           /\ s[i].id # "UPDATE_GPT"
           /\ s[i].id = "REDUNDANCY_ESTABLISHED" => i > 3 + 2 * NImages
<1>1. /\ Len(s) = 3 + 2 * NImages + 5
      /\ s[1].id = "OTA_DONE" /\ s[2].id = "GET_BOOTINFO" /\ s[3].id = "CHECK_GPT"
      /\ \A k \in 1..NImages, j \in Nat :
             /\ j = 3 + (2 * k - 1) => s[j].id = "READ_IMAGE"
             /\ j = 3 + 2 * k => s[j].id = "FLASH_IMAGE" /\ s[j].img = k
      /\ \A k \in 1..5, j \in Nat :
             j = 3 + 2 * NImages + k => s[j].id \notin {"FLASH_IMAGE", "UPDATE_GPT"}
  <2>1. /\ Len(s) = 3 + 2 * NImages + 5
        /\ s[1].id = "OTA_DONE" /\ s[2].id = "GET_BOOTINFO" /\ s[3].id = "CHECK_GPT"
    BY PostbootElements
  <2>2. ASSUME NEW k \in 1..NImages, NEW j \in Nat
        PROVE  /\ j = 3 + (2 * k - 1) => s[j].id = "READ_IMAGE"
               /\ j = 3 + 2 * k => s[j].id = "FLASH_IMAGE" /\ s[j].img = k
    BY PostbootElements
  <2>3. ASSUME NEW k \in 1..5, NEW j \in Nat, j = 3 + 2 * NImages + k
        PROVE  s[j].id \notin {"FLASH_IMAGE", "UPDATE_GPT"}
    BY <2>3, PostbootElements
  <2> QED
    BY <2>1, <2>2, <2>3
<1>2. NImages \in Nat /\ i \in Nat
  BY <1>1, FlowAssumption
<1>3. CASE i \in 1..3
  <2>1. i = 1 \/ i = 2 \/ i = 3
    BY <1>3
  <2> QED
    BY <1>1, <2>1, Zenon
<1>4. ASSUME i > 3 + 2 * NImages
      PROVE  s[i].id \notin {"FLASH_IMAGE", "UPDATE_GPT"}
  <2>1. i - (3 + 2 * NImages) \in 1..5 /\ 3 + 2 * NImages + (i - (3 + 2 * NImages)) = i
    BY <1>1, <1>2, <1>4
  <2>2. ASSUME NEW j \in 1..5, 3 + 2 * NImages + j = i
        PROVE  s[i].id \notin {"FLASH_IMAGE", "UPDATE_GPT"}
    BY <1>1, <1>2, <2>2
  <2> QED
    BY <2>1, <2>2
<1>5. ASSUME i \notin 1..3, ~(i > 3 + 2 * NImages)
      PROVE  \/ s[i].id = "READ_IMAGE"
             \/ s[i].id = "FLASH_IMAGE" /\ i = 3 + 2 * s[i].img
  <2>1. \E k \in 1..NImages : i = 3 + (2 * k - 1) \/ i = 3 + 2 * k
    <3>1. CASE i % 2 = 0
      <4>1. (i - 2) \div 2 \in 1..NImages /\ i = 3 + (2 * ((i - 2) \div 2) - 1)
        BY <1>2, <1>5, <3>1
      <4> QED
        BY <4>1
    <3>2. CASE i % 2 # 0
      <4>1. (i - 3) \div 2 \in 1..NImages /\ i = 3 + 2 * ((i - 3) \div 2)
        BY <1>2, <1>5, <3>2
      <4> QED
        BY <4>1
    <3> QED
      BY <3>1, <3>2
  <2>2. ASSUME NEW k \in 1..NImages, i = 3 + (2 * k - 1) \/ i = 3 + 2 * k
        PROVE  \/ s[i].id = "READ_IMAGE"
               \/ s[i].id = "FLASH_IMAGE" /\ i = 3 + 2 * s[i].img
    <3>1. CASE i = 3 + (2 * k - 1)
      BY <1>1, <1>2, <3>1, Zenon
    <3>2. CASE i = 3 + 2 * k
      <4>1. s[i].id = "FLASH_IMAGE" /\ s[i].img = k
        BY <1>1, <1>2, <3>2, Zenon
      <4> QED
        BY <3>2, <4>1, Zenon
    <3> QED
      BY <2>2, <3>1, <3>2
  <2> QED
    BY <2>1, <2>2
<1> QED
  BY <1>3, <1>4, <1>5

\* No image is flashed twice on the way to a switch.
LEMMA FlashedOnce ==
    ASSUME NEW f \in {"preboot", "postboot"},
           NEW i \in 1..Len(Sequence[f]), NEW j \in 1..Len(Sequence[f]),
           Sequence[f][i].id = "FLASH_IMAGE", Sequence[f][j].id = "FLASH_IMAGE",
           Sequence[f][i].img = Sequence[f][j].img
    PROVE  i = j
<1>1. CASE f = "preboot"
  <2>1. i = 4 + Sequence[f][i].img /\ j = 4 + Sequence[f][j].img
    BY <1>1, PrebootPlaces, Zenon
  <2> QED
    BY <2>1, Zenon
<1>2. CASE f = "postboot"
  <2>1. i = 3 + 2 * Sequence[f][i].img /\ j = 3 + 2 * Sequence[f][j].img
    BY <1>2, PostbootPlaces, Zenon
  <2> QED
    BY <2>1, Zenon
<1> QED
  BY <1>1, <1>2

\* A sequence has RTSS switch, or says that all is mirrored, after it has
\* flashed every image; the second only in the post-reboot sequence.
LEMMA CommitLast ==
    ASSUME NEW f \in AllFlows, NEW i \in 1..Len(Sequence[f]),
           Sequence[f][i].id \in {"UPDATE_GPT", "REDUNDANCY_ESTABLISHED"}
    PROVE  /\ f \in {"preboot", "postboot"}
           /\ Sequence[f][i].id = "REDUNDANCY_ESTABLISHED" => f = "postboot" /\ i > 2
           /\ \A k \in Images : \E j \in 1..(i - 1) :
                  Sequence[f][j].id = "FLASH_IMAGE" /\ Sequence[f][j].img = k
<1>0. NImages \in Nat
  BY FlowAssumption
<1>1. CASE f = "preboot"
  <2> DEFINE s == Sequence["preboot"]
  <2>1. /\ i = 4 + NImages + 1 /\ s[i].id = "UPDATE_GPT"
    BY <1>1, PrebootPlaces, Zenon
  <2>2. \A k \in 1..NImages, j \in Nat : j = 4 + k => s[j].id = "FLASH_IMAGE" /\ s[j].img = k
    BY PrebootElements
  <2> HIDE DEF s
  <2>3. \A k \in Images : 4 + k \in 1..(i - 1) /\ 4 + k \in Nat
    BY <1>0, <2>1 DEF Images
  <2>4. \A k \in Images : \E j \in 1..(i - 1) : s[j].id = "FLASH_IMAGE" /\ s[j].img = k
    BY <2>2, <2>3, Zenon DEF Images
  <2> QED
    BY <1>1, <2>1, <2>4 DEF s
<1>2. CASE f = "postboot"
  <2> DEFINE s == Sequence["postboot"]
  <2>1. i > 3 + 2 * NImages /\ i \in 1..Len(s)
    BY <1>2, PostbootPlaces, Zenon
  <2>2. \A k \in 1..NImages, j \in Nat :
            j = 3 + 2 * k => s[j].id = "FLASH_IMAGE" /\ s[j].img = k
    BY PostbootElements
  <2>3. i \in Nat
    BY <2>1, PostbootElements
  <2> HIDE DEF s
  <2>4. i > 2 /\ \A k \in Images : 3 + 2 * k \in 1..(i - 1) /\ 3 + 2 * k \in Nat
    BY <1>0, <2>1, <2>3 DEF Images
  <2>5. \A k \in Images : \E j \in 1..(i - 1) : s[j].id = "FLASH_IMAGE" /\ s[j].img = k
    BY <2>2, <2>4, Zenon DEF Images
  <2> QED
    BY <1>2, <2>4, <2>5 DEF s
<1>3. CASE f = "ackstate"
  <2>1. Sequence[f] = <<rtss_updater_update_ota_done_state>>
    BY <1>3, Zenon DEF Sequence
  <2> QED
    BY <2>1, CommandIds
<1>4. CASE f \in {"flasher", "bank", "single"}
  <2>1. PICK banks \in {1, 2}, n \in 1..NImages :
            Sequence[f] = rtss_updater_devprog_flasher(banks, n)
    <3>1. NImages \in 1..NImages /\ 1 \in 1..NImages
      BY FlowAssumption
    <3>2. CASE f = "flasher"
      BY <3>1, <3>2, Zenon DEF Sequence
    <3>3. CASE f = "bank"
      BY <3>1, <3>3, Zenon DEF Sequence
    <3>4. CASE f = "single"
      BY <3>1, <3>4, Zenon DEF Sequence
    <3> QED
      BY <1>4, <3>2, <3>3, <3>4
  <2>2. Sequence[f][i] \in Elems(rtss_updater_devprog_flasher(banks, n))
    BY <2>1, Zenon DEF Elems
  <2>3. banks \in Nat
    OBVIOUS
  <2> QED
    BY <2>2, <2>3, FlasherElems, Zenon
<1>5. CASE f = "gpt"
  <2>1. Sequence[f] = <<rtss_updater_chkgpt, rtss_updater_readgpt,
                        rtss_updater_writegpt, rtss_updater_fixgpt>>
    BY <1>5, Zenon DEF Sequence, rtss_updater_image_update_gpt
  <2> QED
    BY <2>1, CommandIds
<1> QED
  BY <1>1, <1>2, <1>3, <1>4, <1>5 DEF AllFlows

-----------------------------------------------------------------------------
(***************************************************************************)
(* What is committed is flashed.  In step the only message in flight is    *)
(* the current command, its answer, or that answer spoilt: RTSS does       *)
(* what the sequence says, in its order.                                   *)
(***************************************************************************)
CurrentInv ==
    InStep /\ mbok =>
        \A m \in Transit : m.id = "corrupt" \/ (m.id = Command.id /\ m.img = Command.img)

\* The images of the commands behind are flashed, and that of the current one
\* when its answer says so.
FlashedInv ==
    InStep /\ flow \in {"preboot", "postboot"} =>
        /\ ~unanswered => \A j \in 1..(step - 1) :
               Sequence[flow][j].id = "FLASH_IMAGE" => Sequence[flow][j].img \in flashed
        /\ mbok /\ Command.id = "FLASH_IMAGE" =>
               \A m \in Answers : m.id = "FLASH_IMAGE" /\ m.status = "SUCCESS" =>
                   Command.img \in flashed

RestartInv == restarts \in Nat /\ (restarts = 0 => mbok)

\* The acknowledgement, as long as RTSS does not restart: it is waited on as the
\* last message, and when something else is taken for its answer it is still in
\* flight.
AckInv ==
    /\ \A m \in Answers : m.id = "OTA_DONE" /\ m.status = "SUCCESS" => otaDone
    /\ restarts = 0 /\ pc = "true" /\ flow = "postboot" =>
           /\ step = 1 /\ fpc = "wait" => \E m \in Transit : m.id \in {"OTA_DONE", "corrupt"}
           /\ step = 2 /\ fpc # "failed" /\ ~unanswered =>
                  otaDone \/ InFlight >= (IF fpc = "wait" THEN 2 ELSE 1)

\* The answer of the boot information comes after that of the acknowledgement.
DoneInv ==
    restarts = 0 /\ pc = "true" /\ flow = "postboot" /\ step > 2 /\ ~unanswered => otaDone

FinishInv == CurrentInv /\ FlashedInv /\ DoneInv
CommitInv == RestartInv /\ (strays = 0 => AckInv /\ FinishInv)

\* Nothing in flight, and a single message.
LEMMA FewInFlight ==
    ASSUME IInv
    PROVE  /\ InFlight = 0 => Transit = {} /\ Answers = {}
           /\ InFlight <= 1 /\ txq # <<>> => Elems(rxq) = {}
           /\ InFlight <= 1 /\ rxq # <<>> => Tail(rxq) = <<>> /\ txq = <<>> /\ rtss = "idle"
<1>1. /\ Len(txq) \in Nat /\ Len(rxq) \in Nat
      /\ rtss = "idle" => InFlight = Len(txq) + Len(rxq)
      /\ rtss # "idle" => InFlight = Len(txq) + Len(rxq) + 1
  BY InFlightIs DEF IInv
<1>2. txq \in Seq(Message) /\ rxq \in Seq(Message)
  BY DEF IInv, ChannelInv
<1>3. \A q \in Seq(Message) : /\ Len(q) = 0 => q = <<>>
                              /\ q # <<>> => Len(q) \in Nat \ {0}
                              /\ Len(q) = 1 => Tail(q) = <<>>
  <2> TAKE q \in Seq(Message)
  <2>1. Len(q) \in Nat /\ (Len(q) = 0 => q = <<>>)
    OBVIOUS
  <2>2. q # <<>> => /\ Len(q) \in Nat \ {0} /\ Tail(q) \in Seq(Message)
                    /\ Len(Tail(q)) = Len(q) - 1
    OBVIOUS
  <2>3. ASSUME Len(q) = 1
        PROVE  Tail(q) = <<>>
    <3>1. q # <<>>
      BY <2>3
    <3>2. Tail(q) \in Seq(Message) /\ Len(Tail(q)) = 0
      BY <2>2, <2>3, <3>1
    <3>3. \A t \in Seq(Message) : Len(t) = 0 => t = <<>>
      OBVIOUS
    <3> QED
      BY <3>2, <3>3, Zenon
  <2> QED
    BY <2>1, <2>2, <2>3
<1>4. InFlight = 0 => Transit = {} /\ Answers = {}
  <2> SUFFICES ASSUME InFlight = 0
               PROVE  Transit = {} /\ Answers = {}
    OBVIOUS
  <2>1. Len(txq) = 0 /\ Len(rxq) = 0 /\ rtss = "idle"
    BY <1>1
  <2> QED
    BY <2>1 DEF Transit, Answers, Elems
<1>5. InFlight <= 1 /\ txq # <<>> => Elems(rxq) = {}
  <2> SUFFICES ASSUME InFlight <= 1, txq # <<>>
               PROVE  Elems(rxq) = {}
    OBVIOUS
  <2>1. Len(txq) # 0
    BY <1>2, <1>3
  <2>2. Len(rxq) = 0
    BY <1>1, <2>1
  <2> QED
    BY <2>2 DEF Elems
<1>6. InFlight <= 1 /\ rxq # <<>> => Tail(rxq) = <<>> /\ txq = <<>> /\ rtss = "idle"
  <2> SUFFICES ASSUME InFlight <= 1, rxq # <<>>
               PROVE  Tail(rxq) = <<>> /\ txq = <<>> /\ rtss = "idle"
    OBVIOUS
  <2>1. Len(rxq) # 0
    BY <1>2, <1>3
  <2>2. Len(rxq) = 1 /\ Len(txq) = 0 /\ rtss = "idle"
    BY <1>1, <2>1
  <2>3. Tail(rxq) = <<>> /\ txq = <<>>
    BY <1>2, <1>3, <2>2, Zenon
  <2> QED
    BY <2>2, <2>3
<1> QED
  BY <1>4, <1>5, <1>6

\* The first message of a queue and the others.
LEMMA QueueHead ==
    ASSUME NEW S, NEW q \in Seq(S), q # <<>>
    PROVE  Elems(q) \subseteq {Head(q)} \cup Elems(Tail(q))
<1>1. /\ Len(q) \in Nat \ {0} /\ Head(q) = q[1] /\ Len(Tail(q)) = Len(q) - 1
      /\ \A k \in 1..Len(Tail(q)) : Tail(q)[k] = q[k + 1]
  OBVIOUS
<1> SUFFICES ASSUME NEW x \in Elems(q)
             PROVE  x \in {Head(q)} \cup Elems(Tail(q))
  OBVIOUS
<1>2. PICK k \in 1..Len(q) : x = q[k]
  BY Zenon DEF Elems
<1>3. CASE k = 1
  BY <1>1, <1>2, <1>3
<1>4. CASE k # 1
  <2>1. k - 1 \in 1..Len(Tail(q)) /\ (k - 1) + 1 = k
    BY <1>1, <1>4
  <2>2. x = Tail(q)[k - 1]
    BY <1>1, <1>2, <2>1
  <2> QED
    BY <2>1, <2>2, Zenon DEF Elems
<1> QED
  BY <1>3, <1>4

\* What RTSS does not lose as long as it is up.
LEMMA TransitKept_Rtss ==
    ASSUME IInv, Rtss, mbok, NEW n \in Transit
    PROVE  \E m \in Transit' : m.id = n.id \/ m.id = "corrupt"
<1>1. txq \in Seq(Message) /\ rxq \in Seq(Message) /\ req \in Message
  BY DEF IInv, ChannelInv
<1>2. /\ txq # <<>> => Elems(txq) \subseteq {Head(txq)} \cup Elems(Tail(txq))
      /\ \A m \in Message : Elems(Append(rxq, m)) = Elems(rxq) \cup {m}
  BY <1>1, QueueElements, QueueHead
<1>3. CASE TakeRequest
  <2>1. /\ rtss = "idle" /\ rtss' = "work" /\ txq # <<>> /\ txq' = Tail(txq) /\ rxq' = rxq
        /\ req' = Head(txq)
    BY <1>3 DEF TakeRequest, RtssTake
  <2>2. Elems(txq) \subseteq {req'} \cup Elems(txq') /\ Elems(rxq') = Elems(rxq)
    BY <1>2, <2>1, Zenon
  <2>3. n \in Transit'
    BY <2>1, <2>2 DEF Transit
  <2> QED
    BY <2>3, Zenon
<1>4. ASSUME NEW st \in Status, ExecuteRequest(st)
      PROVE  \E m \in Transit' : m.id = n.id
  <2>1. /\ rtss = "work" /\ rtss' = "write" /\ UNCHANGED <<txq, rxq>>
        /\ req' = [req EXCEPT !.status = st]
    BY <1>4 DEF ExecuteRequest, RtssExecute, channels
  <2>2. req'.id = req.id /\ req'.img = req.img
    BY <1>1, <2>1, AnswerOf, Zenon
  <2>3. /\ Transit = Elems(rxq) \cup Elems(txq) \cup {req}
        /\ Transit' = Elems(rxq) \cup Elems(txq) \cup {req'}
    BY <2>1 DEF Transit
  <2> QED
    BY <2>2, <2>3, Zenon
<1>5. CASE PublishAnswer
  <2>1. rtss = "write" /\ rtss' = "idle" /\ txq' = txq /\ rxq' = Append(rxq, req)
    BY <1>5 DEF PublishAnswer, RtssPublish
  <2>2. Elems(rxq') = Elems(rxq) \cup {req} /\ Elems(txq') = Elems(txq)
    BY <1>1, <1>2, <2>1, Zenon
  <2>3. n \in Transit'
    BY <2>1, <2>2 DEF Transit
  <2> QED
    BY <2>3, Zenon
<1>6. ASSUME NEW st \in Status, CorruptAnswer(st)
      PROVE  \E m \in Transit' : m.id = n.id \/ m.id = "corrupt"
  <2> DEFINE c == Msg("corrupt", 0, st)
  <2>1. rtss = "write" /\ rtss' = "idle" /\ txq' = txq /\ rxq' = Append(rxq, c)
    BY <1>6 DEF CorruptAnswer
  <2>2. c \in Message /\ c.id = "corrupt"
    BY MsgType DEF Ids, Msg
  <2> HIDE DEF c
  <2>3. Elems(rxq') = Elems(rxq) \cup {c}
    BY <1>2, <2>1, <2>2, Zenon
  <2>4. c \in Transit'
    BY <2>3 DEF Transit
  <2> QED
    BY <2>2, <2>4, Zenon
<1>7. CASE RtssDown
  <2>1. UNCHANGED <<txq, rxq, rtss, req>>
    BY <1>7 DEF RtssDown, hsvars, channels, rtssvars
  <2>2. Transit' = Transit
    BY <2>1 DEF Transit, Elems
  <2> QED
    BY <2>2, Zenon
<1>8. ~RtssUp
  BY DEF RtssUp
<1> QED
  BY <1>3, <1>4, <1>5, <1>6, <1>7, <1>8, Zenon DEF Rtss

\* What RTSS adds to the answers: that of the request it executes.
LEMMA Answers_Rtss ==
    ASSUME IInv, Rtss
    PROVE  \A m \in Answers' :
               \/ m \in Answers
               \/ m.id = "corrupt"
               \/ \E st \in Status : /\ ExecuteRequest(st) /\ req \in Transit
                                     /\ m.id = req.id /\ m.img = req.img /\ m.status = st
<1>1. txq \in Seq(Message) /\ rxq \in Seq(Message) /\ req \in Message
  BY DEF IInv, ChannelInv
<1>2. /\ \A n \in Message : Elems(Append(rxq, n)) = Elems(rxq) \cup {n}
      /\ Elems(<<>>) = {}
  BY <1>1, QueueElements, Zenon
<1>3. CASE TakeRequest
  <2>1. rtss = "idle" /\ rtss' = "work" /\ rxq' = rxq
    BY <1>3 DEF TakeRequest, RtssTake
  <2>2. Answers' \subseteq Answers
    BY <2>1 DEF Answers, Elems
  <2> QED
    BY <2>2, Zenon
<1>4. ASSUME NEW st \in Status, ExecuteRequest(st), NEW m \in Answers'
      PROVE  \/ m \in Answers
             \/ ExecuteRequest(st) /\ req \in Transit
                /\ m.id = req.id /\ m.img = req.img /\ m.status = st
  <2>1. /\ rtss = "work" /\ rtss' = "write" /\ rxq' = rxq
        /\ req' = [req EXCEPT !.status = st]
    BY <1>4 DEF ExecuteRequest, RtssExecute, channels
  <2>2. req'.id = req.id /\ req'.img = req.img /\ req'.status = st
    <3>1. \A x \in Message : /\ [x EXCEPT !.status = st].id = x.id
                            /\ [x EXCEPT !.status = st].img = x.img
                            /\ [x EXCEPT !.status = st].status = st
      BY AnswerOf
    <3> QED
      BY <1>1, <2>1, <3>1, Zenon
  <2>3. m \in Answers \/ m = req'
    BY <1>4, <2>1 DEF Answers, Elems
  <2>4. req \in Transit
    BY <2>1 DEF Transit
  <2> QED
    BY <1>4, <2>2, <2>3, <2>4, Zenon
<1>5. CASE PublishAnswer
  <2>1. rtss = "write" /\ rtss' = "idle" /\ rxq' = Append(rxq, req)
    BY <1>5 DEF PublishAnswer, RtssPublish
  <2>2. Elems(rxq') = Elems(rxq) \cup {req}
    BY <1>1, <1>2, <2>1, Zenon
  <2>3. Answers' \subseteq Answers
    BY <2>1, <2>2 DEF Answers
  <2> QED
    BY <2>3, Zenon
<1>6. ASSUME NEW st \in Status, CorruptAnswer(st), NEW m \in Answers'
      PROVE  m \in Answers \/ m.id = "corrupt"
  <2> DEFINE c == Msg("corrupt", 0, st)
  <2>1. rtss' = "idle" /\ rxq' = Append(rxq, c)
    BY <1>6 DEF CorruptAnswer
  <2>2. c \in Message /\ c.id = "corrupt"
    BY MsgType DEF Ids, Msg
  <2> HIDE DEF c
  <2>3. Elems(rxq') = Elems(rxq) \cup {c}
    BY <1>2, <2>1, <2>2, Zenon
  <2>4. m \in Answers \/ m = c
    BY <1>6, <2>1, <2>3 DEF Answers
  <2> QED
    BY <2>2, <2>4, Zenon
<1>7. CASE RtssDown
  <2>1. UNCHANGED <<rxq, rtss, req>>
    BY <1>7 DEF RtssDown, hsvars, channels, rtssvars
  <2>2. Answers' = Answers
    BY <2>1 DEF Answers, Elems
  <2> QED
    BY <2>2, Zenon
<1>8. CASE RtssUp
  <2>1. rxq' = <<>> /\ rtss' = "idle"
    BY <1>8 DEF RtssUp
  <2>2. Answers' = {}
    BY <1>2, <2>1 DEF Answers
  <2> QED
    BY <2>2, Zenon
<1> QED
  BY <1>3, <1>4, <1>5, <1>6, <1>7, <1>8, Zenon DEF Rtss

\* RTSS keeps what it has accepted, and what it is sent, as long as it is up.
LEMMA Ack_Rtss ==
    ASSUME IInv, Rtss, RestartInv, AckInv
    PROVE  AckInv'
<1>1. UNCHANGED <<pc, fpc, flow, step, unanswered>>
  BY DEF Rtss, TakeRequest, ExecuteRequest, PublishAnswer, CorruptAnswer, RtssDown, RtssUp,
     RtssTake, RtssExecute, RtssPublish, hsvars, fvars
<1>2. restarts \in Nat /\ (restarts = 0 => mbok)
  BY DEF RestartInv
<1>3. \/ restarts' = restarts /\ (mbok' \/ mbok' = mbok)
      \/ restarts' = restarts + 1
  BY DEF Rtss, TakeRequest, ExecuteRequest, PublishAnswer, CorruptAnswer, RtssDown, RtssUp,
     fvars, faults
<1>4. restarts' \in Nat /\ (restarts' = 0 => restarts = 0 /\ mbok /\ mbok')
  BY <1>2, <1>3
<1>5. otaDone => otaDone'
  BY DEF Rtss, TakeRequest, ExecuteRequest, PublishAnswer, CorruptAnswer, RtssDown, RtssUp,
     fvars, nor
<1>6. ASSUME NEW m \in Answers', m.id = "OTA_DONE", m.status = "SUCCESS"
      PROVE  otaDone'
  <2>1. CASE m \in Answers
    BY <1>5, <1>6, <2>1, Zenon DEF AckInv
  <2>2. CASE m.id = "corrupt"
    BY <1>6, <2>2
  <2>3. ASSUME NEW st \in Status, ExecuteRequest(st), m.id = req.id, m.status = st
        PROVE  otaDone'
    BY <1>6, <2>3 DEF ExecuteRequest
  <2> QED
    BY <2>1, <2>2, <2>3, Answers_Rtss, Zenon
<1>7. ASSUME restarts' = 0, pc = "true", flow = "postboot", step = 1, fpc = "wait"
      PROVE  \E m \in Transit' : m.id \in {"OTA_DONE", "corrupt"}
  <2>1. PICK n \in Transit : n.id \in {"OTA_DONE", "corrupt"}
    BY <1>4, <1>7, Zenon DEF AckInv
  <2>2. PICK m \in Transit' : m.id = n.id \/ m.id = "corrupt"
    BY <1>4, <1>7, TransitKept_Rtss, Zenon
  <2> QED
    BY <2>1, <2>2, Zenon
<1>8. ASSUME restarts' = 0, pc = "true", flow = "postboot", step = 2, fpc # "failed",
             ~unanswered
      PROVE  otaDone' \/ InFlight' >= (IF fpc = "wait" THEN 2 ELSE 1)
  <2>1. otaDone \/ InFlight >= (IF fpc = "wait" THEN 2 ELSE 1)
    BY <1>4, <1>8, Zenon DEF AckInv
  <2>2. InFlight' = InFlight
    BY <1>4, <1>8, ChannelKept_Rtss, InFlight_Rtss, Zenon
  <2> QED
    BY <1>5, <2>1, <2>2, Zenon
<1> QED
  BY <1>1, <1>4, <1>6, <1>7, <1>8, Zenon DEF AckInv

\* The first two commands of the post-reboot sequence are not its last.
LEMMA PostbootBegins ==
    ASSUME IInv, pc = "true", flow = "postboot"
    PROVE  /\ step = 1 => Command.id = "OTA_DONE"
           /\ step = 2 => Command.id = "GET_BOOTINFO"
           /\ step \in {1, 2} => step # Len(Sequence[flow])
<1>1. /\ Len(Sequence["postboot"]) = 3 + 2 * NImages + 5
      /\ Sequence["postboot"][1].id = "OTA_DONE"
      /\ Sequence["postboot"][2].id = "GET_BOOTINFO"
  BY PostbootElements
<1>2. Len(Sequence["postboot"]) \notin {1, 2}
  <2>1. NImages \in Nat
    BY FlowAssumption
  <2>2. \A n \in Nat : 3 + 2 * n + 5 \notin {1, 2}
    OBVIOUS
  <2> QED
    BY <1>1, <2>1, <2>2, Zenon
<1>3. step \in {1, 2} => step # Len(Sequence[flow])
  BY <1>2, Zenon
<1> QED
  BY <1>1, <1>3, Zenon DEF Command

\* Sending adds a message, reading takes one.
LEMMA InFlightSteps ==
    ASSUME IInv
    PROVE  /\ Sends => InFlight' = InFlight + 1
           /\ rtss_updater_cbk_notify_handler => InFlight' = InFlight - 1
<1>1. /\ Len(txq) \in Nat /\ Len(rxq) \in Nat
      /\ rtss = "idle" => InFlight = Len(txq) + Len(rxq)
      /\ rtss # "idle" => InFlight = Len(txq) + Len(rxq) + 1
  BY InFlightIs DEF IInv
<1>2. /\ rtss' = "idle" => InFlight' = Len(txq') + Len(rxq')
      /\ rtss' # "idle" => InFlight' = Len(txq') + Len(rxq') + 1
  BY DEF InFlight
<1>3. txq \in Seq(Message) /\ rxq \in Seq(Message)
  BY DEF IInv, ChannelInv
<1>4. ASSUME Sends
      PROVE  InFlight' = InFlight + 1
  <2>1. txq' = Append(txq, Command) /\ rxq' = rxq /\ rtss' = rtss /\ fpc = "send"
    BY <1>4, SendsMoves
  <2>2. pc = "true"
    BY <2>1 DEF IInv, PlaceInv
  <2>3. Command \in Message
    BY <2>2, CommandType DEF IInv
  <2>4. Len(txq') = Len(txq) + 1 /\ Len(rxq') = Len(rxq)
    BY <1>3, <2>1, <2>3, QueueSteps, Zenon
  <2> QED
    BY <1>1, <1>2, <2>1, <2>4
<1>5. ASSUME rtss_updater_cbk_notify_handler
      PROVE  InFlight' = InFlight - 1
  <2>1. rxq # <<>> /\ rxq' = Tail(rxq) /\ txq' = txq /\ rtss' = rtss
    BY <1>5 DEF rtss_updater_cbk_notify_handler, rtssvars
  <2>2. Len(rxq') = Len(rxq) - 1 /\ Len(txq') = Len(txq)
    BY <1>3, <2>1, QueueSteps, Zenon
  <2> QED
    BY <1>1, <1>2, <2>1, <2>2
<1> QED
  BY <1>4, <1>5

\* The same of the messages that are in flight after a step.
LEMMA NextInFlight ==
    ASSUME IInv'
    PROVE  InFlight' \in Nat /\ (InFlight' = 0 => Transit' = {} /\ Answers' = {})
<1>1. Len(txq') \in Nat /\ Len(rxq') \in Nat
  BY QueueSteps DEF IInv, ChannelInv
<1>2. /\ rtss' = "idle" => InFlight' = Len(txq') + Len(rxq') + 0
      /\ rtss' # "idle" => InFlight' = Len(txq') + Len(rxq') + 1
  BY ONLY Zenon DEF InFlight
<1>3. InFlight' \in Nat
  BY <1>1, <1>2
<1>4. ASSUME InFlight' = 0
      PROVE  Transit' = {} /\ Answers' = {}
  <2>1. Len(txq') = 0 /\ Len(rxq') = 0 /\ rtss' = "idle"
    BY <1>1, <1>2, <1>4
  <2> QED
    BY <2>1 DEF Transit, Answers, Elems
<1> QED
  BY <1>3, <1>4

\* A handshake that brings no stray message adds no answer, and a launch with
\* nothing in flight finds none.
LEMMA Ack_Begin ==
    ASSUME IInv, strays' = 0, Launch \/ (Handshake /\ AckInv)
    PROVE  AckInv'
<1>1. pc' = "true" => step' = 1 /\ fpc' = "prepare"
  <2>1. CASE Handshake
    <3>1. pc # "true" /\ step' = step
      <4>1. Ping /\ step' = step
        BY <2>1 DEF Handshake
      <4> QED
        BY <4>1 DEF Ping, rtss_upd_is_ready, Ping_GiveUp, Ping_Send, Ping_SendFails,
           Ping_ResetBoth, Recovery_Timeout, Recovery_ResetRx, Recovery_Match, Recovery_Mismatch
    <3>2. step = 1
      BY <3>1, Zenon DEF IInv, PlaceInv
    <3> QED
      BY <2>1, <3>1, <3>2, HandshakeMoves, Zenon
  <2>2. CASE Launch
    BY <2>2 DEF Launch, Relaunch
  <2> QED
    BY <2>1, <2>2
<1>2. CASE Launch
  <2>1. UNCHANGED <<txq, rxq, rtss, req>> /\ strays' = InFlight
    BY <1>2 DEF Launch, Relaunch, channels, rtssvars
  <2>2. Answers = {}
    BY <2>1, FewInFlight
  <2>3. Answers' = {}
    BY <2>1, <2>2 DEF Answers, Elems
  <2>4. pc' = "true" => step' # 2 /\ fpc' # "wait"
    BY <1>1
  <2> QED
    BY <2>3, <2>4, Zenon DEF AckInv
<1>3. CASE Handshake /\ AckInv
  <2>1. UNCHANGED <<restarts, otaDone>>
    BY <1>3 DEF Handshake, nor, faults
  <2>2. /\ rtss' = rtss /\ req' = req
        /\ rxq' = rxq \/ rxq' = <<>> \/ (rxq # <<>> /\ rxq' = Tail(rxq))
    BY <1>3, QuietHandshake, Zenon DEF QuietPing
  <2>3. Answers' \subseteq Answers
    <3>1. /\ Elems(<<>>) = {}
          /\ rxq # <<>> => Elems(Tail(rxq)) \subseteq Elems(rxq)
      BY QueueElements, Zenon DEF IInv, ChannelInv
    <3>2. Elems(rxq') \subseteq Elems(rxq)
      BY <2>2, <3>1, Zenon
    <3> QED
      BY <2>2, <3>2 DEF Answers
  <2>4. \A m \in Answers' : m.id = "OTA_DONE" /\ m.status = "SUCCESS" => otaDone'
    BY <1>3, <2>1, <2>3, Zenon DEF AckInv
  <2>5. pc' = "true" => step' # 2 /\ fpc' # "wait"
    BY <1>1
  <2> QED
    BY <2>4, <2>5, Zenon DEF AckInv
<1> QED
  BY <1>2, <1>3

\* Preparing a command, and giving up.
LEMMA Ack_Prepare ==
    ASSUME IInv, AckInv, Prepares
    PROVE  AckInv'
<1>1. /\ UNCHANGED <<txq, rxq, rtss, req, pc, flow, step, mbok, restarts, otaDone, unanswered>>
      /\ fpc \in {"prepare", "send"} /\ fpc' \in {"send", "failed", "dead"}
  BY PreparesMoves
<1>2. Transit' = Transit /\ InFlight' = InFlight /\ Answers' = Answers
  BY <1>1 DEF Transit, Answers, Elems, InFlight
<1>3. fpc # "wait" /\ fpc' # "wait" /\ fpc # "failed"
  BY <1>1
<1>4. ASSUME restarts = 0, pc = "true", flow = "postboot", step = 2, ~unanswered
      PROVE  otaDone \/ InFlight >= (IF fpc' = "wait" THEN 2 ELSE 1)
  <2>1. otaDone \/ InFlight >= (IF fpc = "wait" THEN 2 ELSE 1)
    BY <1>3, <1>4, Zenon DEF AckInv
  <2> QED
    BY <1>3, <2>1, Zenon
<1>5. \A m \in Answers' : m.id = "OTA_DONE" /\ m.status = "SUCCESS" => otaDone
  BY <1>2, Zenon DEF AckInv
<1> QED
  BY <1>1, <1>2, <1>3, <1>4, <1>5, Zenon DEF AckInv

\* The acknowledgement is sent, and after it the question how RTSS booted.
LEMMA Ack_Send ==
    ASSUME IInv, AckInv, Sends
    PROVE  AckInv'
<1>1. /\ fpc = "send" /\ fpc' \in {"wait", "failed"} /\ txq' = Append(txq, Command)
      /\ UNCHANGED <<rxq, rtss, req, pc, flow, step, mbok, restarts, otaDone, unanswered>>
  BY SendsMoves
<1>2. Answers' = Answers
  BY <1>1 DEF Answers, Elems
<1>3. \A m \in Answers' : m.id = "OTA_DONE" /\ m.status = "SUCCESS" => otaDone
  BY <1>2, Zenon DEF AckInv
<1>4. ASSUME pc = "true", flow = "postboot", step = 1
      PROVE  \E m \in Transit' : m.id \in {"OTA_DONE", "corrupt"}
  <2>1. Command.id = "OTA_DONE" /\ Command \in Message
    BY <1>4, PostbootBegins, CommandType DEF IInv
  <2>2. Elems(Append(txq, Command)) = Elems(txq) \cup {Command}
    <3>1. txq \in Seq(Message)
      BY DEF IInv, ChannelInv
    <3> QED
      BY <2>1, <3>1, QueueElements, Zenon
  <2>3. Command \in Transit'
    BY <1>1, <2>2, Zenon DEF Transit
  <2> QED
    BY <2>1, <2>3, Zenon
<1>5. ASSUME restarts = 0, pc = "true", flow = "postboot", step = 2, ~unanswered, fpc' # "failed"
      PROVE  otaDone \/ InFlight' >= (IF fpc' = "wait" THEN 2 ELSE 1)
  <2>1. otaDone \/ InFlight >= 1
    <3>1. fpc # "failed" /\ fpc # "wait"
      BY <1>1
    <3>2. otaDone \/ InFlight >= (IF fpc = "wait" THEN 2 ELSE 1)
      BY <1>5, <3>1, Zenon DEF AckInv
    <3> QED
      BY <3>1, <3>2, Zenon
  <2>2. InFlight' = InFlight + 1 /\ InFlight \in Nat
    BY InFlightSteps, InFlightIs, Zenon DEF IInv
  <2>3. \A n \in Nat : n >= 1 => n + 1 >= 2
    OBVIOUS
  <2>4. fpc' = "wait"
    BY <1>1, <1>5
  <2> QED
    BY <2>1, <2>2, <2>3, <2>4, Zenon
<1> QED
  BY <1>1, <1>3, <1>4, <1>5, Zenon DEF AckInv

\* What is read for the answer of the acknowledgement is that answer, or a
\* spoilt one, or the acknowledgement is still in flight behind it.
LEMMA Ack_Read ==
    ASSUME IInv, IInv', AckInv, rtss_updater_cbk_notify_handler
    PROVE  AckInv'
<1>1. /\ fpc = "wait" /\ NextCommand /\ rxq # <<>> /\ rxq' = Tail(rxq)
      /\ respStatus' = Head(rxq).status
      /\ unanswered' <=> unanswered \/ Head(rxq).id = "corrupt"
      /\ UNCHANGED <<txq, rtss, req, pc, flow, mbok, restarts, otaDone>>
  BY DEF rtss_updater_cbk_notify_handler, rtssvars, faults, nor
<1>2. rxq \in Seq(Message) /\ txq \in Seq(Message) /\ step \in Nat \ {0} /\ pc = "true"
  <2>1. pc = "true" /\ UNCHANGED <<pc, flow>>
    BY <1>1 DEF IInv, PlaceInv
  <2> QED
    BY <1>1, <2>1, WaitEnds DEF IInv, ChannelInv
<1>3. /\ Head(rxq) \in Elems(rxq) /\ Elems(rxq') \subseteq Elems(rxq)
      /\ Elems(rxq) \subseteq {Head(rxq)} \cup Elems(rxq')
  BY <1>1, <1>2, QueueElements, QueueHead, Zenon
<1>4. /\ Answers' \subseteq Answers /\ Head(rxq) \in Answers
      /\ Transit \subseteq {Head(rxq)} \cup Transit'
  <2>1. Elems(txq') = Elems(txq)
    BY <1>1, Zenon
  <2> QED
    BY <1>1, <1>3, <2>1 DEF Answers, Transit
<1>5. \A m \in Answers' : m.id = "OTA_DONE" /\ m.status = "SUCCESS" => otaDone
  BY <1>4, Zenon DEF AckInv
<1>6. fpc' = "failed" \/ fpc' = "ok" \/ fpc' = "prepare"
  BY <1>1, NextCommandMoves, Zenon
<1>7. ASSUME restarts = 0, flow = "postboot", step' = 2, fpc' # "failed", ~unanswered'
      PROVE  otaDone \/ InFlight' >= 1
  <2>1. CASE fpc' = "prepare"
    <3>1. step = 1
      <4>1. step' = step + 1
        BY <1>1, <2>1, NextCommandMoves
      <4> QED
        BY <1>2, <1>7, <4>1
    <3>2. PICK m \in Transit : m.id \in {"OTA_DONE", "corrupt"}
      BY <1>1, <1>2, <1>7, <3>1, Zenon DEF AckInv
    <3>3. CASE m \in Transit'
      <4>1. InFlight' # 0
        BY <3>3, NextInFlight, Zenon
      <4>2. InFlight' \in Nat
        BY NextInFlight
      <4>3. \A n \in Nat : n # 0 => n >= 1
        OBVIOUS
      <4> QED
        BY <4>1, <4>2, <4>3, Zenon
    <3>4. CASE m = Head(rxq)
      <4>1. Head(rxq).id = "OTA_DONE"
        BY <1>1, <1>7, <3>2, <3>4, Zenon
      <4>2. Head(rxq).status = "SUCCESS"
        BY <1>1, <1>7, NextCommandChecks, Zenon
      <4> QED
        BY <1>4, <4>1, <4>2, Zenon DEF AckInv
    <3> QED
      BY <1>4, <3>3, <3>4, Zenon
  <2>2. CASE fpc' = "ok"
    <3>1. step' = step /\ step = Len(Sequence[flow])
      BY <1>1, <2>2, Zenon DEF NextCommand
    <3> QED
      BY <1>2, <1>7, <3>1, PostbootBegins
  <2> QED
    BY <1>6, <1>7, <2>1, <2>2
<1>8. fpc' # "wait"
  BY <1>6
<1> QED
  BY <1>1, <1>5, <1>7, <1>8, Zenon DEF AckInv

\* No restart of RTSS has been forgotten.
LEMMA RestartInductive == RestartInv /\ [Next]_vars => RestartInv'
<1> SUFFICES ASSUME RestartInv, [Next]_vars
             PROVE  RestartInv'
  OBVIOUS
<1>1. \/ restarts' = restarts /\ (mbok' \/ mbok' = mbok)
      \/ restarts' = restarts + 1
  <2>1. CASE Rtss
    BY <2>1 DEF Rtss, TakeRequest, ExecuteRequest, PublishAnswer, CorruptAnswer, RtssDown, RtssUp,
       fvars, faults
  <2>2. CASE Handshake \/ SendCommand \/ SendCommandFails \/ rtss_updater_cbk_notify_handler
             \/ notify_handler_ReadFails \/ Launch
    BY <2>2 DEF Handshake, SendCommand, SendCommandFails, rtss_updater_cbk_notify_handler,
       notify_handler_ReadFails, Launch, faults
  <2>3. CASE PrepareCommand \/ PrepareFails \/ LoadFileFails
    BY <2>3 DEF PrepareCommand, PrepareFails, LoadFileFails, Stay, faults
  <2>4. CASE UNCHANGED vars
    BY <2>4 DEF vars, fvars, faults
  <2> QED
    BY <2>1, <2>2, <2>3, <2>4, Zenon DEF Next, Updater
<1> QED
  BY <1>1 DEF RestartInv

\* Every step of a process that found clean channels keeps account of the
\* acknowledgement.
LEMMA AckInductive ==
    ASSUME IInv, IInv', RestartInv, [Next]_vars, strays' = 0, Launch \/ AckInv
    PROVE  AckInv'
<1>1. CASE notify_handler_ReadFails /\ AckInv
  <2>1. ~mbok /\ UNCHANGED <<rxq, rtss, req, mbok, restarts, otaDone>>
    BY <1>1, ReadFailsMoves, Zenon
  <2>2. Answers' = Answers
    BY <2>1 DEF Answers, Elems
  <2>3. restarts # 0
    BY <2>1 DEF RestartInv
  <2>4. \A m \in Answers' : m.id = "OTA_DONE" /\ m.status = "SUCCESS" => otaDone
    BY <1>1, <2>2, Zenon DEF AckInv
  <2> QED
    BY <2>1, <2>3, <2>4, Zenon DEF AckInv
<1>2. CASE UNCHANGED vars /\ AckInv
  <2>1. /\ UNCHANGED <<txq, rxq, rtss, req, pc, fpc, flow, step, mbok, restarts, otaDone>>
        /\ unanswered' = unanswered
    BY <1>2 DEF vars, hsvars, fvars, channels, rtssvars, nor, faults
  <2>2. Transit' = Transit /\ Answers' = Answers /\ InFlight' = InFlight
    BY <2>1 DEF Transit, Answers, Elems, InFlight
  <2> QED
    BY <1>2, <2>1, <2>2, Zenon DEF AckInv
<1>3. CASE (SendCommandFails \/ PrepareCommand \/ PrepareFails \/ LoadFileFails \/ SendCommand)
           /\ AckInv
  <2>1. Prepares \/ Sends
    BY <1>3, Zenon DEF Prepares, Sends
  <2> QED
    BY <1>3, <2>1, Ack_Prepare, Ack_Send, Zenon
<1> QED
  BY <1>1, <1>2, <1>3, Ack_Rtss, Ack_Begin, Ack_Read, Zenon DEF Next, Updater

\* In step at most the command that was sent last is in flight.
LEMMA InStepFew ==
    ASSUME IInv, CleanInv, InStep, mbok
    PROVE  InFlight <= 1
<1>1. InFlight <= (IF fpc \in {"wait", "failed"} THEN 1 ELSE 0)
  BY Zenon DEF CleanInv, StepInv, InStep
<1>2. InFlight \in Nat
  BY InFlightIs DEF IInv
<1> QED
  BY <1>1, <1>2

\* RTSS works on the current command only, so it erases no image but that of
\* the current command, before it has answered it.
LEMMA Finish_Rtss ==
    ASSUME IInv, IInv', Rtss, CleanInv, RestartInv, FinishInv
    PROVE  FinishInv'
<1>1. UNCHANGED <<pc, fpc, flow, step, stored, unanswered>>
  BY DEF Rtss, TakeRequest, ExecuteRequest, PublishAnswer, CorruptAnswer, RtssDown, RtssUp,
     RtssTake, RtssExecute, RtssPublish, hsvars, fvars, resp
<1>2. /\ Command' = Command /\ (Passed' <=> Passed) /\ Marker' = Marker
      /\ InStep' <=> InStep
  <2>1. Command' = Command /\ (Passed' <=> Passed) /\ Marker' = Marker
    BY <1>1, SameCommand, Zenon
  <2> QED
    BY <1>1, <2>1, Zenon DEF InStep
<1>3. mbok' /\ ~mbok => Transit' = {} /\ Answers' = {}
  BY ChannelKept_Rtss, InFlight_Rtss, NextInFlight, Zenon
<1>4. otaDone => otaDone'
  BY DEF Rtss, TakeRequest, ExecuteRequest, PublishAnswer, CorruptAnswer, RtssDown, RtssUp,
     fvars, nor
<1>5. restarts' = 0 => restarts = 0
  <2>1. restarts' = restarts \/ restarts' = restarts + 1
    BY DEF Rtss, TakeRequest, ExecuteRequest, PublishAnswer, CorruptAnswer, RtssDown, RtssUp,
       fvars, faults
  <2>2. restarts \in Nat
    BY DEF RestartInv
  <2> QED
    BY <2>1, <2>2
<1>6. CurrentInv'
  <2>1. ASSUME InStep, mbok', NEW m \in Transit'
        PROVE  m.id = "corrupt" \/ (m.id = Command.id /\ m.img = Command.img)
    <3>1. mbok
      BY <1>3, <2>1, Zenon
    <3>2. \A n \in Transit : n.id = "corrupt" \/ (n.id = Command.id /\ n.img = Command.img)
      BY <2>1, <3>1, Zenon DEF FinishInv, CurrentInv
    <3> QED
      BY <2>1, <3>2, Transit_Rtss, Zenon
  <2> QED
    BY <1>2, <2>1, Zenon DEF CurrentInv
<1>7. \/ flashed \subseteq flashed'
      \/ /\ mbok /\ rtss = "idle" /\ txq # <<>> /\ rtss' = "work" /\ rxq' = rxq
         /\ Head(txq).id = "FLASH_IMAGE" /\ flashed' = flashed \ {Head(txq).img}
  <2>1. CASE TakeRequest
    <3>1. /\ mbok /\ rtss = "idle" /\ txq # <<>> /\ rtss' = "work" /\ rxq' = rxq
          /\ req' = Head(txq) /\ flashed' = Erased(req')
      BY <2>1 DEF TakeRequest, RtssTake
    <3>2. flashed' = IF Head(txq).id = "FLASH_IMAGE" THEN flashed \ {Head(txq).img} ELSE flashed
      BY <3>1, Zenon DEF Erased
    <3> QED
      BY <3>1, <3>2
  <2>2. ASSUME NEW st \in Status, ExecuteRequest(st)
        PROVE  flashed \subseteq flashed'
    BY <2>2 DEF ExecuteRequest
  <2>3. CASE ~TakeRequest /\ \A st \in Status : ~ExecuteRequest(st)
    BY <2>3 DEF Rtss, PublishAnswer, CorruptAnswer, RtssDown, RtssUp, fvars, nor
  <2> QED
    BY <2>1, <2>2, <2>3
<1>8. ASSUME InStep, flow \in {"preboot", "postboot"}, ~unanswered,
             NEW j \in 1..(step - 1), Sequence[flow][j].id = "FLASH_IMAGE"
      PROVE  Sequence[flow][j].img \in flashed'
  <2>1. Sequence[flow][j].img \in flashed
    BY <1>8, Zenon DEF FinishInv, FlashedInv
  <2>2. CASE flashed \subseteq flashed'
    BY <2>1, <2>2
  <2>3. CASE /\ mbok /\ rtss = "idle" /\ txq # <<>>
             /\ Head(txq).id = "FLASH_IMAGE" /\ flashed' = flashed \ {Head(txq).img}
    <3>1. Head(txq) \in Transit
      <4>1. Head(txq) \in Elems(txq)
        BY <2>3, QueueElements, Zenon DEF IInv, ChannelInv
      <4> QED
        BY <4>1, Zenon DEF Transit
    <3>2. Command.id = "FLASH_IMAGE" /\ Command.img = Head(txq).img
      <4>1. Head(txq).id # "corrupt"
        BY <2>3
      <4> QED
        BY <1>8, <2>3, <3>1, <4>1, Zenon DEF FinishInv, CurrentInv
    <3>3. step \in 1..Len(Sequence[flow]) /\ step \in Nat \ {0} /\ Len(Sequence[flow]) \in Nat
      <4>1. pc = "true"
        BY <1>8, Zenon DEF InStep
      <4> QED
        BY <4>1, CommandType DEF IInv, PlaceInv
    <3>4. j \in 1..Len(Sequence[flow]) /\ j # step
      <4>1. \A n \in Nat, k \in Nat \ {0} : k \in 1..n =>
                \A i \in 1..(k - 1) : i \in 1..n /\ i # k
        OBVIOUS
      <4> QED
        BY <3>3, <4>1, Zenon
    <3>5. Sequence[flow][j].img # Command.img
      BY <1>8, <3>2, <3>3, <3>4, FlashedOnce, Zenon DEF Command
    <3> QED
      BY <2>1, <2>3, <3>2, <3>5, Zenon
  <2> QED
    BY <1>7, <2>2, <2>3, Zenon
<1>9. ASSUME InStep, flow \in {"preboot", "postboot"}, mbok', Command.id = "FLASH_IMAGE",
             NEW m \in Answers', m.id = "FLASH_IMAGE", m.status = "SUCCESS"
      PROVE  Command.img \in flashed'
  <2>1. mbok
    BY <1>3, <1>9, Zenon
  <2>2. CASE flashed \subseteq flashed'
    <3>1. CASE m \in Answers
      <4>1. Command.img \in flashed
        BY <1>9, <2>1, <3>1, Zenon DEF FinishInv, FlashedInv
      <4> QED
        BY <2>2, <4>1
    <3>2. CASE m.id = "corrupt"
      BY <1>9, <3>2
    <3>3. ASSUME NEW st \in Status, ExecuteRequest(st), req \in Transit, m.id = req.id,
                 m.status = st
          PROVE  Command.img \in flashed'
      <4>1. req.id = "FLASH_IMAGE" /\ st = "SUCCESS" /\ req.id # "corrupt"
        BY <1>9, <3>3
      <4>2. req.img = Command.img
        BY <1>9, <2>1, <3>3, <4>1, Zenon DEF FinishInv, CurrentInv
      <4>3. flashed' = flashed \cup {req.img}
        BY <3>3, <4>1 DEF ExecuteRequest
      <4> QED
        BY <4>2, <4>3
    <3> QED
      BY <1>9, <3>1, <3>2, <3>3, Answers_Rtss, Zenon
  <2>3. CASE rtss = "idle" /\ txq # <<>> /\ rtss' = "work" /\ rxq' = rxq
    <3>1. InFlight <= 1
      BY <1>9, <2>1, InStepFew, Zenon
    <3>2. Elems(rxq) = {}
      BY <2>3, <3>1, FewInFlight
    <3>3. Answers' = {}
      BY <2>3, <3>2 DEF Answers, Elems
    <3> QED
      BY <1>9, <3>3
  <2> QED
    BY <1>7, <2>2, <2>3, Zenon
<1>10. FlashedInv'
  BY <1>1, <1>2, <1>8, <1>9, Zenon DEF FlashedInv
<1>11. DoneInv'
  <2>1. ASSUME restarts' = 0, pc = "true", flow = "postboot", step > 2, ~unanswered
        PROVE  otaDone'
    BY <1>4, <1>5, <2>1, Zenon DEF FinishInv, DoneInv
  <2> QED
    BY <1>1, <2>1, Zenon DEF DoneInv
<1> QED
  BY <1>6, <1>10, <1>11, Zenon DEF FinishInv

\* Before a sequence there is nothing to finish.
LEMMA Finish_Begin ==
    ASSUME IInv, Handshake \/ Launch
    PROVE  FinishInv'
<1>1. pc' = "true" => step' = 1
  <2>1. CASE Handshake
    <3>1. pc # "true" /\ step' = step
      <4>1. Ping /\ step' = step
        BY <2>1 DEF Handshake
      <4> QED
        BY <4>1 DEF Ping, rtss_upd_is_ready, Ping_GiveUp, Ping_Send, Ping_SendFails,
           Ping_ResetBoth, Recovery_Timeout, Recovery_ResetRx, Recovery_Match, Recovery_Mismatch
    <3>2. step = 1
      BY <3>1, Zenon DEF IInv, PlaceInv
    <3> QED
      BY <3>1, <3>2, Zenon
  <2>2. CASE Launch
    BY <2>2 DEF Launch, Relaunch
  <2> QED
    BY <2>1, <2>2
<1>2. ~InStep'
  <2>1. pc' = "true" => 1..(step' - 1) = {}
    BY <1>1
  <2> QED
    BY <2>1, Zenon DEF InStep, Passed
<1>3. ~(pc' = "true" /\ step' > 2)
  BY <1>1
<1> QED
  BY <1>2, <1>3, Zenon DEF FinishInv, CurrentInv, FlashedInv, DoneInv

\* Preparing a command, and giving up.
LEMMA Finish_Prepare ==
    ASSUME IInv, FinishInv, Prepares
    PROVE  FinishInv'
<1>1. UNCHANGED <<txq, rxq, rtss, req, pc, flow, step, stored, mbok, restarts, flashed, otaDone,
                  unanswered>>
  BY PreparesMoves
<1>2. Transit' = Transit /\ Answers' = Answers
  BY <1>1 DEF Transit, Answers, Elems
<1>3. Command' = Command /\ (InStep' <=> InStep)
  <2>1. Command' = Command /\ (Passed' <=> Passed) /\ Marker' = Marker
    BY <1>1, SameCommand, Zenon
  <2> QED
    BY <1>1, <2>1, Zenon DEF InStep
<1>4. CurrentInv'
  BY <1>1, <1>2, <1>3, Zenon DEF FinishInv, CurrentInv
<1>5. FlashedInv'
  BY <1>1, <1>2, <1>3, Zenon DEF FinishInv, FlashedInv
<1>6. DoneInv'
  BY <1>1, Zenon DEF FinishInv, DoneInv
<1> QED
  BY <1>4, <1>5, <1>6, Zenon DEF FinishInv

\* In step nothing is in flight when a command is sent.
LEMMA Finish_Send ==
    ASSUME IInv, CleanInv, FinishInv, Sends
    PROVE  FinishInv'
<1>1. /\ txq' = Append(txq, Command)
      /\ UNCHANGED <<rxq, rtss, req, pc, flow, step, stored, mbok, restarts, flashed, otaDone,
                     unanswered>>
      /\ fpc = "send" /\ mbok /\ ~EmptyPayload
  BY SendsMoves
<1>2. Command' = Command /\ (InStep' <=> InStep)
  <2>1. Command' = Command /\ (Passed' <=> Passed) /\ Marker' = Marker
    BY <1>1, SameCommand, Zenon
  <2> QED
    BY <1>1, <2>1, Zenon DEF InStep
<1>3. ASSUME InStep
      PROVE  Transit' \subseteq {Command}
  <2>1. pc = "true" /\ InFlight = 0
    BY <1>3, SendInStep, Zenon DEF InStep
  <2>2. Command \in Message
    BY <2>1, CommandType DEF IInv
  <2>3. Transit' \subseteq Transit \cup {Command}
    BY <1>1, <2>2, Transit_Updater, Zenon
  <2>4. Transit = {}
    BY <2>1, FewInFlight, Zenon
  <2> QED
    BY <2>3, <2>4, Zenon
<1>4. CurrentInv'
  <2>1. ASSUME InStep, NEW m \in Transit'
        PROVE  m.id = Command.id /\ m.img = Command.img
    BY <1>3, <2>1, Zenon
  <2> QED
    BY <1>2, <2>1, Zenon DEF CurrentInv
<1>5. FlashedInv'
  <2>1. Answers' = Answers
    BY <1>1 DEF Answers, Elems
  <2> QED
    BY <1>1, <1>2, <2>1, Zenon DEF FinishInv, FlashedInv
<1>6. DoneInv'
  BY <1>1, Zenon DEF FinishInv, DoneInv
<1> QED
  BY <1>4, <1>5, <1>6, Zenon DEF FinishInv

\* What was not in step passes the marker without a command behind it that
\* flashes: the marker comes first.
LEMMA FlashBehind ==
    ASSUME IInv, CleanInv, pc = "true", flow \in {"preboot", "postboot"},
           step' = step \/ step' = step + 1,
           NEW j \in 1..(step' - 1), Sequence[flow][j].id = "FLASH_IMAGE"
    PROVE  InStep /\ (j \in 1..(step - 1) \/ (j = step /\ step' = step + 1))
<1>1. step \in 1..Len(Sequence[flow]) /\ step \in Nat \ {0} /\ Len(Sequence[flow]) \in Nat
  BY CommandType DEF IInv, PlaceInv
<1>2. /\ j \in 1..Len(Sequence[flow])
      /\ j \in 1..(step - 1) \/ (j = step /\ step' = step + 1)
      /\ 1..(j - 1) \subseteq 1..(step - 1)
  BY <1>1
<1>3. "FLASH_IMAGE" \in Programs /\ flow \in AllFlows
  BY DEF Programs, AllFlows
<1>4. PICK i \in 1..(j - 1) : Sequence[flow][i].id = MarkerOf(flow)
  BY <1>2, <1>3, MarkerFirst, Zenon
<1>5. Passed
  BY <1>2, <1>4, Zenon DEF Passed, Marker
<1>6. flow # "gpt"
  OBVIOUS
<1>7. Marker \in stored
  BY <1>5, <1>6, Zenon DEF CleanInv, StepInv
<1> QED
  BY <1>2, <1>5, <1>7, Zenon DEF InStep

\* In step the answer that is read is that of the current command.  The boot
\* information of a post-reboot sequence is read as the last message in flight:
\* the acknowledgement is accepted by then.
LEMMA Finish_Read ==
    ASSUME IInv, IInv', CleanInv, CleanInv', AckInv, FinishInv,
           rtss_updater_cbk_notify_handler
    PROVE  FinishInv'
<1>1. /\ fpc = "wait" /\ mbok /\ NextCommand /\ rxq # <<>> /\ rxq' = Tail(rxq)
      /\ respStatus' = Head(rxq).status /\ stored' = Store(Head(rxq).id)
      /\ unanswered' <=> unanswered \/ Head(rxq).id = "corrupt"
      /\ UNCHANGED <<txq, rtss, req, pc, flow, mbok, restarts, flashed, otaDone>>
  BY DEF rtss_updater_cbk_notify_handler, rtssvars, faults, nor
<1>2. /\ pc = "true" /\ step \in Nat \ {0} /\ fpc' \in {"failed", "ok", "prepare"}
      /\ \/ fpc' # "prepare" /\ step' = step
         \/ fpc' = "prepare" /\ step' = step + 1
  BY <1>1, WaitEnds
<1>3. Head(rxq) \in Answers /\ Head(rxq) \in Transit
  BY <1>1, Transit_Updater, Zenon
<1>4. ASSUME InStep'
      PROVE  Transit' = {} /\ Answers' = {}
  <2>1. CASE fpc' # "failed"
    <3>1. InFlight' <= (IF fpc' \in {"wait", "failed"} THEN 1 ELSE 0)
      BY <1>1, <1>4, Zenon DEF CleanInv, StepInv, InStep
    <3>2. fpc' \notin {"wait", "failed"}
      BY <1>2, <2>1
    <3>3. InFlight' <= 0 /\ InFlight' \in Nat
      BY <3>1, <3>2, NextInFlight, Zenon
    <3>4. \A n \in Nat : n <= 0 => n = 0
      OBVIOUS
    <3> QED
      BY <3>3, <3>4, NextInFlight, Zenon
  <2>2. CASE fpc' = "failed"
    <3>1. step' = step /\ flow' = flow
      BY <1>1, <1>2, <2>2
    <3>2. Passed
      <4>1. Passed' <=> Passed
        BY <3>1, SameCommand, Zenon
      <4> QED
        BY <1>4, <4>1, Zenon DEF InStep
    <3>3. InStep
      <4>1. fpc \notin {"prepare", "send", "failed"}
        BY <1>1
      <4> QED
        BY <1>2, <3>2, <4>1, Zenon DEF CleanInv, StepInv, InStep
    <3>4. InFlight <= 1 /\ InFlight' = InFlight - 1 /\ InFlight \in Nat
      BY <1>1, <3>3, InStepFew, InFlightSteps, InFlightIs, Zenon DEF IInv
    <3>5. \A n \in Nat : n <= 1 /\ n - 1 \in Nat => n - 1 = 0
      OBVIOUS
    <3> QED
      BY <3>4, <3>5, NextInFlight, Zenon
  <2> QED
    BY <2>1, <2>2
<1>5. CurrentInv'
  BY <1>4, Zenon DEF CurrentInv
<1>6. ASSUME flow \in {"preboot", "postboot"}, ~unanswered',
             NEW j \in 1..(step' - 1), Sequence[flow][j].id = "FLASH_IMAGE"
      PROVE  Sequence[flow][j].img \in flashed
  <2>1. InStep /\ (j \in 1..(step - 1) \/ (j = step /\ fpc' = "prepare"))
    <3>1. step' = step \/ step' = step + 1
      BY <1>2
    <3>2. InStep /\ (j \in 1..(step - 1) \/ (j = step /\ step' = step + 1))
      BY <1>2, <1>6, <3>1, FlashBehind, Zenon
    <3>3. step + 1 # step
      BY <1>2
    <3> QED
      BY <1>2, <3>2, <3>3, Zenon
  <2>2. ~unanswered /\ Head(rxq).id # "corrupt"
    BY <1>1, <1>6, Zenon
  <2>3. CASE j \in 1..(step - 1)
    BY <1>6, <2>1, <2>2, <2>3, Zenon DEF FinishInv, FlashedInv
  <2>4. CASE j = step /\ fpc' = "prepare"
    <3>1. Command.id = "FLASH_IMAGE" /\ Command.img = Sequence[flow][j].img
      BY <1>6, <2>4, Zenon DEF Command
    <3>2. Head(rxq).id = "FLASH_IMAGE"
      BY <1>1, <1>3, <2>1, <2>2, <3>1, Zenon DEF FinishInv, CurrentInv
    <3>3. Head(rxq).status = "SUCCESS"
      <4>1. fpc' # "failed"
        BY <2>4
      <4> QED
        BY <1>1, <4>1, NextCommandChecks, Zenon
    <3>4. Command.img \in flashed
      BY <1>1, <1>3, <1>6, <2>1, <3>1, <3>2, <3>3, Zenon DEF FinishInv, FlashedInv
    <3> QED
      BY <3>1, <3>4, Zenon
  <2> QED
    BY <2>1, <2>3, <2>4
<1>7. FlashedInv'
  BY <1>1, <1>4, <1>6, Zenon DEF FlashedInv
<1>8. ASSUME restarts = 0, flow = "postboot", step' > 2, ~unanswered'
      PROVE  otaDone
  <2>1. ~unanswered
    BY <1>1, <1>8, Zenon
  <2>2. CASE step > 2
    BY <1>2, <1>8, <2>1, <2>2, Zenon DEF FinishInv, DoneInv
  <2>3. CASE ~(step > 2)
    <3>1. step = 2 /\ fpc' = "prepare"
      BY <1>2, <1>8, <2>3
    <3>2. Command.id = "GET_BOOTINFO" /\ Marker = "GET_BOOTINFO"
      <4>1. flow # "gpt"
        BY <1>8
      <4> QED
        BY <1>2, <1>8, <3>1, <4>1, PostbootBegins, Zenon DEF Marker, MarkerOf
    <3>3. ~Passed
      <4>1. 1..(step - 1) = {1}
        BY <3>1
      <4>2. Sequence["postboot"][1].id = "OTA_DONE"
        BY PostbootElements
      <4>3. Sequence[flow][1].id # Marker
        BY <1>8, <3>2, <4>2
      <4> QED
        BY <4>1, <4>3, Zenon DEF Passed
    <3>4. Marker \notin stored /\ OnlyLast(Marker)
      BY <1>1, <1>2, <3>2, <3>3, Zenon DEF CleanInv, MarkerInv
    <3>5. Head(rxq).id = Marker
      <4>1. fpc' # "failed"
        BY <3>1
      <4>2. "GET_BOOTINFO" \in stored'
        BY <1>1, <3>2, <4>1, NextCommandChecks, Zenon
      <4> QED
        BY <1>1, <3>2, <3>4, <4>2, Zenon DEF Store
    <3>6. rtss = "idle" /\ txq = <<>> /\ Tail(rxq) = <<>>
      <4>1. rxq \in Seq(Message)
        BY DEF IInv, ChannelInv
      <4>2. Head(rxq) \in Elems(rxq) /\ (Ends(rxq, Marker) => Tail(rxq) = <<>>)
        BY <1>1, <3>5, <4>1, QueueElements, QueueEnds, Zenon
      <4> QED
        BY <3>4, <3>5, <4>2, Zenon DEF OnlyLast
    <3>7. InFlight' = 0 /\ InFlight' = InFlight - 1 /\ InFlight \in Nat
      <4>1. rtss' = "idle" /\ txq' = <<>> /\ rxq' = <<>>
        BY <1>1, <3>6
      <4>2. InFlight' = 0
        BY <4>1 DEF InFlight
      <4> QED
        BY <4>2, InFlightSteps, InFlightIs DEF IInv
    <3>8. ~(InFlight >= 2)
      BY <3>7
    <3>9. otaDone \/ InFlight >= (IF fpc = "wait" THEN 2 ELSE 1)
      <4>1. fpc # "failed"
        BY <1>1
      <4> QED
        BY <1>2, <1>8, <2>1, <3>1, <4>1, Zenon DEF AckInv
    <3> QED
      BY <1>1, <3>8, <3>9, Zenon
  <2> QED
    BY <2>2, <2>3
<1>9. DoneInv'
  BY <1>1, <1>2, <1>8, Zenon DEF DoneInv
<1> QED
  BY <1>5, <1>7, <1>9, Zenon DEF FinishInv

\* No step of a process that found clean channels breaks the invariant.
LEMMA CommitInductive ==
    IInv /\ SeqInv /\ CommitInv /\ [Next]_vars => CommitInv'
<1> SUFFICES ASSUME IInv, SeqInv, CommitInv, [Next]_vars
             PROVE  CommitInv'
  OBVIOUS
<1>1. IInv' /\ SeqInv' /\ RestartInv' /\ RestartInv
  BY Inductive, SeqInductive, RestartInductive, Zenon DEF CommitInv
<1>2. ASSUME strays' = 0, ~Launch
      PROVE  strays = 0 /\ CleanInv /\ CleanInv' /\ AckInv /\ FinishInv
  <2>1. UNCHANGED vars => strays = 0
    BY <1>2 DEF vars, hsvars
  <2>2. strays = 0
    BY <1>2, <2>1, StraysStay, Zenon
  <2> QED
    BY <1>1, <1>2, <2>2, Zenon DEF SeqInv, CommitInv
<1>3. ASSUME strays' = 0
      PROVE  AckInv'
  BY <1>1, <1>2, <1>3, AckInductive, Zenon
<1>4. ASSUME strays' = 0
      PROVE  FinishInv'
  <2>1. CASE Handshake \/ Launch
    BY <2>1, Finish_Begin, Zenon
  <2>2. CASE UNCHANGED vars
    <3>1. FinishInv
      <4>1. strays = 0
        BY <1>4, <2>2 DEF vars, hsvars
      <4> QED
        BY <4>1, Zenon DEF CommitInv
    <3> QED
      BY <2>2, <3>1 DEF vars, hsvars, fvars, channels, rtssvars, resp, nor, faults, FinishInv,
         CurrentInv, FlashedInv, DoneInv, Transit, Answers, Elems, InStep, Marker, Passed, Command
  <2>3. CASE notify_handler_ReadFails
    <3>1. ~mbok' /\ unanswered' = TRUE
      <4>1. ~mbok /\ mbok' = mbok /\ unanswered' = TRUE
        BY <1>4, <2>3, ReadFailsMoves
      <4> QED
        BY <4>1
    <3> QED
      BY <3>1, Zenon DEF FinishInv, CurrentInv, FlashedInv, DoneInv
  <2>4. CASE (PrepareCommand \/ PrepareFails \/ LoadFileFails \/ SendCommand \/ SendCommandFails)
             /\ ~Launch
    <3>1. Prepares \/ Sends
      BY <2>4, Zenon DEF Prepares, Sends
    <3> QED
      BY <1>2, <1>4, <2>4, <3>1, Finish_Prepare, Finish_Send, Zenon
  <2>5. CASE (Rtss \/ rtss_updater_cbk_notify_handler) /\ ~Launch
    BY <1>1, <1>2, <1>4, <2>5, Finish_Rtss, Finish_Read, Zenon
  <2> QED
    BY <2>1, <2>2, <2>3, <2>4, <2>5, Zenon DEF Next, Updater
<1> QED
  BY <1>1, <1>3, <1>4, Zenon DEF CommitInv

\* Nothing is committed before the first sequence.
LEMMA CommitInitially == Init => CommitInv
<1> SUFFICES ASSUME Init PROVE CommitInv
  OBVIOUS
<1>1. Transit = {} /\ Answers = {}
  BY DEF Init, HandshakeInit, Transit, Answers, Elems
<1>2. pc # "true" /\ restarts = 0 /\ mbok = TRUE
  BY DEF Init, HandshakeInit
<1>3. restarts \in Nat
  BY <1>2
<1> QED
  BY <1>1, <1>2, <1>3, Zenon
     DEF CommitInv, RestartInv, AckInv, FinishInv, CurrentInv, FlashedInv, DoneInv, InStep

\* The command that RTSS commits with is the current one of a sequence in
\* step: the images are flashed, and the new boot acknowledged.
LEMMA CommitsInStep ==
    ASSUME IInv, IInv', CleanInv, CommitInv, strays = 0, ~unanswered,
           NEW st \in Status, ExecuteRequest(st),
           req.id \in {"UPDATE_GPT", "REDUNDANCY_ESTABLISHED"}
    PROVE  /\ flashed = Images
           /\ req.id = "REDUNDANCY_ESTABLISHED" /\ restarts = 0 => otaDone
<1>1. rtss = "work" /\ mbok
  BY DEF ExecuteRequest, RtssExecute
<1>2. req \in Transit
  BY <1>1 DEF Transit
<1>3. InStep
  <2>1. req.id \in Programs
    BY DEF Programs
  <2> QED
    BY <1>2, <2>1, Zenon DEF CleanInv, ProgramsInv, Nowhere
<1>4. FinishInv
  BY Zenon DEF CommitInv
<1>5. Command.id = req.id
  <2>1. req.id # "corrupt"
    OBVIOUS
  <2> QED
    BY <1>1, <1>2, <1>3, <1>4, <2>1, Zenon DEF FinishInv, CurrentInv
<1>6. pc = "true" /\ flow \in AllFlows /\ step \in 1..Len(Sequence[flow])
  <2>1. pc = "true"
    BY <1>3, Zenon DEF InStep
  <2> QED
    BY <2>1, FlowAssumption DEF IInv, PlaceInv
<1>7. /\ flow \in {"preboot", "postboot"}
      /\ req.id = "REDUNDANCY_ESTABLISHED" => flow = "postboot" /\ step > 2
      /\ \A k \in Images : \E j \in 1..(step - 1) :
             Sequence[flow][j].id = "FLASH_IMAGE" /\ Sequence[flow][j].img = k
  <2>1. /\ Sequence[flow][step].id = req.id
        /\ Sequence[flow][step].id \in {"UPDATE_GPT", "REDUNDANCY_ESTABLISHED"}
    BY <1>5 DEF Command
  <2>2. /\ flow \in {"preboot", "postboot"}
        /\ Sequence[flow][step].id = "REDUNDANCY_ESTABLISHED" => flow = "postboot" /\ step > 2
        /\ \A k \in Images : \E j \in 1..(step - 1) :
               Sequence[flow][j].id = "FLASH_IMAGE" /\ Sequence[flow][j].img = k
    BY <1>6, <2>1, CommitLast
  <2> QED
    BY <2>1, <2>2, Zenon
<1>8. Images \subseteq flashed
  BY <1>3, <1>4, <1>7, Zenon DEF FinishInv, FlashedInv
<1>9. flashed \subseteq Images
  BY DEF IInv, OutcomeInv
<1>10. req.id = "REDUNDANCY_ESTABLISHED" /\ restarts = 0 => otaDone
  BY <1>4, <1>6, <1>7, Zenon DEF FinishInv, DoneInv
<1> QED
  BY <1>8, <1>9, <1>10

\* RTSS is told to switch to the new images, or that they are mirrored, only
\* when all of them are flashed and the new boot is acknowledged, although an
\* image is erased when its FLASH_IMAGE is taken and answers are not compared
\* with commands.
THEOREM CommittedAreFlashed == Spec => CommitAfterFlash
<1> DEFINE Committed(st) ==
             /\ ExecuteRequest(st)
             /\ req.id \in {"UPDATE_GPT", "REDUNDANCY_ESTABLISHED"}
             /\ strays = 0 /\ ~unanswered
             => /\ flashed = Images
                /\ req.id = "REDUNDANCY_ESTABLISHED" /\ restarts = 0 => otaDone
<1>1. Init => IInv /\ SeqInv /\ CommitInv
  BY Initially, SeqInitially, CommitInitially
<1>2. IInv /\ SeqInv /\ CommitInv /\ [Next]_vars => (IInv /\ SeqInv /\ CommitInv)'
  BY Inductive, SeqInductive, CommitInductive
<1>3. IInv /\ SeqInv /\ CommitInv /\ [Next]_vars => [\A st \in Status : Committed(st)]_vars
  <2> SUFFICES ASSUME IInv, SeqInv, CommitInv, [Next]_vars, NEW st \in Status
               PROVE  Committed(st)
    BY Zenon
  <2>1. IInv'
    BY Inductive
  <2>2. strays = 0 => CleanInv
    BY Zenon DEF SeqInv
  <2> QED
    BY <2>1, <2>2, CommitsInStep, Zenon
<1> QED
  BY <1>1, <1>2, <1>3, PTL DEF Spec, CommitAfterFlash
=============================================================================
