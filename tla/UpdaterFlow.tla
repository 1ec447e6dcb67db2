----------------------------- MODULE UpdaterFlow -----------------------------
(***************************************************************************)
(* The command sequences of the updater, apps/rtss-updater/demo/src:       *)
(* pre-reboot, post-reboot, flasher and GPT update.  Each is a list of     *)
(* commands run one at a time: prepare the OTA buffer, send the request,   *)
(* wait for an answer, test its status.                                    *)
(*                                                                         *)
(* Composes UpdHandshake: the commands use the channels in the state the   *)
(* handshake leaves them in, and the process may be killed and launched    *)
(* again at any point while RTSS goes on with what it was sent.            *)
(***************************************************************************)
EXTENDS UpdHandshake

CONSTANTS Flows,       \* the sequences that are run
          Boots,       \* the ways RTSS may have booted
          NImages,     \* images of the configuration file
          Faults,      \* what goes wrong: "restart" of RTSS, "corrupt" answer,
                       \* "read" of an answer that fails
          MaxFaults    \* bound on these and the sends that fail, together

\* All images from partition A through the primary GPT; some from B; some
\* with no valid partition; some through the secondary GPT; a damaged GPT.
BootStates == {"A", "B", "unset", "secondary", "damaged"}

AllFlows == {"preboot", "postboot", "ackstate", "flasher", "bank", "single", "gpt"}

ASSUME FlowAssumption ==
    /\ Flows \subseteq AllFlows
    /\ Boots \subseteq BootStates
    /\ NImages \in Nat \ {0}
    /\ Faults \subseteq {"restart", "corrupt", "read"}
    /\ MaxFaults \in Nat

Images == 1..NImages

VARIABLES
    flow,        \* the sequence this process runs, "any" until it begins
    fpc,         \* "off", "prepare", "send", "wait", "ok", "failed" or "dead"
    step,        \* the command being run
    respStatus,  \* rtss_updater_hndshk.respStatus
    stored,      \* the answers whose data rtss_updater_hndshk holds
    entries,     \* the image entries in the OTA buffer: "zero" as the updater
                 \* leaves them, "boot" as RTSS fills them, or "other" data
    mbok,        \* RTSS is up: its mailbox descriptor is valid
    boot,        \* how RTSS booted, "any" until it is asked
    rebooted,    \* RTSS went down after this process had read how it booted
                 \* (history)
    flashed,     \* images whose last FLASH_IMAGE succeeded
    otaDone,     \* RTSS has accepted OTA_DONE
    unanswered,  \* a command passed without a whole answer (history)
    restarts,    \* restarts of RTSS
    spoilt       \* answers that were corrupted or could not be read

resp  == <<respStatus, stored>>
nor   == <<boot, rebooted, flashed, otaDone>>
faults == <<restarts, spoilt>>
fvars == <<flow, fpc, step, resp, entries, mbok, nor, unanswered, faults>>
vars  == <<hsvars, fvars>>

-----------------------------------------------------------------------------
(***************************************************************************)
(* The commands (rtss_updater_cmd.c)                                       *)
(***************************************************************************)
rtss_updater_chkgpt                 == Msg("CHECK_GPT", 0, "SUCCESS")
rtss_updater_readgpt                == Msg("READ_GPT", 0, "SUCCESS")
rtss_updater_writegpt               == Msg("WRITE_GPT", 0, "SUCCESS")
rtss_updater_fixgpt                 == Msg("FIX_GPT", 0, "SUCCESS")
rtss_updater_updategpt              == Msg("UPDATE_GPT", 0, "SUCCESS")
rtss_updater_get_metadata_info      == Msg("GET_OTA_METADATAINFO", 0, "SUCCESS")
rtss_updater_get_metadata           == Msg("GET_OTA_METADATA", 0, "SUCCESS")
rtss_updater_set_metadata           == Msg("SET_OTA_METADATA", 0, "SUCCESS")
rtss_updater_get_bl_info            == Msg("GET_BOOTINFO", 0, "SUCCESS")
rtss_updater_flashimg(i)            == Msg("FLASH_IMAGE", i, "SUCCESS")
rtss_updater_readimg(i)             == Msg("READ_IMAGE", i, "SUCCESS")
rtss_updater_update_ota_done_state  == Msg("OTA_DONE", 0, "SUCCESS")
rtss_updater_redundancy_established == Msg("REDUNDANCY_ESTABLISHED", 0, "SUCCESS")
rtss_updater_update_arb             == Msg("UPDATE_ARB", 0, "SUCCESS")

\* Commands that change what RTSS keeps in its flash.
Programs == {"FLASH_IMAGE", "UPDATE_GPT", "WRITE_GPT", "FIX_GPT",
             "SET_OTA_METADATA", "REDUNDANCY_ESTABLISHED", "UPDATE_ARB"}

\* Commands whose payload RTSS takes from the OTA buffer.
ReadsBuffer == {"FLASH_IMAGE", "UPDATE_GPT", "WRITE_GPT", "SET_OTA_METADATA"}

-----------------------------------------------------------------------------
(***************************************************************************)
(* The sequences (rtss_updater.c)                                          *)
(***************************************************************************)
rtss_updater_preboot_demosequence ==
    <<rtss_updater_chkgpt, rtss_updater_get_metadata_info,
      rtss_updater_get_metadata, rtss_updater_get_bl_info>>
    \o [i \in Images |-> rtss_updater_flashimg(i)]
    \o <<rtss_updater_updategpt>>

\* Each image is read from partition A and flashed to partition B.
rtss_updater_postboot_demosequence ==
    <<rtss_updater_update_ota_done_state, rtss_updater_get_bl_info,
      rtss_updater_chkgpt>>
    \o [k \in 1 .. 2 * NImages |-> IF k % 2 = 1
                                   THEN rtss_updater_readimg((k + 1) \div 2)
                                   ELSE rtss_updater_flashimg(k \div 2)]
    \o <<rtss_updater_fixgpt, rtss_updater_redundancy_established,
         rtss_updater_get_metadata_info, rtss_updater_set_metadata,
         rtss_updater_update_arb>>

\* n images to each of the banks, one bank after the other.
rtss_updater_devprog_flasher(banks, n) ==
    <<rtss_updater_chkgpt, rtss_updater_get_metadata_info,
      rtss_updater_get_metadata, rtss_updater_get_bl_info>>
    \o [k \in 1 .. banks * n |-> rtss_updater_flashimg(1 + ((k - 1) % n))]

rtss_updater_image_update_gpt ==
    <<rtss_updater_chkgpt, rtss_updater_readgpt, rtss_updater_writegpt,
      rtss_updater_fixgpt>>

\* The choice main makes from the command line: -r 0, -r 1, -r 1 --ackstate,
\* -r 2, -r 2 -p, -r 2 -f and -g.
Sequence ==
    [f \in AllFlows |->
        CASE f = "preboot"  -> rtss_updater_preboot_demosequence
          [] f = "postboot" -> rtss_updater_postboot_demosequence
          [] f = "ackstate" -> <<rtss_updater_update_ota_done_state>>
          [] f = "flasher"  -> rtss_updater_devprog_flasher(2, NImages)
          [] f = "bank"     -> rtss_updater_devprog_flasher(1, NImages)
          [] f = "single"   -> rtss_updater_devprog_flasher(2, 1)
          [] f = "gpt"      -> rtss_updater_image_update_gpt]

\* The slots of the rings hold requests and answers of the handshake and of
\* the sequences.
ASSUME OldAssumption ==
    \A m \in OldMessages : \E st \in Status :
        \/ m \in {[HELLO EXCEPT !.status = st], Msg("corrupt", 0, st)}
        \/ \E f \in AllFlows : \E k \in DOMAIN Sequence[f] :
              m = [Sequence[f][k] EXCEPT !.status = st]

Command == Sequence[flow][step]

\* The file is loaded from the file system (rtss_updater_loadfile).
LoadsFile == Command.id = "FLASH_IMAGE" /\ flow # "postboot"

\* Preparing the command writes the OTA buffer: rtss_updater_mset, the
\* populate_..._context functions, rtss_updater_loadfile, the copy of
\* rtss_updater_writegpt.
FillsBuffer ==
    \/ Command.id \in {"GET_OTA_METADATA", "GET_BOOTINFO", "UPDATE_GPT",
                       "READ_GPT", "WRITE_GPT"}
    \/ LoadsFile

-----------------------------------------------------------------------------
Init ==
    /\ HandshakeInit
    /\ flow = "any"
    /\ fpc = "off" /\ step = 1
    /\ respStatus = "SUCCESS" /\ stored = {}
    /\ entries = "other"
    /\ mbok = TRUE
    /\ boot = "any" /\ rebooted = FALSE
    /\ flashed = {} /\ otaDone = FALSE
    /\ unanswered = FALSE
    /\ restarts = 0 /\ spoilt = 0

\* RTSS has flashed what is left when it has taken request r: flashing an
\* image begins by erasing it.
Erased(r) == IF r.id = "FLASH_IMAGE" THEN flashed \ {r.img} ELSE flashed

\* rtss_updater_mem_ctx_init: the handshake, then the sequence.  A reset may
\* have RTSS take a request in the same step.
Handshake ==
    /\ mbok
    /\ Ping
    /\ sendErrors' + restarts + spoilt <= MaxFaults
    /\ fpc' = CASE pc' = "true"  -> "prepare"
              [] pc' = "false" -> "failed"
              [] OTHER         -> "off"
    /\ IF pc' = "true" THEN flow' \in Flows ELSE UNCHANGED flow
    /\ flashed' = IF rtss = "idle" /\ rtss' = "work" THEN Erased(req') ELSE flashed
    /\ UNCHANGED <<step, resp, entries, mbok, boot, rebooted, otaDone, unanswered, faults>>

Stay == UNCHANGED <<hsvars, flow, mbok, nor, faults>>

PrepareCommand ==
    /\ fpc = "prepare"
    /\ fpc' = "send"
    /\ entries' = IF ~FillsBuffer THEN entries
                  ELSE IF Command.id = "GET_BOOTINFO" THEN "zero" ELSE "other"
    /\ Stay
    /\ UNCHANGED <<step, resp, unanswered>>

\* An image without a name, an empty image, a GPT file that cannot be read or
\* is too short: the sequence gives up.
PrepareFails ==
    /\ fpc = "prepare"
    /\ Command.id \in {"GET_BOOTINFO", "UPDATE_GPT", "WRITE_GPT"} \/ LoadsFile
    /\ fpc' = "failed"
    /\ entries' = "other"
    /\ Stay
    /\ UNCHANGED <<step, resp, unanswered>>

\* rtss_updater_loadfile returns -1, which the unsigned bufLen keeps as
\* 2^32 - 1: the test bufLen <= 0 does not see it, and the CRC that
\* rtss_updater_flashimg takes runs off the end of the OTA buffer.
LoadFileFails ==
    /\ fpc = "prepare"
    /\ LoadsFile
    /\ fpc' = "dead"
    /\ Stay
    /\ UNCHANGED <<step, resp, entries, unanswered>>

\* Mutant: a payload of length 0 has a CRC like any other.
EmptyPayload_Allowed == FALSE

\* rtss_crc32_generate refuses a payload of length 0, which is what each of
\* these lengths is until the answer that brings it has been read.
EmptyPayload ==
    \/ Command.id = "READ_GPT" /\ "CHECK_GPT" \notin stored
    \/ Command.id = "SET_OTA_METADATA" /\ "GET_OTA_METADATAINFO" \notin stored
    \/ Command.id = "FLASH_IMAGE" /\ flow = "postboot" /\ "READ_IMAGE" \notin stored

\* Mutant: the message is dropped and the send reported as a success.
SendCommand_Dropped ==
    /\ fpc = "send"
    /\ mbok
    /\ ~EmptyPayload
    /\ fpc' = "wait"
    /\ UNCHANGED <<hsvars, flow, step, resp, entries, mbok, nor, unanswered,
                   faults>>

\* The CRCs of the payload and of the header, and rtss_upd_send_msg.
SendCommand ==
    /\ fpc = "send"
    /\ mbok
    /\ ~EmptyPayload
    /\ Len(txq) < Capacity
    /\ txq' = Append(txq, Command)
    /\ fpc' = "wait"
    /\ UNCHANGED <<rxq, rtssvars, pc, libstate, counters, strays,
                   runs, sendErrors, flow, step, resp, entries, mbok, nor,
                   unanswered, faults>>

\* One more fault of a kind that is bounded.
MayFail(f) == f \in Faults /\ sendErrors + restarts + spoilt < MaxFaults

\* The message is not sent, or it is in the ring when the interrupt fails.
SendCommandFails ==
    /\ fpc = "send"
    /\ \/ /\ ~mbok \/ EmptyPayload \/ Len(txq) = Capacity
          /\ UNCHANGED <<txq, sendErrors>>
       \/ /\ mbok /\ ~EmptyPayload /\ Len(txq) < Capacity
          /\ sendErrors < MaxSendErrors
          /\ sendErrors + restarts + spoilt < MaxFaults
          /\ txq' = Append(txq, Command)
          /\ sendErrors' = sendErrors + 1
    /\ fpc' = "failed"
    /\ UNCHANGED <<rxq, rtssvars, pc, libstate, counters, strays, runs, flow,
                   step, resp, entries, mbok, nor, unanswered, faults>>

\* Mutant: the partitions the images booted from are not looked at.
validate_boot_info_AnyPartition ==
    {"GET_BOOTINFO" \in stored' /\ boot # "damaged"}

\* rtss_updater_get_bl_info_context, rtss_updater_get_bl_partition_status and
\* rtss_updater_validate_boot_info: there is a boot information answer, its
\* four GPT checksums are right, and no image entry in the OTA buffer says
\* partition B.  Either verdict may come of other data in the entries.
rtss_updater_validate_boot_info ==
    IF "GET_BOOTINFO" \notin stored' \/ boot = "damaged"
    THEN {FALSE}
    ELSE CASE entries = "zero"  -> {TRUE}
           [] entries = "boot"  -> {boot # "B"}
           [] entries = "other" -> BOOLEAN

\* Mutant: the sequence does not stop after its last command.
NextCommand_NoEnd ==
    IF respStatus' # "SUCCESS"
    THEN fpc' = "failed" /\ UNCHANGED step
    ELSE fpc' = "prepare" /\ step' = step + 1

\* The test of respStatus, and the next command of the sequence.
NextCommand ==
    \E ok \in IF Command.id = "GET_BOOTINFO" THEN rtss_updater_validate_boot_info
              ELSE {TRUE} :
        IF respStatus' # "SUCCESS" \/ ~ok
        THEN fpc' = "failed" /\ UNCHANGED step
        ELSE IF step = Len(Sequence[flow])
        THEN fpc' = "ok" /\ UNCHANGED step
        ELSE fpc' = "prepare" /\ step' = step + 1

\* The switch on msgId, for the answers whose data a sequence uses.
Store(id) ==
    IF id \in {"CHECK_GPT", "GET_OTA_METADATAINFO", "GET_BOOTINFO", "READ_IMAGE"}
    THEN stored \cup {id} ELSE stored

\* Mutant: the status of the answer is not kept.
notify_IgnoresStatus ==
    /\ fpc = "wait"
    /\ mbok
    /\ rxq # <<>>
    /\ rxq' = Tail(rxq)
    /\ stored' = Store(Head(rxq).id)
    /\ unanswered' = (unanswered \/ Head(rxq).id = "corrupt")
    /\ UNCHANGED respStatus
    /\ NextCommand
    /\ UNCHANGED <<txq, rtssvars, pc, libstate, counters, strays,
                   runs, sendErrors, flow, entries, mbok, nor, faults>>

\* Mutant: the handler does not wait for an answer.
notify_NoWait ==
    /\ fpc = "wait"
    /\ mbok
    /\ rxq' = IF rxq = <<>> THEN rxq ELSE Tail(rxq)
    /\ stored' = IF rxq = <<>> THEN stored ELSE Store(Head(rxq).id)
    /\ UNCHANGED respStatus
    /\ NextCommand
    /\ UNCHANGED <<txq, rtssvars, pc, libstate, counters, strays,
                   runs, sendErrors, flow, entries, mbok, nor, unanswered,
                   faults>>

\* Blocks until there is an answer, and takes it whichever command it answers.
\* The status is kept before the CRC of the answer is verified: of a corrupted
\* answer only the data is not used.
rtss_updater_cbk_notify_handler ==
    /\ fpc = "wait"
    /\ mbok
    /\ rxq # <<>>
    /\ rxq' = Tail(rxq)
    /\ respStatus' = Head(rxq).status
    /\ stored' = Store(Head(rxq).id)
    /\ unanswered' = (unanswered \/ Head(rxq).id = "corrupt")
    /\ NextCommand
    /\ UNCHANGED <<txq, rtssvars, pc, libstate, counters, strays,
                   runs, sendErrors, flow, entries, mbok, nor, faults>>

\* The read fails because RTSS is down, or for a fault of its own that leaves
\* the answer to come: the handler returns and respStatus is what the last
\* answer left there.
notify_handler_ReadFails ==
    /\ fpc = "wait"
    /\ \/ ~mbok /\ UNCHANGED <<strays, spoilt>>
       \/ mbok /\ MayFail("read") /\ strays' = strays + 1 /\ spoilt' = spoilt + 1
    /\ UNCHANGED resp
    /\ NextCommand
    /\ unanswered' = TRUE
    /\ UNCHANGED <<channels, rtssvars, pc, libstate, counters, runs, sendErrors,
                   flow, entries, mbok, nor, restarts>>

\* The process ends, or is killed, and is launched again.
Launch ==
    /\ mbok
    /\ Relaunch
    /\ flow' = "any"
    /\ fpc' = "off"
    /\ step' = 1
    /\ respStatus' = "SUCCESS" /\ stored' = {}
    /\ unanswered' = FALSE /\ rebooted' = FALSE
    /\ UNCHANGED <<entries, mbok, boot, flashed, otaDone, faults>>

-----------------------------------------------------------------------------
(***************************************************************************)
(* RTSS                                                                    *)
(***************************************************************************)
TakeRequest ==
    /\ mbok
    /\ RtssTake
    /\ flashed' = Erased(req')
    /\ UNCHANGED <<flow, fpc, step, resp, entries, mbok, boot, rebooted, otaDone,
                   unanswered, faults>>

ExecuteRequest(st) ==
    /\ mbok
    /\ RtssExecute(st)
    /\ flashed' = IF req.id = "FLASH_IMAGE" /\ st = "SUCCESS"
                  THEN flashed \cup {req.img} ELSE flashed
    /\ otaDone' = (otaDone \/ (req.id = "OTA_DONE" /\ st = "SUCCESS"))
    /\ entries' = CASE req.id = "GET_BOOTINFO" /\ st = "SUCCESS" -> "boot"
                    [] req.id \in {"GET_OTA_METADATA", "READ_GPT", "READ_IMAGE", "FIX_GPT",
                                   "UPDATE_GPT"} -> "other"
                    [] OTHER -> entries
    /\ IF req.id = "GET_BOOTINFO" /\ boot = "any" THEN boot' \in Boots ELSE UNCHANGED boot
    /\ UNCHANGED <<flow, fpc, step, resp, mbok, rebooted, unanswered, faults>>

PublishAnswer ==
    /\ mbok
    /\ RtssPublish
    /\ UNCHANGED fvars

\* The answer is corrupted on its way; any status may be what it shows.
CorruptAnswer(st) ==
    /\ mbok
    /\ rtss = "write"
    /\ MayFail("corrupt")
    /\ spoilt' = spoilt + 1
    /\ rxq' = Append(rxq, Msg("corrupt", 0, st))
    /\ rtss' = "idle" /\ req' = NoMsg
    /\ UNCHANGED <<txq, pc, libstate, counters, strays, runs, sendErrors,
                   flow, fpc, step, resp, entries, mbok, nor, unanswered, restarts>>

\* RTSS restarts while a sequence is running, and creates its mailbox anew: how
\* it booted is another question then.
RtssDown ==
    /\ mbok
    /\ pc = "true"
    /\ MayFail("restart")
    /\ restarts' = restarts + 1
    /\ mbok' = FALSE
    /\ rebooted' = (rebooted \/ "GET_BOOTINFO" \in stored)
    /\ UNCHANGED <<spoilt, hsvars, flow, fpc, step, resp, entries, boot, flashed,
                   otaDone, unanswered>>

RtssUp ==
    /\ ~mbok
    /\ mbok' = TRUE
    /\ txq' = <<>> /\ rxq' = <<>>
    /\ rtss' = "idle" /\ req' = NoMsg
    /\ boot' = "any"
    /\ UNCHANGED <<pc, libstate, counters, strays, runs,
                   sendErrors, flow, fpc, step, resp, entries, rebooted, flashed,
                   otaDone, unanswered, faults>>

-----------------------------------------------------------------------------
Updater ==
    \/ Handshake
    \/ PrepareCommand
    \/ PrepareFails
    \/ LoadFileFails
    \/ SendCommand
    \/ SendCommandFails
    \/ rtss_updater_cbk_notify_handler
    \/ notify_handler_ReadFails
    \/ Launch

Rtss ==
    \/ TakeRequest
    \/ \E st \in Status : ExecuteRequest(st)
    \/ PublishAnswer
    \/ \E st \in Status : CorruptAnswer(st)
    \/ RtssDown
    \/ RtssUp

Next == Updater \/ Rtss

Spec == Init /\ [][Next]_vars

\* The process is scheduled; nobody needs to kill, restart or launch anything,
\* nor RTSS to answer.
UpdaterStep ==
    \/ Handshake
    \/ PrepareCommand
    \/ SendCommand
    \/ SendCommandFails
    \/ rtss_updater_cbk_notify_handler
    \/ notify_handler_ReadFails

RtssStep ==
    \/ TakeRequest
    \/ \E st \in Status : ExecuteRequest(st)
    \/ PublishAnswer

FairSpec == Spec /\ WF_vars(UpdaterStep)

-----------------------------------------------------------------------------
\* The sequence never runs past its last command and the rings never overflow.
TypeOK ==
    /\ pc \in {"start", "ping", "recovery", "reset_rx", "reset_both", "true", "false"}
    /\ fpc \in {"off", "prepare", "send", "wait", "ok", "failed", "dead"}
    /\ Len(txq) <= Capacity /\ Len(rxq) <= Capacity
    /\ pc = "true" => flow \in Flows /\ step \in 1..Len(Sequence[flow])
    /\ respStatus \in Status
    /\ entries \in {"zero", "boot", "other"}
    /\ flashed \subseteq Images

\* The handshake leaves behind at most the messages it found and one for each
\* error it counted, and the sequence adds none to them but the command it is
\* waiting on, or the one whose send it was told had failed: without an error,
\* in clean channels, every answer that rtss_updater_cbk_notify_handler reads
\* is the current command's own.
LeftoversCounted ==
    pc = "true" /\ mbok =>
        InFlight <= strays + ping_err_cnt + (IF fpc \in {"wait", "failed"} THEN 1 ELSE 0)

\* A command reaches RTSS, whether or not its send is reported as failed.
Sends ==
    \/ SendCommand
    \/ SendCommandFails /\ txq' # txq

\* A process that found clean channels sends no command that programs the
\* flash while any answer is outstanding, whatever surplus HELLO answers its
\* own handshake left behind.  The answers carry no number and are not
\* compared with the command (rtss_updater_cbk_notify_handler), but a
\* sequence that is reading surplus answers always fails the boot information
\* check or the CRC of an empty GPT before it gets that far.
ProgramsInStep ==
    [][Sends /\ strays = 0 /\ Command.id \in Programs => InFlight = 0]_vars

\* The OTA buffer is not refilled while RTSS may still take the payload of an
\* earlier command from it, unless that command was left by another process.
BufferStable ==
    [][PrepareCommand /\ FillsBuffer /\ strays = 0 /\ mbok =>
          /\ rtss = "idle" \/ req.id \notin ReadsBuffer
          /\ \A k \in DOMAIN txq : txq[k].id \notin ReadsBuffer]_vars

\* RTSS is told to switch to the new images, or that they are mirrored, only
\* when every one of them is flashed and, in the second case, the new boot is
\* acknowledged: by a process that found clean channels and read a whole answer
\* to each of its commands.  (A restart of RTSS can drop the OTA_DONE for which a
\* surplus HELLO answer was read.)
CommitAfterFlash ==
    [][\A st \in Status :
          /\ ExecuteRequest(st)
          /\ req.id \in {"UPDATE_GPT", "REDUNDANCY_ESTABLISHED"}
          /\ strays = 0 /\ ~unanswered
          => /\ flashed = Images
             /\ req.id = "REDUNDANCY_ESTABLISHED" /\ restarts = 0 => otaDone]_vars

\* A process that found clean channels flashes no image on a system that
\* booted from partition B or has a damaged GPT, or was not asked how it
\* booted: unless RTSS went down after it had told how.  The boot is looked at
\* once and nothing tells the updater of a restart, so that the images are
\* flashed however RTSS came up again.
NoFlashFromB ==
    [][Sends /\ strays = 0 /\ ~rebooted /\ Command.id = "FLASH_IMAGE"
       => boot \notin {"any", "B", "damaged"}]_vars

\* A sequence comes to its end, reading own or surplus answers, as long as
\* RTSS answers and does not restart: the unbounded read of
\* rtss_updater_cbk_notify_handler never waits for an answer to a command
\* that was not sent.
SequenceEnds ==
    WF_vars(RtssStep) =>
        (pc = "true" ~> fpc \in {"ok", "failed", "dead"} \/ restarts > 0)

\* What rtss_updater.c:668 reports after each FLASH_IMAGE, "rtss response:ok":
\* RTSS has flashed the image.
OkMeansFlashed ==
    [][fpc = "wait" /\ Command.id = "FLASH_IMAGE" /\ fpc' \in {"prepare", "ok"}
       => Command.img \in flashed]_vars
=============================================================================
