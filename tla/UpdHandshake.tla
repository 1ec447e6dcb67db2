---------------------------- MODULE UpdHandshake ----------------------------
(***************************************************************************)
(* The boot handshake of the update library: rtss_upd_is_ready,            *)
(* rtss_upd_hello_ping and rtss_upd_verify_handshake of                    *)
(* apps/rtss-updater/lib/rtss_update/src/rtss_update_lib.c, against an     *)
(* RTSS that answers as slowly as it likes.                                *)
(*                                                                         *)
(* The two channels are the queues that MailboxRing implements.  They live *)
(* in shared memory and outlast the process: a process killed at any point *)
(* leaves its requests and their answers to the next one.  No message has  *)
(* a sequence number, so that one HELLO answer is like another.            *)
(***************************************************************************)
EXTENDS Integers, Sequences

CONSTANTS RTSS_UPD_PING_RETRY_CNT,  \* good pings in a row that make a handshake
          RTSS_UPD_PING_ERR_CNT,    \* errors after which it is given up
          Capacity,                 \* messages a channel holds
          MaxRuns,                  \* bound on the processes ever started
          MaxSendErrors,            \* bound on the sends that fail
          OldMessages,              \* what the slots of the rings hold from before
          MaxReplay                 \* bound on the slots that come back at once

ASSUME HandshakeAssumption ==
    /\ RTSS_UPD_PING_RETRY_CNT \in Nat \ {0}
    /\ RTSS_UPD_PING_ERR_CNT \in Nat
    /\ Capacity \in Nat \ {0}
    /\ MaxRuns \in Nat \ {0}
    /\ MaxSendErrors \in Nat
    /\ MaxReplay \in 0..Capacity

Status == {"SUCCESS", "FAIL"}

Msg(id, img, st) == [id |-> id, img |-> img, status |-> st]
HELLO == Msg("HELLO", 0, "SUCCESS")
NoMsg == Msg("none", 0, "SUCCESS")

VARIABLES
    txq,            \* requests RTSS has not taken
    rxq,            \* answers the updater has not read
    rtss,           \* RTSS: "idle", "work" on a request, or "write" its answer
    req,            \* RTSS: the request taken, then its answer
    pc,             \* "start", a label of rtss_upd_hello_ping, "true", "false"
    libstate,       \* the library's state in this process
    ping_retry_cnt, \* pings since the last error
    ping_err_cnt,   \* errors
    strays,         \* messages in flight when the process started, or brought
                    \* back by a reset in the middle of a step of RTSS (history)
    runs,           \* processes started
    sendErrors      \* sends that failed

channels == <<txq, rxq>>
rtssvars == <<rtss, req>>
counters == <<ping_retry_cnt, ping_err_cnt>>
hsvars == <<channels, rtssvars, pc, libstate, counters, strays,
            runs, sendErrors>>

InFlight == Len(txq) + Len(rxq) + (IF rtss = "idle" THEN 0 ELSE 1)

HandshakeInit ==
    /\ txq = <<>> /\ rxq = <<>>
    /\ rtss = "idle" /\ req = NoMsg
    /\ pc = "start" /\ libstate = "DEINIT"
    /\ ping_retry_cnt = 0 /\ ping_err_cnt = 0
    /\ strays = 0
    /\ runs = 1 /\ sendErrors = 0

-----------------------------------------------------------------------------
(***************************************************************************)
(* RTSS: takes the requests in order and answers each of them.             *)
(***************************************************************************)
RtssTake ==
    /\ rtss = "idle"
    /\ txq # <<>>
    /\ req' = Head(txq)
    /\ txq' = Tail(txq)
    /\ rtss' = "work"
    /\ UNCHANGED <<rxq, pc, libstate, counters, strays, runs,
                   sendErrors>>

RtssExecute(st) ==
    /\ rtss = "work"
    /\ Len(rxq) < Capacity
    /\ req' = [req EXCEPT !.status = st]
    /\ rtss' = "write"
    /\ UNCHANGED <<channels, pc, libstate, counters, strays, runs,
                   sendErrors>>

RtssPublish ==
    /\ rtss = "write"
    /\ rxq' = Append(rxq, req)
    /\ req' = NoMsg
    /\ rtss' = "idle"
    /\ UNCHANGED <<txq, pc, libstate, counters, strays, runs,
                   sendErrors>>

-----------------------------------------------------------------------------
(***************************************************************************)
(* rtss_upd_is_ready and rtss_upd_hello_ping                               *)
(***************************************************************************)
rtss_upd_is_ready ==
    /\ pc = "start"
    /\ pc' = IF libstate = "DEINIT" THEN "ping" ELSE "false"
    /\ UNCHANGED <<channels, rtssvars, libstate, counters, strays,
                   runs, sendErrors>>

\* The label rtss_upd_ping: give up, or send a HELLO (rtss_upd_send_msg).
Ping_GiveUp ==
    /\ pc = "ping"
    /\ ping_err_cnt > RTSS_UPD_PING_ERR_CNT
    /\ pc' = "false"
    /\ UNCHANGED <<channels, rtssvars, libstate, counters, strays,
                   runs, sendErrors>>

Ping_Send ==
    /\ pc = "ping"
    /\ ping_err_cnt <= RTSS_UPD_PING_ERR_CNT
    /\ Len(txq) < Capacity
    /\ txq' = Append(txq, HELLO)
    /\ ping_retry_cnt' = ping_retry_cnt + 1
    /\ pc' = "recovery"
    /\ UNCHANGED <<rxq, rtssvars, libstate, ping_err_cnt, strays, runs,
                   sendErrors>>

\* The ring is full, or the interrupt fails and the HELLO stays in the ring.
Ping_SendFails ==
    /\ pc = "ping"
    /\ ping_err_cnt <= RTSS_UPD_PING_ERR_CNT
    /\ \/ /\ Len(txq) = Capacity
          /\ UNCHANGED <<txq, sendErrors>>
       \/ /\ Len(txq) < Capacity
          /\ sendErrors < MaxSendErrors
          /\ txq' = Append(txq, HELLO)
          /\ sendErrors' = sendErrors + 1
    /\ ping_retry_cnt' = ping_retry_cnt + 1
    /\ pc' = "reset_both"
    /\ UNCHANGED <<rxq, rtssvars, libstate, ping_err_cnt, strays,
                   runs>>

(***************************************************************************)
(* rtss_mb_chan_reset sets both indices of a ring to zero.  If RTSS is in  *)
(* the middle of a step on that ring, it publishes its own index, which    *)
(* counts from before, after it: the slots on one side of that index are   *)
(* in the ring again, with what they last held.                            *)
(***************************************************************************)
Replays == UNION {[1..n -> OldMessages] : n \in 1..MaxReplay}

\* RTSS publishes the answer it is writing at its old place: the older slots
\* come back before it.
ResetRx ==
    \/ /\ rxq' = <<>>
       /\ UNCHANGED <<rtssvars, strays>>
    \/ /\ rtss = "write"
       /\ \E old \in Replays :
             /\ Len(old) < Capacity
             /\ rxq' = Append(old, req)
             /\ strays' = strays + Len(old)
       /\ rtss' = "idle" /\ req' = NoMsg

\* RTSS moves on from the request it is taking at its old place, or from the
\* first of the old slots when it looks between the two stores: the slots
\* behind it come back as requests.
ResetTx ==
    \/ /\ txq' = <<>>
       /\ UNCHANGED <<rtssvars, strays>>
    \/ /\ rtss = "idle"
       /\ \E old \in Replays :
             /\ \/ txq # <<>> /\ req' = Head(txq) /\ txq' = old
                \/ req' = Head(old) /\ txq' = Tail(old)
             /\ strays' = strays + Len(old)
       /\ rtss' = "work"

\* Mutant: neither channel is reset after a failed send.
ResetBoth_None ==
    /\ pc = "reset_both"
    /\ ping_retry_cnt' = 0
    /\ pc' = "ping"
    /\ UNCHANGED <<channels, rtssvars, libstate, ping_err_cnt, strays, runs, sendErrors>>

\* After a failed send: rtss_mb_chan_reset of the send channel, and then of
\* the receive channel, as after a missing answer.
Ping_ResetBoth ==
    /\ pc = "reset_both"
    /\ ResetTx
    /\ pc' = "reset_rx"
    /\ UNCHANGED <<rxq, libstate, counters, runs, sendErrors>>

\* The label rtss_upd_ping_recovery: a bounded wait for the answer.  A read
\* that fails otherwise is like one that ends just before the answer comes.
Recovery_Timeout ==
    /\ pc = "recovery"
    /\ rxq = <<>>
    /\ pc' = "reset_rx"
    /\ UNCHANGED <<channels, rtssvars, libstate, counters, strays,
                   runs, sendErrors>>

\* Mutant: a missing answer is not counted as an error.
ResetRx_NotCounted ==
    /\ pc = "reset_rx"
    /\ rxq' = <<>>
    /\ ping_retry_cnt' = 0
    /\ pc' = "ping"
    /\ UNCHANGED <<txq, rtssvars, libstate, ping_err_cnt, strays,
                   runs, sendErrors>>

\* No answer: rtss_mb_chan_reset of the receive channel, then a new HELLO.
Recovery_ResetRx ==
    /\ pc = "reset_rx"
    /\ ResetRx
    /\ ping_retry_cnt' = 0
    /\ ping_err_cnt' = ping_err_cnt + 1
    /\ pc' = "ping"
    /\ UNCHANGED <<txq, libstate, runs, sendErrors>>

\* rtss_upd_verify_handshake: the answer is the HELLO that was sent.
Recovery_Match ==
    /\ pc = "recovery"
    /\ rxq # <<>>
    /\ Head(rxq) = HELLO
    /\ rxq' = Tail(rxq)
    /\ libstate' = "READY"
    /\ pc' = IF ping_retry_cnt < RTSS_UPD_PING_RETRY_CNT THEN "ping" ELSE "true"
    /\ UNCHANGED <<txq, rtssvars, counters, strays, runs,
                   sendErrors>>

\* Any other answer: the next one is waited for.
Recovery_Mismatch ==
    /\ pc = "recovery"
    /\ rxq # <<>>
    /\ Head(rxq) # HELLO
    /\ rxq' = Tail(rxq)
    /\ ping_retry_cnt' = 0
    /\ ping_err_cnt' = ping_err_cnt + 1
    /\ pc' = IF ping_err_cnt' > RTSS_UPD_PING_ERR_CNT THEN "false" ELSE "recovery"
    /\ UNCHANGED <<txq, rtssvars, libstate, strays, runs, sendErrors>>

\* The process ends or is killed, and is launched again.
Relaunch ==
    /\ runs < MaxRuns
    /\ runs' = runs + 1
    /\ pc' = "start"
    /\ libstate' = "DEINIT"
    /\ ping_retry_cnt' = 0
    /\ ping_err_cnt' = 0
    /\ strays' = InFlight
    /\ UNCHANGED <<channels, rtssvars, sendErrors>>

-----------------------------------------------------------------------------
Ping ==
    \/ rtss_upd_is_ready
    \/ Ping_GiveUp
    \/ Ping_Send
    \/ Ping_SendFails
    \/ Ping_ResetBoth
    \/ Recovery_Timeout
    \/ Recovery_ResetRx
    \/ Recovery_Match
    \/ Recovery_Mismatch

HandshakeNext ==
    \/ Ping
    \/ Relaunch
    \/ RtssTake
    \/ \E st \in Status : RtssExecute(st)
    \/ RtssPublish

\* The waits of the process are bounded and it is scheduled; RTSS need not
\* answer.
HandshakeSpec ==
    /\ HandshakeInit
    /\ [][HandshakeNext]_hsvars
    /\ WF_hsvars(Ping)

-----------------------------------------------------------------------------
\* Every handshake ends: with an RTSS that never answers, answers late or
\* answers something else, and with whatever an earlier process left in the
\* channels (the comment at rtss_update_lib.c:355-357).
HandshakeReturns ==
    pc = "start" ~> pc \in {"true", "false"}

\* What rtss_mailbox_api.h:157-159 asks of the callers of
\* rtss_mb_chan_reset: RTSS is not writing the channel that is reset.
ResetWhileQuiet ==
    [][Recovery_ResetRx => rtss # "write"]_hsvars
=============================================================================
