------------------------------ MODULE MailboxRx ------------------------------
(***************************************************************************)
(* Receiving on a mailbox channel: rtss_mb_read_timed, rtss_mb_read,       *)
(* rtss_mb_get_fd and rtss_mb_chan_reset of                                *)
(* middleware/mailbox/src/rtss_mailbox.c, against the RTSS firmware that   *)
(* writes the ring and raises an interrupt, and the kernel driver that     *)
(* turns the interrupt into an eventfd signal (both outside the            *)
(* repository).                                                            *)
(*                                                                         *)
(* The ring is the queue that MailboxRing implements, reduced to how many  *)
(* items were published and how many consumed.  Interrupts coalesce: the   *)
(* line is a latch.  Time passes only while the caller is blocked in       *)
(* poll(), so that every tick counted is one the code chose to wait.       *)
(***************************************************************************)
EXTENDS Integers

CONSTANTS Capacity,    \* items the ring holds
          MaxItems,    \* bound on the items RTSS ever publishes
          MaxWant,     \* bound on the items a caller's buffer holds
          Timeouts,    \* the values of ms that callers pass
          MaxSignals,  \* bound on the signals the process receives
          MaxResets,   \* bound on the channel resets
          Users        \* who may be calling

ASSUME RxAssumption ==
    /\ Capacity \in Nat /\ MaxItems \in Nat /\ MaxWant \in Nat \ {0}
    /\ Timeouts \subseteq Nat \cup {-1}
    /\ MaxSignals \in Nat /\ MaxResets \in Nat
    /\ Users \subseteq {"any", "fd", "console"}

\* Error returns (-errno).
EINTR == -4
EIO == -5
EBADF == -9
ENOMEM == -12
ECONNRESET == -104
ETIMEDOUT == -110

VARIABLES
    sent,      \* items published by RTSS
    recvd,     \* items read, or discarded by a reset
    owed,      \* RTSS has published and not yet raised the interrupt
    irq,       \* the interrupt is pending in the controller
    evcnt,     \* the eventfd counter
    mbok,      \* the mailbox descriptor is valid (magic, indices in range)
    fdok,      \* the eventfd is open
    nomem,     \* a poll() has failed for want of memory
    rpc,       \* where rtss_mb_read_timed is
    want,      \* items the caller's buffer holds: sz / subchan_item_size
    ms,        \* the caller's timeout, -1 for ever
    stale,     \* a signal was pending or due when the call began (history)
    left,      \* what is left of the poll() under way
    waited,    \* ticks this call has spent blocked
    nNumItems, \* the last count of items taken from the ring
    ret,       \* what the last call returned
    sigs,      \* signals received
    resets,    \* channel resets made
    user       \* who calls: "any" caller, one that waits on the "fd", or
               \* the "console" (RtssConsole)

rtss == <<sent, owed>>
args == <<want, ms, stale>>
call == <<rpc, args, left, waited, nNumItems, ret>>
env  == <<mbok, fdok, nomem, sigs, user>>
vars == <<rtss, recvd, irq, evcnt, env, call, resets>>

Unread == sent - recvd

Init ==
    /\ sent = 0 /\ recvd = 0
    /\ owed = FALSE /\ irq = FALSE /\ evcnt = 0
    /\ mbok = TRUE /\ fdok = TRUE /\ nomem = FALSE
    /\ rpc = "idle" /\ want = 0 /\ ms = 0 /\ stale = FALSE
    /\ left = 0 /\ waited = 0
    /\ nNumItems = 0 /\ ret = 0
    /\ sigs = 0 /\ resets = 0
    /\ user \in Users

\* The call returns v; its local variables are gone.
Return(v) ==
    /\ rpc' = "idle"
    /\ ret' = v
    /\ want' = 0 /\ ms' = 0 /\ stale' = FALSE
    /\ left' = 0 /\ waited' = 0
    /\ nNumItems' = 0

-----------------------------------------------------------------------------
(***************************************************************************)
(* RTSS and the kernel driver                                              *)
(***************************************************************************)
RtssWrite(n) ==
    /\ mbok
    /\ Unread + n <= Capacity
    /\ sent + n <= MaxItems
    /\ sent' = sent + n
    /\ owed' = TRUE
    /\ UNCHANGED <<recvd, irq, evcnt, env, call, resets>>

RtssInterrupt ==
    /\ owed
    /\ owed' = FALSE
    /\ irq' = TRUE
    /\ UNCHANGED <<sent, recvd, evcnt, env, call, resets>>

KmdSignal ==
    /\ irq
    /\ irq' = FALSE
    /\ evcnt' = evcnt + 1
    /\ UNCHANGED <<rtss, recvd, env, call, resets>>

\* RTSS goes down and its memory no longer holds a valid descriptor.
RtssLost ==
    /\ mbok
    /\ mbok' = FALSE
    /\ UNCHANGED <<rtss, recvd, irq, evcnt, fdok, nomem, sigs, user, call, resets>>

\* The eventfd goes bad: poll() reports POLLNVAL, POLLERR or POLLHUP.
FdLost ==
    /\ fdok
    /\ fdok' = FALSE
    /\ UNCHANGED <<rtss, recvd, irq, evcnt, mbok, nomem, sigs, user, call, resets>>

-----------------------------------------------------------------------------
(***************************************************************************)
(* rtss_mb_read_timed                                                      *)
(***************************************************************************)
\* Mutant: block first, without looking at the ring.
read_timed_NoCheck(w, t) ==
    /\ rpc = "idle"
    /\ rpc' = "poll"
    /\ want' = w
    /\ ms' = t
    /\ stale' = (evcnt > 0 \/ irq \/ owed)
    /\ left' = t
    /\ waited' = 0
    /\ UNCHANGED <<rtss, recvd, irq, evcnt, env, nNumItems, ret, resets>>

\* The call, after its argument checks; rtss_mb_read is the one with t = -1.
rtss_mb_read_timed(w, t) ==
    /\ rpc = "idle"
    /\ rpc' = "check"
    /\ want' = w
    /\ ms' = t
    /\ stale' = (evcnt > 0 \/ irq \/ owed)
    /\ waited' = 0
    /\ UNCHANGED <<rtss, recvd, irq, evcnt, env, left, nNumItems, ret, resets>>

\* LibMB_Get_ValidItemNum, before blocking and again after every wake-up.
CheckRing ==
    /\ rpc = "check"
    /\ IF mbok
       THEN /\ nNumItems' = Unread
            /\ rpc' = IF Unread = 0 THEN "poll" ELSE "read"
            /\ left' = ms
            /\ UNCHANGED <<args, waited, ret>>
       ELSE Return(EIO)
    /\ UNCHANGED <<rtss, recvd, irq, evcnt, env, resets>>

PollReady ==
    /\ rpc = "poll"
    /\ fdok
    /\ evcnt > 0
    /\ rpc' = "drain"
    /\ UNCHANGED <<rtss, recvd, irq, evcnt, env, args, left, waited,
                   nNumItems, ret, resets>>

PollTick ==
    /\ rpc = "poll"
    /\ fdok
    /\ evcnt = 0
    /\ left > 0
    /\ left' = left - 1
    /\ waited' = waited + 1
    /\ UNCHANGED <<rtss, recvd, irq, evcnt, env, rpc, args, nNumItems, ret,
                   resets>>

\* Mutant: a poll() that returns 0 is taken for a wake-up without data.
PollTimeout_Again ==
    /\ rpc = "poll"
    /\ fdok
    /\ evcnt = 0
    /\ left = 0
    /\ rpc' = "check"
    /\ UNCHANGED <<rtss, recvd, irq, evcnt, env, args, left, waited, nNumItems,
                   ret, resets>>

PollTimeout ==
    /\ rpc = "poll"
    /\ fdok
    /\ evcnt = 0
    /\ left = 0
    /\ Return(ETIMEDOUT)
    /\ UNCHANGED <<rtss, recvd, irq, evcnt, env, resets>>

PollInterrupted ==
    /\ rpc = "poll"
    /\ sigs < MaxSignals
    /\ sigs' = sigs + 1
    /\ Return(EINTR)
    /\ UNCHANGED <<rtss, recvd, irq, evcnt, mbok, fdok, nomem, user, resets>>

\* poll() itself fails, as it may once for want of memory.
PollFails ==
    /\ rpc = "poll"
    /\ ~nomem
    /\ nomem' = TRUE
    /\ Return(ENOMEM)
    /\ UNCHANGED <<rtss, recvd, irq, evcnt, mbok, fdok, sigs, user, resets>>

PollError ==
    /\ rpc = "poll"
    /\ ~fdok
    /\ Return(ECONNRESET)
    /\ UNCHANGED <<rtss, recvd, irq, evcnt, env, resets>>

\* eventfd_read: takes the whole counter, then the ring is looked at again.
EventfdRead ==
    /\ rpc = "drain"
    /\ IF fdok
       THEN evcnt' = 0 /\ rpc' = "check" /\ UNCHANGED <<args, left, waited, nNumItems, ret>>
       ELSE Return(EBADF) /\ UNCHANGED evcnt
    /\ UNCHANGED <<rtss, recvd, irq, env, resets>>

\* Mutant: as many items as the buffer holds, however few there are.
ReadItems_NoMin ==
    /\ rpc = "read"
    /\ recvd' = recvd + want
    /\ Return(want)
    /\ UNCHANGED <<rtss, irq, evcnt, env, resets>>

\* Truncation to the caller's buffer, then LibMB_Read.
ReadItems ==
    LET n == IF nNumItems > want THEN want ELSE nNumItems
    IN  /\ rpc = "read"
        /\ IF mbok
           THEN recvd' = recvd + n /\ Return(n)
           ELSE UNCHANGED recvd /\ Return(EIO)
        /\ UNCHANGED <<rtss, irq, evcnt, env, resets>>

\* rtss_mb_chan_reset, by the one thread that also reads: whenever it is not
\* inside rtss_mb_read_timed, and whatever RTSS is about to announce.  The
\* eventfd is left as it is.
rtss_mb_chan_reset ==
    /\ rpc = "idle"
    /\ resets < MaxResets
    /\ resets' = resets + 1
    /\ IF mbok
       THEN recvd' = sent /\ ret' = 0
       ELSE UNCHANGED recvd /\ ret' = EIO
    /\ UNCHANGED <<rtss, irq, evcnt, env, rpc, args, left, waited,
                   nNumItems>>

-----------------------------------------------------------------------------
Environment ==
    \/ \E n \in 1..Capacity : RtssWrite(n)
    \/ RtssInterrupt
    \/ KmdSignal
    \/ RtssLost
    \/ FdLost

ReadStep ==
    \/ CheckRing
    \/ PollReady
    \/ PollTick
    \/ PollTimeout
    \/ PollError
    \/ EventfdRead
    \/ ReadItems

\* Mutant: one read for each time that the fd is readable.
MayCall_OncePerWakeup(t) ==
    /\ user # "console"
    /\ user = "fd" => t = 0 /\ evcnt > 0

\* A caller with a poll() loop of its own waits until the fd is readable, and
\* then reads without waiting until there is nothing more to read.
MayCall(t) ==
    /\ user # "console"
    /\ user = "fd" => t = 0 /\ (ret = ETIMEDOUT => evcnt > 0)

Call ==
    \E w \in 1..MaxWant, t \in Timeouts : MayCall(t) /\ rtss_mb_read_timed(w, t)

Next ==
    \/ Environment
    \/ ReadStep
    \/ PollInterrupted
    \/ PollFails
    \/ Call
    \/ rtss_mb_chan_reset

Spec == Init /\ [][Next]_vars

\* RTSS raises the interrupt it owes and the driver forwards it; the calling
\* thread is scheduled; the caller comes back for more, as the loop of
\* rtss_console.c does.
Fairness ==
    /\ WF_vars(RtssInterrupt)
    /\ WF_vars(KmdSignal)
    /\ WF_vars(ReadStep)
    /\ WF_vars(Call)

FairSpec == Spec /\ Fairness

-----------------------------------------------------------------------------
(***************************************************************************)
(* Properties                                                              *)
(***************************************************************************)
\* The receiver never consumes more than was published, and every return
\* value of rtss_mb_read_timed is a count that fits the caller's buffer or one
\* of its errors.
TypeOK ==
    /\ sent \in 0..MaxItems
    /\ recvd \in 0..MaxItems
    /\ Unread \in 0..Capacity
    /\ owed \in BOOLEAN /\ irq \in BOOLEAN
    /\ evcnt \in Nat
    /\ mbok \in BOOLEAN /\ fdok \in BOOLEAN /\ nomem \in BOOLEAN
    /\ rpc \in {"idle", "check", "poll", "drain", "read"}
    /\ want \in 0..MaxWant
    /\ ms \in Timeouts \cup {-1, 0}
    /\ stale \in BOOLEAN
    /\ left \in Nat \cup {-1}
    /\ waited \in Nat
    /\ nNumItems \in 0..Capacity
    /\ ret \in 0..MaxWant \cup {EINTR, EIO, EBADF, ENOMEM, ECONNRESET, ETIMEDOUT}
    /\ sigs \in 0..MaxSignals
    /\ resets \in 0..MaxResets

\* A caller blocked in poll() while the ring holds items has a wake-up
\* coming: the ring check of line 400 precedes the wait and the recheck of
\* line 437 follows the eventfd_read, so that no signal is consumed before
\* its items are looked for, even when a short buffer left items behind, a
\* signal interrupted the wait or interrupts coalesced.
NoLostWakeup ==
    rpc = "poll" /\ Unread > 0 => evcnt > 0 \/ irq \/ owed

\* Every published item is eventually read, or dropped by a reset, as long
\* as the mailbox and the eventfd live and the caller keeps reading; also by
\* a caller that waits on the fd, provided it reads until there is no more:
\* what a short buffer leaves behind is not announced (line 447).
Delivered ==
    \A k \in 1..MaxItems :
        sent >= k /\ user # "console" ~> (recvd >= k \/ ~mbok \/ ~fdok)

\* The wait for data is bounded by ms (rtss_mailbox_api.h:123-124), unless a
\* signal for items already read was pending or due when the call began: each
\* wake-up that finds the ring empty starts the whole timeout again (line 408).
WaitBounded ==
    ms >= 0 /\ ~stale => waited <= ms
=============================================================================
