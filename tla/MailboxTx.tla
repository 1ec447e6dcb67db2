------------------------------ MODULE MailboxTx ------------------------------
(***************************************************************************)
(* Sending on a mailbox channel: rtss_mb_write, rtss_mb_write_batch and    *)
(* rtss_mb_send_trigger of middleware/mailbox/src/rtss_mailbox.c, against  *)
(* the RTSS firmware (outside the repository) that sleeps until the        *)
(* interrupt, drains the ring and sleeps again.                            *)
(*                                                                         *)
(* The ring is the queue that MailboxRing implements, reduced to how many  *)
(* items were committed and how many consumed.  Sizes are in bytes, because*)
(* the interface turns bytes into items.                                   *)
(***************************************************************************)
EXTENDS Integers

CONSTANTS Capacity,           \* items the ring holds
          subchan_item_size,  \* bytes of one item
          MaxSize,            \* largest buffer, in bytes
          MaxItems,           \* bound on the items ever committed
          MaxFailures         \* bound on failing SEND_INTERRUPT ioctls

ASSUME TxAssumption ==
    /\ Capacity \in Nat
    /\ subchan_item_size \in Nat \ {0}
    /\ MaxSize \in Nat
    /\ MaxItems \in Nat
    /\ MaxFailures \in Nat

\* Error returns (-errno).
EIO == -5
ENOBUFS == -105

VARIABLES
    sent,       \* items committed to the ring
    recvd,      \* items RTSS has consumed
    irq,        \* the interrupt to RTSS is pending
    awake,      \* RTSS is draining the ring
    mbok,       \* the mailbox descriptor is valid
    wpc,        \* "idle", or "trigger": rtss_mb_write between commit and ioctl
    nBytesWritten, \* what the write under way has committed, in bytes
    ret,        \* what the last call returned
    failures,   \* SEND_INTERRUPT ioctls that failed
    announced,  \* items committed before the last successful ioctl (history)
    acked       \* items covered by a write that returned success (history)

rtss == <<recvd, awake>>
hist == <<announced, acked>>
vars == <<sent, rtss, irq, mbok, wpc, nBytesWritten, ret, failures, hist>>

nFreeItems == Capacity - (sent - recvd)

Init ==
    /\ sent = 0 /\ recvd = 0
    /\ irq = FALSE /\ awake = FALSE /\ mbok = TRUE
    /\ wpc = "idle" /\ nBytesWritten = 0 /\ ret = 0
    /\ failures = 0
    /\ announced = 0 /\ acked = 0

-----------------------------------------------------------------------------
(***************************************************************************)
(* The ring write shared by rtss_mb_write and rtss_mb_write_batch          *)
(***************************************************************************)
Refusal == IF ~mbok THEN EIO ELSE ENOBUFS

\* Mutant: one item too many fits.
Refused_OffByOne(sz) == ~mbok \/ (nFreeItems + 1) * subchan_item_size < sz

Refused(sz) == ~mbok \/ nFreeItems * subchan_item_size < sz

\* A last partial item is cut off.
Items(sz) == sz \div subchan_item_size

Commit(sz) ==
    /\ ~Refused(sz)
    /\ sent + Items(sz) <= MaxItems
    /\ sent' = sent + Items(sz)
    /\ nBytesWritten' = Items(sz) * subchan_item_size

rtss_mb_write_batch(sz) ==
    /\ wpc = "idle"
    /\ \/ /\ Commit(sz)
          /\ ret' = nBytesWritten'
       \/ /\ Refused(sz)
          /\ ret' = Refusal
          /\ UNCHANGED <<sent, nBytesWritten>>
    /\ UNCHANGED <<rtss, irq, mbok, wpc, failures, hist>>

\* Mutant: no interrupt after the ring write.
write_NoTrigger(sz) ==
    /\ wpc = "idle"
    /\ Commit(sz)
    /\ ret' = nBytesWritten'
    /\ acked' = sent'
    /\ UNCHANGED <<rtss, irq, mbok, wpc, failures, announced>>

\* Nothing committed means no interrupt.
rtss_mb_write(sz) ==
    /\ wpc = "idle"
    /\ \/ /\ Commit(sz)
          /\ IF Items(sz) = 0
             THEN ret' = 0 /\ UNCHANGED wpc
             ELSE wpc' = "trigger" /\ UNCHANGED ret
       \/ /\ Refused(sz)
          /\ ret' = Refusal
          /\ UNCHANGED <<sent, nBytesWritten, wpc>>
    /\ UNCHANGED <<rtss, irq, mbok, failures, hist>>

(***************************************************************************)
(* The SEND_INTERRUPT ioctl, inside rtss_mb_write and on its own           *)
(***************************************************************************)
\* Mutant: the interrupt goes to another signal line.
IoctlOk_WrongLine ==
    /\ announced' = sent
    /\ UNCHANGED <<irq, failures>>

IoctlOk ==
    /\ irq' = TRUE
    /\ announced' = sent
    /\ UNCHANGED failures

IoctlFails ==
    /\ failures < MaxFailures
    /\ failures' = failures + 1
    /\ UNCHANGED <<irq, announced>>

\* When the ioctl fails the items stay in the ring though the call fails.
rtssmb_trigger_ioctl ==
    /\ wpc = "trigger"
    /\ wpc' = "idle"
    /\ \/ IoctlOk /\ ret' = nBytesWritten /\ acked' = sent
       \/ IoctlFails /\ ret' = EIO /\ UNCHANGED acked
    /\ UNCHANGED <<sent, rtss, mbok, nBytesWritten>>

rtss_mb_send_trigger ==
    /\ wpc = "idle"
    /\ \/ IoctlOk /\ ret' = 0
       \/ IoctlFails /\ ret' = EIO
    /\ UNCHANGED <<sent, rtss, mbok, wpc, nBytesWritten, acked>>

-----------------------------------------------------------------------------
(***************************************************************************)
(* RTSS                                                                    *)
(***************************************************************************)
RtssWake ==
    /\ mbok
    /\ irq
    /\ ~awake
    /\ irq' = FALSE
    /\ awake' = TRUE
    /\ UNCHANGED <<sent, recvd, mbok, wpc, nBytesWritten, ret, failures, hist>>

RtssConsume ==
    /\ mbok
    /\ awake
    /\ sent > recvd
    /\ \E n \in 1 .. sent - recvd : recvd' = recvd + n
    /\ UNCHANGED <<sent, awake, irq, mbok, wpc, nBytesWritten, ret, failures, hist>>

RtssSleep ==
    /\ mbok
    /\ awake
    /\ sent = recvd
    /\ awake' = FALSE
    /\ UNCHANGED <<sent, recvd, irq, mbok, wpc, nBytesWritten, ret, failures, hist>>

RtssLost ==
    /\ mbok
    /\ mbok' = FALSE
    /\ UNCHANGED <<sent, rtss, irq, wpc, nBytesWritten, ret, failures, hist>>

-----------------------------------------------------------------------------
Writer ==
    \/ \E sz \in 1..MaxSize : rtss_mb_write(sz) \/ rtss_mb_write_batch(sz)
    \/ rtssmb_trigger_ioctl
    \/ rtss_mb_send_trigger

Rtss == RtssWake \/ RtssConsume \/ RtssSleep \/ RtssLost

Next == Writer \/ Rtss

Spec == Init /\ [][Next]_vars

\* The writing thread finishes the call it is in; RTSS wakes up and drains.
FairSpec ==
    /\ Spec
    /\ WF_vars(rtssmb_trigger_ioctl)
    /\ WF_vars(RtssWake)
    /\ WF_vars(RtssConsume)

-----------------------------------------------------------------------------
\* The ring never holds more than its capacity, whatever sizes the callers of
\* rtss_mb_write and rtss_mb_write_batch ask for, and a success is only
\* reported for items an interrupt has announced.
TypeOK ==
    /\ sent \in Nat /\ recvd \in Nat
    /\ recvd <= sent /\ sent - recvd <= Capacity
    /\ irq \in BOOLEAN /\ awake \in BOOLEAN /\ mbok \in BOOLEAN
    /\ wpc \in {"idle", "trigger"}
    /\ nBytesWritten \in Nat
    /\ ret \in Int
    /\ failures \in Nat
    /\ announced \in 0..sent
    /\ acked \in 0..announced

\* RTSS never sleeps on items it was told of: when it is asleep with no
\* interrupt pending, everything committed before the last successful
\* SEND_INTERRUPT is consumed.  What may lie in the ring unnoticed is only
\* what a batch has not announced yet, or what a write committed before its
\* interrupt failed.
NoStrandedItems ==
    ~awake /\ ~irq => recvd >= announced

\* Every item of a rtss_mb_write that returned success is eventually
\* consumed while RTSS lives, whatever batches and failed interrupts lie
\* around it.
AckedIsConsumed ==
    \A k \in 1..MaxItems : acked >= k ~> (recvd >= k \/ ~mbok)
=============================================================================
