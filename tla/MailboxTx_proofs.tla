--------------------------- MODULE MailboxTx_proofs ---------------------------
(***************************************************************************)
(* Sending on a channel, for every capacity, size of an item, size of a    *)
(* buffer and number of failing interrupts: the ring never overflows and   *)
(* RTSS never sleeps on items it was told of.                              *)
(***************************************************************************)
EXTENDS MailboxTx, TLAPS

(***************************************************************************)
(* The size test of rtss_mb_write is in bytes, the ring counts items.      *)
(***************************************************************************)
\* A product is monotone.
LEMMA ProductMonotone ==
    ASSUME NEW a \in Int, NEW b \in Int, NEW s \in Nat, a <= b
    PROVE  a * s <= b * s
BY SMT

\* The items that are cut from a buffer take no more bytes than it has.
LEMMA ItemsFitBuffer ==
    ASSUME NEW sz \in Nat
    PROVE  Items(sz) \in Nat /\ Items(sz) * subchan_item_size <= sz
<1>1. subchan_item_size \in Nat \ {0}
  BY TxAssumption
<1> DEFINE q == sz \div subchan_item_size
           r == sz % subchan_item_size
<1>2. q \in Nat /\ r \in Nat /\ sz = q * subchan_item_size + r
  BY <1>1, SMT
<1>3. q * subchan_item_size \in Nat
  BY <1>1, <1>2
<1> QED
  BY <1>2, <1>3 DEF Items

\* What passes the size test fits the ring.
LEMMA NotRefusedFits ==
    ASSUME NEW sz \in Nat, NEW free \in Int, free * subchan_item_size >= sz
    PROVE  Items(sz) <= free
<1>1. subchan_item_size \in Nat \ {0}
  BY TxAssumption
<1>2. Items(sz) \in Nat /\ Items(sz) * subchan_item_size <= sz
  BY ItemsFitBuffer
<1>3. SUFFICES ASSUME free + 1 <= Items(sz) PROVE FALSE
  BY <1>2
<1>4. (free + 1) * subchan_item_size <= Items(sz) * subchan_item_size
  BY <1>1, <1>2, <1>3, ProductMonotone
<1>5. (free + 1) * subchan_item_size = free * subchan_item_size + subchan_item_size
  BY <1>1, SMT
<1> QED
  BY <1>1, <1>2, <1>4, <1>5

-----------------------------------------------------------------------------
(***************************************************************************)
(* The inductive invariant is the type invariant, which holds the capacity *)
(* and what was announced and acknowledged, with NoStrandedItems.  The     *)
(* counters and the flags of TypeOK are proved apart.                      *)
(***************************************************************************)
IInv == TypeOK /\ NoStrandedItems

Counters ==
    /\ sent \in Nat /\ recvd \in Nat
    /\ recvd <= sent /\ sent - recvd <= Capacity
    /\ nBytesWritten \in Nat
    /\ ret \in Int
    /\ failures \in Nat
    /\ announced \in 0..sent
    /\ acked \in 0..announced

Flags ==
    /\ irq \in BOOLEAN /\ awake \in BOOLEAN /\ mbok \in BOOLEAN
    /\ wpc \in {"idle", "trigger"}

\* The invariant in its three parts.
LEMMA IInvSplit == IInv <=> Counters /\ Flags /\ NoStrandedItems
BY Zenon DEF IInv, TypeOK, Counters, Flags

\* The same after a step.
LEMMA IInvSplitNext == IInv' <=> Counters' /\ Flags' /\ NoStrandedItems'
BY IInvSplit, PTL

\* A committed write fits, and changes nothing that RTSS relies on.
LEMMA CommitInv ==
    ASSUME Counters, NEW sz \in 1 .. MaxSize, Commit(sz), UNCHANGED recvd
    PROVE  /\ sent' \in Nat /\ sent' >= sent
           /\ recvd' <= sent' /\ sent' - recvd' <= Capacity
           /\ nBytesWritten' \in Nat
<1>1. sz \in Nat /\ sent \in Nat /\ recvd \in Nat /\ Capacity \in Nat
  BY TxAssumption DEF Counters
<1>2. nFreeItems \in Int /\ nFreeItems * subchan_item_size >= sz
  <2>1. nFreeItems \in Int
    BY <1>1 DEF nFreeItems
  <2>2. nFreeItems * subchan_item_size \in Int
    BY <2>1, TxAssumption
  <2> QED
    BY <1>1, <2>1, <2>2 DEF Commit, Refused
<1>3. Items(sz) \in Nat /\ Items(sz) <= nFreeItems
  BY <1>1, <1>2, ItemsFitBuffer, NotRefusedFits
<1>4. Items(sz) * subchan_item_size \in Nat
  BY <1>3, TxAssumption
<1> QED
  BY <1>1, <1>3, <1>4 DEF Commit, nFreeItems, Counters

\* What a write does but for the interrupt: it commits or refuses.
LEMMA CommitOrRefuse ==
    ASSUME IInv, NEW sz \in 1 .. MaxSize,
           Commit(sz) \/ UNCHANGED <<sent, nBytesWritten>>,
           ret' \in Int, wpc' \in {"idle", "trigger"},
           UNCHANGED <<recvd, awake, irq, mbok, failures, announced, acked>>
    PROVE  IInv'
<1>1. Counters /\ Flags /\ NoStrandedItems
  BY IInvSplit
<1>2. Counters'
  <2>1. CASE Commit(sz)
    BY <1>1, <2>1, CommitInv DEF Counters
  <2>2. CASE UNCHANGED <<sent, nBytesWritten>>
    BY <1>1, <2>2 DEF Counters
  <2> QED
    BY <2>1, <2>2
<1>3. Flags' /\ NoStrandedItems'
  BY <1>1, Zenon DEF Flags, NoStrandedItems
<1> QED
  BY <1>2, <1>3, IInvSplitNext

\* rtss_mb_write_batch commits or refuses, and raises no interrupt.
LEMMA BatchInv ==
    ASSUME IInv, NEW sz \in 1 .. MaxSize, rtss_mb_write_batch(sz)
    PROVE  IInv'
<1>1. Counters /\ Flags
  BY IInvSplit
<1>2. Commit(sz) \/ UNCHANGED <<sent, nBytesWritten>>
  BY DEF rtss_mb_write_batch
<1>3. ret' \in Int
  <2>1. CASE Commit(sz) /\ ret' = nBytesWritten'
    <3>1. recvd' = recvd
      BY DEF rtss_mb_write_batch, rtss
    <3> QED
      BY <1>1, <2>1, <3>1, CommitInv
  <2>2. CASE ret' = Refusal
    BY <2>2 DEF Refusal, EIO, ENOBUFS
  <2> QED
    BY <2>1, <2>2 DEF rtss_mb_write_batch
<1>4. wpc' \in {"idle", "trigger"} /\ UNCHANGED <<recvd, awake, irq, mbok, failures, announced, acked>>
  BY <1>1, Zenon DEF Flags, rtss_mb_write_batch, rtss, hist
<1> QED
  BY <1>2, <1>3, <1>4, CommitOrRefuse

\* rtss_mb_write commits or refuses; its interrupt is a step of its own.
LEMMA WriteInv ==
    ASSUME IInv, NEW sz \in 1 .. MaxSize, rtss_mb_write(sz)
    PROVE  IInv'
<1>1. Counters /\ Flags
  BY IInvSplit
<1>2. Commit(sz) \/ UNCHANGED <<sent, nBytesWritten>>
  BY DEF rtss_mb_write
<1>3. ret' \in Int
  BY <1>1 DEF Counters, rtss_mb_write, Refusal, EIO, ENOBUFS
<1>4. wpc' \in {"idle", "trigger"}
  BY <1>1 DEF Flags, rtss_mb_write
<1>5. UNCHANGED <<recvd, awake, irq, mbok, failures, announced, acked>>
  BY Zenon DEF rtss_mb_write, rtss, hist
<1> QED
  BY <1>2, <1>3, <1>4, <1>5, CommitOrRefuse

\* An interrupt announces what is committed at that moment, and only an
\* interrupt that was sent makes a write a success.
LEMMA TriggerInv ==
    ASSUME IInv, rtssmb_trigger_ioctl \/ rtss_mb_send_trigger
    PROVE  IInv'
<1>1. Counters /\ Flags /\ NoStrandedItems
  BY IInvSplit
<1>2. /\ UNCHANGED <<sent, recvd, awake, mbok, nBytesWritten>>
      /\ wpc' = "idle"
      /\ ret' \in {nBytesWritten, 0, EIO}
      /\ acked' \in {acked, announced'}
      /\ IoctlOk \/ IoctlFails
  BY DEF rtssmb_trigger_ioctl, rtss_mb_send_trigger, rtss, IoctlOk, IoctlFails
<1>3. /\ announced' = sent \/ announced' = announced
      /\ failures' \in {failures, failures + 1}
      /\ irq' \/ (irq' = irq /\ announced' = announced)
  BY <1>2 DEF IoctlOk, IoctlFails
<1>4. Counters'
  BY <1>1, <1>2, <1>3 DEF Counters, EIO
<1>5. Flags'
  BY <1>1, <1>2, <1>3, Zenon DEF Flags
<1>6. NoStrandedItems'
  <2> SUFFICES ASSUME ~awake', ~irq' PROVE recvd' >= announced'
    BY DEF NoStrandedItems
  <2>1. awake' = awake /\ irq' = irq /\ announced' = announced /\ recvd' = recvd
    BY <1>2, <1>3
  <2>2. ~awake /\ ~irq
    BY <2>1, Zenon
  <2> QED
    BY <1>1, <2>1, <2>2 DEF NoStrandedItems
<1> QED
  BY <1>4, <1>5, <1>6, IInvSplitNext

\* RTSS goes to sleep over an empty ring only.
LEMMA RtssInv ==
    ASSUME IInv, Rtss
    PROVE  IInv'
<1>1. Counters /\ Flags /\ NoStrandedItems
  BY IInvSplit
<1>2. UNCHANGED <<sent, wpc, nBytesWritten, ret, failures, announced, acked>>
  BY DEF Rtss, RtssWake, RtssConsume, RtssSleep, RtssLost, rtss, hist
<1>3. recvd' = recvd \/ \E n \in 1 .. sent - recvd : recvd' = recvd + n
  BY DEF Rtss, RtssWake, RtssConsume, RtssSleep, RtssLost, rtss
<1>4. Counters' /\ recvd' >= recvd
  <2>1. CASE recvd' = recvd
    BY <1>1, <1>2, <2>1 DEF Counters
  <2>2. ASSUME NEW n \in 1 .. sent - recvd, recvd' = recvd + n
        PROVE  Counters' /\ recvd' >= recvd
    BY <1>1, <1>2, <2>2, TxAssumption DEF Counters
  <2> QED
    BY <1>3, <2>1, <2>2
<1>5. Flags'
  BY <1>1, Zenon DEF Flags, Rtss, RtssWake, RtssConsume, RtssSleep, RtssLost, rtss
<1>6. NoStrandedItems'
  <2> SUFFICES ASSUME ~awake', ~irq' PROVE recvd' >= announced'
    BY DEF NoStrandedItems
  <2>1. CASE RtssSleep
    BY <1>1, <1>2, <1>4, <2>1 DEF RtssSleep, Counters
  <2>2. CASE ~awake /\ ~irq
    BY <1>1, <1>2, <1>4, <2>2 DEF NoStrandedItems, Counters
  <2>3. RtssWake => awake'
    BY Zenon DEF RtssWake
  <2>4. RtssConsume \/ RtssLost => awake' = awake /\ irq' = irq
    BY Zenon DEF RtssConsume, RtssLost, rtss
  <2> QED
    BY <2>1, <2>2, <2>3, <2>4, Zenon DEF Rtss
<1> QED
  BY <1>4, <1>5, <1>6, IInvSplitNext

\* The invariant holds in every behaviour.
LEMMA Invariance == Spec => []IInv
<1>1. Init => IInv
  <2> SUFFICES ASSUME Init PROVE IInv
    OBVIOUS
  <2>1. Counters /\ NoStrandedItems
    BY TxAssumption DEF Init, Counters, NoStrandedItems
  <2>2. Flags
    BY Zenon DEF Init, Flags
  <2> QED
    BY <2>1, <2>2, IInvSplit
<1>2. IInv /\ [Next]_vars => IInv'
  <2> SUFFICES ASSUME IInv, [Next]_vars PROVE IInv'
    OBVIOUS
  <2>1. CASE UNCHANGED vars
    BY <2>1, Zenon DEF IInv, TypeOK, NoStrandedItems, vars, rtss, hist
  <2>2. CASE Writer
    BY <2>2, BatchInv, WriteInv, TriggerInv DEF Writer
  <2> QED
    BY <2>1, <2>2, RtssInv DEF Next
<1> QED
  BY <1>1, <1>2, PTL DEF Spec

\* The ring never holds more than it has room for, although the test of
\* rtss_mb_write is in bytes and cuts off partial items, and a success is
\* reported for announced items only.
THEOREM TypeCorrect == Spec => []TypeOK
<1>1. IInv => TypeOK
  BY DEF IInv
<1> QED
  BY <1>1, Invariance, PTL

\* RTSS asleep and not interrupted has consumed all that was announced.
THEOREM NothingStranded == Spec => []NoStrandedItems
<1>1. IInv => NoStrandedItems
  BY DEF IInv
<1> QED
  BY <1>1, Invariance, PTL
=============================================================================
