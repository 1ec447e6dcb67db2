-------------------------- MODULE RtssConsole_proofs --------------------------
(***************************************************************************)
(* Receiving on a channel and the log console, for every capacity, buffer, *)
(* set of timeouts and number of signals, resets and interrupts: no        *)
(* wake-up is lost, the wait is bounded when no signal was outstanding,    *)
(* and the console ends for a reason only.                                 *)
(***************************************************************************)
EXTENDS RtssConsole, TLAPS

(***************************************************************************)
(* The inductive invariant of the receive path.  A signal that was not     *)
(* outstanding when the call began stands for items that nobody but this   *)
(* call takes from the ring, so that the recheck after a wake-up finds     *)
(* them and the timeout does not start again.                              *)
(***************************************************************************)
Outstanding == evcnt > 0 \/ irq \/ owed

\* A new signal means items.
SignalMeansItems == rpc # "idle" /\ ~stale /\ Outstanding => Unread > 0

\* The counter that woke poll() is still there for eventfd_read.
DrainHasSignal == rpc = "drain" => evcnt > 0

\* A recheck after some waiting finds items.
RecheckFinds == rpc = "check" /\ ~stale /\ waited > 0 => Unread > 0

\* What was waited and what is left make up the timeout.
TimeAddsUp == rpc = "poll" /\ ~stale /\ ms >= 0 => waited + left = ms

\* A call without a timeout has no end to wait for, and every call has a
\* buffer.
CallArguments ==
    /\ rpc = "poll" /\ ms = -1 => left = -1
    /\ rpc # "idle" => want >= 1

\* The count that decides to read is still covered: only the caller takes
\* items from the ring.
CountCovered == rpc = "read" => nNumItems \in 1..Unread

RxInv ==
    /\ TypeOK
    /\ NoLostWakeup
    /\ CountCovered
    /\ WaitBounded
    /\ SignalMeansItems
    /\ DrainHasSignal
    /\ RecheckFinds
    /\ TimeAddsUp
    /\ CallArguments

(***************************************************************************)
(* The inductive invariant of the console.                                 *)
(***************************************************************************)
Reason == ~g_running \/ ~mbok \/ ~fdok \/ nomem \/ ~outok

ConsoleInv ==
    /\ cpc \in {"off", "test", "reading", "closing", "done"}
    /\ cpc \in {"test", "closing", "done"} => rpc = "idle"
    /\ cpc = "reading" /\ rpc # "idle" => ms = -1
    /\ cpc = "reading" /\ rpc = "idle" => ret > 0 \/ Reason
    /\ cpc \in {"closing", "done"} => Reason

IInv == RxInv /\ ConsoleInv

-----------------------------------------------------------------------------
(***************************************************************************)
(* The numbers and the flags of the type invariant are proved apart.       *)
(***************************************************************************)
Counters ==
    /\ sent \in 0..MaxItems /\ recvd \in 0..MaxItems
    /\ sent - recvd \in 0..Capacity
    /\ evcnt \in Nat
    /\ sigs \in 0..MaxSignals
    /\ resets \in 0..MaxResets

CallTypes ==
    /\ rpc \in {"idle", "check", "poll", "drain", "read"}
    /\ want \in 0..MaxWant
    /\ ms \in Timeouts \cup {-1, 0}
    /\ left \in Nat \cup {-1}
    /\ waited \in Nat
    /\ nNumItems \in 0..Capacity
    /\ ret \in 0..MaxWant \cup {EINTR, EIO, EBADF, ENOMEM, ECONNRESET, ETIMEDOUT}

Flags ==
    /\ owed \in BOOLEAN /\ irq \in BOOLEAN
    /\ mbok \in BOOLEAN /\ fdok \in BOOLEAN /\ nomem \in BOOLEAN
    /\ stale \in BOOLEAN

Signals ==
    /\ NoLostWakeup
    /\ SignalMeansItems
    /\ DrainHasSignal
    /\ RecheckFinds

Waits ==
    /\ CountCovered
    /\ WaitBounded
    /\ TimeAddsUp
    /\ CallArguments

\* The invariant of the receive path in five parts.
LEMMA RxSplit == RxInv <=> Counters /\ CallTypes /\ Flags /\ Signals /\ Waits
BY Zenon DEF RxInv, TypeOK, Counters, CallTypes, Flags, Signals, Waits, Unread

\* The same after a step.
LEMMA RxSplitNext == RxInv' <=> Counters' /\ CallTypes' /\ Flags' /\ Signals' /\ Waits'
BY RxSplit, PTL

\* Every timeout is a number of ticks or for ever.
LEMMA TimeoutTypes == CallTypes => ms \in Nat \cup {-1}
BY RxAssumption DEF CallTypes

-----------------------------------------------------------------------------
(***************************************************************************)
(* The steps of RTSS, the driver and the outside.                          *)
(***************************************************************************)
LEMMA DifferenceGrows ==
    ASSUME NEW a \in Int, NEW b \in Int, NEW c \in Int, c >= a, a - b >= 0
    PROVE  c - b \in Nat /\ a - b \in Nat /\ c - b >= a - b
OBVIOUS

\* RTSS, the driver and the failures leave the call alone; they add items and
\* signals, and no signal without items.
LEMMA EnvironmentInv ==
    ASSUME RxInv, Environment
    PROVE  RxInv'
<1>1. Counters /\ CallTypes /\ Flags /\ Signals /\ Waits
  BY RxSplit
<1>2. UNCHANGED <<recvd, rpc, want, ms, stale, left, waited, nNumItems, ret, sigs, resets>>
  BY Zenon DEF Environment, RtssWrite, RtssInterrupt, KmdSignal, RtssLost, FdLost, rtss, call, args, env
<1>3. Counters' /\ sent' >= sent /\ evcnt' >= evcnt
  <2>1. CASE \E n \in 1..Capacity : RtssWrite(n)
    BY <1>1, <1>2, <2>1, RxAssumption DEF RtssWrite, Counters, Unread
  <2>2. CASE KmdSignal
    BY <1>1, <1>2, <2>2 DEF KmdSignal, Counters, rtss
  <2>3. CASE RtssInterrupt \/ RtssLost \/ FdLost
    <3>1. UNCHANGED <<sent, evcnt>>
      BY <2>3, Zenon DEF RtssInterrupt, RtssLost, FdLost, rtss
    <3> QED
      BY <1>1, <1>2, <3>1 DEF Counters
  <2> QED
    BY <2>1, <2>2, <2>3 DEF Environment
<1>4. CallTypes'
  BY <1>1, <1>2 DEF CallTypes
<1>5. Flags'
  BY <1>1, Zenon DEF Flags, Environment, RtssWrite, RtssInterrupt, KmdSignal, RtssLost, FdLost, rtss, call, args, env
<1>6. Outstanding' => Outstanding \/ Unread' > 0
  <2>1. CASE \E n \in 1..Capacity : RtssWrite(n)
    BY <1>1, <2>1, <1>3, RxAssumption DEF RtssWrite, Counters, Unread
  <2>2. CASE RtssInterrupt
    BY <2>2, Zenon DEF RtssInterrupt, Outstanding
  <2>3. CASE KmdSignal
    BY <2>3, Zenon DEF KmdSignal, Outstanding
  <2>4. CASE RtssLost \/ FdLost
    BY <2>4, Zenon DEF RtssLost, FdLost, Outstanding, rtss
  <2> QED
    BY <2>1, <2>2, <2>3, <2>4 DEF Environment
<1>7. Outstanding \/ Unread' > Unread => Outstanding'
  <2>1. CASE \E n \in 1..Capacity : RtssWrite(n)
    BY <2>1, Zenon DEF RtssWrite, Outstanding
  <2>2. CASE ~ \E n \in 1..Capacity : RtssWrite(n)
    <3>1. Unread' = Unread
      BY <1>2, <2>2, Zenon DEF Environment, RtssInterrupt, KmdSignal, RtssLost, FdLost, rtss, Unread
    <3>2. ~(Unread' > Unread)
      BY <1>1, <3>1 DEF Counters, Unread
    <3>3. CASE KmdSignal
      <4>1. evcnt' > 0
        BY <1>1, <3>3 DEF KmdSignal, Counters
      <4> QED
        BY <4>1 DEF Outstanding
    <3>4. CASE RtssInterrupt \/ RtssLost \/ FdLost
      BY <3>2, <3>4, Zenon DEF RtssInterrupt, RtssLost, FdLost, Outstanding, rtss
    <3> QED
      BY <2>2, <3>3, <3>4 DEF Environment
  <2> QED
    BY <2>1, <2>2
<1>8. Unread' >= Unread /\ Unread \in Nat /\ Unread' \in Nat
  <2>1. recvd' = recvd
    BY <1>2
  <2>2. sent \in Int /\ recvd \in Int /\ sent - recvd >= 0
    BY <1>1, RxAssumption DEF Counters
  <2>3. sent' \in Int /\ sent' >= sent
    BY <1>3, RxAssumption DEF Counters
  <2>4. Unread = sent - recvd /\ Unread' = sent' - recvd'
    BY DEF Unread
  <2> QED
    BY <2>1, <2>2, <2>3, <2>4, DifferenceGrows
<1>9. /\ Unread > 0 => Unread' > 0
      /\ Unread' > 0 => Unread > 0 \/ Unread' > Unread
      /\ evcnt > 0 => evcnt' > 0
  BY <1>1, <1>3, <1>8 DEF Counters
<1>10. Waits'
  <2>1. CountCovered'
    <3>1. UNCHANGED <<rpc, nNumItems>>
      BY <1>2
    <3> QED
      BY <1>1, <1>8, <3>1 DEF Waits, CountCovered
  <2> QED
    BY <1>1, <1>2, <2>1, Zenon DEF Waits, WaitBounded, TimeAddsUp, CallArguments
<1>11. Signals'
  <2>1. NoLostWakeup'
    BY <1>1, <1>2, <1>7, <1>9, Zenon DEF Signals, NoLostWakeup, Outstanding
  <2>2. SignalMeansItems'
    BY <1>1, <1>2, <1>6, <1>9, Zenon DEF Signals, SignalMeansItems
  <2>3. DrainHasSignal' /\ RecheckFinds'
    BY <1>1, <1>2, <1>9, Zenon DEF Signals, DrainHasSignal, RecheckFinds
  <2> QED
    BY <2>1, <2>2, <2>3 DEF Signals
<1> QED
  BY <1>3, <1>4, <1>5, <1>10, <1>11, RxSplitNext

-----------------------------------------------------------------------------
(***************************************************************************)
(* The steps of the call.                                                  *)
(***************************************************************************)
\* A call that has returned leaves nothing to say about it.
LEMMA ReturnInv ==
    ASSUME Counters', Flags', RxInv,
           NEW v \in 0..MaxWant \cup {EINTR, EIO, EBADF, ENOMEM, ECONNRESET, ETIMEDOUT},
           Return(v)
    PROVE  RxInv'
<1>1. /\ rpc' = "idle" /\ ret' = v
      /\ want' = 0 /\ ms' = 0 /\ left' = 0 /\ waited' = 0 /\ nNumItems' = 0
  BY DEF Return
<1>2. CallTypes'
  BY <1>1, RxAssumption DEF CallTypes
<1>3. Signals'
  BY <1>1 DEF Signals, NoLostWakeup, SignalMeansItems, DrainHasSignal, RecheckFinds
<1>4. Waits'
  BY <1>1 DEF Waits, CountCovered, WaitBounded, TimeAddsUp, CallArguments
<1> QED
  BY <1>2, <1>3, <1>4, RxSplitNext

\* A step of the call that leaves the ring, the signals and their sources.
Outside == UNCHANGED <<sent, recvd, owed, irq, evcnt, mbok, fdok, nomem, sigs, resets>>

\* Such a step keeps the numbers and the flags.
LEMMA OutsideInv == Counters /\ Flags /\ Outside /\ stale' \in BOOLEAN => Counters' /\ Flags'
BY Zenon DEF Counters, Flags, Outside

\* Such a step keeps what is unread and what is outstanding.
LEMMA OutsideSignals ==
    ASSUME Outside
    PROVE  Unread' = Unread /\ (Outstanding' <=> Outstanding)
BY Zenon DEF Outside, Unread, Outstanding

\* A call notes whether a signal is outstanding.
LEMMA CallInv ==
    ASSUME RxInv, NEW w \in 1..MaxWant, NEW t \in Timeouts \cup {-1},
           rtss_mb_read_timed(w, t)
    PROVE  RxInv'
<1>1. Counters /\ CallTypes /\ Flags /\ Signals /\ Waits
  BY RxSplit
<1>2. /\ rpc' = "check" /\ want' = w /\ ms' = t /\ waited' = 0
      /\ UNCHANGED <<left, nNumItems, ret>>
  BY DEF rtss_mb_read_timed
<1>3. Outside /\ (stale' <=> Outstanding)
  BY Zenon DEF rtss_mb_read_timed, Outside, rtss, env, Outstanding
<1>4. stale' \in BOOLEAN
  BY Zenon DEF rtss_mb_read_timed
<1>5. CallTypes'
  BY <1>1, <1>2, RxAssumption DEF CallTypes
<1>6. Signals'
  <2>1. SignalMeansItems'
    BY <1>3, OutsideSignals, Zenon DEF SignalMeansItems
  <2> QED
    BY <1>2, <2>1 DEF Signals, NoLostWakeup, DrainHasSignal, RecheckFinds
<1>7. Waits'
  BY <1>2, RxAssumption DEF Waits, CountCovered, WaitBounded, TimeAddsUp, CallArguments
<1> QED
  BY <1>1, <1>3, <1>4, <1>5, <1>6, <1>7, OutsideInv, RxSplitNext

\* The ring is looked at: the call blocks on an empty ring only, and with all
\* of its timeout to wait if it has waited before for a stale signal.
LEMMA CheckRingInv ==
    ASSUME RxInv, CheckRing
    PROVE  RxInv'
<1>1. Counters /\ CallTypes /\ Flags /\ Signals /\ Waits
  BY RxSplit
<1>2. Outside /\ rpc = "check"
  BY Zenon DEF CheckRing, Outside, rtss, env
<1>3. CASE ~mbok
  <2>1. Return(EIO)
    BY <1>3, Zenon DEF CheckRing
  <2>2. Flags' /\ Counters'
    <3>1. stale' = FALSE
      BY <2>1, Zenon DEF Return
    <3> QED
      BY <1>1, <1>2, <3>1, OutsideInv, Zenon
  <2> QED
    BY <2>1, <2>2, ReturnInv
<1>4. CASE mbok
  <2>1. /\ nNumItems' = Unread
        /\ rpc' = IF Unread = 0 THEN "poll" ELSE "read"
        /\ left' = ms
        /\ UNCHANGED <<want, ms, waited, ret>>
    BY <1>4 DEF CheckRing, args
  <2>2. stale' = stale
    BY <1>4, Zenon DEF CheckRing, args
  <2>3. Flags' /\ Counters'
    BY <1>1, <1>2, <2>2, OutsideInv, Zenon DEF Flags
  <2>4. Unread \in 0..Capacity /\ Unread' = Unread /\ (Outstanding' <=> Outstanding)
    BY <1>1, <1>2, OutsideSignals DEF Counters, Unread
  <2>5. CallTypes'
    BY <1>1, <2>1, <2>4, TimeoutTypes DEF CallTypes
  <2>6. Signals'
    <3>1. NoLostWakeup' /\ DrainHasSignal' /\ RecheckFinds'
      BY <2>1, <2>4, RxAssumption DEF NoLostWakeup, DrainHasSignal, RecheckFinds
    <3>2. SignalMeansItems'
      BY <1>1, <1>2, <2>2, <2>4, Zenon DEF Signals, SignalMeansItems
    <3> QED
      BY <3>1, <3>2 DEF Signals
  <2>7. Waits'
    <3>1. CountCovered'
      BY <2>1, <2>4, RxAssumption DEF CountCovered
    <3>2. WaitBounded'
      BY <1>1, <2>1, <2>2, Zenon DEF Waits, WaitBounded
    <3>3. TimeAddsUp'
      <4> SUFFICES ASSUME rpc' = "poll", ~stale', ms' >= 0 PROVE waited' + left' = ms'
        BY DEF TimeAddsUp
      <4>1. Unread = 0
        BY <2>1
      <4>2. ~stale
        BY <2>2, Zenon
      <4>3. waited = 0
        BY <1>1, <1>2, <4>1, <4>2 DEF Signals, RecheckFinds, CallTypes
      <4> QED
        BY <1>1, <2>1, <4>3, TimeoutTypes
    <3>4. CallArguments'
      BY <1>1, <1>2, <2>1 DEF Waits, CallArguments
    <3> QED
      BY <3>1, <3>2, <3>3, <3>4 DEF Waits
  <2> QED
    BY <2>3, <2>5, <2>6, <2>7, RxSplitNext
<1> QED
  BY <1>3, <1>4

\* poll() reports a signal.
LEMMA PollReadyInv ==
    ASSUME RxInv, PollReady
    PROVE  RxInv'
<1>1. Counters /\ CallTypes /\ Flags /\ Signals /\ Waits
  BY RxSplit
<1>2. /\ rpc = "poll" /\ rpc' = "drain" /\ evcnt > 0 /\ evcnt' = evcnt
      /\ UNCHANGED <<want, ms, left, waited, nNumItems, ret>>
  BY DEF PollReady, args
<1>3. Outside /\ stale' = stale
  BY Zenon DEF PollReady, Outside, rtss, env, args
<1>4. CallTypes'
  BY <1>1, <1>2 DEF CallTypes
<1>5. Signals'
  <2>1. SignalMeansItems'
    BY <1>1, <1>2, <1>3, OutsideSignals, Zenon DEF Signals, SignalMeansItems
  <2> QED
    BY <1>2, <2>1 DEF Signals, NoLostWakeup, DrainHasSignal, RecheckFinds
<1>6. Waits'
  <2>1. WaitBounded'
    BY <1>1, <1>2, <1>3, Zenon DEF Waits, WaitBounded
  <2> QED
    BY <1>1, <1>2, <2>1 DEF Waits, CountCovered, TimeAddsUp, CallArguments
<1> QED
  BY <1>1, <1>3, <1>4, <1>5, <1>6, OutsideInv, RxSplitNext DEF Flags

\* A tick of waiting is taken off what is left.
LEMMA PollTickInv ==
    ASSUME RxInv, PollTick
    PROVE  RxInv'
<1>1. Counters /\ CallTypes /\ Flags /\ Signals /\ Waits
  BY RxSplit
<1>2. /\ rpc = "poll" /\ left > 0 /\ left' = left - 1 /\ waited' = waited + 1
      /\ UNCHANGED <<rpc, want, ms, nNumItems, ret>>
  BY DEF PollTick, args
<1>3. Outside /\ stale' = stale
  BY Zenon DEF PollTick, Outside, rtss, env, args
<1>4. CallTypes'
  BY <1>1, <1>2 DEF CallTypes
<1>5. Signals'
  <2>1. NoLostWakeup' /\ SignalMeansItems'
    BY <1>1, <1>2, <1>3, OutsideSignals, Zenon DEF Signals, NoLostWakeup, SignalMeansItems, Outstanding
  <2> QED
    BY <1>2, <2>1 DEF Signals, DrainHasSignal, RecheckFinds
<1>6. ASSUME ~stale', ms' >= 0 PROVE waited' + left' = ms' /\ waited' <= ms'
  <2>1. ~stale
    BY <1>3, <1>6, Zenon
  <2>2. waited + left = ms
    BY <1>1, <1>2, <1>6, <2>1 DEF Waits, TimeAddsUp
  <2>3. waited \in Nat /\ left \in Nat
    BY <1>1, <1>2 DEF CallTypes
  <2> QED
    BY <1>2, <2>2, <2>3
<1>7. Waits'
  BY <1>1, <1>2, <1>6 DEF Waits, CountCovered, WaitBounded, TimeAddsUp, CallArguments, CallTypes
<1> QED
  BY <1>1, <1>3, <1>4, <1>5, <1>7, OutsideInv, RxSplitNext DEF Flags

\* The counter is taken before the ring is looked at again; if nothing was
\* stale it stood for items.
LEMMA EventfdReadInv ==
    ASSUME RxInv, EventfdRead
    PROVE  RxInv'
<1>1. Counters /\ CallTypes /\ Flags /\ Signals /\ Waits
  BY RxSplit
<1>2. rpc = "drain" /\ UNCHANGED <<sent, recvd, owed, irq, mbok, fdok, nomem, sigs, resets>>
  BY Zenon DEF EventfdRead, rtss, env
<1>3. CASE ~fdok
  <2>1. Return(EBADF) /\ evcnt' = evcnt
    BY <1>3, Zenon DEF EventfdRead
  <2>2. Flags' /\ Counters'
    BY <1>1, <1>2, <2>1, Zenon DEF Flags, Counters, Return
  <2> QED
    BY <2>1, <2>2, ReturnInv
<1>4. CASE fdok
  <2>1. /\ evcnt' = 0 /\ rpc' = "check"
        /\ UNCHANGED <<want, ms, left, waited, nNumItems, ret>>
    BY <1>4 DEF EventfdRead, args
  <2>2. stale' = stale
    BY <1>4, Zenon DEF EventfdRead, args
  <2>3. Counters'
    BY <1>1, <1>2, <2>1 DEF Counters
  <2>4. Flags'
    BY <1>1, <1>2, <2>2, Zenon DEF Flags
  <2>5. CallTypes'
    BY <1>1, <2>1 DEF CallTypes
  <2>6. ~stale' => Unread' > 0
    <3>1. Unread' = Unread
      BY <1>2, Zenon DEF Unread
    <3>2. Outstanding
      BY <1>1, <1>2 DEF Signals, DrainHasSignal, Outstanding
    <3>3. rpc # "idle"
      BY <1>2
    <3> QED
      BY <1>1, <2>2, <3>1, <3>2, <3>3, Zenon DEF Signals, SignalMeansItems
  <2>7. Signals'
    BY <2>1, <2>6 DEF Signals, NoLostWakeup, SignalMeansItems, DrainHasSignal, RecheckFinds
  <2>8. Waits'
    <3>1. WaitBounded'
      BY <1>1, <2>1, <2>2, Zenon DEF Waits, WaitBounded
    <3> QED
      BY <1>1, <1>2, <2>1, <3>1 DEF Waits, CountCovered, TimeAddsUp, CallArguments
  <2> QED
    BY <2>3, <2>4, <2>5, <2>7, <2>8, RxSplitNext
<1> QED
  BY <1>3, <1>4

\* The count that decided to read is still covered, and a buffer holds at
\* least one item.
LEMMA ReadItemsInv ==
    ASSUME RxInv, ReadItems
    PROVE  RxInv' /\ (rpc' = "idle") /\ (ret' > 0 \/ ~mbok')
<1> DEFINE n == IF nNumItems > want THEN want ELSE nNumItems
<1>1. Counters /\ CallTypes /\ Flags /\ Signals /\ Waits
  BY RxSplit
<1>2. UNCHANGED <<sent, owed, irq, evcnt, mbok, fdok, nomem, sigs, resets>> /\ rpc = "read"
  BY Zenon DEF ReadItems, rtss, env
<1>3. n \in 1..(sent - recvd) /\ n \in 1..MaxWant
  BY <1>1, <1>2, RxAssumption DEF Waits, CountCovered, CallArguments, CallTypes, Counters, Unread
<1>4. Flags'
  BY <1>1, <1>2, Zenon DEF Flags, ReadItems, Return
<1>5. CASE mbok
  <2>1. recvd' = recvd + n /\ Return(n)
    BY <1>5 DEF ReadItems
  <2>2. Counters'
    BY <1>1, <1>2, <1>3, <2>1, RxAssumption DEF Counters
  <2>3. n \in 0..MaxWant \cup {EINTR, EIO, EBADF, ENOMEM, ECONNRESET, ETIMEDOUT}
    BY <1>3
  <2>4. rpc' = "idle" /\ ret' > 0
    BY <1>3, <2>1 DEF Return
  <2> QED
    BY <1>4, <2>1, <2>2, <2>3, <2>4, ReturnInv
<1>6. CASE ~mbok
  <2>1. recvd' = recvd /\ Return(EIO)
    BY <1>6, Zenon DEF ReadItems
  <2>2. Counters'
    BY <1>1, <1>2, <2>1 DEF Counters
  <2>3. ~mbok'
    BY <1>2, <1>6, Zenon
  <2> QED
    BY <1>4, <2>1, <2>2, <2>3, ReturnInv DEF Return
<1> QED
  BY <1>5, <1>6

\* The other ways to return: a timeout, an error of poll() or a signal.
LEMMA FailureInv ==
    ASSUME RxInv, NEW v \in {EINTR, ENOMEM, ECONNRESET, ETIMEDOUT}, Return(v),
           UNCHANGED <<sent, recvd, owed, irq, evcnt, mbok, fdok, resets>>,
           nomem' \in BOOLEAN, sigs' \in 0..MaxSignals
    PROVE  RxInv'
<1>1. Counters /\ Flags
  BY RxSplit
<1>2. Counters'
  BY <1>1 DEF Counters
<1>3. Flags'
  BY <1>1, Zenon DEF Flags, Return
<1> QED
  BY <1>2, <1>3, ReturnInv

\* A reset between two calls.
LEMMA ResetInv ==
    ASSUME RxInv, rtss_mb_chan_reset
    PROVE  RxInv'
<1>1. Counters /\ CallTypes /\ Flags /\ Signals /\ Waits
  BY RxSplit
<1>2. /\ rpc = "idle" /\ rpc' = "idle"
      /\ UNCHANGED <<sent, evcnt, sigs, want, ms, left, waited, nNumItems>>
      /\ resets < MaxResets /\ resets' = resets + 1
      /\ recvd' \in {recvd, sent} /\ ret' \in {0, EIO}
  <2>1. /\ rpc = "idle" /\ UNCHANGED rpc
        /\ UNCHANGED <<sent, evcnt, sigs, want, ms, left, waited, nNumItems>>
        /\ resets < MaxResets /\ resets' = resets + 1
    BY Zenon DEF rtss_mb_chan_reset, rtss, args, env
  <2>2. recvd' \in {recvd, sent} /\ ret' \in {0, EIO}
    BY Zenon DEF rtss_mb_chan_reset
  <2> QED
    BY <2>1, <2>2
<1>3. UNCHANGED <<owed, irq, mbok, fdok, nomem, stale>>
  BY Zenon DEF rtss_mb_chan_reset, rtss, args, env
<1>4. Counters'
  <2>1. sent' - recvd' \in 0..Capacity
    <3>1. CASE recvd' = recvd
      BY <1>1, <1>2, <3>1 DEF Counters
    <3>2. CASE recvd' = sent
      <4>1. sent - sent = 0 /\ 0 \in 0..Capacity
        BY <1>1, RxAssumption DEF Counters
      <4> QED
        BY <1>2, <3>2, <4>1
    <3> QED
      BY <1>2, <3>1, <3>2
  <2>2. recvd' \in 0..MaxItems
    BY <1>1, <1>2 DEF Counters
  <2>3. resets' \in 0..MaxResets
    BY <1>1, <1>2, RxAssumption DEF Counters
  <2>4. sent' \in 0..MaxItems /\ evcnt' \in Nat /\ sigs' \in 0..MaxSignals
    BY <1>1, <1>2 DEF Counters
  <2> QED
    BY <2>1, <2>2, <2>3, <2>4 DEF Counters
<1>5. CallTypes'
  BY <1>1, <1>2, RxAssumption DEF CallTypes
<1>6. Flags'
  BY <1>1, <1>3, Zenon DEF Flags
<1>7. Signals'
  BY <1>2 DEF Signals, NoLostWakeup, SignalMeansItems, DrainHasSignal, RecheckFinds
<1>8. Waits'
  <2>1. WaitBounded'
    BY <1>1, <1>2, <1>3, Zenon DEF Waits, WaitBounded
  <2> QED
    BY <1>2, <2>1 DEF Waits, CountCovered, TimeAddsUp, CallArguments
<1> QED
  BY <1>4, <1>5, <1>6, <1>7, <1>8, RxSplitNext

\* A step in which the receive path takes no part, but for a signal that is
\* counted.
LEMMA BystanderInv ==
    ASSUME RxInv, sigs' \in 0..MaxSignals,
           UNCHANGED <<sent, recvd, owed, irq, evcnt, mbok, fdok, nomem, resets>>,
           UNCHANGED <<rpc, want, ms, stale, left, waited, nNumItems, ret>>
    PROVE  RxInv'
<1>1. Counters /\ CallTypes /\ Flags /\ Signals /\ Waits
  BY RxSplit
<1>2. Unread' = Unread /\ (Outstanding' <=> Outstanding)
  BY Zenon DEF Unread, Outstanding
<1>3. Counters'
  BY <1>1 DEF Counters
<1>4. CallTypes'
  BY <1>1 DEF CallTypes
<1>5. Flags'
  BY <1>1, Zenon DEF Flags
<1>6. Signals'
  <2>1. NoLostWakeup' /\ DrainHasSignal'
    BY <1>1, <1>2, Zenon DEF Signals, NoLostWakeup, DrainHasSignal
  <2>2. SignalMeansItems' /\ RecheckFinds'
    BY <1>1, <1>2, Zenon DEF Signals, SignalMeansItems, RecheckFinds
  <2> QED
    BY <2>1, <2>2 DEF Signals
<1>7. Waits'
  <2>1. WaitBounded' /\ TimeAddsUp'
    BY <1>1, Zenon DEF Waits, WaitBounded, TimeAddsUp
  <2>2. CountCovered' /\ CallArguments'
    BY <1>1, <1>2 DEF Waits, CountCovered, CallArguments
  <2> QED
    BY <2>1, <2>2 DEF Waits
<1> QED
  BY <1>3, <1>4, <1>5, <1>6, <1>7, RxSplitNext

\* Nothing happens on the receive path.
LEMMA StutterInv == RxInv /\ UNCHANGED vars => RxInv'
<1> SUFFICES ASSUME RxInv, UNCHANGED vars PROVE RxInv'
  OBVIOUS
<1>1. /\ UNCHANGED <<sent, recvd, owed, irq, evcnt, mbok, fdok, nomem, resets>>
      /\ UNCHANGED <<rpc, want, ms, stale, left, waited, nNumItems, ret>>
      /\ sigs' = sigs
  BY Zenon DEF vars, rtss, env, call, args
<1>2. sigs' \in 0..MaxSignals
  BY <1>1 DEF RxInv, TypeOK
<1> QED
  BY <1>1, <1>2, BystanderInv

-----------------------------------------------------------------------------
(***************************************************************************)
(* The receive path, whoever calls it.                                     *)
(***************************************************************************)
LEMMA InitInv == Init => RxInv
<1> SUFFICES ASSUME Init PROVE RxInv
  OBVIOUS
<1>1. Counters /\ CallTypes
  BY RxAssumption DEF Init, Counters, CallTypes
<1>2. Flags
  BY Zenon DEF Init, Flags
<1>3. Signals /\ Waits
  BY DEF Init, Signals, Waits, NoLostWakeup, SignalMeansItems, DrainHasSignal, RecheckFinds,
         CountCovered, WaitBounded, TimeAddsUp, CallArguments
<1> QED
  BY <1>1, <1>2, <1>3, RxSplit

\* The four ways in which a wait ends without a signal.
LEMMA TimeoutOrErrorInv ==
    ASSUME RxInv, PollTimeout \/ PollError \/ PollInterrupted \/ PollFails
    PROVE  RxInv'
<1>1. CASE PollTimeout
  <2>1. UNCHANGED <<sent, recvd, owed, irq, evcnt, mbok, fdok, nomem, resets, sigs>> /\ Return(ETIMEDOUT)
    BY <1>1, Zenon DEF PollTimeout, rtss, env
  <2>2. sigs' \in 0..MaxSignals /\ nomem' \in BOOLEAN
    BY <2>1 DEF RxInv, TypeOK
  <2> QED
    BY <2>1, <2>2, FailureInv
<1>2. CASE PollError
  <2>1. UNCHANGED <<sent, recvd, owed, irq, evcnt, mbok, fdok, nomem, resets, sigs>> /\ Return(ECONNRESET)
    BY <1>2, Zenon DEF PollError, rtss, env
  <2>2. sigs' \in 0..MaxSignals /\ nomem' \in BOOLEAN
    BY <2>1 DEF RxInv, TypeOK
  <2> QED
    BY <2>1, <2>2, FailureInv
<1>3. CASE PollInterrupted
  <2>1. UNCHANGED <<sent, recvd, owed, irq, evcnt, mbok, fdok, nomem, resets>> /\ Return(EINTR)
    BY <1>3, Zenon DEF PollInterrupted, rtss
  <2>2. sigs' \in 0..MaxSignals /\ nomem' \in BOOLEAN
    BY <1>3, RxAssumption DEF PollInterrupted, RxInv, TypeOK
  <2> QED
    BY <2>1, <2>2, FailureInv
<1>4. CASE PollFails
  <2>1. UNCHANGED <<sent, recvd, owed, irq, evcnt, mbok, fdok, resets, sigs>> /\ Return(ENOMEM)
    BY <1>4, Zenon DEF PollFails, rtss
  <2>2. sigs' \in 0..MaxSignals /\ nomem' \in BOOLEAN
    BY <1>4, <2>1 DEF PollFails, RxInv, TypeOK
  <2> QED
    BY <2>1, <2>2, FailureInv
<1> QED
  BY <1>1, <1>2, <1>3, <1>4

\* Every step of a call keeps the invariant.
LEMMA ReadStepInv ==
    ASSUME RxInv, ReadStep
    PROVE  RxInv'
BY CheckRingInv, PollReadyInv, PollTickInv, TimeoutOrErrorInv, EventfdReadInv, ReadItemsInv DEF ReadStep

\* A call by any caller, with any timeout.
LEMMA AnyCallInv ==
    ASSUME RxInv, Call
    PROVE  RxInv'
<1>1. PICK w \in 1..MaxWant, t \in Timeouts : rtss_mb_read_timed(w, t)
  BY DEF Call
<1> QED
  BY <1>1, CallInv

\* The invariant of the receive path, for every caller that is not the console.
THEOREM RxInvariance == Spec => []RxInv
<1>1. RxInv /\ [Next]_vars => RxInv'
  BY EnvironmentInv, ReadStepInv, TimeoutOrErrorInv, AnyCallInv, ResetInv, StutterInv DEF Next
<1> QED
  BY <1>1, InitInv, PTL DEF Spec

-----------------------------------------------------------------------------
(***************************************************************************)
(* The console on top of it.                                               *)
(***************************************************************************)
\* A call without a timeout that returns has read something, or the mailbox or
\* the eventfd is gone: it neither times out nor reads 0 items.
LEMMA ReadOutcome ==
    ASSUME RxInv, ReadStep
    PROVE  /\ rpc # "idle"
           /\ rpc' # "idle" => ms' = ms
           /\ rpc' = "idle" /\ ms = -1 => ret' > 0 \/ ~mbok' \/ ~fdok'
           /\ UNCHANGED <<mbok, fdok, nomem>>
<1>1. UNCHANGED <<mbok, fdok, nomem>>
  BY Zenon DEF ReadStep, CheckRing, PollReady, PollTick, PollTimeout, PollError, EventfdRead, ReadItems, env
<1>2. rpc # "idle"
  BY DEF ReadStep, CheckRing, PollReady, PollTick, PollTimeout, PollError, EventfdRead, ReadItems
<1>3. CASE CheckRing
  <2>1. CASE mbok
    BY <1>1, <1>2, <1>3, <2>1 DEF CheckRing, args
  <2>2. CASE ~mbok
    <3>1. rpc' = "idle" /\ ~mbok'
      BY <1>1, <1>3, <2>2, Zenon DEF CheckRing, Return
    <3> QED
      BY <1>1, <1>2, <3>1
  <2> QED
    BY <2>1, <2>2
<1>4. CASE PollReady
  BY <1>1, <1>2, <1>4 DEF PollReady, args
<1>5. CASE PollTick
  BY <1>1, <1>2, <1>5 DEF PollTick, args
<1>6. CASE PollTimeout
  <2>1. rpc' = "idle" /\ left = 0 /\ rpc = "poll"
    BY <1>6 DEF PollTimeout, Return
  <2>2. ms # -1
    BY <2>1 DEF RxInv, CallArguments
  <2> QED
    BY <1>1, <1>2, <2>1, <2>2
<1>7. CASE PollError
  <2>1. rpc' = "idle" /\ ~fdok'
    BY <1>1, <1>7, Zenon DEF PollError, Return
  <2> QED
    BY <1>1, <1>2, <2>1
<1>8. CASE EventfdRead
  <2>1. CASE fdok
    BY <1>1, <1>2, <1>8, <2>1 DEF EventfdRead, args
  <2>2. CASE ~fdok
    <3>1. rpc' = "idle" /\ ~fdok'
      BY <1>1, <1>8, <2>2, Zenon DEF EventfdRead, Return
    <3> QED
      BY <1>1, <1>2, <3>1
  <2> QED
    BY <2>1, <2>2
<1>9. CASE ReadItems
  BY <1>1, <1>2, <1>9, ReadItemsInv
<1> QED
  BY <1>3, <1>4, <1>5, <1>6, <1>7, <1>8, <1>9 DEF ReadStep

\* What ends the console is never taken back.
LEMMA ReasonStays ==
    ASSUME g_running' = g_running \/ ~g_running', outok' = outok \/ ~outok',
           mbok' = mbok \/ ~mbok', fdok' = fdok \/ ~fdok',
           nomem => nomem', Reason
    PROVE  Reason'
BY Zenon DEF Reason

\* RTSS, the driver and what fails give the console at most a reason to stop.
LEMMA ConsoleEnvironment ==
    ASSUME ConsoleInv, Environment, UNCHANGED <<g_running, cpc, outok>>
    PROVE  ConsoleInv'
<1>1. UNCHANGED <<rpc, ms, ret, cpc>>
  BY Zenon DEF Environment, RtssWrite, RtssInterrupt, KmdSignal, RtssLost, FdLost, call, args, env
<1>2. (mbok' = mbok \/ ~mbok') /\ (fdok' = fdok \/ ~fdok') /\ nomem' = nomem
  BY Zenon DEF Environment, RtssWrite, RtssInterrupt, KmdSignal, RtssLost, FdLost, env
<1>3. Reason => Reason'
  BY <1>2, ReasonStays, Zenon
<1> QED
  BY <1>1, <1>3, Zenon DEF ConsoleInv

\* A call that returns to the console returns items, or for a reason.
LEMMA ConsoleRead ==
    ASSUME RxInv, ConsoleInv, ReadStep, UNCHANGED <<g_running, cpc, outok>>
    PROVE  ConsoleInv'
<1>1. UNCHANGED <<mbok, fdok, nomem, g_running, outok, cpc>>
  BY ReadOutcome, Zenon
<1>2. cpc \in {"off", "reading"}
  BY ReadOutcome DEF ConsoleInv
<1>3. ~mbok' \/ ~fdok' => Reason'
  BY Zenon DEF Reason
<1>4. cpc = "reading" => ms = -1
  BY ReadOutcome DEF ConsoleInv
<1>5. cpc' = "reading" /\ rpc' # "idle" => ms' = -1
  BY <1>1, <1>4, ReadOutcome
<1>6. cpc' = "reading" /\ rpc' = "idle" => ret' > 0 \/ Reason'
  BY <1>1, <1>3, <1>4, ReadOutcome, Zenon
<1> QED
  BY <1>1, <1>2, <1>5, <1>6 DEF ConsoleInv

\* The console's own steps.
LEMMA ConsoleLoop ==
    ASSUME RxInv, ConsoleInv, ConsoleStep
    PROVE  ConsoleInv' /\ RxInv'
<1>1. CASE LoopTest
  <2>1. CASE g_running
    <3>1. rtss_mb_read_timed(MaxWant, -1) /\ cpc' = "reading"
      BY <1>1, <2>1, Zenon DEF LoopTest
    <3>2. rpc' = "check" /\ ms' = -1
      BY <3>1 DEF rtss_mb_read_timed
    <3>3. MaxWant \in 1..MaxWant /\ -1 \in Timeouts \cup {-1}
      BY RxAssumption
    <3>4. RxInv'
      BY <3>1, <3>3, CallInv
    <3> QED
      BY <3>1, <3>2, <3>4 DEF ConsoleInv
  <2>2. CASE ~g_running
    <3>1. cpc = "test" /\ cpc' = "closing" /\ UNCHANGED vars /\ UNCHANGED rpc
      BY <1>1, <2>2, Zenon DEF LoopTest, vars, call
    <3>2. Reason'
      BY <1>1, <2>2, Zenon DEF LoopTest, Reason
    <3>3. rpc' = "idle"
      BY <3>1 DEF ConsoleInv
    <3> QED
      BY <3>1, <3>2, <3>3, StutterInv DEF ConsoleInv
  <2> QED
    BY <2>1, <2>2
<1>2. CASE AfterRead
  <2>1. cpc = "reading" /\ rpc' = "idle" /\ rpc = "idle" /\ UNCHANGED vars
    BY <1>2, Zenon DEF AfterRead, vars, call
  <2>2. UNCHANGED <<g_running, outok, mbok, fdok, nomem, ret>>
    BY <1>2, Zenon DEF AfterRead, vars, call, env
  <2>3. CASE ret <= 0 \/ ~outok
    <3>1. cpc' = "closing"
      BY <1>2, <2>3, Zenon DEF AfterRead
    <3>2. ret \in Int
      BY RxAssumption DEF RxInv, TypeOK, EINTR, EIO, EBADF, ENOMEM, ECONNRESET, ETIMEDOUT
    <3>3. ret > 0 \/ Reason
      BY <2>1 DEF ConsoleInv
    <3>4. ret <= 0 => ~(ret > 0)
      BY <3>2
    <3>5. Reason
      BY <2>3, <3>3, <3>4, Zenon DEF Reason
    <3>6. Reason'
      BY <2>2, <3>5, ReasonStays, Zenon
    <3> QED
      BY <2>1, <3>1, <3>6, StutterInv DEF ConsoleInv
  <2>4. CASE ~(ret <= 0 \/ ~outok)
    <3>1. cpc' = "test"
      BY <1>2, <2>4, Zenon DEF AfterRead
    <3> QED
      BY <2>1, <3>1, StutterInv DEF ConsoleInv
  <2> QED
    BY <2>3, <2>4
<1>3. CASE CloseAndExit
  <2>1. cpc = "closing" /\ cpc' = "done" /\ UNCHANGED vars /\ UNCHANGED rpc
    BY <1>3, Zenon DEF CloseAndExit, vars, call
  <2>2. UNCHANGED <<g_running, outok, mbok, fdok, nomem>>
    BY <1>3, Zenon DEF CloseAndExit, vars, env
  <2>3. Reason
    BY <2>1 DEF ConsoleInv
  <2>4. Reason'
    BY <2>2, <2>3, ReasonStays, Zenon
  <2>5. rpc' = "idle"
    BY <2>1 DEF ConsoleInv
  <2> QED
    BY <2>1, <2>4, <2>5, StutterInv DEF ConsoleInv
<1> QED
  BY <1>1, <1>2, <1>3 DEF ConsoleStep

\* The handler of a signal.
LEMMA ConsoleSignal ==
    ASSUME RxInv, ConsoleInv, Signal
    PROVE  ConsoleInv' /\ RxInv'
<1>1. /\ cpc \in {"test", "reading", "closing"} /\ cpc' = cpc
      /\ UNCHANGED <<sent, recvd, owed, irq, evcnt, mbok, fdok, nomem, resets>>
  BY DEF Signal, ConsoleInv, rtss
<1>2. sigs' \in 0..MaxSignals /\ nomem' \in BOOLEAN
  BY RxAssumption, <1>1 DEF Signal, RxInv, TypeOK
<1>3. Reason'
  BY Zenon DEF Signal, Reason
<1>4. CASE rpc = "poll"
  <2>1. Return(EINTR)
    BY <1>4, Zenon DEF Signal
  <2>2. rpc' = "idle"
    BY <2>1 DEF Return
  <2> QED
    BY <1>1, <1>2, <1>3, <2>1, <2>2, FailureInv DEF ConsoleInv
<1>5. CASE rpc # "poll"
  <2>1. UNCHANGED <<rpc, want, ms, stale, left, waited, nNumItems, ret>>
    BY <1>5, Zenon DEF Signal, call, args
  <2>2. ConsoleInv'
    BY <1>1, <1>3, <2>1 DEF ConsoleInv
  <2>3. RxInv'
    BY <1>1, <1>2, <2>1, BystanderInv
  <2> QED
    BY <2>2, <2>3
<1> QED
  BY <1>4, <1>5

\* The invariant of the channel and the console together.
THEOREM Invariance == ConsoleSpec => []IInv
<1>1. ConsoleInit => IInv
  <2> SUFFICES ASSUME ConsoleInit PROVE IInv
    OBVIOUS
  <2>1. RxInv
    BY InitInv DEF ConsoleInit
  <2>2. cpc \in {"test", "off"} /\ rpc = "idle"
    BY DEF ConsoleInit, Init
  <2> QED
    BY <2>1, <2>2 DEF IInv, ConsoleInv
<1>2. IInv /\ [ConsoleNext]_cvars => IInv'
  <2> SUFFICES ASSUME IInv, [ConsoleNext]_cvars PROVE IInv'
    OBVIOUS
  <2>1. RxInv /\ ConsoleInv
    BY DEF IInv
  <2>2. CASE Environment /\ UNCHANGED <<g_running, cpc, outok>>
    BY <2>1, <2>2, EnvironmentInv, ConsoleEnvironment DEF IInv
  <2>3. CASE ReadStep /\ UNCHANGED <<g_running, cpc, outok>>
    BY <2>1, <2>3, ReadStepInv, ConsoleRead DEF IInv
  <2>4. CASE OtherUser /\ UNCHANGED <<g_running, cpc, outok>>
    <3>1. RxInv'
      BY <2>1, <2>4, AnyCallInv, TimeoutOrErrorInv, ResetInv DEF OtherUser
    <3>2. cpc' = "off"
      BY <2>4, Zenon DEF OtherUser
    <3> QED
      BY <3>1, <3>2 DEF IInv, ConsoleInv
  <2>5. CASE ConsoleStep
    BY <2>1, <2>5, ConsoleLoop DEF IInv
  <2>6. CASE Signal
    BY <2>1, <2>6, ConsoleSignal DEF IInv
  <2>7. CASE StdoutFails
    <3>1. UNCHANGED vars /\ cpc' = cpc /\ UNCHANGED <<rpc, ms, ret>>
      BY <2>7, Zenon DEF StdoutFails, vars, call, args
    <3>2. Reason'
      BY <2>7, Zenon DEF StdoutFails, Reason
    <3> QED
      BY <2>1, <3>1, <3>2, StutterInv DEF IInv, ConsoleInv
  <2>8. CASE PollFails /\ UNCHANGED <<g_running, cpc, outok>>
    <3>1. RxInv'
      BY <2>1, <2>8, TimeoutOrErrorInv
    <3>2. rpc = "poll" /\ rpc' = "idle" /\ nomem' = TRUE
      BY <2>8 DEF PollFails, Return
    <3>3. Reason'
      BY <3>2, Zenon DEF Reason
    <3> QED
      BY <2>1, <2>8, <3>1, <3>2, <3>3 DEF IInv, ConsoleInv
  <2>9. CASE UNCHANGED cvars
    <3>1. UNCHANGED vars /\ UNCHANGED <<rpc, ms, ret, cpc, mbok, fdok, nomem, g_running, outok>>
      BY <2>9, Zenon DEF cvars, vars, call, args, env
    <3>2. Reason => Reason'
      BY <3>1, Zenon DEF Reason
    <3> QED
      BY <2>1, <3>1, <3>2, StutterInv DEF IInv, ConsoleInv
  <2> QED
    BY <2>2, <2>3, <2>4, <2>5, <2>6, <2>7, <2>8, <2>9 DEF ConsoleNext
<1> QED
  BY <1>1, <1>2, PTL DEF ConsoleSpec

-----------------------------------------------------------------------------
(***************************************************************************)
(* What the invariant says about a channel and about the console.          *)
(***************************************************************************)
\* No more is consumed than was published, and every return value of
\* rtss_mb_read_timed fits the buffer or is one of its errors.
THEOREM TypeCorrect == ConsoleSpec => []TypeOK
<1>1. IInv => TypeOK
  BY DEF IInv, RxInv
<1> QED
  BY <1>1, Invariance, PTL

\* A caller blocked in poll() while the ring holds items has a wake-up coming.
THEOREM WakeupKept == ConsoleSpec => []NoLostWakeup
<1>1. IInv => NoLostWakeup
  BY DEF IInv, RxInv
<1> QED
  BY <1>1, Invariance, PTL

\* A call waits no longer than its timeout when no signal was outstanding as it
\* began.
THEOREM WaitIsBounded == ConsoleSpec => []WaitBounded
<1>1. IInv => WaitBounded
  BY DEF IInv, RxInv
<1> QED
  BY <1>1, Invariance, PTL

\* The console ends for a signal, a dead mailbox, a lost eventfd, a failing
\* poll() or a failing output.
THEOREM StopsOnlyForAReason == ConsoleSpec => []StopsForAReason
<1>1. IInv => StopsForAReason
  BY DEF IInv, ConsoleInv, Reason, StopsForAReason
<1> QED
  BY <1>1, Invariance, PTL

\* The same of the receive path on its own.
COROLLARY ReceiveAlone == Spec => [](NoLostWakeup /\ WaitBounded)
<1>1. RxInv => NoLostWakeup /\ WaitBounded
  BY DEF RxInv
<1> QED
  BY <1>1, RxInvariance, PTL
=============================================================================
