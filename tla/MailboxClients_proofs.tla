------------------------- MODULE MailboxClients_proofs -------------------------
(***************************************************************************)
(* Programs on the mailbox, one after another, for any directory, any      *)
(* pairs of channels of any size, any number of rounds and of programs:    *)
(* what a program holds for its handles is balanced, every answer it reads *)
(* is the answer to what it asked, and it leaves nothing behind.           *)
(***************************************************************************)
EXTENDS MailboxClients, FiniteSetTheorems, TLAPS

-----------------------------------------------------------------------------
(***************************************************************************)
(* The inductive invariant                                                 *)
(***************************************************************************)
\* What the channels carry.
Requests(p) == [pair : {p}, id : Nat, kind : {"one", "many", "kpi"}, items : Nat]
Messages(p) == [pair : {p}, id : Nat, part : {"data", "end"}]

\* The channels hold well-formed items of their own pair, and no more than
\* they have room for.
ChannelTypes ==
    /\ down = [p \in Pairs |-> down[p]]
    /\ hand = [p \in Pairs |-> hand[p]]
    /\ up = [p \in Pairs |-> up[p]]
    /\ \A p \in Pairs :
        /\ down[p] \in Seq(Requests(p)) /\ Len(down[p]) <= Depth
        /\ hand[p] \in Seq(Seq(Messages(p)))
        /\ up[p] \in Seq(Messages(p)) /\ Len(up[p]) <= Depth

\* The channels that a program of the repository names itself.
Main == {Tx("tst"), Rx("tst")}
OfCores == {Tx(Cores[i]) : i \in DOMAIN Cores} \cup {Rx(Cores[i]) : i \in DOMAIN Cores}

DemoFields == {"prog", "at", "open", "cores", "todo", "count", "core", "g_signal_received"}
DbgFields == {"prog", "at", "open", "todo", "cmd", "stage", "left", "nodes",
              "maxsz", "tbytes", "mcont"}

DemoClosing == {"cleanup", "exit"}
DbgClosing == {"close", "rtssdbg_exit", "exit"}

\* The labels at which the channels of the performance test are open.
Testing == {"getMaxSz", "getMaxSz_wr", "kpi_write", "kpi_read", "kpi_stamp", "kpi_next", "kpi_short"}

\* The performance test is on, its channels open or being opened or closed.
InTest ==
    \/ c.at \in Testing \cup {"kpi_close"}
    \/ c.at \in {"opening", "opened"} /\ c.stage = "kpi"

DemoState ==
    /\ c.open \subseteq OfCores
    /\ c.at \in {"opening", "opened", "iteration", "write", "read", "next"} \cup DemoClosing
    /\ c.at = "exit" => c.open = {}
    /\ c.at \notin DemoClosing =>
        /\ DOMAIN c = DemoFields
        /\ c.cores \in Seq(Pairs)
        /\ Len(c.cores) > 0
        /\ c.todo \in Seq(OfCores)
        /\ c.core \in 1..Len(c.cores)

DbgState ==
    /\ c.at \in {"opening", "opened", "dispatch", "write", "read", "round",
                 "cfg_reset", "cfg_write", "cfg_read", "cfg_passed", "cfg_failed",
                 "kpi_closed", "kpi_close"} \cup Testing \cup DbgClosing
    /\ c.at = "exit" => c.open = {}
    /\ c.at \notin DbgClosing =>
        /\ DOMAIN c = DbgFields
        /\ c.tbytes \in Nat
        /\ c.maxsz \in Nat
        /\ c.at = "opened" => c.todo # <<>>
        /\ c.at \in {"opening", "opened"} => c.stage \in {"main", "kpi"}
        /\ c.at \in {"opening", "opened"} /\ c.stage = "main" => c.todo \in Seq(Main)
        /\ InTest => c.nodes \in KpiNodes
        /\ c.at \in {"opening", "opened"} /\ c.stage = "kpi" =>
            \/ c.todo = c.nodes
            \/ c.todo = <<c.nodes[2]>> /\ c.nodes[1] \in c.open
            \/ c.todo = <<>> /\ {c.nodes[1], c.nodes[2]} \subseteq c.open
        /\ c.at \in Testing => {c.nodes[1], c.nodes[2]} \subseteq c.open
    /\ c.open \subseteq Main \cup (IF c.at \notin DbgClosing /\ InTest
                                   THEN {c.nodes[1], c.nodes[2]} ELSE {})

\* Where a program is, and what its state is made of there.
ProgramState ==
    /\ {"prog", "at", "open"} \subseteq DOMAIN c
    /\ c.prog \in {"none", "mbdemo", "dbg"}
    /\ c.prog = "none" => c = Off
    /\ c.prog = "mbdemo" => DemoState
    /\ c.prog = "dbg" => DbgState

\* What rtss_mb_open holds at each of its steps, on top of what the open
\* handles need.
One(b) == IF b THEN 1 ELSE 0

Ledger ==
    /\ IsFiniteSet(handles)
    /\ live["heap"] = Cardinality(handles) + One(pc # "idle")
    /\ live["fd"] = Cardinality(handles) + One(pc \notin {"idle", "open"})
    /\ live["map"] = Cardinality(handles) + closes
                         + One(pc \notin {"idle", "open", "region", "mmap"})
    /\ live["eventfd"] = Cardinality(Receivers)
                         + One(\/ pc = "register"
                               \/ pc = "done" /\ Directory[Hit(dev)].mode = "RX")

OpenState ==
    /\ pc # "idle" => dev \notin handles
    /\ pc \in {"eventfd", "register"} => Directory[Hit(dev)].mode = "RX"
    /\ pc \in {"eventfd", "register", "done"} => rtssmb_getdevctx(dev) = "SUCCESS"
    /\ \A d \in handles : rtssmb_getdevctx(d) = "SUCCESS"

\* The program knows the handles it has: those it believes open, and one
\* more when rtss_mb_open has succeeded and it has not looked yet.
Believed ==
    /\ c.at # "opened" => pc = "idle" /\ handles = c.open
    /\ c.at = "opened" =>
        /\ c.todo # <<>>
        /\ Head(c.todo) \notin c.open
        /\ pc # "idle" => dev = Head(c.todo) /\ handles = c.open
        /\ pc = "idle" => handles = c.open \cup (IF ret = "SUCCESS" THEN {Head(c.todo)} ELSE {})

\* Nothing is on its way on pair p.
Quiet(p) == down[p] = <<>> /\ hand[p] = <<>> /\ up[p] = <<>>

\* The pair that the program reads from, and what it asked there.
ActivePair ==
    IF c.at \in {"kpi_read", "kpi_stamp"} THEN c.nodes[1][1]
    ELSE IF c.prog = "mbdemo" THEN c.cores[c.core] ELSE "tst"

ActiveKind ==
    IF c.at = "kpi_read" THEN "kpi"
    ELSE IF c.prog = "dbg" /\ c.at = "read" /\ c.cmd = "file" THEN "many" ELSE "one"

Message(p, part) == [pair |-> p, id |-> sent, part |-> part]

Requested(p) ==
    LET n == IF ActiveKind = "kpi" THEN c.tbytes ELSE 1
    IN  /\ c.at # "kpi_stamp"
        /\ n > 0
        /\ down[p] = Copies([pair |-> p, id |-> sent, kind |-> ActiveKind, items |-> n], n)
        /\ hand[p] = <<>>
        /\ up[p] = <<>>

\* A series closed by its end, the beginning of it written and perhaps
\* read, the rest still in RTSS's hand.
Series(p) ==
    /\ down[p] = <<>>
    /\ \/ /\ hand[p] = <<>>
          /\ up[p] # <<>>
          /\ up[p][Len(up[p])] = Message(p, "end")
          /\ \A i \in 1..(Len(up[p]) - 1) : up[p][i] = Message(p, "data")
       \/ /\ hand[p] # <<>>
          /\ hand[p][Len(hand[p])] = <<Message(p, "end")>>
          /\ \A i \in 1..(Len(hand[p]) - 1) : hand[p][i] = <<Message(p, "data")>>
          /\ \A i \in 1..Len(up[p]) : up[p][i] = Message(p, "data")

\* The echo and the timestamp, in RTSS's hand or written.
Echo(p) ==
    LET echo == Copies(Message(p, "data"), c.tbytes)
        stamp == <<Message(p, "end")>>
    IN  /\ down[p] = <<>>
        /\ c.tbytes > 0
        /\ \/ hand[p] = <<echo, stamp>> /\ up[p] = <<>>
           \/ hand[p] = <<stamp>> /\ up[p] = echo
           \/ hand[p] = <<>> /\ up[p] = echo \o stamp

Answering(p) ==
    IF ActiveKind = "kpi" THEN Echo(p)
    ELSE Series(p) /\ (ActiveKind = "one" => Len(hand[p]) + Len(up[p]) = 1)

\* As long as no call failed, a pair that no earlier program left in use is
\* quiet, but for the one request the program waits for the answer of.
Conversation ==
    c.prog # "none" /\ ~fault =>
        \A p \in Pairs \ foreign :
            IF c.at \in Reading /\ p = ActivePair
            THEN Requested(p) \/ Answering(p)
            ELSE Quiet(p)

Counters ==
    /\ sent \in Nat
    /\ c.prog = "none" => got = <<>> /\ fault = FALSE


-----------------------------------------------------------------------------
(***************************************************************************)
(* The handles.  Their part of the invariant is inductive by itself,       *)
(* whatever program makes the calls.                                       *)
(***************************************************************************)
HandleInv == HandleTypeOK /\ Ledger /\ OpenState

\* The channels of pair "tst" are names, so that there is a first name.
LEMMA NoNameIsName == NoName \in Names
BY ClientAssumption, DbgAssumption DEF NoName, Tx

\* What rtss_mb_open or rtss_mb_close changes of the ledger.
LEMMA Acquired ==
    ASSUME HandleInv, NEW k \in Kinds, Acquire(k)
    PROVE  /\ live' \in [Kinds -> Nat]
           /\ live'[k] = live[k] + 1
           /\ \A j \in Kinds : j # k => live'[j] = live[j]
BY DEF HandleInv, HandleTypeOK, Acquire

\* What giving back the resources ks leaves of the ledger.
LEMMA Released ==
    ASSUME HandleInv, NEW ks \in SUBSET Kinds, Release(ks), \A k \in ks : live[k] > 0
    PROVE  /\ live' \in [Kinds -> Nat]
           /\ \A k \in ks : live'[k] = live[k] - 1
           /\ \A k \in Kinds \ ks : live'[k] = live[k]
BY DEF HandleInv, HandleTypeOK, Release

\* The receivers among the handles, and what their number is when a handle
\* comes or goes.
LEMMA ReceiversFinite ==
    ASSUME IsFiniteSet(handles)
    PROVE  /\ IsFiniteSet(Receivers)
           /\ Cardinality(handles) \in Nat
           /\ Cardinality(Receivers) \in Nat
BY FS_Subset, FS_CardinalityType DEF Receivers

\* One more handle, and one more receiver if it is for a receive channel.
LEMMA HandleAdded ==
    ASSUME IsFiniteSet(handles), NEW d, d \notin handles, handles' = handles \cup {d}
    PROVE  /\ IsFiniteSet(handles')
           /\ Cardinality(handles') = Cardinality(handles) + 1
           /\ Cardinality(Receivers') = Cardinality(Receivers)
                                          + One(Directory[Hit(d)].mode = "RX")
<1>1. /\ IsFiniteSet(handles')
      /\ Cardinality(handles') = Cardinality(handles) + 1
  BY FS_AddElement
<1>2. /\ IsFiniteSet(Receivers)
      /\ d \notin Receivers
      /\ Cardinality(Receivers) \in Nat
  BY ReceiversFinite DEF Receivers
<1>3. CASE Directory[Hit(d)].mode = "RX"
  <2>1. Receivers' = Receivers \cup {d}
    BY <1>3 DEF Receivers
  <2>2. Cardinality(Receivers') = Cardinality(Receivers) + 1
    BY <1>2, <2>1, FS_AddElement
  <2> QED
    BY <1>1, <1>3, <2>2 DEF One
<1>4. CASE Directory[Hit(d)].mode # "RX"
  <2>1. Receivers' = Receivers
    BY <1>4 DEF Receivers
  <2> QED
    BY <1>1, <1>2, <1>4, <2>1 DEF One
<1> QED
  BY <1>3, <1>4

\* One handle less, and one receiver less if it was for a receive channel.
LEMMA HandleRemoved ==
    ASSUME IsFiniteSet(handles), NEW d \in handles, handles' = handles \ {d}
    PROVE  /\ IsFiniteSet(handles')
           /\ Cardinality(handles') = Cardinality(handles) - 1
           /\ Cardinality(handles) \in Nat \ {0}
           /\ Cardinality(Receivers') = Cardinality(Receivers)
                                          - One(Directory[Hit(d)].mode = "RX")
           /\ Directory[Hit(d)].mode = "RX" => Cardinality(Receivers) \in Nat \ {0}
<1>1. /\ IsFiniteSet(handles')
      /\ Cardinality(handles') = Cardinality(handles) - 1
      /\ Cardinality(handles) \in Nat
      /\ Cardinality(handles) # 0
  BY FS_RemoveElement, FS_CardinalityType, FS_EmptySet
<1>2. /\ IsFiniteSet(Receivers)
      /\ Cardinality(Receivers) \in Nat
  BY ReceiversFinite
<1>3. CASE Directory[Hit(d)].mode = "RX"
  <2>1. Receivers' = Receivers \ {d} /\ d \in Receivers
    BY <1>3 DEF Receivers
  <2>2. Cardinality(Receivers') = Cardinality(Receivers) - 1 /\ Cardinality(Receivers) # 0
    BY <1>2, <2>1, FS_RemoveElement, FS_EmptySet
  <2> QED
    BY <1>1, <1>2, <1>3, <2>2 DEF One
<1>4. CASE Directory[Hit(d)].mode # "RX"
  <2>1. Receivers' = Receivers
    BY <1>4 DEF Receivers
  <2> QED
    BY <1>1, <1>2, <1>4, <2>1 DEF One
<1> QED
  BY <1>3, <1>4

\* An early return is right when the ledger held ks on top of what the
\* handles need.
LEMMA FailKeeps ==
    ASSUME HandleInv, NEW ks \in SUBSET Kinds,
           NEW err \in {"ENOMEM", "errno", "EIO", "EAGAIN", "ENOENT", "ENAMETOOLONG"},
           Fail(ks, err),
           "heap" \in ks <=> pc # "idle",
           "fd" \in ks <=> pc \notin {"idle", "open"},
           "map" \in ks <=> pc \notin {"idle", "open", "region", "mmap"},
           "eventfd" \in ks <=> pc = "register",
           pc # "done"
    PROVE  HandleInv'
<1>1. /\ pc' = "idle" /\ ret' = err /\ dev' = NoName
      /\ UNCHANGED <<handles, ready, closes>>
      /\ Release(ks)
  BY DEF Fail
<1>2. Receivers' = Receivers
  BY <1>1 DEF Receivers
<1>3. \A k \in ks : live[k] > 0
  BY ReceiversFinite DEF HandleInv, HandleTypeOK, Ledger, One, Kinds
<1>4. /\ live' \in [Kinds -> Nat]
      /\ \A k \in ks : live'[k] = live[k] - 1
      /\ \A k \in Kinds \ ks : live'[k] = live[k]
  BY <1>1, <1>3, Released
<1>5. HandleTypeOK'
  BY <1>1, <1>4, NoNameIsName DEF HandleInv, HandleTypeOK
<1>6. Ledger'
  <2>1. IsFiniteSet(handles')
    BY <1>1 DEF HandleInv, Ledger
  <2>2. /\ live'["heap"] = Cardinality(handles)
        /\ live'["fd"] = Cardinality(handles)
        /\ live'["map"] = Cardinality(handles) + closes
        /\ live'["eventfd"] = Cardinality(Receivers)
    BY <1>4, ReceiversFinite DEF HandleInv, HandleTypeOK, Ledger, One, Kinds
  <2> QED
    BY <1>1, <1>2, <2>1, <2>2, ReceiversFinite DEF HandleInv, HandleTypeOK, Ledger, One
<1>7. OpenState'
  BY <1>1 DEF HandleInv, OpenState
<1> QED
  BY <1>5, <1>6, <1>7 DEF HandleInv

\* The beginning of rtss_mb_open takes the memory of the handle, or nothing.
LEMMA OpenCallKeeps ==
    ASSUME HandleInv, NEW d \in Names, rtss_mb_open(d)
    PROVE  HandleInv'
<1>1. /\ pc = "idle" /\ d \notin handles
      /\ UNCHANGED <<handles, ready, closes>>
      /\ Receivers' = Receivers
  BY DEF rtss_mb_open, Receivers
<1>2. CASE ret' = "ENOMEM" /\ UNCHANGED <<pc, dev, live>>
  BY <1>1, <1>2 DEF HandleInv, HandleTypeOK, Ledger, OpenState, One, rtssmb_getdevctx
<1>3. CASE Acquire("heap") /\ pc' = "open" /\ dev' = d /\ UNCHANGED ret
  <2>1. /\ live' \in [Kinds -> Nat]
        /\ live'["heap"] = live["heap"] + 1
        /\ \A j \in Kinds : j # "heap" => live'[j] = live[j]
    BY <1>3, Acquired DEF Kinds
  <2>2. HandleTypeOK'
    BY <1>1, <1>3, <2>1 DEF HandleInv, HandleTypeOK
  <2>3. Ledger'
    BY <1>1, <1>3, <2>1, ReceiversFinite DEF HandleInv, HandleTypeOK, Ledger, One, Kinds
  <2>4. OpenState'
    BY <1>1, <1>3 DEF HandleInv, OpenState
  <2> QED
    BY <2>2, <2>3, <2>4 DEF HandleInv
<1> QED
  BY <1>2, <1>3 DEF rtss_mb_open

\* A step that goes on inside rtss_mb_open having acquired k.
LEMMA AcquireKeeps ==
    ASSUME HandleInv, NEW k \in Kinds, NEW l, Acquire(k), Goto(l),
           \/ pc = "open" /\ k = "fd" /\ l = "region"
           \/ pc = "mmap" /\ k = "map" /\ l = "validate"
           \/ pc = "eventfd" /\ k = "eventfd" /\ l = "register"
    PROVE  HandleInv'
<1>1. /\ pc' = l
      /\ UNCHANGED <<dev, handles, ready, closes, ret>>
      /\ Receivers' = Receivers
  BY DEF Goto, Receivers
<1>2. /\ live' \in [Kinds -> Nat]
      /\ live'[k] = live[k] + 1
      /\ \A j \in Kinds : j # k => live'[j] = live[j]
  BY Acquired
<1>3. HandleTypeOK'
  BY <1>1, <1>2 DEF HandleInv, HandleTypeOK
<1>4. Ledger'
  BY <1>1, <1>2, ReceiversFinite DEF HandleInv, HandleTypeOK, Ledger, One, Kinds
<1>5. OpenState'
  BY <1>1 DEF HandleInv, OpenState, rtssmb_getdevctx
<1> QED
  BY <1>3, <1>4, <1>5 DEF HandleInv

\* A step that goes on inside rtss_mb_open and acquires nothing.
LEMMA GotoKeeps ==
    ASSUME HandleInv, NEW l, Goto(l), UNCHANGED live,
           \/ pc = "region" /\ l = "mmap"
           \/ pc = "validate" /\ l = "context"
           \/ /\ pc = "context" /\ rtssmb_getdevctx(dev) = "SUCCESS"
              /\ l = IF Directory[Hit(dev)].mode = "RX" THEN "eventfd" ELSE "done"
           \/ pc = "register" /\ l = "done"
    PROVE  HandleInv'
<1>1. /\ pc' = l
      /\ UNCHANGED <<dev, handles, ready, closes, ret>>
      /\ Receivers' = Receivers
  BY DEF Goto, Receivers
<1>3. HandleTypeOK'
  BY <1>1 DEF HandleInv, HandleTypeOK
<1>4. Ledger'
  BY <1>1, ReceiversFinite DEF HandleInv, HandleTypeOK, Ledger, OpenState, One, Kinds
<1>5. OpenState'
  BY <1>1 DEF HandleInv, OpenState, rtssmb_getdevctx
<1> QED
  BY <1>3, <1>4, <1>5 DEF HandleInv

\* The end of rtss_mb_open hands over what was taken on the way.
LEMMA OpenDoneKeeps ==
    ASSUME HandleInv, OpenDone
    PROVE  HandleInv'
<1>1. /\ pc = "done" /\ pc' = "idle" /\ handles' = handles \cup {dev} /\ dev \notin handles
      /\ dev' = NoName /\ ret' = "SUCCESS"
      /\ UNCHANGED <<live, ready, closes>>
      /\ IsFiniteSet(handles)
  BY DEF OpenDone, HandleInv, OpenState, Ledger
<1>2. /\ IsFiniteSet(handles')
      /\ Cardinality(handles') = Cardinality(handles) + 1
      /\ Cardinality(Receivers') = Cardinality(Receivers) + One(Directory[Hit(dev)].mode = "RX")
  BY <1>1, HandleAdded
<1>3. HandleTypeOK'
  BY <1>1, NoNameIsName DEF HandleInv, HandleTypeOK
<1>4. Ledger'
  BY <1>1, <1>2, ReceiversFinite DEF HandleInv, HandleTypeOK, Ledger, One, Kinds
<1>5. OpenState'
  BY <1>1 DEF HandleInv, OpenState, rtssmb_getdevctx
<1> QED
  BY <1>3, <1>4, <1>5 DEF HandleInv

\* Every step of rtss_mb_open keeps the ledger, the failing ones included.
LEMMA OpenStepKeeps ==
    ASSUME HandleInv, OpenStep
    PROVE  HandleInv'
<1>1. CASE OpenDevice
  <2>1. CASE Acquire("fd") /\ Goto("region")
    BY <1>1, <2>1, AcquireKeeps DEF OpenDevice, Kinds
  <2>2. CASE Fail({"heap"}, "errno")
    BY <1>1, <2>2, FailKeeps DEF OpenDevice, Kinds
  <2> QED
    BY <1>1, <2>1, <2>2 DEF OpenDevice
<1>2. CASE GetRegion
  <2>1. CASE Goto("mmap") /\ UNCHANGED live
    BY <1>2, <2>1, GotoKeeps DEF GetRegion
  <2>2. ASSUME NEW err \in {"errno", "EIO"}, Fail({"fd", "heap"}, err)
        PROVE  HandleInv'
    BY <1>2, <2>2, FailKeeps DEF GetRegion, Kinds
  <2> QED
    BY <1>2, <2>1, <2>2 DEF GetRegion
<1>3. CASE MapRegion
  <2>1. CASE Acquire("map") /\ Goto("validate")
    BY <1>3, <2>1, AcquireKeeps DEF MapRegion, Kinds
  <2>2. CASE Fail({"fd", "heap"}, "errno")
    BY <1>3, <2>2, FailKeeps DEF MapRegion, Kinds
  <2> QED
    BY <1>3, <2>1, <2>2 DEF MapRegion
<1>4. CASE Validate
  <2>1. CASE Goto("context") /\ UNCHANGED live
    BY <1>4, <2>1, GotoKeeps DEF Validate
  <2>2. CASE Fail({"map", "fd", "heap"}, "EAGAIN")
    BY <1>4, <2>2, FailKeeps DEF Validate, Kinds
  <2> QED
    BY <1>4, <2>1, <2>2 DEF Validate
<1>5. CASE DeviceContext
  <2> DEFINE err == rtssmb_getdevctx(dev)
  <2>1. CASE err # "SUCCESS" /\ Fail({"map", "fd", "heap"}, err)
    <3>1. err \in {"EIO", "ENOENT", "ENAMETOOLONG"}
      BY <2>1, Zenon DEF rtssmb_getdevctx
    <3> HIDE DEF err
    <3> QED
      BY <1>5, <2>1, <3>1, FailKeeps DEF DeviceContext, Kinds
  <2>2. CASE /\ err = "SUCCESS"
             /\ Goto(IF Directory[Hit(dev)].mode = "RX" THEN "eventfd" ELSE "done")
             /\ UNCHANGED live
    BY <1>5, <2>2, GotoKeeps DEF DeviceContext
  <2> QED
    BY <1>5, <2>1, <2>2 DEF DeviceContext
<1>6. CASE CreateEventFd
  <2>1. CASE Acquire("eventfd") /\ Goto("register")
    BY <1>6, <2>1, AcquireKeeps DEF CreateEventFd, Kinds
  <2>2. CASE Fail({"map", "fd", "heap"}, "errno")
    BY <1>6, <2>2, FailKeeps DEF CreateEventFd, Kinds
  <2> QED
    BY <1>6, <2>1, <2>2 DEF CreateEventFd
<1>7. CASE RegisterEventFd
  <2>1. CASE Goto("done") /\ UNCHANGED live
    BY <1>7, <2>1, GotoKeeps DEF RegisterEventFd
  <2>2. CASE Fail({"eventfd", "map", "fd", "heap"}, "errno")
    BY <1>7, <2>2, FailKeeps DEF RegisterEventFd, Kinds
  <2> QED
    BY <1>7, <2>1, <2>2 DEF RegisterEventFd
<1>8. CASE OpenDone
  BY <1>8, OpenDoneKeeps
<1> QED
  BY <1>1, <1>2, <1>3, <1>4, <1>5, <1>6, <1>7, <1>8 DEF OpenStep

\* rtss_mb_close gives back all that its handle held but the mapping.
LEMMA CloseKeeps ==
    ASSUME HandleInv, NEW d \in handles, rtss_mb_close(d)
    PROVE  HandleInv'
<1> DEFINE rx == Directory[Hit(d)].mode = "RX"
           ks == {"fd", "heap"} \cup (IF rx THEN {"eventfd"} ELSE {})
<1>1. /\ pc = "idle" /\ handles' = handles \ {d} /\ closes' = closes + 1 /\ ret' = "closed"
      /\ Release(ks)
      /\ UNCHANGED <<pc, dev, ready>>
      /\ IsFiniteSet(handles)
  BY DEF rtss_mb_close, HandleInv, Ledger
<1>2. /\ IsFiniteSet(handles')
      /\ Cardinality(handles') = Cardinality(handles) - 1
      /\ Cardinality(handles) \in Nat \ {0}
      /\ Cardinality(Receivers') = Cardinality(Receivers) - One(rx)
      /\ rx => Cardinality(Receivers) \in Nat \ {0}
      /\ Cardinality(Receivers) \in Nat
  BY <1>1, HandleRemoved, ReceiversFinite
<1>3. \A k \in ks : live[k] > 0
  BY <1>2 DEF HandleInv, HandleTypeOK, Ledger, One, Kinds
<1>4. /\ live' \in [Kinds -> Nat]
      /\ \A k \in ks : live'[k] = live[k] - 1
      /\ \A k \in Kinds \ ks : live'[k] = live[k]
  <2>1. ks \in SUBSET Kinds
    BY DEF Kinds
  <2> HIDE DEF ks
  <2> QED
    BY <1>1, <1>3, <2>1, Released
<1>5. HandleTypeOK'
  BY <1>1, <1>4 DEF HandleInv, HandleTypeOK
<1>6. Ledger'
  <2>1. /\ live'["heap"] = live["heap"] - 1
        /\ live'["fd"] = live["fd"] - 1
        /\ live'["map"] = live["map"]
        /\ live'["eventfd"] = live["eventfd"] - One(rx)
    BY <1>4 DEF Kinds, One, HandleInv, HandleTypeOK
  <2> HIDE DEF rx
  <2> QED
    BY <1>1, <1>2, <2>1 DEF HandleInv, HandleTypeOK, Ledger, One, Kinds
<1>7. OpenState'
  BY <1>1 DEF HandleInv, OpenState, rtssmb_getdevctx
<1> QED
  BY <1>5, <1>6, <1>7 DEF HandleInv

\* A process that ends holds nothing.
LEMMA ProcessEndsKeeps ==
    ASSUME HandleInv, ProcessEnds
    PROVE  HandleInv'
<1>1. /\ pc' = "idle" /\ live' = [k \in Kinds |-> 0] /\ handles' = {} /\ closes' = 0
      /\ ret' = "SUCCESS" /\ dev' = NoName /\ UNCHANGED ready
  BY DEF ProcessEnds
<1>2. Receivers' = {}
  BY <1>1 DEF Receivers
<1> QED
  BY <1>1, <1>2, FS_EmptySet, NoNameIsName
     DEF HandleInv, HandleTypeOK, Ledger, OpenState, One, Kinds

\* RTSS finishes booting, or the program forgets what a call returned.
LEMMA ReadyKeeps ==
    ASSUME HandleInv, UNCHANGED <<pc, dev, live, handles, closes>>,
           ready' \in BOOLEAN, ret' \in {ret, "SUCCESS"}
    PROVE  HandleInv'
BY DEF HandleInv, HandleTypeOK, Ledger, OpenState, Receivers, One, rtssmb_getdevctx

-----------------------------------------------------------------------------
(***************************************************************************)
(* The program and the handles it believes open                            *)
(***************************************************************************)
ProgInv == HandleInv /\ ProgramState /\ Believed

\* c' is c but for the fields fs.
Keeps(fs) ==
    /\ DOMAIN c' = DOMAIN c
    /\ \A f \in DOMAIN c : f \notin fs => c'[f] = c[f]

\* A move to another label changes nothing else of the program.
LEMMA AtMoves ==
    ASSUME "at" \in DOMAIN c, NEW l, At(l)
    PROVE  c'.at = l /\ Keeps({"at"})
BY Zenon DEF At, Keeps

\* What a step of rtss_mb_open does to the handles.
LEMMA OpenStepEffect ==
    ASSUME OpenStep
    PROVE  /\ pc # "idle"
           /\ pc' # "idle" => dev' = dev /\ handles' = handles
           /\ pc' = "idle" =>
                handles' = IF ret' = "SUCCESS" THEN handles \cup {dev} ELSE handles
<1>1. CASE OpenDevice
  BY <1>1 DEF OpenDevice, Goto, Fail
<1>2. CASE GetRegion
  BY <1>2 DEF GetRegion, Goto, Fail
<1>3. CASE MapRegion
  BY <1>3 DEF MapRegion, Goto, Fail
<1>4. CASE Validate
  BY <1>4 DEF Validate, Goto, Fail
<1>5. CASE DeviceContext
  <2> DEFINE err == rtssmb_getdevctx(dev)
             next == IF Directory[Hit(dev)].mode = "RX" THEN "eventfd" ELSE "done"
  <2>1. pc = "context" /\ \/ err # "SUCCESS" /\ Fail({"map", "fd", "heap"}, err)
                          \/ Goto(next)
    BY <1>5 DEF DeviceContext
  <2>2. next # "idle"
    OBVIOUS
  <2> HIDE DEF err, next
  <2> QED
    BY <2>1, <2>2 DEF Goto, Fail
<1>6. CASE CreateEventFd
  BY <1>6 DEF CreateEventFd, Goto, Fail
<1>7. CASE RegisterEventFd
  BY <1>7 DEF RegisterEventFd, Goto, Fail
<1>8. CASE OpenDone
  BY <1>8 DEF OpenDone
<1> QED
  BY <1>1, <1>2, <1>3, <1>4, <1>5, <1>6, <1>7, <1>8 DEF OpenStep

\* A step inside rtss_mb_open, the program waiting for its return.
LEMMA ProgOpenStep ==
    ASSUME ProgInv, OpenStep, c' = c
    PROVE  ProgInv'
<1>1. HandleInv'
  BY OpenStepKeeps DEF ProgInv
<1>2. ProgramState'
  BY DEF ProgInv, ProgramState, DemoState, DbgState, InTest
<1>3. Believed'
  BY OpenStepEffect DEF ProgInv, Believed
<1> QED
  BY <1>1, <1>2, <1>3 DEF ProgInv

\* The calls of the other programs of the API leave the handles alone, and
\* what the program believes with them.
LEMMA BelievedKept ==
    ASSUME Believed, UNCHANGED handlevars, c'.open = c.open,
           c.at = "opened" <=> c'.at = "opened",
           c.at = "opened" => c'.todo = c.todo
    PROVE  Believed'
BY DEF Believed, handlevars

\* The handles are as they were.
LEMMA HandleKept ==
    ASSUME HandleInv, UNCHANGED handlevars
    PROVE  HandleInv'
BY DEF HandleInv, handlevars, HandleTypeOK, Ledger, OpenState, Receivers, rtssmb_getdevctx

\* A step of the debug utility that opens and closes nothing.
DbgLabels ==
    {"dispatch", "write", "read", "round", "cfg_reset", "cfg_write", "cfg_read",
     "cfg_passed", "cfg_failed", "kpi_closed", "close", "rtssdbg_exit"}

\* A step of the debug utility between labels at which it has the same channels
\* open keeps what is known of it.
LEMMA DbgMoves ==
    ASSUME ProgInv, c.prog = "dbg",
           UNCHANGED handlevars,
           DOMAIN c' = DOMAIN c, c'.prog = "dbg", c'.open = c.open,
           c'.nodes = c.nodes, c'.tbytes \in Nat, c'.maxsz \in Nat,
           \/ c.at \in DbgLabels \ DbgClosing /\ c'.at \in DbgLabels
           \/ c.at \in Testing /\ c'.at \in Testing \cup {"kpi_close"}
    PROVE  ProgInv'
<1>1. HandleInv'
  BY HandleKept DEF ProgInv
<1>2. Believed'
  BY BelievedKept DEF ProgInv, DbgLabels, Testing
<1>3. DbgState'
  BY DEF ProgInv, ProgramState, DbgState, InTest, DbgLabels, DbgClosing, Testing
<1>4. ProgramState'
  BY <1>3 DEF ProgInv, ProgramState
<1> QED
  BY <1>1, <1>2, <1>4 DEF ProgInv

\* A step of the demo that opens and closes nothing.
LEMMA DemoMoves ==
    ASSUME ProgInv, c.prog = "mbdemo", c.at \notin DemoClosing,
           UNCHANGED handlevars,
           DOMAIN c' = DOMAIN c, c'.prog = "mbdemo", c'.open = c.open,
           c'.cores = c.cores, c'.core \in 1..Len(c.cores), c'.todo = c.todo,
           \/ c'.at = c.at
           \/ /\ c.at \notin {"opening", "opened"}
              /\ c'.at \in {"iteration", "write", "read", "next", "cleanup"}
    PROVE  ProgInv'
<1>1. HandleInv'
  BY HandleKept DEF ProgInv
<1>2. Believed'
  BY BelievedKept DEF ProgInv
<1>3. DemoState'
  BY DEF ProgInv, ProgramState, DemoState, DemoClosing
<1>4. ProgramState'
  BY <1>3 DEF ProgInv, ProgramState
<1> QED
  BY <1>1, <1>2, <1>4 DEF ProgInv

\* The call of rtss_mb_open for the next channel, and its start.
LEMMA OpenNextEffect ==
    ASSUME NEW ok, OpenNext(ok), {"prog", "at", "open"} \subseteq DOMAIN c
    PROVE  /\ c.at = "opening" /\ pc = "idle"
           /\ Keeps({"at"})
           /\ IF c.todo = <<>>
              THEN c'.at = ok /\ UNCHANGED handlevars
              ELSE c'.at = "opened" /\ rtss_mb_open(Head(c.todo))
           /\ UNCHANGED <<channels, history>>
BY AtMoves, Zenon DEF OpenNext

\* The beginning of rtss_mb_open, as the program sees it.
LEMMA OpenCallEffect ==
    ASSUME NEW d, rtss_mb_open(d)
    PROVE  /\ d \notin handles
           /\ handles' = handles
           /\ pc' # "idle" => dev' = d
           /\ pc' = "idle" => ret' # "SUCCESS"
BY DEF rtss_mb_open

\* When nothing is left to open the program goes on, otherwise it waits for
\* the return of rtss_mb_open.
LEMMA BelievedOpenNext ==
    ASSUME ProgInv, NEW ok, ok \notin {"opened"}, OpenNext(ok),
           {"prog", "at", "open", "todo"} \subseteq DOMAIN c
    PROVE  Believed'
<1>1. /\ c.at = "opening"
      /\ c'.open = c.open
      /\ c'.todo = c.todo
      /\ IF c.todo = <<>>
         THEN c'.at = ok /\ UNCHANGED handlevars
         ELSE c'.at = "opened" /\ rtss_mb_open(Head(c.todo))
  BY OpenNextEffect DEF Keeps
<1>2. CASE c.todo = <<>>
  BY <1>1, <1>2, BelievedKept DEF ProgInv
<1>3. CASE c.todo # <<>>
  <2> DEFINE d == Head(c.todo)
  <2>1. /\ d \notin handles
        /\ handles' = handles
        /\ pc' # "idle" => dev' = d
        /\ pc' = "idle" => ret' # "SUCCESS"
    BY <1>1, <1>3, OpenCallEffect
  <2>2. handles = c.open
    BY <1>1 DEF ProgInv, Believed
  <2> QED
    BY <1>1, <1>3, <2>1, <2>2 DEF Believed
<1> QED
  BY <1>2, <1>3

\* Opening the next channel keeps the ledger.
LEMMA HandleOpenNext ==
    ASSUME ProgInv, NEW ok, OpenNext(ok), "at" \in DOMAIN c,
           c.todo # <<>> => Head(c.todo) \in Names
    PROVE  HandleInv'
BY HandleKept, OpenCallKeeps DEF ProgInv, OpenNext

\* The program looks at what rtss_mb_open returned: one more channel, or the way
\* out.
LEMMA OpenReturnedEffect ==
    ASSUME NEW failed, OpenReturned(failed), {"prog", "at", "open", "todo"} \subseteq DOMAIN c
    PROVE  /\ c.at = "opened" /\ pc = "idle"
           /\ Keeps({"at", "open", "todo"})
           /\ IF ret = "SUCCESS"
              THEN /\ c'.at = "opening"
                   /\ c'.todo = Tail(c.todo)
                   /\ c'.open = c.open \cup {Head(c.todo)}
                   /\ UNCHANGED fault
              ELSE /\ c'.at = failed
                   /\ c'.todo = <<>>
                   /\ c'.open = c.open
                   /\ fault' = TRUE
           /\ ret' = "SUCCESS"
           /\ UNCHANGED <<channels, sent, got, foreign, runs>>
           /\ UNCHANGED <<pc, dev, live, handles, ready, closes>>
<1>1. CASE ret = "SUCCESS"
  <2>1. c' = [c EXCEPT !.at = "opening", !.todo = Tail(@), !.open = @ \cup {Head(c.todo)}]
    BY <1>1 DEF OpenReturned
  <2>2. /\ c'.at = "opening"
        /\ c'.todo = Tail(c.todo)
        /\ c'.open = c.open \cup {Head(c.todo)}
        /\ Keeps({"at", "open", "todo"})
    BY <2>1, Zenon DEF Keeps
  <2> QED
    BY <1>1, <2>2 DEF OpenReturned
<1>2. CASE ret # "SUCCESS"
  <2>1. c' = [c EXCEPT !.at = failed, !.todo = <<>>]
    BY <1>2 DEF OpenReturned
  <2>2. /\ c'.at = failed
        /\ c'.todo = <<>>
        /\ c'.open = c.open
        /\ Keeps({"at", "open", "todo"})
    BY <2>1, Zenon DEF Keeps
  <2> QED
    BY <1>2, <2>2 DEF OpenReturned
<1> QED
  BY <1>1, <1>2

\* Once it has looked, it knows its handles.
LEMMA BelievedOpenReturned ==
    ASSUME ProgInv, NEW failed, failed # "opened", OpenReturned(failed),
           {"prog", "at", "open", "todo"} \subseteq DOMAIN c
    PROVE  HandleInv' /\ Believed'
<1>1. HandleInv'
  BY OpenReturnedEffect, ReadyKeeps DEF ProgInv, HandleInv, HandleTypeOK
<1>2. Believed'
  BY OpenReturnedEffect DEF ProgInv, Believed
<1> QED
  BY <1>1, <1>2

\* The channels that a program closes at its end.
LEMMA ChannelsOfRange ==
    ASSUME NEW cs \in Seq(Pairs)
    PROVE  /\ ChannelsOf(cs) \in Seq({Tx(cs[i]) : i \in DOMAIN cs} \cup {Rx(cs[i]) : i \in DOMAIN cs})
           /\ \A i \in DOMAIN cs : \E j, k \in DOMAIN ChannelsOf(cs) :
                  ChannelsOf(cs)[j] = Tx(cs[i]) /\ ChannelsOf(cs)[k] = Rx(cs[i])
<1> DEFINE n == Len(cs)
           ch == [i \in 1..(2 * n) |->
                    IF i % 2 = 1 THEN Tx(cs[(i + 1) \div 2]) ELSE Rx(cs[i \div 2])]
<1>1. n \in Nat /\ DOMAIN cs = 1..n /\ ChannelsOf(cs) = ch /\ DOMAIN ch = 1..(2 * n)
  BY DEF ChannelsOf
<1> HIDE DEF n
<1>2. ASSUME NEW i \in 1..(2 * n)
      PROVE  ch[i] \in {Tx(cs[j]) : j \in 1..n} \cup {Rx(cs[j]) : j \in 1..n}
  <2>1. CASE i % 2 = 1
    <3>1. (i + 1) \div 2 \in 1..n
      BY <1>1, <2>1
    <3> QED
      BY <2>1, <3>1
  <2>2. CASE i % 2 # 1
    <3>1. i \div 2 \in 1..n
      BY <1>1, <2>2
    <3> QED
      BY <2>2, <3>1
  <2> QED
    BY <2>1, <2>2
<1>3. ASSUME NEW i \in 1..n
      PROVE  /\ 2 * i - 1 \in 1..(2 * n) /\ ch[2 * i - 1] = Tx(cs[i])
             /\ 2 * i \in 1..(2 * n) /\ ch[2 * i] = Rx(cs[i])
  <2>1. /\ 2 * i - 1 \in 1..(2 * n) /\ (2 * i - 1) % 2 = 1 /\ (2 * i - 1 + 1) \div 2 = i
        /\ 2 * i \in 1..(2 * n) /\ (2 * i) % 2 # 1 /\ (2 * i) \div 2 = i
    BY <1>1
  <2> QED
    BY <2>1
<1>4. ch \in Seq({Tx(cs[i]) : i \in 1..n} \cup {Rx(cs[i]) : i \in 1..n})
  <2>1. 2 * n \in Nat
    BY <1>1
  <2> DEFINE R == {Tx(cs[i]) : i \in 1..n} \cup {Rx(cs[i]) : i \in 1..n}
  <2>2. \A i \in 1..(2 * n) : ch[i] \in R
    BY <1>2
  <2> HIDE DEF R
  <2>3. ch \in [1..(2 * n) -> R]
    BY <2>2
  <2> HIDE DEF ch
  <2>4. ch \in Seq(R)
    BY <2>1, <2>3
  <2> QED
    BY <2>4 DEF R
<1>5. \A i \in 1..n : \E j, k \in 1..(2 * n) : ch[j] = Tx(cs[i]) /\ ch[k] = Rx(cs[i])
  BY <1>3
<1> HIDE DEF ch
<1> QED
  BY <1>1, <1>4, <1>5

\* CloseAll closes the first of names that is open; when none is it goes on.
LEMMA CloseAllEffect ==
    ASSUME NEW names, NEW rest, NEW done, CloseAll(names, rest, done),
           {"prog", "at", "open"} \subseteq DOMAIN c, "open" \in DOMAIN rest
    PROVE  /\ \/ /\ \A i \in DOMAIN names : names[i] \notin c.open
                 /\ c'.at = done
                 /\ Keeps({"at"})
                 /\ UNCHANGED handlevars
              \/ \E i \in DOMAIN names :
                 /\ names[i] \in c.open
                 /\ rtss_mb_close(names[i])
                 /\ DOMAIN c' = DOMAIN rest
                 /\ c'.open = rest.open \ {names[i]}
                 /\ \A f \in DOMAIN rest : f # "open" => c'[f] = rest[f]
           /\ got' = <<>>
           /\ UNCHANGED <<channels, sent, foreign, fault, runs>>
<1> DEFINE have == {i \in DOMAIN names : names[i] \in c.open}
<1>1. CASE have = {}
  <2>1. At(done) /\ UNCHANGED handlevars /\ got' = <<>>
        /\ UNCHANGED <<channels, sent, foreign, fault, runs>>
    BY <1>1, Zenon DEF CloseAll
  <2> QED
    BY <1>1, <2>1, AtMoves
<1>2. CASE have # {}
  <2>1. PICK i \in have : /\ rtss_mb_close(names[i])
                          /\ c' = [rest EXCEPT !.open = @ \ {names[i]}]
    BY <1>2, Zenon DEF CloseAll
  <2>2. /\ DOMAIN c' = DOMAIN rest
        /\ c'.open = rest.open \ {names[i]}
        /\ \A f \in DOMAIN rest : f # "open" => c'[f] = rest[f]
    BY <2>1, Zenon
  <2>3. got' = <<>> /\ UNCHANGED <<channels, sent, foreign, fault, runs>>
    BY <1>2, Zenon DEF CloseAll
  <2> QED
    BY <2>1, <2>2, <2>3
<1> QED
  BY <1>1, <1>2

\* rtss_mb_close, as the program sees it.
LEMMA CloseCallEffect ==
    ASSUME NEW d, rtss_mb_close(d)
    PROVE  /\ pc = "idle"
           /\ handles' = handles \ {d}
           /\ UNCHANGED <<pc, dev>>
BY DEF rtss_mb_close

\* What a program knows of its handles stays true while it closes them.
LEMMA BelievedCloseAll ==
    ASSUME ProgInv, NEW names, NEW rest, NEW done, done # "opened",
           CloseAll(names, rest, done),
           "open" \in DOMAIN rest, "at" \in DOMAIN rest,
           rest.open = c.open, rest.at = c.at, c.at # "opened"
    PROVE  HandleInv' /\ Believed'
<1>1. {"prog", "at", "open"} \subseteq DOMAIN c
  BY DEF ProgInv, ProgramState
<1>2. CASE /\ c'.at = done
           /\ Keeps({"at"})
           /\ UNCHANGED handlevars
  <2>1. c'.open = c.open
    BY <1>1, <1>2 DEF Keeps
  <2> QED
    BY <1>2, <2>1, HandleKept, BelievedKept DEF ProgInv
<1>3. ASSUME NEW d \in c.open, rtss_mb_close(d), c'.open = rest.open \ {d}, c'.at = c.at
      PROVE  HandleInv' /\ Believed'
  <2>1. handles = c.open /\ pc = "idle"
    BY DEF ProgInv, Believed
  <2>2. HandleInv'
    BY <1>3, <2>1, CloseKeeps DEF ProgInv
  <2>3. Believed'
    BY <1>3, <2>1, CloseCallEffect DEF Believed
  <2> QED
    BY <2>2, <2>3
<1>4. ASSUME NEW i \in DOMAIN names,
             names[i] \in c.open,
             rtss_mb_close(names[i]),
             c'.open = rest.open \ {names[i]},
             \A f \in DOMAIN rest : f # "open" => c'[f] = rest[f]
      PROVE  HandleInv' /\ Believed'
  <2>1. c'.at = c.at
    BY <1>4
  <2> QED
    BY <1>3, <1>4, <2>1
<1> QED
  BY <1>1, <1>2, <1>4, CloseAllEffect

\* What a program keeps when it does nothing any more but close.
LEMMA ClosingRecord ==
    /\ DOMAIN Closing = {"prog", "at", "open"}
    /\ Closing.prog = c.prog /\ Closing.at = c.at /\ Closing.open = c.open
BY DEF Closing

-----------------------------------------------------------------------------
(***************************************************************************)
(* The steps of a program, as far as its state and its handles go          *)
(***************************************************************************)
LEMMA ProgStart ==
    ASSUME ProgInv, NEW prog, Start(prog),
           {"prog", "at", "open"} \subseteq DOMAIN prog,
           prog.at # "opened", prog.open = {}, prog.prog \in {"mbdemo", "dbg"},
           (prog.prog = "mbdemo" => DemoState') /\ (prog.prog = "dbg" => DbgState')
    PROVE  ProgInv'
<1>1. c = Off /\ c' = prog /\ UNCHANGED handlevars
  BY DEF Start
<1>2. c.at = "off" /\ c.open = {}
  BY <1>1 DEF Off
<1>3. HandleInv'
  BY <1>1, HandleKept DEF ProgInv
<1>4. Believed'
  BY <1>1, <1>2, BelievedKept DEF ProgInv
<1>5. ProgramState'
  BY <1>1 DEF ProgramState
<1> QED
  BY <1>3, <1>4, <1>5 DEF ProgInv

\* The demo starts, at its first channel or at its cleanup.
LEMMA ProgDemoStart ==
    ASSUME ProgInv, Demo_Start
    PROVE  ProgInv'
<1>1. ASSUME NEW l \in {"opening", "cleanup"}, NEW cs \in Seq(Pairs), Demo_Begin(l, cs),
             l = "opening" => Len(cs) > 0 /\ ChannelsOf(cs) \in Seq(OfCores)
      PROVE  ProgInv'
  <2> DEFINE prog == [prog |-> "mbdemo", at |-> l, open |-> {}, cores |-> cs,
                      todo |-> ChannelsOf(cs), count |-> 0, core |-> 1,
                      g_signal_received |-> FALSE]
  <2>1. Start(prog)
    BY <1>1 DEF Demo_Begin
  <2>2. c' = prog
    BY <2>1 DEF Start
  <2>3. DemoState'
    BY <1>1, <2>2 DEF DemoState, DemoClosing, DemoFields
  <2>4. /\ {"prog", "at", "open"} \subseteq DOMAIN prog
        /\ prog.at # "opened" /\ prog.open = {} /\ prog.prog = "mbdemo"
    OBVIOUS
  <2> HIDE DEF prog
  <2> QED
    BY <2>1, <2>3, <2>4, ProgStart
<1>2. ASSUME NEW m \in Masks, Demo_Begin("opening", [i \in DOMAIN m |-> Cores[m[i]]])
      PROVE  ProgInv'
  <2>1. PICK n \in 1..Len(Cores) : m \in [1..n -> DOMAIN Cores]
    BY DEF Masks
  <2> DEFINE cs == [i \in DOMAIN m |-> Cores[m[i]]]
  <2>2. /\ cs \in Seq(Pairs) /\ Len(cs) = n /\ n > 0
        /\ \A i \in DOMAIN cs : \E j \in DOMAIN Cores : cs[i] = Cores[j]
    <3>1. n \in Nat /\ n > 0 /\ DOMAIN cs = 1..n /\ cs \in [1..n -> Pairs]
      BY <2>1, DemoAssumption
    <3> QED
      BY <2>1, <3>1
  <2> HIDE DEF cs
  <2>3. {Tx(cs[i]) : i \in DOMAIN cs} \cup {Rx(cs[i]) : i \in DOMAIN cs} \subseteq OfCores
    BY <2>2 DEF OfCores
  <2>4. ChannelsOf(cs) \in Seq(OfCores)
    <3> DEFINE S == {Tx(cs[i]) : i \in DOMAIN cs} \cup {Rx(cs[i]) : i \in DOMAIN cs}
    <3>1. ChannelsOf(cs) \in Seq(S) /\ S \subseteq OfCores
      BY <2>2, <2>3, ChannelsOfRange
    <3> HIDE DEF S
    <3> QED
      BY <3>1
  <2> QED
    BY <1>1, <1>2, <2>2, <2>4 DEF cs
<1>3. CASE Demo_Begin("cleanup", <<>>)
  <2>1. <<>> \in Seq(Pairs)
    OBVIOUS
  <2> QED
    BY <1>1, <1>3, <2>1
<1> QED
  BY <1>2, <1>3 DEF Demo_Start

\* The debug utility starts.
LEMMA ProgDbgStart ==
    ASSUME ProgInv, Dbg_Start
    PROVE  ProgInv'
<1> DEFINE prog ==
      [prog |-> "dbg", at |-> "opening", open |-> {},
       todo |-> <<Tx("tst"), Rx("tst")>>, cmd |-> "none", stage |-> "main",
       left |-> 0, nodes |-> <<>>, maxsz |-> 0, tbytes |-> 0, mcont |-> FALSE]
<1>1. Start(prog)
  BY DEF Dbg_Start
<1>2. c' = prog
  BY <1>1 DEF Start
<1>3. <<Tx("tst"), Rx("tst")>> \in Seq(Main)
  BY DEF Main
<1>4. DbgState'
  BY <1>2, <1>3 DEF DbgState, DbgClosing, DbgFields, Testing, InTest
<1>5. /\ {"prog", "at", "open"} \subseteq DOMAIN prog
      /\ prog.at # "opened" /\ prog.open = {} /\ prog.prog = "dbg"
  OBVIOUS
<1> HIDE DEF prog
<1> QED
  BY <1>1, <1>4, <1>5, ProgStart

\* A program ends, by itself or killed.
LEMMA ProgEnds ==
    ASSUME ProgInv, ProgramEnds
    PROVE  ProgInv'
<1>1. ProcessEnds /\ c' = Off
  BY DEF ProgramEnds
<1>2. HandleInv'
  BY <1>1, ProcessEndsKeeps DEF ProgInv
<1>3. ProgramState'
  BY <1>1 DEF ProgramState, Off
<1>4. Believed'
  BY <1>1 DEF Believed, ProcessEnds, Off
<1> QED
  BY <1>2, <1>3, <1>4 DEF ProgInv

\* A write or a read moves the program to one of its labels.
LEMMA WriteMoves ==
    ASSUME NEW p, NEW kind, NEW items, NEW ok, NEW failed, "at" \in DOMAIN c,
           Write(p, kind, items, ok, failed)
    PROVE  c'.at \in {ok, failed} /\ Keeps({"at"}) /\ UNCHANGED handlevars
BY AtMoves, Zenon DEF Write

\* A read moves the program to the label for what it took, or for its failure.
LEMMA ReadMoves ==
    ASSUME NEW p \in Pairs, NEW items \in Nat, NEW after, NEW failed, "at" \in DOMAIN c,
           Len(up[p]) \in 0..Depth,
           Read(p, items, after, failed)
    PROVE  /\ c'.at \in {after[n] : n \in 1..Depth} \cup {failed}
           /\ Keeps({"at"})
           /\ UNCHANGED handlevars
<1> DEFINE n == Lesser(items, Len(up[p]))
<1>1. /\ (n > 0 /\ At(after[n])) \/ At(failed)
      /\ UNCHANGED handlevars
  BY Zenon DEF Read
<1>2. n > 0 => n \in 1..Depth
  BY ClientAssumption DEF Lesser
<1> HIDE DEF n
<1> QED
  BY <1>1, <1>2, AtMoves

\* The pair that the program uses is one of the mailbox.
LEMMA DemoPair ==
    ASSUME ProgInv, c.prog = "mbdemo", c.at \notin DemoClosing
    PROVE  /\ c.cores[c.core] \in Pairs
           /\ DOMAIN c = DemoFields
           /\ c.core \in 1..Len(c.cores) /\ Len(c.cores) \in Nat
BY DEF ProgInv, ProgramState, DemoState

\* Every step of the demo keeps what is known of it and of its handles.
LEMMA ProgDemoStep ==
    ASSUME ProgInv, ChannelTypes, c.prog = "mbdemo", DemoStep
    PROVE  ProgInv'
<1>0. DemoState /\ {"prog", "at", "open"} \subseteq DOMAIN c
  BY DEF ProgInv, ProgramState
<1>1. CASE OpenNext("iteration")
  <2>1. /\ c.at = "opening"
        /\ DOMAIN c = DemoFields
        /\ c.todo \in Seq(OfCores)
        /\ Keeps({"at"})
        /\ c'.at \in {"iteration", "opened"}
        /\ c'.at = "opened" => c.todo # <<>>
    BY <1>0, <1>1, OpenNextEffect DEF DemoState, DemoClosing
  <2>2. c.todo # <<>> => Head(c.todo) \in Names
    <3>1. OfCores \subseteq Names
      BY DemoAssumption, ClientAssumption DEF OfCores
    <3> QED
      BY <2>1, <3>1
  <2>3. HandleInv'
    BY <1>0, <1>1, <2>2, HandleOpenNext
  <2>4. Believed'
    BY <1>1, <2>1, BelievedOpenNext DEF DemoFields
  <2>5. DemoState'
    BY <1>0, <2>1 DEF Keeps, DemoState, DemoClosing, DemoFields
  <2>6. ProgramState'
    BY <1>0, <2>1, <2>5 DEF Keeps, ProgramState
  <2> QED
    BY <2>3, <2>4, <2>6 DEF ProgInv
<1>2. CASE OpenReturned("cleanup")
  <2>0. c.at = "opened"
    BY <1>2 DEF OpenReturned
  <2>1. /\ DOMAIN c = DemoFields
        /\ c.todo \in Seq(OfCores)
        /\ c.todo # <<>>
    BY <1>0, <2>0 DEF DemoState, DemoClosing, ProgInv, Believed
  <2>2. /\ Keeps({"at", "open", "todo"})
        /\ \/ /\ c'.at = "opening"
              /\ c'.todo = Tail(c.todo)
              /\ c'.open = c.open \cup {Head(c.todo)}
           \/ /\ c'.at = "cleanup"
              /\ c'.todo = <<>>
              /\ c'.open = c.open
    BY <1>2, <2>1, OpenReturnedEffect DEF DemoFields
  <2>3. HandleInv' /\ Believed'
    BY <1>2, <2>1, BelievedOpenReturned DEF DemoFields
  <2>4. DemoState'
    <3>1. Tail(c.todo) \in Seq(OfCores) /\ <<>> \in Seq(OfCores) /\ Head(c.todo) \in OfCores
      BY <2>1
    <3> QED
      BY <1>0, <2>0, <2>1, <2>2, <3>1 DEF Keeps, DemoState, DemoClosing, DemoFields
  <2>5. ProgramState'
    BY <1>0, <2>1, <2>2, <2>4 DEF Keeps, ProgramState, DemoFields
  <2> QED
    BY <2>3, <2>5 DEF ProgInv
<1>3. CASE Iteration
  <2>1. c.at = "iteration" /\ UNCHANGED handlevars
    BY <1>3 DEF Iteration, Demo
  <2>2. /\ DOMAIN c = DemoFields
        /\ c.core \in 1..Len(c.cores) /\ Len(c.cores) \in Nat
    BY <2>1, DemoPair DEF DemoClosing
  <2>3. \/ At("cleanup")
        \/ c' = [c EXCEPT !.at = "write", !.count = @ + 1, !.core = 1]
    BY <1>3 DEF Iteration
  <2>4. CASE At("cleanup")
    BY <1>0, <2>1, <2>2, <2>4, AtMoves, DemoMoves DEF Keeps, DemoFields, DemoClosing
  <2>5. CASE c' = [c EXCEPT !.at = "write", !.count = @ + 1, !.core = 1]
    <3>1. c'.at = "write" /\ c'.core = 1 /\ Keeps({"at", "count", "core"})
      BY <2>2, <2>5, Zenon DEF Keeps, DemoFields
    <3> QED
      BY <1>0, <2>1, <2>2, <3>1, DemoMoves DEF Keeps, DemoFields, DemoClosing
  <2> QED
    BY <2>3, <2>4, <2>5
<1>4. CASE Demo_Write
  <2>1. c.at = "write"
    BY <1>4 DEF Demo_Write, Demo
  <2>2. c'.at \in {"read", "cleanup"} /\ Keeps({"at"}) /\ UNCHANGED handlevars
    BY <1>0, <1>4, WriteMoves DEF Demo_Write
  <2> QED
    BY <1>0, <2>1, <2>2, DemoPair, DemoMoves DEF Keeps, DemoFields, DemoClosing
<1>5. CASE Demo_Read
  <2>1. c.at = "read"
    BY <1>5 DEF Demo_Read, Demo
  <2> DEFINE after == [n \in 1..Depth |-> "next"]
  <2>2. Read(c.cores[c.core], 1, after, "cleanup")
    BY <1>5 DEF Demo_Read
  <2>3. c.cores[c.core] \in Pairs
    BY <2>1, DemoPair DEF DemoClosing
  <2>4. Len(up[c.cores[c.core]]) \in 0..Depth
    BY <2>3, ClientAssumption DEF ChannelTypes
  <2>5. {after[n] : n \in 1..Depth} \subseteq {"next"}
    OBVIOUS
  <2> HIDE DEF after
  <2>6. c'.at \in {"next", "cleanup"} /\ Keeps({"at"}) /\ UNCHANGED handlevars
    BY <1>0, <2>2, <2>3, <2>4, <2>5, ReadMoves
  <2>7. /\ DOMAIN c = DemoFields
        /\ c.core \in 1..Len(c.cores)
        /\ c.at \notin DemoClosing
    BY <2>1, DemoPair DEF DemoClosing
  <2>8. /\ DOMAIN c' = DOMAIN c /\ c'.prog = c.prog /\ c'.open = c.open
        /\ c'.cores = c.cores /\ c'.core = c.core /\ c'.todo = c.todo
    BY <2>6, <2>7 DEF Keeps, DemoFields
  <2> QED
    BY <2>1, <2>6, <2>7, <2>8, DemoMoves
<1>6. CASE NextCore
  <2>1. c.at = "next" /\ UNCHANGED handlevars
    BY <1>6 DEF NextCore, Demo
  <2>2. /\ DOMAIN c = DemoFields
        /\ c.core \in 1..Len(c.cores) /\ Len(c.cores) \in Nat
    BY <2>1, DemoPair DEF DemoClosing
  <2>3. CASE c.core < Len(c.cores)
    <3>1. c' = [c EXCEPT !.at = "write", !.core = @ + 1]
      BY <1>6, <2>3 DEF NextCore
    <3>2. c'.at = "write" /\ c'.core = c.core + 1 /\ Keeps({"at", "core"})
      BY <2>2, <3>1, Zenon DEF Keeps, DemoFields
    <3> QED
      BY <1>0, <2>1, <2>2, <2>3, <3>2, DemoMoves DEF Keeps, DemoFields, DemoClosing
  <2>4. CASE ~(c.core < Len(c.cores))
    <3>1. At("iteration")
      BY <1>6, <2>4 DEF NextCore
    <3> QED
      BY <1>0, <2>1, <2>2, <3>1, AtMoves, DemoMoves DEF Keeps, DemoFields, DemoClosing
  <2> QED
    BY <2>3, <2>4
<1>7. CASE rtss_mb_close_channels
  <2>1. c.at = "cleanup" /\ CloseAll(ChannelsOf(Cores), Closing, "exit")
    BY <1>7 DEF rtss_mb_close_channels, Demo
  <2>2. HandleInv' /\ Believed'
    BY <2>1, BelievedCloseAll, ClosingRecord
  <2>3. OfCores \cap c.open = {} => c.open = {}
    BY <1>0 DEF DemoState
  <2>4. CASE /\ \A i \in DOMAIN ChannelsOf(Cores) : ChannelsOf(Cores)[i] \notin c.open
             /\ c'.at = "exit"
             /\ Keeps({"at"})
    <3>1. c.open = {}
      <4>1. SUFFICES ASSUME NEW d \in c.open PROVE FALSE
        OBVIOUS
      <4>2. PICK i \in DOMAIN Cores : d = Tx(Cores[i]) \/ d = Rx(Cores[i])
        BY <1>0 DEF DemoState, OfCores
      <4>3. PICK j \in DOMAIN ChannelsOf(Cores) : ChannelsOf(Cores)[j] = d
        BY <4>2, ChannelsOfRange, DemoAssumption
      <4> QED
        BY <2>4, <4>3
    <3>2. DemoState' /\ ProgramState'
      BY <1>0, <2>4, <3>1 DEF Keeps, DemoState, DemoClosing, ProgramState
    <3> QED
      BY <2>2, <3>2 DEF ProgInv
  <2>5. ASSUME NEW d \in c.open, DOMAIN c' = DOMAIN Closing, c'.open = Closing.open \ {d},
               \A f \in DOMAIN Closing : f # "open" => c'[f] = Closing[f]
        PROVE  ProgInv'
    <3>1. DOMAIN c' = {"prog", "at", "open"} /\ c'.prog = c.prog /\ c'.at = c.at
          /\ c'.open = c.open \ {d}
      BY <2>5, ClosingRecord
    <3>2. DemoState' /\ ProgramState'
      BY <1>0, <2>1, <3>1 DEF DemoState, DemoClosing, ProgramState
    <3> QED
      BY <2>2, <3>2 DEF ProgInv
  <2> QED
    <3>1. \/ /\ \A i \in DOMAIN ChannelsOf(Cores) : ChannelsOf(Cores)[i] \notin c.open
             /\ c'.at = "exit"
             /\ Keeps({"at"})
          \/ \E i \in DOMAIN ChannelsOf(Cores) :
                /\ ChannelsOf(Cores)[i] \in c.open
                /\ DOMAIN c' = DOMAIN Closing
                /\ c'.open = Closing.open \ {ChannelsOf(Cores)[i]}
                /\ \A f \in DOMAIN Closing : f # "open" => c'[f] = Closing[f]
      BY <1>0, <2>1, CloseAllEffect, ClosingRecord
    <3> QED
      BY <2>4, <2>5, <3>1
<1> QED
  BY <1>1, <1>2, <1>3, <1>4, <1>5, <1>6, <1>7 DEF DemoStep, rtss_mb_open_channel

\* The signal handler changes nothing but its flag.
LEMMA ProgSignal ==
    ASSUME ProgInv, rtss_mb_signal_handler
    PROVE  ProgInv'
<1>1. /\ c.prog = "mbdemo" /\ c.at \notin DemoClosing
      /\ c' = [c EXCEPT !.g_signal_received = TRUE]
      /\ UNCHANGED handlevars
  BY DEF rtss_mb_signal_handler, DemoClosing
<1>2. /\ DOMAIN c = DemoFields
      /\ c.core \in 1..Len(c.cores)
  BY <1>1, DemoPair
<1>3. Keeps({"g_signal_received"})
  BY <1>1, <1>2, Zenon DEF Keeps, DemoFields
<1> QED
  BY <1>1, <1>2, <1>3, DemoMoves DEF Keeps, DemoFields

\* While the performance test runs, both its channels are open, so that they
\* are those of a pair.
LEMMA TestPair ==
    ASSUME ProgInv, c.prog = "dbg", c.at \in Testing
    PROVE  /\ c.nodes[1][1] \in Pairs
           /\ c.nodes[2][1] = c.nodes[1][1]
<1>1. /\ c.nodes \in KpiNodes
      /\ {c.nodes[1], c.nodes[2]} \subseteq c.open
      /\ c.open = handles
  BY DEF ProgInv, ProgramState, DbgState, InTest, DbgClosing, Testing, Believed
<1>2. \A i \in 1..2 : rtssmb_getdevctx(c.nodes[i]) = "SUCCESS"
  BY <1>1 DEF ProgInv, HandleInv, OpenState
<1>3. PICK p \in Pairs : c.nodes = <<Rx(p), Tx(p)>>
  BY <1>1, <1>2, DbgAssumption
<1> QED
  BY <1>3 DEF Rx, Tx

\* The names given to the performance test are two.
LEMMA NodesArePairs ==
    ASSUME NEW ns \in KpiNodes
    PROVE  /\ ns = <<ns[1], ns[2]>>
           /\ ns \in Seq(Names)
           /\ ns # <<>> /\ Head(ns) = ns[1] /\ Tail(ns) = <<ns[2]>>
<1>1. ns \in Names \X Names
  BY DbgAssumption
<1>2. PICK a \in Names, b \in Names : ns = <<a, b>>
  BY <1>1
<1> QED
  BY <1>2

\* The debug utility has its fields until it closes.
LEMMA DbgFieldsKnown ==
    ASSUME ProgInv, c.prog = "dbg", c.at \notin DbgClosing
    PROVE  DbgState /\ DOMAIN c = DbgFields
BY DEF ProgInv, ProgramState, DbgState

\* The debug utility opens its next channel, in main or in the test.
LEMMA ProgDbgOpenNext ==
    ASSUME ProgInv, c.prog = "dbg",
           OpenNext(IF c.stage = "main" THEN "dispatch" ELSE "getMaxSz")
    PROVE  ProgInv'
<1> DEFINE ok == IF c.stage = "main" THEN "dispatch" ELSE "getMaxSz"
<1>1. c.at = "opening"
  BY DEF OpenNext
<1>2. DbgState /\ DOMAIN c = DbgFields
  BY <1>1, DbgFieldsKnown DEF DbgClosing
<1>3. /\ Keeps({"at"})
      /\ c.todo = <<>> => c'.at = ok
      /\ c.todo # <<>> => c'.at = "opened"
  <2>1. {"prog", "at", "open"} \subseteq DOMAIN c
    BY <1>2 DEF DbgFields
  <2> HIDE DEF ok
  <2> QED
    BY <2>1, OpenNextEffect DEF ok
<1>4. c.stage \in {"main", "kpi"}
  BY <1>1, <1>2 DEF DbgState, DbgClosing
<1>5. c.todo # <<>> => Head(c.todo) \in Names
  <2>1. CASE c.stage = "main"
    <3>1. c.todo \in Seq(Main) /\ Main \subseteq Names
      BY <1>1, <1>2, <2>1, ClientAssumption, DbgAssumption DEF DbgState, DbgClosing, Main
    <3> QED
      BY <3>1
  <2>2. CASE c.stage = "kpi"
    <3>1. /\ c.nodes \in KpiNodes
          /\ \/ c.todo = c.nodes
             \/ c.todo = <<c.nodes[2]>>
             \/ c.todo = <<>>
      BY <1>1, <1>2, <2>2 DEF DbgState, DbgClosing, InTest
    <3>2. c.nodes[1] \in Names /\ c.nodes[2] \in Names /\ Head(c.nodes) = c.nodes[1]
      BY <3>1, NodesArePairs, DbgAssumption
    <3> QED
      BY <3>1, <3>2
  <2> QED
    BY <1>4, <2>1, <2>2
<1>6. HandleInv'
  BY <1>2, <1>5, HandleOpenNext DEF DbgFields
<1>7. Believed'
  BY <1>2, BelievedOpenNext DEF DbgFields
<1>8. DbgState'
  <2>1. /\ DOMAIN c' = DbgFields
        /\ c'.prog = c.prog /\ c'.open = c.open /\ c'.todo = c.todo /\ c'.stage = c.stage
        /\ c'.nodes = c.nodes /\ c'.maxsz = c.maxsz /\ c'.tbytes = c.tbytes
    BY <1>2, <1>3 DEF Keeps, DbgFields
  <2>2. CASE c.todo # <<>>
    BY <1>1, <1>2, <1>3, <2>1, <2>2 DEF DbgState, DbgClosing, Testing, InTest
  <2>3. CASE c.todo = <<>> /\ c.stage = "main"
    BY <1>1, <1>2, <1>3, <2>1, <2>3 DEF DbgState, DbgClosing, Testing, InTest
  <2>4. CASE c.todo = <<>> /\ c.stage = "kpi"
    <3>1. /\ c.nodes \in KpiNodes
          /\ {c.nodes[1], c.nodes[2]} \subseteq c.open
      BY <1>1, <1>2, <2>4, NodesArePairs DEF DbgState, DbgClosing, InTest
    <3> QED
      BY <1>1, <1>2, <1>3, <2>1, <2>4, <3>1 DEF DbgState, DbgClosing, Testing, InTest
  <2> QED
    BY <1>4, <2>2, <2>3, <2>4
<1>9. ProgramState'
  BY <1>2, <1>3, <1>8 DEF Keeps, ProgramState, DbgFields
<1> QED
  BY <1>6, <1>7, <1>9 DEF ProgInv

\* It looks at the result.
LEMMA ProgDbgOpenReturned ==
    ASSUME ProgInv, c.prog = "dbg",
           OpenReturned(IF c.stage = "main" THEN "rtssdbg_exit" ELSE "kpi_close")
    PROVE  ProgInv'
<1> DEFINE failed == IF c.stage = "main" THEN "rtssdbg_exit" ELSE "kpi_close"
<1>1. c.at = "opened"
  BY DEF OpenReturned
<1>2. DbgState /\ DOMAIN c = DbgFields
  BY <1>1, DbgFieldsKnown DEF DbgClosing
<1>3. /\ Keeps({"at", "open", "todo"})
      /\ \/ /\ c'.at = "opening"
            /\ c'.todo = Tail(c.todo)
            /\ c'.open = c.open \cup {Head(c.todo)}
         \/ /\ c'.at = failed
            /\ c'.todo = <<>>
            /\ c'.open = c.open
  <2>1. {"prog", "at", "open", "todo"} \subseteq DOMAIN c
    BY <1>2 DEF DbgFields
  <2> HIDE DEF failed
  <2> QED
    BY <2>1, OpenReturnedEffect DEF failed
<1>4. c.stage \in {"main", "kpi"} /\ c.todo # <<>>
  BY <1>1, <1>2 DEF DbgState, DbgClosing
<1>5. HandleInv' /\ Believed'
  BY <1>2, BelievedOpenReturned DEF DbgFields
<1>6. /\ DOMAIN c' = DbgFields
      /\ c'.prog = c.prog /\ c'.stage = c.stage
      /\ c'.nodes = c.nodes /\ c'.maxsz = c.maxsz /\ c'.tbytes = c.tbytes
  BY <1>2, <1>3 DEF Keeps, DbgFields
<1>7. DbgState'
  <2>1. CASE c.stage = "main"
    <3>1. c.todo \in Seq(Main)
      BY <1>1, <1>2, <2>1 DEF DbgState, DbgClosing
    <3>2. Tail(c.todo) \in Seq(Main) /\ Head(c.todo) \in Main
      BY <1>4, <3>1
    <3> QED
      BY <1>1, <1>2, <1>3, <1>6, <2>1, <3>2 DEF DbgState, DbgClosing, Testing, InTest
  <2>2. CASE c.stage = "kpi"
    <3>1. c.nodes \in KpiNodes
      BY <1>1, <1>2, <2>2 DEF DbgState, DbgClosing, InTest
    <3>2. \/ c.todo = c.nodes
          \/ c.todo = <<c.nodes[2]>> /\ c.nodes[1] \in c.open
      BY <1>1, <1>2, <1>4, <2>2 DEF DbgState, DbgClosing
    <3>3. \/ Head(c.todo) = c.nodes[1] /\ Tail(c.todo) = <<c.nodes[2]>>
          \/ Head(c.todo) = c.nodes[2] /\ Tail(c.todo) = <<>> /\ c.nodes[1] \in c.open
      <4>1. \A x : Head(<<x>>) = x /\ Tail(<<x>>) = <<>>
        OBVIOUS
      <4> QED
        BY <3>1, <3>2, <4>1, NodesArePairs, Zenon
    <3> QED
      BY <1>1, <1>2, <1>3, <1>6, <2>2, <3>1, <3>3 DEF DbgState, DbgClosing, Testing, InTest
  <2> QED
    BY <1>4, <2>1, <2>2
<1>8. ProgramState'
  BY <1>2, <1>3, <1>6, <1>7 DEF ProgramState, DbgFields
<1> QED
  BY <1>5, <1>8 DEF ProgInv

\* The two ways out of main, and the end of the performance test.
LEMMA ProgDbgCloseMain ==
    ASSUME ProgInv, c.prog = "dbg", c.at \in {"close", "rtssdbg_exit"},
           NEW names, names \in {<<Tx("tst"), Rx("tst")>>, <<Rx("tst"), Tx("tst")>>},
           CloseAll(names, Closing, "exit")
    PROVE  ProgInv'
<1>1. HandleInv' /\ Believed'
  BY BelievedCloseAll, ClosingRecord
<1>2. c.open \subseteq Main /\ DbgState /\ {"prog", "at", "open"} \subseteq DOMAIN c
  BY DEF ProgInv, ProgramState, DbgState, DbgClosing
<1>3. \/ /\ \A i \in DOMAIN names : names[i] \notin c.open
         /\ c'.at = "exit"
         /\ Keeps({"at"})
      \/ \E i \in DOMAIN names :
            /\ names[i] \in c.open
            /\ DOMAIN c' = DOMAIN Closing
            /\ c'.open = Closing.open \ {names[i]}
            /\ \A f \in DOMAIN Closing : f # "open" => c'[f] = Closing[f]
  BY <1>2, CloseAllEffect, ClosingRecord
<1>4. CASE /\ \A i \in DOMAIN names : names[i] \notin c.open
           /\ c'.at = "exit"
           /\ Keeps({"at"})
  <2>1. c.open = {}
    <3>1. /\ DOMAIN names = 1..2
          /\ {names[1], names[2]} = Main
      BY DEF Main
    <3> QED
      BY <1>2, <1>4, <3>1
  <2>2. DbgState' /\ ProgramState'
    BY <1>2, <1>4, <2>1 DEF Keeps, DbgState, DbgClosing, ProgramState
  <2> QED
    BY <1>1, <2>2 DEF ProgInv
<1>5. ASSUME NEW d \in c.open, DOMAIN c' = DOMAIN Closing, c'.open = Closing.open \ {d},
             \A f \in DOMAIN Closing : f # "open" => c'[f] = Closing[f]
      PROVE  ProgInv'
  <2>1. DOMAIN c' = {"prog", "at", "open"} /\ c'.prog = c.prog /\ c'.at = c.at
        /\ c'.open = c.open \ {d}
    BY <1>5, ClosingRecord
  <2>2. DbgState' /\ ProgramState'
    BY <1>2, <2>1 DEF DbgState, DbgClosing, ProgramState
  <2> QED
    BY <1>1, <2>2 DEF ProgInv
<1> QED
  BY <1>3, <1>4, <1>5

\* The end of the performance test closes the channels that it opened.
LEMMA ProgKpiClose ==
    ASSUME ProgInv, c.prog = "dbg", kpi_Close
    PROVE  ProgInv'
<1>1. c.at = "kpi_close" /\ CloseAll(c.nodes, c, "kpi_closed")
  BY DEF kpi_Close, Dbg
<1>2. DbgState /\ DOMAIN c = DbgFields
  BY <1>1, DbgFieldsKnown DEF DbgClosing
<1>3. /\ c.nodes \in KpiNodes
      /\ c.open \subseteq Main \cup {c.nodes[1], c.nodes[2]}
  BY <1>1, <1>2 DEF DbgState, DbgClosing, InTest
<1>4. HandleInv' /\ Believed'
  BY <1>1, <1>2, BelievedCloseAll DEF DbgFields
<1>5. \/ /\ \A i \in DOMAIN c.nodes : c.nodes[i] \notin c.open
         /\ c'.at = "kpi_closed"
         /\ Keeps({"at"})
      \/ \E i \in DOMAIN c.nodes :
            /\ c'.open = c.open \ {c.nodes[i]}
            /\ Keeps({"open"})
  <2>1. {"prog", "at", "open"} \subseteq DOMAIN c
    BY <1>2 DEF DbgFields
  <2> QED
    BY <1>1, <2>1, CloseAllEffect DEF Keeps
<1>6. CASE /\ \A i \in DOMAIN c.nodes : c.nodes[i] \notin c.open
           /\ c'.at = "kpi_closed"
           /\ Keeps({"at"})
  <2>1. c.open \subseteq Main
    <3>1. DOMAIN c.nodes = 1..2
      BY <1>3, NodesArePairs
    <3> QED
      BY <1>3, <1>6, <3>1
  <2>2. /\ DOMAIN c' = DbgFields
        /\ c'.prog = c.prog /\ c'.open = c.open
        /\ c'.maxsz = c.maxsz /\ c'.tbytes = c.tbytes
    BY <1>2, <1>6 DEF Keeps, DbgFields
  <2>3. c.maxsz \in Nat /\ c.tbytes \in Nat
    BY <1>1, <1>2 DEF DbgState, DbgClosing
  <2>4. DbgState'
    BY <1>6, <2>1, <2>2, <2>3 DEF DbgState, DbgClosing, Testing, InTest
  <2>5. ProgramState'
    BY <2>2, <2>4 DEF ProgramState, DbgFields
  <2> QED
    BY <1>4, <2>4, <2>5 DEF ProgInv
<1>7. ASSUME NEW d, c'.open = c.open \ {d}, Keeps({"open"})
      PROVE  ProgInv'
  <2>1. DbgState' /\ ProgramState'
    BY <1>1, <1>2, <1>7 DEF Keeps, DbgState, DbgFields, DbgClosing, Testing, InTest, ProgramState
  <2> QED
    BY <1>4, <2>1 DEF ProgInv
<1> QED
  BY <1>5, <1>6, <1>7

\* A step of the debug utility that changes the fields fs and at only.
LEMMA DbgMovesKeeping ==
    ASSUME ProgInv, c.prog = "dbg", UNCHANGED handlevars,
           NEW fs, {"prog", "open", "nodes", "maxsz", "tbytes"} \cap fs = {}, Keeps(fs),
           \/ c.at \in DbgLabels \ DbgClosing /\ c'.at \in DbgLabels
           \/ c.at \in Testing /\ c'.at \in Testing \cup {"kpi_close"}
    PROVE  ProgInv'
<1>1. c.at \notin DbgClosing
  BY DEF Testing, DbgClosing
<1>2. /\ DbgState /\ DOMAIN c = DbgFields
      /\ c.tbytes \in Nat /\ c.maxsz \in Nat
  BY <1>1, DbgFieldsKnown DEF DbgState
<1>3. /\ DOMAIN c' = DOMAIN c /\ c'.prog = "dbg" /\ c'.open = c.open
      /\ c'.nodes = c.nodes /\ c'.tbytes \in Nat /\ c'.maxsz \in Nat
  BY <1>2 DEF Keeps, DbgFields
<1> QED
  BY <1>3, DbgMoves

\* The choice of the command.
LEMMA ProgDispatch ==
    ASSUME ProgInv, c.prog = "dbg", Dispatch
    PROVE  ProgInv'
<1>1. c.at = "dispatch" /\ UNCHANGED handlevars
  BY DEF Dispatch, Dbg
<1>2. DbgState /\ DOMAIN c = DbgFields
  BY <1>1, DbgFieldsKnown DEF DbgClosing
<1>3. \/ At("rtssdbg_exit")
      \/ c' = [c EXCEPT !.at = "cfg_reset", !.stage = "cfg"]
      \/ c' = [c EXCEPT !.at = "write", !.cmd = "file"]
      \/ \E n \in 0..MaxIter : c' = [c EXCEPT !.at = "write", !.cmd = "rounds", !.left = n]
  BY DEF Dispatch
<1>4. CASE At("rtssdbg_exit")
  <2>1. c'.at = "rtssdbg_exit" /\ Keeps({"at"})
    BY <1>2, <1>4, AtMoves DEF DbgFields
  <2> QED
    BY <1>1, <2>1, DbgMovesKeeping DEF DbgLabels, DbgClosing
<1>5. CASE c' = [c EXCEPT !.at = "cfg_reset", !.stage = "cfg"]
  <2>1. c'.at = "cfg_reset" /\ Keeps({"at", "stage"})
    BY <1>2, <1>5, Zenon DEF DbgFields, Keeps
  <2> QED
    BY <1>1, <2>1, DbgMovesKeeping DEF DbgLabels, DbgClosing
<1>6. CASE c' = [c EXCEPT !.at = "write", !.cmd = "file"]
  <2>1. c'.at = "write" /\ Keeps({"at", "cmd"})
    BY <1>2, <1>6, Zenon DEF DbgFields, Keeps
  <2> QED
    BY <1>1, <2>1, DbgMovesKeeping DEF DbgLabels, DbgClosing
<1>7. ASSUME NEW n \in 0..MaxIter, c' = [c EXCEPT !.at = "write", !.cmd = "rounds", !.left = n]
      PROVE  ProgInv'
  <2>1. c'.at = "write" /\ Keeps({"at", "cmd", "left"})
    BY <1>2, <1>7, Zenon DEF DbgFields, Keeps
  <2> QED
    BY <1>1, <2>1, DbgMovesKeeping DEF DbgLabels, DbgClosing
<1> QED
  BY <1>3, <1>4, <1>5, <1>6, <1>7

\* The writes and the reads of the debug utility, each between its labels.
LEMMA ProgDbgWrite ==
    ASSUME ProgInv, c.prog = "dbg",
           NEW p, NEW kind, NEW items, NEW ok, NEW failed,
           Write(p, kind, items, ok, failed),
           \/ c.at \in DbgLabels \ DbgClosing /\ {ok, failed} \subseteq DbgLabels
           \/ c.at \in Testing /\ {ok, failed} \subseteq Testing \cup {"kpi_close"}
    PROVE  ProgInv'
<1>1. "at" \in DOMAIN c
  BY DEF ProgInv, ProgramState
<1>2. c'.at \in {ok, failed} /\ Keeps({"at"}) /\ UNCHANGED handlevars
  BY <1>1, WriteMoves
<1> QED
  BY <1>2, DbgMovesKeeping

\* A read of the debug utility.
LEMMA ProgDbgRead ==
    ASSUME ProgInv, ChannelTypes, c.prog = "dbg",
           NEW p \in Pairs, NEW items \in Nat, NEW after, NEW failed,
           Read(p, items, after, failed),
           NEW ls, failed \in ls, \A n \in 1..Depth : after[n] \in ls,
           \/ c.at \in DbgLabels \ DbgClosing /\ ls \subseteq DbgLabels
           \/ c.at \in Testing /\ ls \subseteq Testing \cup {"kpi_close"}
    PROVE  ProgInv'
<1>1. "at" \in DOMAIN c
  BY DEF ProgInv, ProgramState
<1>2. Len(up[p]) \in 0..Depth
  BY ClientAssumption DEF ChannelTypes
<1>3. /\ c'.at \in {after[n] : n \in 1..Depth} \cup {failed}
      /\ Keeps({"at"})
      /\ UNCHANGED handlevars
  BY <1>1, <1>2, ReadMoves
<1>4. c'.at \in ls
  BY <1>3
<1> QED
  BY <1>3, <1>4, DbgMovesKeeping

\* The loop over the rounds.
LEMMA ProgRoundNext ==
    ASSUME ProgInv, c.prog = "dbg", Round_Next
    PROVE  ProgInv'
<1>1. c.at = "round" /\ UNCHANGED handlevars
  BY DEF Round_Next, Dbg
<1>2. DbgState /\ DOMAIN c = DbgFields
  BY <1>1, DbgFieldsKnown DEF DbgClosing
<1>3. \/ c' = [c EXCEPT !.at = "close"]
      \/ c' = [c EXCEPT !.at = "write", !.left = @ - 1]
  BY DEF Round_Next
<1>4. c'.at \in {"close", "write"} /\ Keeps({"at", "left"})
  BY <1>2, <1>3, Zenon DEF DbgFields, Keeps
<1> QED
  BY <1>1, <1>4, DbgMovesKeeping DEF DbgLabels, DbgClosing

\* The reset before a command.
LEMMA ProgCfgReset ==
    ASSUME ProgInv, c.prog = "dbg", cfg_exec_Reset
    PROVE  ProgInv'
<1>1. c.at = "cfg_reset" /\ UNCHANGED handlevars /\ (At("cfg_write") \/ At("close"))
  BY DEF cfg_exec_Reset, Dbg
<1>2. c'.at \in {"cfg_write", "close"} /\ Keeps({"at"})
  BY <1>1, AtMoves DEF ProgInv, ProgramState
<1> QED
  BY <1>1, <1>2, DbgMovesKeeping DEF DbgLabels, DbgClosing

\* The steps between the command that sets the test up and the one that ends it.
LEMMA ProgKpitst ==
    ASSUME ProgInv, c.prog = "dbg", kpitst_exec
    PROVE  ProgInv'
<1>1. c.at \in {"cfg_passed", "cfg_failed"} /\ UNCHANGED handlevars
  BY DEF kpitst_exec
<1>2. DbgState /\ DOMAIN c = DbgFields /\ c.open \subseteq Main
      /\ c.maxsz \in Nat /\ c.tbytes \in Nat
  BY <1>1, DbgFieldsKnown DEF DbgClosing, DbgState, InTest, Testing
<1>3. \/ \E ns \in KpiNodes :
            c' = [c EXCEPT !.at = "opening", !.stage = "kpi", !.todo = ns, !.nodes = ns]
      \/ c' = [c EXCEPT !.at = "cfg_reset", !.stage = "end"]
      \/ At("close")
  BY DEF kpitst_exec
<1>4. ASSUME NEW ns \in KpiNodes,
             c' = [c EXCEPT !.at = "opening", !.stage = "kpi", !.todo = ns, !.nodes = ns]
      PROVE  ProgInv'
  <2>1. /\ c'.at = "opening" /\ c'.stage = "kpi" /\ c'.todo = ns /\ c'.nodes = ns
        /\ Keeps({"at", "stage", "todo", "nodes"})
    BY <1>2, <1>4, Zenon DEF DbgFields, Keeps
  <2>2. /\ DOMAIN c' = DbgFields /\ c'.prog = c.prog /\ c'.open = c.open
        /\ c'.maxsz = c.maxsz /\ c'.tbytes = c.tbytes
    BY <1>2, <2>1 DEF Keeps, DbgFields
  <2>3. HandleInv'
    BY <1>1, HandleKept DEF ProgInv
  <2>4. Believed'
    BY <1>1, <2>1, <2>2, BelievedKept DEF ProgInv
  <2>5. DbgState'
    BY <1>2, <2>1, <2>2 DEF DbgState, DbgClosing, Testing, InTest
  <2>6. ProgramState'
    BY <2>2, <2>5 DEF ProgramState, DbgFields
  <2> QED
    BY <2>3, <2>4, <2>6 DEF ProgInv
<1>5. CASE c' = [c EXCEPT !.at = "cfg_reset", !.stage = "end"]
  <2>1. c'.at = "cfg_reset" /\ Keeps({"at", "stage"})
    BY <1>2, <1>5, Zenon DEF DbgFields, Keeps
  <2> QED
    BY <1>1, <2>1, DbgMovesKeeping DEF DbgLabels, DbgClosing
<1>6. CASE At("close")
  <2>1. c'.at = "close" /\ Keeps({"at"})
    BY <1>2, <1>6, AtMoves DEF DbgFields
  <2> QED
    BY <1>1, <2>1, DbgMovesKeeping DEF DbgLabels, DbgClosing
<1> QED
  BY <1>3, <1>4, <1>5, <1>6

\* The reset of the channel to read.
LEMMA ProgResetRd ==
    ASSUME ProgInv, c.prog = "dbg", getMaxSz_ResetRd
    PROVE  ProgInv'
<1>1. c.at = "getMaxSz" /\ UNCHANGED handlevars
  BY DEF getMaxSz_ResetRd, Dbg
<1>2. DbgState /\ DOMAIN c = DbgFields
  BY <1>1, DbgFieldsKnown DEF DbgClosing
<1>3. At("getMaxSz_wr") \/ At("kpi_close")
  BY DEF getMaxSz_ResetRd
<1>4. c'.at \in {"getMaxSz_wr", "kpi_close"} /\ Keeps({"at"})
  BY <1>2, <1>3, AtMoves DEF DbgFields
<1> QED
  BY <1>1, <1>4, DbgMovesKeeping DEF Testing

\* The sizes of the test: its number of items is a natural number.
LEMMA ProgGetMaxSz ==
    ASSUME ProgInv, c.prog = "dbg", getMaxSz
    PROVE  ProgInv'
<1>1. c.at = "getMaxSz_wr" /\ UNCHANGED handlevars
  BY DEF getMaxSz, Dbg
<1>2. DbgState /\ DOMAIN c = DbgFields
  BY <1>1, DbgFieldsKnown DEF DbgClosing
<1>3. \/ \E max \in KpiSizes, n \in 0..MaxIter, t \in BOOLEAN :
            c' = [c EXCEPT !.at = "kpi_write", !.tbytes = Lesser(max, Depth),
                           !.maxsz = Lesser(max, Depth), !.mcont = t,
                           !.left = IF n = 0 THEN 0 ELSE n - 1]
      \/ At("kpi_close")
  BY DEF getMaxSz
<1>4. ASSUME NEW max \in KpiSizes, NEW n \in 0..MaxIter, NEW t \in BOOLEAN,
             c' = [c EXCEPT !.at = "kpi_write", !.tbytes = Lesser(max, Depth),
                            !.maxsz = Lesser(max, Depth), !.mcont = t,
                            !.left = IF n = 0 THEN 0 ELSE n - 1]
      PROVE  ProgInv'
  <2>1. /\ c'.at = "kpi_write" /\ c'.tbytes = Lesser(max, Depth) /\ c'.maxsz = Lesser(max, Depth)
        /\ Keeps({"at", "tbytes", "maxsz", "mcont", "left"})
    BY <1>2, <1>4, Zenon DEF DbgFields, Keeps
  <2>2. Lesser(max, Depth) \in Nat
    BY DbgAssumption, ClientAssumption DEF Lesser
  <2>3. /\ DOMAIN c' = DbgFields /\ c'.prog = c.prog /\ c'.open = c.open /\ c'.nodes = c.nodes
    BY <1>2, <2>1 DEF Keeps, DbgFields
  <2> QED
    BY <1>1, <1>2, <2>1, <2>2, <2>3, DbgMoves DEF Testing
<1>5. CASE At("kpi_close")
  <2>1. c'.at = "kpi_close" /\ Keeps({"at"})
    BY <1>2, <1>5, AtMoves DEF DbgFields
  <2> QED
    BY <1>1, <2>1, DbgMovesKeeping DEF Testing
<1> QED
  BY <1>3, <1>4, <1>5

\* The next round of the test, with as many items or one less.
LEMMA ProgKpiNext ==
    ASSUME ProgInv, c.prog = "dbg", kpi_Next
    PROVE  ProgInv'
<1>1. c.at \in {"kpi_next", "kpi_short"} /\ UNCHANGED handlevars
  BY DEF kpi_Next
<1>2. DbgState /\ DOMAIN c = DbgFields /\ c.maxsz \in Nat /\ c.tbytes \in Nat
  BY <1>1, DbgFieldsKnown DEF DbgClosing, DbgState
<1>3. \/ c.tbytes > 1 /\ c' = [c EXCEPT !.at = "kpi_write", !.tbytes = @ - 1]
      \/ c' = [c EXCEPT !.at = "kpi_write", !.tbytes = c.maxsz, !.left = @ - 1]
      \/ c' = [c EXCEPT !.at = "kpi_close"]
  BY Zenon DEF kpi_Next, At
<1>4. CASE c.tbytes > 1 /\ c' = [c EXCEPT !.at = "kpi_write", !.tbytes = @ - 1]
  <2>1. c'.at = "kpi_write" /\ c'.tbytes = c.tbytes - 1 /\ Keeps({"at", "tbytes"})
    BY <1>2, <1>4, Zenon DEF DbgFields, Keeps
  <2> QED
    BY <1>1, <1>2, <1>4, <2>1, DbgMoves DEF Testing, Keeps, DbgFields
<1>5. CASE c' = [c EXCEPT !.at = "kpi_write", !.tbytes = c.maxsz, !.left = @ - 1]
  <2>1. c'.at = "kpi_write" /\ c'.tbytes = c.maxsz /\ Keeps({"at", "tbytes", "left"})
    BY <1>2, <1>5, Zenon DEF DbgFields, Keeps
  <2> QED
    BY <1>1, <1>2, <2>1, DbgMoves DEF Testing, Keeps, DbgFields
<1>6. CASE c' = [c EXCEPT !.at = "kpi_close"]
  <2>1. c'.at = "kpi_close" /\ Keeps({"at"})
    BY <1>2, <1>6, Zenon DEF DbgFields, Keeps
  <2> QED
    BY <1>1, <2>1, DbgMovesKeeping DEF Testing
<1> QED
  BY <1>3, <1>4, <1>5, <1>6

\* The pair of the commands is one of the mailbox.
LEMMA TestPairExists == "tst" \in Pairs
BY DbgAssumption

\* Every step of the debug utility keeps what is known of it and of its handles.
LEMMA ProgDbgStep ==
    ASSUME ProgInv, ChannelTypes, c.prog = "dbg", DbgStep
    PROVE  ProgInv'
<1>1. CASE Dbg_Open
  BY <1>1, ProgDbgOpenNext, ProgDbgOpenReturned DEF Dbg_Open
<1>2. CASE Dispatch
  BY <1>2, ProgDispatch
<1>3. CASE Round_Write
  <2>1. /\ c.at = "write"
        /\ Write("tst", IF c.cmd = "file" THEN "many" ELSE "one", 1, "read", "rtssdbg_exit")
    BY <1>3 DEF Round_Write, Dbg
  <2> QED
    BY <2>1, ProgDbgWrite DEF DbgLabels, DbgClosing
<1>4. CASE Round_Read
  <2> DEFINE after == [n \in 1..Depth |->
                         IF c.cmd = "file" /\ up["tst"][1].part # "end" THEN "read" ELSE "round"]
  <2>1. c.at = "read" /\ Read("tst", 1, after, "rtssdbg_exit")
    BY <1>4 DEF Round_Read, Dbg
  <2>2. \A n \in 1..Depth : after[n] \in {"read", "round", "rtssdbg_exit"}
    OBVIOUS
  <2> HIDE DEF after
  <2> QED
    <3>1. /\ c.at \in DbgLabels \ DbgClosing
          /\ {"read", "round", "rtssdbg_exit"} \subseteq DbgLabels
      BY <2>1 DEF DbgLabels, DbgClosing
    <3> QED
      BY <2>1, <2>2, <3>1, ProgDbgRead, TestPairExists
<1>5. CASE Round_Next
  BY <1>5, ProgRoundNext
<1>6. CASE cfg_exec_Reset
  BY <1>6, ProgCfgReset
<1>7. CASE cfg_exec_Write
  <2>1. c.at = "cfg_write" /\ Write("tst", "one", 1, "cfg_read", "close")
    BY <1>7 DEF cfg_exec_Write, Dbg
  <2> QED
    BY <2>1, ProgDbgWrite DEF DbgLabels, DbgClosing
<1>8. CASE cfg_exec_Read
  <2>1. PICK ok \in {"cfg_passed", "cfg_failed"} :
             c.at = "cfg_read" /\ Read("tst", 1, [n \in 1..Depth |-> ok], "cfg_failed")
    BY <1>8 DEF cfg_exec_Read, Dbg
  <2> DEFINE after == [n \in 1..Depth |-> ok]
  <2>2. \A n \in 1..Depth : after[n] \in {"cfg_passed", "cfg_failed"}
    OBVIOUS
  <2>3. Read("tst", 1, after, "cfg_failed")
    BY <2>1
  <2> HIDE DEF after
  <2> QED
    BY <2>1, <2>2, <2>3, ProgDbgRead, TestPairExists DEF DbgLabels, DbgClosing
<1>9. CASE kpitst_exec
  BY <1>9, ProgKpitst
<1>10. CASE getMaxSz_ResetRd \/ getMaxSz
  BY <1>10, ProgResetRd, ProgGetMaxSz
<1>11. CASE kpi_Write
  <2>1. c.at = "kpi_write" /\ Write(c.nodes[2][1], "kpi", c.tbytes, "kpi_read", "kpi_close")
    BY <1>11 DEF kpi_Write, Dbg
  <2> QED
    BY <2>1, ProgDbgWrite DEF Testing
<1>12. CASE kpi_Read
  <2> DEFINE after == [n \in 1..Depth |-> IF n = c.tbytes THEN "kpi_stamp" ELSE "kpi_short"]
  <2>1. c.at = "kpi_read" /\ Read(c.nodes[1][1], c.tbytes, after, "kpi_close")
    BY <1>12 DEF kpi_Read, Dbg
  <2>2. \A n \in 1..Depth : after[n] \in {"kpi_stamp", "kpi_short", "kpi_close"}
    OBVIOUS
  <2> HIDE DEF after
  <2>3. c.nodes[1][1] \in Pairs
    BY <2>1, TestPair DEF Testing
  <2>4. c.tbytes \in Nat
    BY <2>1, DbgFieldsKnown DEF DbgState, DbgClosing
  <2> QED
    BY <2>1, <2>2, <2>3, <2>4, ProgDbgRead DEF Testing
<1>13. CASE getRTSSTS
  <2> DEFINE after == [n \in 1..Depth |-> "kpi_next"]
  <2>1. PICK failed \in {"kpi_next", "kpi_close"} :
             c.at = "kpi_stamp" /\ Read(c.nodes[1][1], 1, after, failed)
    BY <1>13 DEF getRTSSTS, Dbg
  <2>2. \A n \in 1..Depth : after[n] \in {"kpi_next", "kpi_close"}
    OBVIOUS
  <2> HIDE DEF after
  <2>3. c.nodes[1][1] \in Pairs
    BY <2>1, TestPair DEF Testing
  <2> QED
    BY <2>1, <2>2, <2>3, ProgDbgRead DEF Testing
<1>14. CASE kpi_Next
  BY <1>14, ProgKpiNext
<1>15. CASE kpi_Close
  BY <1>15, ProgKpiClose
<1>16. CASE kpi_End
  <2>1. /\ c.at = "kpi_closed" /\ UNCHANGED handlevars
        /\ c' = [c EXCEPT !.at = "cfg_reset", !.stage = "end"]
    BY <1>16 DEF kpi_End, Dbg
  <2>2. DOMAIN c = DbgFields
    BY <2>1, DbgFieldsKnown DEF DbgClosing
  <2>3. c'.at = "cfg_reset" /\ Keeps({"at", "stage"})
    BY <2>1, <2>2, Zenon DEF Keeps, DbgFields
  <2> QED
    BY <2>1, <2>3, DbgMovesKeeping DEF DbgLabels, DbgClosing
<1>17. CASE Dbg_Close
  BY <1>17, ProgDbgCloseMain DEF Dbg_Close, Dbg
<1>18. CASE rtssdbg_exit
  BY <1>18, ProgDbgCloseMain DEF rtssdbg_exit, Dbg
<1> QED
  BY <1>1, <1>2, <1>3, <1>4, <1>5, <1>6, <1>7, <1>8, <1>9, <1>10, <1>11, <1>12, <1>13,
     <1>14, <1>15, <1>16, <1>17, <1>18 DEF DbgStep

-----------------------------------------------------------------------------
(***************************************************************************)
(* The channels and the conversation.  ChanInv is the part of the          *)
(* invariant about them.                                                   *)
(***************************************************************************)
ChanInv ==
    /\ ChannelTypes
    /\ foreign \subseteq Pairs
    /\ fault \in BOOLEAN
    /\ Counters
    /\ AnswersMatch
    /\ Conversation

\* A function changed at one point.
LEMMA Updated ==
    ASSUME NEW f, f = [q \in Pairs |-> f[q]], NEW p \in Pairs, NEW s
    PROVE  LET g == [f EXCEPT ![p] = s]
           IN  g = [q \in Pairs |-> g[q]] /\ g[p] = s /\ \A q \in Pairs \ {p} : g[q] = f[q]
OBVIOUS

\* n copies of an item.
LEMMA CopiesType ==
    ASSUME NEW S, NEW x \in S, NEW n \in Nat
    PROVE  /\ Copies(x, n) \in Seq(S)
           /\ Len(Copies(x, n)) = n
           /\ \A i \in 1..n : Copies(x, n)[i] = x
           /\ n = 1 => Copies(x, n) = <<x>>
<1>1. /\ Copies(x, n) \in Seq(S)
      /\ Len(Copies(x, n)) = n
      /\ \A i \in 1..n : Copies(x, n)[i] = x
  BY DEF Copies
<1>2. n = 1 => Copies(x, n) = <<x>>
  BY DEF Copies
<1> QED
  BY <1>1, <1>2

\* A part of a sequence.
LEMMA PartOf ==
    ASSUME NEW S, NEW s \in Seq(S), NEW m \in 1..(Len(s) + 1), NEW n \in 0..Len(s)
    PROVE  /\ SubSeq(s, m, n) \in Seq(S)
           /\ Len(SubSeq(s, m, n)) = IF m <= n THEN n - m + 1 ELSE 0
           /\ \A i \in 1..Len(SubSeq(s, m, n)) : SubSeq(s, m, n)[i] = s[m + i - 1]
OBVIOUS

\* Whatever a request asks, its answers are messages of its pair.
LEMMA AnswersType ==
    ASSUME NEW p \in Pairs, NEW r \in Requests(p), NEW ws \in Answers(r)
    PROVE  ws \in Seq(Seq(Messages(p)))
<1> DEFINE a(part) == [pair |-> r.pair, id |-> r.id, part |-> part]
           end == Copies(a("end"), 1)
           data == Copies(a("data"), 1)
           echo == Copies(a("data"), r.items)
<1>1. a("end") \in Messages(p) /\ a("data") \in Messages(p) /\ r.items \in Nat
  BY DEF Requests, Messages
<1>2. end \in Seq(Messages(p)) /\ data \in Seq(Messages(p)) /\ echo \in Seq(Messages(p))
  <2> HIDE DEF a
  <2> QED
    BY <1>1, CopiesType
<1>3. \/ ws = <<end>>
      \/ \E k \in 0..MaxChunks : ws = Copies(data, k) \o <<end>>
      \/ ws = <<echo, end>>
  <2>1. r.kind \in {"one", "many", "kpi"}
    BY DEF Requests
  <2>2. CASE r.kind = "one"
    BY <2>2, Zenon DEF Answers
  <2>3. CASE r.kind = "many"
    BY <2>3, Zenon DEF Answers
  <2>4. CASE r.kind = "kpi"
    BY <2>4, Zenon DEF Answers
  <2> QED
    BY <2>1, <2>2, <2>3, <2>4
<1> HIDE DEF end, data, echo
<1>4. ASSUME NEW k \in 0..MaxChunks
      PROVE  Copies(data, k) \o <<end>> \in Seq(Seq(Messages(p)))
  <2>1. Copies(data, k) \in Seq(Seq(Messages(p)))
    BY <1>2, CopiesType, ClientAssumption
  <2> QED
    BY <1>2, <2>1
<1>5. <<end>> \in Seq(Seq(Messages(p))) /\ <<echo, end>> \in Seq(Seq(Messages(p)))
  BY <1>2
<1> QED
  BY <1>3, <1>4, <1>5, Zenon

\* RTSS takes a request: the channels stay well-formed, the other pairs as they
\* were.
LEMMA TakeTypes ==
    ASSUME ChannelTypes, NEW p \in Pairs, RtssTake(p)
    PROVE  /\ ChannelTypes'
           /\ down[p] # <<>> /\ hand[p] = <<>>
           /\ Head(down[p]) \in Requests(p)
           /\ down'[p] = SubSeq(down[p], Head(down[p]).items + 1, Len(down[p]))
           /\ hand'[p] \in Answers(Head(down[p]))
           /\ \A q \in Pairs \ {p} : down'[q] = down[q] /\ hand'[q] = hand[q]
           /\ UNCHANGED <<up, c, history, handlevars>>
<1> DEFINE r == Head(down[p])
           rest == SubSeq(down[p], r.items + 1, Len(down[p]))
<1>1. PICK ws \in Answers(r) :
        /\ down[p] # <<>> /\ hand[p] = <<>>
        /\ down' = [down EXCEPT ![p] = rest]
        /\ hand' = [hand EXCEPT ![p] = ws]
        /\ UNCHANGED <<up, c, history, handlevars>>
  BY DEF RtssTake
<1>2. /\ down[p] \in Seq(Requests(p)) /\ Len(down[p]) <= Depth
      /\ down = [q \in Pairs |-> down[q]] /\ hand = [q \in Pairs |-> hand[q]]
  BY DEF ChannelTypes
<1>3. r \in Requests(p)
  BY <1>1, <1>2
<1>4. rest \in Seq(Requests(p)) /\ Len(rest) <= Depth
  <2>1. r.items \in Nat
    BY <1>3 DEF Requests
  <2>2. CASE r.items + 1 \in 1..(Len(down[p]) + 1)
    BY <1>2, <2>2, PartOf, ClientAssumption
  <2>3. CASE r.items + 1 > Len(down[p]) + 1
    <3>1. rest = <<>>
      BY <1>2, <2>1, <2>3
    <3>2. <<>> \in Seq(Requests(p)) /\ Len(<<>>) = 0 /\ 0 <= Depth
      BY ClientAssumption
    <3> HIDE DEF rest
    <3> QED
      BY <3>1, <3>2
  <2> QED
    BY <1>2, <2>1, <2>2, <2>3
<1>5. ws \in Seq(Seq(Messages(p)))
  BY <1>1, <1>3, AnswersType
<1> HIDE DEF r, rest
<1>6. /\ down' = [q \in Pairs |-> down'[q]] /\ down'[p] = rest
      /\ hand' = [q \in Pairs |-> hand'[q]] /\ hand'[p] = ws
      /\ \A q \in Pairs \ {p} : down'[q] = down[q] /\ hand'[q] = hand[q]
  BY <1>1, <1>2, Updated
<1>7. ChannelTypes'
  BY <1>1, <1>4, <1>5, <1>6 DEF ChannelTypes
<1> QED
  BY <1>1, <1>3, <1>6, <1>7 DEF r, rest

\* RTSS writes a part of an answer: likewise.
LEMMA WriteTypes ==
    ASSUME ChannelTypes, NEW p \in Pairs, RtssWrite(p)
    PROVE  /\ ChannelTypes'
           /\ hand[p] # <<>>
           /\ hand'[p] = Tail(hand[p])
           /\ up'[p] = up[p] \o Head(hand[p])
           /\ \A q \in Pairs \ {p} : hand'[q] = hand[q] /\ up'[q] = up[q]
           /\ UNCHANGED <<down, c, history, handlevars>>
<1>1. /\ hand[p] # <<>>
      /\ Len(up[p]) + Len(Head(hand[p])) <= Depth
      /\ up' = [up EXCEPT ![p] = up[p] \o Head(hand[p])]
      /\ hand' = [hand EXCEPT ![p] = Tail(hand[p])]
      /\ UNCHANGED <<down, c, history, handlevars>>
  BY DEF RtssWrite
<1>2. /\ hand[p] \in Seq(Seq(Messages(p))) /\ up[p] \in Seq(Messages(p))
      /\ up = [q \in Pairs |-> up[q]] /\ hand = [q \in Pairs |-> hand[q]]
  BY DEF ChannelTypes
<1>3. /\ Head(hand[p]) \in Seq(Messages(p))
      /\ Tail(hand[p]) \in Seq(Seq(Messages(p)))
      /\ up[p] \o Head(hand[p]) \in Seq(Messages(p))
      /\ Len(up[p] \o Head(hand[p])) <= Depth
  BY <1>1, <1>2
<1>4. /\ up' = [q \in Pairs |-> up'[q]] /\ up'[p] = up[p] \o Head(hand[p])
      /\ hand' = [q \in Pairs |-> hand'[q]] /\ hand'[p] = Tail(hand[p])
      /\ \A q \in Pairs \ {p} : up'[q] = up[q] /\ hand'[q] = hand[q]
  BY <1>1, <1>2, Updated
<1>5. ChannelTypes'
  BY <1>1, <1>3, <1>4 DEF ChannelTypes
<1> QED
  BY <1>1, <1>4, <1>5

-----------------------------------------------------------------------------
(***************************************************************************)
(* What RTSS does to the one conversation that is on                       *)
(***************************************************************************)
\* The pair that is not quiet, if a step of RTSS found something on it.
LEMMA OnlyActive ==
    ASSUME ChanInv, NEW p \in Pairs, ~Quiet(p),
           c.prog # "none", ~fault, p \notin foreign
    PROVE  c.at \in Reading /\ p = ActivePair /\ (Requested(p) \/ Answering(p))
BY DEF ChanInv, Conversation

\* The messages that answer the last request.
LEMMA MessageTypes ==
    ASSUME ChanInv, NEW p \in Pairs
    PROVE  /\ Message(p, "end") \in Messages(p) /\ Message(p, "data") \in Messages(p)
           /\ Message(p, "end") # Message(p, "data")
           /\ Message(p, "end").part = "end" /\ Message(p, "data").part = "data"
           /\ \A part \in {"end", "data"} : Message(p, part).id = sent /\ Message(p, part).pair = p
BY DEF ChanInv, Counters, Message, Messages

\* The first element of a sequence and the rest of it.
LEMMA HeadAndTail ==
    ASSUME NEW S, NEW s \in Seq(S), s # <<>>
    PROVE  /\ Len(s) \in Nat \ {0}
           /\ Head(s) = s[1] /\ s[1] \in S
           /\ Tail(s) \in Seq(S)
           /\ Len(Tail(s)) = Len(s) - 1
           /\ \A i \in 1..(Len(s) - 1) : Tail(s)[i] = s[i + 1]
           /\ Tail(s) = <<>> <=> Len(s) = 1
<1>1. /\ Len(s) \in Nat \ {0}
      /\ Head(s) = s[1] /\ s[1] \in S
      /\ Tail(s) \in Seq(S)
      /\ Len(Tail(s)) = Len(s) - 1
      /\ \A i \in 1..(Len(s) - 1) : Tail(s)[i] = s[i + 1]
  OBVIOUS
<1>2. \A t \in Seq(S) : t = <<>> <=> Len(t) = 0
  OBVIOUS
<1>3. Tail(s) = <<>> <=> Len(Tail(s)) = 0
  BY <1>1, <1>2
<1>4. Tail(s) = <<>> <=> Len(s) = 1
  BY <1>1, <1>3
<1> QED
  BY <1>1, <1>4

\* A sequence with one element more.
LEMMA Appended ==
    ASSUME NEW S, NEW s \in Seq(S), NEW x \in S
    PROVE  /\ s \o <<x>> \in Seq(S)
           /\ s \o <<x>> # <<>>
           /\ Len(s \o <<x>>) = Len(s) + 1
           /\ (s \o <<x>>)[Len(s) + 1] = x
           /\ \A i \in 1..Len(s) : (s \o <<x>>)[i] = s[i]
OBVIOUS

\* How many items the echo of the performance test has.
LEMMA ActiveBytes ==
    ASSUME ProgInv, c.at = "kpi_read"
    PROVE  c.tbytes \in Nat
BY DEF ProgInv, ProgramState, DemoState, DbgState, DemoClosing, DbgClosing, Off

\* RTSS takes the request: it has the answer in its hand.
LEMMA TakeAnswers ==
    ASSUME ProgInv, ChanInv, NEW p \in Pairs, RtssTake(p), Requested(p)
    PROVE  Answering(p)'
<1> DEFINE n == IF ActiveKind = "kpi" THEN c.tbytes ELSE 1
           r == [pair |-> p, id |-> sent, kind |-> ActiveKind, items |-> n]
           end == Message(p, "end")
           data == Message(p, "data")
<1>1. /\ c.at # "kpi_stamp" /\ n > 0 /\ down[p] = Copies(r, n)
      /\ hand[p] = <<>> /\ up[p] = <<>>
  BY DEF Requested
<1>2. /\ down[p] # <<>>
      /\ Head(down[p]) \in Requests(p)
      /\ down'[p] = SubSeq(down[p], Head(down[p]).items + 1, Len(down[p]))
      /\ hand'[p] \in Answers(Head(down[p]))
      /\ up' = up /\ c' = c /\ sent' = sent
  BY TakeTypes DEF ChanInv, history
<1>3. /\ down[p] \in Seq(Requests(p)) /\ up[p] \in Seq(Messages(p))
  BY DEF ChanInv, ChannelTypes
<1> HIDE DEF n, r
<1>4. Head(down[p]) = r /\ Len(down[p]) = n /\ n \in Nat \ {0}
  <2>1. n \in Nat
    BY ActiveBytes DEF n, ActiveKind
  <2>2. r \in Requests(p)
    BY <2>1 DEF r, Requests, ActiveKind, ChanInv, Counters
  <2>3. Len(down[p]) = n /\ \A i \in 1..n : down[p][i] = r
    BY <1>1, <2>1, <2>2, CopiesType
  <2> QED
    BY <1>1, <1>2, <1>3, <2>1, <2>3
<1>5. down'[p] = <<>>
  <2>1. r.items = n
    BY DEF r
  <2> QED
    BY <1>2, <1>3, <1>4, <2>1
<1>6. /\ r.pair = p /\ r.id = sent /\ r.kind = ActiveKind /\ r.items = n
      /\ end = [pair |-> r.pair, id |-> r.id, part |-> "end"]
      /\ data = [pair |-> r.pair, id |-> r.id, part |-> "data"]
      /\ end \in Messages(p) /\ data \in Messages(p)
  BY MessageTypes DEF r, Message
<1>7. /\ ActiveKind' = ActiveKind /\ Message(p, "end")' = end /\ Message(p, "data")' = data
      /\ c'.tbytes = c.tbytes
  BY <1>2 DEF ActiveKind, Message
<1>8. Copies(end, 1) = <<end>> /\ Copies(data, 1) = <<data>>
  BY <1>6, CopiesType
<1> HIDE DEF end, data
<1>9. CASE ActiveKind = "one"
  <2>1. hand'[p] = <<<<end>>>>
    BY <1>2, <1>4, <1>6, <1>8, <1>9, Zenon DEF Answers
  <2>2. /\ hand'[p] # <<>> /\ Len(hand'[p]) = 1 /\ hand'[p][1] = <<end>>
    BY <2>1
  <2>3. up'[p] = <<>> /\ Len(up'[p]) = 0
    BY <1>1, <1>2
  <2>4. Series(p)'
    BY <1>5, <1>7, <2>2, <2>3 DEF Series
  <2> QED
    BY <1>7, <1>9, <2>2, <2>3, <2>4 DEF Answering
<1>10. CASE ActiveKind = "many"
  <2>1. PICK k \in 0..MaxChunks : hand'[p] = Copies(<<data>>, k) \o <<<<end>>>>
    BY <1>2, <1>4, <1>6, <1>8, <1>10, Zenon DEF Answers
  <2> DEFINE s == Copies(<<data>>, k)
             M == Seq(Messages(p))
  <2>2. /\ s \in Seq(M) /\ Len(s) = k /\ \A i \in 1..k : s[i] = <<data>>
        /\ <<end>> \in M /\ k \in Nat
    <3>1. <<data>> \in M /\ <<end>> \in M /\ k \in Nat
      BY <1>6, ClientAssumption
    <3> HIDE DEF M
    <3> QED
      BY <3>1, CopiesType
  <2>3. /\ hand'[p] # <<>> /\ Len(hand'[p]) = k + 1 /\ hand'[p][k + 1] = <<end>>
        /\ \A i \in 1..k : hand'[p][i] = <<data>>
    <3>1. hand'[p] = s \o <<<<end>>>>
      BY <2>1
    <3> HIDE DEF s, M
    <3> QED
      BY <2>2, <3>1, Appended
  <2>4. up'[p] = <<>> /\ Len(up'[p]) = 0
    BY <1>1, <1>2
  <2>5. Series(p)'
    BY <1>5, <1>7, <2>2, <2>3, <2>4 DEF Series
  <2> QED
    BY <1>7, <1>10, <2>5 DEF Answering
<1>11. CASE ActiveKind = "kpi"
  <2>1. n = c.tbytes
    BY <1>11 DEF n
  <2>2. hand'[p] = <<Copies(data, c.tbytes), <<end>>>>
    BY <1>2, <1>4, <1>6, <1>8, <1>11, <2>1, Zenon DEF Answers
  <2>3. Echo(p)'
    BY <1>1, <1>2, <1>5, <1>7, <2>1, <2>2 DEF Echo
  <2> QED
    BY <1>7, <1>11, <2>3 DEF Answering
<1> QED
  BY <1>9, <1>10, <1>11 DEF ActiveKind

\* RTSS writes the next part of the answer.
LEMMA WriteAnswers ==
    ASSUME ChanInv, NEW p \in Pairs, RtssWrite(p), Answering(p)
    PROVE  Answering(p)'
<1> DEFINE end == Message(p, "end")
           data == Message(p, "data")
           w == Head(hand[p])
<1>1. /\ hand[p] # <<>>
      /\ hand'[p] = Tail(hand[p])
      /\ up'[p] = up[p] \o w
      /\ down' = down /\ c' = c /\ sent' = sent
  BY WriteTypes DEF ChanInv, history
<1>2. /\ hand[p] \in Seq(Seq(Messages(p))) /\ up[p] \in Seq(Messages(p))
  BY DEF ChanInv, ChannelTypes
<1>3. /\ ActiveKind' = ActiveKind /\ Message(p, "end")' = end /\ Message(p, "data")' = data
      /\ c'.tbytes = c.tbytes
  BY <1>1 DEF ActiveKind, Message
<1>4. end \in Messages(p) /\ data \in Messages(p)
  BY MessageTypes
<1> HIDE DEF end, data
<1>5. CASE ActiveKind = "kpi"
  <2> DEFINE echo == Copies(data, c.tbytes)
  <2>1. /\ down[p] = <<>> /\ c.tbytes > 0
        /\ \/ hand[p] = <<echo, <<end>>>> /\ up[p] = <<>>
           \/ hand[p] = <<<<end>>>> /\ up[p] = echo
    BY <1>1, <1>5 DEF Answering, Echo, end, data
  <2> HIDE DEF echo
  <2>2. CASE hand[p] = <<echo, <<end>>>> /\ up[p] = <<>>
    <3>1. echo \in Seq(Messages(p))
      BY <1>2, <2>2
    <3>2. hand'[p] = <<<<end>>>> /\ up'[p] = echo
      BY <1>1, <2>2, <3>1
    <3> QED
      BY <1>1, <1>3, <1>5, <2>1, <3>2 DEF Answering, Echo, echo
  <2>3. CASE hand[p] = <<<<end>>>> /\ up[p] = echo
    <3>1. hand'[p] = <<>> /\ up'[p] = echo \o <<end>>
      BY <1>1, <2>3
    <3> QED
      BY <1>1, <1>3, <1>5, <2>1, <3>1 DEF Answering, Echo, echo
  <2> QED
    BY <2>1, <2>2, <2>3
<1>6. CASE ActiveKind # "kpi"
  <2> DEFINE h == Len(hand[p])
             u == Len(up[p])
  <2>1. /\ down[p] = <<>>
        /\ hand[p][h] = <<end>>
        /\ \A i \in 1..(h - 1) : hand[p][i] = <<data>>
        /\ \A i \in 1..u : up[p][i] = data
        /\ ActiveKind = "one" => h + u = 1
    BY <1>1, <1>6 DEF Answering, Series, end, data
  <2>2. /\ h \in Nat \ {0} /\ u \in Nat
        /\ w = hand[p][1] /\ Len(hand'[p]) = h - 1
        /\ \A i \in 1..(h - 1) : hand'[p][i] = hand[p][i + 1]
        /\ hand'[p] = <<>> <=> h = 1
    <3> DEFINE M == Seq(Messages(p))
    <3>1. hand[p] \in Seq(M) /\ hand[p] # <<>>
      BY <1>1, <1>2
    <3>2. u \in Nat
      BY <1>2
    <3> HIDE DEF M, u
    <3> QED
      BY <1>1, <3>1, <3>2, HeadAndTail
  <2> HIDE DEF h, w
  <2>3. CASE h = 1
    <3>1. up'[p] = up[p] \o <<end>> /\ hand'[p] = <<>>
      BY <1>1, <2>1, <2>2, <2>3
    <3>2. /\ up'[p] # <<>> /\ Len(up'[p]) = u + 1 /\ up'[p][u + 1] = end
          /\ \A i \in 1..u : up'[p][i] = data
      BY <1>2, <1>4, <2>1, <3>1, Appended
    <3> HIDE DEF u
    <3>3. Series(p)'
      <4>1. /\ up'[p][Len(up'[p])] = end
            /\ \A i \in 1..(Len(up'[p]) - 1) : up'[p][i] = data
        BY <2>2, <3>2
      <4>2. down'[p] = <<>>
        BY <1>1, <2>1
      <4> QED
        BY <1>3, <3>1, <3>2, <4>1, <4>2, Zenon DEF Series
    <3>4. ActiveKind = "one" => Len(hand'[p]) + Len(up'[p]) = 1
      BY <2>1, <2>2, <2>3, <3>2
    <3> QED
      BY <1>3, <1>6, <3>3, <3>4 DEF Answering
  <2>4. CASE h > 1
    <3>0. 1 \in 1..(h - 1) /\ h - 1 \in 1..(h - 1) /\ h - 1 + 1 = h /\ h # 1
          /\ \A i \in 1..(h - 2) : i \in 1..(h - 1) /\ i + 1 \in 1..(h - 1)
      BY <2>2, <2>4
    <3>1. /\ w = <<data>> /\ hand'[p] # <<>> /\ Len(hand'[p]) = h - 1
          /\ hand'[p][h - 1] = <<end>>
          /\ \A i \in 1..(h - 2) : hand'[p][i] = <<data>>
      <4>1. w = <<data>> /\ hand'[p] # <<>> /\ Len(hand'[p]) = h - 1
        BY <2>1, <2>2, <3>0, Zenon
      <4>2. hand'[p][h - 1] = <<end>>
        BY <2>1, <2>2, <3>0, Zenon
      <4>3. \A i \in 1..(h - 2) : hand'[p][i] = <<data>>
        BY <2>1, <2>2, <3>0, Zenon
      <4> QED
        BY <4>1, <4>2, <4>3
    <3>2. up'[p] = up[p] \o <<data>>
      BY <1>1, <3>1, Zenon
    <3>3. /\ Len(up'[p]) = u + 1
          /\ \A i \in 1..(u + 1) : up'[p][i] = data
      <4>1. /\ Len(up'[p]) = u + 1
            /\ up'[p][u + 1] = data
            /\ \A i \in 1..u : up'[p][i] = up[p][i]
        BY <1>2, <1>4, <3>2, Appended
      <4> HIDE DEF u
      <4>2. \A i \in 1..(u + 1) : i \in 1..u \/ i = u + 1
        BY <2>2
      <4> QED
        BY <2>1, <4>1, <4>2, Zenon
    <3> HIDE DEF u
    <3>4. Series(p)'
      <4>1. h - 1 - 1 = h - 2
        BY <2>2
      <4> QED
        BY <1>1, <1>3, <2>1, <3>1, <3>3, <4>1 DEF Series
    <3>5. ActiveKind # "one"
      BY <2>1, <2>2, <2>4
    <3> QED
      BY <1>3, <1>6, <3>4, <3>5 DEF Answering
  <2> QED
    BY <2>2, <2>3, <2>4
<1> QED
  BY <1>5, <1>6

-----------------------------------------------------------------------------
(***************************************************************************)
(* Each kind of step keeps the conversation                                *)
(***************************************************************************)
\* What is said of a pair depends on that pair and on the program alone.
LEMMA Elsewhere ==
    ASSUME NEW q, c' = c, sent' = sent,
           down'[q] = down[q], hand'[q] = hand[q], up'[q] = up[q]
    PROVE  /\ Quiet(q)' <=> Quiet(q)
           /\ Requested(q)' <=> Requested(q)
           /\ Answering(q)' <=> Answering(q)
           /\ ActivePair' = ActivePair
BY DEF Quiet, Requested, Answering, Series, Echo, ActiveKind, Message, ActivePair

\* RTSS takes a request: the answer to the last one if the pair is the one the
\* program waits on, something of others if it is not.
LEMMA ChanRtssTake ==
    ASSUME ProgInv, ChanInv, NEW p \in Pairs, RtssTake(p)
    PROVE  ChanInv'
<1>1. /\ ChannelTypes'
      /\ down[p] # <<>>
      /\ \A q \in Pairs \ {p} : down'[q] = down[q] /\ hand'[q] = hand[q]
      /\ UNCHANGED <<up, c, sent, got, foreign, fault, runs>>
  BY TakeTypes DEF ChanInv, history
<1>2. Conversation'
  <2>1. SUFFICES ASSUME c.prog # "none", ~fault, NEW q \in Pairs \ foreign
                 PROVE  IF c.at \in Reading /\ q = ActivePair
                        THEN Requested(q)' \/ Answering(q)' ELSE Quiet(q)'
    BY <1>1 DEF Conversation, ActivePair
  <2>2. CASE q # p
    BY <1>1, <2>1, <2>2, Elsewhere DEF ChanInv, Conversation
  <2>3. CASE q = p
    <3>1. c.at \in Reading /\ q = ActivePair /\ (Requested(q) \/ Answering(q))
      BY <1>1, <2>1, <2>3, OnlyActive DEF Quiet
    <3>2. ~Answering(q)
      BY <1>1, <2>3 DEF Answering, Series, Echo
    <3> QED
      BY <2>3, <3>1, <3>2, TakeAnswers
  <2> QED
    BY <2>2, <2>3
<1>3. Counters' /\ AnswersMatch'
  BY <1>1 DEF ChanInv, Counters, AnswersMatch
<1> QED
  BY <1>1, <1>2, <1>3 DEF ChanInv

\* RTSS writes the next part of an answer: likewise.
LEMMA ChanRtssWrite ==
    ASSUME ProgInv, ChanInv, NEW p \in Pairs, RtssWrite(p)
    PROVE  ChanInv'
<1>1. /\ ChannelTypes'
      /\ hand[p] # <<>>
      /\ \A q \in Pairs \ {p} : hand'[q] = hand[q] /\ up'[q] = up[q]
      /\ UNCHANGED <<down, c, sent, got, foreign, fault, runs>>
  BY WriteTypes DEF ChanInv, history
<1>2. Conversation'
  <2>1. SUFFICES ASSUME c.prog # "none", ~fault, NEW q \in Pairs \ foreign
                 PROVE  IF c.at \in Reading /\ q = ActivePair
                        THEN Requested(q)' \/ Answering(q)' ELSE Quiet(q)'
    BY <1>1 DEF Conversation, ActivePair
  <2>2. CASE q # p
    BY <1>1, <2>1, <2>2, Elsewhere DEF ChanInv, Conversation
  <2>3. CASE q = p
    <3>1. c.at \in Reading /\ q = ActivePair /\ (Requested(q) \/ Answering(q))
      BY <1>1, <2>1, <2>3, OnlyActive DEF Quiet
    <3>2. ~Requested(q)
      BY <1>1, <2>3 DEF Requested
    <3> QED
      BY <2>3, <3>1, <3>2, WriteAnswers
  <2> QED
    BY <2>2, <2>3
<1>3. Counters' /\ AnswersMatch'
  BY <1>1 DEF ChanInv, Counters, AnswersMatch
<1> QED
  BY <1>1, <1>2, <1>3 DEF ChanInv

\* The program moves between two labels at which it reads nothing.
LEMMA ChanIdle ==
    ASSUME ChanInv, UNCHANGED <<channels, sent, foreign>>,
           got' \in {got, <<>>}, fault' = fault \/ fault' = TRUE,
           c.prog # "none", c'.prog # "none",
           c.at \notin Reading, c'.at \notin Reading
    PROVE  ChanInv'
<1>1. UNCHANGED <<down, hand, up>>
  BY DEF channels
<1>2. ChannelTypes'
  BY <1>1 DEF ChanInv, ChannelTypes
<1>3. AnswersMatch'
  BY DEF ChanInv, AnswersMatch
<1>4. Counters'
  BY DEF ChanInv, Counters
<1>5. Conversation'
  BY <1>1 DEF ChanInv, Conversation, Quiet
<1> QED
  BY <1>2, <1>3, <1>4, <1>5 DEF ChanInv

\* Nothing changes that the conversation is about.
LEMMA ChanKept ==
    ASSUME ChanInv, UNCHANGED <<channels, sent, got, foreign, fault>>,
           \/ c' = c
           \/ /\ c'.prog = "mbdemo" /\ c.prog = "mbdemo"
              /\ c'.at = c.at /\ c'.cores = c.cores /\ c'.core = c.core
              /\ c.at \notin {"kpi_read", "kpi_stamp"}
    PROVE  ChanInv'
<1>1. UNCHANGED <<down, hand, up>>
  BY DEF channels
<1>2. ChannelTypes' /\ AnswersMatch' /\ Counters'
  BY <1>1 DEF ChanInv, ChannelTypes, AnswersMatch, Counters
<1>3. CASE c' = c
  <2>1. ActivePair' = ActivePair
    BY <1>3 DEF ActivePair
  <2>2. \A p : /\ Quiet(p)' <=> Quiet(p)
               /\ Requested(p)' <=> Requested(p)
               /\ Answering(p)' <=> Answering(p)
    BY <1>1, <1>3, Elsewhere
  <2>3. Conversation'
    BY <1>3, <2>1, <2>2 DEF ChanInv, Conversation
  <2> QED
    BY <1>2, <2>3 DEF ChanInv
<1>4. CASE /\ c'.prog = "mbdemo" /\ c.prog = "mbdemo"
           /\ c'.at = c.at /\ c'.cores = c.cores /\ c'.core = c.core
           /\ c.at \notin {"kpi_read", "kpi_stamp"}
  <2>1. ActivePair' = ActivePair /\ ActiveKind = "one" /\ ActiveKind' = "one"
    BY <1>4 DEF ActivePair, ActiveKind
  <2>2. \A p : /\ Quiet(p)' <=> Quiet(p)
               /\ Requested(p)' <=> Requested(p)
               /\ Answering(p)' <=> Answering(p)
    BY <1>1, <1>4, <2>1 DEF Quiet, Requested, Answering, Series, Message
  <2>3. Conversation'
    BY <1>4, <2>1, <2>2 DEF ChanInv, Conversation
  <2> QED
    BY <1>2, <2>3 DEF ChanInv
<1> QED
  BY <1>2, <1>3, <1>4 DEF ChanInv

\* A program starts: the pairs in use are not its own.
LEMMA ChanStart ==
    ASSUME ProgInv, ChanInv, NEW prog, Start(prog), prog.at \notin Reading,
           prog.prog # "none"
    PROVE  ChanInv'
<1>1. /\ c = Off /\ c' = prog
      /\ UNCHANGED <<down, hand, up, sent, got, fault>>
      /\ foreign' = {p \in Pairs : InFlight(p)}
  BY DEF Start, channels
<1>2. got = <<>>
  BY <1>1 DEF ChanInv, Counters, Off
<1>3. AnswersMatch'
  BY <1>1, <1>2 DEF AnswersMatch
<1>4. Conversation'
  BY <1>1 DEF Conversation, InFlight, Quiet
<1> QED
  BY <1>1, <1>3, <1>4 DEF ChanInv, ChannelTypes, Counters

\* What is left of a program is still well-formed, and no more than it was.
LEMMA OldRequests ==
    ASSUME NEW p \in Pairs, NEW s \in Seq(Requests(p))
    PROVE  Old(s) \in Seq(Requests(p)) /\ Len(Old(s)) = Len(s)
<1>1. ASSUME NEW r \in Requests(p)
      PROVE  [r EXCEPT !.id = 0] \in Requests(p)
  <2>1. [r EXCEPT !.id = 0] = [pair |-> r.pair, id |-> 0, kind |-> r.kind, items |-> r.items]
    BY DEF Requests
  <2> QED
    BY <2>1 DEF Requests
<1>2. \A i \in 1..Len(s) : [s[i] EXCEPT !.id = 0] \in Requests(p)
  BY <1>1
<1>3. DOMAIN s = 1..Len(s) /\ Len(s) \in Nat
  OBVIOUS
<1>4. Old(s) \in [1..Len(s) -> Requests(p)]
  BY <1>2, <1>3, Zenon DEF Old
<1> QED
  BY <1>3, <1>4

\* The same for what comes up.
LEMMA OldMessages ==
    ASSUME NEW p \in Pairs, NEW s \in Seq(Messages(p))
    PROVE  Old(s) \in Seq(Messages(p)) /\ Len(Old(s)) = Len(s)
<1>1. ASSUME NEW r \in Messages(p)
      PROVE  [r EXCEPT !.id = 0] \in Messages(p)
  <2>1. [r EXCEPT !.id = 0] = [pair |-> r.pair, id |-> 0, part |-> r.part]
    BY DEF Messages
  <2> QED
    BY <2>1 DEF Messages
<1>2. \A i \in 1..Len(s) : [s[i] EXCEPT !.id = 0] \in Messages(p)
  BY <1>1
<1>3. DOMAIN s = 1..Len(s) /\ Len(s) \in Nat
  OBVIOUS
<1>4. Old(s) \in [1..Len(s) -> Messages(p)]
  BY <1>2, <1>3, Zenon DEF Old
<1> QED
  BY <1>3, <1>4

\* A program ends: what is on the channels is of an earlier program now.
LEMMA ChanEnds ==
    ASSUME ChanInv, ProgramEnds
    PROVE  ChanInv'
<1>1. /\ c' = Off
      /\ down' = [p \in Pairs |-> Old(down[p])]
      /\ hand' = [p \in Pairs |-> [i \in DOMAIN hand[p] |-> Old(hand[p][i])]]
      /\ up' = [p \in Pairs |-> Old(up[p])]
      /\ sent' = 0 /\ got' = <<>>
      /\ foreign' = {} /\ fault' = FALSE
  BY DEF ProgramEnds
<1>2. ASSUME NEW p \in Pairs
      PROVE  /\ down'[p] \in Seq(Requests(p)) /\ Len(down'[p]) <= Depth
             /\ hand'[p] \in Seq(Seq(Messages(p)))
             /\ up'[p] \in Seq(Messages(p)) /\ Len(up'[p]) <= Depth
  <2>1. /\ down[p] \in Seq(Requests(p)) /\ Len(down[p]) <= Depth
        /\ hand[p] \in Seq(Seq(Messages(p)))
        /\ up[p] \in Seq(Messages(p)) /\ Len(up[p]) <= Depth
    BY DEF ChanInv, ChannelTypes
  <2>2. down'[p] = Old(down[p]) /\ up'[p] = Old(up[p])
    BY <1>1
  <2>3. hand'[p] \in Seq(Seq(Messages(p)))
    <3> DEFINE M == Seq(Messages(p))
    <3>1. hand[p] \in Seq(M) /\ hand'[p] = [i \in DOMAIN hand[p] |-> Old(hand[p][i])]
      BY <1>1, <2>1
    <3>2. \A s \in M : Old(s) \in M
      BY OldMessages
    <3> HIDE DEF M
    <3>3. DOMAIN hand[p] = 1..Len(hand[p]) /\ Len(hand[p]) \in Nat
          /\ \A i \in DOMAIN hand[p] : hand[p][i] \in M
      BY <3>1
    <3>4. hand'[p] \in [1..Len(hand[p]) -> M]
      BY <3>1, <3>2, <3>3
    <3>5. hand'[p] \in Seq(M)
      BY <3>3, <3>4
    <3> QED
      BY <3>5 DEF M
  <2> QED
    BY <2>1, <2>2, <2>3, OldRequests, OldMessages
<1>3. /\ down' = [p \in Pairs |-> down'[p]]
      /\ hand' = [p \in Pairs |-> hand'[p]]
      /\ up' = [p \in Pairs |-> up'[p]]
  BY <1>1
<1>4. ChannelTypes'
  BY <1>2, <1>3 DEF ChannelTypes
<1> QED
  <2>1. Counters' /\ foreign' \subseteq Pairs /\ fault' \in BOOLEAN
    BY <1>1 DEF Counters
  <2>2. AnswersMatch'
    BY <1>1 DEF AnswersMatch
  <2>3. Conversation'
    BY <1>1 DEF Conversation, Off
  <2> QED
    BY <1>4, <2>1, <2>2, <2>3 DEF ChanInv

\* A request is written where nothing is on its way, or the program knows
\* that a call of it failed.
LEMMA ChanWrite ==
    ASSUME ChanInv, c.prog # "none", "at" \in DOMAIN c, c.at \notin Reading,
           NEW p \in Pairs, NEW kind \in {"one", "many", "kpi"}, NEW items \in Nat,
           NEW ok \in Reading \ {"kpi_stamp"}, NEW failed, failed \notin Reading,
           Write(p, kind, items, ok, failed),
           c'.prog = c.prog,
           c'.at = ok => /\ ActivePair' = p
                         /\ ActiveKind' = kind
                         /\ items = IF kind = "kpi" THEN c'.tbytes ELSE 1
    PROVE  ChanInv'
<1> DEFINE r == [pair |-> p, id |-> sent + 1, kind |-> kind, items |-> items]
           more == Copies(r, items)
<1>1. /\ got' = <<>>
      /\ UNCHANGED <<hand, up, foreign>>
      /\ \/ /\ items > 0
            /\ Len(down[p]) + items <= Depth
            /\ down' = [down EXCEPT ![p] = down[p] \o more]
            /\ sent' = sent + 1
            /\ \/ c'.at = ok /\ UNCHANGED fault
               \/ fault' = TRUE
         \/ /\ fault' = TRUE
            /\ UNCHANGED <<down, sent>>
  <2>1. /\ At(ok) => c'.at = ok
        /\ At(failed) => c'.at = failed
    BY AtMoves
  <2> QED
    BY <2>1, Zenon DEF Write
<1>2. /\ down[p] \in Seq(Requests(p)) /\ down = [q \in Pairs |-> down[q]]
      /\ sent \in Nat
  BY DEF ChanInv, ChannelTypes, Counters
<1>3. r \in Requests(p)
  BY <1>2 DEF Requests
<1> HIDE DEF r
<1>4. more \in Seq(Requests(p)) /\ Len(more) = items
  BY <1>3, CopiesType
<1>5. AnswersMatch' /\ Counters' /\ foreign' \subseteq Pairs /\ fault' \in BOOLEAN
  <2>1. AnswersMatch'
    BY <1>1 DEF AnswersMatch
  <2>2. Counters'
    BY <1>1, <1>2 DEF Counters
  <2>3. foreign' \subseteq Pairs /\ fault' \in BOOLEAN
    BY <1>1 DEF ChanInv
  <2> QED
    BY <2>1, <2>2, <2>3
<1> HIDE DEF more
<1>6. CASE fault' = TRUE /\ UNCHANGED <<down, sent>>
  <2>1. ChannelTypes'
    BY <1>1, <1>6 DEF ChanInv, ChannelTypes
  <2>2. Conversation'
    BY <1>6 DEF Conversation
  <2> QED
    BY <1>5, <2>1, <2>2 DEF ChanInv
<1>7. CASE /\ items > 0
           /\ Len(down[p]) + items <= Depth
           /\ down' = [down EXCEPT ![p] = down[p] \o more]
           /\ sent' = sent + 1
           /\ (c'.at = ok /\ UNCHANGED fault) \/ fault' = TRUE
  <2>1. /\ down' = [q \in Pairs |-> down'[q]] /\ down'[p] = down[p] \o more
        /\ \A q \in Pairs \ {p} : down'[q] = down[q]
    BY <1>2, <1>7, Updated
  <2>2. down'[p] \in Seq(Requests(p)) /\ Len(down'[p]) <= Depth
    <3>1. down[p] \o more \in Seq(Requests(p)) /\ Len(down[p] \o more) = Len(down[p]) + Len(more)
      BY <1>2, <1>4
    <3> QED
      BY <1>4, <1>7, <2>1, <3>1
  <2>3. ChannelTypes'
    BY <1>1, <2>1, <2>2 DEF ChanInv, ChannelTypes
  <2>4. Conversation'
    <3>1. CASE fault' = TRUE
      BY <3>1 DEF Conversation
    <3>2. CASE c'.at = ok /\ UNCHANGED fault
      <4>1. SUFFICES ASSUME ~fault, NEW q \in Pairs \ foreign
                     PROVE  IF q = p THEN Requested(q)' ELSE Quiet(q)'
        BY <1>1, <1>7, <3>2 DEF Conversation
      <4>2. Quiet(q)
        BY <4>1 DEF ChanInv, Conversation
      <4>3. CASE q # p
        BY <1>1, <2>1, <4>2, <4>3 DEF Quiet
      <4>4. CASE q = p
        <5>1. down'[p] = more /\ hand'[p] = <<>> /\ up'[p] = <<>>
          <6>1. <<>> \o more = more
            BY <1>4
          <6> QED
            BY <1>1, <2>1, <4>2, <4>4, <6>1 DEF Quiet
        <5>2. /\ more = Copies([pair |-> p, id |-> sent', kind |-> ActiveKind', items |-> items], items)
              /\ items = IF ActiveKind' = "kpi" THEN c'.tbytes ELSE 1
              /\ c'.at # "kpi_stamp"
          BY <1>7, <3>2 DEF more, r
        <5> HIDE DEF more
        <5>3. Requested(p)'
          BY <1>7, <5>1, <5>2 DEF Requested
        <5> QED
          BY <4>4, <5>3
      <4> QED
        BY <4>3, <4>4
    <3> QED
      BY <1>7, <3>1, <3>2
  <2> QED
    BY <1>5, <2>3, <2>4 DEF ChanInv
<1> QED
  BY <1>1, <1>6, <1>7

\* Everything that can be read answers the last request.
LEMMA AnswerIds ==
    ASSUME ProgInv, ChanInv, NEW p \in Pairs, Requested(p) \/ Answering(p)
    PROVE  \A i \in 1..Len(up[p]) : up[p][i].id = sent
<1>1. up[p] \in Seq(Messages(p))
  BY DEF ChanInv, ChannelTypes
<1>2. Message(p, "end").id = sent /\ Message(p, "data").id = sent
  BY MessageTypes
<1>3. CASE Requested(p)
  BY <1>3 DEF Requested
<1>4. CASE Answering(p) /\ ActiveKind = "kpi"
  <2> DEFINE end == Message(p, "end")
             data == Message(p, "data")
             echo == Copies(data, c.tbytes)
  <2>1. c.tbytes \in Nat
    BY <1>4, ActiveBytes DEF ActiveKind
  <2>2. end \in Messages(p) /\ data \in Messages(p)
    BY MessageTypes
  <2> HIDE DEF end, data
  <2>3. echo \in Seq(Messages(p)) /\ \A i \in 1..Len(echo) : echo[i] = data
    BY <2>1, <2>2, CopiesType
  <2>4. up[p] \in {<<>>, echo, echo \o <<end>>}
    BY <1>4 DEF Answering, Echo, end, data
  <2> HIDE DEF echo
  <2>5. \A i \in 1..Len(up[p]) : up[p][i] \in {data, end}
    <3>1. CASE up[p] = <<>>
      BY <3>1
    <3>2. CASE up[p] = echo
      BY <2>3, <3>2
    <3>3. CASE up[p] = echo \o <<end>>
      BY <2>2, <2>3, <3>3, Appended
    <3> QED
      BY <2>4, <3>1, <3>2, <3>3
  <2> QED
    BY <1>2, <2>5 DEF end, data
<1>5. CASE Answering(p) /\ ActiveKind # "kpi"
  <2> DEFINE u == Len(up[p])
  <2>1. Series(p)
    BY <1>5 DEF Answering
  <2>2. u \in Nat
    BY <1>1
  <2>3. \/ \A i \in 1..u : up[p][i] = Message(p, "data")
        \/ /\ up[p][u] = Message(p, "end")
           /\ \A i \in 1..(u - 1) : up[p][i] = Message(p, "data")
    BY <2>1, Zenon DEF Series
  <2> HIDE DEF u
  <2>4. ASSUME NEW i \in 1..u
        PROVE  up[p][i] \in {Message(p, "data"), Message(p, "end")}
    <3>1. i = u \/ i \in 1..(u - 1)
      BY <2>2
    <3> QED
      BY <2>3, <3>1
  <2> QED
    BY <1>2, <2>4 DEF u
<1> QED
  BY <1>3, <1>4, <1>5

\* What is left on the pair when at most n messages are read from it.
ReadFrom(p, n) ==
    /\ up'[p] = SubSeq(up[p], Lesser(n, Len(up[p])) + 1, Len(up[p]))
    /\ down'[p] = down[p] /\ hand'[p] = hand[p] /\ sent' = sent

\* A read that succeeds, up to what remains of the conversation.
LEMMA ChanRead ==
    ASSUME ProgInv, ChanInv, c.prog # "none", "at" \in DOMAIN c, c.at \in Reading,
           NEW p \in Pairs, p = ActivePair, NEW items \in Nat, NEW after, NEW failed,
           Read(p, items, after, failed),
           c'.prog = c.prog,
           ASSUME ~fault, p \notin foreign, Requested(p) \/ Answering(p),
                  items > 0, up[p] # <<>>,
                  c'.at = after[Lesser(items, Len(up[p]))],
                  ReadFrom(p, items)
           PROVE  IF c'.at \in Reading THEN p = ActivePair' /\ Answering(p)' ELSE Quiet(p)',
           c'.at \in Reading => ActivePair' = p
    PROVE  ChanInv'
<1> DEFINE n == Lesser(items, Len(up[p]))
           rest == SubSeq(up[p], n + 1, Len(up[p]))
<1>1. /\ UNCHANGED <<down, hand, sent, foreign>>
      /\ \/ /\ n > 0
            /\ got' = SubSeq(up[p], 1, n)
            /\ up' = [up EXCEPT ![p] = rest]
            /\ c'.at = after[n]
            /\ UNCHANGED fault
         \/ /\ fault' = TRUE
            /\ UNCHANGED <<got, up>>
  <2>1. At(after[n]) => c'.at = after[n]
    BY AtMoves
  <2> QED
    BY <2>1, Zenon DEF Read
<1>2. /\ up[p] \in Seq(Messages(p)) /\ Len(up[p]) <= Depth /\ Len(up[p]) \in Nat
      /\ up = [q \in Pairs |-> up[q]]
  BY DEF ChanInv, ChannelTypes
<1>3. /\ n \in 0..Len(up[p])
      /\ n > 0 => items > 0 /\ up[p] # <<>> /\ n \in 1..Depth
  BY <1>2, ClientAssumption DEF Lesser
<1>4. Counters' /\ foreign' \subseteq Pairs /\ fault' \in BOOLEAN
  BY <1>1 DEF ChanInv, Counters
<1>5. CASE fault' = TRUE /\ UNCHANGED <<got, up>>
  <2>1. ChannelTypes' /\ AnswersMatch' /\ Conversation'
    BY <1>1, <1>5 DEF ChanInv, ChannelTypes, AnswersMatch, Conversation
  <2> QED
    BY <1>4, <2>1 DEF ChanInv
<1> HIDE DEF n
<1>6. CASE /\ n > 0
           /\ got' = SubSeq(up[p], 1, n)
           /\ up' = [up EXCEPT ![p] = rest]
           /\ c'.at = after[n]
           /\ UNCHANGED fault
  <2>1. rest \in Seq(Messages(p)) /\ Len(rest) <= Depth
    <3> DEFINE u == Len(up[p])
               M == Messages(p)
    <3>1. u \in Nat /\ u <= Depth /\ Depth \in Nat /\ n \in 0..u /\ up[p] \in Seq(M)
      BY <1>2, <1>3, ClientAssumption
    <3> HIDE DEF M
    <3>2. /\ rest \in Seq(M)
          /\ Len(rest) = IF n + 1 <= u THEN u - (n + 1) + 1 ELSE 0
      <4>1. n + 1 \in 1..(u + 1) /\ u \in 0..u
        <5> HIDE DEF u
        <5> QED
          BY <3>1
      <4> QED
        BY <3>1, <4>1, PartOf
    <3> HIDE DEF u, rest
    <3> QED
      BY <3>1, <3>2 DEF M
  <2>2. /\ got' \in Seq(Messages(p)) /\ Len(got') = n
        /\ \A i \in 1..n : got'[i] = up[p][i]
    BY <1>2, <1>3, <1>6, PartOf
  <2> HIDE DEF rest
  <2>3. /\ up' = [q \in Pairs |-> up'[q]] /\ up'[p] = rest
        /\ \A q \in Pairs \ {p} : up'[q] = up[q]
    BY <1>2, <1>6, Updated
  <2>4. ChannelTypes'
    BY <1>1, <2>1, <2>3 DEF ChanInv, ChannelTypes
  <2>5. AnswersMatch'
    <3>1. SUFFICES ASSUME ~fault, p \notin foreign, NEW i \in DOMAIN got'
                   PROVE  got'[i].id = sent
      <4>1. \A i \in DOMAIN got' : got'[i].pair = p
        <5>1. \A m \in Messages(p) : m.pair = p
          BY DEF Messages
        <5> QED
          BY <2>2, <5>1
      <4> QED
        BY <1>1, <1>6, <4>1 DEF AnswersMatch
    <3>2. Requested(p) \/ Answering(p)
      BY <3>1 DEF ChanInv, Conversation
    <3> QED
      BY <1>2, <1>3, <2>2, <3>2, AnswerIds
  <2>6. Conversation'
    <3>1. SUFFICES ASSUME ~fault, NEW q \in Pairs \ foreign
                   PROVE  IF c'.at \in Reading /\ q = ActivePair'
                          THEN Requested(q)' \/ Answering(q)' ELSE Quiet(q)'
      BY <1>1, <1>6 DEF Conversation
    <3>2. CASE q = p
      <4>1. Requested(p) \/ Answering(p)
        BY <3>1, <3>2 DEF ChanInv, Conversation
      <4>2. IF c'.at \in Reading THEN p = ActivePair' /\ Answering(p)' ELSE Quiet(p)'
        <5>1. ReadFrom(p, items)
          BY <1>1, <1>3, <1>6, <2>3 DEF n, rest, ReadFrom
        <5> QED
          BY <1>1, <1>3, <1>6, <3>1, <3>2, <4>1, <5>1 DEF n
      <4> QED
        BY <3>2, <4>2
    <3>3. CASE q # p
      <4>1. Quiet(q)
        BY <3>1, <3>3 DEF ChanInv, Conversation
      <4>2. Quiet(q)'
        BY <1>1, <2>3, <3>3, <4>1 DEF Quiet
      <4>3. c'.at \in Reading => q # ActivePair'
        BY <3>3
      <4> QED
        BY <4>2, <4>3
    <3> QED
      BY <3>2, <3>3
  <2> QED
    BY <1>4, <2>4, <2>5, <2>6 DEF ChanInv
<1> QED
  BY <1>1, <1>5, <1>6

\* A reset, of what comes up or of both ways, and what the program can know
\* of the pair after it.
LEMMA ChanReset ==
    ASSUME ChanInv, NEW p \in Pairs, c.prog # "none", c'.prog # "none",
           c.at \notin Reading, c'.at \notin Reading,
           up' = up \/ up' = [up EXCEPT ![p] = <<>>],
           down' = down \/ down' = [down EXCEPT ![p] = <<>>],
           Forget(p), got' = <<>>, UNCHANGED <<hand, sent, fault>>
    PROVE  ChanInv'
<1>1. /\ up = [q \in Pairs |-> up[q]] /\ down = [q \in Pairs |-> down[q]]
      /\ <<>> \in Seq(Requests(p)) /\ <<>> \in Seq(Messages(p)) /\ Len(<<>>) <= Depth
  BY ClientAssumption DEF ChanInv, ChannelTypes
<1>2. /\ up' = [q \in Pairs |-> up'[q]] /\ up'[p] \in {up[p], <<>>}
      /\ \A q \in Pairs \ {p} : up'[q] = up[q]
  <2>1. CASE up' = up
    BY <1>1, <2>1
  <2>2. CASE up' = [up EXCEPT ![p] = <<>>]
    BY <1>1, <2>2, Updated
  <2> QED
    BY <2>1, <2>2
<1>3. /\ down' = [q \in Pairs |-> down'[q]] /\ down'[p] \in {down[p], <<>>}
      /\ \A q \in Pairs \ {p} : down'[q] = down[q]
  <2>1. CASE down' = down
    BY <1>1, <2>1
  <2>2. CASE down' = [down EXCEPT ![p] = <<>>]
    BY <1>1, <2>2, Updated
  <2> QED
    BY <2>1, <2>2
<1>4. ChannelTypes'
  BY <1>1, <1>2, <1>3 DEF ChanInv, ChannelTypes
<1>5. foreign' = IF hand[p] = <<>> /\ down'[p] = <<>> /\ up'[p] = <<>>
                 THEN foreign \ {p} ELSE foreign \cup {p}
  BY DEF Forget
<1>6. Conversation'
  <2>1. SUFFICES ASSUME c.prog # "none", ~fault, NEW q \in Pairs \ foreign'
                 PROVE  Quiet(q)'
    BY DEF Conversation
  <2>2. CASE q = p
    BY <1>5, <2>1, <2>2 DEF Quiet
  <2>3. CASE q # p
    <3>1. Quiet(q)
      BY <1>5, <2>1, <2>3 DEF ChanInv, Conversation
    <3> QED
      BY <1>2, <1>3, <2>3, <3>1 DEF Quiet
  <2> QED
    BY <2>2, <2>3
<1> QED
  <2>1. foreign' \subseteq Pairs
    BY <1>5 DEF ChanInv
  <2>2. AnswersMatch'
    BY DEF AnswersMatch
  <2>3. Counters'
    BY DEF ChanInv, Counters
  <2> QED
    BY <1>4, <1>6, <2>1, <2>2, <2>3 DEF ChanInv

\* The single answer is read and the pair is quiet again.
LEMMA ReadOne ==
    ASSUME ChanInv, NEW p \in Pairs, Requested(p) \/ Answering(p), up[p] # <<>>,
           ActiveKind = "one",
           ReadFrom(p, 1)
    PROVE  Quiet(p)'
<1>1. Series(p) /\ Len(hand[p]) + Len(up[p]) = 1
  BY DEF Requested, Answering
<1>2. /\ down[p] = <<>>
      /\ up[p] \in Seq(Messages(p)) /\ hand[p] \in Seq(Seq(Messages(p)))
  BY <1>1 DEF Series, ChanInv, ChannelTypes
<1>3. Len(up[p]) \in Nat \ {0} /\ Len(hand[p]) \in Nat
  BY <1>2, HeadAndTail
<1>4. Len(up[p]) = 1 /\ Len(hand[p]) = 0
  <2> DEFINE h == Len(hand[p])
             u == Len(up[p])
  <2>1. h + u = 1 /\ u \in Nat \ {0} /\ h \in Nat
    BY <1>1, <1>3
  <2> HIDE DEF h, u
  <2>2. u = 1 /\ h = 0
    BY <2>1
  <2> QED
    BY <2>2 DEF h, u
<1>5. hand[p] = <<>>
  <2> DEFINE M == Seq(Messages(p))
  <2>1. hand[p] \in Seq(M)
    BY <1>2
  <2> HIDE DEF M
  <2> QED
    BY <1>4, <2>1
<1>6. up'[p] = <<>> /\ down'[p] = down[p] /\ hand'[p] = hand[p]
  BY <1>2, <1>4 DEF Lesser, ReadFrom
<1> QED
  BY <1>2, <1>5, <1>6 DEF Quiet

\* One message of a series is read: the end, and the pair is quiet again, or
\* the series goes on.
LEMMA ReadMany ==
    ASSUME ChanInv, NEW p \in Pairs, Requested(p) \/ Answering(p), up[p] # <<>>,
           ActiveKind = "many",
           ReadFrom(p, 1)
    PROVE  IF up[p][1].part # "end" THEN Series(p)' ELSE Quiet(p)'
<1> DEFINE u == Len(up[p])
           end == Message(p, "end")
           data == Message(p, "data")
<1>1. Series(p)
  BY DEF Requested, Answering
<1>2. /\ down[p] = <<>>
      /\ up[p] \in Seq(Messages(p))
  BY <1>1 DEF Series, ChanInv, ChannelTypes
<1>3. u \in Nat \ {0}
  BY <1>2, HeadAndTail
<1>4. /\ Message(p, "end")' = end /\ Message(p, "data")' = data
      /\ down'[p] = down[p] /\ hand'[p] = hand[p]
      /\ end.part = "end" /\ data.part = "data"
  BY DEF Message, ReadFrom
<1>5. /\ up'[p] \in Seq(Messages(p))
      /\ Len(up'[p]) = u - 1
      /\ \A i \in 1..(u - 1) : up'[p][i] = up[p][i + 1]
      /\ u > 1 => up'[p] # <<>>
      /\ u = 1 => up'[p] = <<>>
  <2>1. up'[p] = SubSeq(up[p], 2, u)
    <3>1. Lesser(1, u) + 1 = 2
      <4> HIDE DEF u
      <4> QED
        BY <1>3 DEF Lesser
    <3>2. up'[p] = SubSeq(up[p], Lesser(1, u) + 1, u)
      BY Zenon DEF ReadFrom
    <3> QED
      BY <3>1, <3>2, Zenon
  <2>2. SubSeq(up[p], 2, u) = Tail(up[p])
    BY <1>2
  <2>3. /\ Tail(up[p]) \in Seq(Messages(p))
        /\ Len(Tail(up[p])) = u - 1
        /\ \A i \in 1..(u - 1) : Tail(up[p])[i] = up[p][i + 1]
        /\ Tail(up[p]) = <<>> <=> u = 1
    BY <1>2, HeadAndTail
  <2>4. up'[p] = Tail(up[p])
    BY <2>1, <2>2, Zenon
  <2> DEFINE t == Tail(up[p])
  <2>5. /\ up'[p] = t /\ t \in Seq(Messages(p)) /\ Len(t) = u - 1
        /\ \A i \in 1..(u - 1) : t[i] = up[p][i + 1]
        /\ t = <<>> <=> u = 1
    BY <2>3, <2>4, Zenon
  <2> HIDE DEF t, u
  <2> QED
    BY <2>5
<1>6. \/ /\ hand[p] = <<>>
         /\ up[p][u] = end
         /\ \A i \in 1..(u - 1) : up[p][i] = data
      \/ /\ hand[p] # <<>>
         /\ hand[p][Len(hand[p])] = <<end>>
         /\ \A i \in 1..(Len(hand[p]) - 1) : hand[p][i] = <<data>>
         /\ \A i \in 1..u : up[p][i] = data
  BY <1>1, Zenon DEF Series
<1> HIDE DEF end, data, u
<1>7. CASE /\ hand[p] = <<>>
           /\ up[p][u] = end
           /\ \A i \in 1..(u - 1) : up[p][i] = data
  <2>1. CASE u = 1
    BY <1>2, <1>4, <1>5, <1>7, <2>1 DEF Quiet
  <2>2. CASE u > 1
    <3>1. up[p][1] = data
      BY <1>3, <1>7, <2>2
    <3>2. /\ up'[p] # <<>>
          /\ up'[p][u - 1] = end
          /\ \A i \in 1..(u - 2) : up'[p][i] = data
      <4>1. u - 1 \in 1..(u - 1) /\ u - 1 + 1 = u
        BY <1>3, <2>2
      <4>2. up'[p][u - 1] = up[p][u - 1 + 1] /\ up'[p] # <<>>
        BY <1>5, <2>2, <4>1
      <4>3. ASSUME NEW i \in 1..(u - 2)
            PROVE  up'[p][i] = data
        <5>1. i \in 1..(u - 1) /\ i + 1 \in 1..(u - 1)
          BY <1>3
        <5> QED
          BY <1>5, <1>7, <5>1
      <4> QED
        BY <1>7, <4>1, <4>2, <4>3
    <3>3. u - 1 - 1 = u - 2
      BY <1>3
    <3>4. Series(p)'
      BY <1>2, <1>4, <1>5, <1>7, <3>2, <3>3 DEF Series
    <3> QED
      BY <1>4, <3>1, <3>4
  <2> QED
    BY <1>3, <2>1, <2>2
<1>8. CASE /\ hand[p] # <<>>
           /\ hand[p][Len(hand[p])] = <<end>>
           /\ \A i \in 1..(Len(hand[p]) - 1) : hand[p][i] = <<data>>
           /\ \A i \in 1..u : up[p][i] = data
  <2>1. up[p][1] = data
    BY <1>3, <1>8
  <2>2. ASSUME NEW i \in 1..Len(up'[p])
        PROVE  up'[p][i] = data
    <3>1. i \in 1..(u - 1) /\ i + 1 \in 1..u
      BY <1>3, <1>5
    <3> QED
      BY <1>5, <1>8, <3>1
  <2>3. Series(p)'
    BY <1>2, <1>4, <1>8, <2>2, Zenon DEF Series
  <2> QED
    BY <1>4, <2>1, <2>3
<1> QED
  BY <1>6, <1>7, <1>8

\* The last element of a sequence, as a part of it.
LEMMA LastOf ==
    ASSUME NEW S, NEW s \in Seq(S), NEW n \in Nat, Len(s) = n + 1
    PROVE  SubSeq(s, n + 1, n + 1) = <<s[n + 1]>>
<1> DEFINE t == SubSeq(s, n + 1, n + 1)
<1>1. t \in Seq(S) /\ Len(t) = 1 /\ t[1] = s[n + 1]
  BY PartOf
<1> HIDE DEF t
<1>2. t = <<t[1]>>
  BY <1>1
<1> QED
  BY <1>1, <1>2 DEF t

\* The echo is read whole, and no more than it: the timestamp is left.
LEMMA ReadEcho ==
    ASSUME ProgInv, ChanInv, NEW p \in Pairs, Requested(p) \/ Answering(p), up[p] # <<>>,
           c.at = "kpi_read",
           ReadFrom(p, c.tbytes)
    PROVE  /\ Lesser(c.tbytes, Len(up[p])) = c.tbytes
           /\ Series(p)'
           /\ Len(hand'[p]) + Len(up'[p]) = 1
<1> DEFINE end == Message(p, "end")
           data == Message(p, "data")
           n == c.tbytes
           echo == Copies(data, n)
<1>1. n \in Nat
  BY ActiveBytes
<1>2. end \in Messages(p) /\ data \in Messages(p)
  BY MessageTypes
<1>3. /\ down[p] = <<>> /\ n > 0
      /\ \/ hand[p] = <<<<end>>>> /\ up[p] = echo
         \/ hand[p] = <<>> /\ up[p] = echo \o <<end>>
  BY DEF Requested, Answering, Echo, ActiveKind
<1>4. /\ Message(p, "end")' = end /\ Message(p, "data")' = data
      /\ down'[p] = down[p] /\ hand'[p] = hand[p]
      /\ up'[p] = SubSeq(up[p], Lesser(n, Len(up[p])) + 1, Len(up[p]))
  BY DEF Message, ReadFrom
<1> HIDE DEF end, data
<1>5. echo \in Seq(Messages(p)) /\ Len(echo) = n
  BY <1>1, <1>2, CopiesType
<1> HIDE DEF echo, n
<1>6. CASE hand[p] = <<<<end>>>> /\ up[p] = echo
  <2>1. Lesser(n, Len(up[p])) = n /\ SubSeq(up[p], n + 1, n) = <<>>
    BY <1>1, <1>5, <1>6 DEF Lesser
  <2>2. up'[p] = <<>>
    BY <1>4, <1>5, <1>6, <2>1
  <2>3. Len(hand'[p]) = 1 /\ Len(up'[p]) = 0 /\ hand'[p] # <<>> /\ hand'[p][1] = <<end>>
    <3>1. hand'[p] = <<<<end>>>>
      BY <1>4, <1>6
    <3>2. Len(up'[p]) = 0
      BY <2>2
    <3> QED
      BY <3>1, <3>2
  <2>4. Series(p)'
    <3>1. /\ hand'[p][Len(hand'[p])] = <<end>>
          /\ \A i \in 1..(Len(hand'[p]) - 1) : hand'[p][i] = <<data>>
          /\ \A i \in 1..Len(up'[p]) : up'[p][i] = data
      BY <2>3
    <3> QED
      BY <1>3, <1>4, <2>3, <3>1, Zenon DEF Series
  <2> QED
    BY <2>1, <2>3, <2>4 DEF n
<1>7. CASE hand[p] = <<>> /\ up[p] = echo \o <<end>>
  <2>1. Len(up[p]) = n + 1 /\ up[p] \in Seq(Messages(p)) /\ up[p][n + 1] = end
    BY <1>2, <1>5, <1>7, Appended
  <2>2. Lesser(n, Len(up[p])) = n
    BY <1>1, <2>1 DEF Lesser
  <2>3. SubSeq(up[p], n + 1, n + 1) = <<end>>
    BY <1>1, <2>1, LastOf
  <2>4. up'[p] = <<end>>
    BY <1>4, <2>1, <2>2, <2>3
  <2>5. Len(hand'[p]) = 0 /\ Len(up'[p]) = 1 /\ up'[p] # <<>> /\ up'[p][1] = end
    <3>1. Len(hand'[p]) = 0 /\ hand'[p] = <<>>
      BY <1>4, <1>7
    <3> QED
      BY <2>4, <3>1
  <2>6. Series(p)'
    <3>1. /\ up'[p][Len(up'[p])] = end
          /\ \A i \in 1..(Len(up'[p]) - 1) : up'[p][i] = data
      BY <2>5
    <3>2. hand'[p] = <<>>
      BY <1>4, <1>7
    <3> QED
      BY <1>3, <1>4, <2>5, <3>1, <3>2, Zenon DEF Series
  <2> QED
    BY <2>2, <2>5, <2>6 DEF n
<1> QED
  BY <1>3, <1>6, <1>7

-----------------------------------------------------------------------------
(***************************************************************************)
(* The steps of the programs, as far as the conversation goes              *)
(***************************************************************************)
LEMMA IdleHistory ==
    ASSUME ChanInv, UNCHANGED <<channels, history>>,
           c.prog # "none", c'.prog # "none",
           c.at \notin Reading, c'.at \notin Reading
    PROVE  ChanInv'
BY ChanIdle DEF history

\* Opening and closing say nothing to RTSS.
LEMMA ChanOpenNext ==
    ASSUME ProgInv, ChanInv, c.prog # "none", NEW ok, ok \notin Reading, OpenNext(ok)
    PROVE  ChanInv'
<1>1. {"prog", "at", "open"} \subseteq DOMAIN c
  BY DEF ProgInv, ProgramState
<1>2. /\ c.at = "opening" /\ c'.at \in {ok, "opened"} /\ c'.prog = c.prog
      /\ UNCHANGED <<channels, history>>
  BY <1>1, OpenNextEffect DEF Keeps
<1> QED
  BY <1>2, IdleHistory DEF Reading

\* The program looks at what rtss_mb_open returned: a failure is a fault.
LEMMA ChanOpenReturned ==
    ASSUME ChanInv, c.prog # "none", NEW failed, failed \notin Reading, OpenReturned(failed),
           {"prog", "at", "open", "todo"} \subseteq DOMAIN c
    PROVE  ChanInv'
<1>1. /\ c.at = "opened" /\ c'.at \in {failed, "opening"} /\ c'.prog = c.prog
      /\ UNCHANGED <<channels, sent, got, foreign>>
      /\ fault' = fault \/ fault' = TRUE
  BY OpenReturnedEffect DEF Keeps
<1> QED
  BY <1>1, ChanIdle DEF Reading

\* Closing says nothing to RTSS either.
LEMMA ChanCloseAll ==
    ASSUME ProgInv, ChanInv, c.prog # "none", c.at \notin Reading,
           NEW names, NEW rest, NEW done, done \notin Reading, CloseAll(names, rest, done),
           {"prog", "at", "open"} \subseteq DOMAIN rest, rest.prog = c.prog, rest.at = c.at
    PROVE  ChanInv'
<1>1. {"prog", "at", "open"} \subseteq DOMAIN c
  BY DEF ProgInv, ProgramState
<1>2. /\ c'.at \in {done, c.at} /\ c'.prog = c.prog
      /\ got' = <<>> /\ UNCHANGED <<channels, sent, foreign, fault>>
  BY <1>1, CloseAllEffect DEF Keeps
<1> QED
  BY <1>2, ChanIdle

\* A read of one message from a channel that holds some takes one.
LEMMA FirstOf ==
    ASSUME ChanInv, NEW p \in Pairs, up[p] # <<>>
    PROVE  Lesser(1, Len(up[p])) = 1 /\ 1 \in 1..Depth
<1>1. up[p] \in Seq(Messages(p))
  BY DEF ChanInv, ChannelTypes
<1> DEFINE n == Len(up[p])
<1>2. n \in Nat \ {0}
  BY <1>1, HeadAndTail
<1>3. Depth \in Nat \ {0}
  BY ClientAssumption
<1> HIDE DEF n
<1>4. Lesser(1, n) = 1
  BY <1>2 DEF Lesser
<1> QED
  BY <1>3, <1>4 DEF n

\* The conversations of the demo: one request, one answer.
LEMMA ChanDemoStep ==
    ASSUME ProgInv, ChanInv, c.prog = "mbdemo", DemoStep
    PROVE  ChanInv'
<1>0. {"prog", "at", "open"} \subseteq DOMAIN c /\ DemoState
  BY DEF ProgInv, ProgramState
<1>1. CASE OpenNext("iteration")
  BY <1>1, ChanOpenNext DEF Reading
<1>2. CASE OpenReturned("cleanup")
  <2>1. c.at = "opened"
    BY <1>2 DEF OpenReturned
  <2>2. DOMAIN c = DemoFields
    BY <2>1, DemoPair DEF DemoClosing
  <2> QED
    BY <1>2, <2>2, ChanOpenReturned DEF Reading, DemoFields
<1>3. CASE Iteration
  <2>1. c.at = "iteration" /\ UNCHANGED <<channels, history>>
    BY <1>3 DEF Iteration, Demo
  <2>2. DOMAIN c = DemoFields
    BY <2>1, DemoPair DEF DemoClosing
  <2>3. \/ At("cleanup")
        \/ c' = [c EXCEPT !.at = "write", !.count = @ + 1, !.core = 1]
    BY <1>3 DEF Iteration
  <2>4. c'.at \in {"cleanup", "write"} /\ c'.prog = c.prog
    BY <2>2, <2>3, Zenon DEF At, DemoFields
  <2> QED
    BY <2>1, <2>4, IdleHistory DEF Reading
<1>4. CASE Demo_Write
  <2>1. c.at = "write" /\ Write(c.cores[c.core], "one", 1, "read", "cleanup")
    BY <1>4 DEF Demo_Write, Demo
  <2>2. DOMAIN c = DemoFields
    BY <2>1, DemoPair DEF DemoClosing
  <2>3. PICK p \in Pairs : p = c.cores[c.core]
    BY <2>1, DemoPair DEF DemoClosing
  <2>4. Keeps({"at"})
    BY <1>0, <2>1, WriteMoves
  <2>5. c'.prog = c.prog /\ c'.cores = c.cores /\ c'.core = c.core
    BY <2>2, <2>4 DEF Keeps, DemoFields
  <2>6. c'.at = "read" => ActivePair' = p /\ ActiveKind' = "one"
    BY <2>3, <2>5 DEF ActivePair, ActiveKind
  <2> QED
    BY <1>0, <2>1, <2>3, <2>5, <2>6, ChanWrite DEF Reading
<1>5. CASE Demo_Read
  <2> DEFINE after == [n \in 1..Depth |-> "next"]
  <2>1. c.at = "read" /\ Read(c.cores[c.core], 1, after, "cleanup")
    BY <1>5 DEF Demo_Read, Demo
  <2>2. DOMAIN c = DemoFields
    BY <2>1, DemoPair DEF DemoClosing
  <2>3. PICK p \in Pairs : p = c.cores[c.core]
    BY <2>1, DemoPair DEF DemoClosing
  <2>4. p = ActivePair /\ ActiveKind = "one"
    BY <2>1, <2>3 DEF ActivePair, ActiveKind
  <2>5. \A n \in 1..Depth : after[n] = "next"
    OBVIOUS
  <2> HIDE DEF after
  <2>6. Keeps({"at"}) /\ c'.at \notin Reading
    <3>1. Len(up[p]) \in 0..Depth
      BY ClientAssumption DEF ChanInv, ChannelTypes
    <3>2. Keeps({"at"}) /\ c'.at \in {after[n] : n \in 1..Depth} \cup {"cleanup"}
      BY <1>0, <2>1, <2>3, <3>1, ReadMoves
    <3> QED
      BY <2>5, <3>2 DEF Reading
  <2>7. c'.prog = c.prog
    BY <2>2, <2>6 DEF Keeps, DemoFields
  <2>8. ASSUME Requested(p) \/ Answering(p), up[p] # <<>>,
               c'.at = after[Lesser(1, Len(up[p]))], ReadFrom(p, 1)
        PROVE  c'.at \notin Reading /\ Quiet(p)'
    BY <2>4, <2>5, <2>8, FirstOf, ReadOne DEF Reading
  <2> QED
    BY <1>0, <2>1, <2>3, <2>4, <2>6, <2>7, <2>8, ChanRead DEF Reading
<1>6. CASE NextCore
  <2>1. c.at = "next" /\ UNCHANGED <<channels, history>>
    BY <1>6 DEF NextCore, Demo
  <2>2. DOMAIN c = DemoFields
    BY <2>1, DemoPair DEF DemoClosing
  <2>3. \/ At("iteration")
        \/ c' = [c EXCEPT !.at = "write", !.core = @ + 1]
    BY <1>6 DEF NextCore
  <2>4. c'.at \in {"iteration", "write"} /\ c'.prog = c.prog
    BY <2>2, <2>3, Zenon DEF At, DemoFields
  <2> QED
    BY <2>1, <2>4, IdleHistory DEF Reading
<1>7. CASE rtss_mb_close_channels
  <2>1. c.at = "cleanup" /\ CloseAll(ChannelsOf(Cores), Closing, "exit")
    BY <1>7 DEF rtss_mb_close_channels, Demo
  <2> QED
    BY <2>1, ChanCloseAll, ClosingRecord DEF Reading
<1> QED
  BY <1>1, <1>2, <1>3, <1>4, <1>5, <1>6, <1>7 DEF DemoStep, rtss_mb_open_channel

\* What a step of the debug utility keeps when it moves between labels.
LEMMA DbgKeeps ==
    ASSUME ProgInv, c.prog = "dbg", c.at \notin DbgClosing,
           NEW fs, Keeps(fs), fs \cap {"prog", "cmd", "nodes"} = {}
    PROVE  /\ c'.prog = "dbg" /\ c'.cmd = c.cmd /\ c'.nodes = c.nodes
           /\ "tbytes" \notin fs => c'.tbytes = c.tbytes
<1>1. DOMAIN c = DbgFields
  BY DbgFieldsKnown
<1> QED
  BY <1>1 DEF Keeps, DbgFields

\* A request of the debug utility.
LEMMA ChanDbgWrite ==
    ASSUME ProgInv, ChanInv, c.prog = "dbg", c.at \notin DbgClosing, c.at \notin Reading,
           NEW p \in Pairs, NEW kind \in {"one", "many", "kpi"}, NEW items \in Nat,
           NEW ok \in Reading \ {"kpi_stamp"}, NEW failed, failed \notin Reading,
           Write(p, kind, items, ok, failed),
           \/ /\ ok = "kpi_read" /\ kind = "kpi" /\ items = c.tbytes
              /\ p = c.nodes[1][1]
           \/ /\ ok # "kpi_read" /\ p = "tst" /\ items = 1
              /\ kind = IF ok = "read" /\ c.cmd = "file" THEN "many" ELSE "one"
    PROVE  ChanInv'
<1>1. "at" \in DOMAIN c
  BY DEF ProgInv, ProgramState
<1>2. Keeps({"at"})
  BY <1>1, WriteMoves
<1>3. c'.prog = "dbg" /\ c'.cmd = c.cmd /\ c'.nodes = c.nodes /\ c'.tbytes = c.tbytes
  BY <1>2, DbgKeeps
<1>4. c'.at = ok => /\ ActivePair' = p
                    /\ ActiveKind' = kind
                    /\ items = IF kind = "kpi" THEN c'.tbytes ELSE 1
  BY <1>3 DEF ActivePair, ActiveKind
<1> QED
  BY <1>1, <1>3, <1>4, ChanWrite

\* The label and the fields after a read of the debug utility.
LEMMA DbgReadMoves ==
    ASSUME ProgInv, ChanInv, c.prog = "dbg", c.at \notin DbgClosing,
           NEW p \in Pairs, NEW items \in Nat, NEW after, NEW failed,
           Read(p, items, after, failed),
           NEW ls, \A n \in 1..Depth : after[n] \in ls
    PROVE  /\ c'.at \in ls \cup {failed}
           /\ c'.prog = "dbg" /\ c'.cmd = c.cmd /\ c'.nodes = c.nodes /\ c'.tbytes = c.tbytes
<1>1. "at" \in DOMAIN c
  BY DEF ProgInv, ProgramState
<1>2. Len(up[p]) \in 0..Depth
  BY ClientAssumption DEF ChanInv, ChannelTypes
<1>3. c'.at \in {after[n] : n \in 1..Depth} \cup {failed} /\ Keeps({"at"})
  BY <1>1, <1>2, ReadMoves
<1> QED
  BY <1>3, DbgKeeps

\* A read of the debug utility that ends the conversation.
LEMMA ChanDbgReadLast ==
    ASSUME ProgInv, ChanInv, c.prog = "dbg", c.at \notin DbgClosing, c.at \in Reading,
           NEW p \in Pairs, p = ActivePair, ActiveKind = "one",
           NEW after, NEW failed, failed \notin Reading,
           Read(p, 1, after, failed),
           \A n \in 1..Depth : after[n] \notin Reading
    PROVE  ChanInv'
<1>1. c'.at \notin Reading /\ c'.prog = "dbg"
  <2> DEFINE ls == {after[n] : n \in 1..Depth}
  <2>1. \A n \in 1..Depth : after[n] \in ls
    OBVIOUS
  <2>2. \A l \in ls : l \notin Reading
    OBVIOUS
  <2> HIDE DEF ls
  <2> QED
    BY <2>1, <2>2, DbgReadMoves
<1>2. ASSUME Requested(p) \/ Answering(p), up[p] # <<>>, ReadFrom(p, 1)
      PROVE  Quiet(p)'
  BY <1>2, ReadOne
<1>3. "at" \in DOMAIN c
  BY DEF ProgInv, ProgramState
<1> QED
  BY <1>1, <1>2, <1>3, ChanRead

\* The answer of a round, or the next message of a series.
LEMMA ChanRoundRead ==
    ASSUME ProgInv, ChanInv, c.prog = "dbg", Round_Read
    PROVE  ChanInv'
<1> DEFINE after == [n \in 1..Depth |->
                       IF c.cmd = "file" /\ up["tst"][1].part # "end" THEN "read" ELSE "round"]
<1>1. c.at = "read" /\ Read("tst", 1, after, "rtssdbg_exit")
  BY DEF Round_Read, Dbg
<1>2. \A n \in 1..Depth : /\ after[n] \in {"read", "round"}
                          /\ after[n] = IF c.cmd = "file" /\ up["tst"][1].part # "end"
                                        THEN "read" ELSE "round"
  OBVIOUS
<1> HIDE DEF after
<1>3. PICK p \in Pairs : p = "tst"
  BY TestPairExists
<1>4. c.at \notin DbgClosing /\ c.at \in Reading /\ p = ActivePair
  BY <1>1, <1>3 DEF DbgClosing, Reading, ActivePair
<1>5. /\ c'.at \in {"read", "round", "rtssdbg_exit"}
      /\ c'.prog = "dbg" /\ c'.cmd = c.cmd
  <2>1. Read(p, 1, after, "rtssdbg_exit") /\ \A n \in 1..Depth : after[n] \in {"read", "round"}
    BY <1>1, <1>2, <1>3
  <2>2. /\ c'.at \in {"read", "round"} \cup {"rtssdbg_exit"}
        /\ c'.prog = "dbg" /\ c'.cmd = c.cmd
    BY <1>4, <2>1, DbgReadMoves
  <2> QED
    BY <2>2
<1>6. /\ ActiveKind = IF c.cmd = "file" THEN "many" ELSE "one"
      /\ ActivePair' = p
      /\ c'.at = "read" => ActiveKind' = IF c.cmd = "file" THEN "many" ELSE "one"
  BY <1>1, <1>3, <1>5 DEF ActiveKind, ActivePair
<1>7. ASSUME Requested(p) \/ Answering(p), up[p] # <<>>,
             c'.at = after[Lesser(1, Len(up[p]))], ReadFrom(p, 1)
      PROVE  IF c'.at \in Reading THEN p = ActivePair' /\ Answering(p)' ELSE Quiet(p)'
  <2>1. c'.at = IF c.cmd = "file" /\ up[p][1].part # "end" THEN "read" ELSE "round"
    BY <1>2, <1>3, <1>7, FirstOf
  <2>2. CASE c.cmd = "file"
    <3>1. IF up[p][1].part # "end" THEN Series(p)' ELSE Quiet(p)'
      BY <1>6, <1>7, <2>2, ReadMany
    <3> QED
      BY <1>6, <2>1, <2>2, <3>1 DEF Answering, Reading
  <2>3. CASE c.cmd # "file"
    <3>1. Quiet(p)'
      BY <1>6, <1>7, <2>3, ReadOne
    <3> QED
      BY <2>1, <2>3, <3>1 DEF Reading
  <2> QED
    BY <2>2, <2>3
<1>8. "at" \in DOMAIN c
  BY DEF ProgInv, ProgramState
<1> QED
  BY <1>1, <1>3, <1>4, <1>5, <1>6, <1>7, <1>8, ChanRead

\* The echo of the performance test, up to its timestamp.
LEMMA ChanKpiRead ==
    ASSUME ProgInv, ChanInv, c.prog = "dbg", kpi_Read
    PROVE  ChanInv'
<1> DEFINE after == [n \in 1..Depth |-> IF n = c.tbytes THEN "kpi_stamp" ELSE "kpi_short"]
<1>1. c.at = "kpi_read" /\ Read(c.nodes[1][1], c.tbytes, after, "kpi_close")
  BY DEF kpi_Read, Dbg
<1>2. \A n \in 1..Depth : /\ after[n] \in {"kpi_stamp", "kpi_short"}
                          /\ n = c.tbytes => after[n] = "kpi_stamp"
  OBVIOUS
<1> HIDE DEF after
<1>3. PICK p \in Pairs : p = c.nodes[1][1]
  BY <1>1, TestPair DEF Testing
<1>4. PICK n \in Nat : n = c.tbytes
  BY <1>1, ActiveBytes
<1>5. c.at \notin DbgClosing /\ c.at \in Reading /\ p = ActivePair
  BY <1>1, <1>3 DEF DbgClosing, Reading, ActivePair
<1>6. /\ c'.at \in {"kpi_stamp", "kpi_short", "kpi_close"}
      /\ c'.prog = "dbg" /\ c'.nodes = c.nodes
  <2>1. Read(p, n, after, "kpi_close") /\ \A m \in 1..Depth : after[m] \in {"kpi_stamp", "kpi_short"}
    BY <1>1, <1>2, <1>3, <1>4
  <2>2. /\ c'.at \in {"kpi_stamp", "kpi_short"} \cup {"kpi_close"}
        /\ c'.prog = "dbg" /\ c'.nodes = c.nodes
    BY <1>5, <2>1, DbgReadMoves
  <2> QED
    BY <2>2
<1>7. c'.at \in Reading => ActivePair' = p /\ ActiveKind' = "one"
  BY <1>3, <1>6 DEF ActiveKind, ActivePair, Reading
<1>8. ASSUME Requested(p) \/ Answering(p), n > 0, up[p] # <<>>,
             c'.at = after[Lesser(n, Len(up[p]))], ReadFrom(p, n)
      PROVE  IF c'.at \in Reading THEN p = ActivePair' /\ Answering(p)' ELSE Quiet(p)'
  <2>1. /\ Lesser(n, Len(up[p])) = n
        /\ Series(p)'
        /\ Len(hand'[p]) + Len(up'[p]) = 1
    BY <1>1, <1>4, <1>8, ReadEcho
  <2>2. n \in 1..Depth
    <3>1. Len(up[p]) \in Nat /\ Len(up[p]) <= Depth
      BY DEF ChanInv, ChannelTypes
    <3> QED
      BY <1>8, <2>1, <3>1, ClientAssumption DEF Lesser
  <2>3. c'.at = "kpi_stamp"
    BY <1>2, <1>4, <1>8, <2>1, <2>2
  <2> QED
    BY <1>7, <2>1, <2>3 DEF Answering, Reading
<1>9. "at" \in DOMAIN c
  BY DEF ProgInv, ProgramState
<1>10. Read(p, n, after, "kpi_close")
  BY <1>1, <1>3, <1>4
<1> QED
  BY <1>5, <1>6, <1>7, <1>8, <1>9, <1>10, ChanRead

\* A reset that fails half-way is a failed call.
LEMMA ChanResetFails ==
    ASSUME ChanInv, NEW p \in Pairs, c.prog # "none", c'.prog # "none",
           up' \in {up, [up EXCEPT ![p] = <<>>]},
           fault' = TRUE, got' = <<>>, UNCHANGED <<down, hand, sent, foreign>>
    PROVE  ChanInv'
<1>1. /\ up = [q \in Pairs |-> up[q]]
      /\ <<>> \in Seq(Messages(p)) /\ Len(<<>>) <= Depth
  BY ClientAssumption DEF ChanInv, ChannelTypes
<1>2. /\ up' = [q \in Pairs |-> up'[q]] /\ up'[p] \in {up[p], <<>>}
      /\ \A q \in Pairs \ {p} : up'[q] = up[q]
  <2>1. CASE up' = up
    BY <1>1, <2>1
  <2>2. CASE up' = [up EXCEPT ![p] = <<>>]
    BY <1>1, <2>2, Updated
  <2> QED
    BY <2>1, <2>2
<1>3. ChannelTypes'
  BY <1>1, <1>2 DEF ChanInv, ChannelTypes
<1>4. Counters' /\ AnswersMatch' /\ Conversation'
  BY DEF ChanInv, Counters, AnswersMatch, Conversation
<1> QED
  BY <1>3, <1>4 DEF ChanInv

\* A step of the debug utility that says nothing to RTSS.
LEMMA ChanDbgIdle ==
    ASSUME ProgInv, ChanInv, c.prog = "dbg", c.at \notin DbgClosing, c.at \notin Reading,
           UNCHANGED <<channels, sent, got, foreign>>, fault' = fault \/ fault' = TRUE,
           NEW fs, Keeps(fs), "prog" \notin fs, c'.at \notin Reading
    PROVE  ChanInv'
<1>1. DOMAIN c = DbgFields
  BY DbgFieldsKnown
<1>2. c'.prog = "dbg"
  BY <1>1 DEF Keeps, DbgFields
<1> QED
  BY <1>2, ChanIdle

\* The choice of the command.
LEMMA ChanDispatch ==
    ASSUME ProgInv, ChanInv, c.prog = "dbg", Dispatch
    PROVE  ChanInv'
<1>1. c.at = "dispatch" /\ UNCHANGED <<channels, sent, got, foreign, fault>>
  BY DEF Dispatch, Dbg, history
<1>2. DOMAIN c = DbgFields
  BY <1>1, DbgFieldsKnown DEF DbgClosing
<1>3. \/ At("rtssdbg_exit")
      \/ c' = [c EXCEPT !.at = "cfg_reset", !.stage = "cfg"]
      \/ c' = [c EXCEPT !.at = "write", !.cmd = "file"]
      \/ \E n \in 0..MaxIter : c' = [c EXCEPT !.at = "write", !.cmd = "rounds", !.left = n]
  BY DEF Dispatch
<1>4. /\ c'.at \in {"rtssdbg_exit", "cfg_reset", "write"}
      /\ Keeps({"at", "stage", "cmd", "left"})
  BY <1>2, <1>3, Zenon DEF At, Keeps, DbgFields
<1> QED
  BY <1>1, <1>4, ChanDbgIdle DEF DbgClosing, Reading

\* The loop over the rounds.
LEMMA ChanRoundNext ==
    ASSUME ProgInv, ChanInv, c.prog = "dbg", Round_Next
    PROVE  ChanInv'
<1>1. c.at = "round" /\ UNCHANGED <<channels, sent, got, foreign, fault>>
  BY DEF Round_Next, Dbg, history
<1>2. DOMAIN c = DbgFields
  BY <1>1, DbgFieldsKnown DEF DbgClosing
<1>3. \/ c' = [c EXCEPT !.at = "close"]
      \/ c' = [c EXCEPT !.at = "write", !.left = @ - 1]
  BY DEF Round_Next
<1>4. c'.at \in {"close", "write"} /\ Keeps({"at", "left"})
  BY <1>2, <1>3, Zenon DEF Keeps, DbgFields
<1> QED
  BY <1>1, <1>4, ChanDbgIdle DEF DbgClosing, Reading

\* The steps between the commands of the performance test.
LEMMA ChanKpitst ==
    ASSUME ProgInv, ChanInv, c.prog = "dbg", kpitst_exec
    PROVE  ChanInv'
<1>1. /\ c.at \in {"cfg_passed", "cfg_failed"}
      /\ UNCHANGED <<channels, sent, got, foreign, fault>>
  BY DEF kpitst_exec, history
<1>2. DOMAIN c = DbgFields
  BY <1>1, DbgFieldsKnown DEF DbgClosing
<1>3. \/ \E ns \in KpiNodes :
            c' = [c EXCEPT !.at = "opening", !.stage = "kpi", !.todo = ns, !.nodes = ns]
      \/ c' = [c EXCEPT !.at = "cfg_reset", !.stage = "end"]
      \/ At("close")
  BY DEF kpitst_exec
<1>4. /\ c'.at \in {"opening", "cfg_reset", "close"}
      /\ Keeps({"at", "stage", "todo", "nodes"})
  BY <1>2, <1>3, Zenon DEF At, Keeps, DbgFields
<1> QED
  BY <1>1, <1>4, ChanDbgIdle DEF DbgClosing, Reading

\* The next round of the test, or its end.
LEMMA ChanKpiNext ==
    ASSUME ProgInv, ChanInv, c.prog = "dbg", kpi_Next
    PROVE  ChanInv'
<1>1. /\ c.at \in {"kpi_next", "kpi_short"}
      /\ UNCHANGED <<channels, sent, got, foreign>>
  BY DEF kpi_Next
<1>2. DOMAIN c = DbgFields
  BY <1>1, DbgFieldsKnown DEF DbgClosing
<1>3. \/ c' = [c EXCEPT !.at = "kpi_write", !.tbytes = @ - 1]
      \/ c' = [c EXCEPT !.at = "kpi_write", !.tbytes = c.maxsz, !.left = @ - 1]
      \/ c' = [c EXCEPT !.at = "kpi_close"]
  BY Zenon DEF kpi_Next, At
<1>4. c'.at \in {"kpi_write", "kpi_close"} /\ Keeps({"at", "tbytes", "left"})
  BY <1>2, <1>3, Zenon DEF Keeps, DbgFields
<1>5. fault' = fault \/ fault' = TRUE
  BY DEF kpi_Next, ChanInv
<1> QED
  BY <1>1, <1>4, <1>5, ChanDbgIdle DEF DbgClosing, Reading

\* After the test, the command that ends it.
LEMMA ChanKpiEnd ==
    ASSUME ProgInv, ChanInv, c.prog = "dbg", kpi_End
    PROVE  ChanInv'
<1>1. /\ c.at = "kpi_closed" /\ UNCHANGED <<channels, sent, got, foreign, fault>>
      /\ c' = [c EXCEPT !.at = "cfg_reset", !.stage = "end"]
  BY DEF kpi_End, Dbg, history
<1>2. DOMAIN c = DbgFields
  BY <1>1, DbgFieldsKnown DEF DbgClosing
<1>3. c'.at = "cfg_reset" /\ Keeps({"at", "stage"})
  BY <1>1, <1>2, Zenon DEF Keeps, DbgFields
<1> QED
  BY <1>1, <1>3, ChanDbgIdle DEF DbgClosing, Reading

\* The reset before a command: the answers of earlier programs are gone.
LEMMA ChanCfgReset ==
    ASSUME ProgInv, ChanInv, c.prog = "dbg", cfg_exec_Reset
    PROVE  ChanInv'
<1>1. /\ c.at = "cfg_reset" /\ got' = <<>> /\ UNCHANGED <<hand, sent>>
      /\ \/ /\ up' = [up EXCEPT !["tst"] = <<>>]
            /\ At("cfg_write")
            /\ UNCHANGED <<down, fault>>
            /\ Forget("tst")
         \/ /\ At("close")
            /\ fault' = TRUE
            /\ UNCHANGED <<down, up, foreign>>
  BY DEF cfg_exec_Reset, Dbg
<1>2. PICK p \in Pairs : p = "tst"
  BY TestPairExists
<1>3. DOMAIN c = DbgFields
  BY <1>1, DbgFieldsKnown DEF DbgClosing
<1>4. c'.at \in {"cfg_write", "close"} /\ c'.prog = "dbg"
  BY <1>1, <1>3, AtMoves DEF Keeps, DbgFields
<1>5. CASE /\ up' = [up EXCEPT !["tst"] = <<>>]
           /\ UNCHANGED <<down, fault>>
           /\ Forget("tst")
  <2>1. up' = [up EXCEPT ![p] = <<>>] /\ Forget(p) /\ UNCHANGED <<hand, sent, fault>> /\ down' = down
    BY <1>1, <1>2, <1>5
  <2> QED
    BY <1>1, <1>4, <2>1, ChanReset DEF Reading
<1>6. CASE fault' = TRUE /\ UNCHANGED <<down, up, foreign>>
  <2>1. up' \in {up, [up EXCEPT ![p] = <<>>]}
    BY <1>6
  <2> QED
    BY <1>1, <1>4, <1>6, <2>1, ChanResetFails
<1> QED
  BY <1>1, <1>5, <1>6

\* The resets before the performance test, first of what comes up.
LEMMA ChanResetRd ==
    ASSUME ProgInv, ChanInv, c.prog = "dbg", getMaxSz_ResetRd
    PROVE  ChanInv'
<1>1. c.at = "getMaxSz" /\ got' = <<>> /\ UNCHANGED <<down, hand, sent>>
  BY DEF getMaxSz_ResetRd, Dbg
<1>2. PICK p \in Pairs : p = c.nodes[1][1]
  BY <1>1, TestPair DEF Testing
<1>3. DOMAIN c = DbgFields
  BY <1>1, DbgFieldsKnown DEF DbgClosing
<1>4. \/ /\ up' = [up EXCEPT ![p] = <<>>]
         /\ Forget(p)
         /\ UNCHANGED fault
      \/ /\ up' \in {up, [up EXCEPT ![p] = <<>>]}
         /\ fault' = TRUE
         /\ UNCHANGED foreign
  BY <1>2 DEF getMaxSz_ResetRd, Forget
<1>5. c'.at \in {"getMaxSz_wr", "kpi_close"} /\ c'.prog = "dbg"
  BY <1>3, AtMoves DEF getMaxSz_ResetRd, Keeps, DbgFields
<1> QED
  BY <1>1, <1>4, <1>5, ChanReset, ChanResetFails DEF Reading

\* Then of what goes down.
LEMMA ChanGetMaxSz ==
    ASSUME ProgInv, ChanInv, c.prog = "dbg", getMaxSz
    PROVE  ChanInv'
<1>1. c.at = "getMaxSz_wr" /\ got' = <<>> /\ UNCHANGED <<up, hand, sent>>
  BY DEF getMaxSz, Dbg
<1>2. PICK p \in Pairs : p = c.nodes[2][1]
  BY <1>1, TestPair DEF Testing
<1>3. DOMAIN c = DbgFields
  BY <1>1, DbgFieldsKnown DEF DbgClosing
<1>4. \/ /\ down' = [down EXCEPT ![p] = <<>>]
         /\ Forget(p)
         /\ UNCHANGED fault
      \/ /\ up' \in {up, [up EXCEPT ![p] = <<>>]}
         /\ fault' = TRUE
         /\ UNCHANGED <<down, foreign>>
  BY <1>1, <1>2 DEF getMaxSz, Forget
<1>5. \/ \E max \in KpiSizes, n \in 0..MaxIter, t \in BOOLEAN :
            c' = [c EXCEPT !.at = "kpi_write", !.tbytes = Lesser(max, Depth),
                           !.maxsz = Lesser(max, Depth), !.mcont = t,
                           !.left = IF n = 0 THEN 0 ELSE n - 1]
      \/ At("kpi_close")
  BY DEF getMaxSz
<1>6. c'.at \in {"kpi_write", "kpi_close"} /\ c'.prog = "dbg"
  BY <1>3, <1>5, Zenon DEF At, DbgFields
<1> QED
  BY <1>1, <1>4, <1>6, ChanReset, ChanResetFails DEF Reading

\* Every step of the debug utility keeps the conversation.
LEMMA ChanDbgStep ==
    ASSUME ProgInv, ChanInv, c.prog = "dbg", DbgStep
    PROVE  ChanInv'
<1>0. {"prog", "at", "open"} \subseteq DOMAIN c
  BY DEF ProgInv, ProgramState
<1>1. CASE Dbg_Open
  <2>1. CASE OpenNext(IF c.stage = "main" THEN "dispatch" ELSE "getMaxSz")
    <3>1. PICK ok \in {"dispatch", "getMaxSz"} :
                 ok = IF c.stage = "main" THEN "dispatch" ELSE "getMaxSz"
      OBVIOUS
    <3> QED
      BY <2>1, <3>1, ChanOpenNext DEF Reading
  <2>2. CASE OpenReturned(IF c.stage = "main" THEN "rtssdbg_exit" ELSE "kpi_close")
    <3>1. PICK failed \in {"rtssdbg_exit", "kpi_close"} :
                 failed = IF c.stage = "main" THEN "rtssdbg_exit" ELSE "kpi_close"
      OBVIOUS
    <3>2. c.at = "opened"
      BY <2>2 DEF OpenReturned
    <3>3. DOMAIN c = DbgFields
      BY <3>2, DbgFieldsKnown DEF DbgClosing
    <3> QED
      BY <2>2, <3>1, <3>3, ChanOpenReturned DEF Reading, DbgFields
  <2> QED
    BY <1>1, <2>1, <2>2 DEF Dbg_Open
<1>2. CASE Dispatch
  BY <1>2, ChanDispatch
<1>3. CASE Round_Write
  <2>1. PICK p \in Pairs : p = "tst"
    BY TestPairExists
  <2>2. PICK kind \in {"one", "many"} : kind = IF c.cmd = "file" THEN "many" ELSE "one"
    OBVIOUS
  <2>3. c.at = "write" /\ Write(p, kind, 1, "read", "rtssdbg_exit")
    BY <1>3, <2>1, <2>2 DEF Round_Write, Dbg
  <2> QED
    BY <2>1, <2>2, <2>3, ChanDbgWrite DEF DbgClosing, Reading
<1>4. CASE Round_Read
  BY <1>4, ChanRoundRead
<1>5. CASE Round_Next
  BY <1>5, ChanRoundNext
<1>6. CASE cfg_exec_Reset
  BY <1>6, ChanCfgReset
<1>7. CASE cfg_exec_Write
  <2>1. PICK p \in Pairs : p = "tst"
    BY TestPairExists
  <2>2. c.at = "cfg_write" /\ Write(p, "one", 1, "cfg_read", "close")
    BY <1>7, <2>1 DEF cfg_exec_Write, Dbg
  <2> QED
    BY <2>1, <2>2, ChanDbgWrite DEF DbgClosing, Reading
<1>8. CASE cfg_exec_Read
  <2>1. PICK ok \in {"cfg_passed", "cfg_failed"} :
             c.at = "cfg_read" /\ Read("tst", 1, [n \in 1..Depth |-> ok], "cfg_failed")
    BY <1>8 DEF cfg_exec_Read, Dbg
  <2> DEFINE after == [n \in 1..Depth |-> ok]
  <2>2. PICK p \in Pairs : p = "tst"
    BY TestPairExists
  <2>3. Read(p, 1, after, "cfg_failed")
    BY <2>1, <2>2
  <2>4. \A n \in 1..Depth : after[n] \notin Reading
    BY DEF Reading
  <2> HIDE DEF after
  <2>5. p = ActivePair /\ ActiveKind = "one" /\ c.at \notin DbgClosing /\ c.at \in Reading
        /\ "cfg_failed" \notin Reading
    BY <2>1, <2>2 DEF ActivePair, ActiveKind, Reading, DbgClosing
  <2> QED
    BY <2>3, <2>4, <2>5, ChanDbgReadLast
<1>9. CASE kpitst_exec
  BY <1>9, ChanKpitst
<1>10. CASE getMaxSz_ResetRd \/ getMaxSz
  BY <1>10, ChanResetRd, ChanGetMaxSz
<1>11. CASE kpi_Write
  <2>1. c.at = "kpi_write" /\ Write(c.nodes[2][1], "kpi", c.tbytes, "kpi_read", "kpi_close")
    BY <1>11 DEF kpi_Write, Dbg
  <2>2. PICK p \in Pairs : p = c.nodes[1][1] /\ p = c.nodes[2][1]
    BY <2>1, TestPair DEF Testing
  <2>3. PICK n \in Nat : n = c.tbytes
    BY <2>1, DbgFieldsKnown DEF DbgState, DbgClosing
  <2>4. Write(p, "kpi", n, "kpi_read", "kpi_close")
    BY <2>1, <2>2, <2>3
  <2> QED
    BY <2>1, <2>2, <2>3, <2>4, ChanDbgWrite DEF DbgClosing, Reading
<1>12. CASE kpi_Read
  BY <1>12, ChanKpiRead
<1>13. CASE getRTSSTS
  <2> DEFINE after == [n \in 1..Depth |-> "kpi_next"]
  <2>1. PICK failed \in {"kpi_next", "kpi_close"} :
             c.at = "kpi_stamp" /\ Read(c.nodes[1][1], 1, after, failed)
    BY <1>13 DEF getRTSSTS, Dbg
  <2>2. PICK p \in Pairs : p = c.nodes[1][1]
    BY <2>1, TestPair DEF Testing
  <2>3. \A n \in 1..Depth : after[n] \notin Reading
    BY DEF Reading
  <2> HIDE DEF after
  <2>4. Read(p, 1, after, failed)
    BY <2>1, <2>2
  <2>5. p = ActivePair /\ ActiveKind = "one" /\ c.at \notin DbgClosing /\ c.at \in Reading
        /\ failed \notin Reading
    BY <2>1, <2>2 DEF ActivePair, ActiveKind, Reading, DbgClosing
  <2> QED
    BY <2>3, <2>4, <2>5, ChanDbgReadLast
<1>14. CASE kpi_Next
  BY <1>14, ChanKpiNext
<1>15. CASE kpi_Close
  <2>1. c.at = "kpi_close" /\ CloseAll(c.nodes, c, "kpi_closed")
    BY <1>15 DEF kpi_Close, Dbg
  <2>2. PICK ns : ns = c.nodes
    OBVIOUS
  <2>3. PICK rest : rest = c
    OBVIOUS
  <2>4. CloseAll(ns, rest, "kpi_closed")
    BY <2>1, <2>2, <2>3
  <2> QED
    BY <1>0, <2>1, <2>3, <2>4, ChanCloseAll DEF Reading
<1>16. CASE kpi_End
  BY <1>16, ChanKpiEnd
<1>17. CASE Dbg_Close
  <2>1. c.at = "close" /\ CloseAll(<<Tx("tst"), Rx("tst")>>, Closing, "exit")
    BY <1>17 DEF Dbg_Close, Dbg
  <2> QED
    BY <2>1, ChanCloseAll, ClosingRecord DEF Reading
<1>18. CASE rtssdbg_exit
  <2>1. c.at = "rtssdbg_exit" /\ CloseAll(<<Rx("tst"), Tx("tst")>>, Closing, "exit")
    BY <1>18 DEF rtssdbg_exit, Dbg
  <2> QED
    BY <2>1, ChanCloseAll, ClosingRecord DEF Reading
<1> QED
  BY <1>1, <1>2, <1>3, <1>4, <1>5, <1>6, <1>7, <1>8, <1>9, <1>10, <1>11, <1>12, <1>13,
     <1>14, <1>15, <1>16, <1>17, <1>18 DEF DbgStep

-----------------------------------------------------------------------------
(***************************************************************************)
(* The invariant                                                           *)
(***************************************************************************)
IInv == ProgInv /\ ChanInv /\ runs \in 0..MaxRuns

\* Before the first program the mailbox is empty and nothing is held.
LEMMA IInvInit ==
    ASSUME ClientInit
    PROVE  IInv
<1>1. HandleInv
  <2>1. Receivers = {} /\ handles = {} /\ pc = "idle" /\ live = [k \in Kinds |-> 0]
    BY DEF ClientInit, HandleInit, Receivers
  <2>2. IsFiniteSet({}) /\ Cardinality({}) = 0
    BY FS_EmptySet
  <2>3. HandleTypeOK
    BY NoNameIsName DEF ClientInit, HandleInit, HandleTypeOK, Kinds
  <2>4. Ledger
    BY <2>1, <2>2 DEF Ledger, One, Kinds, ClientInit, HandleInit
  <2>5. OpenState
    BY <2>1 DEF OpenState
  <2> QED
    BY <2>3, <2>4, <2>5 DEF HandleInv
<1>2. ProgramState /\ Believed
  BY DEF ClientInit, HandleInit, ProgramState, Believed, Off
<1>3. ChannelTypes
  <2>1. \A p \in Pairs : /\ <<>> \in Seq(Requests(p)) /\ <<>> \in Seq(Messages(p))
                         /\ <<>> \in Seq(Seq(Messages(p))) /\ Len(<<>>) <= Depth
    BY ClientAssumption
  <2> QED
    BY <2>1 DEF ClientInit, ChannelTypes
<1>4. Counters /\ AnswersMatch /\ Conversation /\ foreign \subseteq Pairs /\ fault \in BOOLEAN
  <2>1. /\ c.prog = "none" /\ sent = 0 /\ got = <<>> /\ foreign = {} /\ fault = FALSE
    BY DEF ClientInit, Off
  <2>2. AnswersMatch
    BY <2>1 DEF AnswersMatch
  <2>3. Counters /\ Conversation
    BY <2>1 DEF Counters, Conversation
  <2> QED
    BY <2>1, <2>2, <2>3
<1>5. runs \in 0..MaxRuns
  BY ClientAssumption DEF ClientInit
<1> QED
  BY <1>1, <1>2, <1>3, <1>4, <1>5 DEF IInv, ProgInv, ChanInv

\* The steps that leave the program and its handles alone.
LEMMA ProgKept ==
    ASSUME ProgInv, UNCHANGED <<c, handlevars>>
    PROVE  ProgInv'
<1>1. HandleInv'
  BY HandleKept DEF ProgInv
<1>2. ProgramState'
  BY DEF ProgInv, ProgramState, DemoState, DbgState, InTest
<1>3. Believed'
  BY BelievedKept DEF ProgInv
<1> QED
  BY <1>1, <1>2, <1>3 DEF ProgInv

\* RTSS finishes booting.
LEMMA ProgReady ==
    ASSUME ProgInv, RtssReady, c' = c
    PROVE  ProgInv'
<1>1. HandleInv'
  BY ReadyKeeps DEF ProgInv, RtssReady
<1>2. ProgramState'
  BY DEF ProgInv, ProgramState, DemoState, DbgState, InTest
<1>3. Believed'
  BY DEF ProgInv, Believed, RtssReady
<1> QED
  BY <1>1, <1>2, <1>3 DEF ProgInv

\* A program starts on channels that may hold messages of earlier ones.
LEMMA ChanDemoStart ==
    ASSUME ProgInv, ChanInv, Demo_Start
    PROVE  ChanInv'
<1>1. ASSUME NEW l \in {"opening", "cleanup"}, NEW cs, Demo_Begin(l, cs)
      PROVE  ChanInv'
  <2>1. PICK prog : /\ Start(prog)
                    /\ prog = [prog |-> "mbdemo", at |-> l, open |-> {}, cores |-> cs,
                               todo |-> ChannelsOf(cs), count |-> 0, core |-> 1,
                               g_signal_received |-> FALSE]
    BY <1>1 DEF Demo_Begin
  <2>2. prog.at = l /\ prog.prog = "mbdemo"
    BY <2>1
  <2> QED
    BY <2>1, <2>2, ChanStart DEF Reading
<1> QED
  BY <1>1 DEF Demo_Start

\* The same of the debug utility.
LEMMA ChanDbgStart ==
    ASSUME ProgInv, ChanInv, Dbg_Start
    PROVE  ChanInv'
<1>1. PICK prog : /\ Start(prog)
                  /\ prog.at = "opening" /\ prog.prog = "dbg"
  BY DEF Dbg_Start
<1> QED
  BY <1>1, ChanStart DEF Reading

\* The signal handler is not part of the conversation.
LEMMA ChanSignal ==
    ASSUME ProgInv, ChanInv, rtss_mb_signal_handler
    PROVE  ChanInv'
<1>1. /\ c.prog = "mbdemo" /\ c.at \notin DemoClosing
      /\ c' = [c EXCEPT !.g_signal_received = TRUE]
      /\ UNCHANGED <<channels, sent, got, foreign, fault>>
  BY DEF rtss_mb_signal_handler, DemoClosing, history
<1>2. DOMAIN c = DemoFields
  BY <1>1, DemoPair
<1>3. Keeps({"g_signal_received"})
  BY <1>1, <1>2, Zenon DEF Keeps, DemoFields
<1>4. c.at \notin {"kpi_read", "kpi_stamp"}
  BY <1>1 DEF ProgInv, ProgramState, DemoState, DemoClosing
<1> QED
  BY <1>1, <1>2, <1>3, <1>4, ChanKept DEF Keeps, DemoFields

\* The programs started never are more than the bound.
LEMMA RunsKept ==
    ASSUME runs \in 0..MaxRuns, [Next]_clientvars
    PROVE  runs' \in 0..MaxRuns
<1> SUFFICES runs' = runs \/ (runs < MaxRuns /\ runs' = runs + 1)
  BY ClientAssumption
<1>1. CASE Demo_Start \/ Dbg_Start
  BY <1>1 DEF Demo_Start, Demo_Begin, Dbg_Start, Start
<1>2. CASE ProgramStep
  <2>1. CASE DemoStep
    BY <2>1 DEF DemoStep, rtss_mb_open_channel, OpenNext, OpenReturned, Iteration, Demo_Write,
                Demo_Read, Write, Read, NextCore, rtss_mb_close_channels, CloseAll, history
  <2>2. CASE DbgStep
    BY <2>2 DEF DbgStep, Dbg_Open, OpenNext, OpenReturned, Dispatch, Round_Write, Round_Read,
                Round_Next, cfg_exec_Reset, cfg_exec_Write, cfg_exec_Read, kpitst_exec,
                getMaxSz_ResetRd, getMaxSz,
                kpi_Write, kpi_Read, getRTSSTS, kpi_Next, kpi_Close, kpi_End, Dbg_Close,
                rtssdbg_exit, Write, Read, CloseAll, history
  <2> QED
    BY <1>2, <2>1, <2>2 DEF ProgramStep, history
<1>3. CASE rtss_mb_signal_handler
  BY <1>3 DEF rtss_mb_signal_handler, history
<1>4. CASE Exit \/ Killed
  BY <1>4 DEF Exit, Killed, ProgramEnds
<1>5. CASE Rtss
  BY <1>5 DEF Rtss, RtssTake, RtssWrite, history
<1>6. CASE RtssReady /\ UNCHANGED <<channels, c, history>>
  BY <1>6 DEF history
<1>7. CASE UNCHANGED clientvars
  BY <1>7 DEF clientvars, history
<1> QED
  BY <1>1, <1>2, <1>3, <1>4, <1>5, <1>6, <1>7 DEF Next

\* Every step keeps the invariant.
LEMMA IInvStep ==
    ASSUME IInv, [Next]_clientvars
    PROVE  IInv'
<1> USE DEF IInv
<1>1. CASE Demo_Start
  BY <1>1, ProgDemoStart, ChanDemoStart, RunsKept
<1>2. CASE Dbg_Start
  BY <1>2, ProgDbgStart, ChanDbgStart, RunsKept
<1>3. CASE pc # "idle" /\ OpenStep /\ UNCHANGED <<channels, c, history>>
  <2>1. UNCHANGED <<channels, sent, got, foreign, fault>> /\ c' = c
    BY <1>3 DEF history
  <2> QED
    BY <1>3, <2>1, ProgOpenStep, ChanKept, RunsKept
<1>4. CASE c.prog = "mbdemo" /\ DemoStep
  BY <1>4, ProgDemoStep, ChanDemoStep, RunsKept DEF ChanInv
<1>5. CASE c.prog = "dbg" /\ DbgStep
  BY <1>5, ProgDbgStep, ChanDbgStep, RunsKept DEF ChanInv
<1>6. CASE rtss_mb_signal_handler
  BY <1>6, ProgSignal, ChanSignal, RunsKept
<1>7. CASE Exit \/ Killed
  BY <1>7, ProgEnds, ChanEnds, RunsKept DEF Exit, Killed
<1>8. CASE Rtss
  <2>1. UNCHANGED <<c, handlevars>>
    BY <1>8 DEF Rtss, RtssTake, RtssWrite
  <2>2. ChanInv'
    BY <1>8, ChanRtssTake, ChanRtssWrite DEF Rtss
  <2> QED
    BY <2>1, <2>2, ProgKept, RunsKept
<1>9. CASE RtssReady /\ UNCHANGED <<channels, c, history>>
  <2>1. UNCHANGED <<channels, sent, got, foreign, fault>> /\ c' = c
    BY <1>9 DEF history
  <2> QED
    BY <1>9, <2>1, ProgReady, ChanKept, RunsKept
<1>10. CASE UNCHANGED clientvars
  <2>1. UNCHANGED <<channels, sent, got, foreign, fault>> /\ UNCHANGED <<c, handlevars>>
    BY <1>10 DEF clientvars, history
  <2> QED
    BY <2>1, ProgKept, ChanKept, RunsKept
<1> QED
  BY <1>1, <1>2, <1>3, <1>4, <1>5, <1>6, <1>7, <1>8, <1>9, <1>10 DEF Next, ProgramStep

-----------------------------------------------------------------------------
(***************************************************************************)
(* The theorems                                                            *)
(***************************************************************************)
\* In every reachable state the ledger, the program and the channels are as
\* the invariant says.
THEOREM Invariance == Spec => []IInv
<1>1. ClientInit => IInv
  BY IInvInit
<1>2. IInv /\ [Next]_clientvars => IInv'
  BY IInvStep
<1> QED
  BY <1>1, <1>2, PTL DEF Spec

\* No process gives back what it does not hold, and no channel holds more
\* than it has room for.
THEOREM TypeCorrect == Spec => []TypeOK
<1>1. IInv => TypeOK
  <2> SUFFICES ASSUME IInv PROVE TypeOK
    OBVIOUS
  <2>1. c.open \subseteq Names
    <3>1. CASE c.prog = "none"
      BY <3>1 DEF IInv, ProgInv, ProgramState, Off
    <3>2. CASE c.prog = "mbdemo"
      <4>1. OfCores \subseteq Names
        BY DemoAssumption, ClientAssumption DEF OfCores
      <4> QED
        BY <3>2, <4>1 DEF IInv, ProgInv, ProgramState, DemoState
    <3>3. CASE c.prog = "dbg"
      <4>1. Main \subseteq Names
        BY TestPairExists, ClientAssumption DEF Main
      <4>2. \A ns \in KpiNodes : {ns[1], ns[2]} \subseteq Names
        BY DbgAssumption
      <4> QED
        BY <3>3, <4>1, <4>2 DEF IInv, ProgInv, ProgramState, DbgState
    <3> QED
      BY <3>1, <3>2, <3>3 DEF IInv, ProgInv, ProgramState
  <2> QED
    BY <2>1 DEF IInv, ProgInv, HandleInv, ChanInv, ChannelTypes, TypeOK
<1> QED
  BY <1>1, Invariance, PTL

\* Between the calls of rtss_mb_open and rtss_mb_close the process holds
\* what its open handles need and no more, on whichever step a call failed,
\* the mappings of closed handles excepted.
THEOREM LedgerKept == Spec => []LedgerBalanced
<1>1. IInv => LedgerBalanced
  <2> SUFFICES ASSUME Ledger, OpenState, HandleTypeOK PROVE LedgerBalanced
    BY DEF IInv, ProgInv, HandleInv
  <2>1. Cardinality(handles) \in Nat /\ Cardinality(Receivers) \in Nat
    BY ReceiversFinite DEF Ledger
  <2> QED
    BY <2>1 DEF Ledger, LedgerBalanced, One, HandleTypeOK
<1> QED
  BY <1>1, Invariance, PTL

\* As long as no call failed, a program reads the answers to its own last
\* request, although no message names the request it answers.
THEOREM AnswersToRequests == Spec => []AnswersMatch
<1>1. IInv => AnswersMatch
  BY DEF IInv, ChanInv
<1> QED
  BY <1>1, Invariance, PTL

\* A program that comes to its end has closed every handle, and leaves
\* nothing on its way if no call of it failed.
THEOREM LeavesNothing == Spec => []NothingLeftBehind
<1>1. IInv => NothingLeftBehind
  <2> SUFFICES ASSUME IInv, c.at = "exit"
               PROVE  handles = {} /\ (fault \/ \A p \in Pairs \ foreign : ~InFlight(p))
    BY DEF NothingLeftBehind
  <2>1. c.prog \in {"mbdemo", "dbg"} /\ c.open = {}
    BY DEF IInv, ProgInv, ProgramState, DemoState, DbgState, Off
  <2>2. handles = {}
    BY <2>1 DEF IInv, ProgInv, Believed
  <2>3. fault \/ \A p \in Pairs \ foreign : Quiet(p)
    BY <2>1 DEF IInv, ChanInv, Conversation, Reading
  <2> QED
    BY <2>2, <2>3 DEF Quiet, InFlight
<1> QED
  BY <1>1, Invariance, PTL
=============================================================================
