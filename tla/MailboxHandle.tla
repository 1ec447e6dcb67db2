---------------------------- MODULE MailboxHandle ----------------------------
(***************************************************************************)
(* What a process owns on behalf of its mailbox handles: rtss_mb_open and  *)
(* rtss_mb_close of middleware/mailbox/src/rtss_mailbox.c.                 *)
(*                                                                         *)
(* Each call into the operating system or the driver that can fail is a    *)
(* step of its own.  The ledger counts the resources the process really    *)
(* holds; the early returns are right when the ledger is back to what the  *)
(* open handles need.                                                      *)
(***************************************************************************)
EXTENDS Integers, Sequences, FiniteSets

CONSTANTS Directory,  \* the sub-regions of the mailbox, in descriptor order:
                      \* a sequence of [name, mode, sane, long]
          Names       \* the names callers ask for

ASSUME HandleAssumption ==
    \A i \in DOMAIN Directory :
        /\ Directory[i].mode \in {"RX", "TX"}
        /\ Directory[i].sane \in BOOLEAN   \* passes the sanity check
        /\ Directory[i].long \in BOOLEAN   \* fills the 16 bytes of a name

Kinds == {"heap", "fd", "map", "eventfd"}

VARIABLES
    pc,      \* where rtss_mb_open is, "idle" outside it
    dev,     \* the name being opened, NoName outside rtss_mb_open
    live,    \* the ledger: how many of each kind the process holds
    handles, \* the names of the handles callers hold
    ready,   \* RTSS has created the mailbox
    closes,  \* calls of rtss_mb_close that closed a handle (history)
    ret      \* what the last call returned

handlevars == <<pc, dev, live, handles, ready, closes, ret>>

\* What dev is between calls.
NoName == CHOOSE d \in Names : TRUE

HandleInit ==
    /\ pc = "idle"
    /\ dev = NoName
    /\ live = [k \in Kinds |-> 0]
    /\ handles = {}
    /\ ready \in BOOLEAN
    /\ closes = 0
    /\ ret = "SUCCESS"

Acquire(k)  == live' = [live EXCEPT ![k] = @ + 1]
Release(ks) == live' = [k \in Kinds |-> live[k] - (IF k \in ks THEN 1 ELSE 0)]

\* An early return of rtss_mb_open, after releasing ks.
Fail(ks, err) ==
    /\ pc' = "idle"
    /\ ret' = err
    /\ dev' = NoName
    /\ Release(ks)
    /\ UNCHANGED <<handles, ready, closes>>

Goto(l) ==
    /\ pc' = l
    /\ UNCHANGED <<dev, handles, ready, closes, ret>>

-----------------------------------------------------------------------------
(***************************************************************************)
(* rtssmb_getdevctx: the first sub-region that is broken or has the name   *)
(***************************************************************************)
Hits(d) == {i \in DOMAIN Directory : ~Directory[i].sane \/ Directory[i].name = d}

Hit(d) == CHOOSE i \in Hits(d) : \A j \in Hits(d) : i <= j

rtssmb_getdevctx(d) ==
    CASE Hits(d) = {}             -> "ENOENT"
      [] ~Directory[Hit(d)].sane  -> "EIO"
      [] Directory[Hit(d)].long   -> "ENAMETOOLONG"
      [] OTHER                    -> "SUCCESS"

(***************************************************************************)
(* rtss_mb_open                                                            *)
(***************************************************************************)
rtss_mb_open(d) ==
    /\ pc = "idle"
    /\ d \notin handles
    /\ \/ /\ Acquire("heap")
          /\ pc' = "open"
          /\ dev' = d
          /\ UNCHANGED ret
       \/ /\ ret' = "ENOMEM"
          /\ UNCHANGED <<pc, dev, live>>
    /\ UNCHANGED <<handles, ready, closes>>

OpenDevice ==
    /\ pc = "open"
    /\ \/ Acquire("fd") /\ Goto("region")
       \/ Fail({"heap"}, "errno")

GetRegion ==
    /\ pc = "region"
    /\ \/ Goto("mmap") /\ UNCHANGED live
       \/ \E err \in {"errno", "EIO"} : Fail({"fd", "heap"}, err)

MapRegion ==
    /\ pc = "mmap"
    /\ \/ Acquire("map") /\ Goto("validate")
       \/ Fail({"fd", "heap"}, "errno")

\* Mutant: the mapping is kept on the path that callers retry.
Validate_NoUnmap ==
    /\ pc = "validate"
    /\ \/ ready /\ Goto("context") /\ UNCHANGED live
       \/ ~ready /\ Fail({"fd", "heap"}, "EAGAIN")

Validate ==
    /\ pc = "validate"
    /\ \/ ready /\ Goto("context") /\ UNCHANGED live
       \/ ~ready /\ Fail({"map", "fd", "heap"}, "EAGAIN")

\* The unknown-mode branch of the code is dead: LibMB_Get_ChanInfo only
\* returns the two modes.
DeviceContext ==
    LET err == rtssmb_getdevctx(dev)
    IN  /\ pc = "context"
        /\ \/ /\ err # "SUCCESS"
              /\ Fail({"map", "fd", "heap"}, err)
           \/ /\ err = "SUCCESS"
              /\ Goto(IF Directory[Hit(dev)].mode = "RX" THEN "eventfd" ELSE "done")
              /\ UNCHANGED live

CreateEventFd ==
    /\ pc = "eventfd"
    /\ \/ Acquire("eventfd") /\ Goto("register")
       \/ Fail({"map", "fd", "heap"}, "errno")

RegisterEventFd ==
    /\ pc = "register"
    /\ \/ Goto("done") /\ UNCHANGED live
       \/ Fail({"eventfd", "map", "fd", "heap"}, "errno")

OpenDone ==
    /\ pc = "done"
    /\ pc' = "idle"
    /\ handles' = handles \cup {dev}
    /\ dev' = NoName
    /\ ret' = "SUCCESS"
    /\ UNCHANGED <<live, ready, closes>>

(***************************************************************************)
(* rtss_mb_close: whether disabling the interrupt works or not, everything *)
(* but the mapping is given back and the handle is freed.  No caller uses  *)
(* the error it returns.                                                   *)
(***************************************************************************)
\* Mutant: every handle's event_fd is closed, a sender's too.
close_AnyEventFd(d) ==
    /\ pc = "idle"
    /\ handles' = handles \ {d}
    /\ closes' = closes + 1
    /\ ret' = "closed"
    /\ Release({"fd", "heap", "eventfd"})
    /\ UNCHANGED <<pc, dev, ready>>

rtss_mb_close(d) ==
    /\ pc = "idle"
    /\ handles' = handles \ {d}
    /\ closes' = closes + 1
    /\ ret' = "closed"
    /\ Release({"fd", "heap"}
               \cup (IF Directory[Hit(d)].mode = "RX" THEN {"eventfd"} ELSE {}))
    /\ UNCHANGED <<pc, dev, ready>>

\* RTSS finishes booting and has created the mailbox.
RtssReady ==
    /\ ~ready
    /\ ready' = TRUE
    /\ UNCHANGED <<pc, dev, live, handles, closes, ret>>

-----------------------------------------------------------------------------
OpenStep ==
    \/ OpenDevice
    \/ GetRegion
    \/ MapRegion
    \/ Validate
    \/ DeviceContext
    \/ CreateEventFd
    \/ RegisterEventFd
    \/ OpenDone

\* The process ends and the system takes back what it held, or a new one
\* starts with nothing.
ProcessEnds ==
    /\ pc' = "idle"
    /\ live' = [k \in Kinds |-> 0]
    /\ handles' = {}
    /\ closes' = 0
    /\ ret' = "SUCCESS"
    /\ dev' = NoName
    /\ UNCHANGED ready

-----------------------------------------------------------------------------
\* Nothing is given back that the process does not hold (no count of the
\* ledger goes below zero: no double close, no close of an unset event_fd).
HandleTypeOK ==
    /\ pc \in {"idle", "open", "region", "mmap", "validate", "context",
               "eventfd", "register", "done"}
    /\ dev \in Names
    /\ live \in [Kinds -> Nat]
    /\ handles \subseteq Names
    /\ ready \in BOOLEAN
    /\ closes \in Nat
    /\ ret \in {"SUCCESS", "ENOMEM", "errno", "EIO", "EAGAIN", "ENOENT",
                "ENAMETOOLONG", "closed"}

Receivers == {d \in handles : Directory[Hit(d)].mode = "RX"}

\* Between calls the process holds the memory, the descriptors and the
\* eventfds that its open handles need and no more, on whichever step an open
\* failed and whether or not the interrupt could be disabled on close; and so
\* it is with the mappings as long as it has closed nothing: an open that fails
\* gives its mapping back.
LedgerBalanced ==
    pc = "idle" =>
        /\ live["heap"] = Cardinality(handles)
        /\ live["fd"] = Cardinality(handles)
        /\ live["eventfd"] = Cardinality(Receivers)
        /\ closes = 0 => live["map"] = Cardinality(handles)

\* What the API promises of rtss_mb_close: that it releases all resources, the
\* mapping with the descriptor it was made from.  It does not: the mapping
\* stays until the process ends.
CloseReleasesAll ==
    pc = "idle" => live["map"] = Cardinality(handles)
=============================================================================
