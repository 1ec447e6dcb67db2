---------------------------- MODULE MailboxClients ----------------------------
(***************************************************************************)
(* The demo and the debug utility one after another on one mailbox, each   *)
(* of them possibly killed, against an RTSS that answers in its own time.  *)
(***************************************************************************)
EXTENDS MbDemo, RtssDbg

ProgramStep ==
    \/ pc # "idle" /\ OpenStep /\ UNCHANGED <<channels, c, history>>
    \/ c.prog = "mbdemo" /\ DemoStep
    \/ c.prog = "dbg" /\ DbgStep

Rtss == \E p \in Pairs : RtssTake(p) \/ RtssWrite(p)

Next ==
    \/ Demo_Start
    \/ Dbg_Start
    \/ ProgramStep
    \/ rtss_mb_signal_handler
    \/ Exit
    \/ Killed
    \/ Rtss
    \/ RtssReady /\ UNCHANGED <<channels, c, history>>

Reading == {"read", "cfg_read", "kpi_read", "kpi_stamp"}

\* The program is scheduled; a read that waits is not bound to fail.
Progress == (ProgramStep \/ Exit) /\ (c.at \in Reading => up' # up)

\* RTSS answers what it is asked: a request makes finitely many steps of
\* RTSS, so that one condition serves all the pairs.
Spec ==
    /\ ClientInit
    /\ [][Next]_clientvars
    /\ WF_clientvars(Progress)
    /\ WF_clientvars(Rtss)

-----------------------------------------------------------------------------
\* When RTSS answers, every program ends, whatever an earlier one left in
\* the channels: no read, and no busy wait for the timestamp of the
\* performance test, waits for a message that the program took for another
\* one or threw away with a reset.
EveryRunEnds ==
    c # Off ~> c = Off
=============================================================================
