------------------------------- MODULE RtssDbg -------------------------------
(***************************************************************************)
(* The debug utility, apps/rtss-dbg/rtss_dbg.c: it sends test commands on  *)
(* the pair "tst" and reads the answers; the performance test also moves   *)
(* data on two channels that the user names, between a command that sets   *)
(* it up on the side of RTSS and one that ends it.                         *)
(***************************************************************************)
EXTENDS MailboxClient

CONSTANTS KpiNodes, \* what the user names for the performance test: the
                    \* channel to read and the channel to write of a pair,
                    \* or names of which one cannot be opened
          KpiSizes, \* the largest sizes asked for, in items
          MaxIter   \* bound on the iterations asked for

ASSUME DbgAssumption ==
    /\ "tst" \in Pairs
    /\ \A ns \in KpiNodes :
        /\ ns \in Names \X Names
        /\ \/ \E p \in Pairs : ns = <<Rx(p), Tx(p)>>
           \/ \E i \in 1..2 : rtssmb_getdevctx(ns[i]) # "SUCCESS"
    /\ KpiSizes \subseteq Nat
    /\ MaxIter \in Nat

Dbg(l) == c.prog = "dbg" /\ c.at = l

\* The arguments of the command line are chosen where they are first used.
Dbg_Start ==
    Start([prog |-> "dbg", at |-> "opening", open |-> {},
           todo |-> <<Tx("tst"), Rx("tst")>>, cmd |-> "none", stage |-> "main",
           left |-> 0, nodes |-> <<>>, maxsz |-> 0, tbytes |-> 0, mcont |-> FALSE])

\* The two channels of main, then the two of the performance test.
Dbg_Open ==
    /\ c.prog = "dbg"
    /\ \/ OpenNext(IF c.stage = "main" THEN "dispatch" ELSE "getMaxSz")
       \/ OpenReturned(IF c.stage = "main" THEN "rtssdbg_exit" ELSE "kpi_close")

Dispatch ==
    /\ Dbg("dispatch")
    /\ \/ At("rtssdbg_exit")  \* an unsupported command
       \/ c' = [c EXCEPT !.at = "cfg_reset", !.stage = "cfg"]
       \/ c' = [c EXCEPT !.at = "write", !.cmd = "file"]
       \/ \E n \in 0..MaxIter :
             c' = [c EXCEPT !.at = "write", !.cmd = "rounds", !.left = n]
    /\ UNCHANGED <<channels, history, handlevars>>

-----------------------------------------------------------------------------
\* The loop of rtssdbg_evpolltp_mbtfcmd_exec, also of the loopback and the
\* string command, and the single command of rtssdbg_fops_mbtfcmd_exec.
Round_Write ==
    /\ Dbg("write")
    /\ Write("tst", IF c.cmd = "file" THEN "many" ELSE "one", 1, "read", "rtssdbg_exit")

\* Mutant: the series is taken to be over at its first message.
Round_Read_NoSeries ==
    /\ Dbg("read")
    /\ Read("tst", 1, [n \in 1..Depth |-> "round"], "rtssdbg_exit")

\* A round has one answer; a file command has them until an empty one.
Round_Read ==
    /\ Dbg("read")
    /\ Read("tst", 1,
            [n \in 1..Depth |->
                IF c.cmd = "file" /\ up["tst"][1].part # "end" THEN "read" ELSE "round"],
            "rtssdbg_exit")

Round_Next ==
    /\ Dbg("round")
    /\ c' = IF c.left = 0
            THEN [c EXCEPT !.at = "close"]
            ELSE [c EXCEPT !.at = "write", !.left = @ - 1]
    /\ UNCHANGED <<channels, history, handlevars>>

-----------------------------------------------------------------------------
(***************************************************************************)
(* rtssdbg_kpitst_cfg_exec: the command that sets the test up, or ends it  *)
(***************************************************************************)
\* Mutant: the answers of earlier programs stay in the channel.
cfg_exec_NoReset ==
    /\ Dbg("cfg_reset")
    /\ At("cfg_write")
    /\ foreign' = IF hand["tst"] = <<>> /\ down["tst"] = <<>>
                  THEN foreign \ {"tst"} ELSE foreign \cup {"tst"}
    /\ got' = <<>>
    /\ UNCHANGED <<down, hand, up, sent, fault, runs, handlevars>>

cfg_exec_Reset ==
    /\ Dbg("cfg_reset")
    /\ \/ /\ up' = [up EXCEPT !["tst"] = <<>>]
          /\ At("cfg_write")
          /\ UNCHANGED <<down, fault>>
          /\ Forget("tst")
       \/ /\ At("close")
          /\ fault' = TRUE
          /\ UNCHANGED <<down, up, foreign>>
    /\ got' = <<>>
    /\ UNCHANGED <<hand, sent, runs, handlevars>>

cfg_exec_Write ==
    /\ Dbg("cfg_write")
    /\ Write("tst", "one", 1, "cfg_read", "close")

\* RTSS answers that it passed, or that it did not.
cfg_exec_Read ==
    /\ Dbg("cfg_read")
    /\ \E ok \in {"cfg_passed", "cfg_failed"} :
          Read("tst", 1, [n \in 1..Depth |-> ok], "cfg_failed")

\* rtssdbg_kpitst_exec: the test if it was set up, and then its end.
kpitst_exec ==
    /\ c.prog = "dbg"
    /\ \/ /\ c.at = "cfg_passed" /\ c.stage = "cfg"
          /\ \E ns \in KpiNodes : c' = [c EXCEPT !.at = "opening", !.stage = "kpi",
                                                !.todo = ns, !.nodes = ns]
       \/ /\ c.at = "cfg_failed" /\ c.stage = "cfg"
          /\ c' = [c EXCEPT !.at = "cfg_reset", !.stage = "end"]
       \/ /\ c.at \in {"cfg_passed", "cfg_failed"} /\ c.stage = "end"
          /\ At("close")
    /\ UNCHANGED <<channels, history, handlevars>>

-----------------------------------------------------------------------------
(***************************************************************************)
(* rtssdbg_kpitst.  A channel of max_item_num items has room for one less, *)
(* which is what tsz - isz stands for: Depth items.                        *)
(***************************************************************************)
\* rtssdbg_kpitst_getMaxSz, the reset of the channel to read: RTSS may write
\* to it again before the other one is reset.
getMaxSz_ResetRd ==
    LET p == c.nodes[1][1]
    IN  /\ Dbg("getMaxSz")
        /\ \/ /\ up' = [up EXCEPT ![p] = <<>>]
              /\ At("getMaxSz_wr")
              /\ UNCHANGED <<down, fault>>
              /\ Forget(p)
           \/ /\ At("kpi_close")
              /\ fault' = TRUE
              /\ UNCHANGED <<down, up, foreign>>
        /\ got' = <<>>
        /\ UNCHANGED <<hand, sent, runs, handlevars>>

\* The reset of the channel to write, and the comparison of the two.  The test
\* is over if the reset fails, the sizes differ, or then the buffer or the
\* file is not to be had.
getMaxSz ==
    LET p == c.nodes[2][1]
    IN  /\ Dbg("getMaxSz_wr")
        /\ \/ /\ down' = [down EXCEPT ![p] = <<>>]
              /\ UNCHANGED up
              /\ Forget(p)
              /\ \/ \E max \in KpiSizes, n \in 0..MaxIter, t \in BOOLEAN :
                       c' = [c EXCEPT !.at = "kpi_write", !.tbytes = Lesser(max, Depth),
                                      !.maxsz = Lesser(max, Depth), !.mcont = t,
                                      !.left = IF n = 0 THEN 0 ELSE n - 1]
                 \/ At("kpi_close")
              /\ UNCHANGED fault
           \/ /\ At("kpi_close")
              /\ fault' = TRUE
              /\ UNCHANGED <<down, up, foreign>>
        /\ got' = <<>>
        /\ UNCHANGED <<hand, sent, runs, handlevars>>

kpi_Write ==
    /\ Dbg("kpi_write")
    /\ Write(c.nodes[2][1], "kpi", c.tbytes, "kpi_read", "kpi_close")

\* Mutant: the read takes what is there, the timestamp too.
kpi_Read_WholeBuffer ==
    /\ Dbg("kpi_read")
    /\ Read(c.nodes[1][1], c.tbytes + 1, [n \in 1..Depth |-> "kpi_stamp"], "kpi_close")

\* The echo; less than was written ends the test.
kpi_Read ==
    /\ Dbg("kpi_read")
    /\ Read(c.nodes[1][1], c.tbytes,
            [n \in 1..Depth |-> IF n = c.tbytes THEN "kpi_stamp" ELSE "kpi_short"], "kpi_close")

\* rtssdbg_kpitst_getRTSSTS: rtss_mb_get_chan_stat until an item is there,
\* and its read.  An error of the first stops the test, one of the read is
\* only logged.
getRTSSTS ==
    /\ Dbg("kpi_stamp")
    /\ \E failed \in {"kpi_next", "kpi_close"} :
          Read(c.nodes[1][1], 1, [n \in 1..Depth |-> "kpi_next"], failed)

\* With the option mcont a round is repeated with one item less, down to
\* one.  A short echo or an error of the output stops the test.
kpi_Next ==
    /\ c.prog = "dbg" /\ c.at \in {"kpi_next", "kpi_short"}
    /\ \/ /\ c.at = "kpi_next"
          /\ c' = CASE c.mcont /\ c.tbytes > 1 ->
                          [c EXCEPT !.at = "kpi_write", !.tbytes = @ - 1]
                    [] ~(c.mcont /\ c.tbytes > 1) /\ c.left > 0 ->
                          [c EXCEPT !.at = "kpi_write", !.tbytes = c.maxsz, !.left = @ - 1]
                    [] OTHER -> [c EXCEPT !.at = "kpi_close"]
          /\ UNCHANGED fault
       \/ At("kpi_close") /\ fault' = (fault \/ c.at = "kpi_short")
    /\ UNCHANGED <<channels, sent, got, foreign, runs, handlevars>>

-----------------------------------------------------------------------------
\* The channels of the test, then the command that ends it.
kpi_Close ==
    /\ Dbg("kpi_close")
    /\ CloseAll(c.nodes, c, "kpi_closed")

kpi_End ==
    /\ Dbg("kpi_closed")
    /\ c' = [c EXCEPT !.at = "cfg_reset", !.stage = "end"]
    /\ UNCHANGED <<channels, history, handlevars>>

\* The end of main.
Dbg_Close ==
    /\ Dbg("close")
    /\ CloseAll(<<Tx("tst"), Rx("tst")>>, Closing, "exit")

\* The way out on an error: whatever is open, in the other order.
rtssdbg_exit ==
    /\ Dbg("rtssdbg_exit")
    /\ CloseAll(<<Rx("tst"), Tx("tst")>>, Closing, "exit")

DbgStep ==
    \/ Dbg_Open
    \/ Dispatch
    \/ Round_Write
    \/ Round_Read
    \/ Round_Next
    \/ cfg_exec_Reset
    \/ cfg_exec_Write
    \/ cfg_exec_Read
    \/ kpitst_exec
    \/ getMaxSz_ResetRd
    \/ getMaxSz
    \/ kpi_Write
    \/ kpi_Read
    \/ getRTSSTS
    \/ kpi_Next
    \/ kpi_Close
    \/ kpi_End
    \/ Dbg_Close
    \/ rtssdbg_exit
=============================================================================
