-------------------------------- MODULE MbDemo --------------------------------
(***************************************************************************)
(* The demo of the mailbox API, apps/rtss-mbdemo/rtss_mbdemo.c: on each of *)
(* the selected cores in turn it writes a message and reads the answer, a  *)
(* number of times.  SIGINT and SIGTERM set a flag that it looks at once   *)
(* in an iteration, and interrupt the read it waits in.                    *)
(***************************************************************************)
EXTENDS MailboxClient

CONSTANTS Cores,     \* the pairs of the cores, in order: a sequence
          MaxRounds  \* bound on the number of iterations asked for

ASSUME DemoAssumption ==
    /\ Cores \in Seq(Pairs)
    /\ MaxRounds \in Nat

Demo(l) == c.prog = "mbdemo" /\ c.at = l

\* The channels of the cores cs, in the order in which they are opened.
ChannelsOf(cs) ==
    [i \in 1..(2 * Len(cs)) |->
        IF i % 2 = 1 THEN Tx(cs[(i + 1) \div 2]) ELSE Rx(cs[i \div 2])]

Demo_Begin(l, cs) ==
    Start([prog |-> "mbdemo", at |-> l, open |-> {}, cores |-> cs,
           todo |-> ChannelsOf(cs), count |-> 0, core |-> 1,
           g_signal_received |-> FALSE])

\* The masks of at least one core, each as its bits in ascending order.
Masks ==
    {m \in UNION {[1..n -> DOMAIN Cores] : n \in 1..Len(Cores)} :
        \A i, j \in DOMAIN m : i < j => m[i] < m[j]}

\* rtss_mb_command_parser: a mask of at least one core; an error, or -h,
\* goes straight to the cleanup.
Demo_Start ==
    \/ \E m \in Masks : Demo_Begin("opening", [i \in DOMAIN m |-> Cores[m[i]]])
    \/ Demo_Begin("cleanup", <<>>)

rtss_mb_open_channel ==
    /\ c.prog = "mbdemo"
    /\ OpenNext("iteration") \/ OpenReturned("cleanup")

\* The head of the loop over the iterations, with the only test of the
\* flag.  The number of iterations asked for, any up to MaxRounds, shows
\* when the loop stops.
Iteration ==
    /\ Demo("iteration")
    /\ \/ At("cleanup")
       \/ /\ c.count < MaxRounds
          /\ ~c.g_signal_received
          /\ c' = [c EXCEPT !.at = "write", !.count = @ + 1, !.core = 1]
    /\ UNCHANGED <<channels, history, handlevars>>

Demo_Write ==
    /\ Demo("write")
    /\ Write(c.cores[c.core], "one", 1, "read", "cleanup")

Demo_Read ==
    /\ Demo("read")
    /\ Read(c.cores[c.core], 1, [n \in 1..Depth |-> "next"], "cleanup")

NextCore ==
    /\ Demo("next")
    /\ IF c.core < Len(c.cores)
       THEN c' = [c EXCEPT !.at = "write", !.core = @ + 1]
       ELSE At("iteration")
    /\ UNCHANGED <<channels, history, handlevars>>

\* rtss_mb_cleanup_resources: the channels whose open status is set.
rtss_mb_close_channels ==
    /\ Demo("cleanup")
    /\ CloseAll(ChannelsOf(Cores), Closing, "exit")

\* rtss_mb_signal_handler: the flag is set, and a read that waits fails
\* (Demo_Read, which can fail at any time).  During the cleanup nothing
\* looks at the flag.
rtss_mb_signal_handler ==
    /\ c.prog = "mbdemo"
    /\ c.at \notin {"cleanup", "exit"}
    /\ c' = [c EXCEPT !.g_signal_received = TRUE]
    /\ UNCHANGED <<channels, history, handlevars>>

DemoStep ==
    \/ rtss_mb_open_channel
    \/ Iteration
    \/ Demo_Write
    \/ Demo_Read
    \/ NextCore
    \/ rtss_mb_close_channels
=============================================================================
