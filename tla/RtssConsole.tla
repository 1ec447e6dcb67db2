----------------------------- MODULE RtssConsole -----------------------------
(***************************************************************************)
(* The log console, apps/rtss-console/src/rtss_console.c: a loop around    *)
(* rtss_mb_read that a signal is meant to end.  It composes the receive    *)
(* path of MailboxRx with the program's main and its signal handler, which *)
(* can run between any two steps of the program.                           *)
(***************************************************************************)
EXTENDS MailboxRx

VARIABLES g_running,  \* cleared by handle_signal
          cpc,        \* main: "test", "reading", "closing" or "done"; "off"
                      \* when the channel has another user
          outok       \* standard output accepts what is written

cvars == <<vars, g_running, cpc, outok>>

ConsoleInit ==
    /\ Init
    /\ g_running = TRUE
    /\ cpc = IF user = "console" THEN "test" ELSE "off"
    /\ outok = TRUE

\* Mutant: a loop without a test, that leaves it to EINTR to end it.
LoopTest_Forever ==
    /\ cpc = "test"
    /\ rtss_mb_read_timed(MaxWant, -1)
    /\ cpc' = "reading"
    /\ UNCHANGED <<g_running, outok>>

\* while (g_running), and the call of rtss_mb_read.
LoopTest ==
    /\ cpc = "test"
    /\ IF g_running
       THEN /\ rtss_mb_read_timed(MaxWant, -1)
            /\ cpc' = "reading"
       ELSE /\ cpc' = "closing"
            /\ UNCHANGED vars
    /\ UNCHANGED <<g_running, outok>>

\* Mutant: a short read ends the program.
AfterRead_ShortIsEnd ==
    /\ cpc = "reading"
    /\ rpc = "idle"
    /\ cpc' = IF ret < MaxWant \/ ~outok THEN "closing" ELSE "test"
    /\ UNCHANGED <<vars, g_running, outok>>

\* The return of rtss_mb_read, and the write of what it read to stdout.
AfterRead ==
    /\ cpc = "reading"
    /\ rpc = "idle"
    /\ cpc' = IF ret <= 0 \/ ~outok THEN "closing" ELSE "test"
    /\ UNCHANGED <<vars, g_running, outok>>

\* rtss_mb_close and the return from main.
CloseAndExit ==
    /\ cpc = "closing"
    /\ cpc' = "done"
    /\ UNCHANGED <<vars, g_running, outok>>

\* SIGINT or SIGTERM: handle_signal runs, and a poll() under way returns
\* EINTR.
Signal ==
    /\ cpc \notin {"off", "done"}
    /\ sigs < MaxSignals
    /\ sigs' = sigs + 1
    /\ g_running' = FALSE
    /\ IF rpc = "poll"
       THEN Return(EINTR)
       ELSE UNCHANGED call
    /\ UNCHANGED <<rtss, recvd, irq, evcnt, mbok, fdok, nomem, user, resets, cpc, outok>>

StdoutFails ==
    /\ cpc # "off"
    /\ outok
    /\ outok' = FALSE
    /\ UNCHANGED <<vars, g_running, cpc>>

ConsoleStep == LoopTest \/ AfterRead \/ CloseAndExit

\* The other users of a channel.
OtherUser == cpc = "off" /\ (Call \/ PollInterrupted \/ rtss_mb_chan_reset)

ConsoleNext ==
    \/ (Environment \/ ReadStep \/ PollFails \/ OtherUser) /\ UNCHANGED <<g_running, cpc, outok>>
    \/ ConsoleStep
    \/ Signal
    \/ StdoutFails

\* The program is scheduled and so is another user, who comes back for more;
\* RTSS raises the interrupts it owes and the driver forwards them; no signal
\* is ever certain to come.
ConsoleSpec ==
    /\ ConsoleInit
    /\ [][ConsoleNext]_cvars
    /\ WF_cvars(ConsoleStep)
    /\ WF_cvars(Call /\ UNCHANGED <<g_running, cpc, outok>>)
    /\ WF_cvars(ReadStep /\ UNCHANGED <<g_running, cpc, outok>>)
    /\ WF_cvars(RtssInterrupt /\ UNCHANGED <<g_running, cpc, outok>>)
    /\ WF_cvars(KmdSignal /\ UNCHANGED <<g_running, cpc, outok>>)

-----------------------------------------------------------------------------
\* The console stops of itself only for a reason: a signal, a dead mailbox,
\* a lost eventfd, a failing poll() or a failing output; no interleaving makes rtss_mb_read
\* return the 0 or the error that would silently end the log.
StopsForAReason ==
    cpc \in {"closing", "done"} => ~g_running \/ ~mbok \/ ~fdok \/ nomem \/ ~outok

\* Once signalled, the console ends at the latest when the next log item
\* arrives.
StopsByNextItem ==
    ~g_running /\ Unread > 0 ~> cpc = "done"
=============================================================================
