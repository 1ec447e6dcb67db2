---------------------------- MODULE MailboxClient ----------------------------
(***************************************************************************)
(* A program that asks RTSS for something and reads the answer, one        *)
(* program after another on the same mailbox.  The modules of the two      *)
(* programs, MbDemo and RtssDbg, extend this one: it holds what they       *)
(* share, the process and its handles (MailboxHandle), the pairs of        *)
(* channels, RTSS, and the calls of the mailbox API at the level of whole  *)
(* items (MailboxRing, MailboxTx and MailboxRx are the detail).            *)
(*                                                                         *)
(* The channels outlast the processes: what a program asked for and did    *)
(* not read is there for the next one, and no answer names its request.    *)
(***************************************************************************)
EXTENDS MailboxHandle

CONSTANTS Pairs,     \* the pairs of a send and a receive channel
          Depth,     \* items a channel holds: max_item_num - 1
          MaxChunks, \* bound on the messages that answer one file command
          MaxRuns    \* bound on the programs started

Tx(p) == <<p, "tx">>
Rx(p) == <<p, "rx">>

ASSUME ClientAssumption ==
    /\ {Depth, MaxRuns} \subseteq Nat \ {0}
    /\ MaxChunks \in 0..Depth
    /\ \A p \in Pairs : {Tx(p), Rx(p)} \subseteq Names

VARIABLES
    down,    \* by pair: the items RTSS has not taken
    hand,    \* by pair: the writes RTSS still has to make for what it took
    up,      \* by pair: the items the program has not read
    c,       \* the program's own state
    sent,    \* the number of the program's last request (history)
    got,     \* what was read since (history)
    foreign, \* pairs on which messages of earlier programs may be (history)
    fault,   \* a call of this program failed (history)
    runs     \* programs started

channels == <<down, hand, up>>
history == <<sent, got, foreign, fault, runs>>
clientvars == <<handlevars, channels, c, history>>

InFlight(p) == down[p] # <<>> \/ hand[p] # <<>> \/ up[p] # <<>>

\* What a program needs when it does nothing any more but close and exit.
Closing == [prog |-> c.prog, at |-> c.at, open |-> c.open]

\* No program: the state of c between two runs.
Off == [prog |-> "none", at |-> "off", todo |-> <<>>, open |-> {}]

ClientInit ==
    /\ HandleInit
    /\ down = [p \in Pairs |-> <<>>]
    /\ hand = [p \in Pairs |-> <<>>]
    /\ up = [p \in Pairs |-> <<>>]
    /\ c = Off
    /\ sent = 0 /\ got = <<>>
    /\ foreign = {} /\ fault = FALSE
    /\ runs = 0

-----------------------------------------------------------------------------
(***************************************************************************)
(* RTSS takes a request and answers it by one message, by a series closed  *)
(* by an empty one, or by an echo and, in a write of its own, a timestamp. *)
(***************************************************************************)
Copies(x, n) == [i \in 1..n |-> x]

Answers(r) ==
    LET a(part) == [pair |-> r.pair, id |-> r.id, part |-> part]
    IN  CASE r.kind = "one"  -> {<<Copies(a("end"), 1)>>}
          [] r.kind = "many" -> {Copies(Copies(a("data"), 1), k)
                                    \o <<Copies(a("end"), 1)>> : k \in 0..MaxChunks}
          [] r.kind = "kpi"  -> {<<Copies(a("data"), r.items), Copies(a("end"), 1)>>}

RtssTake(p) ==
    LET r == Head(down[p])
    IN  /\ down[p] # <<>>
        /\ hand[p] = <<>>
        /\ down' = [down EXCEPT ![p] = SubSeq(@, r.items + 1, Len(@))]
        /\ \E ws \in Answers(r) : hand' = [hand EXCEPT ![p] = ws]
        /\ UNCHANGED <<up, c, history, handlevars>>

RtssWrite(p) ==
    /\ hand[p] # <<>>
    /\ Len(up[p]) + Len(Head(hand[p])) <= Depth
    /\ up' = [up EXCEPT ![p] = @ \o Head(hand[p])]
    /\ hand' = [hand EXCEPT ![p] = Tail(@)]
    /\ UNCHANGED <<down, c, history, handlevars>>

-----------------------------------------------------------------------------
(***************************************************************************)
(* The calls of the API, each with the label it continues at and the one   *)
(* it continues at when the call fails                                     *)
(***************************************************************************)
At(l) == c' = [c EXCEPT !.at = l]

\* rtss_mb_write of a request: it is published, or refused, or published
\* and reported as a failure because the interrupt could not be sent.
Write(p, kind, items, ok, failed) ==
    LET r == [pair |-> p, id |-> sent + 1, kind |-> kind, items |-> items]
    IN  /\ got' = <<>>
        /\ \/ /\ items > 0
              /\ Len(down[p]) + items <= Depth
              /\ down' = [down EXCEPT ![p] = @ \o Copies(r, items)]
              /\ sent' = sent + 1
              /\ \/ At(ok) /\ UNCHANGED fault
                 \/ At(failed) /\ fault' = TRUE
           \/ /\ At(failed)
              /\ fault' = TRUE
              /\ UNCHANGED <<down, sent>>
        /\ UNCHANGED <<hand, up, foreign, runs, handlevars>>

Lesser(a, b) == IF a < b THEN a ELSE b

\* rtss_mb_read: it waits until something is there and takes what fits the
\* buffer; after[n] is the label when it has read n items.
Read(p, items, after, failed) ==
    LET n == Lesser(items, Len(up[p]))
    IN  /\ \/ /\ n > 0
              /\ got' = SubSeq(up[p], 1, n)
              /\ up' = [up EXCEPT ![p] = SubSeq(@, n + 1, Len(@))]
              /\ At(after[n])
              /\ UNCHANGED fault
           \/ /\ At(failed)
              /\ fault' = TRUE
              /\ UNCHANGED <<got, up>>
        /\ UNCHANGED <<down, hand, sent, foreign, runs, handlevars>>

\* Whether something of others is left on the pair after a reset that made
\* it empty: what RTSS holds cannot be called back.
Forget(p) == foreign' = IF hand[p] = <<>> /\ down'[p] = <<>> /\ up'[p] = <<>>
                        THEN foreign \ {p} ELSE foreign \cup {p}

-----------------------------------------------------------------------------
(***************************************************************************)
(* The life of a program                                                   *)
(***************************************************************************)
Start(prog) ==
    /\ c = Off
    /\ runs < MaxRuns
    /\ runs' = runs + 1
    /\ c' = prog
    /\ foreign' = {p \in Pairs : InFlight(p)}
    /\ UNCHANGED <<channels, sent, got, fault, handlevars>>

\* The program opens the channels c.todo, in order, and goes on at ok, or
\* stops at the first that cannot be opened and goes on at failed.
OpenNext(ok) ==
    /\ c.at = "opening" /\ pc = "idle"
    /\ IF c.todo = <<>>
       THEN At(ok) /\ UNCHANGED handlevars
       ELSE At("opened") /\ rtss_mb_open(Head(c.todo))
    /\ UNCHANGED <<channels, history>>

OpenReturned(failed) ==
    /\ c.at = "opened" /\ pc = "idle"
    /\ IF ret = "SUCCESS"
       THEN /\ c' = [c EXCEPT !.at = "opening", !.todo = Tail(@),
                              !.open = @ \cup {Head(c.todo)}]
            /\ UNCHANGED fault
       ELSE c' = [c EXCEPT !.at = failed, !.todo = <<>>] /\ fault' = TRUE
    /\ ret' = "SUCCESS"       \* nobody looks at it again
    /\ UNCHANGED <<channels, sent, got, foreign, runs,
                   pc, dev, live, handles, ready, closes>>

\* It closes those of names that it has, in order, and goes on at done; of
\* its state it needs no more than rest.
CloseAll(names, rest, done) ==
    LET have == {i \in DOMAIN names : names[i] \in c.open}
    IN  /\ IF have = {}
           THEN At(done) /\ UNCHANGED handlevars
           ELSE \E i \in have :
                   /\ \A j \in have : i <= j
                   /\ rtss_mb_close(names[i])
                   /\ c' = [rest EXCEPT !.open = @ \ {names[i]}]
        /\ got' = <<>>
        /\ UNCHANGED <<channels, sent, foreign, fault, runs>>

\* Requests are numbered from 1 by every program; what is left of earlier
\* ones is told from its own by the number 0.
Old(q) == [i \in DOMAIN q |-> [q[i] EXCEPT !.id = 0]]

\* main returns, or the process is killed wherever it is.
ProgramEnds ==
    /\ ProcessEnds
    /\ c' = Off
    /\ down' = [p \in Pairs |-> Old(down[p])]
    /\ hand' = [p \in Pairs |-> [i \in DOMAIN hand[p] |-> Old(hand[p][i])]]
    /\ up' = [p \in Pairs |-> Old(up[p])]
    /\ sent' = 0 /\ got' = <<>>
    /\ foreign' = {} /\ fault' = FALSE
    /\ UNCHANGED runs

Exit == c.at = "exit" /\ ProgramEnds

\* The last program may as well go on: nothing comes after it.
Killed == c # Off /\ runs < MaxRuns /\ ProgramEnds

-----------------------------------------------------------------------------
\* Nothing the process gives back was not its own, and the channels hold
\* what they have room for.
TypeOK ==
    /\ HandleTypeOK
    /\ c.open \subseteq Names
    /\ \A p \in Pairs : Len(down[p]) <= Depth /\ Len(up[p]) <= Depth
    /\ foreign \subseteq Pairs
    /\ {fault} \subseteq BOOLEAN
    /\ runs \in 0..MaxRuns

\* What a program reads answers the request it wrote last, as long as none
\* of its calls failed and the pair held nothing of an earlier program when
\* it began to use it.
AnswersMatch ==
    fault \/ \A i \in DOMAIN got : got[i].id = sent \/ got[i].pair \in foreign

\* A program that ends by itself has closed every handle; and if no call of
\* it failed it has read every answer it asked for, so that it leaves
\* nothing to the next one (the channels it found in use excepted).
NothingLeftBehind ==
    c.at = "exit" =>
        /\ handles = {}
        /\ fault \/ \A p \in Pairs \ foreign : ~InFlight(p)
=============================================================================
