--------------------------- MODULE MCMailboxClients ---------------------------
\* Two cores, the test pair, the data pair of the performance test, a name
\* that is too long, a broken sub-region, and a channel behind it.
EXTENDS MailboxClients

MCPairs == {"c0", "c1", "tst", "kpi"}

MCCores == <<"c0", "c1">>

Good(n) == [name |-> n, mode |-> IF n[2] = "rx" THEN "RX" ELSE "TX",
            sane |-> TRUE, long |-> FALSE]

MCDirectory ==
    << Good(Tx("c0")), Good(Rx("c0")), Good(Tx("c1")), Good(Rx("c1")),
       Good(Tx("tst")), Good(Rx("tst")), Good(Tx("kpi")), Good(Rx("kpi")),
       [Good(Rx("long")) EXCEPT !.long = TRUE],
       [Good(Tx("broken")) EXCEPT !.sane = FALSE],
       Good(Tx("behind")) >>

MCNames == {MCDirectory[i].name : i \in DOMAIN MCDirectory}

MCKpiNodes == {<<Rx("kpi"), Tx("kpi")>>, <<Rx("long"), Tx("kpi")>>,
               <<Rx("kpi"), Tx("behind")>>}
=============================================================================
