---------------------------- MODULE MCRtssConsole ----------------------------
\* Values for RtssConsole: a cfg cannot hold negative numbers.
EXTENDS RtssConsole

AllTimeouts == {-1, 0, 1}
=============================================================================
