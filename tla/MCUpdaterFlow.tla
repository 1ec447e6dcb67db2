---------------------------- MODULE MCUpdaterFlow ----------------------------
\* What a race with a reset may bring back: the request that does most harm,
\* which is also its answer, and a HELLO.
EXTENDS UpdaterFlow

AFlash == {Msg("FLASH_IMAGE", 1, "SUCCESS")}
AFlashAndAHello == AFlash \cup {HELLO}
=============================================================================
