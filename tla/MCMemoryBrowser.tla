-------------------------- MODULE MCMemoryBrowser --------------------------
(* Two episodes, and enough requests for two refreshes to overlap.         *)
EXTENDS MemoryBrowser

CONSTANTS e1, e2, r1, r2, r3, r4

MCEpisode == {e1, e2}
MCRequest == {r1, r2, r3, r4}

=============================================================================
