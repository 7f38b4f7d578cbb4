-------------------------- MODULE MC_WifiConnection --------------------------
EXTENDS WifiConnection

CONSTANTS s1, s2

MC_SSIDs == {s1, s2}

=============================================================================
