---------------------------- MODULE MC_TestBench ----------------------------
EXTENDS TestBench

\* the status of a page tick, one edit and one reply of each kind in flight
MC_MaxInFlight == 2

=============================================================================
