---------------------------- MODULE MCHostClock ----------------------------
(***************************************************************************)
(* HostClock with frequencies in units of 4 Hz, so that 2^32 Hz and the    *)
(* ceiling of 3.3 GHz are numbers that TLC can hold; no value is rounded.  *)
(***************************************************************************)
EXTENDS HostClock

MHz(n) == 250000 * n

\* Both sides of each change of the divider, the ends of the range that
\* test.c lets through, and 826 MHz, the first frequency out of reach.
MCTargets == {MHz(n) : n \in {10, 12, 13, 103, 104, 200, 412, 413, 825, 826, 1000}}

\* 50 MHz: a multiplier of 24414 and a divider of 16.
MCResetFll == setFllFreq(initFll({}), 24414, 5)
=============================================================================
