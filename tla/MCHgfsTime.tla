----------------------------- MODULE MCHgfsTime -----------------------------
(* The conversion at scale: 4 ticks a second of 2 ns, 20 s from 1601 to   *)
(* 1970, a 10-bit NT time, 4-bit and 10-bit time_t.  The ratios keep the   *)
(* real order: 2^31 s < 1601..1970 < 2^64 ticks in seconds < 2^63 s.       *)
EXTENDS HgfsTime

MCBuildChoices == {"x86", "x86_64"}
=============================================================================
