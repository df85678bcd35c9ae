-------------------------- MODULE MCBsdOutputShared --------------------------
(* dtoa of every eighth from -1.125 to 10: ties (0.125, 1.625, 2.5), a     *)
(* carry into a new digit (9.875 to one digit), zero and values that round *)
(* to zero; wmemchr over buffers of up to three characters.                *)
EXTENDS BsdOutputShared

CONSTANTS w1, w2, junk

MCEighths == -9..80
\* %e passes prec + 1 >= 1 significant digits, %f any prec >= 0.
MCPrecisions == [m \in {2, 3} |-> IF m = 2 THEN 1..3 ELSE 0..3]
MCWChars == {w1, w2}
MCGarbage == {junk}
=============================================================================
