------------------------------- MODULE Powers -------------------------------
(***************************************************************************)
(* b ^ n as a recursion: the provers know nothing of ^.                    *)
(***************************************************************************)
EXTENDS Integers

Power(b, n) ==
  LET power[k \in 0 .. n] == IF k = 0 THEN 1 ELSE power[k - 1] * b IN power[n]

=============================================================================
