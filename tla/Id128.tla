------------------------------- MODULE Id128 -------------------------------
(***************************************************************************)
(* The 128-bit identifier of crates/core/src/id128.rs: a timestamp in the  *)
(* high bits, randomness in the low bits, compared as one unsigned number. *)
(* The 48 and 80 bits of the code are the constants TIME_MAX (2^48 - 1)    *)
(* and RANDOM_MASK (2^80 - 1); a mask with 2^n - 1 is a remainder by 2^n.  *)
(***************************************************************************)
EXTENDS Integers

CONSTANTS
  TIME_MAX,      \* Largest timestamp an identifier can hold.
  RANDOM_MASK    \* Largest random part an identifier can hold.

ASSUME Id128Assumption == TIME_MAX \in Nat /\ RANDOM_MASK \in Nat

Timestamps   == 0 .. TIME_MAX
Randomnesses == 0 .. RANDOM_MASK

\* Both halves are truncated to their width: from_parts validates nothing.
from_parts(ms, rand) ==
  (ms % (TIME_MAX + 1)) * (RANDOM_MASK + 1) + (rand % (RANDOM_MASK + 1))

timestamp_ms(id) == id \div (RANDOM_MASK + 1)

randomness(id) == id % (RANDOM_MASK + 1)

\* Every value of the u128.
Ids == 0 .. (TIME_MAX + 1) * (RANDOM_MASK + 1) - 1

=============================================================================
