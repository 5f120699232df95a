----------------------------- MODULE Crockford -----------------------------
(***************************************************************************)
(* The Crockford Base32 codec of crates/core/src/crockford.rs and the      *)
(* string checks of crates/core/src/ulid.rs, as operators.  The radix 32,  *)
(* the 26 characters and the limit 7 on the first one are constants.       *)
(*                                                                         *)
(* Characters are numbered in ASCII order: first the alphabet, upper case, *)
(* then the lower-case forms of its letters, then Junk, which stands for   *)
(* every character outside the alphabet.                                   *)
(***************************************************************************)
EXTENDS Integers, SequencesExt

CONSTANTS
  BASE,        \* Characters of the alphabet (32).
  LETTER,      \* Rank of its first letter (10); below it are the digits.
  LENGTH,      \* Characters of an identifier (ULID_LEN, 26).
  TIME_LEN,    \* Characters of its timestamp (10).
  LEAD_MAX     \* Largest first character of a 128-bit value (7).

CrockfordAssumption ==
  /\ BASE \in Nat \ {0, 1} /\ LETTER \in 1 .. BASE
  /\ TIME_LEN \in 1 .. LENGTH /\ LENGTH \in Nat
  /\ LEAD_MAX \in 0 .. BASE - 1

Junk      == 2 * BASE - LETTER
Chars     == 0 .. Junk
IsUpper(c) == c < BASE
IsLower(c) == BASE <= c /\ c < Junk

INVALID == -1

\* Mutant: the lower-case letters are off by one.
DECODE_Shifted(c) ==
  CASE IsUpper(c) -> c
    [] IsLower(c) -> (c - BASE + LETTER + 1) % BASE
    [] OTHER -> INVALID

\* The table DECODE: both cases of a letter have one value.
DECODE(c) ==
  CASE IsUpper(c) -> c
    [] IsLower(c) -> c - BASE + LETTER
    [] OTHER -> INVALID

is_alphabet_char(c) == DECODE(c) # INVALID

Ok(v)  == [ok |-> TRUE, value |-> v]
Err(e) == [ok |-> FALSE, error |-> e]

\* The number a text spells, whatever its first character.
Spelled(text) == FoldLeft(LAMBDA v, c : v * BASE + DECODE(c), 0, text)

\* What a character counts that has k others after it: the shifts by 5 * k
\* bits.
Weight[k \in 0 .. LENGTH] == IF k = 0 THEN 1 ELSE Weight[k - 1] * BASE

Digits(v, n) == [i \in 1 .. n |-> (v \div Weight[n - i]) % BASE]

MaxValue == (LEAD_MAX + 1) * Weight[LENGTH - 1] - 1
Values   == 0 .. MaxValue

encode_value(v) == Digits(v, LENGTH)

\* The loop stops at the first bad character; the limit on the first one is
\* tested as soon as it is read.
decode_chars(text) ==
  IF Len(text) # LENGTH THEN Err("InvalidLength")
  ELSE IF is_alphabet_char(text[1]) /\ DECODE(text[1]) > LEAD_MAX
         THEN Err("ValueTooLarge")
  ELSE IF \E i \in 1 .. LENGTH : ~is_alphabet_char(text[i])
         THEN Err("InvalidCharacter")
  ELSE Ok(Spelled(text))

TIME_MAX == (LEAD_MAX + 1) * Weight[TIME_LEN - 1] - 1

encode_time(ms) ==
  IF ms > TIME_MAX THEN Err("TimestampOutOfRange") ELSE Ok(Digits(ms, TIME_LEN))

decode_time_bytes(text) ==
  IF Len(text) # TIME_LEN THEN Err("InvalidLength")
  ELSE IF \E i \in 1 .. TIME_LEN : ~is_alphabet_char(text[i])
         THEN Err("InvalidCharacter")
  ELSE IF Spelled(text) > TIME_MAX THEN Err("ValueTooLarge")
  ELSE Ok(Spelled(text))

-----------------------------------------------------------------------------
(* ulid.rs                                                                 *)

is_valid(text) ==
  /\ Len(text) = LENGTH
  /\ \A i \in 1 .. LENGTH : is_alphabet_char(text[i])

decode_time(text) ==
  IF Len(text) # LENGTH THEN Err("InvalidLength")
  ELSE decode_time_bytes(SubSeq(text, 1, TIME_LEN))

Sign(a, b) == IF a < b THEN -1 ELSE IF a > b THEN 1 ELSE 0

\* The first operand's error wins.
compare(a, b) ==
  LET va == decode_chars(a)
      vb == decode_chars(b)
  IN  IF ~va.ok THEN va ELSE IF ~vb.ok THEN vb ELSE Ok(Sign(va.value, vb.value))

=============================================================================
