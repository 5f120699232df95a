------------------------------- MODULE Ksuid -------------------------------
(***************************************************************************)
(* KSUIDs: crates/core/src/ksuid.rs behind the functions of src/lib.rs     *)
(* (ksuid, generateKsuidMany, decodeKsuid, ...).  A thread makes one or    *)
(* many identifiers with the clock or an explicit timestamp, and reads     *)
(* texts back.  The radix 62, the five 32-bit limbs, the 27 characters and *)
(* the epoch are constants.                                                *)
(*                                                                         *)
(* A KSUID is a sequence of limbs, most significant first; the first one   *)
(* is the timestamp in seconds since the epoch, the others the payload.    *)
(***************************************************************************)
EXTENDS Powers, SequencesExt

CONSTANTS
  LIMB,           \* Values of a limb (2^32).
  LIMBS,          \* Limbs of an identifier (5).
  RADIX,          \* Characters of the alphabet (62).
  STRING_LEN,     \* Characters of an identifier (27).
  SECOND,         \* Units of the clock in a second (1000).
  EPOCH_SECONDS,  \* When the timestamp field starts.
  ClockMax,       \* Bound: how far the clock and the arguments reach.
  Payloads,       \* Random payloads: sequences of LIMBS - 1 limbs.
  Texts,          \* Texts the application receives.
  MaxCount        \* Bound: identifiers of a batch.

Junk == RADIX   \* Any character outside the alphabet.

KsuidAssumption ==
  /\ {LIMB, LIMBS, RADIX} \subseteq Nat \ {0, 1}
  /\ STRING_LEN \in Nat /\ SECOND \in Nat \ {0}
  /\ EPOCH_SECONDS \in Nat /\ ClockMax \in Nat /\ MaxCount \in Nat
  /\ Power(RADIX, STRING_LEN) >= Power(LIMB, LIMBS)   \* Every identifier has a text.
  /\ Payloads \subseteq [1 .. LIMBS - 1 -> 0 .. LIMB - 1]
  /\ Texts \subseteq Seq(0 .. Junk)

TIME_MAX_SECONDS == EPOCH_SECONDS + LIMB - 1
EPOCH_MS         == EPOCH_SECONDS * SECOND
TIME_MAX_MS      == TIME_MAX_SECONDS * SECOND

VARIABLES
  clock,     \* crate::now_ms()
  call,      \* The call that is running, or the last one.
  field,     \* The timestamp field it captured, 0 if none runs.
  left,      \* Identifiers it has still to make.
  made,      \* Those it has made.
  answer     \* "running", or how the call ended.

vars == << clock, call, field, left, made, answer >>

Ok(v)  == [ok |-> TRUE, value |-> v]
Err(e) == [ok |-> FALSE, error |-> e]

-----------------------------------------------------------------------------
(* The text form.                                                          *)

\* Division of the limbs by RADIX, most significant limb first: what is
\* carried after k of them.
DivRadix(limbs) ==
  LET rem[k \in 0 .. LIMBS] == IF k = 0 THEN 0 ELSE (rem[k - 1] * LIMB + limbs[k]) % RADIX
  IN  [out |-> [k \in 1 .. LIMBS |-> (rem[k - 1] * LIMB + limbs[k]) \div RADIX],
       rem |-> rem[LIMBS]]

\* encode_value: STRING_LEN divisions give the characters, last one first.
encode_value(limbs) ==
  LET left_after[k \in 0 .. STRING_LEN] ==
        IF k = 0 THEN limbs ELSE DivRadix(left_after[k - 1]).out
  IN  [i \in 1 .. STRING_LEN |-> DivRadix(left_after[STRING_LEN - i]).rem]

\* limbs * RADIX + digit, least significant limb first, and what does not
\* fit: what is carried out of the last k limbs.
MulRadix(limbs, digit) ==
  LET carry[k \in 0 .. LIMBS] ==
        IF k = 0 THEN digit ELSE (limbs[LIMBS + 1 - k] * RADIX + carry[k - 1]) \div LIMB
  IN  [out |-> [i \in 1 .. LIMBS |-> (limbs[i] * RADIX + carry[LIMBS - i]) % LIMB],
       carry |-> carry[LIMBS]]

\* Mutant: the carry out of the last character is not looked at.
Fits_AllButLast(t, i, carry) == i = STRING_LEN \/ carry = 0

Fits(t, i, carry) == carry = 0

\* One round of the loop of decode_bytes; the first error ends it.
DecodeStep(t, s, i) ==
  IF ~s.ok THEN s
  ELSE IF t[i] = Junk THEN Err("InvalidCharacter")
  ELSE LET m == MulRadix(s.value, t[i])
       IN  IF Fits(t, i, m.carry) THEN Ok(m.out) ELSE Err("KsuidValueTooLarge")

decode_bytes(t) ==
  IF Len(t) # STRING_LEN THEN Err("InvalidLength")
  ELSE LET read[k \in 0 .. STRING_LEN] ==
             IF k = 0 THEN Ok([i \in 1 .. LIMBS |-> 0]) ELSE DecodeStep(t, read[k - 1], k)
       IN  read[STRING_LEN]

is_valid(t) == decode_bytes(t).ok

timestamp_ms(limbs) == (limbs[1] + EPOCH_SECONDS) * SECOND

decode_time_ms(t) ==
  LET d == decode_bytes(t) IN IF d.ok THEN Ok(timestamp_ms(d.value)) ELSE d

\* Derived Ord: the bytes, most significant first.
LimbsLess(a, b) ==
  \E i \in 1 .. LIMBS : a[i] < b[i] /\ \A j \in 1 .. i - 1 : a[j] = b[j]

compare(s, t) ==
  LET a == decode_bytes(s)
      b == decode_bytes(t)
  IN  IF ~a.ok THEN a ELSE IF ~b.ok THEN b
      ELSE Ok(IF LimbsLess(a.value, b.value) THEN -1
              ELSE IF a.value = b.value THEN 0 ELSE 1)

-----------------------------------------------------------------------------
(* Timestamps.                                                             *)

timestamp_field(seconds) ==
  IF seconds \in EPOCH_SECONDS .. TIME_MAX_SECONDS THEN Ok(seconds - EPOCH_SECONDS)
  ELSE Err("KsuidTimestampOutOfRange")

\* Mutant: the clock is taken modulo the width of the field.
current_timestamp_field_Wraps == (clock \div SECOND - EPOCH_SECONDS) % LIMB

\* A clock outside the era of KSUIDs is clamped to it.
current_timestamp_field ==
  LET now == clock \div SECOND
  IN  CASE now < EPOCH_SECONDS -> 0
        [] now > TIME_MAX_SECONDS -> LIMB - 1
        [] OTHER -> now - EPOCH_SECONDS

\* generate_at_unix_ms
field_at(ms) ==
  IF ms \in EPOCH_MS .. TIME_MAX_MS THEN timestamp_field(ms \div SECOND)
  ELSE Err("KsuidTimestampOutOfRange")

-----------------------------------------------------------------------------
(* The calls.                                                              *)

Init ==
  /\ clock \in 0 .. ClockMax
  /\ call = [op |-> "none"]
  /\ field = 0
  /\ left = 0
  /\ made = << >>
  /\ answer = "returned"

Idle == answer # "running"

\* The wall clock advances and is set back, before, in and after the era.
ClockStep ==
  /\ clock' \in {clock - 1, clock + 1} \cap 0 .. ClockMax
  /\ UNCHANGED << call, field, left, made, answer >>

Start(c, f, n) ==
  /\ Idle
  /\ call' = c
  /\ made' = << >>
  /\ IF f.ok THEN field' = f.value /\ left' = n /\ answer' = "running"
     ELSE field' = 0 /\ left' = 0 /\ answer' = f.error
  /\ UNCHANGED clock

\* generate_strings, generate_bytes and fill_secure capture the second
\* before they draw; generate() is a batch of one.
GenerateMany ==
  \E n \in 0 .. MaxCount :
    Start([op |-> "many", count |-> n, clock |-> clock], Ok(current_timestamp_field), n)

\* explicit_ksuid_ts and generate_at_unix_ms test the same window.
GenerateAt ==
  \E ms \in 0 .. ClockMax : Start([op |-> "at", ms |-> ms], field_at(ms), 1)

\* One payload is drawn and one identifier is made.
Draw ==
  /\ left > 0
  /\ \E p \in Payloads : made' = Append(made, << field >> \o p)
  /\ left' = left - 1
  /\ UNCHANGED << clock, call, field, answer >>

Return ==
  /\ ~Idle
  /\ left = 0
  /\ answer' = "returned"
  /\ field' = 0
  /\ UNCHANGED << clock, call, left, made >>

\* decodeKsuid, isValidKsuid, decodeKsuidTime of a text.
Decode ==
  /\ Idle
  /\ \E t \in Texts :
       LET d == decode_bytes(t) IN
       /\ call' = [op |-> "decode", text |-> t]
       /\ made' = IF d.ok THEN << d.value >> ELSE << >>
       /\ answer' = IF d.ok THEN "returned" ELSE d.error
  /\ UNCHANGED << clock, field, left >>

Next == ClockStep \/ GenerateMany \/ GenerateAt \/ Draw \/ Return \/ Decode

Spec == Init /\ [][Next]_vars

-----------------------------------------------------------------------------
(* Properties.                                                             *)

Number(limbs) == FoldLeft(LAMBDA v, l : v * LIMB + l, 0, limbs)
Spelled(t)    == FoldLeft(LAMBDA v, d : v * RADIX + d, 0, t)

\* A text is accepted exactly if its number fits in 160 bits, and then the
\* limbs are that number: the carries lose nothing, and the overflow check
\* of each character misses nothing (ksuid.rs:396-425).
DecodesExactly ==
  Idle /\ call.op = "decode" =>
    LET t == call.text
        fits == /\ Len(t) = STRING_LEN
                /\ \A i \in 1 .. STRING_LEN : t[i] # Junk
                /\ Spelled(t) < Power(LIMB, LIMBS)
    IN  /\ is_valid(t) <=> fits
        /\ answer = "returned" => Number(made[1]) = Spelled(t)
        /\ fits => encode_value(made[1]) = t

\* Every identifier survives its text, and reads back the second it was
\* stamped with: the floor of the timestamp asked for, or of the clock at
\* the call, held within the era; so all of a batch are of one second,
\* whatever the clock does while they are drawn (ksuid.rs:336, 381-394).
TimeReadsBack ==
  \A i \in 1 .. Len(made) :
    LET t == decode_time_ms(encode_value(made[i])) IN
    CASE call.op = "at" -> t = Ok((call.ms \div SECOND) * SECOND)
      [] call.op = "many" ->
           t = Ok(IF call.clock < EPOCH_MS THEN EPOCH_MS
                  ELSE IF call.clock > TIME_MAX_MS THEN TIME_MAX_MS
                  ELSE (call.clock \div SECOND) * SECOND)
      [] OTHER -> t.ok

\* "That alphabet is ASCII-ordered, so lexicographic string order equals
\* byte order" (ksuid.rs:10-12), and compare agrees with both.
TextOrder ==
  \A i, j \in 1 .. Len(made) :
    LET s == encode_value(made[i])
        t == encode_value(made[j])
        before == \E k \in 1 .. STRING_LEN : s[k] < t[k] /\ \A m \in 1 .. k - 1 : s[m] = t[m]
    IN  /\ before <=> LimbsLess(made[i], made[j])
        /\ compare(s, t) = Ok(IF before THEN -1 ELSE IF s = t THEN 0 ELSE 1)

=============================================================================
