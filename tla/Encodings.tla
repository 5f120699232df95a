----------------------------- MODULE Encodings -----------------------------
(***************************************************************************)
(* The secondary encodings of crates/core/src: base58.rs, base64url.rs and *)
(* sortable.rs.  Bytes, alphabets and word widths are constants; a text is *)
(* a sequence of alphabet ranks, in which Pad stands for '=' and Junk for  *)
(* any character outside the alphabet.  An application holds bytes and a   *)
(* text it received, and encodes and decodes them with one of the codecs.  *)
(***************************************************************************)
EXTENDS Powers, SequencesExt

CONSTANTS
  BYTE_BITS,       \* Bits of a byte (8).
  SEXTET_BITS,     \* Bits of a Base64 character (6).
  WORD_BITS,       \* Width of the Base64 decoder's accumulator (32).
  RADIX,           \* Characters of the Base58 alphabet (58).
  MAX_INPUT_LEN,   \* Longest text the decoders accept (4096, 8192).
  ENCODED_LEN,     \* Characters of a sortable text (22).
  LOW_BITS,        \* Bits of the value in the last of them (2).
  ID_LEN,          \* Bytes of an identifier (16).
  Payloads,        \* Byte strings an application may encode.
  Texts            \* Texts an application may receive.

BYTE   == Power(2, BYTE_BITS)
SEXTET == Power(2, SEXTET_BITS)
Pad    == SEXTET
Junk   == SEXTET + 1
Bytes  == 0 .. BYTE - 1

EncodingsAssumption ==
  /\ {BYTE_BITS, SEXTET_BITS, WORD_BITS, LOW_BITS, ENCODED_LEN, ID_LEN} \subseteq Nat
  /\ MAX_INPUT_LEN \in Nat /\ ENCODED_LEN > 0
  /\ 3 * BYTE_BITS = 4 * SEXTET_BITS
  /\ SEXTET_BITS < BYTE_BITS /\ BYTE_BITS + SEXTET_BITS <= WORD_BITS
  /\ RADIX \in 2 .. SEXTET
  /\ LOW_BITS \in 1 .. SEXTET_BITS
  /\ ID_LEN * BYTE_BITS = SEXTET_BITS * (ENCODED_LEN - 1) + LOW_BITS
  /\ Payloads \subseteq Seq(Bytes) /\ Texts \subseteq Seq(0 .. Junk)

VARIABLES
  codec,     \* Which encoding the application uses.
  bytes,     \* The bytes it holds.
  text,      \* The text it holds.
  result     \* What the last call returned.

vars == << codec, bytes, text, result >>

Ok(v)  == [ok |-> TRUE, value |-> v]
Err(e) == [ok |-> FALSE, error |-> e]
None   == Err("not called yet")

-----------------------------------------------------------------------------
(* base58.rs: both directions carry a number from one base to another, one *)
(* digit at a time, least significant digit first.                         *)

\* The digits of what is left of the carry: `while carry > 0 { push }`.
Spill(carry, to) ==
  LET n == CHOOSE k \in 0 .. carry : Power(to, k) > carry /\ (k > 0 => Power(to, k - 1) <= carry)
  IN  [i \in 1 .. n |-> (carry \div Power(to, i - 1)) % to]

\* number * from + digit, in base `to`.
CarryIn(number, from, to, digit) ==
  LET step(s, d) == LET v == d * from + s.carry
                    IN  [out |-> Append(s.out, v % to), carry |-> v \div to]
      r == FoldLeft(step, [out |-> << >>, carry |-> digit], number)
  IN  r.out \o Spill(r.carry, to)

Leading(s) == Cardinality({ i \in 1 .. Len(s) : \A j \in 1 .. i : s[j] = 0 })

Rebase(s, from, to) ==
  LET zeros == Leading(s)
  IN  [i \in 1 .. zeros |-> 0] \o
      Reverse(FoldLeft(LAMBDA n, d : CarryIn(n, from, to, d), << >>,
                       SubSeq(s, zeros + 1, Len(s))))

base58_encode(b) == Rebase(b, BYTE, RADIX)

base58_decode(t) ==
  IF Len(t) > MAX_INPUT_LEN THEN Err("InvalidLength")
  ELSE IF \E i \in 1 .. Len(t) : t[i] >= RADIX THEN Err("InvalidCharacter")
  ELSE Ok(Rebase(t, RADIX, BYTE))

-----------------------------------------------------------------------------
(* base64url.rs                                                            *)

\* Up to three bytes, as one character more than there are bytes.
Group(chunk) ==
  LET n == FoldLeft(LAMBDA v, b : v * BYTE + b, 0,
                    chunk \o [i \in 1 .. 3 - Len(chunk) |-> 0])
  IN  [i \in 1 .. Len(chunk) + 1 |-> (n \div Power(SEXTET, 4 - i)) % SEXTET]

base64url_encode(b) ==
  FlattenSeq([g \in 1 .. (Len(b) + 2) \div 3 |->
    Group(SubSeq(b, 3 * g - 2, IF 3 * g <= Len(b) THEN 3 * g ELSE Len(b)))])

\* Trailing '=' characters that are stripped: at most two.
Padding(t) ==
  Cardinality({ k \in 1 .. 2 : k <= Len(t) /\ \A j \in 0 .. k - 1 : t[Len(t) - j] = Pad })

Body(t) == SubSeq(t, 1, Len(t) - Padding(t))

\* One character enters the accumulator; a byte leaves it when it is whole.
Shift(s, d) ==
  LET acc == (s.acc * SEXTET + d) % Power(2, WORD_BITS)
      n   == s.nbits + SEXTET_BITS
  IN  IF n >= BYTE_BITS
        THEN [acc |-> acc, nbits |-> n - BYTE_BITS,
              out |-> Append(s.out, (acc \div Power(2, n - BYTE_BITS)) % BYTE)]
        ELSE [acc |-> acc, nbits |-> n, out |-> s.out]

Shifted(body) == FoldLeft(Shift, [acc |-> 0, nbits |-> 0, out |-> << >>], body)

\* Mutant: the bits that are left over are not looked at.
LeftOver_Ignored(s) == FALSE

LeftOver(s) == s.nbits > 0 /\ s.acc % Power(2, s.nbits) # 0

base64url_decode(t) ==
  LET body == Body(t) IN
  IF Len(t) > MAX_INPUT_LEN THEN Err("InvalidLength")
  ELSE IF Len(body) % 4 = 1 \/ (Padding(t) > 0 /\ Len(t) % 4 # 0) THEN Err("InvalidLength")
  ELSE IF \E i \in 1 .. Len(body) : body[i] >= SEXTET THEN Err("InvalidCharacter")
  ELSE IF LeftOver(Shifted(body)) THEN Err("NonCanonical")
  ELSE Ok(Shifted(body).out)

-----------------------------------------------------------------------------
(* sortable.rs and encode_sortable, decode_sortable of src/lib.rs: the    *)
(* bytes of an identifier are one number, most significant byte first.     *)

LOW   == Power(2, LOW_BITS)
SHIFT == Power(2, SEXTET_BITS - LOW_BITS)

Number(b)  == FoldLeft(LAMBDA v, d : v * BYTE + d, 0, b)
Spelled(t) == FoldLeft(LAMBDA v, d : v * SEXTET + d, 0, t)
BytesOf(v) == [i \in 1 .. ID_LEN |-> (v \div Power(BYTE, ID_LEN - i)) % BYTE]

\* Mutant: the low bits are not shifted up.
LastSextet_Low(v) == v % LOW

LastSextet(v) == (v % LOW) * SHIFT

encode_value(v) ==
  [i \in 1 .. ENCODED_LEN |->
     IF i < ENCODED_LEN THEN (v \div (LOW * Power(SEXTET, ENCODED_LEN - 1 - i))) % SEXTET
     ELSE LastSextet(v)]

sortable_encode(b) == encode_value(Number(b))

sortable_decode(t) ==
  IF Len(t) # ENCODED_LEN THEN Err("InvalidLength")
  ELSE IF \E i \in 1 .. ENCODED_LEN : t[i] >= SEXTET THEN Err("InvalidCharacter")
  ELSE IF t[ENCODED_LEN] % SHIFT # 0 THEN Err("NonCanonical")
  ELSE Ok(BytesOf(Spelled(t) \div SHIFT))

-----------------------------------------------------------------------------
(* The application.                                                        *)

Codecs == {"base58", "base64url", "sortable"}

Encoded(c, b) ==
  CASE c = "base58" -> Ok(base58_encode(b))
    [] c = "base64url" -> Ok(base64url_encode(b))
    [] c = "sortable" -> IF Len(b) # ID_LEN THEN Err("InvalidLength")
                         ELSE Ok(sortable_encode(b))

Decoded(c, t) ==
  CASE c = "base58" -> base58_decode(t)
    [] c = "base64url" -> base64url_decode(t)
    [] c = "sortable" -> sortable_decode(t)

Init ==
  /\ codec \in Codecs
  /\ bytes \in Payloads
  /\ text \in Texts
  /\ result = None

Encode ==
  /\ result' = Encoded(codec, bytes)
  /\ text' = IF result'.ok THEN result'.value ELSE text
  /\ UNCHANGED << codec, bytes >>

Decode ==
  /\ result' = Decoded(codec, text)
  /\ bytes' = IF result'.ok THEN result'.value ELSE bytes
  /\ UNCHANGED << codec, text >>

Next == Encode \/ Decode

Spec == Init /\ [][Next]_vars

-----------------------------------------------------------------------------
(* Properties.                                                             *)

\* The order of texts of one length.
TextLess(s, t) ==
  \E i \in 1 .. Len(s) : s[i] < t[i] /\ \A j \in 1 .. i - 1 : s[j] = t[j]

\* Whatever an application encodes it gets back, unless the text is longer
\* than the decoders accept (base58.rs, base64url.rs and sortable.rs).
Decodable ==
  LET e == Encoded(codec, bytes) IN
  e.ok /\ Len(e.value) <= MAX_INPUT_LEN => Decoded(codec, e.value) = Ok(bytes)

\* A received text that decodes is the one text its bytes encode to: two
\* texts never stand for the same bytes, the optional padding of Base64
\* apart, which has to fill up a group of four (base64url.rs:61-62).
OneText ==
  LET d == Decoded(codec, text)
      body == IF codec = "base64url" THEN Body(text) ELSE text
      pad  == Len(text) - Len(body)
  IN  d.ok => /\ Encoded(codec, d.value) = Ok(body)
              /\ pad # 0 => (Len(body) + pad) % 4 = 0 /\ pad < 4

\* The order of sortable texts is the order of the identifiers' values
\* (sortable.rs:54-56).
SortableOrder ==
  LET e == Encoded(codec, bytes)
      d == Decoded(codec, text)
  IN  codec = "sortable" /\ e.ok /\ d.ok =>
        (TextLess(e.value, text) <=> Number(bytes) < Number(d.value))

=============================================================================
