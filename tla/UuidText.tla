------------------------------ MODULE UuidText ------------------------------
(***************************************************************************)
(* UUIDs: the block and text of a UUIDv7 (crates/core/src/uuidv7.rs), the  *)
(* conversions between UUID, ULID and bytes (crates/core/src/convert.rs)   *)
(* and the timestamps read from them (src/uuidv7.ts).  An application      *)
(* generates a UUIDv7 or is given a text, and converts it any number of    *)
(* times.                                                                  *)
(*                                                                         *)
(* The sizes are constants.  Of a text, a character is a hexadecimal digit *)
(* (its lower-case letters have the ranks, the upper-case ones follow), a  *)
(* hyphen or junk.  ULID texts are those of Crockford.                     *)
(***************************************************************************)
EXTENDS Crockford

CONSTANTS
  HEX, HEX_LETTER,  \* Hexadecimal digits (16), and the first that is a letter (10).
  BYTES,            \* Bytes of an identifier (16).
  TIME_BYTES,       \* Of these, the timestamp (6).
  VERSION_AT,       \* The byte with the version (7th),
  VARIANT_AT,       \* and with the variant (9th).
  VERSION,          \* 7.
  HYPHENS,          \* The bytes with a hyphen before them (5th, 7th, 9th, 11th).
  Uuids,            \* Texts an application may be given.
  Randoms,          \* Random bytes that are drawn.
  Clocks            \* Times at which a UUIDv7 is made.

BYTE == HEX * HEX

UuidTextAssumption ==
  /\ CrockfordAssumption
  /\ BYTE ^ BYTES = MaxValue + 1
  /\ BYTE ^ TIME_BYTES = TIME_MAX + 1
  /\ TIME_BYTES < VERSION_AT /\ VERSION_AT # VARIANT_AT /\ VARIANT_AT <= BYTES
  /\ Randoms \subseteq [1 .. BYTES -> 0 .. BYTE - 1]
  /\ Clocks \subseteq 0 .. TIME_MAX

VARIABLES
  form,        \* What the application holds: a uuid, a ulid, bytes or an error.
  text,        \* The text or the bytes.
  origin,      \* History: the bytes it started with, None if it was no UUID,
  made         \* and the clock if it was generated, else None.

vars == << form, text, origin, made >>

None == -1

-----------------------------------------------------------------------------
(* convert.rs                                                              *)

Hyphen  == 2 * HEX - HEX_LETTER
HexJunk == Hyphen + 1

\* Mutant: upper-case digits are not understood.
hex_val_LowerOnly(c) == IF c < HEX THEN c ELSE INVALID

hex_val(c) ==
  CASE c < HEX -> c
    [] HEX <= c /\ c < Hyphen -> c - HEX + HEX_LETTER
    [] OTHER -> INVALID

format_hyphenated_lower(bytes) ==
  FlattenSeq([i \in 1 .. BYTES |->
    (IF i \in HYPHENS THEN << Hyphen >> ELSE << >>) \o << bytes[i] \div HEX, bytes[i] % HEX >>])

to_uppercase(uuid) ==
  [k \in 1 .. Len(uuid) |->
     IF HEX_LETTER <= uuid[k] /\ uuid[k] < HEX THEN uuid[k] - HEX_LETTER + HEX ELSE uuid[k]]

UUID_LEN == 2 * BYTES + Cardinality(HYPHENS)

\* Places of the hyphens in a text.
HyphenPlaces == { 2 * (i - 1) + Cardinality({ j \in HYPHENS : j <= i }) : i \in HYPHENS }

Pairs(hex) == [i \in 1 .. BYTES |-> hex_val(hex[2 * i - 1]) * HEX + hex_val(hex[2 * i])]

parse_hyphenated_uuid(uuid) ==
  LET bare == [k \in 1 .. 2 * BYTES |->
                 uuid[CHOOSE p \in (1 .. UUID_LEN) \ HyphenPlaces :
                        Cardinality((1 .. p) \ HyphenPlaces) = k]]
  IN  IF Len(uuid) # UUID_LEN \/ \E p \in HyphenPlaces : uuid[p] # Hyphen
        THEN Err("InvalidUuid")
      ELSE IF \E k \in 1 .. 2 * BYTES : hex_val(bare[k]) = INVALID THEN Err("InvalidUuid")
      ELSE Ok(Pairs(bare))

\* u128::from_be_bytes, to_be_bytes
Number(bytes) == FoldLeft(LAMBDA v, b : v * BYTE + b, 0, bytes)
BytesOf(v) == [i \in 1 .. BYTES |-> (v \div BYTE ^ (BYTES - i)) % BYTE]

ulid_to_uuid(ulid) ==
  LET v == decode_chars(ulid)
  IN  IF v.ok THEN Ok(to_uppercase(format_hyphenated_lower(BytesOf(v.value)))) ELSE v

uuid_to_ulid(uuid) ==
  LET bytes == parse_hyphenated_uuid(uuid)
  IN  IF bytes.ok THEN Ok(encode_value(Number(bytes.value))) ELSE bytes

-----------------------------------------------------------------------------
(* uuidv7.rs and uuidv7.ts                                                 *)

uuidv7_block(ms, bytes) ==
  [i \in 1 .. BYTES |->
     CASE i <= TIME_BYTES -> (ms \div BYTE ^ (TIME_BYTES - i)) % BYTE
       [] i = VERSION_AT -> (bytes[i] % HEX) + VERSION * HEX
       [] i = VARIANT_AT -> (bytes[i] % (BYTE \div 4)) + (BYTE \div 2)
       [] OTHER -> bytes[i]]

\* decodeTime, on bytes.
timestamp_ms(bytes) == Number(SubSeq(bytes, 1, TIME_BYTES))

\* All hyphens are dropped, wherever they are.
decodeTimeFromString(uuid) ==
  LET hex == SelectSeq(uuid, LAMBDA c : c # Hyphen)
  IN  IF Len(hex) # 2 * BYTES \/ \E k \in 1 .. Len(hex) : hex_val(hex[k]) = INVALID
        THEN Err("TypeError") ELSE Ok(timestamp_ms(Pairs(hex)))

-----------------------------------------------------------------------------
Received(uuid) ==
  /\ form = "uuid" /\ text = uuid /\ made = None
  /\ origin = LET p == parse_hyphenated_uuid(uuid) IN IF p.ok THEN p.value ELSE << >>

Generated(ms, random) ==
  /\ form = "uuid" /\ made = ms
  /\ origin = uuidv7_block(ms, random)
  /\ text = format_hyphenated_lower(origin)

Init ==
  \/ \E uuid \in Uuids : Received(uuid)
  \/ \E ms \in Clocks, random \in Randoms : Generated(ms, random)

Become(kind, r) ==
  /\ IF r.ok THEN form' = kind /\ text' = r.value ELSE form' = "error" /\ text' = r.error
  /\ UNCHANGED << origin, made >>

ToUlid    == form = "uuid" /\ Become("ulid", uuid_to_ulid(text))
ToUuid    == form = "ulid" /\ Become("uuid", ulid_to_uuid(text))
UlidBytes == form = "ulid" /\ LET v == decode_chars(text)
                              IN  Become("bytes", IF v.ok THEN Ok(BytesOf(v.value)) ELSE v)
BytesUlid == form = "bytes" /\ Become("ulid", Ok(encode_value(Number(text))))

\* The application writes the hexadecimal letters large.
Upper == form = "uuid" /\ Become("uuid", Ok(to_uppercase(text)))

\* What was refused is not converted further.
Refused == form = "error" /\ UNCHANGED vars

Next == ToUlid \/ ToUuid \/ UlidBytes \/ BytesUlid \/ Upper \/ Refused

Spec == Init /\ [][Next]_vars

-----------------------------------------------------------------------------
(* Properties.                                                             *)

\* The time that is read from what the application holds.
TimeRead ==
  CASE form = "uuid" -> decodeTimeFromString(text)
    [] form = "ulid" -> decode_time(text)
    [] form = "bytes" -> Ok(timestamp_ms(text))

\* However often a UUID is converted it keeps its bits ("a pure
\* reinterpretation of the same 128 bits", convert.rs:5-9) and is never
\* refused, in either case; UUID text, ULID text and bytes read the same time,
\* the clock's if it is a UUIDv7 that was generated.
SameBits ==
  origin # << >> =>
    /\ form # "error"
    /\ form = "uuid" => parse_hyphenated_uuid(text) = Ok(origin)
    /\ form = "ulid" => decode_chars(text) = Ok(Number(origin))
    /\ form = "bytes" => text = origin
    /\ TimeRead = Ok(timestamp_ms(origin))
    /\ made # None => TimeRead = Ok(made)

=============================================================================
