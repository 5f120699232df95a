------------------------------ MODULE ReadBack ------------------------------
(***************************************************************************)
(* What rivid writes it reads back: the codecs of the core and the parser  *)
(* of the policy file, side by side.  They share no state, so a behaviour  *)
(* is a behaviour of one of them, chosen at the start, while the variables *)
(* of the others stay unused.  The parts are                               *)
(*                                                                         *)
(*   ulid       UlidText     strings, comparison and sorting               *)
(*   encodings  Encodings    Base58, base64url and sortable texts          *)
(*   ksuid      Ksuid        KSUIDs and their texts                        *)
(*   uuid       UuidText     UUIDs, their ULIDs, bytes and times           *)
(*   policy     PolicyFile   .rivid.yml                                    *)
(*                                                                         *)
(* Constants that several parts have are named for the part.               *)
(***************************************************************************)
EXTENDS Integers, Sequences

CONSTANTS
  u_BASE, u_LETTER, u_LENGTH, u_TIME_LEN, u_LEAD_MAX, Arrays,        \* Of UlidText,
  BYTE_BITS, SEXTET_BITS, WORD_BITS, e_RADIX, MAX_INPUT_LEN,         \* Encodings,
  ENCODED_LEN, LOW_BITS, ID_LEN, e_Payloads, e_Texts,
  LIMB, LIMBS, k_RADIX, STRING_LEN, SECOND, EPOCH_SECONDS,           \* Ksuid,
  ClockMax, k_Payloads, k_Texts, MaxCount,
  i_BASE, i_LETTER, i_LENGTH, i_TIME_LEN, i_LEAD_MAX,                \* UuidText
  HEX, HEX_LETTER, BYTES, TIME_BYTES, VERSION_AT, VARIANT_AT,
  VERSION, HYPHENS, Uuids, Randoms, Clocks,
  Policies, ListIndents                                              \* and PolicyFile.

VARIABLES
  part,                                           \* Which of the five runs.
  arr, u_call, before, u_result,                  \* Variables of UlidText,
  codec, bytes, text, e_result,                   \* of Encodings,
  clock, k_call, field, left, made, answer,       \* of Ksuid,
  form, held, origin, stamped,                    \* of UuidText,
  policy, lines, heap, stack                      \* of PolicyFile.

uVars == << arr, u_call, before, u_result >>
eVars == << codec, bytes, text, e_result >>
kVars == << clock, k_call, field, left, made, answer >>
iVars == << form, held, origin, stamped >>
pVars == << policy, lines, heap, stack >>
vars  == << part, uVars, eVars, kVars, iVars, pVars >>

-----------------------------------------------------------------------------
U == INSTANCE UlidText WITH
       BASE <- u_BASE, LETTER <- u_LETTER, LENGTH <- u_LENGTH, TIME_LEN <- u_TIME_LEN,
       LEAD_MAX <- u_LEAD_MAX, call <- u_call, result <- u_result
E == INSTANCE Encodings WITH
       RADIX <- e_RADIX, Payloads <- e_Payloads, Texts <- e_Texts, result <- e_result
K == INSTANCE Ksuid WITH
       RADIX <- k_RADIX, Payloads <- k_Payloads, Texts <- k_Texts, call <- k_call
I == INSTANCE UuidText WITH
       BASE <- i_BASE, LETTER <- i_LETTER, LENGTH <- i_LENGTH, TIME_LEN <- i_TIME_LEN,
       LEAD_MAX <- i_LEAD_MAX, text <- held, made <- stamped
P == INSTANCE PolicyFile

ASSUME ReadBackAssumption ==
  /\ U!UlidTextAssumption
  /\ E!EncodingsAssumption
  /\ K!KsuidAssumption
  /\ I!UuidTextAssumption
  /\ P!PolicyFileAssumption

-----------------------------------------------------------------------------
\* What the variables of the other parts are.
uUnused == arr = "unused" /\ u_call = "unused" /\ before = "unused" /\ u_result = "unused"
eUnused == codec = "unused" /\ bytes = "unused" /\ text = "unused" /\ e_result = "unused"
kUnused == /\ clock = "unused" /\ k_call = "unused" /\ field = "unused"
           /\ left = "unused" /\ made = "unused" /\ answer = "unused"
iUnused == form = "unused" /\ held = "unused" /\ origin = "unused" /\ stamped = "unused"
pUnused == policy = "unused" /\ lines = "unused" /\ heap = "unused" /\ stack = "unused"

Init ==
  \/ part = "ulid"      /\ U!Init  /\ eUnused /\ kUnused /\ iUnused /\ pUnused
  \/ part = "encodings" /\ uUnused /\ E!Init  /\ kUnused /\ iUnused /\ pUnused
  \/ part = "ksuid"     /\ uUnused /\ eUnused /\ K!Init  /\ iUnused /\ pUnused
  \/ part = "uuid"      /\ uUnused /\ eUnused /\ kUnused /\ I!Init  /\ pUnused
  \/ part = "policy"    /\ uUnused /\ eUnused /\ kUnused /\ iUnused /\ P!Init

Next ==
  \/ part = "ulid"      /\ U!Next /\ UNCHANGED << part, eVars, kVars, iVars, pVars >>
  \/ part = "encodings" /\ E!Next /\ UNCHANGED << part, uVars, kVars, iVars, pVars >>
  \/ part = "ksuid"     /\ K!Next /\ UNCHANGED << part, uVars, eVars, iVars, pVars >>
  \/ part = "uuid"      /\ I!Next /\ UNCHANGED << part, uVars, eVars, kVars, pVars >>
  \/ part = "policy"    /\ P!Next /\ UNCHANGED << part, uVars, eVars, kVars, iVars >>

Spec == Init /\ [][Next]_vars

-----------------------------------------------------------------------------
(* Properties: those of the modules, each of its own part.                 *)

\* A ULID survives its text and its text's decoder, in either case
\* (crockford.rs).
RoundTrip == part = "ulid" => U!RoundTrip

\* The fast path of compare agrees with the native comparison
\* (src/ulid.ts:129-134).
CompareMatchesNative == part = "ulid" => U!CompareMatchesNative

\* A validated sort agrees with the native sort, ties included
\* (src/ulid.ts:192-203).
SortMatchesNative == part = "ulid" => U!SortMatchesNative

\* Encoded bytes are decoded again by the same codec, and no two accepted
\* texts stand for the same bytes (base64url.rs:61-62, base58.rs,
\* sortable.rs).
OneText == part = "encodings" => E!Decodable /\ E!OneText

\* The KSUID decoder accepts the texts of 160-bit numbers and no others, and
\* gives back those numbers (ksuid.rs:396-425).
DecodesExactly == part = "ksuid" => K!DecodesExactly

\* A KSUID reads back the second of the clock or the argument it was made
\* with (ksuid.rs:381-394).
TimeReadsBack == part = "ksuid" => K!TimeReadsBack

\* Sortable texts and KSUID texts are ordered as what they stand for
\* (sortable.rs:54-56, ksuid.rs:10-12).
OrderKept ==
  /\ part = "encodings" => E!SortableOrder
  /\ part = "ksuid" => K!TextOrder

\* Conversions between UUID, ULID and bytes keep the bits and the time
\* (convert.rs:5-9, src/uuidv7.ts).
SameBits == part = "uuid" => I!SameBits

\* A policy file is read as the policy it states (cli/check.mjs:51-101).
ReadsBack == part = "policy" => P!ReadsBack

=============================================================================
