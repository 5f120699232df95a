---------------------------- MODULE ReadBack_MC ----------------------------
(***************************************************************************)
(* An instance of ReadBack for TLC, with small constants: an alphabet of   *)
(* three for ULIDs, bytes of four bits and characters of three for the     *)
(* encodings, three limbs of two bits in base three for KSUIDs, ten        *)
(* hexadecimal characters in base four (two of them letters) for UUIDs,    *)
(* policies whose entries have at most one key.                            *)
(***************************************************************************)
EXTENDS ReadBack, Policies

UpTo(S, n) == UNION { [1 .. k -> S] : k \in 0 .. n }

(* ULIDs: two characters over three digits, two of them letters.  Arrays   *)
(* of up to two strings of any kind, and of three strings among which      *)
(* values tie in different case and values do not fit.                     *)

AllStrings  == [1 .. 2 -> 0 .. 5] \cup { << >>, << 0 >>, << 0, 1, 1 >> }
SortStrings == { << a, b >> : a \in {0, 1, 3, 4}, b \in {1, 2, 3} }
SomeArrays  == UpTo(AllStrings, 2) \cup [1 .. 3 -> SortStrings]

(* Encodings: payloads of up to three bytes, texts of up to four           *)
(* characters, the padding (8) and junk (9) included.                      *)

SomeBytes   == UpTo({0, 1, 9, 15}, 3)
SomeEncoded == UpTo({0, 1, 6, 8, 9}, 4)

(* KSUIDs: every text of the right length with at most one bad character,  *)
(* two texts of wrong lengths, and clocks before, in and after the era.    *)

SomePayloads == [1 .. 2 -> {0, 3}]
SomeTexts    == [1 .. 4 -> 0 .. 2] \cup { << >>, << 1, 1 >> }
                  \cup { [[k \in 1 .. 4 |-> 2] EXCEPT ![i] = 3] : i \in 1 .. 4 }

(* UUIDs of five bytes, the first two of them the time, the version in the *)
(* third and the variant in the fourth: small, large and mixed letters,    *)
(* hyphens that are missing or elsewhere, junk; and UUIDv7s of the first,  *)
(* the last and some other times.                                          *)

SomeUuids ==
  { time \o rest : time \in { << 1, 3, 6, 2, 0, 4, 5 >>, << 6, 2 >> },
                  rest \in { << 2, 3, 6, 2, 0, 4, 5, 1, 1 >>, << 6, 2, 3, 6, 1, 1, 1, 0 >> } }
    \cup { << a, b, c, d, 6, x, 1, 6, 2, 3, 4, 5 >> :
              a \in {0, 3}, b \in {0, 5}, c \in {1, 2, 6}, d \in {2, 4}, x \in {0, 2, 7} }

SomeRandoms == [1 .. 5 -> {0, 9, 15}]

=============================================================================
