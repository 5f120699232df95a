------------------------------ MODULE UlidText ------------------------------
(***************************************************************************)
(* Comparing, sorting and decoding ULID strings: the fast paths of         *)
(* src/ulid.ts beside the Rust implementation they bypass (src/lib.rs,     *)
(* crates/core/src/ulid.rs).  An application holds an array of any strings *)
(* and calls the functions on it.                                          *)
(***************************************************************************)
EXTENDS Crockford

CONSTANT Arrays   \* Arrays of strings an application may hold.

UlidTextAssumption == CrockfordAssumption /\ Arrays \subseteq Seq(Seq(Chars))

VARIABLES
  arr,         \* The application's array.
  call,        \* What was called last, and with which arguments.
  before,      \* History: the array when it was called.
  result       \* What it returned, or the error it threw.

vars == << arr, call, before, result >>

Init ==
  /\ arr \in Arrays
  /\ call = [op |-> "none"]
  /\ before = arr
  /\ result = Ok(<< >>)

\* JavaScript's `<` on strings: the first different character decides.
TextLess(a, b) ==
  \/ \E i \in 1 .. Len(a) :
       /\ i <= Len(b) /\ a[i] < b[i]
       /\ \A j \in 1 .. i - 1 : a[j] = b[j]
  \/ Len(a) < Len(b) /\ \A j \in 1 .. Len(a) : a[j] = b[j]

\* Array.prototype.sort: stable.
StableSort(s, less(_, _)) ==
  LET ahead(i) == { j \in 1 .. Len(s) : less(s[j], s[i])
                      \/ (~less(s[i], s[j]) /\ j < i) }
      rank(i)  == Cardinality(ahead(i)) + 1
  IN  [k \in 1 .. Len(s) |-> s[CHOOSE i \in 1 .. Len(s) : rank(i) = k]]

-----------------------------------------------------------------------------
(* The native functions.                                                   *)

nativeCompare(a, b) == compare(a, b)

\* sort of src/lib.rs: decodes everything first, then sorts by value.
nativeSort(ids) ==
  IF \E i \in 1 .. Len(ids) : ~decode_chars(ids[i]).ok
    THEN Err("Error")
    ELSE Ok(StableSort(ids, LAMBDA a, b : Spelled(a) < Spelled(b)))

\* decode_many: nothing is returned unless everything decodes.
decodeMany(ids) ==
  IF \E i \in 1 .. Len(ids) : ~decode_chars(ids[i]).ok
    THEN Err("Error")
    ELSE Ok([i \in 1 .. Len(ids) |-> decode_chars(ids[i]).value])

-----------------------------------------------------------------------------
(* src/ulid.ts                                                             *)

Canonical(text) == Len(text) = LENGTH /\ \A i \in 1 .. LENGTH : IsUpper(text[i])

\* Mutant: only one operand has to be canonical for the fast path.
compareTs_OneCanonical(a, b) ==
  IF a = b THEN Ok(0)
  ELSE IF Canonical(a) \/ Canonical(b) THEN Ok(IF TextLess(a, b) THEN -1 ELSE 1)
  ELSE nativeCompare(a, b)

compareTs(a, b) ==
  IF a = b THEN Ok(0)
  ELSE IF Canonical(a) /\ Canonical(b) THEN Ok(IF TextLess(a, b) THEN -1 ELSE 1)
  ELSE nativeCompare(a, b)

HasLower(text) == \E i \in 1 .. Len(text) : IsLower(text[i])

\* Mutant: the flag is overwritten by each element.
MixedCase_LastOnly(ids) == ids # << >> /\ HasLower(ids[Len(ids)])

\* validateAndDetectCase, when nothing throws.
MixedCase(ids) == \E i \in 1 .. Len(ids) : HasLower(ids[i])

\* The native comparison throws on a value above 128 bits; a sort of two or
\* more elements compares every one of them at least once.
ComparesBadly(ids) == Len(ids) >= 2 /\ \E i \in 1 .. Len(ids) : ~decode_chars(ids[i]).ok

Lexicographic(ids) == StableSort(ids, TextLess)

ulidSort(ids, validate) ==
  IF validate /\ \E i \in 1 .. Len(ids) : ~is_valid(ids[i]) THEN Err("TypeError")
  ELSE IF validate /\ MixedCase(ids)
    THEN IF ComparesBadly(ids) THEN Err("Error")
         ELSE Ok(StableSort(ids, LAMBDA a, b : Spelled(a) < Spelled(b)))
  ELSE Ok(Lexicographic(ids))

-----------------------------------------------------------------------------
(* The calls.                                                              *)

Called(c, r) ==
  /\ call' = c
  /\ before' = arr
  /\ result' = r

\* sortInPlace: a sort that throws has not written anything yet.
SortInPlace(validate) ==
  LET r == ulidSort(arr, validate)
  IN  /\ Called([op |-> "sortInPlace", validate |-> validate], r)
      /\ arr' = IF r.ok THEN r.value ELSE arr

\* sort works on a copy.
Sort(validate) ==
  /\ Called([op |-> "sort", validate |-> validate], ulidSort(arr, validate))
  /\ UNCHANGED arr

Compare(i, j) ==
  /\ Called([op |-> "compare", a |-> arr[i], b |-> arr[j]], compareTs(arr[i], arr[j]))
  /\ UNCHANGED arr

DecodeMany ==
  /\ Called([op |-> "decodeMany"], decodeMany(arr))
  /\ UNCHANGED arr

Next ==
  \/ \E v \in BOOLEAN : SortInPlace(v) \/ Sort(v)
  \/ \E i, j \in 1 .. Len(arr) : Compare(i, j)
  \/ DecodeMany

Spec == Init /\ [][Next]_vars

-----------------------------------------------------------------------------
(* Properties.                                                             *)

Sorts(validate) ==
  call.op \in {"sort", "sortInPlace"} /\ call.validate = validate

UpperCase(text) ==
  [k \in 1 .. Len(text) |-> CHOOSE u \in Chars :
     IF IsLower(text[k]) THEN IsUpper(u) /\ u - LETTER = text[k] - BASE ELSE u = text[k]]

\* Decoding undoes encoding, and encoding gives back the canonical form of
\* whatever was decoded, for every value and every accepted spelling; the
\* time decoded from the first characters is the time in the value
\* (crockford.rs, encode_value, decode_chars and decode_time_bytes).
RoundTrip ==
  /\ \A v \in Values : decode_chars(encode_value(v)) = Ok(v)
  /\ \A i \in 1 .. Len(arr) : LET d == decode_chars(arr[i]) IN
       d.ok => /\ encode_value(d.value) = UpperCase(arr[i])
               /\ decode_time(arr[i]) = Ok(d.value \div Weight[LENGTH - TIME_LEN])
  /\ \A ms \in 0 .. TIME_MAX : decode_time_bytes(encode_time(ms).value) = Ok(ms)

\* Whenever the native comparison has an answer the fast path has the same
\* (src/ulid.ts:129-134).
CompareMatchesNative ==
  call.op = "compare" /\ nativeCompare(call.a, call.b).ok
    => result = nativeCompare(call.a, call.b)

\* A validated sort returns what the native sort returns, element for
\* element, equal values in different case included, whenever the native
\* sort accepts the array (src/ulid.ts:192-203 and src/lib.rs:360-371).
SortMatchesNative ==
  Sorts(TRUE) /\ nativeSort(before).ok => result = nativeSort(before)

=============================================================================
