--------------------------- MODULE ReadBack_proofs ---------------------------
(***************************************************************************)
(* What rivid writes it reads back: ULIDs, KSUIDs and sortable texts, for  *)
(* every alphabet, radix and width.  The other codecs and the policy       *)
(* parser are left to TLC.                                                 *)
(***************************************************************************)
EXTENDS ReadBack, FiniteSetTheorems, WellFoundedInduction, TLAPS

-----------------------------------------------------------------------------
(* Folds over a sequence.  FoldLeft recurs over the set of positions, from *)
(* the last one down, so a fold has the value of a recursive function that *)
(* must first be shown to exist.                                           *)

(* What 0 has, and each number has if the one before it does, all have.    *)
LEMMA Induction ==
  ASSUME NEW n \in Nat, NEW S, 0 \in S, \A k \in 1 .. n : k - 1 \in S => k \in S
  PROVE  \A k \in 0 .. n : k \in S
<1> SUFFICES ASSUME NEW m \in (0 .. n) \ S PROVE FALSE
  OBVIOUS
<1> DEFINE Out == (0 .. n) \ S
<1>1. PICK k \in Out : \A j \in Out : ~(j < k)
  <2>1. Out \subseteq Nat /\ Out # {}
    OBVIOUS
  <2>2. \E x \in Out : \A y \in Out : ~(<< y, x >> \in OpToRel(<, Nat))
    BY <2>1, NatLessThanWellFounded, WFMin
  <2> QED
    BY <2>1, <2>2 DEF OpToRel
<1>2. k \in 1 .. n /\ k - 1 \in 0 .. n
  BY <1>1
<1> QED
  BY <1>1, <1>2

Top(s) == CHOOSE x \in s : \A y \in s : x >= y

LEMMA TopIsIn ==
  ASSUME NEW n \in Nat, NEW s \in SUBSET (1 .. n), s # {}
  PROVE  Top(s) \in s /\ \A y \in s : Top(s) >= y
<1> DEFINE S == { k \in 0 .. n : \A t \in SUBSET (1 .. k) : t # {} => \E x \in t : \A y \in t : x >= y }
<1>1. 0 \in S
  <2>1. \A t \in SUBSET (1 .. 0) : t = {}
    OBVIOUS
  <2>2. \A t \in SUBSET (1 .. 0) : t # {} => \E x \in t : \A y \in t : x >= y
    BY <2>1
  <2>3. 0 \in 0 .. n
    OBVIOUS
  <2> QED
    BY <2>2, <2>3
<1>2. ASSUME NEW k \in 1 .. n, k - 1 \in S PROVE k \in S
  <2> SUFFICES ASSUME NEW t \in SUBSET (1 .. k), t # {} PROVE \E x \in t : \A y \in t : x >= y
    OBVIOUS
  <2>1. CASE k \in t
    BY <2>1
  <2>2. CASE k \notin t
    <3>1. t \in SUBSET (1 .. k - 1)
      BY <2>2
    <3> QED
      BY <1>2, <3>1
  <2> QED
    BY <2>1, <2>2
<1> HIDE DEF S
<1>3. \A k \in 0 .. n : k \in S
  BY <1>1, <1>2, Induction
<1>4. \E x \in s : \A y \in s : x >= y
  BY <1>3 DEF S
<1> QED
  BY <1>4 DEF Top

LEMMA TopOfRange ==
  ASSUME NEW k \in Nat \ {0} PROVE Top(1 .. k) = k /\ (1 .. k) \ {k} = 1 .. k - 1
  BY DEF Top

\* The step of a fold over 1 .. n, with values in D.
IsStep(op, n, D) == op \in [1 .. n -> [D -> D]]

IsFold(iter, n, D, b, op) ==
  /\ iter \in [SUBSET (1 .. n) -> D]
  /\ \A s \in SUBSET (1 .. n) :
       iter[s] = IF s = {} THEN b ELSE op[Top(s)][iter[s \ {Top(s)}]]

(* A fold over the positions of a sequence has a value for each set of     *)
(* them.                                                                   *)
LEMMA FoldExists ==
  ASSUME NEW n \in Nat, NEW D, NEW b \in D, NEW op, IsStep(op, n, D)
  PROVE  \E iter : IsFold(iter, n, D, b, op)
<1> USE DEF IsStep
<1> DEFINE Folds(iter, k) == \A s \in SUBSET (1 .. k) :
             iter[s] = IF s = {} THEN b ELSE op[Top(s)][iter[s \ {Top(s)}]]
           S == { k \in 0 .. n : \E iter \in [SUBSET (1 .. k) -> D] : Folds(iter, k) }
<1>1. 0 \in S
  <2> DEFINE iter == [s \in SUBSET (1 .. 0) |-> b]
  <2>1. iter \in [SUBSET (1 .. 0) -> D]
    OBVIOUS
  <2>2. ASSUME NEW s \in SUBSET (1 .. 0) PROVE s = {} /\ iter[s] = b
    OBVIOUS
  <2> HIDE DEF iter
  <2>3. Folds(iter, 0)
    BY <2>2
  <2>4. \E f \in [SUBSET (1 .. 0) -> D] : Folds(f, 0)
    <3> HIDE DEF Folds
    <3> QED
      BY <2>1, <2>3
  <2>5. 0 \in 0 .. n
    OBVIOUS
  <2> HIDE DEF Folds
  <2> QED
    BY <2>4, <2>5
<1>2. ASSUME NEW k \in 1 .. n, k - 1 \in S PROVE k \in S
  <2>1. PICK old \in [SUBSET (1 .. k - 1) -> D] : Folds(old, k - 1)
    BY <1>2
  <2> DEFINE iter == [s \in SUBSET (1 .. k) |-> IF k \in s THEN op[k][old[s \ {k}]] ELSE old[s]]
  <2>2. ASSUME NEW s \in SUBSET (1 .. k)
        PROVE  iter[s] \in D /\ iter[s] = IF s = {} THEN b ELSE op[Top(s)][iter[s \ {Top(s)}]]
    <3>1. CASE k \in s
      <4>1. s \ {k} \in SUBSET (1 .. k - 1) /\ s \ {k} \in SUBSET (1 .. k)
        OBVIOUS
      <4>2. Top(s) = k
        <5>1. k \in Nat /\ s # {}
          BY <3>1
        <5>2. Top(s) \in s /\ Top(s) >= k
          BY <3>1, <5>1, TopIsIn
        <5>3. PICK x \in s : x = Top(s) /\ x >= k
          BY <5>2
        <5>4. x = k
          BY <5>3
        <5> QED
          BY <5>3, <5>4
      <4>3. old[s \ {k}] \in D /\ iter[s \ {k}] = old[s \ {k}] /\ iter[s] = op[k][old[s \ {k}]]
        BY <3>1, <4>1
      <4> HIDE DEF iter
      <4> QED
        BY <3>1, <4>2, <4>3
    <3>2. CASE k \notin s
      <4>1. s \in SUBSET (1 .. k - 1)
        BY <3>2
      <4>2. iter[s] = old[s] /\ old[s] \in D
        BY <3>2, <4>1
      <4>3. s # {} => /\ Top(s) \in s /\ s \ {Top(s)} \in SUBSET (1 .. k - 1)
                      /\ s \ {Top(s)} \in SUBSET (1 .. k) /\ k \notin s \ {Top(s)}
        <5>1. k \in Nat
          OBVIOUS
        <5>2. s # {} => Top(s) \in s
          BY <5>1, TopIsIn
        <5> HIDE DEF iter
        <5> QED
          BY <3>2, <4>1, <5>2
      <4>4. s # {} => iter[s \ {Top(s)}] = old[s \ {Top(s)}]
        BY <4>3
      <4>5. old[s] = IF s = {} THEN b ELSE op[Top(s)][old[s \ {Top(s)}]]
        BY <2>1, <4>1
      <4> HIDE DEF iter
      <4> QED
        BY <4>2, <4>4, <4>5
    <3> QED
      BY <3>1, <3>2
  <2>3. iter \in [SUBSET (1 .. k) -> D]
    BY <2>2
  <2>4. Folds(iter, k)
    BY <2>2
  <2>5. \E f \in [SUBSET (1 .. k) -> D] : Folds(f, k)
    <3> HIDE DEF iter, Folds
    <3> QED
      BY <2>3, <2>4
  <2> HIDE DEF Folds
  <2> QED
    BY <2>5
<1> HIDE DEF S
<1>3. \A k \in 0 .. n : k \in S
  BY <1>1, <1>2, Induction
<1>4. \E iter \in [SUBSET (1 .. n) -> D] : Folds(iter, n)
  <2>1. n \in 0 .. n
    OBVIOUS
  <2> QED
    BY <1>3, <2>1 DEF S
<1> QED
  BY <1>4 DEF IsFold

-----------------------------------------------------------------------------
(* Numbers and their digits, most significant first, in base b.            *)

\* The digits d, one by one, as FoldLeft takes them.
Spells(it, d, b) ==
  it = [s \in SUBSET (1 .. Len(d)) |-> IF s = {} THEN 0 ELSE it[s \ {Top(s)}] * b + d[Top(s)]]

\* The number of the first k digits is val[k].
Value(val, d, b) ==
  /\ val \in [0 .. Len(d) -> Nat]
  /\ val[0] = 0
  /\ \A k \in 1 .. Len(d) : val[k] = val[k - 1] * b + d[k]

LEMMA SpellsExists ==
  ASSUME NEW b \in Nat, NEW d \in Seq(Nat)
  PROVE  \E it : Spells(it, d, b)
<1> DEFINE n  == Len(d)
           op == [i \in 1 .. n |-> [v \in Nat |-> v * b + d[i]]]
<1>1. n \in Nat /\ 0 \in Nat
  OBVIOUS
<1>2. ASSUME NEW i \in 1 .. n, NEW v \in Nat PROVE v * b + d[i] \in Nat
  OBVIOUS
<1>3. ASSUME NEW i \in 1 .. n, NEW v \in Nat PROVE op[i][v] = v * b + d[i]
  OBVIOUS
<1>4. op \in [1 .. n -> [Nat -> Nat]]
  BY <1>2
<1> HIDE DEF op, n
<1>5. PICK it : IsFold(it, n, Nat, 0, op)
  BY <1>1, <1>4, FoldExists DEF IsStep
<1>6. ASSUME NEW t \in SUBSET (1 .. n)
      PROVE  it[t] = IF t = {} THEN 0 ELSE it[t \ {Top(t)}] * b + d[Top(t)]
  <2>1. CASE t = {}
    BY <1>5, <2>1 DEF IsFold
  <2>2. CASE t # {}
    <3>1. PICK i \in 1 .. n : i = Top(t)
      BY <1>1, <2>2, TopIsIn
    <3>2. PICK v \in Nat : v = it[t \ {i}]
      BY <1>5 DEF IsFold
    <3>3. it[t] = op[i][v]
      BY <1>5, <2>2, <3>1, <3>2 DEF IsFold
    <3> QED
      BY <1>3, <2>2, <3>1, <3>2, <3>3
  <2> QED
    BY <2>1, <2>2
<1>7. it = [t \in SUBSET (1 .. n) |-> IF t = {} THEN 0 ELSE it[t \ {Top(t)}] * b + d[Top(t)]]
  BY <1>5, <1>6 DEF IsFold
<1> QED
  BY <1>7 DEF Spells, n

LEMMA SpellsValue ==
  ASSUME NEW b \in Nat, NEW d \in Seq(Nat), NEW it, Spells(it, d, b)
  PROVE  \E val : Value(val, d, b) /\ val[Len(d)] = it[1 .. Len(d)]
<1> DEFINE n == Len(d)
           val == [k \in 0 .. n |-> it[1 .. k]]
           S == { k \in 0 .. n : it[1 .. k] \in Nat }
<1>1. n \in Nat
  OBVIOUS
<1>2. it[1 .. 0] = 0
  <2>1. 1 .. 0 = {} /\ {} \in SUBSET (1 .. n)
    OBVIOUS
  <2> QED
    BY <2>1 DEF Spells
<1>3. ASSUME NEW k \in 1 .. n PROVE it[1 .. k] = it[1 .. k - 1] * b + d[k]
  <2>1. 1 .. k \in SUBSET (1 .. n) /\ 1 .. k # {}
    <3>1. \A x \in 1 .. k : x \in 1 .. n
      BY <1>1
    <3>2. k \in 1 .. k
      BY <1>1
    <3> QED
      BY <3>1, <3>2
  <2>2. Top(1 .. k) = k /\ (1 .. k) \ {k} = 1 .. k - 1
    <3>1. k \in Nat \ {0}
      BY <1>1
    <3> QED
      BY <3>1, TopOfRange
  <2> QED
    BY <2>1, <2>2 DEF Spells
<1>4. 0 \in S
  BY <1>1, <1>2
<1>5. ASSUME NEW k \in 1 .. n, k - 1 \in S PROVE k \in S
  <2>1. PICK v \in Nat, x \in Nat : v = it[1 .. k - 1] /\ x = d[k]
    BY <1>5
  <2>2. v * b + x \in Nat
    OBVIOUS
  <2>3. it[1 .. k] \in Nat
    BY <1>3, <2>1, <2>2
  <2> QED
    BY <1>1, <2>3
<1> HIDE DEF S
<1>6. \A k \in 0 .. n : k \in S
  BY <1>1, <1>4, <1>5, Induction
<1>7. \A k \in 0 .. n : it[1 .. k] \in Nat
  BY <1>6 DEF S
<1>8. /\ val \in [0 .. n -> Nat] /\ val[0] = 0 /\ val[n] = it[1 .. n]
      /\ \A k \in 1 .. n : val[k] = val[k - 1] * b + d[k]
  <2>1. \A k \in 0 .. n : val[k] = it[1 .. k]
    OBVIOUS
  <2>2. val \in [0 .. n -> Nat]
    BY <1>7
  <2>3. 0 \in 0 .. n /\ n \in 0 .. n /\ \A k \in 1 .. n : k \in 0 .. n /\ k - 1 \in 0 .. n
    BY <1>1
  <2> HIDE DEF val, n
  <2> QED
    BY <1>2, <1>3, <2>1, <2>2, <2>3
<1> HIDE DEF val
<1> QED
  BY <1>8 DEF Value

\* Rows of n cells do not overlap: a cell of an earlier row comes first.
LEMMA RowOrder ==
  ASSUME NEW n \in Nat, NEW x \in Nat, NEW y \in Nat, x < y,
         NEW r \in 0 .. n - 1, NEW s \in Nat
  PROVE  x * n + r < y * n + s
<1>1. PICK k \in Nat : y = x + 1 + k
  <2>1. y - x - 1 \in Nat /\ y = x + 1 + (y - x - 1)
    OBVIOUS
  <2> QED
    BY <2>1
<1>2. y * n = x * n + n + k * n
  BY <1>1
<1>3. k * n \in Nat /\ x * n \in Nat /\ r \in Nat /\ r < n
  OBVIOUS
<1>4. PICK p \in Nat, q \in Nat, m \in Nat : p = x * n /\ q = k * n /\ m = y * n
  BY <1>3
<1>5. m = p + n + q
  BY <1>2, <1>4
<1> QED
  BY <1>3, <1>4, <1>5

\* The same first digits make the same number.
LEMMA ValuePrefix ==
  ASSUME NEW b \in Nat, NEW d \in Seq(Nat), NEW e \in Seq(Nat),
         NEW v, Value(v, d, b), NEW w, Value(w, e, b),
         NEW m \in 0 .. Len(d), m <= Len(e), \A j \in 1 .. m : d[j] = e[j]
  PROVE  v[m] = w[m]
<1> DEFINE S == { k \in 0 .. m : v[k] = w[k] }
<1>1. m \in Nat
  OBVIOUS
<1>2. 0 \in S
  BY <1>1 DEF Value
<1>3. ASSUME NEW k \in 1 .. m, k - 1 \in S PROVE k \in S
  <2>1. v[k - 1] = w[k - 1] /\ d[k] = e[k] /\ k \in 1 .. Len(d) /\ k \in 1 .. Len(e)
    BY <1>3
  <2>2. v[k] = w[k]
    BY <2>1 DEF Value
  <2> QED
    BY <2>2
<1> HIDE DEF S
<1>4. \A k \in 0 .. m : k \in S
  BY <1>1, <1>2, <1>3, Induction
<1>5. m \in 0 .. m
  BY <1>1
<1> QED
  BY <1>4, <1>5 DEF S

LEMMA ValueBefore ==
  ASSUME NEW b \in Nat, NEW d \in Seq(Nat), NEW e \in Seq(Nat), Len(d) = Len(e),
         NEW v, Value(v, d, b), NEW w, Value(w, e, b),
         NEW i \in 1 .. Len(d), \A j \in 1 .. i - 1 : d[j] = e[j]
  PROVE  v[i - 1] = w[i - 1]
<1>1. PICK m \in 0 .. Len(d) : m = i - 1
  <2>1. i - 1 \in 0 .. Len(d)
    OBVIOUS
  <2> QED
    BY <2>1
<1>2. m <= Len(e) /\ \A j \in 1 .. m : d[j] = e[j]
  BY <1>1
<1>3. v[m] = w[m]
  BY ONLY <1>2, b \in Nat, d \in Seq(Nat), e \in Seq(Nat), m \in 0 .. Len(d),
          Value(v, d, b), Value(w, e, b), ValuePrefix
<1> QED
  BY <1>1, <1>3

\* The first different digit decides the order of two numbers.
LEMMA ValueOrder ==
  ASSUME NEW b \in Nat, NEW d \in Seq(Nat), NEW e \in Seq(Nat), Len(d) = Len(e),
         \A k \in 1 .. Len(d) : d[k] < b /\ e[k] < b,
         NEW v, Value(v, d, b), NEW w, Value(w, e, b),
         NEW i \in 1 .. Len(d), d[i] < e[i], \A j \in 1 .. i - 1 : d[j] = e[j]
  PROVE  v[Len(d)] < w[Len(d)]
<1> DEFINE n == Len(d)
           S == { k \in 0 .. n : k >= i => v[k] < w[k] }
<1>1. n \in Nat /\ n = Len(e)
  OBVIOUS
<1>2. \A k \in 0 .. n : v[k] \in Nat /\ w[k] \in Nat
  BY <1>1 DEF Value
<1>3. v[i - 1] = w[i - 1]
  BY ValueBefore
<1>4. ASSUME NEW k \in 1 .. n
      PROVE  /\ v[k] = v[k - 1] * b + d[k] /\ w[k] = w[k - 1] * b + e[k]
             /\ v[k - 1] \in Nat /\ w[k - 1] \in Nat
             /\ d[k] \in 0 .. b - 1 /\ e[k] \in 0 .. b - 1
  <2>1. k - 1 \in 0 .. n /\ k \in 1 .. Len(d) /\ k \in 1 .. Len(e)
    BY <1>1
  <2>2. v[k] = v[k - 1] * b + d[k] /\ w[k] = w[k - 1] * b + e[k]
    BY <2>1 DEF Value
  <2>3. d[k] \in Nat /\ e[k] \in Nat /\ d[k] < b /\ e[k] < b
    BY <2>1
  <2>4. d[k] \in 0 .. b - 1 /\ e[k] \in 0 .. b - 1
    BY ONLY <2>3, b \in Nat
  <2> QED
    BY <1>2, <2>1, <2>2, <2>4
<1>5. 0 \in S
  BY <1>1
<1>6. ASSUME NEW k \in 1 .. n, k - 1 \in S PROVE k \in S
  <2> HIDE DEF n
  <2>1. CASE k < i
    BY <1>1, <2>1
  <2>2. CASE k = i
    <3>1. PICK x \in Nat, p \in 0 .. b - 1, q \in 0 .. b - 1 : x = v[k - 1] /\ p = d[k] /\ q = e[k]
      BY <1>4
    <3>2. v[k] = x * b + p /\ w[k] = x * b + q /\ p < q
      BY <1>3, <1>4, <2>2, <3>1
    <3>3. PICK y \in Nat : y = x * b
      OBVIOUS
    <3>4. v[k] < w[k]
      BY <3>2, <3>3
    <3> QED
      BY <1>1, <3>4
  <2>3. CASE k > i
    <3>1. v[k - 1] < w[k - 1]
      BY <1>1, <1>6, <2>3
    <3>2. v[k] < w[k]
      <4>1. PICK x \in Nat, y \in Nat, p \in 0 .. b - 1, q \in 0 .. b - 1 :
              x = v[k - 1] /\ y = w[k - 1] /\ p = d[k] /\ q = e[k]
        BY <1>4
      <4>2. v[k] = x * b + p /\ w[k] = y * b + q /\ x < y
        BY <1>4, <3>1, <4>1
      <4>3. q \in Nat
        OBVIOUS
      <4> QED
        BY <4>2, <4>3, RowOrder
    <3> QED
      BY <1>1, <3>2
  <2> QED
    BY <1>1, <2>1, <2>2, <2>3
<1> HIDE DEF S, n
<1>7. \A k \in 0 .. n : k \in S
  BY <1>1, <1>5, <1>6, Induction
<1>8. n \in 0 .. n /\ n >= i
  BY <1>1 DEF n
<1>9. v[n] < w[n]
  BY <1>7, <1>8 DEF S
<1> QED
  BY <1>9 DEF n

-----------------------------------------------------------------------------
(* ULID texts: comparing and sorting.                                      *)

\* The digits of a text.
Ranks(t) == [k \in 1 .. Len(t) |-> U!DECODE(t[k])]

InAlphabet(t) == \A k \in 1 .. Len(t) : U!is_alphabet_char(t[k])

LEMMA UlidConstants ==
  /\ u_BASE \in Nat /\ u_BASE > 1
  /\ u_LETTER \in 1 .. u_BASE /\ u_LENGTH \in Nat /\ u_TIME_LEN \in 1 .. u_LENGTH
  /\ u_LEAD_MAX \in 0 .. u_BASE - 1
  /\ Arrays \subseteq Seq(Seq(U!Chars))
  /\ U!Junk \in Nat /\ U!Chars \subseteq Nat
<1>1. /\ u_BASE \in Nat \ {0, 1} /\ u_LETTER \in 1 .. u_BASE /\ u_TIME_LEN \in 1 .. u_LENGTH
      /\ u_LENGTH \in Nat /\ u_LEAD_MAX \in 0 .. u_BASE - 1 /\ Arrays \subseteq Seq(Seq(U!Chars))
  BY ReadBackAssumption DEF U!UlidTextAssumption, U!CrockfordAssumption
<1>2. U!Junk \in Nat /\ U!Chars \subseteq Nat
  BY <1>1 DEF U!Junk, U!Chars
<1> QED
  BY <1>1, <1>2

LEMMA CharIsNumber ==
  ASSUME NEW t \in Seq(U!Chars), NEW k \in 1 .. Len(t) PROVE t[k] \in Nat
<1>1. t[k] \in U!Chars
  OBVIOUS
<1> QED
  BY <1>1, UlidConstants

\* The value of a character, in either case.
LEMMA DecodeRange ==
  ASSUME NEW c \in U!Chars
  PROVE  /\ U!is_alphabet_char(c) => U!DECODE(c) \in 0 .. u_BASE - 1
         /\ U!IsUpper(c) => U!is_alphabet_char(c) /\ U!DECODE(c) = c
         /\ U!is_alphabet_char(c) => U!IsUpper(c) \/ U!IsLower(c)
<1>1. c \in Nat /\ c <= 2 * u_BASE - u_LETTER /\ u_BASE \in Nat /\ u_LETTER \in 1 .. u_BASE
  BY UlidConstants DEF U!Chars, U!Junk
<1>2. CASE c < u_BASE
  BY <1>1, <1>2 DEF U!DECODE, U!is_alphabet_char, U!IsUpper, U!IsLower, U!INVALID
<1>3. CASE u_BASE <= c /\ c < 2 * u_BASE - u_LETTER
  BY <1>1, <1>3 DEF U!DECODE, U!is_alphabet_char, U!IsUpper, U!IsLower, U!INVALID, U!Junk
<1>4. CASE c = 2 * u_BASE - u_LETTER
  BY <1>1, <1>4 DEF U!DECODE, U!is_alphabet_char, U!IsUpper, U!IsLower, U!INVALID, U!Junk
<1> QED
  BY <1>1, <1>2, <1>3, <1>4

LEMMA RanksType ==
  ASSUME NEW t \in Seq(U!Chars), InAlphabet(t)
  PROVE  /\ Ranks(t) \in Seq(Nat) /\ Len(Ranks(t)) = Len(t)
         /\ \A k \in 1 .. Len(t) : Ranks(t)[k] = U!DECODE(t[k]) /\ Ranks(t)[k] < u_BASE
<1>1. ASSUME NEW k \in 1 .. Len(t) PROVE U!DECODE(t[k]) \in Nat /\ U!DECODE(t[k]) < u_BASE
  <2>1. PICK c \in U!Chars : c = t[k] /\ U!is_alphabet_char(c)
    BY DEF InAlphabet
  <2>2. U!DECODE(c) \in 0 .. u_BASE - 1 /\ u_BASE \in Nat
    BY <2>1, DecodeRange, UlidConstants
  <2>3. U!DECODE(c) \in Nat /\ U!DECODE(c) < u_BASE
    BY <2>2
  <2> QED
    BY <2>1, <2>3
<1>2. Ranks(t) \in [1 .. Len(t) -> Nat] /\ Len(t) \in Nat
  BY <1>1 DEF Ranks
<1>3. Ranks(t) \in Seq(Nat) /\ Len(Ranks(t)) = Len(t)
  BY <1>2
<1> QED
  BY <1>1, <1>3 DEF Ranks

\* Spelled is the number of the digits.
LEMMA SpelledIsValue ==
  ASSUME NEW t \in Seq(U!Chars), InAlphabet(t)
  PROVE  \E val : Value(val, Ranks(t), u_BASE) /\ U!Spelled(t) = val[Len(t)]
<1> DEFINE Eq(it) == it = [s \in SUBSET (DOMAIN t) |->
                           IF s = {} THEN 0
                           ELSE it[s \ {U!Max(s)}] * u_BASE + U!DECODE(t[U!Max(s)])]
           H == CHOOSE it : Eq(it)
<1>1. U!Spelled(t) = H[DOMAIN t]
  BY DEF U!Spelled, U!FoldLeft, U!MapThenFoldSet
<1>2. DOMAIN t = 1 .. Len(t) /\ Len(t) \in Nat /\ u_BASE \in Nat
  BY UlidConstants
<1>3. Ranks(t) \in Seq(Nat) /\ Len(Ranks(t)) = Len(t)
  BY RanksType
<1>4. ASSUME NEW it PROVE Eq(it) <=> Spells(it, Ranks(t), u_BASE)
  <2>1. \A s : U!Max(s) = Top(s)
    BY DEF U!Max, Top
  <2>2. ASSUME NEW s \in SUBSET (1 .. Len(t)), s # {}
        PROVE  Ranks(t)[Top(s)] = U!DECODE(t[Top(s)])
    <3>1. Top(s) \in 1 .. Len(t)
      BY <1>2, <2>2, TopIsIn
    <3> QED
      BY <3>1, RanksType
  <2> QED
    BY <1>2, <1>3, <2>1, <2>2 DEF Spells
<1>5. \E it : Eq(it)
  <2>1. \E it : Spells(it, Ranks(t), u_BASE)
    BY <1>2, <1>3, SpellsExists
  <2> HIDE DEF Eq
  <2> QED
    BY <1>4, <2>1
<1>6. Spells(H, Ranks(t), u_BASE)
  <2> HIDE DEF Eq
  <2>1. Eq(H)
    BY <1>5
  <2> QED
    BY <1>4, <2>1
<1> HIDE DEF H
<1> QED
  BY <1>1, <1>2, <1>3, <1>6, SpellsValue

\* Different numbers of one length have a first different digit.
LEMMA FirstDifferentDigit ==
  ASSUME NEW d \in Seq(Nat), NEW e \in Seq(Nat), Len(d) = Len(e), d # e
  PROVE  \E i \in 1 .. Len(d) : d[i] # e[i] /\ \A j \in 1 .. i - 1 : d[j] = e[j]
<1> DEFINE n == Len(d)
           S == { k \in 0 .. n : \A j \in 1 .. k : d[j] = e[j] }
<1>1. n \in Nat
  OBVIOUS
<1> SUFFICES ASSUME \A i \in 1 .. n : (\A j \in 1 .. i - 1 : d[j] = e[j]) => d[i] = e[i]
             PROVE  FALSE
  OBVIOUS
<1>2. 0 \in S
  BY <1>1
<1>3. ASSUME NEW k \in 1 .. n, k - 1 \in S PROVE k \in S
  <2>1. \A j \in 1 .. k - 1 : d[j] = e[j]
    BY <1>3
  <2>2. d[k] = e[k]
    BY <2>1
  <2>3. \A j \in 1 .. k : j \in 1 .. k - 1 \/ j = k
    BY <1>1
  <2>4. \A j \in 1 .. k : d[j] = e[j]
    BY <2>1, <2>2, <2>3
  <2> QED
    BY <1>1, <2>4
<1> HIDE DEF S
<1>4. \A k \in 0 .. n : k \in S
  BY <1>1, <1>2, <1>3, Induction
<1>5. \A j \in 1 .. n : d[j] = e[j]
  BY <1>1, <1>4 DEF S
<1> QED
  BY <1>5

\* So have different texts of one length.
LEMMA FirstDifference ==
  ASSUME NEW d \in Seq(U!Chars), NEW e \in Seq(U!Chars), Len(d) = Len(e), d # e
  PROVE  \E i \in 1 .. Len(d) : d[i] # e[i] /\ \A j \in 1 .. i - 1 : d[j] = e[j]
<1>1. ASSUME NEW s \in Seq(U!Chars) PROVE s \in Seq(Nat)
  <2> DEFINE C == U!Chars
  <2>1. C \subseteq Nat
    BY UlidConstants
  <2> HIDE DEF C
  <2>2. PICK f \in Seq(C) : f = s
    BY DEF C
  <2>3. \A k \in 1 .. Len(f) : f[k] \in C
    OBVIOUS
  <2>4. PICK n \in Nat : n = Len(f) /\ f \in [1 .. n -> C]
    OBVIOUS
  <2>5. f \in [1 .. n -> Nat]
    BY <2>1, <2>3, <2>4
  <2>6. f \in Seq(Nat)
    BY <2>5
  <2> QED
    BY <2>2, <2>6
<1>2. d \in Seq(Nat) /\ e \in Seq(Nat)
  BY <1>1
<1> QED
  BY <1>2, FirstDifferentDigit

\* Texts of one length in upper case are ordered as their numbers.
LEMMA UpperOrder ==
  ASSUME NEW t \in Seq(U!Chars), NEW s \in Seq(U!Chars), Len(t) = Len(s),
         \A k \in 1 .. Len(t) : U!IsUpper(t[k]) /\ U!IsUpper(s[k]), U!TextLess(t, s)
  PROVE  U!Spelled(t) < U!Spelled(s)
<1>1. Len(t) \in Nat /\ u_BASE \in Nat
  BY UlidConstants
<1>2. InAlphabet(t) /\ InAlphabet(s)
  BY DecodeRange DEF InAlphabet
<1>3. \A k \in 1 .. Len(t) : Ranks(t)[k] = t[k] /\ Ranks(s)[k] = s[k]
  BY DecodeRange DEF Ranks
<1>4. PICK i \in 1 .. Len(t) : t[i] < s[i] /\ \A j \in 1 .. i - 1 : t[j] = s[j]
  BY <1>1 DEF U!TextLess
<1>5. Ranks(t)[i] < Ranks(s)[i] /\ \A j \in 1 .. i - 1 : Ranks(t)[j] = Ranks(s)[j]
  <2>1. \A j \in 1 .. i - 1 : j \in 1 .. Len(t)
    BY <1>1
  <2> QED
    BY <1>3, <1>4, <2>1
<1>6. PICK v : Value(v, Ranks(t), u_BASE) /\ U!Spelled(t) = v[Len(t)]
  BY <1>2, SpelledIsValue
<1>7. PICK w : Value(w, Ranks(s), u_BASE) /\ U!Spelled(s) = w[Len(s)]
  BY <1>2, SpelledIsValue
<1>8. PICK d \in Seq(Nat), e \in Seq(Nat) : d = Ranks(t) /\ e = Ranks(s)
  BY <1>2, RanksType
<1>9. Len(d) = Len(t) /\ Len(e) = Len(t) /\ \A k \in 1 .. Len(d) : d[k] < u_BASE /\ e[k] < u_BASE
  BY <1>2, <1>8, RanksType
<1>10. i \in 1 .. Len(d) /\ d[i] < e[i] /\ \A j \in 1 .. i - 1 : d[j] = e[j]
  BY <1>5, <1>8, <1>9
<1>11. Value(v, d, u_BASE) /\ Value(w, e, u_BASE)
  BY <1>6, <1>7, <1>8
<1>12. v[Len(d)] < w[Len(d)]
  BY <1>1, <1>9, <1>10, <1>11, ValueOrder
<1> QED
  BY <1>6, <1>7, <1>9, <1>12

LEMMA SpelledIsNumber ==
  ASSUME NEW t \in Seq(U!Chars), InAlphabet(t) PROVE U!Spelled(t) \in Nat
<1>1. PICK v : Value(v, Ranks(t), u_BASE) /\ U!Spelled(t) = v[Len(t)]
  BY SpelledIsValue
<1>2. Len(Ranks(t)) = Len(t) /\ Len(t) \in Nat
  BY RanksType
<1> QED
  BY <1>1, <1>2 DEF Value

LEMMA UpperOrderExact ==
  ASSUME NEW t \in Seq(U!Chars), NEW s \in Seq(U!Chars), Len(t) = Len(s),
         \A k \in 1 .. Len(t) : U!IsUpper(t[k]) /\ U!IsUpper(s[k])
  PROVE  /\ U!TextLess(t, s) <=> U!Spelled(t) < U!Spelled(s)
         /\ t = s <=> U!Spelled(t) = U!Spelled(s)
<1>1. U!Spelled(t) \in Nat /\ U!Spelled(s) \in Nat
  <2>1. InAlphabet(t) /\ InAlphabet(s)
    BY DecodeRange DEF InAlphabet
  <2> QED
    BY <2>1, SpelledIsNumber
<1>2. U!TextLess(t, s) => U!Spelled(t) < U!Spelled(s)
  BY UpperOrder
<1>3. U!TextLess(s, t) => U!Spelled(s) < U!Spelled(t)
  BY UpperOrder
<1>4. t = s \/ U!TextLess(t, s) \/ U!TextLess(s, t)
  <2> SUFFICES ASSUME t # s PROVE U!TextLess(t, s) \/ U!TextLess(s, t)
    OBVIOUS
  <2>1. PICK i \in 1 .. Len(t) : t[i] # s[i] /\ \A j \in 1 .. i - 1 : t[j] = s[j]
    BY FirstDifference
  <2>2. i \in 1 .. Len(s) /\ i <= Len(s) /\ i <= Len(t)
    OBVIOUS
  <2>4. t[i] \in Nat /\ s[i] \in Nat
    BY <2>2, CharIsNumber
  <2>5. t[i] < s[i] \/ s[i] < t[i]
    BY <2>1, <2>4
  <2> QED
    BY <2>1, <2>2, <2>5 DEF U!TextLess
<1> QED
  BY <1>1, <1>2, <1>3, <1>4

\* The fast path of compare answers what the native comparison answers.
LEMMA CompareAgrees ==
  ASSUME NEW t \in Seq(U!Chars), NEW s \in Seq(U!Chars), U!nativeCompare(t, s).ok
  PROVE  U!compareTs(t, s) = U!nativeCompare(t, s)
<1>1. U!decode_chars(t).ok /\ U!decode_chars(s).ok
  BY DEF U!nativeCompare, U!compare, U!Ok
<1>2. U!decode_chars(t) = U!Ok(U!Spelled(t)) /\ U!decode_chars(s) = U!Ok(U!Spelled(s))
  BY <1>1 DEF U!decode_chars, U!Err
<1>3. U!nativeCompare(t, s) = U!Ok(U!Sign(U!Spelled(t), U!Spelled(s)))
  BY <1>1, <1>2 DEF U!nativeCompare, U!compare, U!Ok
<1>4. InAlphabet(t) /\ InAlphabet(s) /\ Len(t) = u_LENGTH /\ Len(s) = u_LENGTH
  BY <1>1 DEF U!decode_chars, U!Err, InAlphabet
<1>5. U!Spelled(t) \in Nat /\ U!Spelled(s) \in Nat
  BY <1>4, SpelledIsNumber
<1>6. CASE t = s
  BY <1>3, <1>5, <1>6 DEF U!compareTs, U!Sign
<1>7. CASE t # s /\ U!Canonical(t) /\ U!Canonical(s)
  <2>1. /\ U!TextLess(t, s) <=> U!Spelled(t) < U!Spelled(s)
        /\ t = s <=> U!Spelled(t) = U!Spelled(s)
    BY <1>4, <1>7, UpperOrderExact DEF U!Canonical
  <2>2. U!Sign(U!Spelled(t), U!Spelled(s)) = IF U!TextLess(t, s) THEN -1 ELSE 1
    BY <1>5, <1>7, <2>1 DEF U!Sign
  <2> QED
    BY <1>3, <1>7, <2>2 DEF U!compareTs
<1>8. CASE t # s /\ ~(U!Canonical(t) /\ U!Canonical(s))
  BY <1>8 DEF U!compareTs
<1> QED
  BY <1>6, <1>7, <1>8

\* The order of JavaScript's strings is total.
LEMMA TextLessTotal ==
  ASSUME NEW t \in Seq(U!Chars), NEW s \in Seq(U!Chars)
  PROVE  t = s \/ U!TextLess(t, s) \/ U!TextLess(s, t)
<1> DEFINE n == IF Len(t) < Len(s) THEN Len(t) ELSE Len(s)
           d == [k \in 1 .. n |-> t[k]]
           e == [k \in 1 .. n |-> s[k]]
<1>1. n \in Nat /\ Len(t) \in Nat /\ Len(s) \in Nat /\ n <= Len(t) /\ n <= Len(s)
      /\ (n = Len(t) \/ n = Len(s))
  OBVIOUS
<1> HIDE DEF n
<1>2. \A k \in 1 .. n : k \in 1 .. Len(t) /\ k \in 1 .. Len(s)
  BY <1>1
<1>3. d \in [1 .. n -> U!Chars] /\ e \in [1 .. n -> U!Chars]
  BY <1>2
<1>4. d \in Seq(U!Chars) /\ e \in Seq(U!Chars) /\ Len(d) = n /\ Len(e) = n
  BY <1>1, <1>3
<1>5. \A k \in 1 .. n : d[k] = t[k] /\ e[k] = s[k]
  OBVIOUS
<1> HIDE DEF d, e
<1>6. CASE d = e
  <2>1. \A k \in 1 .. n : t[k] = s[k]
    BY <1>5, <1>6
  <2>2. CASE Len(t) < Len(s)
    BY <1>1, <2>1, <2>2 DEF U!TextLess
  <2>3. CASE Len(s) < Len(t)
    BY <1>1, <2>1, <2>3 DEF U!TextLess
  <2>4. CASE Len(s) = Len(t)
    <3>1. \A k \in 1 .. Len(t) : t[k] = s[k]
      BY <1>1, <2>1, <2>4
    <3> QED
      BY <2>4, <3>1
  <2> QED
    BY <1>1, <2>2, <2>3, <2>4
<1>7. CASE d # e
  <2>1. PICK i \in 1 .. n : d[i] # e[i] /\ \A j \in 1 .. i - 1 : d[j] = e[j]
    <3>1. Len(d) = Len(e)
      BY <1>4
    <3>2. \E i \in 1 .. Len(d) : d[i] # e[i] /\ \A j \in 1 .. i - 1 : d[j] = e[j]
      BY <1>4, <1>7, <3>1, FirstDifference
    <3> QED
      BY <1>4, <3>2
  <2>2. i \in 1 .. Len(t) /\ i \in 1 .. Len(s) /\ i <= Len(s) /\ i <= Len(t)
    BY <1>1
  <2>3. \A j \in 1 .. i - 1 : j \in 1 .. n
    BY <1>1
  <2>4. t[i] # s[i] /\ \A j \in 1 .. i - 1 : t[j] = s[j]
    BY <1>5, <2>1, <2>3
  <2>5. t[i] \in Nat /\ s[i] \in Nat
    BY <2>2, CharIsNumber
  <2>6. t[i] < s[i] \/ s[i] < t[i]
    BY <2>4, <2>5
  <2> QED
    BY <2>2, <2>4, <2>6 DEF U!TextLess
<1> QED
  BY <1>6, <1>7

LEMMA TextLessTransitive ==
  ASSUME NEW x \in Seq(U!Chars), NEW y \in Seq(U!Chars), NEW z \in Seq(U!Chars),
         U!TextLess(x, y), U!TextLess(y, z)
  PROVE  U!TextLess(x, z)
<1>1. Len(x) \in Nat /\ Len(y) \in Nat /\ Len(z) \in Nat
  OBVIOUS
<1>2. /\ \A k \in 1 .. Len(x) : x[k] \in Nat
      /\ \A k \in 1 .. Len(y) : y[k] \in Nat
      /\ \A k \in 1 .. Len(z) : z[k] \in Nat
  BY CharIsNumber
<1>3. ASSUME NEW i \in 1 .. Len(x), i <= Len(y), x[i] < y[i], \A j \in 1 .. i - 1 : x[j] = y[j],
             NEW k \in 1 .. Len(y), k <= Len(z), y[k] < z[k], \A j \in 1 .. k - 1 : y[j] = z[j]
      PROVE  U!TextLess(x, z)
  <2>1. CASE i < k
    <3>1. y[i] = z[i] /\ i <= Len(z) /\ \A j \in 1 .. i - 1 : j \in 1 .. k - 1
      BY <1>1, <1>3, <2>1
    <3>2. x[i] < z[i] /\ \A j \in 1 .. i - 1 : x[j] = z[j]
      BY <1>3, <3>1
    <3> QED
      BY <3>1, <3>2 DEF U!TextLess
  <2>2. CASE i = k
    <3>1. x[i] \in Nat /\ y[i] \in Nat /\ z[i] \in Nat
      BY <1>1, <1>2, <1>3, <2>2
    <3>2. x[i] < z[i] /\ \A j \in 1 .. i - 1 : x[j] = z[j]
      BY <1>3, <2>2, <3>1
    <3> QED
      BY <1>3, <2>2, <3>2 DEF U!TextLess
  <2>3. CASE k < i
    <3>1. x[k] = y[k] /\ k \in 1 .. Len(x) /\ \A j \in 1 .. k - 1 : j \in 1 .. i - 1
      BY <1>1, <1>3, <2>3
    <3>2. x[k] < z[k] /\ \A j \in 1 .. k - 1 : x[j] = z[j]
      BY <1>3, <3>1
    <3> QED
      BY <1>3, <3>1, <3>2 DEF U!TextLess
  <2> QED
    BY <2>1, <2>2, <2>3
<1>4. ASSUME NEW i \in 1 .. Len(x), i <= Len(y), x[i] < y[i], \A j \in 1 .. i - 1 : x[j] = y[j],
             Len(y) < Len(z), \A j \in 1 .. Len(y) : y[j] = z[j]
      PROVE  U!TextLess(x, z)
  <2>1. i <= Len(z) /\ y[i] = z[i] /\ \A j \in 1 .. i - 1 : j \in 1 .. Len(y)
    BY <1>1, <1>4
  <2>2. x[i] < z[i] /\ \A j \in 1 .. i - 1 : x[j] = z[j]
    BY <1>4, <2>1
  <2> QED
    BY <2>1, <2>2 DEF U!TextLess
<1>5. ASSUME Len(x) < Len(y), \A j \in 1 .. Len(x) : x[j] = y[j],
             NEW k \in 1 .. Len(y), k <= Len(z), y[k] < z[k], \A j \in 1 .. k - 1 : y[j] = z[j]
      PROVE  U!TextLess(x, z)
  <2>1. CASE k <= Len(x)
    <3>1. k \in 1 .. Len(x) /\ x[k] = y[k] /\ \A j \in 1 .. k - 1 : j \in 1 .. Len(x)
      BY <1>1, <1>5, <2>1
    <3>2. x[k] < z[k] /\ \A j \in 1 .. k - 1 : x[j] = z[j]
      BY <1>5, <3>1
    <3> QED
      BY <1>5, <3>1, <3>2 DEF U!TextLess
  <2>2. CASE k > Len(x)
    <3>1. Len(x) < Len(z) /\ \A j \in 1 .. Len(x) : j \in 1 .. k - 1
      BY <1>1, <1>5, <2>2
    <3>2. \A j \in 1 .. Len(x) : x[j] = z[j]
      BY <1>5, <3>1
    <3> QED
      BY <3>1, <3>2 DEF U!TextLess
  <2> QED
    BY <1>1, <2>1, <2>2
<1>6. ASSUME Len(x) < Len(y), \A j \in 1 .. Len(x) : x[j] = y[j],
             Len(y) < Len(z), \A j \in 1 .. Len(y) : y[j] = z[j]
      PROVE  U!TextLess(x, z)
  <2>1. Len(x) < Len(z) /\ \A j \in 1 .. Len(x) : j \in 1 .. Len(y)
    BY <1>1, <1>6
  <2>2. \A j \in 1 .. Len(x) : x[j] = z[j]
    BY <1>6, <2>1
  <2> QED
    BY <2>1, <2>2 DEF U!TextLess
<1> QED
  BY <1>3, <1>4, <1>5, <1>6 DEF U!TextLess

LEMMA TextLessStrict ==
  ASSUME NEW t \in Seq(U!Chars) PROVE ~U!TextLess(t, t)
<1>1. \A k \in 1 .. Len(t) : t[k] \in Nat
  BY CharIsNumber
<1>2. Len(t) \in Nat
  OBVIOUS
<1> QED
  BY <1>1, <1>2 DEF U!TextLess

\* Each instance has this operator of its own.
LEMMA SameCardinality == ASSUME NEW S PROVE U!Cardinality(S) = Cardinality(S)
  BY DEF U!Cardinality, Cardinality

\* A strict total order of the positions 1 .. n, as a set of pairs.
Orders(B, n) ==
  /\ \A i \in 1 .. n : << i, i >> \notin B
  /\ \A i, j \in 1 .. n : i = j \/ << i, j >> \in B \/ << j, i >> \in B
  /\ \A i, j, k \in 1 .. n : << i, j >> \in B /\ << j, k >> \in B => << i, k >> \in B

\* The positions that go before position i.
Ahead(B, n, i) == { j \in 1 .. n : << j, i >> \in B }

\* Each place of an order is taken by exactly one position.
LEMMA EveryRank ==
  ASSUME NEW n \in Nat, NEW B, Orders(B, n), NEW k \in 1 .. n
  PROVE  \E i \in 1 .. n :
           /\ Cardinality(Ahead(B, n, i)) + 1 = k
           /\ \A h \in 1 .. n : Cardinality(Ahead(B, n, h)) + 1 = k => h = i
<1> DEFINE S     == 1 .. n
           ahead(i) == { j \in S : << j, i >> \in B }
           rank  == [i \in S |-> Cardinality(ahead(i)) + 1]
<1>1. IsFiniteSet(S) /\ Cardinality(S) = n
  BY FS_Interval
<1>2. ASSUME NEW i \in S
      PROVE  /\ IsFiniteSet(ahead(i)) /\ Cardinality(ahead(i)) \in Nat
             /\ Cardinality(ahead(i)) + 1 \in S
  <2>1. ahead(i) \in SUBSET S /\ i \in S /\ i \notin ahead(i)
    BY DEF Orders
  <2> HIDE DEF ahead, S
  <2>2. IsFiniteSet(ahead(i)) /\ Cardinality(ahead(i)) <= n /\ Cardinality(ahead(i)) # n
    <3>1. /\ IsFiniteSet(ahead(i)) /\ Cardinality(ahead(i)) <= Cardinality(S)
          /\ Cardinality(S) = Cardinality(ahead(i)) => S = ahead(i)
      BY <1>1, <2>1, FS_Subset
    <3>2. S # ahead(i)
      BY <2>1
    <3> QED
      BY <1>1, <3>1, <3>2
  <2>3. Cardinality(ahead(i)) \in Nat
    BY <2>2, FS_CardinalityType
  <2>4. PICK c \in Nat : c = Cardinality(ahead(i))
    BY <2>3
  <2>5. c + 1 \in S
    BY <2>2, <2>4 DEF S
  <2> QED
    BY <2>2, <2>4, <2>5
<1>3. ASSUME NEW i \in S, NEW j \in S, << i, j >> \in B
      PROVE  Cardinality(ahead(i)) # Cardinality(ahead(j))
  <2>1. ahead(i) \in SUBSET ahead(j)
    BY <1>3 DEF Orders
  <2>2. i \in ahead(j) /\ i \notin ahead(i)
    BY <1>3 DEF Orders
  <2>3. IsFiniteSet(ahead(j))
    BY <1>2
  <2>4. ahead(i) # ahead(j)
    BY <2>2
  <2> HIDE DEF ahead
  <2> QED
    BY <2>1, <2>3, <2>4, FS_Subset
<1>4. \A i \in S : rank[i] = Cardinality(ahead(i)) + 1
  OBVIOUS
<1>5. rank \in [S -> S]
  BY <1>2
<1> HIDE DEF rank, ahead, S
<1>6. rank \in Injection(S, S)
  <2>1. ASSUME NEW i \in S, NEW j \in S, rank[i] = rank[j] PROVE i = j
    <3>1. Cardinality(ahead(i)) = Cardinality(ahead(j))
      <4>1. PICK p \in Nat, q \in Nat : p = Cardinality(ahead(i)) /\ q = Cardinality(ahead(j))
        BY <1>2
      <4>2. p + 1 = q + 1
        BY <1>4, <2>1, <4>1
      <4> QED
        BY <4>1, <4>2
    <3>2. << i, j >> \notin B /\ << j, i >> \notin B
      BY <1>3, <3>1
    <3> QED
      BY <3>2 DEF Orders, S
  <2> QED
    BY <1>5, <2>1 DEF Injection, IsInjective
<1>7. rank \in Surjection(S, S)
  BY <1>1, <1>6, FS_Injection
<1>8. k \in S
  BY DEF S
<1>9. PICK i \in S : rank[i] = k
  BY <1>7, <1>8 DEF Surjection
<1>10. ASSUME NEW h \in S, Cardinality(ahead(h)) + 1 = k PROVE h = i
  BY <1>4, <1>5, <1>6, <1>9, <1>10 DEF Injection, IsInjective
<1>11. Cardinality(ahead(i)) + 1 = k
  BY <1>4, <1>9
<1> QED
  BY <1>10, <1>11 DEF S, ahead, Ahead

\* The positions that go before position i, by text and by number.
LexAhead(ids, i) ==
  { j \in 1 .. Len(ids) : \/ U!TextLess(ids[j], ids[i])
                          \/ ~U!TextLess(ids[i], ids[j]) /\ j < i }

NumAhead(ids, i) ==
  { j \in 1 .. Len(ids) : \/ U!Spelled(ids[j]) < U!Spelled(ids[i])
                          \/ ~(U!Spelled(ids[i]) < U!Spelled(ids[j])) /\ j < i }

Texts == Seq(U!Chars)

LEMMA LexRank ==
  ASSUME NEW ids \in Seq(Texts), NEW k \in 1 .. Len(ids)
  PROVE  \E i \in 1 .. Len(ids) :
           /\ Cardinality(LexAhead(ids, i)) + 1 = k
           /\ \A h \in 1 .. Len(ids) : Cardinality(LexAhead(ids, h)) + 1 = k => h = i
<1> DEFINE n == Len(ids)
           Q == { p \in (1 .. n) \X (1 .. n) :
                    \/ U!TextLess(ids[p[1]], ids[p[2]])
                    \/ ~U!TextLess(ids[p[2]], ids[p[1]]) /\ p[1] < p[2] }
<1>1. n \in Nat /\ \A i \in 1 .. n : ids[i] \in Texts
  OBVIOUS
<1>2. \A i, j \in 1 .. n : << i, j >> \in Q <=>
        \/ U!TextLess(ids[i], ids[j])
        \/ ~U!TextLess(ids[j], ids[i]) /\ i < j
  OBVIOUS
<1>3. \A i \in 1 .. n : LexAhead(ids, i) = Ahead(Q, n, i)
  BY DEF LexAhead, Ahead
<1> HIDE DEF n, Q
<1>4. Orders(Q, n)
  <2>1. \A i \in 1 .. n : << i, i >> \notin Q
    BY <1>1, <1>2, TextLessStrict DEF Texts
  <2>2. \A i, j \in 1 .. n : << i, j >> \in Q <=>
          U!TextLess(ids[i], ids[j]) \/ (ids[i] = ids[j] /\ i < j)
    <3> SUFFICES ASSUME NEW i \in 1 .. n, NEW j \in 1 .. n
                 PROVE  << i, j >> \in Q <=>
                          U!TextLess(ids[i], ids[j]) \/ (ids[i] = ids[j] /\ i < j)
      OBVIOUS
    <3>1. PICK x \in Texts, y \in Texts : x = ids[i] /\ y = ids[j]
      BY <1>1
    <3>2. x = y \/ U!TextLess(x, y) \/ U!TextLess(y, x)
      BY TextLessTotal DEF Texts
    <3>3. U!TextLess(x, y) /\ U!TextLess(y, x) => U!TextLess(x, x)
      BY TextLessTransitive DEF Texts
    <3>4. ~U!TextLess(x, x)
      BY TextLessStrict DEF Texts
    <3> QED
      BY <1>2, <3>1, <3>2, <3>3, <3>4
  <2>3. \A i, j \in 1 .. n : i = j \/ << i, j >> \in Q \/ << j, i >> \in Q
    <3> SUFFICES ASSUME NEW i \in 1 .. n, NEW j \in 1 .. n
                 PROVE  i = j \/ << i, j >> \in Q \/ << j, i >> \in Q
      OBVIOUS
    <3>1. ids[i] = ids[j] \/ U!TextLess(ids[i], ids[j]) \/ U!TextLess(ids[j], ids[i])
      BY <1>1, TextLessTotal DEF Texts
    <3>2. i = j \/ i < j \/ j < i
      BY <1>1
    <3> QED
      BY <2>2, <3>1, <3>2
  <2>4. \A i, j, h \in 1 .. n : << i, j >> \in Q /\ << j, h >> \in Q => << i, h >> \in Q
    <3> SUFFICES ASSUME NEW i \in 1 .. n, NEW j \in 1 .. n, NEW h \in 1 .. n,
                        << i, j >> \in Q, << j, h >> \in Q
                 PROVE  << i, h >> \in Q
      OBVIOUS
    <3>1. U!TextLess(ids[i], ids[j]) /\ U!TextLess(ids[j], ids[h]) => U!TextLess(ids[i], ids[h])
      BY <1>1, TextLessTransitive DEF Texts
    <3>2. i < j /\ j < h => i < h
      BY <1>1
    <3> QED
      BY <2>2, <3>1, <3>2
  <2> QED
    BY <2>1, <2>3, <2>4 DEF Orders
<1>5. \E i \in 1 .. n :
        /\ Cardinality(Ahead(Q, n, i)) + 1 = k
        /\ \A h \in 1 .. n : Cardinality(Ahead(Q, n, h)) + 1 = k => h = i
  <2>1. n \in Nat /\ k \in 1 .. n
    BY <1>1 DEF n
  <2> QED
    BY <1>4, <2>1, EveryRank
<1>6. PICK i \in 1 .. n :
        /\ Cardinality(Ahead(Q, n, i)) + 1 = k
        /\ \A h \in 1 .. n : Cardinality(Ahead(Q, n, h)) + 1 = k => h = i
  BY <1>5
<1>7. /\ Cardinality(LexAhead(ids, i)) + 1 = k
      /\ \A h \in 1 .. n : Cardinality(LexAhead(ids, h)) + 1 = k => h = i
  BY <1>3, <1>6
<1> QED
  BY <1>7 DEF n

\* A sort by text writes texts.
LEMMA LexicographicType ==
  ASSUME NEW ids \in Seq(Texts) PROVE U!Lexicographic(ids) \in Seq(Texts)
<1>1. U!Lexicographic(ids) =
        [k \in 1 .. Len(ids) |->
           ids[CHOOSE i \in 1 .. Len(ids) : U!Cardinality(LexAhead(ids, i)) + 1 = k]]
  BY DEF U!Lexicographic, U!StableSort, LexAhead
<1>2. ASSUME NEW k \in 1 .. Len(ids)
      PROVE  ids[CHOOSE i \in 1 .. Len(ids) : U!Cardinality(LexAhead(ids, i)) + 1 = k] \in Texts
  <2>1. \E i \in 1 .. Len(ids) : U!Cardinality(LexAhead(ids, i)) + 1 = k
    BY LexRank, SameCardinality
  <2>2. (CHOOSE i \in 1 .. Len(ids) : U!Cardinality(LexAhead(ids, i)) + 1 = k) \in 1 .. Len(ids)
    BY <2>1
  <2> QED
    BY <2>2
<1>3. Len(ids) \in Nat
  OBVIOUS
<1> QED
  BY <1>1, <1>2, <1>3

LEMMA NumRank ==
  ASSUME NEW ids \in Seq(Texts), \A i \in 1 .. Len(ids) : InAlphabet(ids[i]), NEW k \in 1 .. Len(ids)
  PROVE  \E i \in 1 .. Len(ids) : Cardinality(NumAhead(ids, i)) + 1 = k
<1> DEFINE n == Len(ids)
           val(i) == U!Spelled(ids[i])
           Q == { p \in (1 .. n) \X (1 .. n) :
                    \/ val(p[1]) < val(p[2])
                    \/ ~(val(p[2]) < val(p[1])) /\ p[1] < p[2] }
<1>1. n \in Nat
  OBVIOUS
<1>2. ASSUME NEW i \in 1 .. n PROVE val(i) \in Nat
  <2>1. ids[i] \in Seq(U!Chars) /\ InAlphabet(ids[i])
    BY DEF Texts
  <2> QED
    BY <2>1, SpelledIsNumber
<1>3. \A i, j \in 1 .. n : << i, j >> \in Q <=>
        \/ val(i) < val(j)
        \/ ~(val(j) < val(i)) /\ i < j
  <2> HIDE DEF val
  <2> QED
    OBVIOUS
<1>4. \A i \in 1 .. n : NumAhead(ids, i) = Ahead(Q, n, i)
  BY DEF NumAhead, Ahead
<1> HIDE DEF n, Q, val
<1>5. Orders(Q, n)
  <2>1. \A i, j \in 1 .. n : i = j \/ << i, j >> \in Q \/ << j, i >> \in Q
    <3> SUFFICES ASSUME NEW i \in 1 .. n, NEW j \in 1 .. n
                 PROVE  i = j \/ << i, j >> \in Q \/ << j, i >> \in Q
      OBVIOUS
    <3>1. PICK x \in Nat, y \in Nat : x = val(i) /\ y = val(j)
      BY <1>2
    <3> QED
      BY <1>1, <1>3, <3>1
  <2>2. \A i, j, h \in 1 .. n : << i, j >> \in Q /\ << j, h >> \in Q => << i, h >> \in Q
    <3> SUFFICES ASSUME NEW i \in 1 .. n, NEW j \in 1 .. n, NEW h \in 1 .. n,
                        << i, j >> \in Q, << j, h >> \in Q
                 PROVE  << i, h >> \in Q
      OBVIOUS
    <3>1. PICK x \in Nat, y \in Nat, z \in Nat : x = val(i) /\ y = val(j) /\ z = val(h)
      BY <1>2
    <3>2. x < y \/ (~(y < x) /\ i < j)
      BY <1>3, <3>1
    <3>3. y < z \/ (~(z < y) /\ j < h)
      BY <1>3, <3>1
    <3>4. x < z \/ (~(z < x) /\ i < h)
      BY <1>1, <3>2, <3>3
    <3> QED
      BY <1>3, <3>1, <3>4
  <2>3. \A i \in 1 .. n : << i, i >> \notin Q
    <3> SUFFICES ASSUME NEW i \in 1 .. n PROVE << i, i >> \notin Q
      OBVIOUS
    <3>1. PICK x \in Nat : x = val(i)
      BY <1>2
    <3> QED
      BY <1>1, <1>3, <3>1
  <2> QED
    BY <2>1, <2>2, <2>3 DEF Orders
<1>6. k \in 1 .. n
  BY DEF n
<1>7. \E i \in 1 .. n : Cardinality(Ahead(Q, n, i)) + 1 = k
  BY <1>1, <1>5, <1>6, EveryRank
<1>8. \E i \in 1 .. n : Cardinality(NumAhead(ids, i)) + 1 = k
  BY <1>4, <1>7
<1> QED
  BY <1>8 DEF n

ByNumber(ids) == U!StableSort(ids, LAMBDA t, s : U!Spelled(t) < U!Spelled(s))

LEMMA ByNumberIs ==
  ASSUME NEW ids
  PROVE  ByNumber(ids) =
           [k \in 1 .. Len(ids) |->
              ids[CHOOSE i \in 1 .. Len(ids) : U!Cardinality(NumAhead(ids, i)) + 1 = k]]
  BY DEF ByNumber, U!StableSort, NumAhead

LEMMA ByNumberType ==
  ASSUME NEW ids \in Seq(Texts), \A i \in 1 .. Len(ids) : InAlphabet(ids[i])
  PROVE  ByNumber(ids) \in Seq(Texts)
<1>1. ASSUME NEW k \in 1 .. Len(ids)
      PROVE  ids[CHOOSE i \in 1 .. Len(ids) : U!Cardinality(NumAhead(ids, i)) + 1 = k] \in Texts
  <2>1. \E i \in 1 .. Len(ids) : U!Cardinality(NumAhead(ids, i)) + 1 = k
    BY NumRank, SameCardinality
  <2>2. (CHOOSE i \in 1 .. Len(ids) : U!Cardinality(NumAhead(ids, i)) + 1 = k) \in 1 .. Len(ids)
    BY <2>1
  <2> QED
    BY <2>2
<1>2. Len(ids) \in Nat
  OBVIOUS
<1> QED
  BY <1>1, <1>2, ByNumberIs

\* Upper-case texts of one length are sorted alike by text and by number.
LEMMA SortsAgree ==
  ASSUME NEW ids \in Seq(Texts), NEW m,
         \A i \in 1 .. Len(ids) : Len(ids[i]) = m /\ \A k \in 1 .. m : U!IsUpper(ids[i][k])
  PROVE  ByNumber(ids) = U!Lexicographic(ids)
<1>1. ASSUME NEW i \in 1 .. Len(ids), NEW j \in 1 .. Len(ids)
      PROVE  U!TextLess(ids[i], ids[j]) <=> U!Spelled(ids[i]) < U!Spelled(ids[j])
  <2>1. PICK t \in Seq(U!Chars), s \in Seq(U!Chars) : t = ids[i] /\ s = ids[j]
    BY DEF Texts
  <2>2. Len(t) = Len(s) /\ \A k \in 1 .. Len(t) : U!IsUpper(t[k]) /\ U!IsUpper(s[k])
    BY <2>1
  <2>3. U!TextLess(t, s) <=> U!Spelled(t) < U!Spelled(s)
    BY <2>2, UpperOrderExact
  <2> QED
    BY <2>1, <2>3
<1>2. \A i \in 1 .. Len(ids) : NumAhead(ids, i) = LexAhead(ids, i)
  BY <1>1 DEF NumAhead, LexAhead
<1>3. U!Lexicographic(ids) =
        [k \in 1 .. Len(ids) |->
           ids[CHOOSE i \in 1 .. Len(ids) : U!Cardinality(LexAhead(ids, i)) + 1 = k]]
  BY DEF U!Lexicographic, U!StableSort, LexAhead
<1>4. ASSUME NEW k \in 1 .. Len(ids)
      PROVE  (CHOOSE i \in 1 .. Len(ids) : U!Cardinality(NumAhead(ids, i)) + 1 = k)
               = (CHOOSE i \in 1 .. Len(ids) : U!Cardinality(LexAhead(ids, i)) + 1 = k)
  <2>1. PICK i \in 1 .. Len(ids) :
          /\ Cardinality(LexAhead(ids, i)) + 1 = k
          /\ \A h \in 1 .. Len(ids) : Cardinality(LexAhead(ids, h)) + 1 = k => h = i
    BY LexRank
  <2>2. (CHOOSE h \in 1 .. Len(ids) : U!Cardinality(LexAhead(ids, h)) + 1 = k) = i
    BY <2>1, SameCardinality
  <2>3. (CHOOSE h \in 1 .. Len(ids) : U!Cardinality(NumAhead(ids, h)) + 1 = k) = i
    <3>1. /\ U!Cardinality(NumAhead(ids, i)) + 1 = k
          /\ \A h \in 1 .. Len(ids) : U!Cardinality(NumAhead(ids, h)) + 1 = k => h = i
      BY <1>2, <2>1, SameCardinality
    <3> QED
      BY <3>1
  <2> QED
    BY <2>2, <2>3
<1> QED
  BY <1>3, <1>4, ByNumberIs

\* Whatever is sorted, the array holds texts afterwards.
LEMMA UlidSortType ==
  ASSUME NEW ids \in Seq(Texts), NEW validate \in BOOLEAN, U!ulidSort(ids, validate).ok
  PROVE  U!ulidSort(ids, validate).value \in Seq(Texts)
<1>1. CASE validate /\ \E i \in 1 .. Len(ids) : ~U!is_valid(ids[i])
  BY <1>1 DEF U!ulidSort, U!Err
<1>2. CASE validate /\ (\A i \in 1 .. Len(ids) : U!is_valid(ids[i])) /\ U!MixedCase(ids)
  <2>1. ~U!ComparesBadly(ids)
    BY <1>2 DEF U!ulidSort, U!Err
  <2>2. U!ulidSort(ids, validate) = U!Ok(ByNumber(ids))
    BY <1>2, <2>1 DEF U!ulidSort, ByNumber
  <2>3. \A i \in 1 .. Len(ids) : InAlphabet(ids[i])
    BY <1>2 DEF U!is_valid, InAlphabet
  <2> QED
    BY <2>2, <2>3, ByNumberType DEF U!Ok
<1>3. CASE ~validate \/ ((\A i \in 1 .. Len(ids) : U!is_valid(ids[i])) /\ ~U!MixedCase(ids))
  <2>1. U!ulidSort(ids, validate) = U!Ok(U!Lexicographic(ids))
    BY <1>3 DEF U!ulidSort
  <2> QED
    BY <2>1, LexicographicType DEF U!Ok
<1> QED
  BY <1>1, <1>2, <1>3

\* A validated sort returns what the native sort returns.
LEMMA SortAgrees ==
  ASSUME NEW ids \in Seq(Texts), U!nativeSort(ids).ok
  PROVE  U!ulidSort(ids, TRUE) = U!nativeSort(ids)
<1>1. \A i \in 1 .. Len(ids) : U!decode_chars(ids[i]).ok
  BY DEF U!nativeSort, U!Err
<1>2. U!nativeSort(ids) = U!Ok(ByNumber(ids))
  BY <1>1 DEF U!nativeSort, ByNumber
<1>3. \A i \in 1 .. Len(ids) : U!is_valid(ids[i])
  BY <1>1 DEF U!decode_chars, U!Err, U!is_valid
<1>4. CASE U!MixedCase(ids)
  <2>1. ~U!ComparesBadly(ids)
    BY <1>1 DEF U!ComparesBadly
  <2> QED
    BY <1>2, <1>3, <1>4, <2>1 DEF U!ulidSort, ByNumber
<1>5. CASE ~U!MixedCase(ids)
  <2>1. ASSUME NEW i \in 1 .. Len(ids)
        PROVE  Len(ids[i]) = u_LENGTH /\ \A k \in 1 .. u_LENGTH : U!IsUpper(ids[i][k])
    <3>1. PICK t \in Seq(U!Chars) : t = ids[i]
      BY DEF Texts
    <3>2. Len(t) = u_LENGTH /\ (\A k \in 1 .. u_LENGTH : U!is_alphabet_char(t[k])) /\ ~U!HasLower(t)
      BY <1>3, <1>5, <3>1 DEF U!is_valid, U!MixedCase
    <3>3. ASSUME NEW k \in 1 .. u_LENGTH PROVE U!IsUpper(t[k])
      <4>1. t[k] \in U!Chars /\ U!is_alphabet_char(t[k]) /\ ~U!IsLower(t[k])
        BY <3>2 DEF U!HasLower
      <4> QED
        BY <4>1, DecodeRange
    <3> QED
      BY <3>1, <3>2, <3>3
  <2>2. ByNumber(ids) = U!Lexicographic(ids)
    BY <2>1, SortsAgree
  <2>3. U!ulidSort(ids, TRUE) = U!Ok(U!Lexicographic(ids))
    BY <1>3, <1>5 DEF U!ulidSort
  <2> QED
    BY <1>2, <2>2, <2>3
<1> QED
  BY <1>4, <1>5

\* The array holds texts, and the last answer is what the function returns.
UlidInv ==
  /\ arr \in Seq(Texts) /\ before \in Seq(Texts)
  /\ u_call.op = "compare" =>
       /\ u_call.a \in Texts /\ u_call.b \in Texts
       /\ u_result = U!compareTs(u_call.a, u_call.b)
  /\ u_call.op \in {"sort", "sortInPlace"} => u_result = U!ulidSort(before, u_call.validate)

LEMMA UlidInit == Init /\ part = "ulid" => UlidInv
<1> SUFFICES ASSUME U!Init PROVE UlidInv
  BY DEF Init
<1>1. arr \in Seq(Texts) /\ before = arr /\ u_call = [op |-> "none"]
  BY UlidConstants DEF U!Init, Texts
<1>2. u_call.op = "none"
  BY <1>1
<1> QED
  BY <1>1, <1>2 DEF UlidInv

LEMMA UlidNext ==
  ASSUME UlidInv, part = "ulid", [Next]_vars
  PROVE  UlidInv'
<1>1. CASE UNCHANGED vars
  BY <1>1 DEF UlidInv, vars, uVars
<1>2. ASSUME NEW v \in BOOLEAN, U!SortInPlace(v) PROVE UlidInv'
  <2>1. /\ u_call' = [op |-> "sortInPlace", validate |-> v]
        /\ before' = arr /\ u_result' = U!ulidSort(arr, v)
        /\ arr' = IF U!ulidSort(arr, v).ok THEN U!ulidSort(arr, v).value ELSE arr
    BY <1>2 DEF U!SortInPlace, U!Called
  <2>2. u_call'.op = "sortInPlace" /\ u_call'.validate = v
    BY <2>1
  <2>3. arr' \in Seq(Texts)
    BY <2>1, UlidSortType DEF UlidInv
  <2> QED
    BY <2>1, <2>2, <2>3 DEF UlidInv
<1>3. ASSUME NEW v \in BOOLEAN, U!Sort(v) PROVE UlidInv'
  <2>1. /\ u_call' = [op |-> "sort", validate |-> v]
        /\ before' = arr /\ u_result' = U!ulidSort(arr, v) /\ arr' = arr
    BY <1>3 DEF U!Sort, U!Called
  <2>2. u_call'.op = "sort" /\ u_call'.validate = v
    BY <2>1
  <2> QED
    BY <2>1, <2>2 DEF UlidInv
<1>4. ASSUME NEW i \in 1 .. Len(arr), NEW j \in 1 .. Len(arr), U!Compare(i, j) PROVE UlidInv'
  <2>1. /\ u_call' = [op |-> "compare", a |-> arr[i], b |-> arr[j]]
        /\ before' = arr /\ u_result' = U!compareTs(arr[i], arr[j]) /\ arr' = arr
    BY <1>4 DEF U!Compare, U!Called
  <2>2. u_call'.op = "compare" /\ u_call'.a = arr[i] /\ u_call'.b = arr[j]
    BY <2>1
  <2>3. arr[i] \in Texts /\ arr[j] \in Texts
    BY DEF UlidInv
  <2> QED
    BY <2>1, <2>2, <2>3 DEF UlidInv
<1>5. ASSUME U!DecodeMany PROVE UlidInv'
  <2>1. u_call' = [op |-> "decodeMany"] /\ before' = arr /\ arr' = arr
    BY <1>5 DEF U!DecodeMany, U!Called
  <2>2. u_call'.op = "decodeMany"
    BY <2>1
  <2> QED
    BY <2>1, <2>2 DEF UlidInv
<1>6. Next => U!Next
  BY DEF Next
<1> QED
  BY <1>1, <1>2, <1>3, <1>4, <1>5, <1>6 DEF U!Next

LEMMA UlidAlways == Spec => [](part = "ulid" => UlidInv)
<1>1. Init => (part = "ulid" => UlidInv)
  BY UlidInit
<1>2. (part = "ulid" => UlidInv) /\ [Next]_vars => (part = "ulid" => UlidInv)'
  <2> SUFFICES ASSUME part = "ulid" => UlidInv, [Next]_vars, part' = "ulid" PROVE UlidInv'
    OBVIOUS
  <2>1. part' = part
    BY DEF Next, vars
  <2> QED
    BY <2>1, UlidNext
<1> QED
  BY <1>1, <1>2, PTL DEF Spec

\* For every alphabet and every two strings: what the fast path of compare
\* returns is what the native comparison returns, whenever that has an
\* answer (src/ulid.ts:129-134).
THEOREM FastCompareIsNative == Spec => []CompareMatchesNative
<1>1. (part = "ulid" => UlidInv) => CompareMatchesNative
  <2> SUFFICES ASSUME UlidInv, u_call.op = "compare", U!nativeCompare(u_call.a, u_call.b).ok
               PROVE  u_result = U!nativeCompare(u_call.a, u_call.b)
    BY DEF CompareMatchesNative, U!CompareMatchesNative
  <2> QED
    BY CompareAgrees DEF UlidInv, Texts
<1> QED
  BY <1>1, UlidAlways, PTL

\* For every alphabet and every array: a validated sort, by text or by
\* value, returns what the native sort returns, equal values in different
\* case included (src/ulid.ts:192-203).
THEOREM ValidatedSortIsNative == Spec => []SortMatchesNative
<1>1. (part = "ulid" => UlidInv) => SortMatchesNative
  <2> SUFFICES ASSUME UlidInv, u_call.op \in {"sort", "sortInPlace"}, u_call.validate = TRUE,
                      U!nativeSort(before).ok
               PROVE  u_result = U!nativeSort(before)
    BY DEF SortMatchesNative, U!SortMatchesNative, U!Sorts
  <2> QED
    BY SortAgrees DEF UlidInv
<1> QED
  BY <1>1, UlidAlways, PTL

-----------------------------------------------------------------------------
(* ULID texts: encoding and decoding.                                      *)

\* The weights w[0], ..., w[n] of the places of a number in base b.
Weights(w, n, b) ==
  /\ \A k \in 0 .. n : w[k] \in Nat \ {0}
  /\ w[0] = 1
  /\ \A k \in 1 .. n : w[k] = w[k - 1] * b

\* The recursion of Weight and Power,
WeightsEquation(w, n, b) == w = [k \in 0 .. n |-> IF k = 0 THEN 1 ELSE w[k - 1] * b]

\* which has a solution.
LEMMA WeightsExist ==
  ASSUME NEW n \in Nat, NEW b \in Nat \ {0}
  PROVE  \E w \in [0 .. n -> Nat \ {0}] : WeightsEquation(w, n, b)
<1> DEFINE Good(w, m) == w = [k \in 0 .. m |-> IF k = 0 THEN 1 ELSE w[k - 1] * b]
           S == { m \in 0 .. n : \E w \in [0 .. m -> Nat \ {0}] : Good(w, m) }
<1>1. 0 \in S
  <2> DEFINE w == [k \in 0 .. 0 |-> 1]
  <2>1. w \in [0 .. 0 -> Nat \ {0}] /\ Good(w, 0)
    <3>1. \A k \in 0 .. 0 : k = 0
      OBVIOUS
    <3>2. w = [k \in 0 .. 0 |-> IF k = 0 THEN 1 ELSE w[k - 1] * b]
      BY <3>1
    <3> QED
      BY <3>2
  <2> HIDE DEF w, Good
  <2> QED
    BY <2>1
<1>2. ASSUME NEW m \in 1 .. n, m - 1 \in S PROVE m \in S
  <2>1. PICK old \in [0 .. m - 1 -> Nat \ {0}] : Good(old, m - 1)
    BY <1>2
  <2> DEFINE w == [k \in 0 .. m |-> IF k = m THEN old[m - 1] * b ELSE old[k]]
  <2>2. PICK x \in Nat \ {0} : x = old[m - 1]
    <3>1. m - 1 \in 0 .. m - 1
      OBVIOUS
    <3> QED
      BY <3>1
  <2>3. x * b \in Nat \ {0}
    OBVIOUS
  <2>4. ASSUME NEW k \in 0 .. m
        PROVE  w[k] \in Nat \ {0} /\ w[k] = IF k = 0 THEN 1 ELSE w[k - 1] * b
    <3>1. CASE k = m
      <4>1. w[k] = x * b /\ w[k - 1] = x /\ k # 0
        <5>1. k - 1 \in 0 .. m /\ k - 1 # m /\ k - 1 = m - 1
          BY <3>1
        <5> QED
          BY <2>2, <3>1, <5>1
      <4> HIDE DEF w
      <4> QED
        BY <2>3, <4>1
    <3>2. CASE k # m
      <4>1. k \in 0 .. m - 1 /\ w[k] = old[k]
        BY <3>2
      <4>2. k # 0 => k - 1 \in 0 .. m - 1 /\ w[k - 1] = old[k - 1]
        BY <4>1
      <4>3. old[k] = IF k = 0 THEN 1 ELSE old[k - 1] * b
        BY <2>1, <4>1
      <4> HIDE DEF w
      <4> QED
        BY <4>1, <4>2, <4>3
    <3> QED
      BY <3>1, <3>2
  <2>5. w \in [0 .. m -> Nat \ {0}]
    BY <2>4
  <2>6. Good(w, m)
    <3>1. w = [k \in 0 .. m |-> w[k]]
      OBVIOUS
    <3> HIDE DEF w
    <3>2. \A k \in 0 .. m : w[k] = IF k = 0 THEN 1 ELSE w[k - 1] * b
      BY <2>4, Zenon
    <3>3. [k \in 0 .. m |-> w[k]] = [k \in 0 .. m |-> IF k = 0 THEN 1 ELSE w[k - 1] * b]
      BY <3>2, Zenon
    <3> QED
      BY <3>1, <3>3, Zenon
  <2> HIDE DEF w, Good
  <2> QED
    BY <2>5, <2>6
<1> HIDE DEF S
<1>3. \A m \in 0 .. n : m \in S
  BY <1>1, <1>2, Induction
<1>4. n \in 0 .. n
  OBVIOUS
<1>5. PICK w \in [0 .. n -> Nat \ {0}] : Good(w, n)
  BY <1>3, <1>4 DEF S
<1> QED
  BY <1>5 DEF WeightsEquation

\* The equation has no other solution.
LEMMA WeightsOfEquation ==
  ASSUME NEW n \in Nat, NEW b \in Nat \ {0}, NEW w,
         WeightsEquation(w, n, b)
  PROVE  Weights(w, n, b)
<1>1. \A k \in 0 .. n : w[k] = IF k = 0 THEN 1 ELSE w[k - 1] * b
  BY DEF WeightsEquation
<1> DEFINE S == { k \in 0 .. n : w[k] \in Nat \ {0} }
<1>2. 0 \in S
  BY <1>1
<1>3. ASSUME NEW k \in 1 .. n, k - 1 \in S PROVE k \in S
  <2>1. PICK x \in Nat \ {0} : x = w[k - 1]
    BY <1>3
  <2>2. k \in 0 .. n /\ k # 0
    OBVIOUS
  <2>3. w[k] = x * b
    BY <1>1, <2>1, <2>2
  <2>4. x * b \in Nat \ {0}
    OBVIOUS
  <2> QED
    BY <2>2, <2>3, <2>4
<1> HIDE DEF S
<1>4. \A k \in 0 .. n : k \in S
  BY <1>2, <1>3, Induction
<1>5. 0 \in 0 .. n /\ \A k \in 1 .. n : k \in 0 .. n /\ k # 0
  OBVIOUS
<1>6. \A k \in 0 .. n : w[k] \in Nat \ {0}
  BY <1>4 DEF S
<1> QED
  BY <1>1, <1>5, <1>6 DEF Weights

LEMMA WeightIs == Weights(U!Weight, u_LENGTH, u_BASE)
<1> DEFINE W == CHOOSE w : WeightsEquation(w, u_LENGTH, u_BASE)
<1>1. U!Weight = W
  BY DEF U!Weight, WeightsEquation
<1>2. u_LENGTH \in Nat /\ u_BASE \in Nat \ {0}
  BY UlidConstants
<1>3. \E w : WeightsEquation(w, u_LENGTH, u_BASE)
  BY <1>2, WeightsExist
<1>4. WeightsEquation(W, u_LENGTH, u_BASE)
  BY <1>3
<1> HIDE DEF W
<1>5. Weights(W, u_LENGTH, u_BASE)
  BY <1>2, <1>4, WeightsOfEquation
<1> QED
  BY <1>1, <1>5

LEMMA DivMod ==
  ASSUME NEW x \in Nat, NEW m \in Nat \ {0}
  PROVE  x \div m \in Nat /\ x % m \in 0 .. m - 1 /\ x = (x \div m) * m + (x % m)
<1>1. x \div m \in Nat /\ x % m \in 0 .. m - 1
  OBVIOUS
<1>2. x = m * (x \div m) + (x % m)
  OBVIOUS
<1>3. m * (x \div m) = (x \div m) * m
  BY <1>1
<1> QED
  BY <1>1, <1>2, <1>3

LEMMA DivUnique ==
  ASSUME NEW m \in Nat \ {0}, NEW q \in Nat, NEW r \in 0 .. m - 1
  PROVE  (q * m + r) \div m = q /\ (q * m + r) % m = r
  OBVIOUS

\* Dividing twice is dividing by the product.
LEMMA DivDiv ==
  ASSUME NEW x \in Nat, NEW p \in Nat \ {0}, NEW b \in Nat \ {0}
  PROVE  (x \div p) \div b = x \div (p * b)
<1>1. PICK q \in Nat, r \in 0 .. p - 1 : q = x \div p /\ r = x % p /\ x = q * p + r
  BY DivMod
<1>2. PICK u \in Nat, s \in 0 .. b - 1 : u = q \div b /\ s = q % b /\ q = u * b + s
  BY DivMod
<1>3. s \in Nat /\ r \in Nat /\ s < b
  OBVIOUS
<1>4. s * p + r < b * p + 0
  BY <1>3, RowOrder
<1>5. PICK m \in Nat \ {0} : m = p * b /\ m = b * p
  OBVIOUS
<1>6. s * p + r \in 0 .. m - 1
  <2>1. PICK y \in Nat : y = s * p
    BY <1>3
  <2>2. y + r < m
    BY <1>3, <1>4, <1>5, <2>1
  <2> QED
    BY <1>3, <2>1, <2>2
<1>7. x = u * m + (s * p + r)
  <2>1. (u * b + s) * p = (u * b) * p + s * p
    BY <1>3
  <2>2. (u * b) * p = u * (p * b)
    OBVIOUS
  <2>3. x = (u * (p * b) + s * p) + r
    BY <1>1, <1>2, <2>1, <2>2
  <2>4. PICK y \in Nat, z \in Nat : y = u * (p * b) /\ z = s * p
    BY <1>3
  <2>5. x = y + (z + r)
    BY <1>3, <2>3, <2>4
  <2> QED
    BY <1>5, <2>4, <2>5
<1>8. PICK z \in 0 .. m - 1 : z = s * p + r
  BY <1>6
<1>9. x = u * m + z
  BY <1>7, <1>8
<1>10. x \div m = u
  BY <1>9, DivUnique
<1> QED
  BY <1>1, <1>2, <1>5, <1>10

\* The digits of a number spell it.
LEMMA DigitsSpell ==
  ASSUME NEW n \in Nat, NEW b \in Nat \ {0}, NEW w, Weights(w, n, b),
         NEW x \in Nat, x < w[n],
         NEW d \in Seq(Nat), Len(d) = n, \A k \in 1 .. n : d[k] = (x \div w[n - k]) % b,
         NEW val, Value(val, d, b)
  PROVE  /\ val[n] = x
         /\ \A k \in 0 .. n : val[k] = x \div w[n - k]
<1> DEFINE S == { k \in 0 .. n : val[k] = x \div w[n - k] }
<1>1. 0 \in S
  <2>1. PICK m \in Nat \ {0} : m = w[n - 0]
    BY DEF Weights
  <2>2. x = 0 * m + x /\ x \in 0 .. m - 1
    BY <2>1
  <2>3. x \div m = 0
    BY <2>2, DivUnique
  <2>4. val[0] = 0
    BY DEF Value
  <2> QED
    BY <2>1, <2>3, <2>4
<1>2. ASSUME NEW k \in 1 .. n, k - 1 \in S PROVE k \in S
  <2>1. n - k \in 0 .. n /\ n - (k - 1) \in 1 .. n /\ n - (k - 1) - 1 = n - k
    OBVIOUS
  <2>2. PICK p \in Nat \ {0} : p = w[n - k]
    BY <2>1 DEF Weights
  <2>3. w[n - (k - 1)] = p * b
    BY <2>1, <2>2 DEF Weights
  <2>4. val[k - 1] = (x \div p) \div b
    <3>1. val[k - 1] = x \div (p * b)
      BY <1>2, <2>3
    <3>2. (x \div p) \div b = x \div (p * b)
      BY DivDiv
    <3> QED
      BY <3>1, <3>2
  <2>5. PICK q \in Nat : q = x \div p
    BY DivMod
  <2>6. val[k] = val[k - 1] * b + d[k] /\ d[k] = q % b
    BY <2>2, <2>5 DEF Value
  <2>7. q = (q \div b) * b + (q % b)
    BY DivMod
  <2>8. val[k] = q
    BY <2>4, <2>5, <2>6, <2>7
  <2> QED
    BY <2>1, <2>2, <2>5, <2>8
<1> HIDE DEF S
<1>3. \A k \in 0 .. n : k \in S
  BY <1>1, <1>2, Induction
<1>4. \A k \in 0 .. n : val[k] = x \div w[n - k]
  BY <1>3 DEF S
<1>5. n \in 0 .. n /\ n - n = 0 /\ w[0] = 1
  BY DEF Weights
<1>6. val[n] = x \div 1
  BY <1>4, <1>5
<1> QED
  BY <1>4, <1>6

\* One digit is the remainder, the digits before it the quotient.
LEMMA LastDigit ==
  ASSUME NEW b \in Nat \ {0}, NEW d \in Seq(Nat), NEW val, Value(val, d, b),
         NEW k \in 1 .. Len(d), d[k] < b
  PROVE  val[k] \div b = val[k - 1] /\ val[k] % b = d[k]
<1>1. k - 1 \in 0 .. Len(d) /\ d[k] \in 0 .. b - 1
  OBVIOUS
<1>2. PICK q \in Nat, r \in 0 .. b - 1 : q = val[k - 1] /\ r = d[k]
  <2>1. val[k - 1] \in Nat
    BY <1>1 DEF Value
  <2> QED
    BY <1>1, <2>1
<1>3. val[k] = q * b + r
  BY <1>2 DEF Value
<1>4. (q * b + r) \div b = q /\ (q * b + r) % b = r
  BY DivUnique
<1> QED
  BY <1>2, <1>3, <1>4

\* The number of the first m digits.
LEMMA SpelledPrefix ==
  ASSUME NEW n \in Nat, NEW b \in Nat \ {0}, NEW w, Weights(w, n, b),
         NEW d \in Seq(Nat), Len(d) = n, \A k \in 1 .. n : d[k] < b,
         NEW val, Value(val, d, b), NEW m \in 0 .. n
  PROVE  val[m] = val[n] \div w[n - m]
<1>1. \A k \in 0 .. n : val[k] \in Nat
  BY DEF Value
<1> DEFINE S == { k \in 0 .. n : val[n - k] = val[n] \div w[k] }
<1>2. 0 \in S
  <2>1. n \in 0 .. n /\ n - 0 = n /\ w[0] = 1
    BY DEF Weights
  <2>2. PICK x \in Nat : x = val[n]
    BY <1>1, <2>1
  <2>3. x \div 1 = x
    OBVIOUS
  <2> QED
    BY <2>1, <2>2, <2>3
<1>3. ASSUME NEW k \in 1 .. n, k - 1 \in S PROVE k \in S
  <2>1. /\ n - (k - 1) \in 1 .. n /\ n - (k - 1) - 1 = n - k /\ n \in 0 .. n
        /\ k - 1 \in 0 .. n /\ k \in 0 .. n
    OBVIOUS
  <2>2. val[n - k] = val[n - (k - 1)] \div b
    <3>1. PICK j \in 1 .. Len(d) : j = n - (k - 1) /\ j - 1 = n - k
      BY <2>1
    <3>2. d[j] < b
      OBVIOUS
    <3>3. val[j] \div b = val[j - 1]
      BY <3>2, LastDigit
    <3> QED
      BY <3>1, <3>3
  <2>3. PICK x \in Nat, p \in Nat \ {0} : x = val[n] /\ p = w[k - 1]
    BY <1>1, <2>1 DEF Weights
  <2>4. w[k] = p * b
    BY <2>3 DEF Weights
  <2>5. val[n - (k - 1)] = x \div p
    BY <1>3, <2>3
  <2>6. (x \div p) \div b = x \div (p * b)
    BY DivDiv
  <2> QED
    BY <2>1, <2>2, <2>3, <2>4, <2>5, <2>6
<1> HIDE DEF S
<1>4. \A k \in 0 .. n : k \in S
  BY <1>2, <1>3, Induction
<1>5. n - m \in 0 .. n /\ n - (n - m) = m
  OBVIOUS
<1>6. val[n - (n - m)] = val[n] \div w[n - m]
  BY <1>4, <1>5 DEF S
<1> QED
  BY <1>5, <1>6

\* The digits of the number that is spelled are those it was spelled with.
LEMMA SpelledDigit ==
  ASSUME NEW n \in Nat, NEW b \in Nat \ {0}, NEW w, Weights(w, n, b),
         NEW d \in Seq(Nat), Len(d) = n, \A k \in 1 .. n : d[k] < b,
         NEW val, Value(val, d, b), NEW k \in 1 .. n
  PROVE  (val[n] \div w[n - k]) % b = d[k]
<1>1. k \in 0 .. n /\ k \in 1 .. Len(d) /\ d[k] < b
  OBVIOUS
<1>2. val[k] = val[n] \div w[n - k]
  BY <1>1, SpelledPrefix
<1>3. val[k] % b = d[k]
  BY <1>1, LastDigit
<1> QED
  BY <1>2, <1>3

\* A number is below what its first digit allows.
LEMMA ValueBound ==
  ASSUME NEW n \in Nat, NEW b \in Nat \ {0}, NEW w, Weights(w, n, b),
         NEW d \in Seq(Nat), Len(d) = n, \A k \in 1 .. n : d[k] < b,
         NEW val, Value(val, d, b), NEW m \in 1 .. n
  PROVE  val[m] < (d[1] + 1) * w[m - 1]
<1> DEFINE S == { k \in 0 .. n : k > 0 => val[k] < (d[1] + 1) * w[k - 1] }
<1>1. \A k \in 0 .. n : val[k] \in Nat /\ w[k] \in Nat \ {0}
  BY DEF Value, Weights
<1>2. 0 \in S
  OBVIOUS
<1>3. ASSUME NEW k \in 1 .. n, k - 1 \in S PROVE k \in S
  <2>1. PICK f \in Nat : f = d[1]
    OBVIOUS
  <2>2. CASE k = 1
    <3>1. val[1] = val[0] * b + d[1] /\ val[0] = 0 /\ w[0] = 1
      BY <2>2 DEF Value, Weights
    <3>2. val[1] = f
      BY <2>1, <3>1
    <3>3. f < (f + 1) * 1
      OBVIOUS
    <3> QED
      BY <2>1, <2>2, <3>1, <3>2, <3>3
  <2>3. CASE k # 1
    <3>1. k - 1 \in 1 .. n /\ k - 1 \in 0 .. n /\ k - 2 \in 0 .. n /\ k - 1 - 1 = k - 2 /\ k \in 0 .. n
      BY <2>3
    <3>2. /\ val[k - 1] \in Nat /\ w[k - 2] \in Nat \ {0}
          /\ d[k] \in Nat /\ d[k] \in 0 .. b - 1
      BY <1>1, <3>1
    <3> DEFINE x == val[k - 1]
               p == w[k - 2]
               r == d[k]
    <3> HIDE DEF x, p, r
    <3>9. x \in Nat /\ p \in Nat \ {0} /\ r \in Nat /\ r \in 0 .. b - 1
      BY <3>2 DEF x, p, r
    <3>3. x < (f + 1) * p
      BY <1>3, <2>1, <3>1 DEF x, p
    <3>4. PICK y \in Nat : y = (f + 1) * p
      BY <3>9
    <3>5. x * b + r < y * b + 0
      BY <3>3, <3>4, <3>9, RowOrder
    <3>6. val[k] = x * b + r /\ w[k - 1] = p * b
      BY <3>1 DEF Value, Weights, x, p, r
    <3>7. y * b + 0 = (f + 1) * (p * b)
      BY <3>4, <3>9
    <3>8. val[k] < (f + 1) * w[k - 1]
      BY <3>5, <3>6, <3>7
    <3> QED
      BY <2>1, <3>1, <3>8
  <2> QED
    BY <2>2, <2>3
<1> HIDE DEF S
<1>4. \A k \in 0 .. n : k \in S
  BY <1>2, <1>3, Induction
<1>5. m \in 0 .. n /\ m > 0
  OBVIOUS
<1> QED
  BY <1>4, <1>5 DEF S

\* A quotient is below what the dividend is below.
LEMMA DivLess ==
  ASSUME NEW a \in Nat, NEW m \in Nat \ {0}, NEW x \in Nat, x < a * m
  PROVE  x \div m < a
<1>1. PICK q \in Nat, r \in 0 .. m - 1 : q = x \div m /\ x = q * m + r
  BY DivMod
<1>2. r \in Nat /\ 0 \in 0 .. m - 1
  OBVIOUS
<1>3. PICK y \in Nat, z \in Nat : y = q * m /\ z = a * m
  OBVIOUS
<1>4. a # q
  BY <1>1, <1>2, <1>3
<1>5. ~ a < q
  <2> SUFFICES ASSUME a < q PROVE FALSE
    OBVIOUS
  <2>1. a * m + 0 < q * m + r
    BY <1>2, RowOrder
  <2> QED
    BY <1>1, <1>2, <1>3, <2>1
<1> QED
  BY <1>1, <1>4, <1>5

LEMMA TimesOrder ==
  ASSUME NEW a \in Nat, NEW c \in Nat, a <= c, NEW m \in Nat \ {0}
  PROVE  a * m <= c * m
<1>1. CASE a = c
  <2>1. c * m \in Nat
    OBVIOUS
  <2> QED
    BY <1>1, <2>1
<1>2. CASE a < c
  <2>1. a * m + 0 < c * m + 0
    BY <1>2, RowOrder
  <2>2. PICK y \in Nat, z \in Nat : y = a * m /\ z = c * m
    OBVIOUS
  <2> QED
    BY <2>1, <2>2
<1> QED
  BY <1>1, <1>2

\* The weights of a shorter number are the first of a longer one's.
LEMMA WeightsOf ==
  ASSUME NEW n \in 1 .. u_LENGTH
  PROVE  /\ Weights(U!Weight, n, u_BASE)
         /\ n \in Nat /\ n - 1 \in 0 .. u_LENGTH /\ u_BASE \in Nat \ {0}
         /\ U!Weight[n - 1] \in Nat \ {0} /\ U!Weight[n] = U!Weight[n - 1] * u_BASE
<1>1. u_LENGTH \in Nat /\ u_BASE \in Nat \ {0}
  BY UlidConstants
<1>2. /\ n \in Nat /\ n - 1 \in 0 .. u_LENGTH /\ n \in 1 .. u_LENGTH
      /\ \A k \in 0 .. n : k \in 0 .. u_LENGTH
      /\ \A k \in 1 .. n : k \in 1 .. u_LENGTH
  BY <1>1
<1>3. Weights(U!Weight, n, u_BASE)
  BY <1>2, WeightIs DEF Weights
<1> QED
  BY <1>1, <1>2, <1>3, WeightIs DEF Weights

\* Encoding in n characters, read back.
LEMMA DigitsRead ==
  ASSUME NEW n \in 1 .. u_LENGTH, NEW x \in Nat, x < (u_LEAD_MAX + 1) * U!Weight[n - 1]
  PROVE  /\ Len(U!Digits(x, n)) = n
         /\ \A k \in 1 .. n : U!is_alphabet_char(U!Digits(x, n)[k])
         /\ U!DECODE(U!Digits(x, n)[1]) <= u_LEAD_MAX
         /\ U!Spelled(U!Digits(x, n)) = x
<1> DEFINE d == U!Digits(x, n)
<1>1. /\ Weights(U!Weight, n, u_BASE)
      /\ n \in Nat /\ n - 1 \in 0 .. u_LENGTH /\ u_BASE \in Nat \ {0}
      /\ U!Weight[n - 1] \in Nat \ {0} /\ U!Weight[n] = U!Weight[n - 1] * u_BASE
  BY WeightsOf
<1>2. PICK lead \in Nat : lead = u_LEAD_MAX /\ lead + 1 <= u_BASE /\ lead < u_BASE
  BY UlidConstants
<1>3. PICK p \in Nat \ {0} : p = U!Weight[n - 1]
  BY <1>1
<1>4. ASSUME NEW k \in 1 .. n
      PROVE  d[k] = (x \div U!Weight[n - k]) % u_BASE /\ d[k] \in 0 .. u_BASE - 1
  <2>1. n - k \in 0 .. n
    BY <1>1
  <2>2. PICK m \in Nat \ {0} : m = U!Weight[n - k]
    BY <1>1, <2>1 DEF Weights
  <2>3. PICK q \in Nat : q = x \div m
    BY DivMod
  <2>4. q % u_BASE \in 0 .. u_BASE - 1
    BY <1>1, DivMod
  <2>5. d[k] = (x \div U!Weight[n - k]) % u_BASE
    BY DEF U!Digits
  <2> QED
    BY <2>2, <2>3, <2>4, <2>5
<1>5. d \in Seq(U!Chars) /\ d \in Seq(Nat) /\ Len(d) = n
  <2>1. 0 .. u_BASE - 1 \subseteq U!Chars /\ 0 .. u_BASE - 1 \subseteq Nat
    BY UlidConstants DEF U!Chars, U!Junk
  <2>2. d = [k \in 1 .. n |-> d[k]]
    BY DEF U!Digits
  <2> HIDE DEF d
  <2>3. d \in [1 .. n -> U!Chars] /\ d \in [1 .. n -> Nat]
    BY <1>4, <2>1, <2>2
  <2> QED
    BY <1>1, <2>3
<1> HIDE DEF d
<1>6. \A k \in 1 .. n : d[k] \in U!Chars /\ U!IsUpper(d[k])
  <2>1. \A c \in 0 .. u_BASE - 1 : U!IsUpper(c)
    BY <1>1 DEF U!IsUpper
  <2> QED
    BY <1>4, <1>5, <2>1
<1>7. \A k \in 1 .. n : U!is_alphabet_char(d[k]) /\ U!DECODE(d[k]) = d[k]
  BY <1>6, DecodeRange
<1>8. d[1] <= u_LEAD_MAX
  <2>1. x < (lead + 1) * p
    BY <1>2, <1>3
  <2>6. PICK a \in Nat : a = lead + 1
    OBVIOUS
  <2>7. x < a * p
    BY <2>1, <2>6
  <2>8. x \div p < a
    BY <2>7, DivLess
  <2>9. x \div p \in Nat
    BY DivMod
  <2>2. x \div p < lead + 1 /\ x \div p \in Nat
    BY <2>6, <2>8, <2>9
  <2>3. PICK q \in Nat : q = x \div p /\ q <= lead
    BY <2>2
  <2>4. q % u_BASE = q
    <3>1. q \in 0 .. u_BASE - 1
      BY <1>1, <1>2, <2>3
    <3>2. (0 * u_BASE + q) % u_BASE = q
      BY <1>1, <3>1, DivUnique
    <3> QED
      BY <1>1, <3>2
  <2>5. 1 \in 1 .. n
    BY <1>1
  <2> QED
    BY <1>2, <1>3, <1>4, <2>3, <2>4, <2>5
<1>9. x < U!Weight[n]
  <2>1. (lead + 1) * p <= u_BASE * p
    BY <1>1, <1>2, TimesOrder
  <2>2. u_BASE * p = p * u_BASE
    BY <1>1
  <2>3. PICK y \in Nat, z \in Nat : y = (lead + 1) * p /\ z = p * u_BASE
    BY <1>1
  <2>4. x < y /\ y <= z
    BY <1>2, <1>3, <2>1, <2>2, <2>3
  <2> QED
    BY <1>1, <1>3, <2>3, <2>4
<1>10. InAlphabet(d)
  BY <1>5, <1>7 DEF InAlphabet
<1>11. Ranks(d) = d
  BY <1>5, <1>7 DEF Ranks
<1>12. PICK val : Value(val, d, u_BASE) /\ U!Spelled(d) = val[n]
  BY <1>5, <1>10, <1>11, SpelledIsValue
<1>13. val[n] = x
  <2>1. \A k \in 1 .. n : d[k] = (x \div U!Weight[n - k]) % u_BASE
    BY <1>4
  <2>2. PICK e \in Seq(Nat) : e = d
    BY <1>5
  <2>3. /\ Weights(U!Weight, n, u_BASE) /\ x < U!Weight[n] /\ Len(e) = n /\ Value(val, e, u_BASE)
        /\ \A k \in 1 .. n : e[k] = (x \div U!Weight[n - k]) % u_BASE
    BY <1>1, <1>5, <1>9, <1>12, <2>1, <2>2
  <2>4. n \in Nat /\ u_BASE \in Nat \ {0}
    BY <1>1
  <2> HIDE <1>1, <1>4, <1>5, <1>9
  <2> QED
    BY <2>3, <2>4, DigitsSpell
<1>14. 1 \in 1 .. n
  BY <1>1
<1> QED
  BY <1>5, <1>7, <1>8, <1>12, <1>13, <1>14 DEF d

\* Every value is read back from its text.
LEMMA ValueRoundTrip ==
  ASSUME NEW v \in U!Values PROVE U!decode_chars(U!encode_value(v)) = U!Ok(v)
<1> DEFINE d == U!Digits(v, u_LENGTH)
<1>1. u_LENGTH \in 1 .. u_LENGTH /\ u_LENGTH >= 1
  BY UlidConstants
<1>2. v \in Nat /\ v < (u_LEAD_MAX + 1) * U!Weight[u_LENGTH - 1]
  <2>1. PICK y \in Nat : y = (u_LEAD_MAX + 1) * U!Weight[u_LENGTH - 1]
    <3>1. PICK p \in Nat \ {0}, lead \in Nat : p = U!Weight[u_LENGTH - 1] /\ lead = u_LEAD_MAX
      <4>1. U!Weight[u_LENGTH - 1] \in Nat \ {0}
        BY <1>1, WeightsOf
      <4>2. u_LEAD_MAX \in Nat
        BY UlidConstants
      <4> QED
        BY <4>1, <4>2
    <3>2. (lead + 1) * p \in Nat
      OBVIOUS
    <3> QED
      BY <3>1, <3>2
  <2>2. v \in 0 .. y - 1
    BY <2>1 DEF U!Values, U!MaxValue
  <2> QED
    BY <2>1, <2>2
<1>3. /\ Len(d) = u_LENGTH
      /\ \A k \in 1 .. u_LENGTH : U!is_alphabet_char(d[k])
      /\ U!DECODE(d[1]) <= u_LEAD_MAX
      /\ U!Spelled(d) = v
  BY <1>1, <1>2, DigitsRead
<1>4. ~ U!DECODE(d[1]) > u_LEAD_MAX
  <2>1. 1 \in 1 .. u_LENGTH /\ 1 \in 1 .. Len(d)
    BY <1>1, <1>3
  <2>2. d[1] = (v \div U!Weight[u_LENGTH - 1]) % u_BASE
    BY <2>1 DEF U!Digits
  <2>3. PICK q \in Nat : q = v \div U!Weight[u_LENGTH - 1]
    BY <1>1, <1>2, WeightsOf, DivMod
  <2>4. q % u_BASE \in 0 .. u_BASE - 1
    BY UlidConstants, DivMod
  <2>5. d[1] \in U!Chars
    BY <2>2, <2>3, <2>4, UlidConstants DEF U!Chars, U!Junk
  <2>6. U!DECODE(d[1]) \in 0 .. u_BASE - 1
    BY <1>3, <2>1, <2>5, DecodeRange
  <2>7. PICK c \in Nat, lead \in Nat : c = U!DECODE(d[1]) /\ lead = u_LEAD_MAX
    BY <2>6, UlidConstants
  <2> QED
    BY <1>3, <2>7
<1>5. U!encode_value(v) = d
  BY DEF U!encode_value
<1> HIDE DEF d
<1>6. U!decode_chars(d) = U!Ok(U!Spelled(d))
  BY <1>3, <1>4 DEF U!decode_chars
<1> QED
  BY <1>3, <1>5, <1>6

\* So is every time.
LEMMA TimeRoundTrip ==
  ASSUME NEW ms \in 0 .. U!TIME_MAX
  PROVE  U!decode_time_bytes(U!encode_time(ms).value) = U!Ok(ms)
<1> DEFINE d == U!Digits(ms, u_TIME_LEN)
<1>1. u_TIME_LEN \in 1 .. u_LENGTH
  BY UlidConstants
<1>2. ms \in Nat /\ ms < (u_LEAD_MAX + 1) * U!Weight[u_TIME_LEN - 1] /\ ~ ms > U!TIME_MAX
  <2>1. PICK y \in Nat : y = (u_LEAD_MAX + 1) * U!Weight[u_TIME_LEN - 1]
    <3>1. PICK p \in Nat \ {0}, lead \in Nat : p = U!Weight[u_TIME_LEN - 1] /\ lead = u_LEAD_MAX
      <4>1. U!Weight[u_TIME_LEN - 1] \in Nat \ {0}
        BY <1>1, WeightsOf
      <4>2. u_LEAD_MAX \in Nat
        BY UlidConstants
      <4> QED
        BY <4>1, <4>2
    <3>2. (lead + 1) * p \in Nat
      OBVIOUS
    <3> QED
      BY <3>1, <3>2
  <2>2. ms \in 0 .. y - 1 /\ U!TIME_MAX = y - 1
    BY <2>1 DEF U!TIME_MAX
  <2> QED
    BY <2>1, <2>2
<1>3. /\ Len(d) = u_TIME_LEN
      /\ \A k \in 1 .. u_TIME_LEN : U!is_alphabet_char(d[k])
      /\ U!Spelled(d) = ms
  BY <1>1, <1>2, DigitsRead
<1>4. U!encode_time(ms).value = d
  BY <1>2 DEF U!encode_time, U!Ok
<1> HIDE DEF d
<1>5. U!decode_time_bytes(d) = U!Ok(U!Spelled(d))
  BY <1>2, <1>3 DEF U!decode_time_bytes
<1> QED
  BY <1>3, <1>4, <1>5

\* What an accepted text spells.
LEMMA Accepted ==
  ASSUME NEW t \in Seq(U!Chars), U!decode_chars(t).ok
  PROVE  /\ U!decode_chars(t).value = U!Spelled(t)
         /\ Len(t) = u_LENGTH /\ InAlphabet(t) /\ Ranks(t)[1] <= u_LEAD_MAX
<1>1. /\ Len(t) = u_LENGTH /\ InAlphabet(t)
      /\ ~(U!is_alphabet_char(t[1]) /\ U!DECODE(t[1]) > u_LEAD_MAX)
      /\ U!decode_chars(t) = U!Ok(U!Spelled(t))
  BY DEF U!decode_chars, U!Err, InAlphabet
<1>2. U!decode_chars(t).value = U!Spelled(t)
  BY <1>1 DEF U!Ok
<1>3. 1 \in 1 .. Len(t)
  BY <1>1, UlidConstants
<1>4. Ranks(t)[1] = U!DECODE(t[1]) /\ Ranks(t)[1] \in Nat
  BY <1>1, <1>3, RanksType
<1>5. U!is_alphabet_char(t[1])
  BY <1>1, <1>3 DEF InAlphabet
<1>6. PICK c \in Nat, lead \in Nat : c = Ranks(t)[1] /\ lead = u_LEAD_MAX
  BY <1>4, UlidConstants
<1> QED
  BY <1>1, <1>2, <1>4, <1>5, <1>6

\* The upper-case form of a character is the character of its value.
LEMMA UpperCaseIsRank ==
  ASSUME NEW t \in Seq(U!Chars), InAlphabet(t), NEW k \in 1 .. Len(t)
  PROVE  U!UpperCase(t)[k] = U!DECODE(t[k])
<1> DEFINE Form(u) == IF U!IsLower(t[k]) THEN U!IsUpper(u) /\ u - u_LETTER = t[k] - u_BASE
                      ELSE u = t[k]
<1>1. U!UpperCase(t)[k] = CHOOSE u \in U!Chars : Form(u)
  BY DEF U!UpperCase
<1>2. PICK c \in U!Chars : c = t[k] /\ U!is_alphabet_char(c) /\ c \in Nat
  <2>1. t[k] \in U!Chars
    OBVIOUS
  <2>2. t[k] \in Nat
    BY CharIsNumber
  <2>3. U!is_alphabet_char(t[k])
    BY DEF InAlphabet
  <2> QED
    BY <2>1, <2>2, <2>3
<1>3. PICK x \in 0 .. u_BASE - 1 : x = U!DECODE(c)
  BY <1>2, DecodeRange
<1>4. x \in U!Chars /\ U!IsUpper(x) /\ x \in Nat
  BY UlidConstants DEF U!Chars, U!Junk, U!IsUpper
<1>5. U!IsLower(c) => x = c - u_BASE + u_LETTER
  BY <1>2, <1>3, UlidConstants DEF U!DECODE, U!IsLower, U!IsUpper
<1>6. ~U!IsLower(c) => x = c
  BY <1>2, <1>3, DecodeRange
<1>7. Form(x)
  BY <1>2, <1>4, <1>5, <1>6, UlidConstants
<1>8. ASSUME NEW u \in U!Chars, Form(u) PROVE u = x
  <2>1. u \in Nat
    BY UlidConstants
  <2> QED
    BY <1>2, <1>4, <1>5, <1>6, <1>8, <2>1, UlidConstants
<1> HIDE DEF Form
<1>9. x = CHOOSE u \in U!Chars : Form(u)
  BY <1>4, <1>7, <1>8
<1> QED
  BY <1>1, <1>2, <1>3, <1>9

\* Encoding what was decoded gives the upper-case form of the text.
LEMMA TextRoundTrip ==
  ASSUME NEW t \in Seq(U!Chars), U!decode_chars(t).ok
  PROVE  U!encode_value(U!decode_chars(t).value) = U!UpperCase(t)
<1>1. /\ U!decode_chars(t).value = U!Spelled(t)
      /\ Len(t) = u_LENGTH /\ InAlphabet(t)
  BY Accepted
<1>2. PICK d \in Seq(Nat) : d = Ranks(t) /\ Len(d) = u_LENGTH /\ \A k \in 1 .. u_LENGTH : d[k] < u_BASE
  BY <1>1, RanksType
<1>3. PICK val : Value(val, d, u_BASE) /\ U!Spelled(t) = val[u_LENGTH]
  BY <1>1, <1>2, SpelledIsValue
<1>4. u_LENGTH \in Nat /\ u_BASE \in Nat \ {0}
  BY UlidConstants
<1>5. ASSUME NEW k \in 1 .. u_LENGTH
      PROVE  (val[u_LENGTH] \div U!Weight[u_LENGTH - k]) % u_BASE = d[k]
  BY <1>2, <1>3, <1>4, WeightIs, SpelledDigit
<1>6. \A k \in 1 .. u_LENGTH : d[k] = U!UpperCase(t)[k]
  <2> SUFFICES ASSUME NEW k \in 1 .. u_LENGTH PROVE d[k] = U!UpperCase(t)[k]
    OBVIOUS
  <2>1. d[k] = U!DECODE(t[k])
    BY <1>1, <1>2, RanksType
  <2> QED
    BY <1>1, <2>1, UpperCaseIsRank
<1>7. U!encode_value(U!Spelled(t)) = [k \in 1 .. u_LENGTH |-> U!UpperCase(t)[k]]
  BY <1>3, <1>5, <1>6 DEF U!encode_value, U!Digits
<1>8. U!UpperCase(t) = [k \in 1 .. u_LENGTH |-> U!UpperCase(t)[k]]
  <2> DEFINE Form(c) == CHOOSE u \in U!Chars :
               IF U!IsLower(c) THEN U!IsUpper(u) /\ u - u_LETTER = c - u_BASE ELSE u = c
  <2>1. U!UpperCase(t) = [k \in 1 .. Len(t) |-> Form(t[k])]
    BY Zenon DEF U!UpperCase
  <2> HIDE DEF Form
  <2> QED
    BY <1>1, <2>1
<1> QED
  BY <1>1, <1>7, <1>8

\* The first characters of an accepted text are the time in its value.
LEMMA TimeOfText ==
  ASSUME NEW t \in Seq(U!Chars), U!decode_chars(t).ok
  PROVE  U!decode_time(t) = U!Ok(U!decode_chars(t).value \div U!Weight[u_LENGTH - u_TIME_LEN])
<1> DEFINE s == SubSeq(t, 1, u_TIME_LEN)
<1>1. /\ U!decode_chars(t).value = U!Spelled(t)
      /\ Len(t) = u_LENGTH /\ InAlphabet(t) /\ Ranks(t)[1] <= u_LEAD_MAX
  BY Accepted
<1>2. /\ u_LENGTH \in Nat /\ u_BASE \in Nat \ {0} /\ u_TIME_LEN \in 1 .. u_LENGTH
      /\ u_TIME_LEN \in Nat /\ u_LEAD_MAX \in Nat
  BY UlidConstants
<1>3. s \in Seq(U!Chars) /\ Len(s) = u_TIME_LEN /\ \A k \in 1 .. u_TIME_LEN : s[k] = t[k]
  BY <1>1, <1>2
<1> HIDE DEF s
<1>4. InAlphabet(s) /\ \A k \in 1 .. u_TIME_LEN : U!is_alphabet_char(s[k])
  BY <1>1, <1>2, <1>3 DEF InAlphabet
<1>5. PICK d \in Seq(Nat) : d = Ranks(t) /\ Len(d) = u_LENGTH /\ \A k \in 1 .. u_LENGTH : d[k] < u_BASE
  BY <1>1, RanksType
<1>6. PICK val : Value(val, d, u_BASE) /\ U!Spelled(t) = val[u_LENGTH]
  BY <1>1, <1>5, SpelledIsValue
<1>7. PICK e \in Seq(Nat) : e = Ranks(s) /\ Len(e) = u_TIME_LEN
  BY <1>3, <1>4, RanksType
<1>8. PICK lav : Value(lav, e, u_BASE) /\ U!Spelled(s) = lav[u_TIME_LEN]
  BY <1>3, <1>4, <1>7, SpelledIsValue
<1>9. \A k \in 1 .. u_TIME_LEN : d[k] = e[k]
  BY <1>2, <1>3, <1>5, <1>7, <1>1 DEF Ranks
<1>10. val[u_TIME_LEN] = lav[u_TIME_LEN]
  <2>1. u_TIME_LEN \in 0 .. Len(d) /\ u_TIME_LEN <= Len(e) /\ u_BASE \in Nat
    BY <1>2, <1>5, <1>7
  <2> QED
    BY <1>6, <1>8, <1>9, <2>1, ValuePrefix
<1>11. U!Spelled(s) = U!Spelled(t) \div U!Weight[u_LENGTH - u_TIME_LEN]
  <2>1. PICK n \in Nat, b \in Nat \ {0}, m \in 0 .. u_LENGTH :
          n = u_LENGTH /\ b = u_BASE /\ m = u_TIME_LEN /\ m \in 0 .. n
    <3>1. u_TIME_LEN \in 0 .. u_LENGTH
      BY <1>2
    <3> QED
      BY <1>2, <3>1
  <2>2. Weights(U!Weight, n, b) /\ Len(d) = n /\ Value(val, d, b) /\ \A k \in 1 .. n : d[k] < b
    BY <1>5, <1>6, <2>1, WeightIs
  <2>3. val[m] = val[n] \div U!Weight[n - m]
    BY <2>1, <2>2, SpelledPrefix
  <2> QED
    BY <1>6, <1>8, <1>10, <2>1, <2>3
<1>12. ~ U!Spelled(s) > U!TIME_MAX
  <2>1. PICK p \in Nat \ {0} : p = U!Weight[u_TIME_LEN - 1]
    BY <1>2, WeightsOf
  <2>2. PICK a \in Nat, b \in Nat : a = d[1] + 1 /\ b = u_LEAD_MAX + 1 /\ a <= b
    <3>1. 1 \in 1 .. Len(d)
      BY <1>2, <1>5
    <3>2. d[1] \in Nat /\ d[1] <= u_LEAD_MAX
      BY <1>1, <1>5, <3>1
    <3> QED
      BY <1>2, <3>2
  <2>3. val[u_TIME_LEN] < a * p
    BY <1>2, <1>5, <1>6, <2>1, <2>2, WeightIs, ValueBound
  <2>4. a * p <= b * p
    BY <2>2, TimesOrder
  <2>5. PICK y \in Nat, z \in Nat : y = a * p /\ z = b * p
    OBVIOUS
  <2>6. val[u_TIME_LEN] \in Nat
    BY <1>2, <1>5, <1>6 DEF Value
  <2>7. U!TIME_MAX = z - 1
    BY <2>1, <2>2, <2>5 DEF U!TIME_MAX
  <2> QED
    BY <1>8, <1>10, <2>3, <2>4, <2>5, <2>6, <2>7
<1>13. U!decode_time(t) = U!decode_time_bytes(s)
  BY <1>1 DEF U!decode_time, s
<1>14. U!decode_time_bytes(s) = U!Ok(U!Spelled(s))
  BY <1>3, <1>4, <1>12 DEF U!decode_time_bytes
<1> QED
  BY <1>1, <1>11, <1>13, <1>14

\* For every alphabet, length and limit on the first character: decoding
\* undoes encoding for every value and every time; encoding gives back the
\* upper-case form of every text that is accepted, and the time decoded
\* from its first characters is the time in its value
\* (crates/core/src/crockford.rs).
THEOREM TextsReadBack == Spec => []RoundTrip
<1>1. (part = "ulid" => UlidInv) => RoundTrip
  <2> SUFFICES ASSUME UlidInv PROVE U!RoundTrip
    BY DEF RoundTrip
  <2>1. \A i \in 1 .. Len(arr) : arr[i] \in Seq(U!Chars)
    BY DEF UlidInv, Texts
  <2>2. ASSUME NEW i \in 1 .. Len(arr), U!decode_chars(arr[i]).ok
        PROVE  /\ U!encode_value(U!decode_chars(arr[i]).value) = U!UpperCase(arr[i])
               /\ U!decode_time(arr[i])
                    = U!Ok(U!decode_chars(arr[i]).value \div U!Weight[u_LENGTH - u_TIME_LEN])
    BY <2>1, <2>2, TextRoundTrip, TimeOfText
  <2> QED
    BY <2>2, ValueRoundTrip, TimeRoundTrip DEF U!RoundTrip
<1> QED
  BY <1>1, UlidAlways, PTL

\* A function over 0 .. n that is defined by recursion.
Recurs(f, n, D, b, op) ==
  /\ f \in [0 .. n -> D]
  /\ f[0] = b
  /\ \A k \in 1 .. n : f[k] = op[k][f[k - 1]]

LEMMA RecursionExists ==
  ASSUME NEW n \in Nat, NEW D, NEW b \in D, NEW op, IsStep(op, n, D)
  PROVE  \E f : Recurs(f, n, D, b, op)
<1>1. PICK iter : IsFold(iter, n, D, b, op)
  BY FoldExists
<1> DEFINE f == [k \in 0 .. n |-> iter[1 .. k]]
<1>2. ASSUME NEW k \in 0 .. n PROVE 1 .. k \in SUBSET (1 .. n) /\ f[k] = iter[1 .. k]
  OBVIOUS
<1>3. f \in [0 .. n -> D]
  BY <1>1, <1>2 DEF IsFold
<1>4. f[0] = b
  <2>1. 1 .. 0 = {} /\ 0 \in 0 .. n
    OBVIOUS
  <2> QED
    BY <1>1, <1>2, <2>1 DEF IsFold
<1>5. ASSUME NEW k \in 1 .. n PROVE f[k] = op[k][f[k - 1]]
  <2>1. k \in 0 .. n /\ k - 1 \in 0 .. n /\ k \in Nat \ {0} /\ 1 .. k # {}
    <3>1. k \in 1 .. k
      OBVIOUS
    <3> QED
      BY <3>1
  <2>2. Top(1 .. k) = k /\ (1 .. k) \ {k} = 1 .. k - 1
    BY <2>1, TopOfRange
  <2> HIDE DEF f
  <2> QED
    BY <1>1, <1>2, <2>1, <2>2 DEF IsFold
<1> HIDE DEF f
<1> QED
  BY <1>3, <1>4, <1>5 DEF Recurs

\* The number of given digits.
LEMMA ValueExists ==
  ASSUME NEW b \in Nat, NEW d \in Seq(Nat) PROVE \E val : Value(val, d, b)
<1>1. PICK it : Spells(it, d, b)
  BY SpellsExists
<1> QED
  BY <1>1, SpellsValue

LEMMA ValueIsUnique ==
  ASSUME NEW b \in Nat, NEW d \in Seq(Nat), NEW v, Value(v, d, b), NEW w, Value(w, d, b)
  PROVE  v[Len(d)] = w[Len(d)]
<1>1. PICK m \in 0 .. Len(d) : m = Len(d) /\ m <= Len(d)
  OBVIOUS
<1>2. v[m] = w[m]
  BY <1>1, ValuePrefix
<1> QED
  BY <1>1, <1>2

\* What FoldLeft computes of given digits.
SpelledBy(d, b) ==
  (CHOOSE it : it = [s \in SUBSET (DOMAIN d) |->
                       IF s = {} THEN 0 ELSE it[s \ {Top(s)}] * b + d[Top(s)]])[DOMAIN d]

LEMMA SpelledByIsValue ==
  ASSUME NEW b \in Nat, NEW d \in Seq(Nat), NEW val, Value(val, d, b)
  PROVE  SpelledBy(d, b) = val[Len(d)]
<1> DEFINE H == CHOOSE it : Spells(it, d, b)
<1>1. DOMAIN d = 1 .. Len(d)
  OBVIOUS
<1>2. SpelledBy(d, b) = H[1 .. Len(d)]
  BY <1>1 DEF SpelledBy, Spells
<1>3. Spells(H, d, b)
  BY SpellsExists
<1> HIDE DEF H
<1>4. PICK w : Value(w, d, b) /\ w[Len(d)] = H[1 .. Len(d)]
  BY <1>3, SpellsValue
<1>5. w[Len(d)] = val[Len(d)]
  BY <1>4, ValueIsUnique
<1> QED
  BY <1>2, <1>4, <1>5

LEMMA KsuidConstants ==
  /\ LIMB \in Nat \ {0} /\ LIMB > 1 /\ LIMBS \in Nat /\ LIMBS > 1
  /\ k_RADIX \in Nat \ {0} /\ k_RADIX > 1 /\ STRING_LEN \in Nat
  /\ SECOND \in Nat \ {0} /\ EPOCH_SECONDS \in Nat /\ ClockMax \in Nat /\ MaxCount \in Nat
  /\ K!Power(k_RADIX, STRING_LEN) >= K!Power(LIMB, LIMBS)
  /\ k_Payloads \subseteq [1 .. LIMBS - 1 -> 0 .. LIMB - 1]
  /\ k_Texts \subseteq Seq(0 .. k_RADIX)
  BY ReadBackAssumption DEF K!KsuidAssumption, K!Junk

LEMMA PowerIs ==
  ASSUME NEW n \in Nat, NEW b \in Nat \ {0}
  PROVE  \E w : Weights(w, n, b) /\ K!Power(b, n) = w[n]
<1> DEFINE W == CHOOSE w : WeightsEquation(w, n, b)
<1>1. K!Power(b, n) = W[n]
  BY DEF K!Power, WeightsEquation
<1>2. \E w : WeightsEquation(w, n, b)
  BY WeightsExist
<1>3. WeightsEquation(W, n, b)
  BY <1>2
<1> HIDE DEF W
<1>4. Weights(W, n, b)
  BY <1>3, WeightsOfEquation
<1> QED
  BY <1>1, <1>4

-----------------------------------------------------------------------------
Limbs == [1 .. LIMBS -> 0 .. LIMB - 1]

LEMMA LimbsAreDigits ==
  ASSUME NEW x \in Limbs
  PROVE  x \in Seq(Nat) /\ Len(x) = LIMBS /\ \A k \in 1 .. LIMBS : x[k] \in Nat /\ x[k] < LIMB
<1>1. LIMBS \in Nat /\ LIMB \in Nat /\ 0 .. LIMB - 1 \subseteq Nat
  BY KsuidConstants
<1>2. \A k \in 1 .. LIMBS : x[k] \in 0 .. LIMB - 1
  BY DEF Limbs
<1>3. x \in [1 .. LIMBS -> Nat]
  BY <1>1 DEF Limbs
<1>4. x \in Seq(Nat) /\ Len(x) = LIMBS
  BY <1>1, <1>3
<1> QED
  BY <1>1, <1>2, <1>4

\* Number is the number of the limbs,
LEMMA NumberIsValue ==
  ASSUME NEW x \in Seq(Nat), NEW val, Value(val, x, LIMB)
  PROVE  K!Number(x) = val[Len(x)]
<1>1. K!Number(x) = SpelledBy(x, LIMB)
  BY DEF K!Number, K!FoldLeft, K!MapThenFoldSet, K!Max, SpelledBy, Top
<1> QED
  BY <1>1, KsuidConstants, SpelledByIsValue

\* and Spelled that of the characters.
LEMMA KsuidSpelledIsValue ==
  ASSUME NEW x \in Seq(Nat), NEW val, Value(val, x, k_RADIX)
  PROVE  K!Spelled(x) = val[Len(x)]
<1>1. K!Spelled(x) = SpelledBy(x, k_RADIX)
  BY DEF K!Spelled, K!FoldLeft, K!MapThenFoldSet, K!Max, SpelledBy, Top
<1> QED
  BY <1>1, KsuidConstants, SpelledByIsValue

\* A division of the limbs by the radix is one of their number.
LEMMA DivRadixDivides ==
  ASSUME NEW x \in Limbs
  PROVE  /\ K!DivRadix(x).out \in Limbs
         /\ K!Number(K!DivRadix(x).out) = K!Number(x) \div k_RADIX
         /\ K!DivRadix(x).rem = K!Number(x) % k_RADIX
<1> DEFINE D == 0 .. k_RADIX - 1
           Eq(f) == f = [k \in 0 .. LIMBS |->
                           IF k = 0 THEN 0 ELSE (f[k - 1] * LIMB + x[k]) % k_RADIX]
           F == CHOOSE f : Eq(f)
           out == [k \in 1 .. LIMBS |-> (F[k - 1] * LIMB + x[k]) \div k_RADIX]
           op == [k \in 1 .. LIMBS |-> [v \in D |-> (v * LIMB + x[k]) % k_RADIX]]
<1>1. K!DivRadix(x) = [out |-> out, rem |-> F[LIMBS]]
  BY DEF K!DivRadix
<1>2. LIMB \in Nat \ {0} /\ LIMBS \in Nat /\ k_RADIX \in Nat \ {0}
  BY KsuidConstants
<1>3. x \in Seq(Nat) /\ Len(x) = LIMBS /\ \A k \in 1 .. LIMBS : x[k] \in Nat /\ x[k] < LIMB
  BY LimbsAreDigits
<1>4. ASSUME NEW k \in 1 .. LIMBS, NEW v \in D
      PROVE  (v * LIMB + x[k]) \in Nat /\ (v * LIMB + x[k]) % k_RADIX \in D
  <2>1. PICK y \in Nat, c \in Nat : y = v * LIMB /\ c = x[k]
    <3>1. v \in Nat
      BY <1>2
    <3>2. v * LIMB \in Nat
      BY <1>2, <3>1
    <3>3. x[k] \in Nat
      BY <1>3
    <3> HIDE DEF D
    <3> QED
      BY <3>2, <3>3
  <2>2. y + c \in Nat
    OBVIOUS
  <2>3. (y + c) % k_RADIX \in 0 .. k_RADIX - 1
    BY <1>2, <2>2, DivMod
  <2> QED
    BY <2>1, <2>2, <2>3
<1>5. IsStep(op, LIMBS, D) /\ 0 \in D
  <2>1. 0 \in D
    BY <1>2
  <2> HIDE DEF D
  <2>2. op \in [1 .. LIMBS -> [D -> D]]
    BY <1>4
  <2> QED
    BY <2>1, <2>2 DEF IsStep
<1>6. ASSUME NEW k \in 1 .. LIMBS, NEW v \in D PROVE op[k][v] = (v * LIMB + x[k]) % k_RADIX
  OBVIOUS
<1>7. \E f : Eq(f)
  <2> HIDE DEF op, D
  <2>1. PICK g : Recurs(g, LIMBS, D, 0, op)
    BY <1>2, <1>5, RecursionExists
  <2>2. ASSUME NEW k \in 0 .. LIMBS
        PROVE  g[k] = IF k = 0 THEN 0 ELSE (g[k - 1] * LIMB + x[k]) % k_RADIX
    <3>1. k # 0 => k \in 1 .. LIMBS /\ k - 1 \in 0 .. LIMBS
      BY <1>2
    <3> QED
      BY <1>6, <2>1, <3>1 DEF Recurs
  <2>3. Eq(g)
    BY <2>1, <2>2 DEF Recurs
  <2> HIDE DEF Eq
  <2> QED
    BY <2>3
<1>8. Eq(F)
  <2> HIDE DEF Eq
  <2> QED
    BY <1>7
<1> HIDE DEF F
<1>9. F[0] = 0 /\ \A k \in 1 .. LIMBS : F[k] = (F[k - 1] * LIMB + x[k]) % k_RADIX
  <2>1. \A k \in 0 .. LIMBS : F[k] = IF k = 0 THEN 0 ELSE (F[k - 1] * LIMB + x[k]) % k_RADIX
    BY <1>8
  <2>2. 0 \in 0 .. LIMBS /\ \A k \in 1 .. LIMBS : k \in 0 .. LIMBS /\ k # 0
    BY <1>2
  <2> QED
    BY <2>1, <2>2
<1>10. \A k \in 0 .. LIMBS : F[k] \in D
  <2> DEFINE S == { k \in 0 .. LIMBS : F[k] \in D }
  <2>1. 0 \in S
    BY <1>2, <1>5, <1>9
  <2>2. ASSUME NEW k \in 1 .. LIMBS, k - 1 \in S PROVE k \in S
    <3>1. PICK v \in D : v = F[k - 1]
      BY <2>2
    <3>2. F[k] \in D
      BY <1>4, <1>9, <3>1
    <3> QED
      BY <1>2, <3>2
  <2> HIDE DEF S
  <2>3. \A k \in 0 .. LIMBS : k \in S
    BY <1>2, <2>1, <2>2, Induction
  <2> QED
    BY <2>3 DEF S
\* The division of one limb.
<1>11. ASSUME NEW k \in 1 .. LIMBS
       PROVE  /\ F[k - 1] \in Nat /\ F[k] \in Nat
              /\ out[k] \in 0 .. LIMB - 1
              /\ F[k - 1] * LIMB + x[k] = out[k] * k_RADIX + F[k]
  <2>1. k - 1 \in 0 .. LIMBS /\ k \in 0 .. LIMBS
    BY <1>2
  <2>2. PICK v \in Nat, c \in 0 .. LIMB - 1 : v = F[k - 1] /\ c = x[k] /\ v < k_RADIX /\ c \in Nat
    BY <1>2, <1>3, <1>10, <2>1
  <2>3. PICK y \in Nat : y = v * LIMB + c
    <3>1. v * LIMB + c \in Nat
      BY <1>2, <2>2
    <3> QED
      BY <3>1
  <2>4. v * LIMB + c < k_RADIX * LIMB + 0
    BY <1>2, <2>2, RowOrder
  <2>5. y < LIMB * k_RADIX
    <3>1. k_RADIX * LIMB + 0 = LIMB * k_RADIX
      BY <1>2
    <3> QED
      BY <2>3, <2>4, <3>1
  <2>6. y \div k_RADIX < LIMB /\ y \div k_RADIX \in Nat
    BY <1>2, <2>5, DivLess, DivMod
  <2>7. y = (y \div k_RADIX) * k_RADIX + (y % k_RADIX)
    BY <1>2, DivMod
  <2>8. out[k] = y \div k_RADIX
    BY <2>2, <2>3
  <2>9. F[k] = y % k_RADIX
    BY <1>9, <2>2, <2>3
  <2>10. F[k - 1] \in Nat /\ F[k] \in Nat
    BY <1>2, <1>10, <2>1
  <2> HIDE DEF out
  <2>11. out[k] \in 0 .. LIMB - 1
    BY <1>2, <2>6, <2>8
  <2> QED
    BY <2>2, <2>3, <2>7, <2>8, <2>9, <2>10, <2>11
<1>12. out \in Limbs
  BY <1>11 DEF Limbs
<1> HIDE DEF out, D
<1>13. out \in Seq(Nat) /\ Len(out) = LIMBS /\ \A k \in 1 .. LIMBS : out[k] \in Nat
  BY <1>12, LimbsAreDigits
<1>14. PICK v : Value(v, x, LIMB)
  BY <1>2, <1>3, ValueExists
<1>15. PICK w : Value(w, out, LIMB)
  BY <1>2, <1>13, ValueExists
<1>16. \A k \in 0 .. LIMBS : v[k] \in Nat /\ w[k] \in Nat
  BY <1>3, <1>13, <1>14, <1>15 DEF Value
<1> DEFINE T == { k \in 0 .. LIMBS : v[k] = w[k] * k_RADIX + F[k] }
<1>17. 0 \in T
  BY <1>2, <1>9, <1>14, <1>15 DEF Value
<1>18. ASSUME NEW k \in 1 .. LIMBS, k - 1 \in T PROVE k \in T
  <2>1. k - 1 \in 0 .. LIMBS /\ k \in 0 .. LIMBS
    BY <1>2
  <2>2. PICK a \in Nat, f \in Nat, c \in Nat, o \in Nat, g \in Nat :
          a = w[k - 1] /\ f = F[k - 1] /\ c = x[k] /\ o = out[k] /\ g = F[k]
    BY <1>3, <1>11, <1>13, <1>16, <2>1
  <2>3. v[k - 1] = a * k_RADIX + f
    BY <1>18, <2>2
  <2>4. v[k] = (a * k_RADIX + f) * LIMB + c
    BY <1>3, <1>14, <2>2, <2>3 DEF Value
  <2>5. w[k] = a * LIMB + o
    BY <1>13, <1>15, <2>2 DEF Value
  <2>6. f * LIMB + c = o * k_RADIX + g
    BY <1>11, <2>2
  <2>7. (a * k_RADIX + f) * LIMB + c = (a * k_RADIX) * LIMB + (f * LIMB + c)
    BY <1>2
  <2>8. (a * LIMB + o) * k_RADIX + g = (a * k_RADIX) * LIMB + (o * k_RADIX + g)
    BY <1>2
  <2>9. v[k] = w[k] * k_RADIX + F[k]
    BY <2>2, <2>4, <2>5, <2>6, <2>7, <2>8
  <2> QED
    BY <2>1, <2>9
<1> HIDE DEF T
<1>19. \A k \in 0 .. LIMBS : k \in T
  BY <1>2, <1>17, <1>18, Induction
<1>20. LIMBS \in 0 .. LIMBS
  BY <1>2
<1>21. v[LIMBS] = w[LIMBS] * k_RADIX + F[LIMBS]
  BY <1>19, <1>20 DEF T
<1>22. PICK q \in Nat, r \in 0 .. k_RADIX - 1 : q = w[LIMBS] /\ r = F[LIMBS]
  BY <1>10, <1>16, <1>20 DEF D
<1>23. (q * k_RADIX + r) \div k_RADIX = q /\ (q * k_RADIX + r) % k_RADIX = r
  BY <1>2, DivUnique
<1>24. K!Number(x) = v[LIMBS] /\ K!Number(out) = w[LIMBS]
  BY <1>3, <1>13, <1>14, <1>15, NumberIsValue
<1> QED
  BY <1>1, <1>12, <1>21, <1>22, <1>23, <1>24

\* A number is below the weight that follows its digits.
LEMMA ValueBelow ==
  ASSUME NEW n \in Nat, NEW b \in Nat \ {0}, NEW w, Weights(w, n, b),
         NEW d \in Seq(Nat), Len(d) = n, \A k \in 1 .. n : d[k] < b,
         NEW val, Value(val, d, b)
  PROVE  val[n] \in Nat /\ val[n] < w[n]
<1>1. \A k \in 0 .. n : val[k] \in Nat /\ w[k] \in Nat \ {0}
  BY DEF Value, Weights
<1> DEFINE S == { k \in 0 .. n : val[k] < w[k] }
<1>2. 0 \in S
  BY DEF Value, Weights
<1>3. ASSUME NEW k \in 1 .. n, k - 1 \in S PROVE k \in S
  <2>1. k \in 0 .. n /\ k - 1 \in 0 .. n /\ k \in 1 .. Len(d)
    OBVIOUS
  <2>2. PICK x \in Nat, y \in Nat : x = val[k - 1] /\ y = w[k - 1] /\ x < y
    BY <1>1, <1>3, <2>1
  <2>3. PICK r \in 0 .. b - 1 : r = d[k]
    <3>1. d[k] \in Nat /\ d[k] < b
      OBVIOUS
    <3> QED
      BY <3>1
  <2>4. val[k] = x * b + r
    BY <2>1, <2>2, <2>3 DEF Value
  <2>5. w[k] = y * b
    BY <2>2 DEF Weights
  <2>6. x * b + r < y * b + 0
    BY <2>2, RowOrder
  <2>7. y * b \in Nat
    OBVIOUS
  <2> QED
    BY <2>1, <2>4, <2>5, <2>6, <2>7
<1> HIDE DEF S
<1>4. \A k \in 0 .. n : k \in S
  BY <1>2, <1>3, Induction
<1>5. n \in 0 .. n
  OBVIOUS
<1> QED
  BY <1>1, <1>4, <1>5 DEF S

LEMMA LimbsBelow ==
  ASSUME NEW x \in Limbs
  PROVE  K!Number(x) \in Nat /\ K!Number(x) < K!Power(LIMB, LIMBS)
<1>1. LIMB \in Nat \ {0} /\ LIMBS \in Nat /\ LIMBS > 1
  BY KsuidConstants
<1>2. x \in Seq(Nat) /\ Len(x) = LIMBS /\ \A k \in 1 .. LIMBS : x[k] \in Nat /\ x[k] < LIMB
  BY LimbsAreDigits
<1>3. PICK v : Value(v, x, LIMB)
  BY <1>1, <1>2, ValueExists
<1>4. PICK w : Weights(w, LIMBS, LIMB) /\ K!Power(LIMB, LIMBS) = w[LIMBS]
  BY <1>1, PowerIs
<1>5. v[LIMBS] \in Nat /\ v[LIMBS] < w[LIMBS]
  BY <1>1, <1>2, <1>3, <1>4, ValueBelow
<1>6. K!Number(x) = v[LIMBS]
  BY <1>2, <1>3, NumberIsValue
<1> QED
  BY <1>4, <1>5, <1>6

\* The characters of an identifier are the digits of its number.
LEMMA EncodeDigits ==
  ASSUME NEW x \in Limbs, NEW w, Weights(w, STRING_LEN, k_RADIX)
  PROVE  /\ K!encode_value(x) \in [1 .. STRING_LEN -> 0 .. k_RADIX - 1]
         /\ \A i \in 1 .. STRING_LEN :
              K!encode_value(x)[i] = (K!Number(x) \div w[STRING_LEN - i]) % k_RADIX
<1> DEFINE Eq(f) == f = [k \in 0 .. STRING_LEN |->
                           IF k = 0 THEN x ELSE K!DivRadix(f[k - 1]).out]
           F == CHOOSE f : Eq(f)
           op == [k \in 1 .. STRING_LEN |-> [v \in Limbs |-> K!DivRadix(v).out]]
           N == K!Number(x)
<1>1. K!encode_value(x) = [i \in 1 .. STRING_LEN |-> K!DivRadix(F[STRING_LEN - i]).rem]
  BY DEF K!encode_value
<1>2. STRING_LEN \in Nat /\ k_RADIX \in Nat \ {0}
  BY KsuidConstants
<1>3. IsStep(op, STRING_LEN, Limbs)
  BY DivRadixDivides DEF IsStep
<1>4. \A k \in 1 .. STRING_LEN : \A v \in Limbs : op[k][v] = K!DivRadix(v).out
  OBVIOUS
<1>5. \E f : Eq(f)
  <2> HIDE DEF op
  <2>1. PICK g : Recurs(g, STRING_LEN, Limbs, x, op)
    BY <1>2, <1>3, RecursionExists
  <2>2. ASSUME NEW k \in 0 .. STRING_LEN
        PROVE  g[k] = IF k = 0 THEN x ELSE K!DivRadix(g[k - 1]).out
    <3>1. k # 0 => k \in 1 .. STRING_LEN /\ k - 1 \in 0 .. STRING_LEN
      BY <1>2
    <3> QED
      BY <1>4, <2>1, <3>1 DEF Recurs
  <2>3. Eq(g)
    BY <2>1, <2>2 DEF Recurs
  <2> HIDE DEF Eq
  <2> QED
    BY <2>3
<1>6. Eq(F)
  <2> HIDE DEF Eq
  <2> QED
    BY <1>5
<1> HIDE DEF F
<1>7. F[0] = x /\ \A k \in 1 .. STRING_LEN : F[k] = K!DivRadix(F[k - 1]).out
  <2>1. \A k \in 0 .. STRING_LEN : F[k] = IF k = 0 THEN x ELSE K!DivRadix(F[k - 1]).out
    BY <1>6
  <2>2. 0 \in 0 .. STRING_LEN /\ \A k \in 1 .. STRING_LEN : k \in 0 .. STRING_LEN /\ k # 0
    BY <1>2
  <2> QED
    BY <2>1, <2>2
<1>8. N \in Nat
  BY LimbsBelow
<1> DEFINE S == { k \in 0 .. STRING_LEN : F[k] \in Limbs /\ K!Number(F[k]) = N \div w[k] }
<1>9. 0 \in S
  <2>1. w[0] = 1 /\ N \div 1 = N
    BY <1>8 DEF Weights
  <2> QED
    BY <1>2, <1>7, <2>1
<1> HIDE DEF N
<1>10. ASSUME NEW k \in 1 .. STRING_LEN, k - 1 \in S PROVE k \in S
  <2>1. PICK v \in Limbs : v = F[k - 1] /\ K!Number(v) = N \div w[k - 1]
    BY <1>10
  <2>2. F[k] \in Limbs /\ K!Number(F[k]) = K!Number(v) \div k_RADIX
    BY <1>7, <2>1, DivRadixDivides
  <2>3. k - 1 \in 0 .. STRING_LEN /\ k \in 0 .. STRING_LEN
    BY <1>2
  <2>4. PICK p \in Nat \ {0} : p = w[k - 1]
    BY <2>3 DEF Weights
  <2>5. w[k] = p * k_RADIX
    BY <2>4 DEF Weights
  <2>6. (N \div p) \div k_RADIX = N \div (p * k_RADIX)
    BY <1>2, <1>8, DivDiv
  <2> QED
    BY <2>1, <2>2, <2>3, <2>4, <2>5, <2>6
<1> HIDE DEF S
<1>11. \A k \in 0 .. STRING_LEN : k \in S
  BY <1>2, <1>9, <1>10, Induction
<1>12. ASSUME NEW i \in 1 .. STRING_LEN
       PROVE  /\ K!encode_value(x)[i] = (N \div w[STRING_LEN - i]) % k_RADIX
              /\ K!encode_value(x)[i] \in 0 .. k_RADIX - 1
  <2>1. STRING_LEN - i \in 0 .. STRING_LEN
    BY <1>2
  <2>2. PICK v \in Limbs : v = F[STRING_LEN - i] /\ K!Number(v) = N \div w[STRING_LEN - i]
    BY <1>11, <2>1 DEF S
  <2>3. K!encode_value(x)[i] = K!DivRadix(v).rem
    BY <1>1, <2>2
  <2>4. PICK n \in Nat : n = K!Number(v)
    BY LimbsBelow
  <2>5. K!DivRadix(v).rem = n % k_RADIX
    BY <2>4, DivRadixDivides
  <2>6. n % k_RADIX \in 0 .. k_RADIX - 1
    BY <1>2, DivMod
  <2> QED
    BY <2>2, <2>3, <2>4, <2>5, <2>6
<1>13. K!encode_value(x) = [i \in 1 .. STRING_LEN |-> K!encode_value(x)[i]]
  BY <1>1
<1>14. K!encode_value(x) \in [1 .. STRING_LEN -> 0 .. k_RADIX - 1]
  BY <1>12, <1>13
<1> QED
  BY <1>12, <1>14 DEF N

LEMMA TextIsDigits ==
  ASSUME NEW t \in [1 .. STRING_LEN -> 0 .. k_RADIX - 1]
  PROVE  /\ t \in Seq(Nat) /\ Len(t) = STRING_LEN
         /\ \A i \in 1 .. STRING_LEN : t[i] \in Nat /\ t[i] < k_RADIX /\ t[i] # K!Junk
<1>1. STRING_LEN \in Nat /\ k_RADIX \in Nat /\ 0 .. k_RADIX - 1 \subseteq Nat
  BY KsuidConstants
<1>2. t \in [1 .. STRING_LEN -> Nat]
  BY <1>1
<1>3. t \in Seq(Nat) /\ Len(t) = STRING_LEN
  BY <1>1, <1>2
<1>4. \A i \in 1 .. STRING_LEN : t[i] \in 0 .. k_RADIX - 1
  OBVIOUS
<1> QED
  BY <1>1, <1>3, <1>4 DEF K!Junk

\* The text of an identifier spells its number,
LEMMA EncodeSpells ==
  ASSUME NEW x \in Limbs
  PROVE  /\ K!encode_value(x) \in [1 .. STRING_LEN -> 0 .. k_RADIX - 1]
         /\ K!Spelled(K!encode_value(x)) = K!Number(x)
<1>1. STRING_LEN \in Nat /\ k_RADIX \in Nat \ {0}
  BY KsuidConstants
<1>2. PICK w : Weights(w, STRING_LEN, k_RADIX) /\ K!Power(k_RADIX, STRING_LEN) = w[STRING_LEN]
  BY <1>1, PowerIs
<1>3. /\ K!encode_value(x) \in [1 .. STRING_LEN -> 0 .. k_RADIX - 1]
      /\ \A i \in 1 .. STRING_LEN :
           K!encode_value(x)[i] = (K!Number(x) \div w[STRING_LEN - i]) % k_RADIX
  BY <1>2, EncodeDigits
<1>4. PICK d \in Seq(Nat) : d = K!encode_value(x) /\ Len(d) = STRING_LEN
  BY <1>3, TextIsDigits
<1>5. PICK v : Value(v, d, k_RADIX)
  BY <1>1, ValueExists
<1>6. K!Spelled(d) = v[STRING_LEN]
  BY <1>4, <1>5, KsuidSpelledIsValue
<1>7. PICK n \in Nat : n = K!Number(x) /\ n < w[STRING_LEN]
  <2>1. K!Number(x) \in Nat /\ K!Number(x) < K!Power(LIMB, LIMBS)
    BY LimbsBelow
  <2>2. PICK u : Weights(u, LIMBS, LIMB) /\ K!Power(LIMB, LIMBS) = u[LIMBS]
    BY PowerIs, KsuidConstants
  <2>3. u[LIMBS] \in Nat /\ w[STRING_LEN] \in Nat
    BY <1>1, <1>2, <2>2, KsuidConstants DEF Weights
  <2>4. w[STRING_LEN] >= u[LIMBS]
    BY <1>2, <2>2, KsuidConstants
  <2> QED
    BY <2>1, <2>2, <2>3, <2>4
<1>8. \A i \in 1 .. STRING_LEN : d[i] = (n \div w[STRING_LEN - i]) % k_RADIX
  BY <1>3, <1>4, <1>7
<1>9. v[STRING_LEN] = n
  <2>1. PICK m \in Nat, b \in Nat \ {0} : m = STRING_LEN /\ b = k_RADIX
    BY <1>1
  <2>2. /\ Weights(w, m, b) /\ n < w[m] /\ Len(d) = m /\ Value(v, d, b)
        /\ \A i \in 1 .. m : d[i] = (n \div w[m - i]) % b
    BY <1>2, <1>4, <1>5, <1>7, <1>8, <2>1
  <2>3. v[m] = n
    BY <2>2, DigitsSpell
  <2> QED
    BY <2>1, <2>3
<1> QED
  BY <1>3, <1>4, <1>6, <1>7, <1>9

\* and no other text does.
LEMMA SpelledOnce ==
  ASSUME NEW x \in Limbs, NEW t \in [1 .. STRING_LEN -> 0 .. k_RADIX - 1],
         K!Spelled(t) = K!Number(x)
  PROVE  K!encode_value(x) = t
<1>1. STRING_LEN \in Nat /\ k_RADIX \in Nat \ {0}
  BY KsuidConstants
<1>2. PICK w : Weights(w, STRING_LEN, k_RADIX)
  BY <1>1, PowerIs
<1>3. /\ K!encode_value(x) \in [1 .. STRING_LEN -> 0 .. k_RADIX - 1]
      /\ \A i \in 1 .. STRING_LEN :
           K!encode_value(x)[i] = (K!Number(x) \div w[STRING_LEN - i]) % k_RADIX
  BY <1>2, EncodeDigits
<1>4. PICK d \in Seq(Nat) : d = t /\ Len(d) = STRING_LEN /\ \A i \in 1 .. STRING_LEN : d[i] < k_RADIX
  BY TextIsDigits
<1>5. PICK v : Value(v, d, k_RADIX)
  BY <1>1, ValueExists
<1>6. v[STRING_LEN] = K!Number(x)
  BY <1>4, <1>5, KsuidSpelledIsValue
<1>7. ASSUME NEW i \in 1 .. STRING_LEN
      PROVE  (v[STRING_LEN] \div w[STRING_LEN - i]) % k_RADIX = d[i]
  BY <1>1, <1>2, <1>4, <1>5, SpelledDigit
<1>8. \A i \in 1 .. STRING_LEN : K!encode_value(x)[i] = t[i]
  BY <1>3, <1>4, <1>6, <1>7
<1>9. PICK e \in [1 .. STRING_LEN -> 0 .. k_RADIX - 1] : e = K!encode_value(x)
  BY <1>3
<1>10. e = t
  <2>1. \A i \in 1 .. STRING_LEN : e[i] = t[i]
    BY <1>8, <1>9
  <2>2. e = [i \in 1 .. STRING_LEN |-> e[i]] /\ t = [i \in 1 .. STRING_LEN |-> t[i]]
    OBVIOUS
  <2> QED
    BY <2>1, <2>2
<1> QED
  BY <1>9, <1>10

\* A multiplication of the limbs is one of their number, and the carry is
\* what does not fit.
LEMMA MulRadixMultiplies ==
  ASSUME NEW x \in Limbs, NEW digit \in 0 .. k_RADIX - 1
  PROVE  /\ K!MulRadix(x, digit).out \in Limbs
         /\ K!MulRadix(x, digit).carry \in 0 .. k_RADIX - 1
         /\ K!Number(x) * k_RADIX + digit
              = K!MulRadix(x, digit).carry * K!Power(LIMB, LIMBS) + K!Number(K!MulRadix(x, digit).out)
<1> DEFINE D == 0 .. k_RADIX - 1
           Eq(f) == f = [k \in 0 .. LIMBS |->
                           IF k = 0 THEN digit ELSE (x[LIMBS + 1 - k] * k_RADIX + f[k - 1]) \div LIMB]
           F == CHOOSE f : Eq(f)
           out == [i \in 1 .. LIMBS |-> (x[i] * k_RADIX + F[LIMBS - i]) % LIMB]
           op == [k \in 1 .. LIMBS |-> [v \in D |-> (x[LIMBS + 1 - k] * k_RADIX + v) \div LIMB]]
<1>1. K!MulRadix(x, digit) = [out |-> out, carry |-> F[LIMBS]]
  BY DEF K!MulRadix
<1>2. LIMB \in Nat \ {0} /\ LIMBS \in Nat /\ k_RADIX \in Nat \ {0}
  BY KsuidConstants
<1>3. x \in Seq(Nat) /\ Len(x) = LIMBS /\ \A k \in 1 .. LIMBS : x[k] \in Nat /\ x[k] < LIMB
  BY LimbsAreDigits
\* The multiplication of one limb.
<1>4. ASSUME NEW i \in 1 .. LIMBS, NEW v \in D
      PROVE  /\ (x[i] * k_RADIX + v) \div LIMB \in D
             /\ (x[i] * k_RADIX + v) % LIMB \in 0 .. LIMB - 1
             /\ x[i] * k_RADIX + v
                  = ((x[i] * k_RADIX + v) \div LIMB) * LIMB + ((x[i] * k_RADIX + v) % LIMB)
  <2>1. PICK c \in Nat : c = x[i] /\ c < LIMB
    BY <1>3
  <2>2. v \in Nat /\ v \in 0 .. k_RADIX - 1
    BY <1>2
  <2>3. PICK y \in Nat : y = c * k_RADIX + v
    <3>1. c * k_RADIX + v \in Nat
      BY <1>2, <2>2
    <3> QED
      BY <3>1
  <2>4. y < k_RADIX * LIMB
    <3>1. c * k_RADIX + v < LIMB * k_RADIX + 0
      BY <1>2, <2>1, <2>2, RowOrder
    <3>2. LIMB * k_RADIX + 0 = k_RADIX * LIMB
      BY <1>2
    <3> QED
      BY <2>3, <3>1, <3>2
  <2>5. y \div LIMB < k_RADIX /\ y \div LIMB \in Nat
    BY <1>2, <2>4, DivLess, DivMod
  <2>6. y \div LIMB \in D
    BY <1>2, <2>5
  <2>7. y % LIMB \in 0 .. LIMB - 1 /\ y = (y \div LIMB) * LIMB + (y % LIMB)
    BY <1>2, DivMod
  <2> HIDE DEF D
  <2> QED
    BY <2>1, <2>3, <2>6, <2>7
<1>5. \A k \in 1 .. LIMBS : LIMBS + 1 - k \in 1 .. LIMBS
  BY <1>2
<1> HIDE DEF D
<1>6. IsStep(op, LIMBS, D)
  BY <1>4, <1>5 DEF IsStep
<1>7. \A k \in 1 .. LIMBS : \A v \in D : op[k][v] = (x[LIMBS + 1 - k] * k_RADIX + v) \div LIMB
  OBVIOUS
<1>8. \E f : Eq(f)
  <2> HIDE DEF op
  <2>1. PICK g : Recurs(g, LIMBS, D, digit, op)
    BY <1>2, <1>6, RecursionExists DEF D
  <2>2. ASSUME NEW k \in 0 .. LIMBS
        PROVE  g[k] = IF k = 0 THEN digit ELSE (x[LIMBS + 1 - k] * k_RADIX + g[k - 1]) \div LIMB
    <3>1. k # 0 => k \in 1 .. LIMBS /\ k - 1 \in 0 .. LIMBS
      BY <1>2
    <3> QED
      BY <1>7, <2>1, <3>1 DEF Recurs
  <2>3. Eq(g)
    BY <2>1, <2>2 DEF Recurs
  <2> HIDE DEF Eq
  <2> QED
    BY <2>3
<1>9. Eq(F)
  <2> HIDE DEF Eq
  <2> QED
    BY <1>8
<1> HIDE DEF F
<1>10. /\ F[0] = digit
       /\ \A k \in 1 .. LIMBS : F[k] = (x[LIMBS + 1 - k] * k_RADIX + F[k - 1]) \div LIMB
  <2>1. \A k \in 0 .. LIMBS :
          F[k] = IF k = 0 THEN digit ELSE (x[LIMBS + 1 - k] * k_RADIX + F[k - 1]) \div LIMB
    BY <1>9
  <2>2. 0 \in 0 .. LIMBS /\ \A k \in 1 .. LIMBS : k \in 0 .. LIMBS /\ k # 0
    BY <1>2
  <2> QED
    BY <2>1, <2>2
<1>11. \A k \in 0 .. LIMBS : F[k] \in D
  <2> DEFINE S == { k \in 0 .. LIMBS : F[k] \in D }
  <2>1. 0 \in S
    BY <1>2, <1>10 DEF D
  <2>2. ASSUME NEW k \in 1 .. LIMBS, k - 1 \in S PROVE k \in S
    <3>1. PICK v \in D : v = F[k - 1]
      BY <2>2
    <3>2. PICK i \in 1 .. LIMBS : i = LIMBS + 1 - k
      BY <1>5
    <3>3. F[k] = (x[i] * k_RADIX + v) \div LIMB
      BY <1>10, <3>1, <3>2
    <3>4. F[k] \in D
      BY <1>4, <3>3
    <3>5. k \in 0 .. LIMBS
      BY <1>2
    <3> QED
      BY <3>4, <3>5
  <2> HIDE DEF S
  <2>3. \A k \in 0 .. LIMBS : k \in S
    BY <1>2, <2>1, <2>2, Induction
  <2> QED
    BY <2>3 DEF S
\* What limb i takes over from the right and hands on to the left.
<1> DEFINE c == [i \in 0 .. LIMBS |-> F[LIMBS - i]]
<1>12. \A i \in 0 .. LIMBS : c[i] \in D /\ c[i] = F[LIMBS - i]
  <2>1. \A i \in 0 .. LIMBS : LIMBS - i \in 0 .. LIMBS
    BY <1>2
  <2> QED
    BY <1>11, <2>1
<1>13. ASSUME NEW i \in 1 .. LIMBS
       PROVE  out[i] \in 0 .. LIMB - 1 /\ x[i] * k_RADIX + c[i] = c[i - 1] * LIMB + out[i]
  <2>1. i \in 0 .. LIMBS /\ i - 1 \in 0 .. LIMBS
    BY <1>2
  <2>2. PICK v \in D : v = c[i] /\ v = F[LIMBS - i]
    BY <1>12, <2>1
  <2>3. PICK k \in 1 .. LIMBS : k = LIMBS - (i - 1) /\ LIMBS + 1 - k = i /\ k - 1 = LIMBS - i
    <3>1. /\ LIMBS - (i - 1) \in 1 .. LIMBS /\ LIMBS + 1 - (LIMBS - (i - 1)) = i
          /\ LIMBS - (i - 1) - 1 = LIMBS - i
      BY <1>2
    <3> QED
      BY <3>1
  <2>4. F[k] = (x[i] * k_RADIX + v) \div LIMB
    BY <1>10, <2>2, <2>3
  <2>5. c[i - 1] = (x[i] * k_RADIX + v) \div LIMB
    BY <1>12, <2>1, <2>3, <2>4
  <2>6. out[i] = (x[i] * k_RADIX + v) % LIMB
    BY <2>2
  <2> HIDE DEF out, c
  <2> QED
    BY <1>4, <2>2, <2>5, <2>6
<1>14. out \in Limbs
  BY <1>13 DEF Limbs
<1>15. c[0] = F[LIMBS] /\ c[LIMBS] = digit
  <2>1. 0 \in 0 .. LIMBS /\ LIMBS \in 0 .. LIMBS /\ LIMBS - 0 = LIMBS /\ LIMBS - LIMBS = 0
    BY <1>2
  <2> QED
    BY <1>10, <1>12, <2>1
<1> HIDE DEF out, c
<1>16. out \in Seq(Nat) /\ Len(out) = LIMBS /\ \A k \in 1 .. LIMBS : out[k] \in Nat
  BY <1>14, LimbsAreDigits
<1>17. PICK v : Value(v, x, LIMB)
  BY <1>2, <1>3, ValueExists
<1>18. PICK w : Value(w, out, LIMB)
  BY <1>2, <1>16, ValueExists
<1>19. PICK p : Weights(p, LIMBS, LIMB) /\ K!Power(LIMB, LIMBS) = p[LIMBS]
  BY <1>2, PowerIs
<1>20. \A k \in 0 .. LIMBS : v[k] \in Nat /\ w[k] \in Nat /\ p[k] \in Nat /\ c[k] \in Nat
  <2>1. \A k \in 0 .. LIMBS : v[k] \in Nat /\ w[k] \in Nat /\ p[k] \in Nat
    BY <1>3, <1>16, <1>17, <1>18, <1>19 DEF Value, Weights
  <2>2. D \subseteq Nat
    BY <1>2 DEF D
  <2> QED
    BY <1>12, <2>1, <2>2
<1> DEFINE T == { k \in 0 .. LIMBS : v[k] * k_RADIX + c[k] = c[0] * p[k] + w[k] }
<1>21. 0 \in T
  <2>1. v[0] = 0 /\ w[0] = 0 /\ p[0] = 1 /\ 0 \in 0 .. LIMBS
    BY <1>2, <1>17, <1>18, <1>19 DEF Value, Weights
  <2>2. PICK a \in Nat : a = c[0]
    BY <1>20, <2>1
  <2>3. 0 * k_RADIX + a = a * 1 + 0
    BY <1>2
  <2> QED
    BY <2>1, <2>2, <2>3
<1>22. ASSUME NEW k \in 1 .. LIMBS, k - 1 \in T PROVE k \in T
  <2>1. k - 1 \in 0 .. LIMBS /\ k \in 0 .. LIMBS /\ 0 \in 0 .. LIMBS
    BY <1>2
  <2>2. PICK a \in Nat, b \in Nat, q \in Nat, l \in Nat, o \in Nat, r \in Nat, s \in Nat, z \in Nat :
          /\ a = v[k - 1] /\ b = w[k - 1] /\ q = p[k - 1] /\ l = x[k] /\ o = out[k]
          /\ r = c[k - 1] /\ s = c[k] /\ z = c[0]
    BY <1>3, <1>16, <1>20, <2>1
  <2>3. a * k_RADIX + r = z * q + b
    BY <1>22, <2>2
  <2>4. v[k] = a * LIMB + l /\ w[k] = b * LIMB + o /\ p[k] = q * LIMB
    BY <1>3, <1>16, <1>17, <1>18, <1>19, <2>2 DEF Value, Weights
  <2>5. l * k_RADIX + s = r * LIMB + o
    BY <1>13, <2>2
  <2>6. (a * LIMB + l) * k_RADIX + s = (a * k_RADIX) * LIMB + (l * k_RADIX + s)
    BY <1>2
  <2>7. (a * k_RADIX) * LIMB + (r * LIMB + o) = (a * k_RADIX + r) * LIMB + o
    BY <1>2
  <2>8. (z * q + b) * LIMB + o = z * (q * LIMB) + (b * LIMB + o)
    BY <1>2
  <2>9. v[k] * k_RADIX + c[k] = c[0] * p[k] + w[k]
    BY <2>2, <2>3, <2>4, <2>5, <2>6, <2>7, <2>8
  <2> QED
    BY <2>1, <2>9
<1> HIDE DEF T
<1>23. \A k \in 0 .. LIMBS : k \in T
  BY <1>2, <1>21, <1>22, Induction
<1>24. LIMBS \in 0 .. LIMBS
  BY <1>2
<1>25. v[LIMBS] * k_RADIX + digit = F[LIMBS] * p[LIMBS] + w[LIMBS]
  BY <1>15, <1>23, <1>24 DEF T
<1>26. K!Number(x) = v[LIMBS] /\ K!Number(out) = w[LIMBS]
  BY <1>3, <1>16, <1>17, <1>18, NumberIsValue
<1>27. F[LIMBS] \in 0 .. k_RADIX - 1
  BY <1>11, <1>24 DEF D
<1> QED
  BY <1>1, <1>14, <1>19, <1>25, <1>26, <1>27

\* What the decoder has after k characters: the number they spell, if it
\* has found nothing wrong.
Reading == [ok : {TRUE}, value : Limbs]
             \cup [ok : {FALSE}, error : {"InvalidCharacter", "KsuidValueTooLarge"}]

Reads(s, t, k, n) ==
  /\ s \in Reading
  /\ s.ok => (\A i \in 1 .. k : t[i] # K!Junk) /\ K!Number(s.value) = n
  /\ ~s.ok => (\E i \in 1 .. k : t[i] = K!Junk) \/ n >= K!Power(LIMB, LIMBS)

LEMMA DecodeStepType ==
  ASSUME NEW t \in Seq(0 .. k_RADIX), NEW s \in Reading, NEW i \in 1 .. Len(t)
  PROVE  K!DecodeStep(t, s, i) \in Reading
<1>1. CASE ~s.ok
  BY <1>1 DEF K!DecodeStep
<1>2. CASE s.ok /\ t[i] = K!Junk
  BY <1>2 DEF K!DecodeStep, K!Err, Reading
<1>3. CASE s.ok /\ t[i] # K!Junk
  <2>1. s.value \in Limbs
    BY <1>3 DEF Reading
  <2>2. t[i] \in 0 .. k_RADIX - 1
    <3>1. t[i] \in 0 .. k_RADIX /\ k_RADIX \in Nat
      BY KsuidConstants
    <3> QED
      BY <1>3, <3>1 DEF K!Junk
  <2>3. K!MulRadix(s.value, t[i]).out \in Limbs
    BY <2>1, <2>2, MulRadixMultiplies
  <2> QED
    BY <1>3, <2>3 DEF K!DecodeStep, K!Ok, K!Err, Reading
<1> QED
  BY <1>1, <1>2, <1>3

LEMMA DecodeStepReads ==
  ASSUME NEW t \in Seq(0 .. k_RADIX), NEW i \in 1 .. Len(t), NEW n \in Nat, NEW s,
         Reads(s, t, i - 1, n)
  PROVE  Reads(K!DecodeStep(t, s, i), t, i, n * k_RADIX + t[i])
<1>1. t[i] \in 0 .. k_RADIX /\ k_RADIX \in Nat \ {0} /\ LIMB \in Nat \ {0} /\ LIMBS \in Nat
  BY KsuidConstants
<1>2. PICK c \in Nat : c = t[i]
  BY <1>1
<1>3. s \in Reading /\ K!DecodeStep(t, s, i) \in Reading
  BY DecodeStepType DEF Reads
<1>4. \A j \in 1 .. i : j \in 1 .. i - 1 \/ j = i
  OBVIOUS
<1>5. \A j \in 1 .. i - 1 : j \in 1 .. i
  OBVIOUS
<1>6. i \in 1 .. i
  OBVIOUS
<1>7. PICK p \in Nat \ {0} : p = K!Power(LIMB, LIMBS)
  <2>1. PICK w : Weights(w, LIMBS, LIMB) /\ K!Power(LIMB, LIMBS) = w[LIMBS]
    BY <1>1, PowerIs
  <2>2. LIMBS \in 0 .. LIMBS
    BY <1>1
  <2> QED
    BY <2>1, <2>2 DEF Weights
<1>8. CASE ~s.ok
  <2>1. K!DecodeStep(t, s, i) = s
    BY <1>8 DEF K!DecodeStep
  <2>2. CASE \E j \in 1 .. i - 1 : t[j] = K!Junk
    BY <1>3, <1>5, <1>8, <2>1, <2>2 DEF Reads
  <2>3. CASE n >= p
    <3>1. n * 1 <= n * k_RADIX
      <4>1. 1 * n <= k_RADIX * n
        <5>1. CASE n = 0
          BY <1>1, <5>1
        <5>2. CASE n # 0
          BY <1>1, <5>2, TimesOrder
        <5> QED
          BY <5>1, <5>2
      <4>2. 1 * n = n * 1 /\ k_RADIX * n = n * k_RADIX
        BY <1>1
      <4> QED
        BY <4>1, <4>2
    <3>2. PICK y \in Nat : y = n * k_RADIX /\ n <= y
      BY <1>1, <3>1
    <3>3. n * k_RADIX + t[i] >= p
      BY <1>2, <2>3, <3>2
    <3> QED
      BY <1>3, <1>7, <1>8, <2>1, <3>3 DEF Reads
  <2> QED
    BY <1>7, <1>8, <2>2, <2>3 DEF Reads
<1>9. CASE s.ok /\ t[i] = K!Junk
  <2>1. K!DecodeStep(t, s, i).ok = FALSE
    BY <1>9 DEF K!DecodeStep, K!Err
  <2> QED
    BY <1>3, <1>6, <1>9, <2>1 DEF Reads
<1>10. CASE s.ok /\ t[i] # K!Junk
  <2>1. s.value \in Limbs /\ K!Number(s.value) = n /\ \A j \in 1 .. i - 1 : t[j] # K!Junk
    BY <1>3, <1>10 DEF Reads, Reading
  <2>2. t[i] \in 0 .. k_RADIX - 1
    BY <1>1, <1>10 DEF K!Junk
  <2> DEFINE m == K!MulRadix(s.value, t[i])
  <2>3. m.out \in Limbs /\ m.carry \in 0 .. k_RADIX - 1
    BY <2>1, <2>2, MulRadixMultiplies
  <2>4. n * k_RADIX + t[i] = m.carry * K!Power(LIMB, LIMBS) + K!Number(m.out)
    BY <2>1, <2>2, MulRadixMultiplies
  <2>5. K!DecodeStep(t, s, i) = IF m.carry = 0 THEN K!Ok(m.out) ELSE K!Err("KsuidValueTooLarge")
    BY <1>10 DEF K!DecodeStep, K!Fits
  <2> HIDE DEF m
  <2>6. PICK a \in Nat, b \in Nat : a = m.carry /\ b = K!Number(m.out)
    BY <1>1, <2>3, LimbsBelow
  <2>7. CASE a = 0
    <3>1. 0 * p + b = b
      OBVIOUS
    <3>2. n * k_RADIX + t[i] = K!Number(m.out)
      BY <1>7, <2>4, <2>6, <2>7, <3>1
    <3>3. K!DecodeStep(t, s, i).ok /\ K!DecodeStep(t, s, i).value = m.out
      BY <2>5, <2>6, <2>7 DEF K!Ok
    <3>4. \A j \in 1 .. i : t[j] # K!Junk
      BY <1>4, <1>10, <2>1
    <3> QED
      BY <1>3, <3>2, <3>3, <3>4 DEF Reads
  <2>8. CASE a # 0
    <3>1. 1 * p <= a * p
      BY <2>8, TimesOrder
    <3>2. PICK y \in Nat : y = a * p
      OBVIOUS
    <3>3. n * k_RADIX + t[i] >= p
      BY <1>7, <2>4, <2>6, <3>1, <3>2
    <3>4. ~K!DecodeStep(t, s, i).ok
      BY <2>5, <2>6, <2>8 DEF K!Err
    <3> QED
      BY <1>3, <1>7, <3>3, <3>4 DEF Reads
  <2> QED
    BY <2>7, <2>8
<1>11. s.ok \in BOOLEAN
  BY <1>3 DEF Reading
<1> QED
  BY <1>8, <1>9, <1>10, <1>11

LEMMA DecodeReads ==
  ASSUME NEW t \in Seq(0 .. k_RADIX), Len(t) = STRING_LEN, NEW val, Value(val, t, k_RADIX)
  PROVE  Reads(K!decode_bytes(t), t, STRING_LEN, val[STRING_LEN])
<1> DEFINE Zero == [i \in 1 .. LIMBS |-> 0]
           Eq(f) == f = [k \in 0 .. STRING_LEN |->
                           IF k = 0 THEN K!Ok(Zero) ELSE K!DecodeStep(t, f[k - 1], k)]
           F == CHOOSE f : Eq(f)
           op == [k \in 1 .. STRING_LEN |-> [s \in Reading |-> K!DecodeStep(t, s, k)]]
<1>1. K!decode_bytes(t) = F[STRING_LEN]
  BY DEF K!decode_bytes
<1>2. STRING_LEN \in Nat /\ k_RADIX \in Nat \ {0} /\ LIMB \in Nat \ {0} /\ LIMBS \in Nat
  BY KsuidConstants
<1>3. Zero \in Limbs /\ K!Ok(Zero) \in Reading
  <2>1. 0 \in 0 .. LIMB - 1
    BY <1>2
  <2>2. Zero \in Limbs
    BY <2>1 DEF Limbs
  <2> HIDE DEF Zero
  <2> QED
    BY <2>2 DEF K!Ok, Reading
<1>4. IsStep(op, STRING_LEN, Reading)
  BY DecodeStepType DEF IsStep
<1>5. \A k \in 1 .. STRING_LEN : \A s \in Reading : op[k][s] = K!DecodeStep(t, s, k)
  OBVIOUS
<1> HIDE DEF Zero
<1>6. \E f : Eq(f)
  <2> HIDE DEF op
  <2>1. PICK g : Recurs(g, STRING_LEN, Reading, K!Ok(Zero), op)
    BY <1>2, <1>3, <1>4, RecursionExists
  <2>2. ASSUME NEW k \in 0 .. STRING_LEN
        PROVE  g[k] = IF k = 0 THEN K!Ok(Zero) ELSE K!DecodeStep(t, g[k - 1], k)
    <3>1. k # 0 => k \in 1 .. STRING_LEN /\ k - 1 \in 0 .. STRING_LEN
      BY <1>2
    <3> QED
      BY <1>5, <2>1, <3>1 DEF Recurs
  <2>3. Eq(g)
    BY <2>1, <2>2 DEF Recurs
  <2> HIDE DEF Eq
  <2> QED
    BY <2>3
<1>7. Eq(F)
  <2> HIDE DEF Eq
  <2> QED
    BY <1>6
<1> HIDE DEF F
<1>8. F[0] = K!Ok(Zero) /\ \A k \in 1 .. STRING_LEN : F[k] = K!DecodeStep(t, F[k - 1], k)
  <2>1. \A k \in 0 .. STRING_LEN :
          F[k] = IF k = 0 THEN K!Ok(Zero) ELSE K!DecodeStep(t, F[k - 1], k)
    BY <1>7
  <2>2. 0 \in 0 .. STRING_LEN /\ \A k \in 1 .. STRING_LEN : k \in 0 .. STRING_LEN /\ k # 0
    BY <1>2
  <2> QED
    BY <2>1, <2>2
<1>9. K!Number(Zero) = 0
  <2>1. PICK v : Value(v, Zero, LIMB)
    BY <1>2, <1>3, LimbsAreDigits, ValueExists
  <2>2. Zero \in Seq(Nat) /\ Len(Zero) = LIMBS /\ \A k \in 1 .. LIMBS : Zero[k] = 0
    BY <1>3, LimbsAreDigits DEF Zero
  <2> DEFINE S == { k \in 0 .. LIMBS : v[k] = 0 }
  <2>3. 0 \in S
    BY <1>2, <2>1 DEF Value
  <2>4. ASSUME NEW k \in 1 .. LIMBS, k - 1 \in S PROVE k \in S
    <3>1. v[k] = 0 * LIMB + 0 /\ k \in 0 .. LIMBS
      BY <1>2, <2>1, <2>2, <2>4 DEF Value
    <3> QED
      BY <1>2, <3>1
  <2> HIDE DEF S
  <2>5. \A k \in 0 .. LIMBS : k \in S
    BY <1>2, <2>3, <2>4, Induction
  <2>6. LIMBS \in 0 .. LIMBS
    BY <1>2
  <2>7. v[LIMBS] = 0
    BY <2>5, <2>6 DEF S
  <2> QED
    BY <2>1, <2>2, <2>7, NumberIsValue
<1> DEFINE S == { k \in 0 .. STRING_LEN : Reads(F[k], t, k, val[k]) }
<1>10. 0 \in S
  <2>1. val[0] = 0 /\ 0 \in 0 .. STRING_LEN /\ 1 .. 0 = {}
    BY <1>2 DEF Value
  <2>2. F[0].ok /\ F[0].value = Zero
    BY <1>8 DEF K!Ok
  <2> QED
    BY <1>3, <1>8, <1>9, <2>1, <2>2 DEF Reads
<1>11. ASSUME NEW k \in 1 .. STRING_LEN, k - 1 \in S PROVE k \in S
  <2>1. k \in 1 .. Len(t) /\ k \in 0 .. STRING_LEN /\ k - 1 \in 0 .. Len(t)
    BY <1>2
  <2>2. PICK n \in Nat : n = val[k - 1]
    BY <2>1 DEF Value
  <2>3. Reads(F[k - 1], t, k - 1, n)
    BY <1>11, <2>2
  <2>4. Reads(K!DecodeStep(t, F[k - 1], k), t, k, n * k_RADIX + t[k])
    BY <2>1, <2>3, DecodeStepReads
  <2>5. val[k] = n * k_RADIX + t[k]
    BY <2>1, <2>2 DEF Value
  <2> QED
    BY <1>8, <2>1, <2>4, <2>5
<1> HIDE DEF S
<1>12. \A k \in 0 .. STRING_LEN : k \in S
  BY <1>2, <1>10, <1>11, Induction
<1>13. STRING_LEN \in 0 .. STRING_LEN
  BY <1>2
<1> QED
  BY <1>1, <1>12, <1>13 DEF S

\* Exactly the texts of numbers that fit are accepted.
LEMMA DecodeExactly ==
  ASSUME NEW t \in Seq(0 .. k_RADIX)
  PROVE  /\ K!decode_bytes(t).ok <=>
              /\ Len(t) = STRING_LEN
              /\ \A i \in 1 .. STRING_LEN : t[i] # K!Junk
              /\ K!Spelled(t) < K!Power(LIMB, LIMBS)
         /\ K!decode_bytes(t).ok =>
              /\ K!decode_bytes(t).value \in Limbs
              /\ K!decode_bytes(t) = K!Ok(K!decode_bytes(t).value)
              /\ K!Number(K!decode_bytes(t).value) = K!Spelled(t)
         /\ K!decode_bytes(t).ok \in BOOLEAN
         /\ ~K!decode_bytes(t).ok => K!decode_bytes(t).error \notin {"running", "returned"}
<1>1. CASE Len(t) # STRING_LEN
  BY <1>1 DEF K!decode_bytes, K!Err
<1>2. CASE Len(t) = STRING_LEN
  <2>1. k_RADIX \in Nat /\ 0 .. k_RADIX \subseteq Nat
    BY KsuidConstants
  <2>2. PICK d \in Seq(Nat) : d = t
    BY <2>1
  <2>3. PICK v : Value(v, t, k_RADIX)
    BY <2>1, <2>2, ValueExists
  <2>4. K!Spelled(t) = v[STRING_LEN]
    BY <1>2, <2>2, <2>3, KsuidSpelledIsValue
  <2> DEFINE s == K!decode_bytes(t)
  <2>5. Reads(s, t, STRING_LEN, v[STRING_LEN])
    BY <1>2, <2>3, DecodeReads
  <2> HIDE DEF s
  <2>6. s \in Reading
    BY <2>5 DEF Reads
  <2>7. CASE s.ok
    <3>1. /\ s.value \in Limbs /\ s = K!Ok(s.value) /\ K!Number(s.value) = K!Spelled(t)
          /\ \A i \in 1 .. STRING_LEN : t[i] # K!Junk
      BY <2>4, <2>5, <2>6, <2>7 DEF Reads, Reading, K!Ok
    <3>2. K!Spelled(t) < K!Power(LIMB, LIMBS)
      BY <3>1, LimbsBelow
    <3> QED
      BY <1>2, <2>7, <3>1, <3>2 DEF s
  <2>8. CASE ~s.ok
    <3>1. s.error \in {"InvalidCharacter", "KsuidValueTooLarge"} /\ s.ok = FALSE
      BY <2>6, <2>8 DEF Reading
    <3>2. v[STRING_LEN] \in Nat /\ K!Power(LIMB, LIMBS) \in Nat
      <4>1. STRING_LEN \in 0 .. Len(t) /\ LIMBS \in 0 .. LIMBS /\ LIMBS \in Nat /\ LIMB \in Nat \ {0}
        BY <1>2, KsuidConstants
      <4>2. PICK w : Weights(w, LIMBS, LIMB) /\ K!Power(LIMB, LIMBS) = w[LIMBS]
        BY <4>1, PowerIs
      <4> QED
        BY <2>3, <4>1, <4>2 DEF Value, Weights
    <3>3. ~ /\ \A i \in 1 .. STRING_LEN : t[i] # K!Junk
            /\ K!Spelled(t) < K!Power(LIMB, LIMBS)
      BY <2>4, <2>5, <2>8, <3>2 DEF Reads
    <3> QED
      BY <2>8, <3>1, <3>3 DEF s
  <2>9. s.ok \in BOOLEAN
    BY <2>6 DEF Reading
  <2> QED
    BY <2>7, <2>8, <2>9
<1> QED
  BY <1>1, <1>2

\* The digits as they are computed from the number that they spell.
LEMMA DigitsOfNumber ==
  ASSUME NEW n \in Nat, NEW b \in Nat \ {0}, NEW w, Weights(w, n, b),
         NEW d \in Seq(Nat), Len(d) = n, \A k \in 1 .. n : d[k] < b,
         NEW v, Value(v, d, b)
  PROVE  d = [k \in 1 .. n |-> (v[n] \div w[n - k]) % b]
<1>1. ASSUME NEW k \in 1 .. n PROVE (v[n] \div w[n - k]) % b = d[k]
  BY SpelledDigit
<1> QED
  BY <1>1

\* Digits that spell the same number are the same.
LEMMA SameDigits ==
  ASSUME NEW n \in Nat, NEW b \in Nat \ {0}, NEW d \in Seq(Nat), NEW e \in Seq(Nat),
         Len(d) = n, Len(e) = n, \A k \in 1 .. n : d[k] < b, \A k \in 1 .. n : e[k] < b,
         NEW v, Value(v, d, b), NEW u, Value(u, e, b), v[n] = u[n]
  PROVE  d = e
<1>1. PICK w : Weights(w, n, b)
  BY PowerIs
<1>2. d = [k \in 1 .. n |-> (v[n] \div w[n - k]) % b]
  BY ONLY <1>1, n \in Nat, b \in Nat \ {0}, d \in Seq(Nat), Len(d) = n,
          \A k \in 1 .. n : d[k] < b, Value(v, d, b), DigitsOfNumber
<1>3. e = [k \in 1 .. n |-> (u[n] \div w[n - k]) % b]
  BY <1>1, DigitsOfNumber
<1> QED
  BY <1>2, <1>3

\* An identifier is read back from its text.
LEMMA KsuidRoundTrip ==
  ASSUME NEW x \in Limbs
  PROVE  K!decode_bytes(K!encode_value(x)) = K!Ok(x)
<1> DEFINE t == K!encode_value(x)
<1>1. t \in [1 .. STRING_LEN -> 0 .. k_RADIX - 1] /\ K!Spelled(t) = K!Number(x)
  BY EncodeSpells
<1> HIDE DEF t
<1>2. Len(t) = STRING_LEN /\ \A i \in 1 .. STRING_LEN : t[i] # K!Junk
  BY <1>1, TextIsDigits
<1>3. t \in Seq(0 .. k_RADIX)
  <2>1. STRING_LEN \in Nat /\ 0 .. k_RADIX - 1 \subseteq 0 .. k_RADIX
    BY KsuidConstants
  <2> DEFINE C == 0 .. k_RADIX
  <2>2. t \in [1 .. STRING_LEN -> C]
    BY <1>1, <2>1
  <2> HIDE DEF C
  <2>3. t \in Seq(C)
    BY <2>1, <2>2
  <2> QED
    BY <2>3 DEF C
<1>4. K!decode_bytes(t).ok
  BY <1>1, <1>2, <1>3, DecodeExactly, LimbsBelow
<1>5. PICK y \in Limbs : K!decode_bytes(t) = K!Ok(y) /\ K!Number(y) = K!Number(x)
  <2>1. /\ K!decode_bytes(t).value \in Limbs
        /\ K!decode_bytes(t) = K!Ok(K!decode_bytes(t).value)
        /\ K!Number(K!decode_bytes(t).value) = K!Spelled(t)
    BY <1>3, <1>4, DecodeExactly
  <2> QED
    BY <1>1, <2>1
\* The limbs are the digits of the number.
<1>6. x = y
  <2>1. PICK m \in Nat, b \in Nat \ {0} : m = LIMBS /\ b = LIMB
    BY KsuidConstants
  <2>2. PICK d \in Seq(Nat), e \in Seq(Nat) :
          /\ d = x /\ e = y /\ Len(d) = m /\ Len(e) = m
          /\ \A k \in 1 .. m : d[k] < b
          /\ \A k \in 1 .. m : e[k] < b
    BY <2>1, LimbsAreDigits
  <2>3. PICK v : Value(v, d, b)
    BY ValueExists
  <2>4. PICK u : Value(u, e, b)
    BY ValueExists
  <2>5. v[m] = u[m]
    BY <1>5, <2>1, <2>2, <2>3, <2>4, NumberIsValue
  <2>6. d = e
    BY <2>2, <2>3, <2>4, <2>5, SameDigits
  <2> QED
    BY <2>2, <2>6
<1> QED
  BY <1>5, <1>6 DEF t

-----------------------------------------------------------------------------
(* The calls of Ksuid.                                                     *)

\* The field of a clock.
Era(c) ==
  CASE c \div SECOND < EPOCH_SECONDS -> 0
    [] c \div SECOND > K!TIME_MAX_SECONDS -> LIMB - 1
    [] OTHER -> c \div SECOND - EPOCH_SECONDS

\* The time that a field stands for.
StampTime(f) == (f + EPOCH_SECONDS) * SECOND

LEMMA SecondOf ==
  ASSUME NEW c \in Nat, NEW e \in Nat
  PROVE  /\ c \div SECOND < e <=> c < e * SECOND
         /\ c \div SECOND \in Nat /\ (c \div SECOND) * SECOND \in Nat
         /\ (c \div SECOND) * SECOND <= c
<1>1. PICK m \in Nat \ {0} : m = SECOND
  BY KsuidConstants
<1>2. PICK q \in Nat, r \in 0 .. m - 1 : q = c \div m /\ c = q * m + r
  BY DivMod
<1>3. q * m \in Nat /\ e * m \in Nat /\ r \in Nat
  OBVIOUS
<1>4. CASE q < e
  <2>1. q * m + r < e * m + 0
    BY <1>4, RowOrder
  <2> QED
    BY <1>1, <1>2, <1>3, <1>4, <2>1
<1>5. CASE e <= q
  <2>1. e * m <= q * m
    BY <1>5, TimesOrder
  <2> QED
    BY <1>1, <1>2, <1>3, <1>5, <2>1
<1> QED
  BY <1>4, <1>5, <1>2

\* The clock is held within the era, and counted in seconds.
LEMMA EraTime ==
  ASSUME NEW c \in Nat
  PROVE  /\ Era(c) \in 0 .. LIMB - 1
         /\ StampTime(Era(c)) = IF c < K!EPOCH_MS THEN K!EPOCH_MS
                           ELSE IF c > K!TIME_MAX_MS THEN K!TIME_MAX_MS
                           ELSE (c \div SECOND) * SECOND
<1>1. PICK m \in Nat \ {0}, e \in Nat, n \in Nat \ {0} : m = SECOND /\ e = EPOCH_SECONDS /\ n = LIMB
  BY KsuidConstants
<1>2. PICK h \in Nat : h = K!TIME_MAX_SECONDS /\ h = e + (n - 1)
  BY <1>1 DEF K!TIME_MAX_SECONDS
<1>3. PICK q \in Nat : q = c \div SECOND
  BY SecondOf, <1>1
<1>4. /\ q < e <=> c < e * SECOND
      /\ q < h <=> c < h * SECOND
      /\ q < h + 1 <=> c < (h + 1) * SECOND
      /\ q * SECOND <= c
  <2>1. h + 1 \in Nat
    OBVIOUS
  <2> QED
    BY <1>3, <2>1, SecondOf
<1>5. e * m \in Nat /\ h * m \in Nat /\ q * m \in Nat /\ K!EPOCH_MS = e * m /\ K!TIME_MAX_MS = h * m
  BY <1>1, <1>2 DEF K!EPOCH_MS, K!TIME_MAX_MS
<1>6. CASE q < e
  <2>1. Era(c) = 0
    <3>1. c \div SECOND < EPOCH_SECONDS
      BY <1>1, <1>3, <1>6
    <3>2. ~ c \div SECOND > K!TIME_MAX_SECONDS
      BY <1>2, <1>3, <1>6
    <3> QED
      BY ONLY <3>1, <3>2 DEF Era
  <2>2. c < e * m
    BY <1>1, <1>4, <1>6
  <2> QED
    BY <1>1, <1>5, <2>1, <2>2 DEF StampTime
<1>7. CASE q > h
  <2>1. Era(c) = n - 1
    BY <1>1, <1>2, <1>3, <1>7 DEF Era
  <2>2. c > h * m
    <3>1. h <= q /\ ~ q < h
      BY <1>7
    <3>2. h * m <= q * m
      BY <3>1, TimesOrder
    <3>3. h * m + 0 < q * m + 0
      <4>1. 0 \in 0 .. m - 1
        OBVIOUS
      <4> QED
        BY <1>7, <4>1, RowOrder
    <3> QED
      BY <1>1, <1>4, <1>5, <3>3
  <2>3. ~ c < e * m
    BY <1>1, <1>2, <1>4, <1>7
  <2>4. n - 1 + e = h
    BY <1>2
  <2> QED
    BY <1>1, <1>5, <2>1, <2>2, <2>3, <2>4 DEF StampTime
<1>8. CASE e <= q /\ q <= h
  <2>1. Era(c) = q - e /\ q - e \in 0 .. n - 1 /\ q - e + e = q
    BY <1>1, <1>2, <1>3, <1>8 DEF Era
  <2>2. ~ c < e * m
    BY <1>1, <1>4, <1>8
  <2>3. c > h * m => q = h
    BY <1>1, <1>4, <1>5, <1>8
  <2>4. StampTime(Era(c)) = q * m
    BY <1>1, <2>1 DEF StampTime
  <2> QED
    BY <1>1, <1>3, <1>5, <2>1, <2>2, <2>3, <2>4
<1> QED
  BY <1>6, <1>7, <1>8

\* A timestamp in the window has the field of its second.
LEMMA FieldTime ==
  ASSUME NEW ms \in Nat
  PROVE  /\ K!field_at(ms).ok \in BOOLEAN
         /\ K!field_at(ms).ok =>
              /\ K!field_at(ms).value \in 0 .. LIMB - 1
              /\ StampTime(K!field_at(ms).value) = (ms \div SECOND) * SECOND
         /\ ~ K!field_at(ms).ok => K!field_at(ms).error \notin {"running"}
<1>1. PICK m \in Nat \ {0}, e \in Nat, n \in Nat \ {0} : m = SECOND /\ e = EPOCH_SECONDS /\ n = LIMB
  BY KsuidConstants
<1>2. PICK h \in Nat : h = K!TIME_MAX_SECONDS /\ h = e + (n - 1)
  BY <1>1 DEF K!TIME_MAX_SECONDS
<1>3. PICK q \in Nat : q = ms \div SECOND
  BY SecondOf, <1>1
<1> DEFINE f == K!field_at(ms)
<1>4. \/ f = K!Ok(q - e) /\ q \in e .. h
      \/ f = K!Err("KsuidTimestampOutOfRange")
  BY <1>1, <1>2, <1>3 DEF K!field_at, K!timestamp_field
<1> HIDE DEF f
<1>5. CASE f = K!Ok(q - e) /\ q \in e .. h
  <2>1. f.ok = TRUE /\ f.value = q - e
    BY <1>5 DEF K!Ok
  <2>2. q - e \in 0 .. n - 1 /\ q - e + e = q
    BY <1>2, <1>5
  <2>3. StampTime(f.value) = q * SECOND
    BY <1>1, <2>1, <2>2 DEF StampTime
  <2> QED
    BY <1>1, <1>3, <2>1, <2>2, <2>3 DEF f
<1>6. CASE f = K!Err("KsuidTimestampOutOfRange")
  <2>1. f.ok = FALSE /\ f.error = "KsuidTimestampOutOfRange"
    BY <1>6 DEF K!Err
  <2> QED
    BY <2>1 DEF f
<1> QED
  BY <1>4, <1>5, <1>6

\* A call makes identifiers of one field, or none if it has no field.
Stamped(f) ==
  /\ ~f.ok => K!Idle /\ made = << >>
  /\ f.ok => /\ ~K!Idle => field = f.value
             /\ \A i \in 1 .. Len(made) : made[i][1] = f.value

KsuidInv ==
  /\ clock \in 0 .. ClockMax /\ left \in Nat
  /\ K!Idle => left = 0
  /\ made \in Seq(Limbs)
  /\ k_call.op \in {"none", "many", "at", "decode"}
  /\ k_call.op = "none" => K!Idle /\ made = << >>
  /\ k_call.op = "many" => k_call.clock \in 0 .. ClockMax /\ Stamped(K!Ok(Era(k_call.clock)))
  /\ k_call.op = "at" => k_call.ms \in 0 .. ClockMax /\ Stamped(K!field_at(k_call.ms))
  /\ k_call.op = "decode" =>
       LET d == K!decode_bytes(k_call.text) IN
       /\ k_call.text \in k_Texts /\ K!Idle
       /\ made = IF d.ok THEN << d.value >> ELSE << >>
       /\ answer = IF d.ok THEN "returned" ELSE d.error

LEMMA KsuidInit == Init /\ part = "ksuid" => KsuidInv
<1> SUFFICES ASSUME K!Init PROVE KsuidInv
  BY DEF Init
<1>1. clock \in 0 .. ClockMax /\ k_call = [op |-> "none"] /\ left = 0 /\ made = << >> /\ answer = "returned"
  BY DEF K!Init
<1>2. k_call.op = "none"
  BY <1>1
<1>3. made \in Seq(Limbs)
  BY <1>1
<1> QED
  BY <1>1, <1>2, <1>3 DEF KsuidInv, K!Idle

LEMMA KsuidNext ==
  ASSUME KsuidInv, part = "ksuid", [Next]_vars
  PROVE  KsuidInv'
<1>1. CASE UNCHANGED vars
  BY <1>1 DEF KsuidInv, vars, kVars, Stamped, K!Idle
<1>2. ASSUME K!ClockStep PROVE KsuidInv'
  <2>1. /\ clock' \in 0 .. ClockMax /\ k_call' = k_call /\ field' = field /\ left' = left
        /\ made' = made /\ answer' = answer
    BY <1>2 DEF K!ClockStep
  <2> QED
    BY <2>1 DEF KsuidInv, Stamped, K!Idle
<1>3. ASSUME NEW c, NEW f, NEW n \in Nat, K!Start(c, f, n), f.ok \in BOOLEAN,
             ~f.ok => f.error # "running",
             \/ c.op = "many" /\ c.clock \in 0 .. ClockMax /\ f = K!Ok(Era(c.clock))
             \/ c.op = "at" /\ c.ms \in 0 .. ClockMax /\ f = K!field_at(c.ms)
      PROVE  KsuidInv'
  <2>1. /\ clock' = clock /\ k_call' = c /\ made' = << >>
        /\ f.ok => field' = f.value /\ left' = n /\ answer' = "running"
        /\ ~f.ok => left' = 0 /\ answer' = f.error
    BY <1>3 DEF K!Start
  <2>2. Stamped(f)'
    BY <1>3, <2>1 DEF Stamped, K!Idle
  <2>3. clock' \in 0 .. ClockMax /\ left' \in Nat /\ (K!Idle => left = 0)' /\ made' \in Seq(Limbs)
    BY <1>3, <2>1 DEF KsuidInv, K!Idle
  <2>4. CASE c.op = "many" /\ c.clock \in 0 .. ClockMax /\ f = K!Ok(Era(c.clock))
    <3>1. Stamped(K!Ok(Era(k_call.clock)))'
      BY <2>1, <2>2, <2>4 DEF Stamped, K!Idle, Era, K!Ok
    <3> QED
      BY <2>1, <2>3, <2>4, <3>1 DEF KsuidInv
  <2>5. CASE c.op = "at" /\ c.ms \in 0 .. ClockMax /\ f = K!field_at(c.ms)
    <3>1. Stamped(K!field_at(k_call.ms))'
      BY <2>1, <2>2, <2>5 DEF Stamped, K!Idle
    <3> QED
      BY <2>1, <2>3, <2>5, <3>1 DEF KsuidInv
  <2> QED
    BY <1>3, <2>4, <2>5
<1>4. ASSUME K!GenerateMany PROVE KsuidInv'
  <2>1. PICK n \in 0 .. MaxCount :
          K!Start([op |-> "many", count |-> n, clock |-> clock], K!Ok(K!current_timestamp_field), n)
    BY <1>4 DEF K!GenerateMany
  <2> DEFINE c == [op |-> "many", count |-> n, clock |-> clock]
             f == K!Ok(Era(clock))
  <2>2. c.op = "many" /\ c.clock = clock /\ clock \in 0 .. ClockMax /\ n \in Nat
    BY KsuidConstants DEF KsuidInv
  <2>3. K!current_timestamp_field = Era(clock)
    BY DEF K!current_timestamp_field, Era
  <2>4. f.ok = TRUE
    BY DEF K!Ok
  <2>5. K!Start(c, f, n)
    BY <2>1, <2>3
  <2>6. f = K!Ok(Era(c.clock))
    BY <2>2
  <2> HIDE DEF c, f
  <2> QED
    BY <1>3, <2>2, <2>4, <2>5, <2>6
<1>5. ASSUME K!GenerateAt PROVE KsuidInv'
  <2>1. PICK ms \in 0 .. ClockMax : K!Start([op |-> "at", ms |-> ms], K!field_at(ms), 1)
    BY <1>5 DEF K!GenerateAt
  <2> DEFINE c == [op |-> "at", ms |-> ms]
             f == K!field_at(ms)
  <2>2. c.op = "at" /\ c.ms = ms
    OBVIOUS
  <2>3. ms \in Nat
    BY KsuidConstants
  <2>4. f.ok \in BOOLEAN /\ (~f.ok => f.error # "running")
    BY <2>3, FieldTime
  <2>5. f = K!field_at(c.ms)
    BY <2>2
  <2> HIDE DEF c, f
  <2>6. K!Start(c, f, 1)
    BY <2>1 DEF c, f
  <2> QED
    BY <1>3, <2>2, <2>4, <2>5, <2>6
<1>6. ASSUME K!Draw PROVE KsuidInv'
  <2>1. PICK p \in k_Payloads : made' = Append(made, << field >> \o p)
    BY <1>6 DEF K!Draw
  <2>2. /\ left > 0 /\ left' = left - 1 /\ clock' = clock /\ k_call' = k_call
        /\ field' = field /\ answer' = answer
    BY <1>6 DEF K!Draw
  <2>3. ~K!Idle /\ left \in Nat /\ k_call.op \in {"many", "at"} /\ made \in Seq(Limbs)
    BY <2>2 DEF KsuidInv
  <2>4. PICK f : /\ f.ok /\ f.value \in 0 .. LIMB - 1 /\ Stamped(f)
                 /\ k_call.op = "many" => f = K!Ok(Era(k_call.clock))
                 /\ k_call.op = "at" => f = K!field_at(k_call.ms)
    <3>1. CASE k_call.op = "many"
      <4>1. k_call.clock \in Nat
        BY <3>1, KsuidConstants DEF KsuidInv
      <4>2. Era(k_call.clock) \in 0 .. LIMB - 1
        BY <4>1, EraTime
      <4>3. K!Ok(Era(k_call.clock)).ok /\ K!Ok(Era(k_call.clock)).value = Era(k_call.clock)
        BY DEF K!Ok
      <4>4. Stamped(K!Ok(Era(k_call.clock)))
        BY <3>1 DEF KsuidInv
      <4> QED
        BY <3>1, <4>2, <4>3, <4>4
    <3>2. CASE k_call.op = "at"
      <4>1. k_call.ms \in Nat /\ Stamped(K!field_at(k_call.ms))
        BY <3>2, KsuidConstants DEF KsuidInv
      <4>2. K!field_at(k_call.ms).ok
        BY <2>3, <4>1 DEF Stamped
      <4>3. K!field_at(k_call.ms).value \in 0 .. LIMB - 1
        BY <4>1, <4>2, FieldTime
      <4> QED
        BY <3>2, <4>1, <4>2, <4>3
    <3> QED
      BY <2>3, <3>1, <3>2
  <2>5. field = f.value
    BY <2>3, <2>4 DEF Stamped
  <2>6. PICK x \in Limbs : x = << field >> \o p /\ x[1] = field
    <3>1. LIMBS \in Nat /\ LIMBS > 1 /\ LIMB \in Nat \ {0}
      BY KsuidConstants
    <3> DEFINE C == 0 .. LIMB - 1
    <3>2. p \in [1 .. LIMBS - 1 -> C]
      BY KsuidConstants
    <3>3. field \in C
      BY <2>4, <2>5
    <3> HIDE DEF C
    <3>4. p \in Seq(C) /\ Len(p) = LIMBS - 1
      BY <3>1, <3>2
    <3>5. << field >> \in Seq(C) /\ Len(<< field >>) = 1
      BY <3>3
    <3>6. << field >> \o p \in Seq(C) /\ Len(<< field >> \o p) = LIMBS /\ (<< field >> \o p)[1] = field
      BY <3>1, <3>4, <3>5
    <3>7. << field >> \o p \in [1 .. LIMBS -> C]
      <4>1. PICK y \in Seq(C) : y = << field >> \o p /\ Len(y) = LIMBS
        BY <3>6
      <4>2. y \in [1 .. Len(y) -> C]
        BY ONLY y \in Seq(C)
      <4> QED
        BY <4>1, <4>2
    <3> QED
      BY <3>6, <3>7 DEF Limbs, C
  <2>7. made' \in Seq(Limbs) /\ \A i \in 1 .. Len(made') : made'[i][1] = f.value
    <3>1. made' = Append(made, x)
      BY <2>1, <2>6
    <3>2. \A i \in 1 .. Len(made) : made[i][1] = f.value
      BY <2>4 DEF Stamped
    <3>3. Len(made') = Len(made) + 1 /\ made' \in Seq(Limbs)
      BY <2>3, <3>1
    <3>4. \A i \in 1 .. Len(made') : made'[i] = IF i = Len(made') THEN x ELSE made[i]
      BY <2>3, <3>1
    <3>5. Len(made) \in Nat
      BY <2>3
    <3> QED
      BY <2>5, <2>6, <3>2, <3>3, <3>4, <3>5
  <2>8. Stamped(f)'
    BY <2>2, <2>3, <2>4, <2>5, <2>7 DEF Stamped, K!Idle
  <2>9. clock' \in 0 .. ClockMax /\ left' \in Nat /\ ~K!Idle'
    BY <2>2, <2>3 DEF KsuidInv, K!Idle
  <2>10. CASE k_call.op = "many"
    <3>1. Stamped(K!Ok(Era(k_call.clock)))'
      BY <2>2, <2>4, <2>8, <2>10 DEF Stamped, K!Idle, K!Ok, Era
    <3>2. k_call'.clock \in 0 .. ClockMax
      BY <2>2, <2>10 DEF KsuidInv
    <3> QED
      BY <2>2, <2>7, <2>9, <2>10, <3>1, <3>2 DEF KsuidInv
  <2>11. CASE k_call.op = "at"
    <3>1. Stamped(K!field_at(k_call.ms))'
      BY <2>2, <2>4, <2>8, <2>11 DEF Stamped, K!Idle
    <3>2. k_call'.ms \in 0 .. ClockMax
      BY <2>2, <2>11 DEF KsuidInv
    <3> QED
      BY <2>2, <2>7, <2>9, <2>11, <3>1, <3>2 DEF KsuidInv
  <2> QED
    BY <2>3, <2>10, <2>11
<1>7. ASSUME K!Return PROVE KsuidInv'
  <2>1. /\ ~K!Idle /\ left = 0 /\ answer' = "returned" /\ clock' = clock /\ k_call' = k_call
        /\ left' = left /\ made' = made
    BY <1>7 DEF K!Return
  <2>2. k_call.op \in {"many", "at"}
    BY <2>1 DEF KsuidInv
  <2> QED
    BY <2>1, <2>2 DEF KsuidInv, Stamped, K!Idle
<1>8. ASSUME K!Decode PROVE KsuidInv'
  <2>1. PICK t \in k_Texts :
          LET d == K!decode_bytes(t) IN
          /\ k_call' = [op |-> "decode", text |-> t]
          /\ made' = IF d.ok THEN << d.value >> ELSE << >>
          /\ answer' = IF d.ok THEN "returned" ELSE d.error
    BY <1>8 DEF K!Decode
  <2>2. K!Idle /\ clock' = clock /\ left' = left
    BY <1>8 DEF K!Decode
  <2>3. k_call'.op = "decode" /\ k_call'.text = t
    BY <2>1
  <2> DEFINE d == K!decode_bytes(t)
  <2>4. t \in Seq(0 .. k_RADIX)
    BY KsuidConstants
  <2>5. d.ok \in BOOLEAN /\ (d.ok => d.value \in Limbs) /\ (~d.ok => d.error # "running")
    BY <2>4, DecodeExactly
  <2>6. made' = (IF d.ok THEN << d.value >> ELSE << >>) /\ answer' = IF d.ok THEN "returned" ELSE d.error
    BY <2>1
  <2>7. d = K!decode_bytes(k_call'.text)
    BY <2>3
  <2> HIDE DEF d
  <2>8. made' \in Seq(Limbs) /\ K!Idle'
    BY <2>5, <2>6 DEF K!Idle
  <2>9. left' = 0 /\ clock' \in 0 .. ClockMax
    BY <2>2 DEF KsuidInv
  <2> QED
    BY <2>3, <2>6, <2>7, <2>8, <2>9 DEF KsuidInv
<1>9. Next => K!Next
  BY DEF Next
<1> QED
  BY <1>1, <1>2, <1>4, <1>5, <1>6, <1>7, <1>8, <1>9 DEF K!Next

LEMMA KsuidAlways == Spec => [](part = "ksuid" => KsuidInv)
<1>1. Init => (part = "ksuid" => KsuidInv)
  BY KsuidInit
<1>2. (part = "ksuid" => KsuidInv) /\ [Next]_vars => (part = "ksuid" => KsuidInv)'
  <2> SUFFICES ASSUME part = "ksuid" => KsuidInv, [Next]_vars, part' = "ksuid" PROVE KsuidInv'
    OBVIOUS
  <2>1. part' = part
    BY DEF Next, vars
  <2> QED
    BY <2>1, KsuidNext
<1> QED
  BY <1>1, <1>2, PTL DEF Spec

\* For every radix, width and text: the decoder accepts exactly the texts
\* whose number fits the identifier, returns that number, and the text of
\* what it returns is the text it was given (ksuid.rs:396-425).
THEOREM KsuidsDecodeExactly == Spec => []DecodesExactly
<1>1. (part = "ksuid" => KsuidInv) => DecodesExactly
  <2> SUFFICES ASSUME KsuidInv, k_call.op = "decode" PROVE K!DecodesExactly
    BY DEF DecodesExactly, K!DecodesExactly
  <2>1. PICK t \in k_Texts : t = k_call.text
    BY DEF KsuidInv
  <2> DEFINE d == K!decode_bytes(t)
             fits == /\ Len(t) = STRING_LEN
                     /\ \A i \in 1 .. STRING_LEN : t[i] # K!Junk
                     /\ K!Spelled(t) < K!Power(LIMB, LIMBS)
  <2>2. /\ made = IF d.ok THEN << d.value >> ELSE << >>
        /\ answer = IF d.ok THEN "returned" ELSE d.error
    BY <2>1 DEF KsuidInv
  <2>3. t \in Seq(0 .. k_RADIX)
    BY KsuidConstants
  <2>4. /\ d.ok <=> fits
        /\ d.ok => d.value \in Limbs /\ K!Number(d.value) = K!Spelled(t)
        /\ ~d.ok => d.error # "returned"
    BY <2>3, DecodeExactly
  <2>5. fits => t \in [1 .. STRING_LEN -> 0 .. k_RADIX - 1]
    <3> SUFFICES ASSUME fits PROVE t \in [1 .. STRING_LEN -> 0 .. k_RADIX - 1]
      OBVIOUS
    <3> DEFINE C == 0 .. k_RADIX
    <3>1. k_RADIX \in Nat
      BY KsuidConstants
    <3>2. t \in Seq(C) /\ Len(t) = STRING_LEN
      BY <2>3
    <3> HIDE DEF C
    <3>3. t \in [1 .. STRING_LEN -> C]
      BY <3>2
    <3>4. \A i \in 1 .. STRING_LEN : t[i] \in 0 .. k_RADIX /\ t[i] # k_RADIX
      BY <3>3 DEF C, K!Junk
    <3>5. \A i \in 1 .. STRING_LEN : t[i] \in 0 .. k_RADIX - 1
      BY <3>1, <3>4
    <3> QED
      BY <3>3, <3>5
  <2>6. K!is_valid(t) <=> d.ok
    BY DEF K!is_valid
  <2>7. d.ok => made[1] = d.value
    BY <2>2
  <2> HIDE DEF d
  <2>8. d.ok => K!encode_value(made[1]) = t
    BY <2>4, <2>5, <2>7, SpelledOnce
  <2>9. answer = "returned" => K!Number(made[1]) = K!Spelled(t)
    BY <2>2, <2>4, <2>7
  <2> QED
    BY <2>1, <2>4, <2>6, <2>8, <2>9 DEF K!DecodesExactly
<1> QED
  BY <1>1, KsuidAlways, PTL

\* For every radix, width and payload: an identifier read back from its text
\* has the second of the timestamp or of the clock it was made with, held
\* within the era, whatever the clock did since (ksuid.rs:336, 381-394).
THEOREM KsuidTimesReadBack == Spec => []TimeReadsBack
<1>1. (part = "ksuid" => KsuidInv) => TimeReadsBack
  <2> SUFFICES ASSUME KsuidInv PROVE K!TimeReadsBack
    BY DEF TimeReadsBack
  <2> SUFFICES ASSUME NEW i \in 1 .. Len(made)
               PROVE  LET t == K!decode_time_ms(K!encode_value(made[i])) IN
                      CASE k_call.op = "at" -> t = K!Ok((k_call.ms \div SECOND) * SECOND)
                        [] k_call.op = "many" ->
                             t = K!Ok(IF k_call.clock < K!EPOCH_MS THEN K!EPOCH_MS
                                      ELSE IF k_call.clock > K!TIME_MAX_MS THEN K!TIME_MAX_MS
                                      ELSE (k_call.clock \div SECOND) * SECOND)
                        [] OTHER -> t.ok
    BY DEF K!TimeReadsBack
  <2>1. PICK x \in Limbs : x = made[i]
    BY DEF KsuidInv
  <2> DEFINE t == K!decode_time_ms(K!encode_value(made[i]))
  <2>2. t = K!Ok(StampTime(x[1]))
    <3>1. K!decode_bytes(K!encode_value(x)) = K!Ok(x)
      BY KsuidRoundTrip
    <3>2. K!Ok(x).ok /\ K!Ok(x).value = x
      BY DEF K!Ok
    <3> QED
      BY <2>1, <3>1, <3>2 DEF K!decode_time_ms, K!timestamp_ms, StampTime
  <2>3. t.ok
    BY <2>2 DEF K!Ok
  <2> HIDE DEF t
  <2>4. ASSUME k_call.op = "at" PROVE t = K!Ok((k_call.ms \div SECOND) * SECOND)
    <3>1. k_call.ms \in Nat /\ Stamped(K!field_at(k_call.ms))
      BY <2>4, KsuidConstants DEF KsuidInv
    <3>2. K!field_at(k_call.ms).ok /\ x[1] = K!field_at(k_call.ms).value
      <4>1. made # << >>
        OBVIOUS
      <4> QED
        BY <2>1, <3>1, <4>1 DEF Stamped
    <3> QED
      BY <2>2, <3>1, <3>2, FieldTime
  <2>5. ASSUME k_call.op = "many"
        PROVE  t = K!Ok(IF k_call.clock < K!EPOCH_MS THEN K!EPOCH_MS
                        ELSE IF k_call.clock > K!TIME_MAX_MS THEN K!TIME_MAX_MS
                        ELSE (k_call.clock \div SECOND) * SECOND)
    <3>1. k_call.clock \in Nat /\ Stamped(K!Ok(Era(k_call.clock)))
      BY <2>5, KsuidConstants DEF KsuidInv
    <3>2. x[1] = Era(k_call.clock)
      <4>1. K!Ok(Era(k_call.clock)).ok /\ K!Ok(Era(k_call.clock)).value = Era(k_call.clock)
        BY DEF K!Ok
      <4> QED
        BY <2>1, <3>1, <4>1 DEF Stamped
    <3> QED
      BY <2>2, <3>1, <3>2, EraTime
  <2> QED
    BY <2>3, <2>4, <2>5 DEF t
<1> QED
  BY <1>1, KsuidAlways, PTL

-----------------------------------------------------------------------------
(* The order of texts.                                                     *)

\* The order of digits of one length.
Precedes(d, e, n) == \E i \in 1 .. n : d[i] < e[i] /\ \A j \in 1 .. i - 1 : d[j] = e[j]

\* Digits are ordered as the numbers they spell.
LEMMA DigitsOrder ==
  ASSUME NEW n \in Nat, NEW b \in Nat, NEW d \in Seq(Nat), NEW e \in Seq(Nat),
         Len(d) = n, Len(e) = n, \A k \in 1 .. n : d[k] < b /\ e[k] < b,
         NEW v, Value(v, d, b), NEW w, Value(w, e, b)
  PROVE  Precedes(d, e, n) <=> v[n] < w[n]
<1>1. v[n] \in Nat /\ w[n] \in Nat
  BY DEF Value
<1>2. ASSUME NEW i \in 1 .. n, d[i] < e[i], \A j \in 1 .. i - 1 : d[j] = e[j]
      PROVE  v[n] < w[n]
  <2>1. i \in 1 .. Len(d) /\ Len(d) = Len(e) /\ \A k \in 1 .. Len(d) : d[k] < b /\ e[k] < b
    OBVIOUS
  <2>2. v[Len(d)] < w[Len(d)]
    BY <1>2, <2>1, ValueOrder
  <2> QED
    BY <2>2
<1>3. ASSUME NEW i \in 1 .. n, e[i] < d[i], \A j \in 1 .. i - 1 : d[j] = e[j]
      PROVE  w[n] < v[n]
  <2>1. /\ i \in 1 .. Len(e) /\ Len(e) = Len(d) /\ \A k \in 1 .. Len(e) : e[k] < b /\ d[k] < b
        /\ \A j \in 1 .. i - 1 : e[j] = d[j]
    BY <1>3
  <2>2. w[Len(e)] < v[Len(e)]
    BY <1>3, <2>1, ValueOrder
  <2> QED
    BY <2>2
<1>4. ASSUME v[n] < w[n]
      PROVE  \E i \in 1 .. n : d[i] < e[i] /\ \A j \in 1 .. i - 1 : d[j] = e[j]
  <2>1. d # e
    <3> SUFFICES ASSUME d = e PROVE FALSE
      OBVIOUS
    <3>1. v[Len(d)] = w[Len(d)]
      BY ValueIsUnique
    <3> QED
      BY <1>1, <1>4, <3>1
  <2>2. PICK i \in 1 .. n : d[i] # e[i] /\ \A j \in 1 .. i - 1 : d[j] = e[j]
    <3>1. Len(d) = Len(e)
      OBVIOUS
    <3>2. \E i \in 1 .. Len(d) : d[i] # e[i] /\ \A j \in 1 .. i - 1 : d[j] = e[j]
      BY <2>1, <3>1, FirstDifferentDigit
    <3> QED
      BY <3>2
  <2>3. d[i] \in Nat /\ e[i] \in Nat
    OBVIOUS
  <2>4. ~ e[i] < d[i]
    <3>1. \A j \in 1 .. i - 1 : e[j] = d[j]
      BY <2>2
    <3> SUFFICES ASSUME e[i] < d[i] PROVE FALSE
      OBVIOUS
    <3>2. w[n] < v[n]
      BY <1>3, <3>1, Zenon
    <3> QED
      BY <1>1, <1>4, <3>2
  <2>5. d[i] # e[i]
    BY <2>2
  <2>6. d[i] < e[i]
    BY <2>3, <2>4, <2>5
  <2> QED
    BY <2>2, <2>6, Zenon
<1> QED
  BY <1>2, <1>4 DEF Precedes

\* The texts of two KSUIDs are ordered as the KSUIDs.
LEMMA KsuidTextOrder ==
  ASSUME NEW x \in Limbs, NEW y \in Limbs
  PROVE  (\E k \in 1 .. STRING_LEN :
            /\ K!encode_value(x)[k] < K!encode_value(y)[k]
            /\ \A m \in 1 .. k - 1 : K!encode_value(x)[m] = K!encode_value(y)[m])
         <=> K!LimbsLess(x, y)
<1>1. PICK n \in Nat, r \in Nat : n = STRING_LEN /\ r = k_RADIX
  BY KsuidConstants
<1>2. PICK m \in Nat, b \in Nat : m = LIMBS /\ b = LIMB
  BY KsuidConstants
<1>3. PICK s \in Seq(Nat) : /\ s = K!encode_value(x) /\ Len(s) = n /\ K!Spelled(s) = K!Number(x)
                            /\ \A k \in 1 .. n : s[k] < r
  BY <1>1, EncodeSpells, TextIsDigits
<1>4. PICK t \in Seq(Nat) : /\ t = K!encode_value(y) /\ Len(t) = n /\ K!Spelled(t) = K!Number(y)
                            /\ \A k \in 1 .. n : t[k] < r
  BY <1>1, EncodeSpells, TextIsDigits
<1>5. PICK d \in Seq(Nat) : d = x /\ Len(d) = m /\ \A k \in 1 .. m : d[k] < b
  BY <1>2, LimbsAreDigits
<1>6. PICK e \in Seq(Nat) : e = y /\ Len(e) = m /\ \A k \in 1 .. m : e[k] < b
  BY <1>2, LimbsAreDigits
<1>7. PICK sv : Value(sv, s, r) /\ sv[n] = K!Number(x)
  <2>1. PICK sv : Value(sv, s, r)
    BY ValueExists
  <2> QED
    BY <1>1, <1>3, <2>1, KsuidSpelledIsValue
<1>8. PICK tv : Value(tv, t, r) /\ tv[n] = K!Number(y)
  <2>1. PICK tv : Value(tv, t, r)
    BY ValueExists
  <2> QED
    BY <1>1, <1>4, <2>1, KsuidSpelledIsValue
<1>9. PICK dv : Value(dv, d, b) /\ dv[m] = K!Number(x)
  <2>1. PICK dv : Value(dv, d, b)
    BY ValueExists
  <2> QED
    BY <1>2, <1>5, <2>1, NumberIsValue
<1>10. PICK ev : Value(ev, e, b) /\ ev[m] = K!Number(y)
  <2>1. PICK ev : Value(ev, e, b)
    BY ValueExists
  <2> QED
    BY <1>2, <1>6, <2>1, NumberIsValue
<1>11. Precedes(s, t, n) <=> sv[n] < tv[n]
  <2>1. \A k \in 1 .. n : s[k] < r /\ t[k] < r
    BY <1>3, <1>4
  <2> QED
    BY <1>3, <1>4, <1>7, <1>8, <2>1, DigitsOrder
<1>12. Precedes(d, e, m) <=> dv[m] < ev[m]
  <2>1. \A k \in 1 .. m : d[k] < b /\ e[k] < b
    BY <1>5, <1>6
  <2> QED
    BY <1>5, <1>6, <1>9, <1>10, <2>1, DigitsOrder
<1> QED
  BY <1>1, <1>2, <1>3, <1>4, <1>5, <1>6, <1>7, <1>8, <1>9, <1>10, <1>11, <1>12
     DEF K!LimbsLess, Precedes

\* compare decodes the texts and compares the limbs.
LEMMA KsuidCompare ==
  ASSUME NEW x \in Limbs, NEW y \in Limbs
  PROVE  K!compare(K!encode_value(x), K!encode_value(y)) =
           K!Ok(IF K!LimbsLess(x, y) THEN -1
                ELSE IF K!encode_value(x) = K!encode_value(y) THEN 0 ELSE 1)
<1>1. /\ K!decode_bytes(K!encode_value(x)) = K!Ok(x)
      /\ K!decode_bytes(K!encode_value(y)) = K!Ok(y)
  BY KsuidRoundTrip
<1>2. \A z : K!Ok(z).ok /\ K!Ok(z).value = z
  BY DEF K!Ok
<1>3. x = y <=> K!encode_value(x) = K!encode_value(y)
  BY <1>1, <1>2
<1>4. K!compare(K!encode_value(x), K!encode_value(y)) =
        K!Ok(IF K!LimbsLess(x, y) THEN -1 ELSE IF x = y THEN 0 ELSE 1)
  BY <1>1, <1>2 DEF K!compare
<1> QED
  BY <1>3, <1>4

LEMMA KsuidsOrdered == KsuidInv => K!TextOrder
<1> SUFFICES ASSUME KsuidInv, NEW i \in 1 .. Len(made), NEW j \in 1 .. Len(made)
             PROVE  LET s == K!encode_value(made[i])
                        t == K!encode_value(made[j])
                        before_ == \E k \in 1 .. STRING_LEN :
                                    s[k] < t[k] /\ \A m \in 1 .. k - 1 : s[m] = t[m]
                    IN  /\ before_ <=> K!LimbsLess(made[i], made[j])
                        /\ K!compare(s, t) = K!Ok(IF before_ THEN -1 ELSE IF s = t THEN 0 ELSE 1)
  BY DEF K!TextOrder
<1>1. PICK x \in Limbs, y \in Limbs : x = made[i] /\ y = made[j]
  BY DEF KsuidInv
<1> DEFINE s == K!encode_value(x)
           t == K!encode_value(y)
           b == \E k \in 1 .. STRING_LEN : s[k] < t[k] /\ \A m \in 1 .. k - 1 : s[m] = t[m]
<1>2. b <=> K!LimbsLess(x, y)
  BY KsuidTextOrder
<1>3. K!compare(s, t) = K!Ok(IF K!LimbsLess(x, y) THEN -1 ELSE IF s = t THEN 0 ELSE 1)
  BY KsuidCompare
<1>4. K!compare(s, t) = K!Ok(IF b THEN -1 ELSE IF s = t THEN 0 ELSE 1)
  <2> HIDE DEF b, s, t
  <2>1. CASE b
    BY <1>2, <1>3, <2>1
  <2>2. CASE ~b
    BY <1>2, <1>3, <2>2
  <2> QED
    BY <2>1, <2>2
<1> QED
  BY <1>1, <1>2, <1>4

-----------------------------------------------------------------------------
(* Powers.                                                                 *)

LEMMA SamePower == ASSUME NEW b, NEW n PROVE E!Power(b, n) = K!Power(b, n)
  BY DEF E!Power, K!Power

LEMMA PowerOfWeights ==
  ASSUME NEW n \in Nat, NEW b \in Nat \ {0}, NEW w, Weights(w, n, b), NEW k \in 0 .. n
  PROVE  w[k] = E!Power(b, k)
<1>1. PICK v : Weights(v, k, b) /\ E!Power(b, k) = v[k]
  BY PowerIs, SamePower
<1> DEFINE S == { j \in 0 .. k : v[j] = w[j] }
<1>2. 0 \in S
  BY <1>1 DEF Weights
<1>3. ASSUME NEW j \in 1 .. k, j - 1 \in S PROVE j \in S
  <2>1. v[j] = v[j - 1] * b
    BY <1>1 DEF Weights
  <2>2. w[j] = w[j - 1] * b
    BY DEF Weights
  <2> QED
    BY <1>3, <2>1, <2>2
<1> HIDE DEF S
<1>4. \A j \in 0 .. k : j \in S
  BY <1>2, <1>3, Induction
<1>5. k \in 0 .. k
  OBVIOUS
<1> QED
  BY <1>1, <1>4, <1>5 DEF S

LEMMA PowerType ==
  ASSUME NEW n \in Nat, NEW b \in Nat \ {0} PROVE E!Power(b, n) \in Nat \ {0}
<1>1. PICK w : Weights(w, n, b) /\ E!Power(b, n) = w[n]
  BY PowerIs, SamePower
<1>2. n \in 0 .. n
  OBVIOUS
<1> QED
  BY <1>1, <1>2 DEF Weights

LEMMA PowerZero == ASSUME NEW b \in Nat \ {0} PROVE E!Power(b, 0) = 1
<1>1. PICK w : Weights(w, 0, b) /\ E!Power(b, 0) = w[0]
  BY PowerIs, SamePower
<1> QED
  BY <1>1 DEF Weights

LEMMA PowerNext ==
  ASSUME NEW n \in Nat, NEW b \in Nat \ {0} PROVE E!Power(b, n + 1) = E!Power(b, n) * b
<1>1. PICK m \in Nat : m = n + 1 /\ m - 1 = n /\ m \in 1 .. m /\ n \in 0 .. m
  OBVIOUS
<1>2. PICK w : Weights(w, m, b) /\ E!Power(b, m) = w[m]
  BY PowerIs, SamePower
<1>3. w[m] = w[m - 1] * b
  BY <1>1, <1>2 DEF Weights
<1>4. w[n] = E!Power(b, n)
  BY <1>1, <1>2, PowerOfWeights
<1> QED
  BY <1>1, <1>2, <1>3, <1>4

LEMMA PowerPlus ==
  ASSUME NEW m \in Nat, NEW n \in Nat, NEW b \in Nat \ {0}
  PROVE  E!Power(b, m + n) = E!Power(b, m) * E!Power(b, n)
<1>1. PICK x \in Nat \ {0} : x = E!Power(b, m)
  BY PowerType
<1> DEFINE S == { k \in 0 .. n : E!Power(b, m + k) = x * E!Power(b, k) }
<1>2. 0 \in S
  <2>1. m + 0 = m /\ x * 1 = x
    OBVIOUS
  <2> QED
    BY <1>1, <2>1, PowerZero
<1>3. ASSUME NEW k \in 1 .. n, k - 1 \in S PROVE k \in S
  <2>1. PICK j \in Nat : j = k - 1 /\ j + 1 = k /\ (m + j) + 1 = m + k /\ m + j \in Nat
    OBVIOUS
  <2>2. PICK y \in Nat \ {0} : y = E!Power(b, j)
    BY PowerType
  <2>3. E!Power(b, m + j) = x * y
    BY <1>3, <2>1, <2>2
  <2>4. E!Power(b, (m + j) + 1) = E!Power(b, m + j) * b
    BY <2>1, PowerNext
  <2>5. E!Power(b, j + 1) = y * b
    BY <2>2, PowerNext
  <2>6. (x * y) * b = x * (y * b)
    OBVIOUS
  <2> QED
    BY <2>1, <2>3, <2>4, <2>5, <2>6
<1> HIDE DEF S
<1>4. \A k \in 0 .. n : k \in S
  BY <1>2, <1>3, Induction
<1>5. n \in 0 .. n
  OBVIOUS
<1> QED
  BY <1>1, <1>4, <1>5 DEF S

LEMMA PowerTimes ==
  ASSUME NEW m \in Nat, NEW n \in Nat, NEW b \in Nat \ {0}
  PROVE  E!Power(E!Power(b, m), n) = E!Power(b, m * n)
<1>1. PICK x \in Nat \ {0} : x = E!Power(b, m)
  BY PowerType
<1> DEFINE S == { k \in 0 .. n : E!Power(x, k) = E!Power(b, m * k) }
<1>2. 0 \in S
  <2>1. m * 0 = 0
    OBVIOUS
  <2> QED
    BY <2>1, PowerZero
<1>3. ASSUME NEW k \in 1 .. n, k - 1 \in S PROVE k \in S
  <2>1. PICK j \in Nat : j = k - 1 /\ j + 1 = k
    OBVIOUS
  <2>2. PICK p \in Nat : p = m * j
    OBVIOUS
  <2>3. p + m = m * k
    BY <2>1, <2>2
  <2>4. E!Power(x, j) = E!Power(b, p)
    BY <1>3, <2>1, <2>2
  <2>5. E!Power(x, j + 1) = E!Power(x, j) * x
    BY PowerNext
  <2>6. E!Power(b, p + m) = E!Power(b, p) * E!Power(b, m)
    BY PowerPlus
  <2> QED
    BY <1>1, <2>1, <2>3, <2>4, <2>5, <2>6
<1> HIDE DEF S
<1>4. \A k \in 0 .. n : k \in S
  BY <1>2, <1>3, Induction
<1>5. n \in 0 .. n
  OBVIOUS
<1> QED
  BY <1>1, <1>4, <1>5 DEF S

-----------------------------------------------------------------------------
(* Sortable texts.                                                         *)

LEMMA EncodingsConstants ==
  /\ BYTE_BITS \in Nat /\ SEXTET_BITS \in Nat /\ LOW_BITS \in Nat /\ ID_LEN \in Nat
  /\ ENCODED_LEN \in Nat \ {0} /\ LOW_BITS <= SEXTET_BITS
  /\ ID_LEN * BYTE_BITS = SEXTET_BITS * (ENCODED_LEN - 1) + LOW_BITS
  /\ e_Payloads \subseteq Seq(E!Bytes) /\ e_Texts \subseteq Seq(0 .. E!Junk)
  BY ReadBackAssumption DEF E!EncodingsAssumption

\* A character holds the low bits and what they are shifted by; the bytes
\* are all the characters but the last, and the low bits.
LEMMA Sizes ==
  /\ E!BYTE \in Nat \ {0} /\ E!SEXTET \in Nat \ {0} /\ E!LOW \in Nat \ {0} /\ E!SHIFT \in Nat \ {0}
  /\ E!SEXTET = E!LOW * E!SHIFT
  /\ E!Power(E!BYTE, ID_LEN) = E!Power(E!SEXTET, ENCODED_LEN - 1) * E!LOW
<1>1. PICK h \in Nat, n \in Nat : h = SEXTET_BITS - LOW_BITS /\ n = ENCODED_LEN - 1
  BY EncodingsConstants
<1>2. PICK y \in Nat, s \in Nat, l \in Nat, i \in Nat :
        y = BYTE_BITS /\ s = SEXTET_BITS /\ l = LOW_BITS /\ i = ID_LEN
  BY EncodingsConstants
<1>3. l + h = s
  BY <1>1, <1>2, EncodingsConstants
<1>4. y * i = s * n + l
  <2>1. i * y = s * n + l
    BY <1>1, <1>2, EncodingsConstants
  <2>2. i * y = y * i
    OBVIOUS
  <2> QED
    BY <2>1, <2>2
<1>5. 2 \in Nat \ {0} /\ s * n \in Nat /\ y * i \in Nat
  OBVIOUS
<1>6. /\ E!BYTE = E!Power(2, y) /\ E!SEXTET = E!Power(2, s)
      /\ E!LOW = E!Power(2, l) /\ E!SHIFT = E!Power(2, h)
  BY <1>1, <1>2 DEF E!BYTE, E!SEXTET, E!LOW, E!SHIFT
<1>7. E!Power(2, y) \in Nat \ {0} /\ E!Power(2, s) \in Nat \ {0}
  BY <1>5, PowerType
<1>8. E!Power(2, l) \in Nat \ {0} /\ E!Power(2, h) \in Nat \ {0}
  BY <1>5, PowerType
<1>9. E!Power(2, l + h) = E!Power(2, l) * E!Power(2, h)
  BY <1>5, PowerPlus
<1>10. E!Power(E!Power(2, y), i) = E!Power(2, y * i)
  BY <1>5, PowerTimes
<1>11. E!Power(E!Power(2, s), n) = E!Power(2, s * n)
  BY <1>5, PowerTimes
<1>12. E!Power(2, s * n + l) = E!Power(2, s * n) * E!Power(2, l)
  BY <1>5, PowerPlus
<1> QED
  BY <1>1, <1>2, <1>3, <1>4, <1>6, <1>7, <1>8, <1>9, <1>10, <1>11, <1>12

\* Number is the number of the bytes,
LEMMA BytesAreValue ==
  ASSUME NEW x \in Seq(Nat), NEW val, Value(val, x, E!BYTE)
  PROVE  E!Number(x) = val[Len(x)]
<1>1. E!Number(x) = SpelledBy(x, E!BYTE)
  BY DEF E!Number, E!FoldLeft, E!MapThenFoldSet, E!Max, SpelledBy, Top
<1>2. E!BYTE \in Nat
  BY Sizes
<1> QED
  BY <1>1, <1>2, SpelledByIsValue

\* and Spelled that of the characters.
LEMMA SextetsAreValue ==
  ASSUME NEW x \in Seq(Nat), NEW val, Value(val, x, E!SEXTET)
  PROVE  E!Spelled(x) = val[Len(x)]
<1>1. E!Spelled(x) = SpelledBy(x, E!SEXTET)
  BY DEF E!Spelled, E!FoldLeft, E!MapThenFoldSet, E!Max, SpelledBy, Top
<1>2. E!SEXTET \in Nat
  BY Sizes
<1> QED
  BY <1>1, <1>2, SpelledByIsValue

\* Digits that are computed as remainders.
DigitsOf(d, x, w, n, b) == d = [k \in 1 .. n |-> (x \div w[n - k]) % b]

LEMMA Remainders ==
  ASSUME NEW n \in Nat, NEW b \in Nat \ {0}, NEW x \in Nat, NEW w, Weights(w, n, b),
         NEW d, DigitsOf(d, x, w, n, b)
  PROVE  d \in [1 .. n -> 0 .. b - 1] /\ d \in Seq(Nat) /\ Len(d) = n
<1> USE DEF DigitsOf
<1>1. ASSUME NEW k \in 1 .. n PROVE d[k] \in 0 .. b - 1
  <2>1. PICK p \in Nat \ {0} : p = w[n - k]
    <3>1. n - k \in 0 .. n
      OBVIOUS
    <3> QED
      BY <3>1 DEF Weights
  <2>2. x \div p \in Nat
    BY DivMod
  <2>3. (x \div p) % b \in 0 .. b - 1
    BY <2>2, DivMod
  <2> QED
    BY <2>1, <2>3
<1>2. d \in [1 .. n -> 0 .. b - 1] /\ d \in [1 .. n -> Nat] /\ d = [k \in 1 .. n |-> d[k]]
  BY <1>1
<1>3. d \in Seq(Nat) /\ Len(d) = n
  BY <1>2
<1> QED
  BY <1>2, <1>3

\* Texts and bytes of an identifier.
SortableTexts == { t \in Seq(Nat) : Len(t) = ENCODED_LEN /\ \A k \in 1 .. ENCODED_LEN : t[k] < E!SEXTET }

\* A sortable text spells the number of the bytes, shifted up.
LEMMA SortableSpells ==
  ASSUME NEW c \in Seq(E!Bytes), Len(c) = ID_LEN
  PROVE  /\ E!sortable_encode(c) \in SortableTexts
         /\ E!Number(c) \in Nat
         /\ E!Spelled(E!sortable_encode(c)) = E!Number(c) * E!SHIFT
<1>1. PICK n \in Nat, z \in Nat : n = ENCODED_LEN - 1 /\ z = ENCODED_LEN /\ z = n + 1
  BY EncodingsConstants
<1>2. PICK y \in Nat \ {0}, s \in Nat \ {0}, l \in Nat \ {0}, h \in Nat \ {0} :
        y = E!BYTE /\ s = E!SEXTET /\ l = E!LOW /\ h = E!SHIFT
  BY Sizes
<1>3. PICK i \in Nat : i = ID_LEN
  BY EncodingsConstants
<1>4. s = l * h /\ E!Power(y, i) = E!Power(s, n) * l
  BY <1>1, <1>2, <1>3, Sizes
<1>5. PICK w : Weights(w, n, s) /\ E!Power(s, n) = w[n]
  BY PowerIs, SamePower
\* The number of the bytes.
<1>6. PICK x \in Nat : x = E!Number(c) /\ x < E!Power(y, i)
  <2>1. PICK d \in Seq(Nat) : d = c /\ Len(d) = i /\ \A k \in 1 .. i : d[k] < y
    <3> DEFINE C == 0 .. y - 1
    <3>1. E!Bytes = C
      BY <1>2 DEF E!Bytes
    <3>2. \A k \in 1 .. i : c[k] \in E!Bytes
      BY <1>3
    <3>3. \A k \in 1 .. i : c[k] \in Nat /\ c[k] < y
      BY <3>1, <3>2
    <3>4. PICK f \in Seq(E!Bytes) : f = c /\ Len(f) = i /\ f \in [1 .. i -> E!Bytes]
      BY <1>3
    <3>5. f \in [1 .. i -> Nat]
      BY <3>3, <3>4
    <3>6. f \in Seq(Nat)
      BY <3>5
    <3> QED
      BY <3>3, <3>4, <3>6
  <2>2. PICK v : Value(v, d, y)
    BY ValueExists
  <2>3. PICK u : Weights(u, i, y) /\ E!Power(y, i) = u[i]
    BY PowerIs, SamePower
  <2>4. v[i] \in Nat /\ v[i] < u[i]
    BY <2>1, <2>2, <2>3, ValueBelow
  <2>5. E!Number(d) = v[i]
    BY <1>2, <2>1, <2>2, BytesAreValue
  <2> QED
    BY <2>1, <2>3, <2>4, <2>5
<1>7. PICK q \in Nat, r \in 0 .. l - 1 : q = x \div l /\ r = x % l /\ x = q * l + r
  <2>1. x \div l \in Nat /\ x % l \in 0 .. l - 1 /\ x = (x \div l) * l + (x % l)
    BY DivMod
  <2> QED
    BY <2>1, Zenon
<1>8. q < w[n]
  <2>1. PICK p \in Nat \ {0} : p = w[n]
    BY <1>5 DEF Weights
  <2>2. x < p * l
    BY <1>4, <1>5, <1>6, <2>1
  <2>3. x \div l < p
    BY <2>2, DivLess
  <2> QED
    BY <1>7, <2>1, <2>3
<1> DEFINE e == E!sortable_encode(c)
           d == [k \in 1 .. n |-> (q \div w[n - k]) % s]
<1>9. e = [k \in 1 .. z |-> IF k < z THEN (x \div (l * E!Power(s, z - 1 - k))) % s ELSE r * h]
  BY <1>1, <1>2, <1>6, <1>7 DEF E!sortable_encode, E!encode_value, E!LastSextet
<1>10. d \in [1 .. n -> 0 .. s - 1] /\ d \in Seq(Nat) /\ Len(d) = n
  <2>1. DigitsOf(d, q, w, n, s)
    BY DEF DigitsOf
  <2> HIDE DEF d
  <2> QED
    BY <1>5, <2>1, Remainders
<1>11. \A k \in 1 .. n : d[k] = (q \div w[n - k]) % s
  OBVIOUS
<1> HIDE DEF d, e
<1>12. ASSUME NEW k \in 1 .. n PROVE e[k] = d[k]
  <2>1. n - k \in 0 .. n /\ z - 1 - k = n - k /\ k \in 1 .. z /\ k < z
    BY <1>1
  <2>2. PICK p \in Nat \ {0} : p = w[n - k]
    BY <1>5, <2>1 DEF Weights
  <2>3. E!Power(s, n - k) = p
    BY <1>5, <2>1, <2>2, PowerOfWeights
  <2>4. (x \div l) \div p = x \div (l * p)
    BY DivDiv
  <2>5. e[k] = (x \div (l * p)) % s
    BY <1>9, <2>1, <2>3
  <2> QED
    BY <1>7, <1>11, <2>2, <2>4, <2>5
<1>13. e[z] = r * h
  BY <1>1, <1>9
<1>14. PICK rh \in Nat : rh = r * h /\ rh < s
  <2>1. r \in Nat /\ r < l
    OBVIOUS
  <2>2. r * h + 0 < l * h + 0
    BY <2>1, RowOrder
  <2>3. r * h \in Nat /\ l * h \in Nat
    BY <2>1
  <2> QED
    BY <1>4, <2>2, <2>3
<1>15. ASSUME NEW k \in 1 .. z PROVE e[k] \in Nat /\ e[k] < s
  <2>1. CASE k = z
    BY <1>13, <1>14, <2>1
  <2>2. CASE k # z
    <3>1. k \in 1 .. n
      BY <1>1, <2>2
    <3>2. d[k] \in 0 .. s - 1
      BY <1>10, <3>1
    <3> QED
      BY <1>12, <3>1, <3>2
  <2> QED
    BY <2>1, <2>2
<1>16. e \in Seq(Nat) /\ Len(e) = z
  <2>1. e = [k \in 1 .. z |-> e[k]]
    BY <1>9
  <2>2. e \in [1 .. z -> Nat]
    BY <1>15, <2>1
  <2> QED
    BY <2>2
<1>17. PICK g \in Seq(Nat) : g = e
  BY <1>16
<1>18. PICK v : Value(v, g, s)
  BY ValueExists
<1>19. PICK u : Value(u, d, s)
  BY <1>10, ValueExists
<1>20. u[n] = q
  BY <1>5, <1>8, <1>10, <1>11, <1>19, DigitsSpell
<1>21. v[n] = u[n]
  <2>1. n \in 0 .. Len(g) /\ n <= Len(d) /\ \A k \in 1 .. n : g[k] = d[k]
    BY <1>1, <1>10, <1>12, <1>16, <1>17
  <2>2. PICK f \in Seq(Nat) : f = d
    BY <1>10
  <2>3. Value(u, f, s) /\ n <= Len(f) /\ \A k \in 1 .. n : g[k] = f[k]
    BY <1>19, <2>1, <2>2
  <2>4. n \in 0 .. Len(g) /\ Value(v, g, s) /\ s \in Nat
    BY <1>18, <2>1
  <2> QED
    BY ONLY <2>3, <2>4, g \in Seq(Nat), f \in Seq(Nat), ValuePrefix
<1>22. v[z] = x * h
  <2>1. v[z] = v[n] * s + g[z]
    BY <1>1, <1>16, <1>17, <1>18 DEF Value
  <2>2. v[z] = q * (l * h) + r * h
    BY <1>4, <1>13, <1>17, <1>20, <1>21, <2>1
  <2>3. q * (l * h) + r * h = (q * l + r) * h
    BY r \in Nat
  <2> QED
    BY <1>7, <2>2, <2>3
<1>23. E!Spelled(e) = v[z]
  BY <1>2, <1>16, <1>17, <1>18, SextetsAreValue
<1>24. e \in SortableTexts
  BY <1>1, <1>2, <1>15, <1>16 DEF SortableTexts
<1> QED
  BY <1>2, <1>6, <1>22, <1>23, <1>24 DEF e

\* The bytes of a number are its digits.
LEMMA NumberOfBytes ==
  ASSUME NEW x \in Nat, x < E!Power(E!BYTE, ID_LEN)
  PROVE  E!BytesOf(x) \in Seq(E!Bytes) /\ E!Number(E!BytesOf(x)) = x
<1>1. PICK y \in Nat \ {0}, i \in Nat : y = E!BYTE /\ i = ID_LEN
  BY Sizes, EncodingsConstants
<1>2. PICK w : Weights(w, i, y) /\ E!Power(y, i) = w[i]
  BY PowerIs, SamePower
<1> DEFINE d == [k \in 1 .. i |-> (x \div w[i - k]) % y]
<1>3. E!BytesOf(x) = d
  <2>1. ASSUME NEW k \in 1 .. i PROVE E!Power(y, i - k) = w[i - k]
    <3>1. i - k \in 0 .. i
      OBVIOUS
    <3> QED
      BY <1>2, <3>1, PowerOfWeights
  <2> QED
    BY <1>1, <2>1 DEF E!BytesOf
<1>4. d \in [1 .. i -> 0 .. y - 1] /\ d \in Seq(Nat) /\ Len(d) = i
  <2>1. DigitsOf(d, x, w, i, y)
    BY DEF DigitsOf
  <2> HIDE DEF d
  <2> QED
    BY <1>2, <2>1, Remainders
<1>5. \A k \in 1 .. i : d[k] = (x \div w[i - k]) % y
  OBVIOUS
<1> HIDE DEF d
<1>6. PICK v : Value(v, d, y)
  BY <1>4, ValueExists
<1>7. v[i] = x
  BY <1>1, <1>2, <1>4, <1>5, <1>6, DigitsSpell
<1>8. E!Number(d) = v[i]
  BY <1>1, <1>4, <1>6, BytesAreValue
<1>9. d \in Seq(E!Bytes)
  <2>1. E!Bytes = 0 .. y - 1
    BY <1>1 DEF E!Bytes
  <2>2. d \in [1 .. i -> E!Bytes]
    BY <1>4, <2>1
  <2> QED
    BY <2>2
<1> QED
  BY <1>3, <1>7, <1>8, <1>9

\* An accepted text spells the number of its bytes, shifted up.
LEMMA SortableRead ==
  ASSUME NEW t \in Seq(0 .. E!Junk), E!sortable_decode(t).ok
  PROVE  /\ t \in SortableTexts
         /\ E!sortable_decode(t).value \in Seq(E!Bytes)
         /\ E!Number(E!sortable_decode(t).value) \in Nat
         /\ E!Spelled(t) = E!Number(E!sortable_decode(t).value) * E!SHIFT
<1>1. PICK n \in Nat, z \in Nat : n = ENCODED_LEN - 1 /\ z = ENCODED_LEN /\ z = n + 1
  BY EncodingsConstants
<1>2. PICK y \in Nat \ {0}, s \in Nat \ {0}, l \in Nat \ {0}, h \in Nat \ {0} :
        y = E!BYTE /\ s = E!SEXTET /\ l = E!LOW /\ h = E!SHIFT
  BY Sizes
<1>3. PICK p \in Nat \ {0} : p = E!Power(s, n)
  BY PowerType
<1>4. s = l * h /\ E!Power(y, ID_LEN) = p * l
  BY <1>1, <1>2, <1>3, Sizes
<1>5. /\ Len(t) = z /\ (\A k \in 1 .. z : ~ t[k] >= s) /\ t[z] % h = 0
      /\ E!sortable_decode(t) = E!Ok(E!BytesOf(E!Spelled(t) \div h))
  <2>1. \A m : ~ E!Err(m).ok
    BY DEF E!Err
  <2> QED
    BY <1>1, <1>2, <2>1 DEF E!sortable_decode
<1>6. PICK g \in Seq(Nat) : g = t /\ Len(g) = z /\ \A k \in 1 .. z : g[k] < s
  <2>1. 0 .. E!Junk \subseteq Nat
    OBVIOUS
  <2> DEFINE C == 0 .. E!Junk
  <2>2. C \subseteq Nat
    BY <2>1
  <2> HIDE DEF C
  <2>3. t \in Seq(C)
    BY DEF C
  <2>4. \A k \in 1 .. z : t[k] \in C
    BY <1>5, <2>3
  <2>5. t \in [1 .. z -> C]
    BY <1>5, <2>3
  <2>6. t \in [1 .. z -> Nat]
    BY <2>2, <2>4, <2>5
  <2>7. ASSUME NEW k \in 1 .. z PROVE t[k] \in Nat /\ t[k] < s
    <3>1. PICK x \in Nat : x = t[k]
      BY <2>2, <2>4
    <3>2. ~ x >= s
      BY <1>5, <3>1
    <3> QED
      BY <3>1, <3>2
  <2>8. t \in Seq(Nat)
    BY <2>6
  <2> QED
    BY <1>5, <2>7, <2>8
<1>7. PICK v : Value(v, g, s)
  BY ValueExists
<1>8. PICK a \in Nat : a = v[n]
  BY <1>1, <1>6, <1>7 DEF Value
<1>9. PICK b \in Nat : g[z] = b * h
  <2>1. PICK f \in Nat : f = g[z] /\ f % h = 0
    BY <1>1, <1>5, <1>6
  <2>2. PICK m \in Nat : m = f \div h /\ f = m * h + (f % h)
    BY DivMod
  <2>3. m * h \in Nat
    OBVIOUS
  <2>4. f = m * h
    BY <2>1, <2>2, <2>3
  <2> QED
    BY <2>1, <2>4
<1>10. v[z] = a * s + b * h
  <2>1. z \in 1 .. Len(g) /\ z - 1 = n
    BY <1>1, <1>6
  <2>2. v[z] = v[z - 1] * s + g[z]
    BY <1>7, <2>1 DEF Value
  <2> QED
    BY <1>8, <1>9, <2>1, <2>2
<1>11. PICK x \in Nat : x = a * l + b
  <2>1. a * l + b \in Nat
    OBVIOUS
  <2> QED
    BY <2>1
<1>12. v[z] = x * h
  <2>1. a * (l * h) + b * h = (a * l + b) * h
    OBVIOUS
  <2> QED
    BY <1>4, <1>10, <1>11, <2>1
<1>13. x < p * l
  <2>1. PICK w : Weights(w, z, s) /\ E!Power(s, z) = w[z]
    BY PowerIs, SamePower
  <2>2. v[z] < w[z]
    BY <1>6, <1>7, <2>1, ValueBelow
  <2>3. w[z] = p * s
    <3>1. E!Power(s, n + 1) = E!Power(s, n) * s
      BY PowerNext
    <3>2. E!Power(s, z) = p * s
      BY <1>1, <1>3, <3>1, Zenon
    <3> QED
      BY <2>1, <3>2, Zenon
  <2>4. p * s = (p * l) * h
    BY <1>4
  <2>5. PICK o \in Nat : o = p * l
    OBVIOUS
  <2>6. x * h < o * h
    BY <1>12, <2>2, <2>3, <2>4, <2>5
  <2>7. PICK xh \in Nat : xh = x * h /\ xh < o * h
    BY <2>6
  <2>8. xh \div h < o
    BY <2>7, DivLess
  <2>9. (x * h + 0) \div h = x
    BY DivUnique
  <2> QED
    BY <2>5, <2>7, <2>8, <2>9
<1>14. E!Spelled(t) = x * h
  BY <1>2, <1>6, <1>7, <1>12, SextetsAreValue
<1>15. E!Spelled(t) \div h = x
  <2>1. (x * h + 0) \div h = x
    BY DivUnique
  <2> QED
    BY <1>14, <2>1
<1>16. E!sortable_decode(t).value = E!BytesOf(x)
  BY <1>5, <1>15 DEF E!Ok
<1>17. E!BytesOf(x) \in Seq(E!Bytes) /\ E!Number(E!BytesOf(x)) = x
  BY <1>2, <1>4, <1>13, NumberOfBytes
<1>18. t \in SortableTexts
  BY <1>1, <1>2, <1>6 DEF SortableTexts
<1> QED
  BY <1>2, <1>14, <1>16, <1>17, <1>18

\* The order of sortable texts is that of the numbers they spell.
LEMMA SortableTextOrder ==
  ASSUME NEW t \in SortableTexts, NEW u \in SortableTexts
  PROVE  E!TextLess(t, u) <=> E!Spelled(t) < E!Spelled(u)
<1>1. PICK z \in Nat, s \in Nat : z = ENCODED_LEN /\ s = E!SEXTET
  BY EncodingsConstants, Sizes
<1>2. PICK d \in Seq(Nat), e \in Seq(Nat) :
        d = t /\ e = u /\ Len(d) = z /\ Len(e) = z /\ \A k \in 1 .. z : d[k] < s /\ e[k] < s
  BY <1>1 DEF SortableTexts
<1>3. PICK v : Value(v, d, s)
  BY ValueExists
<1>4. PICK w : Value(w, e, s)
  BY ValueExists
<1>5. Precedes(d, e, z) <=> v[z] < w[z]
  BY <1>2, <1>3, <1>4, DigitsOrder
<1>6. E!Spelled(d) = v[z] /\ E!Spelled(e) = w[z]
  BY <1>1, <1>2, <1>3, <1>4, SextetsAreValue
<1>7. E!TextLess(d, e) <=> Precedes(d, e, z)
  BY <1>2 DEF E!TextLess, Precedes
<1> QED
  BY <1>2, <1>5, <1>6, <1>7

\* An application that uses sortable texts holds bytes and texts.
SortableInv == codec = "sortable" => bytes \in Seq(E!Bytes) /\ text \in Seq(0 .. E!Junk)

LEMMA SortableInit == Init /\ part = "encodings" => SortableInv
<1> SUFFICES ASSUME E!Init PROVE SortableInv
  BY DEF Init
<1> QED
  BY EncodingsConstants DEF E!Init, SortableInv

LEMMA SortableNext ==
  ASSUME SortableInv, part = "encodings", [Next]_vars
  PROVE  SortableInv'
<1>1. CASE UNCHANGED vars
  BY <1>1 DEF SortableInv, vars, eVars
<1>2. ASSUME E!Encode PROVE SortableInv'
  <2> SUFFICES ASSUME codec' = "sortable"
               PROVE  bytes' \in Seq(E!Bytes) /\ text' \in Seq(0 .. E!Junk)
    BY DEF SortableInv
  <2>1. /\ codec = "sortable" /\ bytes' = bytes /\ e_result' = E!Encoded(codec, bytes)
        /\ text' = IF e_result'.ok THEN e_result'.value ELSE text
    BY <1>2 DEF E!Encode
  <2>2. bytes \in Seq(E!Bytes) /\ text \in Seq(0 .. E!Junk)
    BY <2>1 DEF SortableInv
  <2>3. e_result' = IF Len(bytes) # ID_LEN THEN E!Err("InvalidLength") ELSE E!Ok(E!sortable_encode(bytes))
    BY <2>1 DEF E!Encoded
  <2>4. CASE Len(bytes) # ID_LEN
    <3>1. ~ e_result'.ok
      BY <2>3, <2>4 DEF E!Err
    <3> QED
      BY <2>1, <2>2, <3>1
  <2>5. CASE Len(bytes) = ID_LEN
    <3>1. text' = E!sortable_encode(bytes)
      BY <2>1, <2>3, <2>5 DEF E!Ok
    <3>2. PICK t \in SortableTexts : t = text'
      BY <2>2, <2>5, <3>1, SortableSpells
    <3>3. t \in Seq(0 .. E!Junk)
      <4>1. PICK s \in Nat, z \in Nat : s = E!SEXTET /\ z = ENCODED_LEN
        BY Sizes, EncodingsConstants
      <4>2. t \in Seq(Nat) /\ Len(t) = z /\ \A k \in 1 .. z : t[k] < s
        BY <4>1 DEF SortableTexts
      <4>3. E!Junk = s + 1
        BY <4>1 DEF E!Junk
      <4> DEFINE C == 0 .. E!Junk
      <4>4. \A k \in 1 .. z : t[k] \in C
        BY <4>2, <4>3
      <4> HIDE DEF C
      <4>5. t \in [1 .. z -> C]
        BY <4>2, <4>4
      <4>6. t \in Seq(C)
        BY <4>5
      <4> QED
        BY <4>6 DEF C
    <3> QED
      BY <2>1, <2>2, <3>2, <3>3
  <2> QED
    BY <2>4, <2>5
<1>3. ASSUME E!Decode PROVE SortableInv'
  <2> SUFFICES ASSUME codec' = "sortable"
               PROVE  bytes' \in Seq(E!Bytes) /\ text' \in Seq(0 .. E!Junk)
    BY DEF SortableInv
  <2>1. /\ codec = "sortable" /\ text' = text /\ e_result' = E!Decoded(codec, text)
        /\ bytes' = IF e_result'.ok THEN e_result'.value ELSE bytes
    BY <1>3 DEF E!Decode
  <2>2. bytes \in Seq(E!Bytes) /\ text \in Seq(0 .. E!Junk)
    BY <2>1 DEF SortableInv
  <2>3. e_result' = E!sortable_decode(text)
    BY <2>1 DEF E!Decoded
  <2>4. e_result'.ok => e_result'.value \in Seq(E!Bytes)
    BY <2>2, <2>3, SortableRead
  <2> QED
    BY <2>1, <2>2, <2>4
<1>4. Next => E!Next
  BY DEF Next
<1> QED
  BY <1>1, <1>2, <1>3, <1>4 DEF E!Next

LEMMA SortableAlways == Spec => [](part = "encodings" => SortableInv)
<1>1. Init => (part = "encodings" => SortableInv)
  BY SortableInit
<1>2. (part = "encodings" => SortableInv) /\ [Next]_vars => (part = "encodings" => SortableInv)'
  <2> SUFFICES ASSUME part = "encodings" => SortableInv, [Next]_vars, part' = "encodings"
               PROVE  SortableInv'
    OBVIOUS
  <2>1. part' = part
    BY DEF Next, vars
  <2> QED
    BY <2>1, SortableNext
<1> QED
  BY <1>1, <1>2, PTL DEF Spec

LEMMA SortablesOrdered == SortableInv => E!SortableOrder
<1> DEFINE e == E!Encoded(codec, bytes)
           d == E!Decoded(codec, text)
<1> SUFFICES ASSUME SortableInv, codec = "sortable", e.ok, d.ok
             PROVE  E!TextLess(e.value, text) <=> E!Number(bytes) < E!Number(d.value)
  BY DEF E!SortableOrder
<1>1. bytes \in Seq(E!Bytes) /\ text \in Seq(0 .. E!Junk)
  BY DEF SortableInv
<1>2. Len(bytes) = ID_LEN /\ e = E!Ok(E!sortable_encode(bytes))
  <2>1. ~ E!Err("InvalidLength").ok
    BY DEF E!Err
  <2> QED
    BY <2>1 DEF E!Encoded
<1>3. e.value = E!sortable_encode(bytes)
  BY <1>2 DEF E!Ok
<1>4. d = E!sortable_decode(text)
  BY DEF E!Decoded
<1> HIDE DEF e, d
<1>5. /\ e.value \in SortableTexts /\ E!Number(bytes) \in Nat
      /\ E!Spelled(e.value) = E!Number(bytes) * E!SHIFT
  BY <1>1, <1>2, <1>3, SortableSpells
<1>6. /\ text \in SortableTexts /\ E!Number(d.value) \in Nat
      /\ E!Spelled(text) = E!Number(d.value) * E!SHIFT
  BY <1>1, <1>4, SortableRead
<1>7. E!TextLess(e.value, text) <=> E!Spelled(e.value) < E!Spelled(text)
  BY <1>5, <1>6, SortableTextOrder
<1>8. PICK x \in Nat, y \in Nat, h \in Nat \ {0} : x = E!Number(bytes) /\ y = E!Number(d.value) /\ h = E!SHIFT
  BY <1>5, <1>6, Sizes
<1>9. x < y <=> x * h < y * h
  <2>1. x * h \in Nat /\ y * h \in Nat
    OBVIOUS
  <2>2. ASSUME x < y PROVE x * h < y * h
    <3>1. x * h + 0 < y * h + 0
      BY <2>2, RowOrder
    <3> QED
      BY <2>1, <3>1
  <2>3. ASSUME y <= x PROVE y * h <= x * h
    BY <2>3, TimesOrder
  <2> QED
    BY <2>1, <2>2, <2>3
<1> QED
  BY <1>5, <1>6, <1>7, <1>8, <1>9

\* For every width of the bytes, the characters and the limbs, and every
\* radix: sortable texts, and KSUID texts of one array, are ordered as the
\* numbers they stand for, and compare tells that order (sortable.rs:54-56,
\* ksuid.rs:10-12).
THEOREM TextsKeepOrder == Spec => []OrderKept
<1>1. /\ part = "encodings" => SortableInv
      /\ part = "ksuid" => KsuidInv
      => OrderKept
  BY SortablesOrdered, KsuidsOrdered DEF OrderKept
<1> QED
  BY <1>1, SortableAlways, KsuidAlways, PTL

=============================================================================
