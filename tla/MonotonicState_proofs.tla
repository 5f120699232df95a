----------------------- MODULE MonotonicState_proofs -----------------------
(***************************************************************************)
(* Proofs about MonotonicState: its types, that the identifiers strictly   *)
(* increase, and that it implements StrictStream, for every number of      *)
(* callers, every width of the two halves and every clock behaviour that   *)
(* Environment allows.                                                     *)
(***************************************************************************)
EXTENDS MonotonicState, TLAPS

-----------------------------------------------------------------------------
(* What Id128!from_parts computes, for every width of its two halves.      *)

\* The remainder of a number below the modulus is that number.
LEMMA SmallModulus ==
  ASSUME NEW n \in Nat \ {0}, NEW x \in 0 .. n - 1
  PROVE  x % n = x
  OBVIOUS

\* A remainder lies below its modulus.
LEMMA ModulusRange ==
  ASSUME NEW n \in Nat \ {0}, NEW x \in Nat
  PROVE  x % n \in 0 .. n - 1
  OBVIOUS

\* Rows of n cells do not overlap: a cell of an earlier row comes first.
LEMMA RowOrder ==
  ASSUME NEW n \in Nat, NEW a \in Nat, NEW b \in Nat, a < b,
         NEW r \in Nat, NEW s \in Nat, r < n
  PROVE  a * n + r < b * n + s
<1> DEFINE k == b - a - 1
<1>1. k \in Nat /\ b = a + 1 + k
  OBVIOUS
<1>2. b * n = a * n + n + k * n
  BY <1>1
<1>3. k * n \in Nat /\ a * n \in Nat
  BY <1>1
<1> HIDE DEF k
<1>4. QED
  BY <1>2, <1>3

\* Within their widths the two halves are stored untouched.
LEMMA FromPartsExact ==
  ASSUME NEW ms \in Timestamps, NEW rand \in Randomnesses
  PROVE  from_parts(ms, rand) = ms * (RANDOM_MASK + 1) + rand
<1>1. ms % (TIME_MAX + 1) = ms
  BY SmallModulus, Id128Assumption DEF Timestamps
<1>2. rand % (RANDOM_MASK + 1) = rand
  BY SmallModulus, Id128Assumption DEF Randomnesses
<1>3. QED
  BY <1>1, <1>2 DEF from_parts

\* Whatever it is given, from_parts builds a 128-bit value.
LEMMA FromPartsType ==
  ASSUME NEW ms \in Nat, NEW rand \in Nat
  PROVE  from_parts(ms, rand) \in Ids
<1> DEFINE n == RANDOM_MASK + 1
           h == ms % (TIME_MAX + 1)
           l == rand % n
<1>1. n \in Nat \ {0} /\ TIME_MAX + 1 \in Nat \ {0}
  BY Id128Assumption
<1>2. h \in 0 .. TIME_MAX /\ l \in 0 .. n - 1
  BY <1>1, ModulusRange, Id128Assumption
<1>3. from_parts(ms, rand) = h * n + l
  BY DEF from_parts
<1>4. Ids = 0 .. (TIME_MAX + 1) * n - 1
  BY DEF Ids
<1> HIDE DEF n, h, l
<1>5. h * n + l < (TIME_MAX + 1) * n + 0
  BY <1>1, <1>2, RowOrder, Id128Assumption
<1>6. h * n \in Nat /\ (TIME_MAX + 1) * n \in Nat
  BY <1>1, <1>2, Id128Assumption
<1>7. QED
  BY <1>2, <1>3, <1>4, <1>5, <1>6

\* The order of identifiers is the order of their timestamps, and within a
\* timestamp the order of their random parts: what makes an increment of
\* either half move an identifier forward (id128.rs:57-67).
THEOREM FromPartsOrder ==
  ASSUME NEW ms1 \in Timestamps, NEW ms2 \in Timestamps,
         NEW r1 \in Randomnesses, NEW r2 \in Randomnesses,
         ms1 < ms2 \/ (ms1 = ms2 /\ r1 < r2)
  PROVE  from_parts(ms1, r1) < from_parts(ms2, r2)
<1>1. /\ from_parts(ms1, r1) = ms1 * (RANDOM_MASK + 1) + r1
      /\ from_parts(ms2, r2) = ms2 * (RANDOM_MASK + 1) + r2
  BY FromPartsExact
<1>2. /\ ms1 \in Nat /\ ms2 \in Nat /\ r1 \in Nat /\ r2 \in Nat
      /\ r1 < RANDOM_MASK + 1 /\ RANDOM_MASK + 1 \in Nat
  BY Id128Assumption DEF Timestamps, Randomnesses
<1>3. CASE ms1 < ms2
  BY <1>1, <1>2, <1>3, RowOrder
<1>4. CASE ms1 = ms2 /\ r1 < r2
  <2>1. ms1 * (RANDOM_MASK + 1) \in Nat
    BY <1>2
  <2>2. QED
    BY <1>1, <1>2, <1>4, <2>1
<1>5. QED
  BY <1>3, <1>4

\* Identifiers are numbers.
LEMMA IdsAreNumbers == Ids \subseteq Nat
<1>1. (TIME_MAX + 1) * (RANDOM_MASK + 1) - 1 \in Int
  BY Id128Assumption
<1>2. QED
  BY <1>1 DEF Ids

\* from_parts builds a number.
LEMMA FromPartsNumber ==
  ASSUME NEW ms \in Timestamps, NEW rand \in Randomnesses
  PROVE  from_parts(ms, rand) \in Nat
<1>1. ms \in Nat /\ rand \in Nat
  BY Id128Assumption DEF Timestamps, Randomnesses
<1>2. QED
  BY <1>1, FromPartsType, IdsAreNumbers

\* The smallest identifier of a millisecond is the one with random part 0.
LEMMA FromPartsLowest ==
  ASSUME NEW ms \in Timestamps, NEW rand \in Randomnesses
  PROVE  from_parts(ms, 0) <= from_parts(ms, rand)
<1>1. /\ 0 \in Randomnesses /\ rand \in Nat
      /\ ms * (RANDOM_MASK + 1) \in Nat
  BY Id128Assumption DEF Randomnesses, Timestamps
<1>2. QED
  BY <1>1, FromPartsExact

\* What from_parts stores, timestamp_ms reads back.
LEMMA TimestampReadsBack ==
  ASSUME NEW ms \in Timestamps, NEW rand \in Randomnesses
  PROVE  timestamp_ms(from_parts(ms, rand)) = ms
<1> DEFINE n == RANDOM_MASK + 1
<1>1. n \in Nat \ {0} /\ ms \in Nat /\ rand \in 0 .. n - 1
  BY Id128Assumption DEF Timestamps, Randomnesses
<1>2. timestamp_ms(from_parts(ms, rand)) = (ms * n + rand) \div n
  BY FromPartsExact DEF timestamp_ms
<1>3. (ms * n + rand) \div n = ms
  <2> HIDE DEF n
  <2>1. QED
    BY <1>1
<1>4. QED
  BY <1>2, <1>3

-----------------------------------------------------------------------------
(* The generator.                                                          *)

\* What the code needs from its surroundings: the clock is not set back
\* between the two reads of the exhausted branch, and neither the clock nor
\* an explicit timestamp exceeds what an identifier can hold.
Environment ==
  /\ ~ClockStepsInReread
  /\ SeedTimes \subseteq Timestamps
  /\ MaxClock <= TIME_MAX

Newest == from_parts(last_ms, last_rand)

OneInside ==
  \A c, d \in Callers : pc[c] # "idle" /\ pc[d] # "idle" => c = d

InTime ==
  /\ last_ms \in Timestamps
  /\ \A c \in Callers : now[c] \in Timestamps

\* The state is never behind what was returned, and strictly ahead of it,
\* whatever is drawn, once a new millisecond was stored.
Ahead ==
  \A i \in 1 .. Len(out) :
    /\ out[i] <= Newest
    /\ \A c \in Callers : pc[c] = "draw" => out[i] < from_parts(last_ms, 0)

ClockAhead == \A c \in Callers : pc[c] = "reread" => clock > last_ms

IInv ==
  /\ TypeOK
  /\ OneInside
  /\ InTime
  /\ Ahead
  /\ ClockAhead
  /\ StrictlyIncreasing

-----------------------------------------------------------------------------

\* The identifiers of a stream are numbers.
LEMMA StreamOfNumbers ==
  ASSUME NEW s \in Seq(Ids)
  PROVE  Len(s) \in Nat /\ \A i \in 1 .. Len(s) : s[i] \in Nat
<1>1. Len(s) \in Nat /\ \A i \in 1 .. Len(s) : s[i] \in Ids
  OBVIOUS
<1>2. QED
  BY <1>1, IdsAreNumbers

\* Appending a larger identifier keeps a stream strictly increasing.
LEMMA AppendIncreasing ==
  ASSUME NEW s \in Seq(Ids), NEW id \in Ids,
         \A i, j \in 1 .. Len(s) : i < j => s[i] < s[j],
         \A i \in 1 .. Len(s) : s[i] < id
  PROVE  \A i, j \in 1 .. Len(Append(s, id)) :
           i < j => Append(s, id)[i] < Append(s, id)[j]
  OBVIOUS

\* One step keeps the types (all actions, no assumption on the environment).
LEMMA StepPreservesTypeOK ==
  ASSUME TypeOK, [Next]_vars PROVE TypeOK'
<1> USE DEF TypeOK
<1>1. CASE Tick
  BY <1>1, MonotonicStateAssumption DEF Tick
<1>2. CASE StepBack
  BY <1>2, MonotonicStateAssumption DEF StepBack
<1>3. ASSUME NEW c \in Callers, NEW ts \in SeedTimes \cup {clock}, Call(c, ts)
      PROVE  TypeOK'
  <2>1. ts \in Nat
    BY MonotonicStateAssumption
  <2>2. QED
    BY <1>3, <2>1, MonotonicStateAssumption DEF Call, Go, Locations
<1>4. ASSUME NEW c \in Callers, NewMillisecond(c)
      PROVE  TypeOK'
  BY <1>4 DEF NewMillisecond, Go, Locations
<1>5. ASSUME NEW c \in Callers, Increment(c)
      PROVE  TypeOK'
  <2>1. last_rand' \in Randomnesses
    BY <1>5, Id128Assumption DEF Increment, Randomnesses
  <2>2. from_parts(last_ms, last_rand') \in Ids
    BY <2>1, FromPartsType, Id128Assumption DEF Randomnesses
  <2>3. QED
    BY <1>5, <2>1, <2>2 DEF Increment, Return, Go, Locations
<1>6. ASSUME NEW c \in Callers, Exhausted(c)
      PROVE  TypeOK'
  BY <1>6 DEF Exhausted, Go, Locations
<1>7. ASSUME NEW c \in Callers, SpinExit(c)
      PROVE  TypeOK'
  BY <1>7 DEF SpinExit, Go, Locations
<1>8. ASSUME NEW c \in Callers, Reread(c)
      PROVE  TypeOK'
  BY <1>8, MonotonicStateAssumption DEF Reread, Go, Locations
<1>9. ASSUME NEW c \in Callers, NEW r \in Randomnesses, Draw(c, r)
      PROVE  TypeOK'
  <2>1. from_parts(last_ms, r) \in Ids
    BY FromPartsType, Id128Assumption DEF Randomnesses
  <2>2. QED
    BY <1>9, <2>1 DEF Draw, Return, Go, Locations
<1>10. ASSUME NEW c \in Callers, DrawPanic(c)
       PROVE  TypeOK'
  BY <1>10 DEF DrawPanic, Go, Locations
<1>11. CASE UNCHANGED vars
  BY <1>11 DEF vars
<1>12. QED
  BY <1>1, <1>2, <1>3, <1>4, <1>5, <1>6, <1>7, <1>8, <1>9, <1>10, <1>11
  DEF Next, next_with, Inside

\* Every variable keeps its type.
THEOREM TypeCorrect == Spec => []TypeOK
<1>1. Init => TypeOK
  <2> SUFFICES ASSUME Init PROVE TypeOK
    OBVIOUS
  <2>1. /\ last_ms \in Nat
        /\ last_rand \in Randomnesses
        /\ clock \in 0 .. MaxClock
        /\ calls \in 0 .. MaxCalls
    BY Id128Assumption, MonotonicStateAssumption DEF Init, Randomnesses
  <2>2. pc \in [Callers -> Locations] /\ now \in [Callers -> Nat]
    BY DEF Init, Locations
  <2>3. out \in Seq(Ids)
    BY DEF Init
  <2>4. QED
    BY <2>1, <2>2, <2>3 DEF TypeOK
<1>2. TypeOK /\ [Next]_vars => TypeOK'
  BY StepPreservesTypeOK
<1>3. QED
  BY <1>1, <1>2, PTL DEF Spec

-----------------------------------------------------------------------------

\* One step of a caller, or of the clock, keeps the strengthened invariant.
LEMMA StepPreservesIInv ==
  ASSUME Environment, IInv, [Next]_vars, TypeOK'
  PROVE  IInv'
<1> USE DEF IInv
<1>range. /\ RANDOM_MASK \in Nat /\ 0 \in Randomnesses
      /\ last_ms \in Timestamps /\ last_rand \in Randomnesses
      /\ Randomnesses \subseteq Nat /\ Timestamps \subseteq Nat
  BY Id128Assumption DEF TypeOK, InTime, Randomnesses, Timestamps
<1>ids. Len(out) \in Nat /\ \A i \in 1 .. Len(out) : out[i] \in Nat
  <2>1. out \in Seq(Ids)
    BY DEF TypeOK
  <2>2. QED
    BY <2>1, StreamOfNumbers
<1>1. CASE Tick
  <2>1. OneInside' /\ InTime'
    BY <1>1 DEF Tick, OneInside, InTime
  <2>2. Ahead' /\ StrictlyIncreasing'
    BY <1>1 DEF Tick, Ahead, Newest, StrictlyIncreasing
  <2>3. ClockAhead'
    BY <1>1 DEF Tick, ClockAhead, TypeOK
  <2>4. QED
    BY <2>1, <2>2, <2>3
<1>2. CASE StepBack
  <2>1. OneInside' /\ InTime'
    BY <1>2 DEF StepBack, OneInside, InTime
  <2>2. Ahead' /\ StrictlyIncreasing'
    BY <1>2 DEF StepBack, Ahead, Newest, StrictlyIncreasing
  <2>3. ClockAhead'
    BY <1>2 DEF StepBack, ClockAhead, Environment
  <2>4. QED
    BY <2>1, <2>2, <2>3
<1>3. ASSUME NEW c \in Callers, NEW ts \in SeedTimes \cup {clock},
             Exclusive, Call(c, ts)
      PROVE  IInv'
  <2>1. ts \in Timestamps
    BY Id128Assumption, MonotonicStateAssumption
    DEF Environment, TypeOK, Timestamps
  <2>2. OneInside'
    BY <1>3 DEF Exclusive, Call, Go, OneInside, TypeOK
  <2>3. InTime'
    BY <1>3, <2>1 DEF Call, Go, InTime, TypeOK
  <2>4. Ahead' /\ StrictlyIncreasing' /\ ClockAhead'
    BY <1>3 DEF Call, Go, Ahead, Newest, StrictlyIncreasing, ClockAhead, TypeOK
  <2>5. QED
    BY <2>2, <2>3, <2>4
<1>4. ASSUME NEW c \in Callers, NewMillisecond(c)
      PROVE  IInv'
  <2>1. OneInside' /\ InTime'
    BY <1>4 DEF NewMillisecond, Go, OneInside, InTime, TypeOK
  <2>2. from_parts(last_ms, last_rand) < from_parts(last_ms', 0)
    BY <1>range, <1>4, <2>1, FromPartsOrder DEF NewMillisecond, InTime
  <2>3. from_parts(last_ms', 0) <= from_parts(last_ms', last_rand')
    BY <1>range, <1>4, <2>1, FromPartsLowest DEF NewMillisecond, InTime
  <2>4. Ahead'
    <3> SUFFICES ASSUME NEW i \in 1 .. Len(out)
                 PROVE  /\ out[i] < from_parts(last_ms', 0)
                        /\ out[i] <= from_parts(last_ms', last_rand')
      BY <1>4 DEF NewMillisecond, Ahead, Newest
    <3>1. out[i] <= from_parts(last_ms, last_rand)
      BY DEF Ahead, Newest
    <3>2. /\ out[i] \in Int
          /\ from_parts(last_ms, last_rand) \in Int
          /\ from_parts(last_ms', 0) \in Int
          /\ from_parts(last_ms', last_rand') \in Int
      BY <1>range, <1>ids, <1>4, <2>1, FromPartsNumber DEF InTime, NewMillisecond
    <3>3. QED
      BY <2>2, <2>3, <3>1, <3>2
  <2>5. StrictlyIncreasing' /\ ClockAhead'
    BY <1>4 DEF NewMillisecond, Go, StrictlyIncreasing, ClockAhead, OneInside, TypeOK
  <2>6. QED
    BY <2>1, <2>4, <2>5
<1>5. ASSUME NEW c \in Callers, Increment(c)
      PROVE  IInv'
  <2> DEFINE id == from_parts(last_ms, last_rand')
  <2>1. last_rand' = last_rand + 1 /\ last_rand' \in Randomnesses
    BY <1>5, Id128Assumption DEF Increment, TypeOK, Randomnesses
  <2>2. id \in Ids /\ Newest < id
    BY <1>range, <2>1, FromPartsType, FromPartsOrder DEF Newest
  <2>3. OneInside' /\ InTime' /\ ClockAhead'
    BY <1>5 DEF Increment, Return, Go, OneInside, InTime, ClockAhead, TypeOK
  <2>4. /\ out' = Append(out, id)
        /\ last_ms' = last_ms
        /\ \A d \in Callers : pc'[d] # "draw"
    BY <1>5 DEF Increment, Return, Go, OneInside, TypeOK
  <2>5. \A i \in 1 .. Len(out) : out[i] < id
    <3>1. Newest \in Nat /\ id \in Nat
      BY <1>range, <2>1, FromPartsNumber DEF Newest
    <3>2. \A i \in 1 .. Len(out) : out[i] <= Newest
      BY DEF Ahead
    <3> HIDE DEF id
    <3>3. QED
      BY <1>ids, <2>2, <3>1, <3>2
  <2>6. StrictlyIncreasing'
    BY <2>2, <2>4, <2>5, AppendIncreasing DEF StrictlyIncreasing, TypeOK
  <2>7. Ahead'
    <3>1. \A i \in 1 .. Len(out') : out'[i] <= id
      <4>1. id \in Nat /\ out \in Seq(Ids)
        BY <2>2, IdsAreNumbers DEF TypeOK
      <4> HIDE DEF id
      <4>2. QED
        BY <1>ids, <2>4, <2>5, <4>1
    <3>2. QED
      BY <2>4, <3>1 DEF Ahead, Newest
  <2>8. QED
    BY <2>3, <2>6, <2>7
<1>6. ASSUME NEW c \in Callers, Exhausted(c)
      PROVE  IInv'
  <2>1. OneInside' /\ InTime' /\ ClockAhead'
    BY <1>6 DEF Exhausted, Go, OneInside, InTime, ClockAhead, TypeOK
  <2>2. Ahead' /\ StrictlyIncreasing'
    BY <1>6 DEF Exhausted, Go, Ahead, Newest, StrictlyIncreasing, TypeOK
  <2>3. QED
    BY <2>1, <2>2
<1>7. ASSUME NEW c \in Callers, SpinExit(c)
      PROVE  IInv'
  <2>1. OneInside' /\ InTime'
    BY <1>7 DEF SpinExit, Go, OneInside, InTime, TypeOK
  <2>2. Ahead' /\ StrictlyIncreasing'
    BY <1>7 DEF SpinExit, Go, Ahead, Newest, StrictlyIncreasing, TypeOK
  <2>3. ClockAhead'
    BY <1>7 DEF SpinExit, Go, ClockAhead, TypeOK
  <2>4. QED
    BY <2>1, <2>2, <2>3
<1>8. ASSUME NEW c \in Callers, Reread(c)
      PROVE  IInv'
  <2>1. last_ms' = clock /\ clock \in Timestamps /\ last_ms < last_ms'
    BY <1>8, Id128Assumption, MonotonicStateAssumption
    DEF Reread, Go, ClockAhead, TypeOK, Environment, Timestamps
  <2>2. OneInside' /\ InTime' /\ ClockAhead'
    BY <1>8, <2>1 DEF Reread, Go, OneInside, InTime, ClockAhead, TypeOK
  <2>3. /\ from_parts(last_ms, last_rand) < from_parts(last_ms', 0)
        /\ from_parts(last_ms', 0) <= from_parts(last_ms', last_rand)
        /\ from_parts(last_ms', 0) \in Nat
        /\ from_parts(last_ms', last_rand) \in Nat
        /\ from_parts(last_ms, last_rand) \in Nat
    BY <1>range, <2>1, FromPartsOrder, FromPartsLowest, FromPartsNumber
  <2>4. Ahead'
    <3> SUFFICES ASSUME NEW i \in 1 .. Len(out)
                 PROVE  /\ out[i] < from_parts(last_ms', 0)
                        /\ out[i] <= from_parts(last_ms', last_rand)
      BY <1>8 DEF Reread, Ahead, Newest
    <3>1. out[i] \in Nat /\ out[i] <= from_parts(last_ms, last_rand)
      BY <1>ids DEF Ahead, Newest
    <3>2. QED
      BY <2>3, <3>1
  <2>5. StrictlyIncreasing'
    BY <1>8 DEF Reread, StrictlyIncreasing
  <2>6. QED
    BY <2>2, <2>4, <2>5
<1>9. ASSUME NEW c \in Callers, NEW r \in Randomnesses, Draw(c, r)
      PROVE  IInv'
  <2> DEFINE id == from_parts(last_ms, r)
  <2>1. id \in Ids /\ from_parts(last_ms, 0) \in Ids
    BY <1>range, FromPartsType
  <2>2. from_parts(last_ms, 0) <= id
    BY <1>range, FromPartsLowest
  <2>3. OneInside' /\ InTime' /\ ClockAhead'
    BY <1>9 DEF Draw, Return, Go, OneInside, InTime, ClockAhead, TypeOK
  <2>4. /\ out' = Append(out, id)
        /\ last_ms' = last_ms /\ last_rand' = r
        /\ pc[c] = "draw"
        /\ \A d \in Callers : pc'[d] # "draw"
    BY <1>9 DEF Draw, Return, Go, OneInside, TypeOK
  <2>5. \A i \in 1 .. Len(out) : out[i] < id
    <3>1. from_parts(last_ms, 0) \in Nat /\ id \in Nat
      BY <1>range, FromPartsNumber
    <3>2. \A i \in 1 .. Len(out) : out[i] < from_parts(last_ms, 0)
      BY <2>4 DEF Ahead
    <3> HIDE DEF id
    <3>3. QED
      BY <1>ids, <2>2, <3>1, <3>2
  <2>6. StrictlyIncreasing'
    BY <2>1, <2>4, <2>5, AppendIncreasing DEF StrictlyIncreasing, TypeOK
  <2>7. Ahead'
    <3>1. \A i \in 1 .. Len(out') : out'[i] <= id
      <4>1. id \in Nat /\ out \in Seq(Ids)
        BY <2>1, IdsAreNumbers DEF TypeOK
      <4> HIDE DEF id
      <4>2. QED
        BY <1>ids, <2>4, <2>5, <4>1
    <3>2. QED
      BY <2>4, <3>1 DEF Ahead, Newest
  <2>8. QED
    BY <2>3, <2>6, <2>7
<1>10. ASSUME NEW c \in Callers, DrawPanic(c)
       PROVE  IInv'
  <2>1. OneInside' /\ InTime' /\ ClockAhead'
    BY <1>10 DEF DrawPanic, Go, OneInside, InTime, ClockAhead, TypeOK
  <2>2. Ahead' /\ StrictlyIncreasing'
    BY <1>10 DEF DrawPanic, Go, Ahead, Newest, StrictlyIncreasing, TypeOK
  <2>3. QED
    BY <2>1, <2>2
<1>11. CASE UNCHANGED vars
  BY <1>11 DEF vars, OneInside, InTime, Ahead, Newest, ClockAhead,
               StrictlyIncreasing
<1>12. QED
  BY <1>1, <1>2, <1>3, <1>4, <1>5, <1>6, <1>7, <1>8, <1>9, <1>10, <1>11
  DEF Next, next_with, Inside

\* The fresh state satisfies the strengthened invariant.
LEMMA InitIInv ==
  ASSUME Environment, Init, TypeOK
  PROVE  IInv
<1>1. OneInside /\ InTime /\ ClockAhead
  BY Id128Assumption DEF Init, OneInside, InTime, ClockAhead, Timestamps
<1>2. Ahead /\ StrictlyIncreasing
  BY DEF Init, Ahead, StrictlyIncreasing
<1>3. QED
  BY <1>1, <1>2 DEF IInv

LEMMA Invariance ==
  ASSUME Environment
  PROVE  Spec => []IInv
<1>1. Init /\ TypeOK => IInv
  BY InitIInv
<1>2. IInv /\ [Next]_vars /\ TypeOK' => IInv'
  BY StepPreservesIInv
<1>3. QED
  BY <1>1, <1>2, TypeCorrect, PTL DEF Spec

\* Every identifier is larger than all those returned before it, however
\* calls, clock steps, exhaustion and panicking draws interleave.
THEOREM StrictOrder ==
  ASSUME Environment
  PROVE  Spec => []StrictlyIncreasing
<1>1. IInv => StrictlyIncreasing
  BY DEF IInv
<1>2. QED
  BY <1>1, Invariance, PTL

\* Each step of the generator is a step of StrictStream or leaves the
\* stream alone.
LEMMA StreamStep ==
  ASSUME IInv, IInv', [Next]_vars PROVE [Stream!Next]_out
<1> SUFFICES Stream!Next \/ out' = out
  BY DEF Stream!Next
<1>1. ASSUME NEW id \in Ids, out' = Append(out, id)
      PROVE  Stream!Next
  <2>1. \A i \in 1 .. Len(out) : out[i] < id
    <3>1. /\ Len(out') = Len(out) + 1 /\ out'[Len(out')] = id
          /\ \A i \in 1 .. Len(out) : out'[i] = out[i]
          /\ Len(out) \in Nat
      BY <1>1 DEF IInv, TypeOK
    <3>2. \A i, j \in 1 .. Len(out') : i < j => out'[i] < out'[j]
      BY DEF IInv, StrictlyIncreasing
    <3>3. QED
      BY <3>1, <3>2
  <2>2. QED
    BY <1>1, <2>1 DEF Stream!Next, Stream!Issue
<1>2. ASSUME NEW c \in Callers, Increment(c)
      PROVE  Stream!Next
  <2>1. from_parts(last_ms, last_rand') \in Ids
    BY FromPartsType, Id128Assumption DEF IInv, TypeOK, Randomnesses
  <2>2. QED
    BY <1>1, <1>2, <2>1 DEF Increment, Return
<1>3. ASSUME NEW c \in Callers, NEW r \in Randomnesses, Draw(c, r)
      PROVE  Stream!Next
  <2>1. from_parts(last_ms, r) \in Ids
    BY FromPartsType, Id128Assumption DEF IInv, TypeOK, Randomnesses
  <2>2. QED
    BY <1>1, <1>3, <2>1 DEF Draw, Return
<1>4. QED
  BY <1>2, <1>3
  DEF Next, next_with, Inside, vars, Tick, StepBack, Call, NewMillisecond,
      Exhausted, SpinExit, Reread, DrawPanic

\* The generator implements the strictly increasing stream.
THEOREM ImplementsStream ==
  ASSUME Environment
  PROVE  Spec => StreamSpec
<1>1. Init => Stream!Init
  BY DEF Init, Stream!Init
<1>2. IInv /\ IInv' /\ [Next]_vars => [Stream!Next]_out
  BY StreamStep
<1>3. QED
  BY <1>1, <1>2, Invariance, PTL DEF Spec, StreamSpec, Stream!Spec

-----------------------------------------------------------------------------

\* Past its first test a call has a timestamp stored that is no earlier than
\* the one it came with.
CaughtUp ==
  \A c \in Callers : pc[c] \in {"spin", "reread", "draw"} => now[c] <= last_ms

\* One step keeps it: a caller's own steps raise last_ms, and no other
\* caller is inside to lower it.
LEMMA StepPreservesCaughtUp ==
  ASSUME IInv, CaughtUp, [Next]_vars
  PROVE  CaughtUp'
<1> USE DEF IInv, TypeOK, CaughtUp
<1>1. ASSUME NEW c \in Callers, NEW ts \in SeedTimes \cup {clock}, Call(c, ts)
      PROVE  CaughtUp'
  BY <1>1 DEF Call, Go
<1>2. ASSUME NEW c \in Callers, NewMillisecond(c)
      PROVE  CaughtUp'
  BY <1>2 DEF NewMillisecond, Go, OneInside
<1>3. ASSUME NEW c \in Callers, Exhausted(c) \/ SpinExit(c) \/ DrawPanic(c)
      PROVE  CaughtUp'
  BY <1>3 DEF Exhausted, SpinExit, DrawPanic, Go
<1>4. ASSUME NEW c \in Callers, Increment(c) \/ \E r \in Randomnesses : Draw(c, r)
      PROVE  CaughtUp'
  BY <1>4 DEF Increment, Draw, Return, Go
<1>5. ASSUME NEW c \in Callers, Reread(c)
      PROVE  CaughtUp'
  BY <1>5 DEF Reread, Go, OneInside, ClockAhead
<1>6. CASE Tick \/ StepBack \/ UNCHANGED vars
  BY <1>6 DEF Tick, StepBack, vars
<1>7. QED
  BY <1>1, <1>2, <1>3, <1>4, <1>5, <1>6 DEF Next, next_with, Inside

\* A step that returns an identifier of the millisecond stored, to the only
\* caller that is inside, does not backdate it.
LEMMA StampedInTime ==
  ASSUME IInv, NEW c \in Callers, pc[c] # "idle", now[c] <= last_ms,
         NEW r \in Randomnesses, out' = Append(out, from_parts(last_ms, r)),
         NEW d \in Callers, pc[d] # "idle"
  PROVE  timestamp_ms(out'[Len(out')]) >= now[d]
<1>1. out'[Len(out')] = from_parts(last_ms, r)
  <2>1. out \in Seq(Ids)
    BY DEF IInv, TypeOK
  <2>2. QED
    BY <2>1
<1>2. timestamp_ms(from_parts(last_ms, r)) = last_ms
  BY TimestampReadsBack DEF IInv, InTime
<1>3. d = c
  BY DEF IInv, OneInside
<1>4. now[c] \in Nat /\ last_ms \in Nat
  BY DEF IInv, TypeOK
<1>5. QED
  BY <1>1, <1>2, <1>3, <1>4

\* An identifier is never stamped earlier than the time its call came with,
\* whether it was incremented, drawn at once, or drawn after waiting for the
\* next millisecond.
THEOREM NeverBackdated ==
  ASSUME Environment
  PROVE  Spec => NotBackdated
<1>1. Init => CaughtUp
  BY DEF Init, CaughtUp
<1>2. IInv /\ CaughtUp /\ [Next]_vars => CaughtUp'
  BY StepPreservesCaughtUp
<1> DEFINE InItsTime == \A c \in Callers : (pc[c] # "idle" /\ Len(out') > Len(out))
                          => timestamp_ms(out'[Len(out')]) >= now[c]
<1>3. IInv /\ CaughtUp /\ [Next]_vars => InItsTime
  <2> SUFFICES ASSUME IInv, CaughtUp, [Next]_vars,
                      NEW d \in Callers, pc[d] # "idle", Len(out') > Len(out)
               PROVE  timestamp_ms(out'[Len(out')]) >= now[d]
    OBVIOUS
  <2>1. ASSUME NEW c \in Callers, Increment(c)
        PROVE  timestamp_ms(out'[Len(out')]) >= now[d]
    <3>1. /\ pc[c] # "idle" /\ now[c] <= last_ms
          /\ out' = Append(out, from_parts(last_ms, last_rand'))
      BY <2>1 DEF Increment, Return, Go
    <3>2. last_rand' \in Randomnesses
      BY <2>1, Id128Assumption DEF Increment, IInv, TypeOK, Randomnesses
    <3>3. QED
      BY <3>1, <3>2, StampedInTime
  <2>2. ASSUME NEW c \in Callers, NEW r \in Randomnesses, Draw(c, r)
        PROVE  timestamp_ms(out'[Len(out')]) >= now[d]
    <3>1. /\ pc[c] = "draw" /\ now[c] <= last_ms
          /\ out' = Append(out, from_parts(last_ms, r))
      BY <2>2 DEF Draw, Return, Go, CaughtUp
    <3>2. QED
      BY <3>1, StampedInTime
  <2>3. out' # out
    BY DEF IInv, TypeOK
  <2>4. QED
    BY <2>1, <2>2, <2>3
    DEF Next, next_with, Inside, vars, Tick, StepBack, Call, NewMillisecond,
        Exhausted, SpinExit, Reread, DrawPanic
<1>4. QED
  BY <1>1, <1>2, <1>3, Invariance, PTL DEF Spec, NotBackdated

=============================================================================
