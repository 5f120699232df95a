------------------------ MODULE UlidGenerator_proofs ------------------------
(***************************************************************************)
(* The two mutexes of a generator object make it an implementation of the  *)
(* exclusively borrowed generator, keep its monotonic batches together in  *)
(* the stream, and hand out the words of its seed in whole pairs.  Proved  *)
(* for every number of threads, batch size and word width, seeded or not.  *)
(***************************************************************************)
EXTENDS UlidGenerator, SequenceTheorems, TLAPS

Stations == {"outside", "mono", "check", "det", "lo", "turn", "inside"}

GenTypes ==
  /\ pc \in [Callers -> Locations]
  /\ at \in [Callers -> Stations]
  /\ op \in [Callers -> Plain \cup Chained]
  /\ arg \in [Callers -> SeedTimes \cup {Default}]

\* Where a call of either family can be.
Ways ==
  \A c \in Callers :
    /\ at[c] \in {"mono", "check", "inside"} => op[c] \in Chained
    /\ at[c] = "lo" => op[c] \in Plain
    /\ at[c] \in {"det", "lo"} => deterministic

\* A monotonic call that is past the lock of the state holds it, a call that
\* is past the lock of the random source holds that one, and only a caller
\* that has entered runs advance, with a timestamp that was accepted.
Mutexes ==
  \A c \in Callers :
    /\ op[c] \in Chained /\ at[c] \in {"check", "det", "turn", "inside"} => mono = c
    /\ deterministic /\ at[c] \in {"turn", "lo", "inside"} => det = c
    /\ pc[c] # "idle" => at[c] = "inside"
    /\ op[c] \in Chained /\ at[c] \in {"det", "turn", "inside"} => explicit_ts(arg[c])

LInv == GenTypes /\ Ways /\ Mutexes

\* A batch of the stream: while it is made, its newest identifier is the
\* newest of all.
Chain ==
  /\ places \in [Callers -> Seq(Nat)]
  /\ \A c \in Callers :
       /\ Consecutive(places[c])
       /\ at[c] \in {"mono", "check", "det"} => places[c] = << >>
       /\ op[c] \in Chained /\ at[c] \in {"turn", "inside"} /\ places[c] # << >>
            => places[c][Len(places[c])] = Len(out)

\* The words of a plain call: while it runs, its newest word is the newest of
\* the stream, and the stream stands between two pairs unless a call does.
Pairs ==
  /\ stream \in Nat
  /\ words \in [Callers -> Seq(Nat)]
  /\ (\A c \in Callers : at[c] # "lo") => stream % 2 = 0
  /\ \A c \in Callers :
       /\ Consecutive(words[c])
       /\ words[c] # << >> => words[c][1] % 2 = 0
       /\ at[c] = "lo" => words[c] # << >> /\ stream % 2 = 1
       /\ at[c] \in {"mono", "check", "det"} => words[c] = << >>
       /\ op[c] \in Plain /\ at[c] \in {"turn", "lo"} /\ words[c] # << >>
            => words[c][Len(words[c])] + 1 = stream

-----------------------------------------------------------------------------
(* Who holds what.                                                         *)

(* No method is of both families.                                          *)
LEMMA FamiliesDiffer == Plain \cap Chained = {}
  BY DEF Plain, Chained

LEMMA InitLInv == GenInit => LInv
  BY DEF GenInit, Init, LInv, GenTypes, Ways, Mutexes, Stations, Locations, Plain, Chained

(* The steps of a caller inside the generator move it and nobody else.     *)
LEMMA InsideMoves ==
  ASSUME LInv, NEW c \in Callers,
         \/ NewMillisecond(c) \/ Exhausted(c) \/ SpinExit(c) \/ Reread(c)
         \/ Increment(c) \/ \E r \in Randomnesses : Draw(c, r)
  PROVE  /\ pc[c] # "idle"
         /\ pc' \in [Callers -> Locations]
         /\ \A d \in Callers : d # c => pc'[d] = pc[d]
  BY DEF LInv, GenTypes, Locations, NewMillisecond, Exhausted, SpinExit, Reread, Increment,
         Draw, Return, Go

(* Every step keeps the mutexes.                                           *)
LEMMA NextLInv == LInv /\ [GenNext]_allVars => LInv'
<1> SUFFICES ASSUME LInv, [GenNext]_allVars PROVE LInv'
  OBVIOUS
<1>0. deterministic' = deterministic
  BY DEF GenNext, allVars
<1> USE <1>0 DEF LInv, GenTypes, Ways, Mutexes
<1>1. CASE UNCHANGED allVars
  BY <1>1 DEF allVars, vars, genVars
<1>2. CASE (Tick \/ StepBack) /\ UNCHANGED genVars
  BY <1>2 DEF Tick, StepBack, genVars
<1>3. ASSUME NEW c \in Callers, NEW m \in Plain \cup Chained, NEW n \in 0 .. MAX_BATCH + 1,
             NEW a \in SeedTimes \cup {Default}, Invoke(c, m, n, a)
      PROVE  LInv'
  <2>1. m \in Chained => FirstStation(m) = "mono"
    BY FamiliesDiffer DEF FirstStation
  <2>2. m \in Plain => FirstStation(m) = IF deterministic THEN "det" ELSE "turn"
    BY FamiliesDiffer DEF FirstStation
  <2>3. FirstStation(m) \in Stations
    BY <2>1, <2>2 DEF Stations
  <2> QED
    BY <1>3, <2>1, <2>2, <2>3, FamiliesDiffer DEF Invoke, vars
<1>4. ASSUME NEW c \in Callers, Step(c) PROVE LInv'
  <2>1. CASE LockMono(c)
    BY FamiliesDiffer, <2>1, UlidGeneratorAssumption DEF LockMono, Move, Stations, vars
  <2>2. CASE Check(c)
    BY FamiliesDiffer, <2>2, UlidGeneratorAssumption DEF Check, Move, Stations, vars
  <2>3. CASE LockDet(c)
    BY FamiliesDiffer, <2>3, UlidGeneratorAssumption DEF LockDet, Move, Stations, vars
  <2>4. CASE DrawHi(c)
    BY FamiliesDiffer, <2>4 DEF DrawHi, Move, Stations, vars
  <2>5. CASE DrawLo(c)
    BY FamiliesDiffer, <2>5 DEF DrawLo, Move, Stations, vars
  <2>6. CASE DrawSecure(c)
    BY <2>6 DEF DrawSecure, vars
  <2>7. CASE Enter(c)
    BY FamiliesDiffer, <2>7 DEF Enter, Call, Go, Move, Stations, Locations
  <2>8. CASE Advance(c)
    BY <2>8, InsideMoves DEF Advance, genVars
  <2>9. CASE Encode(c)
    <3>1. Increment(c) \/ \E r \in Randomnesses : Draw(c, r)
      BY <2>9 DEF Encode
    <3>2. pc'[c] = "idle"
      BY <3>1 DEF Increment, Draw, Return, Go
    <3> QED
      BY FamiliesDiffer, <2>9, <3>1, <3>2, InsideMoves DEF Encode, Move, Stations
  <2>10. CASE Done(c)
    BY <2>10, UlidGeneratorAssumption DEF Done, Release, Move, Stations, vars
  <2>11. CASE UnwindPlain(c)
    BY <2>11 DEF UnwindPlain, Move, Stations, vars
  <2>12. CASE Unwind(c)
    BY <2>12, UlidGeneratorAssumption
       DEF Unwind, DrawPanic, Go, Release, Move, Stations, Locations
  <2> QED
    BY <1>4, <2>1, <2>2, <2>3, <2>4, <2>5, <2>6, <2>7, <2>8, <2>9, <2>10, <2>11, <2>12 DEF Step
<1> QED
  BY <1>1, <1>2, <1>3, <1>4 DEF GenNext

-----------------------------------------------------------------------------
(* The object implements the generator.                                    *)

(* Inside advance, and of the clock, the core has the same steps.          *)
LEMMA SameSteps ==
  /\ \A c \in Callers : Inside(c) <=> Core!Inside(c)
  /\ (Tick \/ StepBack) <=> (Core!Tick \/ Core!StepBack)
  BY DEF Inside, Core!Inside, NewMillisecond, Core!NewMillisecond, Increment, Core!Increment,
         Exhausted, Core!Exhausted, SpinExit, Core!SpinExit, Reread, Core!Reread,
         Draw, Core!Draw, DrawPanic, Core!DrawPanic, Return, Core!Return, Go, Core!Go,
         from_parts, Core!from_parts, Randomnesses, Core!Randomnesses,
         Tick, Core!Tick, StepBack, Core!StepBack, Waiting, Core!Waiting

(* A step of the object is a step of the core, or none.                    *)
LEMMA StepImplements ==
  ASSUME LInv, [GenNext]_allVars PROVE [Core!Next]_(Core!vars)
<1>0. UNCHANGED vars => UNCHANGED Core!vars
  BY DEF vars, Core!vars
<1>1. CASE UNCHANGED allVars
  BY <1>0, <1>1 DEF allVars
<1>2. CASE Tick \/ StepBack
  BY <1>2, SameSteps DEF Core!Next
<1>3. ASSUME NEW c \in Callers, NEW m \in Plain \cup Chained, NEW n \in 0 .. MAX_BATCH + 1,
             NEW a \in SeedTimes \cup {Default}, Invoke(c, m, n, a)
      PROVE  UNCHANGED vars
  BY <1>3 DEF Invoke
<1>4. ASSUME NEW c \in Callers, Step(c) PROVE [Core!Next]_(Core!vars)
  <2>1. CASE \/ LockMono(c) \/ Check(c) \/ LockDet(c) \/ DrawHi(c) \/ DrawLo(c)
             \/ DrawSecure(c) \/ Done(c) \/ UnwindPlain(c)
    <3>1. UNCHANGED vars
      BY <2>1 DEF LockMono, Check, LockDet, DrawHi, DrawLo, DrawSecure, Done, UnwindPlain
    <3> QED
      BY <3>1, <1>0
  <2>2. CASE Enter(c)
    <3> DEFINE ts == IF arg[c] = Default THEN clock ELSE arg[c]
    <3>1. op[c] \in Chained /\ at[c] = "turn" /\ Call(c, ts)
      BY <2>2 DEF Enter, Move
    <3>2. explicit_ts(arg[c]) /\ arg[c] \in SeedTimes \cup {Default}
      BY <3>1 DEF LInv, Mutexes, GenTypes
    <3>3. ts \in (SeedTimes \cap Timestamps) \cup {clock}
      BY <3>2 DEF explicit_ts
    <3> HIDE DEF ts
    <3>4. Core!Call(c, ts)
      BY <3>1 DEF Call, Core!Call, Go, Core!Go
    <3>5. Core!Exclusive
      BY <3>1 DEF LInv, Ways, Mutexes, Core!Exclusive
    <3> QED
      BY <3>3, <3>4, <3>5 DEF Core!Next, Core!next_with
  <2>3. CASE Advance(c) \/ Encode(c) \/ Unwind(c)
    <3>1. Inside(c)
      BY <2>3 DEF Advance, Encode, Unwind, Inside
    <3> QED
      BY <3>1, SameSteps DEF Core!Next
  <2> QED
    BY <1>4, <2>1, <2>2, <2>3 DEF Step
<1> QED
  BY <1>0, <1>1, <1>2, <1>3, <1>4 DEF GenNext

(* The object implements the exclusively borrowed generator, for every     *)
(* number of threads and every batch size, with its two mutexes, refused   *)
(* arguments and panics (src/lib.rs:700-822).                              *)
THEOREM ObjectImplementsCore == GenSpec => CoreSpec
<1>1. GenInit => Core!Init
  BY DEF GenInit, Init, Core!Init
<1>2. LInv /\ [GenNext]_allVars => [Core!Next]_(Core!vars)
  BY StepImplements
<1> QED
  BY <1>1, <1>2, InitLInv, NextLInv, PTL DEF GenSpec, CoreSpec, Core!Spec

-----------------------------------------------------------------------------
(* What is proved of the generator holds of the object.                    *)

\* The generator again, with its theorems; it differs from Core in nothing.
Proved == INSTANCE MonotonicState_proofs WITH SeedTimes <- SeedTimes \cap Timestamps

LEMMA SameGenerator == Core!Spec <=> Proved!Spec
<1>1. Core!Init <=> Proved!Init
  BY DEF Core!Init, Proved!Init
<1>2. Core!Next <=> Proved!Next
  BY DEF Core!Next, Proved!Next, Core!Tick, Proved!Tick, Core!Waiting, Proved!Waiting,
         Core!StepBack, Proved!StepBack, Core!next_with, Proved!next_with,
         Core!Exclusive, Proved!Exclusive, Core!Call, Proved!Call, Core!Go, Proved!Go,
         Core!Inside, Proved!Inside, Core!NewMillisecond, Proved!NewMillisecond,
         Core!Increment, Proved!Increment, Core!Return, Proved!Return,
         Core!from_parts, Proved!from_parts, Core!Exhausted, Proved!Exhausted,
         Core!SpinExit, Proved!SpinExit, Core!Reread, Proved!Reread, Core!Draw, Proved!Draw,
         Core!DrawPanic, Proved!DrawPanic, Core!Randomnesses, Proved!Randomnesses
<1>3. Core!vars = Proved!vars /\ Core!vars' = Proved!vars'
  BY DEF Core!vars, Proved!vars
<1>4. [Core!Next]_(Core!vars) <=> [Proved!Next]_(Proved!vars)
  BY <1>2, <1>3
<1> QED
  BY <1>1, <1>4, PTL DEF Core!Spec, Proved!Spec

LEMMA CoreTypes == GenSpec => []TypeOK
<1>1. Proved!Id128Assumption /\ Proved!MonotonicStateAssumption
  BY Id128Assumption, MonotonicStateAssumption
     DEF Proved!Id128Assumption, Proved!MonotonicStateAssumption
<1>2. Proved!Spec => []Proved!TypeOK
  BY <1>1, Proved!TypeCorrect, PTL
<1>3. Proved!TypeOK => TypeOK
  BY DEF Proved!TypeOK, TypeOK, Proved!Randomnesses, Randomnesses, Proved!Locations, Locations,
         Proved!Ids, Ids
<1> QED
  BY <1>2, <1>3, SameGenerator, ObjectImplementsCore, PTL DEF CoreSpec

-----------------------------------------------------------------------------
(* Runs of consecutive numbers.                                            *)

LEMMA OneIsConsecutive ==
  ASSUME NEW n \in Nat
  PROVE  /\ Append(<< >>, n) \in Seq(Nat) /\ Append(<< >>, n) # << >>
         /\ Consecutive(Append(<< >>, n))
         /\ Append(<< >>, n)[1] = n /\ Len(Append(<< >>, n)) = 1
  BY DEF Consecutive

(* A run grows by the successor of its last number.                        *)
LEMMA AppendConsecutive ==
  ASSUME NEW s \in Seq(Nat), Consecutive(s), s # << >>, NEW n \in Nat, n = s[Len(s)] + 1
  PROVE  /\ Append(s, n) \in Seq(Nat) /\ Append(s, n) # << >>
         /\ Consecutive(Append(s, n))
         /\ Append(s, n)[1] = s[1]
         /\ Append(s, n)[Len(Append(s, n))] = n
<1>1. Len(s) \in Nat /\ Len(s) >= 1
  BY EmptySeq, LenProperties
<1>2. s[Len(s)] = s[1] + Len(s) - 1
  BY <1>1 DEF Consecutive
<1>3. s[1] \in Nat
  BY <1>1
<1>4. \A i \in 1 .. Len(s) + 1 : Append(s, n)[i] = s[1] + i - 1
  <2> SUFFICES ASSUME NEW i \in 1 .. Len(s) + 1 PROVE Append(s, n)[i] = s[1] + i - 1
    OBVIOUS
  <2>1. CASE i <= Len(s)
    BY <1>1, <2>1 DEF Consecutive
  <2>2. CASE i = Len(s) + 1
    BY <1>1, <1>2, <1>3, <2>2
  <2> QED
    BY <1>1, <2>1, <2>2
<1>5. Append(s, n) \in Seq(Nat) /\ Len(Append(s, n)) = Len(s) + 1
  OBVIOUS
<1>6. Append(s, n)[1] = s[1]
  BY <1>1, <1>3, <1>4
<1>7. Append(s, n)[Len(s) + 1] = n
  OBVIOUS
<1>8. Consecutive(Append(s, n))
  BY <1>4, <1>5, <1>6 DEF Consecutive
<1>9. Append(s, n) # << >>
  BY <1>1, <1>5, EmptySeq
<1> QED
  BY <1>5, <1>6, <1>7, <1>8, <1>9

-----------------------------------------------------------------------------
(* Batches.                                                                *)

(* An identifier is appended to the stream and noted by its call.          *)
LEMMA EncodeAppends ==
  ASSUME TypeOK, NEW c \in Callers, Encode(c)
  PROVE  /\ Len(out) \in Nat /\ Len(out') = Len(out) + 1
         /\ places' = [places EXCEPT ![c] = Append(@, Len(out) + 1)]
<1>1. PICK r \in Randomnesses : out' = Append(out, from_parts(last_ms, r))
  BY Id128Assumption DEF Encode, Increment, Draw, Return, TypeOK, Randomnesses
<1>2. from_parts(last_ms, r) \in Ids
  <2>1. Proved!Id128Assumption /\ Proved!MonotonicStateAssumption
    BY Id128Assumption, MonotonicStateAssumption
    DEF Proved!Id128Assumption, Proved!MonotonicStateAssumption
  <2>2. last_ms \in Nat /\ r \in Nat
    BY Id128Assumption DEF TypeOK, Randomnesses
  <2>3. Proved!from_parts(last_ms, r) \in Proved!Ids
    BY <2>1, <2>2, Proved!FromPartsType
  <2> QED
    BY <2>3 DEF Proved!from_parts, Proved!Ids, from_parts, Ids
<1>3. Len(out) \in Nat /\ Len(out') = Len(out) + 1
  BY <1>1, <1>2 DEF TypeOK
<1> QED
  BY <1>3 DEF Encode

(* Every step keeps the batches together.                                  *)
LEMMA NextChain ==
  ASSUME TypeOK, LInv, Chain, [GenNext]_allVars PROVE Chain'
<1> USE DEF Chain, LInv, GenTypes
<1>1. ASSUME UNCHANGED << out, places, at, op >> PROVE Chain'
  BY <1>1
<1>2. ASSUME NEW c \in Callers, NEW m \in Plain \cup Chained, NEW n \in 0 .. MAX_BATCH + 1,
             NEW a \in SeedTimes \cup {Default}, Invoke(c, m, n, a)
      PROVE  Chain'
  BY <1>2 DEF Invoke, vars, Consecutive
<1>3. ASSUME NEW c \in Callers, Encode(c) PROVE Chain'
  <2>1. /\ Len(out) \in Nat /\ Len(out') = Len(out) + 1
        /\ places' = [places EXCEPT ![c] = Append(@, Len(out) + 1)]
    BY <1>3, EncodeAppends
  <2>2. /\ at[c] = "inside" /\ at' = [at EXCEPT ![c] = "turn"] /\ op' = op
        /\ op[c] \in Chained
    BY <1>3 DEF Encode, Move, Ways
  <2>3. \A d \in Callers : d # c /\ op[d] \in Chained => at[d] \notin {"turn", "inside"}
    BY <2>2 DEF Mutexes
  <2> DEFINE s == Append(places[c], Len(out) + 1)
  <2>4. s \in Seq(Nat) /\ Consecutive(s) /\ s[Len(s)] = Len(out')
    <3>1. CASE places[c] = << >>
      BY <2>1, <3>1, OneIsConsecutive
    <3>2. CASE places[c] # << >>
      <4>1. places[c][Len(places[c])] = Len(out)
        BY <2>2, <3>2
      <4> QED
        BY <2>1, <3>2, <4>1, AppendConsecutive
    <3> QED
      BY <3>1, <3>2
  <2>5. places'[c] = s /\ \A d \in Callers : d # c => places'[d] = places[d]
    BY <2>1
  <2> HIDE DEF s
  <2>6. places' \in [Callers -> Seq(Nat)]
    BY <2>1, <2>4, <2>5
  <2> QED
    BY <2>2, <2>3, <2>4, <2>5, <2>6
<1>4. ASSUME NEW c \in Callers, Step(c), ~Encode(c)
      PROVE  Chain'
  <2>1. /\ UNCHANGED << out, places, op >>
        /\ \A d \in Callers : d # c => at'[d] = at[d]
    BY <1>4 DEF Step, LockMono, Check, LockDet, DrawHi, DrawLo, DrawSecure, Enter, Call, Advance,
                NewMillisecond, Exhausted, SpinExit, Reread, Done, UnwindPlain, Unwind, DrawPanic,
                Move, vars, genVars
  <2>2. /\ at'[c] \in {"mono", "check", "det"} => at[c] \in {"mono", "check", "det"}
        /\ at'[c] \in {"turn", "inside"} =>
             \/ at[c] \in {"turn", "inside"} \/ places[c] = << >> \/ op[c] \notin Chained
    BY <1>4, FamiliesDiffer
       DEF Step, LockMono, Check, LockDet, DrawHi, DrawLo, DrawSecure, Enter, Advance,
           Done, UnwindPlain, Unwind, Move, genVars, Ways
  <2> QED
    BY <2>1, <2>2
<1>5. CASE ((Tick \/ StepBack) /\ UNCHANGED genVars) \/ UNCHANGED allVars
  BY <1>1, <1>5 DEF Tick, StepBack, allVars, vars, genVars
<1> QED
  BY <1>2, <1>3, <1>4, <1>5 DEF GenNext

(* A monotonic batch is not interleaved with other monotonic calls: its    *)
(* identifiers are neighbours in the stream, for every number of threads   *)
(* ("under a single lock acquisition", src/lib.rs:783-786).                *)
THEOREM BatchesAreContiguous == GenSpec => []BatchContiguous
<1>1. GenInit => Chain
  BY DEF GenInit, Chain, Consecutive
<1>2. TypeOK /\ LInv /\ Chain /\ [GenNext]_allVars => Chain'
  BY NextChain
<1>3. Chain => BatchContiguous
  BY DEF Chain, BatchContiguous
<1> QED
  BY <1>1, <1>2, <1>3, CoreTypes, InitLInv, NextLInv, PTL DEF GenSpec

-----------------------------------------------------------------------------
(* Words.                                                                  *)

(* One word changes the parity of the position, a pair of words does not.   *)
LEMMA Parity ==
  ASSUME NEW n \in Nat
  PROVE  /\ n % 2 = 0 => (n + 1) % 2 = 1
         /\ n % 2 = 1 => (n + 1) % 2 = 0
         /\ (n + 2) % 2 = n % 2
  OBVIOUS

(* A drawn word continues the block of its call.                           *)
LEMMA WordAppends ==
  ASSUME Pairs, NEW c \in Callers, words[c] # << >>, words[c][Len(words[c])] + 1 = stream,
         words[c][1] % 2 = 0, stream' = stream + 1, NEW s, s = Append(words[c], stream)
  PROVE  /\ s \in Seq(Nat) /\ s # << >> /\ Consecutive(s) /\ s[1] % 2 = 0
         /\ s[Len(s)] + 1 = stream'
<1>1. words[c] \in Seq(Nat) /\ Consecutive(words[c]) /\ stream \in Nat
  BY DEF Pairs
<1>2. stream = words[c][Len(words[c])] + 1
  OBVIOUS
<1> QED
  BY <1>1, <1>2, AppendConsecutive

(* Every step keeps them in pairs.                                         *)
LEMMA NextPairs ==
  ASSUME LInv, Pairs, [GenNext]_allVars PROVE Pairs'
<1> USE DEF Pairs, LInv, GenTypes
<1>0. stream \in Nat
  OBVIOUS
<1>1. ASSUME UNCHANGED << stream, words, at, op >> PROVE Pairs'
  BY <1>1
<1>2. ASSUME NEW c \in Callers, NEW m \in Plain \cup Chained, NEW n \in 0 .. MAX_BATCH + 1,
             NEW a \in SeedTimes \cup {Default}, Invoke(c, m, n, a)
      PROVE  Pairs'
  <2>1. FirstStation(m) # "lo"
    BY DEF FirstStation
  <2> QED
    BY <1>2, <2>1 DEF Invoke, vars, Consecutive
<1>3. ASSUME NEW c \in Callers, DrawHi(c) PROVE Pairs'
  <2>1. /\ at[c] = "turn" /\ at' = [at EXCEPT ![c] = "lo"] /\ op' = op /\ op[c] \in Plain
        /\ words' = [words EXCEPT ![c] = Append(@, stream)] /\ stream' = stream + 1
        /\ deterministic
    BY <1>3 DEF DrawHi, Move
  <2>2. \A d \in Callers : d # c => at[d] \notin {"turn", "lo", "inside"}
    BY <2>1 DEF Mutexes
  <2>3. stream % 2 = 0 /\ (stream + 1) % 2 = 1
    <3>1. \A d \in Callers : at[d] # "lo"
      BY <2>1, <2>2
    <3> QED
      BY <1>0, <3>1, Parity
  <2> DEFINE s == Append(words[c], stream)
  <2>4. /\ s \in Seq(Nat) /\ s # << >> /\ Consecutive(s) /\ s[1] % 2 = 0
        /\ s[Len(s)] + 1 = stream'
    <3>1. CASE words[c] = << >>
      <4>1. s = Append(<< >>, stream)
        BY <3>1
      <4>2. s \in Seq(Nat) /\ s # << >> /\ Consecutive(s) /\ s[1] = stream /\ s[Len(s)] = stream
        BY <1>0, <4>1, OneIsConsecutive
      <4> HIDE DEF s
      <4> QED
        BY <1>0, <2>1, <2>3, <4>2
    <3>2. CASE words[c] # << >>
      <4>1. words[c][Len(words[c])] + 1 = stream /\ words[c][1] % 2 = 0
        BY <2>1, <3>2
      <4> QED
        BY <1>0, <2>1, <3>2, <4>1, WordAppends
    <3> QED
      BY <3>1, <3>2
  <2>5. words'[c] = s /\ \A d \in Callers : d # c => words'[d] = words[d]
    BY <2>1
  <2> HIDE DEF s
  <2>6. words' \in [Callers -> Seq(Nat)] /\ stream' \in Nat
    BY <1>0, <2>1, <2>4, <2>5
  <2> QED
    BY <2>1, <2>2, <2>3, <2>4, <2>5, <2>6
<1>4. ASSUME NEW c \in Callers, DrawLo(c) PROVE Pairs'
  <2>1. /\ at[c] = "lo" /\ at' = [at EXCEPT ![c] = "turn"] /\ op' = op /\ op[c] \in Plain
        /\ words' = [words EXCEPT ![c] = Append(@, stream)] /\ stream' = stream + 1
        /\ deterministic
    BY <1>4 DEF DrawLo, Move, Ways
  <2>2. \A d \in Callers : d # c => at[d] \notin {"turn", "lo", "inside"}
    BY <2>1 DEF Mutexes
  <2>3. stream % 2 = 1 /\ (stream + 1) % 2 = 0
    BY <1>0, <2>1, Parity
  <2>4. words[c] # << >> /\ words[c][Len(words[c])] + 1 = stream /\ words[c][1] % 2 = 0
    BY <2>1
  <2> DEFINE s == Append(words[c], stream)
  <2>5. /\ s \in Seq(Nat) /\ s # << >> /\ Consecutive(s) /\ s[1] % 2 = 0
        /\ s[Len(s)] + 1 = stream'
    BY <1>0, <2>1, <2>4, WordAppends
  <2>6. words'[c] = s /\ \A d \in Callers : d # c => words'[d] = words[d]
    BY <2>1
  <2> HIDE DEF s
  <2>7. words' \in [Callers -> Seq(Nat)] /\ stream' \in Nat
    BY <1>0, <2>1, <2>5, <2>6
  <2> QED
    BY <2>1, <2>2, <2>3, <2>5, <2>6, <2>7
<1>5. ASSUME NEW c \in Callers, Encode(c) PROVE Pairs'
  <2>1. /\ at[c] = "inside" /\ at' = [at EXCEPT ![c] = "turn"] /\ UNCHANGED << op, words >>
        /\ op[c] \in Chained
    BY <1>5 DEF Encode, Move, Ways
  <2>2. stream' = stream \/ (deterministic /\ stream' = stream + 2)
    BY <1>5 DEF Encode
  <2>3. stream' \in Nat /\ stream' % 2 = stream % 2
    <3>1. stream + 2 \in Nat /\ (stream + 2) % 2 = stream % 2
      BY <1>0, Parity
    <3>2. CASE stream' = stream
      BY <1>0, <3>2
    <3>3. CASE stream' = stream + 2
      BY <3>1, <3>3
    <3> QED
      BY <2>2, <3>2, <3>3
  <2>4. op[c] \notin Plain
    BY <2>1, FamiliesDiffer
  <2>5. CASE deterministic
    <3>1. \A d \in Callers : d # c => at[d] \notin {"turn", "lo", "inside"}
      BY <2>1, <2>5 DEF Mutexes
    <3> QED
      BY <2>1, <2>3, <2>4, <3>1
  <2>6. CASE ~deterministic
    BY <2>1, <2>2, <2>4, <2>6
  <2> QED
    BY <2>5, <2>6
<1>6. ASSUME NEW c \in Callers, Step(c), ~DrawHi(c), ~DrawLo(c), ~Encode(c)
      PROVE  Pairs'
  <2>1. /\ UNCHANGED << stream, words, op >>
        /\ \A d \in Callers : d # c => at'[d] = at[d]
    BY <1>6 DEF Step, LockMono, Check, LockDet, DrawSecure, Enter, Advance,
                Done, UnwindPlain, Unwind, Move, genVars
  <2>2. at[c] # "lo" /\ at'[c] # "lo"
    BY <1>6 DEF Step, LockMono, Check, LockDet, DrawSecure, Enter, Advance,
                Done, UnwindPlain, Unwind, Move, genVars
  <2>3. /\ at'[c] \in {"mono", "check", "det"} => at[c] \in {"mono", "check", "det"}
        /\ at'[c] = "turn" => at[c] = "turn" \/ words[c] = << >> \/ op[c] \notin Plain
    BY <1>6, FamiliesDiffer DEF Step, LockMono, Check, LockDet, DrawSecure, Enter, Advance,
                Done, UnwindPlain, Unwind, Move, genVars, Ways
  <2> QED
    BY <2>1, <2>2, <2>3
<1>7. CASE ((Tick \/ StepBack) /\ UNCHANGED genVars) \/ UNCHANGED allVars
  BY <1>1, <1>7 DEF Tick, StepBack, allVars, vars, genVars
<1> QED
  BY <1>2, <1>3, <1>4, <1>5, <1>6, <1>7 DEF GenNext

(* The words of a plain call are one block of the seed's stream and start  *)
(* at a pair, for every number of threads: no identifier mixes its words   *)
(* with another call's (src/lib.rs:745-747).                               *)
THEOREM WordsAreContiguous == GenSpec => []WordsContiguous
<1>1. GenInit => Pairs
  BY DEF GenInit, Pairs, Consecutive
<1>2. LInv /\ Pairs /\ [GenNext]_allVars => Pairs'
  BY NextPairs
<1>3. Pairs => WordsContiguous
  BY DEF Pairs, WordsContiguous
<1> QED
  BY <1>1, <1>2, <1>3, InitLInv, NextLInv, PTL DEF GenSpec

=============================================================================
