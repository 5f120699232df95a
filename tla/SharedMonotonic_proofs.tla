----------------------- MODULE SharedMonotonic_proofs -----------------------
(***************************************************************************)
(* The bindings' mutex makes the shared generator an implementation of the *)
(* exclusively borrowed one: MonotonicState assumes that one caller at a   *)
(* time is inside (`&mut self`), SharedMonotonic takes, releases, poisons  *)
(* and recovers a mutex instead.  Proved for every number of threads and   *)
(* for both bindings.                                                      *)
(***************************************************************************)
EXTENDS SharedMonotonic, TLAPS

\* A caller that is past the lock holds it, and only there runs advance.
Mutex ==
  /\ \A c \in Callers : at[c] \in {"validate", "inside"} => holder = c
  /\ \A c \in Callers : pc[c] # "idle" => at[c] = "inside"

LockTypes ==
  /\ pc \in [Callers -> Locations]
  /\ at \in [Callers -> Stations]
  /\ arg \in [Callers -> Arguments]

LInv == LockTypes /\ Mutex

-----------------------------------------------------------------------------
LEMMA InitLInv == SharedInit => LInv
  BY DEF SharedInit, Init, LInv, LockTypes, Mutex, Stations, Locations, Arguments

(* The steps of a caller inside the generator move it and nobody else.     *)
LEMMA InsideMoves ==
  ASSUME LInv, NEW c \in Callers,
         \/ NewMillisecond(c) \/ Exhausted(c) \/ SpinExit(c) \/ Reread(c)
         \/ Increment(c) \/ \E r \in Randomnesses : Draw(c, r)
  PROVE  /\ pc[c] # "idle"
         /\ pc' \in [Callers -> Locations]
         /\ \A d \in Callers : d # c => pc'[d] = pc[d]
  BY DEF LInv, LockTypes, Locations, NewMillisecond, Exhausted, SpinExit, Reread, Increment,
         Draw, Return, Go

(* Every step keeps the mutex.                                             *)
LEMMA NextLInv == LInv /\ [SharedNext]_allVars => LInv'
<1> SUFFICES ASSUME LInv, [SharedNext]_allVars PROVE LInv'
  OBVIOUS
<1>0. Arguments' = Arguments
  BY DEF SharedNext, allVars, Arguments, ValidatesTime
<1> USE <1>0 DEF LInv, LockTypes, Mutex
<1>1. CASE UNCHANGED allVars
  BY <1>1 DEF allVars, vars, shVars
<1>2. CASE SharedClock
  BY <1>2 DEF SharedClock, Tick, StepBack, shVars
<1>3. ASSUME NEW c \in Callers, Invoke(c) PROVE LInv'
  BY <1>3 DEF Invoke, Move, Stations, vars, lockVars
<1>4. ASSUME NEW c \in Callers, Step(c) PROVE LInv'
  <2>1. CASE Lock(c)
    BY <2>1, SharedMonotonicAssumption DEF Lock, Move, Stations, vars
  <2>2. CASE LockPanics(c)
    BY <2>2 DEF LockPanics, Finish, Move, Stations, vars, lockVars
  <2>3. CASE Refuse(c)
    BY <2>3, SharedMonotonicAssumption DEF Refuse, Finish, Move, Stations, vars
  <2>4. CASE Start(c)
    BY <2>4 DEF Start, Call, Go, Move, Stations, Locations, lockVars
  <2>5. CASE Advance(c)
    BY <2>5, InsideMoves DEF Advance, shVars
  <2>6. CASE Encode(c)
    BY <2>6, InsideMoves DEF Encode, lockVars
  <2>7. CASE Unlock(c)
    BY <2>7, SharedMonotonicAssumption DEF Unlock, Finish, Move, Stations, vars
  <2>8. CASE Unwind(c)
    BY <2>8, SharedMonotonicAssumption
       DEF Unwind, DrawPanic, Go, Finish, Move, Stations, Locations
  <2> QED
    BY <1>4, <2>1, <2>2, <2>3, <2>4, <2>5, <2>6, <2>7, <2>8 DEF Step
<1> QED
  BY <1>1, <1>2, <1>3, <1>4 DEF SharedNext

-----------------------------------------------------------------------------
(* Inside advance the core is the same generator.                          *)
LEMMA SameInside ==
  ASSUME NEW c \in Callers PROVE Inside(c) <=> Core!Inside(c)
<1>1. NewMillisecond(c) <=> Core!NewMillisecond(c)
  BY DEF NewMillisecond, Core!NewMillisecond, Go, Core!Go
<1>2. Increment(c) <=> Core!Increment(c)
  BY DEF Increment, Core!Increment, Return, Core!Return, Go, Core!Go, from_parts, Core!from_parts
<1>3. Exhausted(c) <=> Core!Exhausted(c)
  BY DEF Exhausted, Core!Exhausted, Go, Core!Go
<1>4. SpinExit(c) <=> Core!SpinExit(c)
  BY DEF SpinExit, Core!SpinExit, Go, Core!Go
<1>5. Reread(c) <=> Core!Reread(c)
  BY DEF Reread, Core!Reread, Go, Core!Go
<1>6. \A r \in Randomnesses : Draw(c, r) <=> Core!Draw(c, r)
  BY DEF Draw, Core!Draw, Return, Core!Return, Go, Core!Go, from_parts, Core!from_parts
<1>7. DrawPanic(c) <=> Core!DrawPanic(c)
  BY DEF DrawPanic, Core!DrawPanic, Go, Core!Go
<1>8. Randomnesses = Core!Randomnesses
  BY DEF Randomnesses, Core!Randomnesses
<1> QED
  BY <1>1, <1>2, <1>3, <1>4, <1>5, <1>6, <1>7, <1>8 DEF Inside, Core!Inside

(* Its clock is the same clock.                                            *)
LEMMA SameClock == (Tick \/ StepBack) <=> (Core!Tick \/ Core!StepBack)
<1>1. Tick <=> Core!Tick
  BY DEF Tick, Core!Tick, Waiting, Core!Waiting
<1>2. StepBack <=> Core!StepBack
  BY DEF StepBack, Core!StepBack
<1> QED
  BY <1>1, <1>2

(* A step of the binding is a step of the core, or none.                   *)
LEMMA StepImplements ==
  ASSUME LInv, [SharedNext]_allVars PROVE [Core!Next]_(Core!vars)
<1>0. UNCHANGED vars => UNCHANGED Core!vars
  BY DEF vars, Core!vars
<1>1. CASE UNCHANGED allVars
  <2>1. UNCHANGED vars
    BY <1>1 DEF allVars
  <2> QED
    BY <2>1, <1>0
<1>2. CASE SharedClock
  BY <1>2, SameClock DEF SharedClock, Core!Next
<1>3. ASSUME NEW c \in Callers, Invoke(c) PROVE UNCHANGED vars
  BY <1>3 DEF Invoke
<1>4. ASSUME NEW c \in Callers, Step(c) PROVE [Core!Next]_(Core!vars)
  <2>1. CASE Lock(c) \/ LockPanics(c) \/ Refuse(c) \/ Unlock(c)
    <3>1. UNCHANGED vars
      BY <2>1 DEF Lock, LockPanics, Refuse, Unlock
    <3> QED
      BY <3>1, <1>0
  <2>2. CASE Start(c)
    <3> DEFINE ts == IF arg[c] = Default THEN clock ELSE arg[c]
    <3>1. at[c] = "validate" /\ explicit_ts(arg[c]) /\ Call(c, ts)
      BY <2>2 DEF Start, Move
    <3>2. ts \in (SeedTimes \cap Timestamps) \cup {clock}
      BY <3>1 DEF explicit_ts, Arguments, LInv, LockTypes
    <3> HIDE DEF ts
    <3>3. Core!Call(c, ts)
      BY <3>1 DEF Call, Core!Call, Go, Core!Go
    <3>4. Core!Exclusive
      <4> SUFFICES ASSUME NEW d \in Callers PROVE pc[d] = "idle"
        BY DEF Core!Exclusive
      <4>1. CASE d = c
        BY <4>1, <3>1 DEF Call, Go
      <4>2. CASE d # c
        BY <4>2, <3>1 DEF LInv, Mutex
      <4> QED
        BY <4>1, <4>2
    <3> QED
      BY <3>2, <3>3, <3>4 DEF Core!Next, Core!next_with
  <2>3. CASE Advance(c) \/ Encode(c) \/ Unwind(c)
    <3>1. Inside(c)
      BY <2>3 DEF Advance, Encode, Unwind, Inside
    <3> QED
      BY <3>1, SameInside DEF Core!Next
  <2> QED
    BY <1>4, <2>1, <2>2, <2>3 DEF Step
<1> QED
  BY <1>0, <1>1, <1>2, <1>3, <1>4 DEF SharedNext

(* The initial states are the core's.                                      *)
LEMMA InitImplements == SharedInit => Core!Init
  BY DEF SharedInit, Init, Core!Init

(* The binding implements the exclusively borrowed generator, for every    *)
(* number of threads, through poisoning, recovery and refused arguments.   *)
THEOREM BindingImplementsCore ==
  SharedSpec => CoreSpec
<1>1. LInv /\ [SharedNext]_allVars => [Core!Next]_(Core!vars)
  BY StepImplements
<1> QED
  BY <1>1, InitImplements, InitLInv, NextLInv, PTL DEF SharedSpec, CoreSpec, Core!Spec

-----------------------------------------------------------------------------
(* What is proved of the generator holds of the binding that implements it.*)

\* The generator again, with its theorems; it differs from Core in nothing.
Proved == INSTANCE MonotonicState_proofs WITH SeedTimes <- SeedTimes \cap Timestamps

LEMMA SameGenerator == Core!Spec <=> Proved!Spec
<1>1. Core!Init <=> Proved!Init
  BY DEF Core!Init, Proved!Init
<1>2. Core!Next <=> Proved!Next
  BY DEF Core!Next, Proved!Next, Core!Tick, Proved!Tick, Core!Waiting, Proved!Waiting,
         Core!StepBack, Proved!StepBack, Core!next_with, Proved!next_with,
         Core!Exclusive, Proved!Exclusive, Core!Call, Proved!Call, Core!Go, Proved!Go,
         Core!Inside, Proved!Inside, Core!NewMillisecond, Proved!NewMillisecond,
         Core!Increment, Proved!Increment, Core!Return, Proved!Return,
         Core!from_parts, Proved!from_parts, Core!Exhausted, Proved!Exhausted,
         Core!SpinExit, Proved!SpinExit, Core!Reread, Proved!Reread, Core!Draw, Proved!Draw,
         Core!DrawPanic, Proved!DrawPanic, Core!Randomnesses, Proved!Randomnesses
<1>3. Core!vars = Proved!vars /\ Core!vars' = Proved!vars'
  BY DEF Core!vars, Proved!vars
<1>4. [Core!Next]_(Core!vars) <=> [Proved!Next]_(Proved!vars)
  BY <1>2, <1>3
<1> QED
  BY <1>1, <1>4, PTL DEF Core!Spec, Proved!Spec

\* What the process needs from its surroundings: a clock that is not set
\* back between the two reads of the exhausted branch, nor too large.
Clocked == ~ClockStepsInReread /\ MaxClock <= TIME_MAX

LEMMA StreamOrdered ==
  ASSUME Clocked
  PROVE  SharedSpec => [](TypeOK /\ StrictlyIncreasing)
<1>1. Proved!Environment
  BY DEF Clocked, Proved!Environment, Proved!Timestamps, Timestamps
<1>2. Proved!Id128Assumption
  BY Id128Assumption DEF Proved!Id128Assumption
<1>3. Proved!MonotonicStateAssumption
  BY MonotonicStateAssumption DEF Proved!MonotonicStateAssumption
<1>4. Proved!Spec => []Proved!StrictlyIncreasing
  BY <1>1, <1>2, <1>3, Proved!StrictOrder, PTL
<1>5. Proved!Spec => []Proved!TypeOK
  BY <1>2, <1>3, Proved!TypeCorrect, PTL
<1>6. Proved!StrictlyIncreasing => StrictlyIncreasing
  BY DEF Proved!StrictlyIncreasing, StrictlyIncreasing
<1>7. Proved!TypeOK => TypeOK
  BY DEF Proved!TypeOK, TypeOK, Proved!Randomnesses, Randomnesses, Proved!Locations, Locations,
         Proved!Ids, Ids
<1> QED
  BY <1>4, <1>5, <1>6, <1>7, SameGenerator, BindingImplementsCore, PTL DEF CoreSpec

\* Where a call got its identifier: after everything there was when it began.
Placed ==
  /\ place \in [Callers -> Nat] /\ before \in [Callers -> Nat]
  /\ \A c \in Callers :
       /\ before[c] <= Len(out) /\ place[c] <= Len(out)
       /\ place[c] # 0 => before[c] < place[c]

\* An identifier is appended to the stream.
LEMMA EncodeAppends ==
  ASSUME TypeOK, NEW c \in Callers, Encode(c)
  PROVE  /\ Len(out) \in Nat /\ Len(out') = Len(out) + 1
         /\ place' = [place EXCEPT ![c] = Len(out) + 1] /\ before' = before
<1>1. PICK r \in Randomnesses : out' = Append(out, from_parts(last_ms, r))
  BY Id128Assumption DEF Encode, Increment, Draw, Return, TypeOK, Randomnesses
<1>2. from_parts(last_ms, r) \in Ids
  <2>1. Proved!Id128Assumption /\ Proved!MonotonicStateAssumption
    BY Id128Assumption, MonotonicStateAssumption
    DEF Proved!Id128Assumption, Proved!MonotonicStateAssumption
  <2>2. last_ms \in Nat /\ r \in Nat
    BY Id128Assumption DEF TypeOK, Randomnesses
  <2>3. Proved!from_parts(last_ms, r) \in Proved!Ids
    BY <2>1, <2>2, Proved!FromPartsType
  <2> QED
    BY <2>3 DEF Proved!from_parts, Proved!Ids, from_parts, Ids
<1>3. Len(out) \in Nat /\ Len(out') = Len(out) + 1
  BY <1>1, <1>2 DEF TypeOK
<1> QED
  BY <1>3 DEF Encode

LEMMA NextPlaced ==
  ASSUME TypeOK, Placed, [SharedNext]_allVars PROVE Placed'
<1> USE DEF Placed
<1>0. Len(out) \in Nat
  BY DEF TypeOK
<1>1. ASSUME UNCHANGED << out, place, before >> PROVE Placed'
  BY <1>1
<1>2. ASSUME NEW c \in Callers, Invoke(c) PROVE Placed'
  BY <1>0, <1>2 DEF Invoke, vars
<1>3. ASSUME NEW c \in Callers, Encode(c) PROVE Placed'
  BY <1>3, EncodeAppends
<1>4. ASSUME NEW c \in Callers, Step(c), ~Encode(c) PROVE UNCHANGED << out, place, before >>
  BY <1>4 DEF Step, Lock, LockPanics, Refuse, Start, Call, Advance, NewMillisecond, Exhausted,
              SpinExit, Reread, Unlock, Unwind, DrawPanic, vars, shVars
<1>5. CASE SharedClock \/ UNCHANGED allVars
  BY <1>1, <1>5 DEF SharedClock, Tick, StepBack, allVars, vars, shVars
<1> QED
  BY <1>1, <1>2, <1>3, <1>4, <1>5 DEF SharedNext

(* A call that begins after another one returned, in whatever thread, gets *)
(* a larger identifier, for every number of threads and both bindings.     *)
THEOREM ThreadsAgreeOnOrder ==
  ASSUME Clocked
  PROVE  SharedSpec => []RealTimeOrder
<1>1. SharedInit => Placed
  BY DEF SharedInit, Init, Placed
<1>2. TypeOK /\ Placed /\ [SharedNext]_allVars => Placed'
  BY NextPlaced
<1>3. TypeOK /\ StrictlyIncreasing /\ Placed => RealTimeOrder
  <2> SUFFICES ASSUME TypeOK, StrictlyIncreasing, Placed, NEW c \in Callers, place[c] # 0
               PROVE  /\ place[c] > before[c]
                      /\ \A i \in 1 .. place[c] - 1 : out[i] < out[place[c]]
    BY DEF RealTimeOrder
  <2>1. place[c] \in 1 .. Len(out) /\ place[c] > before[c] /\ Len(out) \in Nat
    BY DEF Placed, TypeOK
  <2>2. \A i \in 1 .. place[c] - 1 : i \in 1 .. Len(out) /\ i < place[c]
    BY <2>1
  <2> QED
    BY <2>1, <2>2 DEF StrictlyIncreasing
<1> QED
  BY <1>1, <1>2, <1>3, StreamOrdered, PTL DEF SharedSpec

-----------------------------------------------------------------------------
(* Where the poison flag is obeyed, nobody is past the lock once it is set.*)
PoisonStops ==
  poisoned /\ ~RecoversPoison => \A c \in Callers : at[c] \notin {"validate", "inside"}

LEMMA NextPoisonStops ==
  ASSUME LInv, PoisonStops, [SharedNext]_allVars PROVE PoisonStops'
<1> SUFFICES ASSUME poisoned', ~RecoversPoison, NEW d \in Callers
             PROVE  at'[d] \notin {"validate", "inside"}
  BY DEF PoisonStops, RecoversPoison, SharedNext, allVars
<1> USE DEF LInv, LockTypes, Mutex, PoisonStops
<1>1. CASE SharedClock \/ UNCHANGED allVars
  BY <1>1 DEF SharedClock, allVars, shVars
<1>2. ASSUME NEW c \in Callers, Invoke(c) PROVE at'[d] \notin {"validate", "inside"}
  BY <1>2 DEF Invoke, Move, lockVars
<1>3. ASSUME NEW c \in Callers, Unwind(c) PROVE at'[d] \notin {"validate", "inside"}
  BY <1>3 DEF Unwind, Finish, Move
<1>4. ASSUME NEW c \in Callers, Step(c), ~Unwind(c) PROVE at'[d] \notin {"validate", "inside"}
  BY <1>4 DEF Step, Lock, LockPanics, Refuse, Start, Advance, Encode, Unlock, Finish, Move,
              lockVars, shVars
<1> QED
  BY <1>1, <1>2, <1>3, <1>4 DEF SharedNext

(* No identifier is ever made of a state that a panic left half updated,   *)
(* where the binding does not recover from poison.                         *)
THEOREM TornStateIsNeverUsed == SharedSpec => NoIdFromTornState
<1>1. SharedInit => PoisonStops
  BY DEF SharedInit, PoisonStops
<1>2. LInv /\ PoisonStops /\ [SharedNext]_allVars =>
        [poisoned /\ ~RecoversPoison => UNCHANGED << last_ms, last_rand, out >>]_allVars
  <2> SUFFICES ASSUME LInv, PoisonStops, SharedNext, poisoned, ~RecoversPoison
               PROVE  UNCHANGED << last_ms, last_rand, out >>
    OBVIOUS
  <2>1. ASSUME NEW c \in Callers, Invoke(c) \/ Step(c) PROVE UNCHANGED vars
    <3>1. at[c] \notin {"validate", "inside"}
      BY DEF PoisonStops
    <3> QED
      BY <2>1, <3>1 DEF Invoke, Step, Lock, LockPanics, Refuse, Start, Advance, Encode, Unlock,
                        Unwind, Finish, Move
  <2>2. ASSUME SharedClock PROVE UNCHANGED << last_ms, last_rand, out >>
    BY <2>2 DEF SharedClock, Tick, StepBack
  <2> QED
    BY <2>1, <2>2 DEF SharedNext, vars
<1> QED
  BY <1>1, <1>2, InitLInv, NextLInv, NextPoisonStops, PTL DEF SharedSpec, NoIdFromTornState

=============================================================================
