------------------------- MODULE WasmBinding_proofs -------------------------
(***************************************************************************)
(* The monotonic stream of the WebAssembly binding, proved for every width *)
(* of an identifier's halves and every movement of the host's clock: the   *)
(* steps inside the engine are those of MonotonicState, whose lemmas are   *)
(* used again; calls, the override and traps are the binding's own.        *)
(***************************************************************************)
EXTENDS WasmBinding, MonotonicState_proofs

\* The override never moves while a call is in the engine, and a call came
\* with a timestamp that is not older than Date.now() was.
JsInv ==
  /\ IInv
  /\ CaughtUp
  /\ date \in 0 .. MaxClock
  /\ asked \in Nat
  /\ pc[Js] # "idle" => asked <= now[Js]

\* There is one caller.
LEMMA OnlyJs == Js \in Callers /\ \A c \in Callers : c = Js
  BY WasmBindingAssumption

LEMMA InitJsInv == ASSUME Environment, WasmInit PROVE JsInv
<1>1. Init /\ date \in 0 .. MaxClock /\ asked = 0
  BY MonotonicStateAssumption DEF WasmInit
<1>2. TypeOK
  <2>1. /\ last_ms \in Nat
        /\ last_rand \in Randomnesses
        /\ clock \in 0 .. MaxClock
        /\ calls \in 0 .. MaxCalls
    BY <1>1, Id128Assumption, MonotonicStateAssumption DEF Init, Randomnesses
  <2>2. pc \in [Callers -> Locations] /\ now \in [Callers -> Nat] /\ out \in Seq(Ids)
    BY <1>1 DEF Init, Locations
  <2> QED
    BY <2>1, <2>2 DEF TypeOK
<1>3. IInv
  BY <1>1, <1>2, InitIInv
<1>4. CaughtUp /\ pc[Js] = "idle"
  BY <1>1, OnlyJs DEF Init, CaughtUp
<1> QED
  BY <1>1, <1>3, <1>4 DEF JsInv

\* A step of the engine is one of the generator, inside or out of a call.
LEMMA EngineStep ==
  ASSUME Environment, JsInv, Inside(Js)
  PROVE  [Next]_vars /\ IInv' /\ CaughtUp'
<1>1. [Next]_vars
  BY OnlyJs DEF Next
<1>2. TypeOK'
  BY <1>1, StepPreservesTypeOK DEF JsInv, IInv
<1> QED
  BY <1>1, <1>2, StepPreservesIInv, StepPreservesCaughtUp DEF JsInv

\* A trap in the clock leaves the state as an abandoned wait does.
LEMMA ClockTrapInv == ASSUME JsInv, ClockTraps PROVE IInv' /\ CaughtUp'
<1>1. /\ pc' = [pc EXCEPT ![Js] = "idle"]
      /\ UNCHANGED << last_ms, last_rand, clock, now, calls, out >>
  BY DEF ClockTraps, Go
<1>2. TypeOK'
  BY <1>1 DEF JsInv, IInv, TypeOK, Locations
<1>3. \A c \in Callers : pc'[c] # "idle" => pc'[c] = pc[c]
  BY <1>1 DEF JsInv, IInv, TypeOK
<1>4. OneInside' /\ InTime' /\ ClockAhead' /\ CaughtUp'
  BY <1>1, <1>3 DEF JsInv, IInv, OneInside, InTime, ClockAhead, CaughtUp
<1>5. Ahead' /\ StrictlyIncreasing'
  BY <1>1, <1>3 DEF JsInv, IInv, Ahead, Newest, StrictlyIncreasing
<1> QED
  BY <1>2, <1>4, <1>5 DEF IInv

\* A call comes with a timestamp of the caller's or with Date.now().
LEMMA EnterInv ==
  ASSUME Environment, JsInv, NEW t \in SeedTimes \cup {NoAnswer, Fraction}, Enter(t)
  PROVE  IInv' /\ CaughtUp' /\ asked' \in Nat /\ asked' <= now'[Js]
<1> DEFINE ts == resolve_ts(t)
<1>1. /\ pc[Js] = "idle" /\ pc' = [pc EXCEPT ![Js] = "advance"]
      /\ now' = [now EXCEPT ![Js] = ts]
      /\ calls < MaxCalls /\ calls' = calls + 1
      /\ asked' = (IF t = NoAnswer THEN date ELSE 0)
      /\ UNCHANGED << last_ms, last_rand, clock, out >>
  BY DEF Enter, Call, Go
<1>2. ts \in Timestamps /\ ts \in Nat /\ asked' \in Nat /\ asked' <= ts
  <2>1. /\ Timestamps \subseteq Nat /\ SeedTimes \subseteq Timestamps
        /\ date \in Timestamps /\ date \in Nat
    BY Id128Assumption, MonotonicStateAssumption DEF Environment, Timestamps, JsInv
  <2>2. CASE t = NoAnswer
    BY <1>1, <2>1, <2>2 DEF resolve_ts
  <2>3. CASE t # NoAnswer
    <3>1. t \in SeedTimes
      BY <2>3 DEF Enter
    <3> QED
      BY <1>1, <2>1, <2>3, <3>1 DEF resolve_ts
  <2> QED
    BY <2>2, <2>3
<1> HIDE DEF ts
<1>3. TypeOK'
  <2>1. TypeOK
    BY DEF JsInv, IInv
  <2>2. pc' \in [Callers -> Locations]
    BY <1>1, <2>1 DEF TypeOK, Locations
  <2>3. now' \in [Callers -> Nat]
    BY <1>1, <1>2, <2>1 DEF TypeOK
  <2>4. calls' \in 0 .. MaxCalls
    BY <1>1, <2>1, MonotonicStateAssumption DEF TypeOK
  <2> QED
    BY <1>1, <2>1, <2>2, <2>3, <2>4 DEF TypeOK
<1>4. \A c \in Callers : pc'[c] = "advance" /\ now'[c] = ts
  BY <1>1, OnlyJs DEF JsInv, IInv, TypeOK
<1>5. OneInside' /\ InTime' /\ ClockAhead' /\ CaughtUp'
  BY <1>1, <1>2, <1>4, OnlyJs DEF JsInv, IInv, OneInside, InTime, ClockAhead, CaughtUp
<1>6. Ahead' /\ StrictlyIncreasing'
  BY <1>1, <1>4 DEF JsInv, IInv, Ahead, Newest, StrictlyIncreasing
<1> QED
  BY <1>1, <1>2, <1>3, <1>4, <1>5, <1>6, OnlyJs DEF IInv

\* The override is set between calls only.
LEMMA SyncedInv == ASSUME JsInv, Synced PROVE IInv' /\ CaughtUp'
<1>1. /\ clock' = date /\ \A c \in Callers : pc[c] = "idle"
      /\ UNCHANGED << last_ms, last_rand, pc, now, calls, out >>
  BY OnlyJs DEF Synced, sync_clock, Idle
<1>2. TypeOK'
  BY <1>1 DEF JsInv, IInv, TypeOK
<1>3. OneInside' /\ InTime' /\ ClockAhead' /\ CaughtUp'
  BY <1>1 DEF JsInv, IInv, OneInside, InTime, ClockAhead, CaughtUp
<1>4. Ahead' /\ StrictlyIncreasing'
  BY <1>1 DEF JsInv, IInv, Ahead, Newest, StrictlyIncreasing
<1> QED
  BY <1>2, <1>3, <1>4 DEF IInv

\* Steps the generator has no part in.
LEMMA OutsideInv == ASSUME JsInv, UNCHANGED vars PROVE IInv' /\ CaughtUp'
  BY DEF vars, JsInv, IInv, TypeOK, OneInside, InTime, Ahead, Newest, ClockAhead,
         StrictlyIncreasing, CaughtUp

\* What a step of the engine is.
LEMMA EngineSteps ==
  ASSUME Engine
  PROVE  /\ UNCHANGED << date, asked >>
         /\ Inside(Js) \/ ClockTraps
         /\ answer' = "id" /\ answer # "id" =>
              Increment(Js) \/ \E r \in Randomnesses : Draw(Js, r)
  BY DEF Engine, Advance, SpinEnds, Encode, DrawTraps, ClockTraps, Trapped, wasmVars, Inside

LEMMA NextJsInv ==
  ASSUME Environment, JsInv, [WasmNext]_allVars PROVE JsInv'
<1>1. CASE DateTick \/ DateBack
  <2>1. date' \in 0 .. MaxClock /\ UNCHANGED << vars, asked >>
    BY <1>1, MonotonicStateAssumption DEF DateTick, DateBack, JsInv
  <2>2. IInv' /\ CaughtUp'
    BY <2>1, OutsideInv
  <2> QED
    BY <2>1, <2>2 DEF JsInv, vars
<1>2. CASE Synced
  BY <1>2, SyncedInv DEF JsInv, Synced, Idle
<1>3. ASSUME NEW t \in SeedTimes \cup {NoAnswer, Fraction},
             Enter(t) \/ Refuse(t) \/ AlreadyBorrowed(t)
      PROVE  JsInv'
  <2>1. CASE Enter(t)
    BY <2>1, EnterInv DEF JsInv, Enter
  <2>2. CASE Refuse(t) \/ AlreadyBorrowed(t)
    <3>1. /\ UNCHANGED << vars, date >> /\ pc[Js] = "idle"
          /\ asked' = asked \/ asked' = 0
      BY <2>2 DEF Refuse, AlreadyBorrowed, Idle
    <3>2. IInv' /\ CaughtUp'
      BY <3>1, OutsideInv
    <3> QED
      BY <3>1, <3>2 DEF JsInv, vars
  <2> QED
    BY <1>3, <2>1, <2>2
<1>4. CASE Engine
  <2>1. IInv' /\ CaughtUp'
    BY <1>4, EngineSteps, EngineStep, ClockTrapInv
  <2>2. UNCHANGED << date, asked >>
    BY <1>4, EngineSteps
  <2>3. pc'[Js] # "idle" => pc[Js] # "idle" /\ now'[Js] = now[Js]
    <3>1. CASE Inside(Js)
      BY <3>1, OnlyJs DEF Inside, NewMillisecond, Increment, Exhausted, SpinExit, Reread, Draw,
                          DrawPanic, Return, Go, JsInv, IInv, TypeOK
    <3>2. CASE ClockTraps
      BY <3>2, OnlyJs DEF ClockTraps, Go, JsInv, IInv, TypeOK
    <3> QED
      BY <1>4, <3>1, <3>2, EngineSteps
  <2> QED
    BY <2>1, <2>2, <2>3 DEF JsInv
<1>5. CASE UNCHANGED allVars
  <2>1. UNCHANGED << vars, date, asked >>
    BY <1>5 DEF allVars, wasmVars
  <2>2. IInv' /\ CaughtUp'
    BY <2>1, OutsideInv
  <2> QED
    BY <2>1, <2>2 DEF JsInv, vars
<1> QED
  BY <1>1, <1>2, <1>3, <1>4, <1>5 DEF WasmNext, monotonicUlid

LEMMA JsInvariance == ASSUME Environment PROVE WasmSpec => []JsInv
<1>1. WasmInit => JsInv
  BY InitJsInv
<1>2. JsInv /\ [WasmNext]_allVars => JsInv'
  BY NextJsInv
<1> QED
  BY <1>1, <1>2, PTL DEF WasmSpec

\* The binding hands JavaScript a strictly increasing stream, however the
\* host's clock and the override move, and whatever traps (lib.rs:77-91).
THEOREM WasmImplementsStream ==
  ASSUME Environment
  PROVE  WasmSpec => StreamSpec
<1>1. WasmInit => Stream!Init
  BY DEF WasmInit, Init, Stream!Init
<1>2. JsInv /\ JsInv' /\ [WasmNext]_allVars => [Stream!Next]_out
  <2> SUFFICES ASSUME JsInv, JsInv', [WasmNext]_allVars PROVE [Stream!Next]_out
    OBVIOUS
  <2>1. CASE Engine
    <3>1. CASE Inside(Js)
      BY <3>1, EngineStep, StreamStep DEF JsInv
    <3>2. CASE ClockTraps
      BY <3>2 DEF ClockTraps
    <3> QED
      BY <2>1, <3>1, <3>2, EngineSteps
  <2>2. CASE ~Engine
    <3>1. out' = out
      BY <2>2 DEF WasmNext, DateTick, DateBack, Synced, monotonicUlid, Enter, Call, Refuse,
                  AlreadyBorrowed, allVars, vars
    <3> QED
      BY <3>1
  <2> QED
    BY <2>1, <2>2
<1> QED
  BY <1>1, <1>2, JsInvariance, PTL DEF WasmSpec, StreamSpec, Stream!Spec

\* Without a seedTime an identifier is not stamped before the moment its call
\* began, however far behind the override and the host's clock are by then
\* (lib.rs:31-45, 79-86).
THEOREM HostTimeIsRespected ==
  ASSUME Environment
  PROVE  WasmSpec => HostTimeRespected
<1> DEFINE InHostTime ==
      answer # "id" /\ answer' = "id" => timestamp_ms(out'[Len(out')]) >= asked
<1>1. JsInv /\ [WasmNext]_allVars => InHostTime
  <2> SUFFICES ASSUME JsInv, [WasmNext]_allVars, answer # "id", answer' = "id"
               PROVE  timestamp_ms(out'[Len(out')]) >= asked
    OBVIOUS
  <2>1. Engine
    BY WasmBindingAssumption DEF WasmNext, DateTick, DateBack, Synced, monotonicUlid, Enter, Refuse, AlreadyBorrowed,
           allVars, wasmVars
  <2> DEFINE stamp == timestamp_ms(out'[Len(out')])
  <2>2. stamp >= now[Js] /\ pc[Js] # "idle" /\ stamp \in Nat
    <3>1. CASE Increment(Js)
      <4>1. /\ pc[Js] # "idle" /\ now[Js] <= last_ms
            /\ out' = Append(out, from_parts(last_ms, last_rand'))
        BY <3>1 DEF Increment, Return, Go
      <4>2. last_rand' \in Randomnesses
        BY <3>1, Id128Assumption DEF Increment, JsInv, IInv, TypeOK, Randomnesses
      <4>3. stamp = last_ms
        BY <4>1, <4>2, TimestampReadsBack DEF JsInv, IInv, InTime, TypeOK
      <4> QED
        BY <4>1, <4>2, <4>3, OnlyJs, StampedInTime DEF JsInv, IInv, TypeOK
    <3>2. ASSUME NEW r \in Randomnesses, Draw(Js, r)
          PROVE  stamp >= now[Js] /\ pc[Js] # "idle" /\ stamp \in Nat
      <4>1. /\ pc[Js] = "draw" /\ now[Js] <= last_ms
            /\ out' = Append(out, from_parts(last_ms, r))
        BY <3>2, OnlyJs DEF Draw, Return, Go, JsInv, CaughtUp
      <4>2. stamp = last_ms
        BY <4>1, TimestampReadsBack DEF JsInv, IInv, InTime, TypeOK
      <4> QED
        BY <4>1, <4>2, OnlyJs, StampedInTime DEF JsInv, IInv, TypeOK
    <3> QED
      BY <2>1, <3>1, <3>2, EngineSteps
  <2>3. asked <= now[Js] /\ asked \in Nat /\ now[Js] \in Nat
    BY <2>2, OnlyJs DEF JsInv, IInv, TypeOK
  <2> HIDE DEF stamp
  <2>4. stamp >= asked
    BY <2>2, <2>3
  <2> QED
    BY <2>4 DEF stamp
<1> QED
  BY <1>1, JsInvariance, PTL DEF WasmSpec, HostTimeRespected

=============================================================================
