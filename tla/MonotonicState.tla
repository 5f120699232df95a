-------------------------- MODULE MonotonicState --------------------------
(***************************************************************************)
(* The monotonic generator of crates/core/src/monotonic.rs.                *)
(*                                                                         *)
(* MonotonicState is a plain struct whose methods take &mut self, so one   *)
(* caller at a time runs `advance`.  A call is broken where the code reads *)
(* the clock or draws randomness: there the wall clock may move and the    *)
(* draw may panic.  The specification Spec of this module has the borrow   *)
(* checker's exclusivity as the guard of Call; SharedMonotonic replaces it *)
(* by the bindings' mutex and is shown to implement Spec.                  *)
(***************************************************************************)
EXTENDS Id128, Sequences, FiniteSets

CONSTANTS
  Callers,             \* Threads that call the generator.
  SeedTimes,           \* Explicit timestamps passed to the *_at methods.
  MaxCalls,            \* Bound: calls made in a behaviour.
  FreeClock,           \* Bound: the clock runs by itself up to here ...
  MaxClock,            \* ... and up to here while a caller waits for it.
  ClockStepsInReread,  \* May the clock be set back between the two reads of
                       \* the exhausted branch?
  DrawPanics           \* May drawing randomness panic?

ASSUME MonotonicStateAssumption ==
  /\ SeedTimes \subseteq Nat
  /\ MaxCalls \in Nat
  /\ FreeClock \in Nat
  /\ MaxClock \in Nat
  /\ FreeClock <= MaxClock
  /\ ClockStepsInReread \in BOOLEAN
  /\ DrawPanics \in BOOLEAN

VARIABLES
  last_ms,    \* MonotonicState.last_ms
  last_rand,  \* MonotonicState.last_rand
  clock,      \* What crate::now_ms() returns.
  pc,         \* Where each caller is inside next_with.
  now,        \* The argument `now` of each caller's `advance`.
  calls,      \* Calls begun so far (bounded by MaxCalls).
  out         \* History: the identifiers returned, in order.

vars == << last_ms, last_rand, clock, pc, now, calls, out >>

Locations == {"idle", "advance", "draw", "spin", "reread"}

\* MonotonicState::new
Init ==
  /\ last_ms = 0
  /\ last_rand = 0
  /\ clock \in 0 .. FreeClock
  /\ pc = [c \in Callers |-> "idle"]
  /\ now = [c \in Callers |-> 0]
  /\ calls = 0
  /\ out = << >>

Go(c, from, to) ==
  /\ pc[c] = from
  /\ pc' = [pc EXCEPT ![c] = to]

\* `next_with` encodes the pair `advance` left in the state and returns it.
Return(c, from, ms, rand) ==
  /\ Go(c, from, "idle")
  /\ out' = Append(out, from_parts(ms, rand))

-----------------------------------------------------------------------------
(* The wall clock.  It advances, and it may be set back at any time; the   *)
(* constant ClockStepsInReread says whether also in the few instructions   *)
(* between the last poll of spin_until_next_ms and the read after it.      *)

Waiting(c) == pc[c] = "spin" /\ clock <= last_ms

Tick ==
  /\ clock < MaxClock
  /\ clock < FreeClock \/ \E c \in Callers : Waiting(c)
  /\ clock' = clock + 1
  /\ UNCHANGED << last_ms, last_rand, pc, now, calls, out >>

StepBack ==
  /\ ClockStepsInReread \/ \A c \in Callers : pc[c] # "reread"
  /\ \E t \in 0 .. MaxClock : t < clock /\ clock' = t
  /\ UNCHANGED << last_ms, last_rand, pc, now, calls, out >>

-----------------------------------------------------------------------------
(* The calls.                                                              *)

\* next_secure_at(ts), next_deterministic_at(ts, rng); with ts = clock also
\* next_secure() and next_deterministic(rng), which read the clock first.
Call(c, ts) ==
  /\ calls < MaxCalls
  /\ Go(c, "idle", "advance")
  /\ now' = [now EXCEPT ![c] = ts]
  /\ calls' = calls + 1
  /\ UNCHANGED << last_ms, last_rand, clock, out >>

\* Mutant: `>=` for `>`, so a second call in a millisecond draws again.
NewMillisecond_SameMsRedraws(c) ==
  /\ Go(c, "advance", "draw")
  /\ now[c] >= last_ms
  /\ last_ms' = now[c]
  /\ UNCHANGED << last_rand, clock, now, calls, out >>

\* Mutant: stamps the clock instead of the argument.
NewMillisecond_StampsClock(c) ==
  /\ Go(c, "advance", "draw")
  /\ now[c] > last_ms
  /\ last_ms' = clock
  /\ UNCHANGED << last_rand, clock, now, calls, out >>

\* last_ms is stored before the draw, which may panic.
NewMillisecond(c) ==
  /\ Go(c, "advance", "draw")
  /\ now[c] > last_ms
  /\ last_ms' = now[c]
  /\ UNCHANGED << last_rand, clock, now, calls, out >>

\* Mutant: no test for the exhausted random part.
Increment_Unchecked(c) ==
  /\ now[c] <= last_ms
  /\ last_rand' = last_rand + 1
  /\ Return(c, "advance", last_ms, last_rand')
  /\ UNCHANGED << last_ms, clock, now, calls >>

Increment(c) ==
  /\ now[c] <= last_ms
  /\ last_rand < RANDOM_MASK
  /\ last_rand' = last_rand + 1
  /\ Return(c, "advance", last_ms, last_rand')
  /\ UNCHANGED << last_ms, clock, now, calls >>

Exhausted(c) ==
  /\ Go(c, "advance", "spin")
  /\ now[c] <= last_ms
  /\ last_rand = RANDOM_MASK
  /\ UNCHANGED << last_ms, last_rand, clock, now, calls, out >>

\* Mutant: `<` for `<=` in the loop, which ends one millisecond too early.
SpinExit_SameMs(c) ==
  /\ Go(c, "spin", "reread")
  /\ clock >= last_ms
  /\ UNCHANGED << last_ms, last_rand, clock, now, calls, out >>

\* Mutant: waits for exactly the next millisecond.
SpinExit_ExactlyNext(c) ==
  /\ Go(c, "spin", "reread")
  /\ clock = last_ms + 1
  /\ UNCHANGED << last_ms, last_rand, clock, now, calls, out >>

\* The loop `while now_ms() <= last_ms` ends; polls that fail change nothing.
SpinExit(c) ==
  /\ Go(c, "spin", "reread")
  /\ clock > last_ms
  /\ UNCHANGED << last_ms, last_rand, clock, now, calls, out >>

\* The second read of the clock.
Reread(c) ==
  /\ Go(c, "reread", "draw")
  /\ last_ms' = clock
  /\ UNCHANGED << last_rand, clock, now, calls, out >>

\* draw_80 returns r.
Draw(c, r) ==
  /\ last_rand' = r
  /\ Return(c, "draw", last_ms, r)
  /\ UNCHANGED << last_ms, clock, now, calls >>

\* draw_80 panics: the caller unwinds with last_ms stored and last_rand old.
DrawPanic(c) ==
  /\ DrawPanics
  /\ Go(c, "draw", "idle")
  /\ UNCHANGED << last_ms, last_rand, clock, now, calls, out >>

\* Everything a caller does once it is inside next_with.
Inside(c) ==
  \/ NewMillisecond(c)
  \/ Increment(c)
  \/ Exhausted(c)
  \/ SpinExit(c)
  \/ Reread(c)
  \/ \E r \in Randomnesses : Draw(c, r)
  \/ DrawPanic(c)

\* &mut self: nobody else is inside.
Exclusive == \A d \in Callers : pc[d] = "idle"

next_with(c) == Exclusive /\ \E ts \in SeedTimes \cup {clock} : Call(c, ts)

Next ==
  \/ Tick
  \/ StepBack
  \/ \E c \in Callers : next_with(c) \/ Inside(c)

Spec == Init /\ [][Next]_vars

\* The clock keeps running and is not set back for ever, callers are
\* scheduled.  Nobody is obliged to call, and no draw is obliged to panic.
Fairness ==
  /\ WF_vars(Tick)
  /\ <>[][~StepBack]_vars
  /\ \A c \in Callers : WF_vars(Inside(c))

FairSpec == Spec /\ Fairness

-----------------------------------------------------------------------------
(* Properties.                                                             *)

TypeOK ==
  /\ last_ms \in Nat
  /\ last_rand \in Randomnesses
  /\ clock \in 0 .. MaxClock
  /\ pc \in [Callers -> Locations]
  /\ now \in [Callers -> Nat]
  /\ calls \in 0 .. MaxCalls
  /\ out \in Seq(Ids)

\* Every identifier is larger than all those returned before it, through
\* clock steps, exhaustion and panics (monotonic.rs:3-6, `advance`).
StrictlyIncreasing ==
  \A i, j \in 1 .. Len(out) : i < j => out[i] < out[j]

\* An identifier is never stamped earlier than the time its caller asked
\* for: a backwards or exhausted clock may only push the stamp forward.
NotBackdated ==
  [][\A c \in Callers :
       (pc[c] # "idle" /\ Len(out') > Len(out))
         => timestamp_ms(out'[Len(out')]) >= now[c]]_vars

\* The generator implements the strictly increasing stream.
Stream == INSTANCE StrictStream WITH issued <- out, Values <- Ids

StreamSpec == Stream!Spec

\* A call that began returns: the exhausted branch waits, it does not hang.
CallsReturn == \A c \in Callers : pc[c] # "idle" ~> pc[c] = "idle"

=============================================================================
