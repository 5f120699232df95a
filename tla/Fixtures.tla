------------------------------ MODULE Fixtures ------------------------------
(***************************************************************************)
(* Deterministic mode: two generators built from one seed are called with  *)
(* the same explicit timestamps (MonotonicState::next_deterministic_at with*)
(* a DeterministicRng each), as two runs of a test would, or the twins of  *)
(* fuzz/fuzz_targets/monotonic_state.rs.  Each has its own state and its   *)
(* own place in the word stream; the wall clock is one, and runs on.       *)
(***************************************************************************)
EXTENDS Integers, Sequences

CONSTANTS
  TIME_MAX, RANDOM_MASK,       \* As in Id128.
  SeedTimes,                   \* Timestamps a script is made of.
  MaxCalls,                    \* Bound: calls in a script.
  FreeClock, MaxClock          \* Bounds of the wall clock.

\* Timestamps are milliseconds of the epoch, a u64.
FixturesAssumption ==
  /\ TIME_MAX \in Nat /\ RANDOM_MASK \in Nat
  /\ SeedTimes \subseteq Nat
  /\ MaxCalls \in Nat

Caller == "test"

VARIABLES
  clock,                       \* crate::now_ms()
  script,                      \* The timestamps both twins are called with.
  seed,                        \* The random parts the seed stands for.
  spun,                        \* History: has a twin exhausted a millisecond?
  a_ms, a_rand, a_pc, a_now, a_calls, a_out, a_drawn,
  b_ms, b_rand, b_pc, b_now, b_calls, b_out, b_drawn

aVars == << a_ms, a_rand, a_pc, a_now, a_calls, a_out, a_drawn >>
bVars == << b_ms, b_rand, b_pc, b_now, b_calls, b_out, b_drawn >>
vars  == << clock, script, seed, spun, aVars, bVars >>

\* No clock is set back here, and nothing panics.
A == INSTANCE MonotonicState WITH
       Callers <- {Caller}, ClockStepsInReread <- FALSE, DrawPanics <- FALSE,
       last_ms <- a_ms, last_rand <- a_rand, pc <- a_pc, now <- a_now,
       calls <- a_calls, out <- a_out

B == INSTANCE MonotonicState WITH
       Callers <- {Caller}, ClockStepsInReread <- FALSE, DrawPanics <- FALSE,
       last_ms <- b_ms, last_rand <- b_rand, pc <- b_pc, now <- b_now,
       calls <- b_calls, out <- b_out

\* DeterministicRng::new(seed), twice: the n-th draw of either is seed[n].
Init ==
  /\ A!Init /\ a_drawn = 0
  /\ B!Init /\ b_drawn = 0
  /\ script \in [1 .. MaxCalls -> SeedTimes]
  /\ seed \in [1 .. MaxCalls -> 0 .. RANDOM_MASK]
  /\ spun = FALSE

Tick ==
  /\ A!Tick \/ B!Tick
  /\ UNCHANGED << script, seed, spun, aVars, bVars >>

\* Mutant: one word stream behind both generators.
DrawA_Shared ==
  /\ a_drawn < MaxCalls
  /\ A!Draw(Caller, seed[((a_drawn + b_drawn) % MaxCalls) + 1])
  /\ a_drawn' = a_drawn + 1
  /\ UNCHANGED spun

\* draw_80 takes the next words of the generator's own stream.
DrawA ==
  /\ a_drawn < MaxCalls
  /\ A!Draw(Caller, seed[a_drawn + 1])
  /\ a_drawn' = a_drawn + 1
  /\ UNCHANGED spun

DrawB ==
  /\ b_drawn < MaxCalls
  /\ B!Draw(Caller, seed[b_drawn + 1])
  /\ b_drawn' = b_drawn + 1
  /\ UNCHANGED spun

WithoutDrawA ==
  /\ \/ /\ \/ A!Exclusive /\ A!Call(Caller, script[a_calls + 1])
           \/ A!NewMillisecond(Caller) \/ A!Increment(Caller)
           \/ A!SpinExit(Caller) \/ A!Reread(Caller)
        /\ UNCHANGED spun
     \/ A!Exhausted(Caller) /\ spun' = TRUE
  /\ UNCHANGED a_drawn

WithoutDrawB ==
  /\ \/ /\ \/ B!Exclusive /\ B!Call(Caller, script[b_calls + 1])
           \/ B!NewMillisecond(Caller) \/ B!Increment(Caller)
           \/ B!SpinExit(Caller) \/ B!Reread(Caller)
        /\ UNCHANGED spun
     \/ B!Exhausted(Caller) /\ spun' = TRUE
  /\ UNCHANGED b_drawn

\* next_deterministic_at(script[n], rng)
TwinA == (DrawA \/ WithoutDrawA) /\ UNCHANGED << script, seed, bVars >>
TwinB == (DrawB \/ WithoutDrawB) /\ UNCHANGED << script, seed, aVars >>

Next == Tick \/ TwinA \/ TwinB

Spec == Init /\ [][Next]_vars

-----------------------------------------------------------------------------
(* Properties.                                                             *)

\* The twins agree as far as both have come.
Agree ==
  \A i \in 1 .. Len(a_out) : i <= Len(b_out) => a_out[i] = b_out[i]

\* The sequence depends on the seed and the timestamps alone, not on the
\* wall clock or on the pace of the run, unless a millisecond is exhausted.
ReproducibleUnlessExhausted == ~spun => Agree

=============================================================================
