------------------------------ MODULE Sources ------------------------------
(***************************************************************************)
(* Where an identifier's time and randomness come from: the clock and its  *)
(* override, the seeded sources of the fixtures, and the batches that read *)
(* the clock once.  A behaviour is a behaviour of one of the three, chosen *)
(* at the start; they share the wall clock, and the other variables of the *)
(* parts that do not run stay unused.  The parts are                       *)
(*                                                                         *)
(*   override   ClockOverride   set, clear and now_ms from the threads     *)
(*   fixtures   Fixtures        two generators with one seed               *)
(*   batches    Batches         threads that generate and may panic        *)
(***************************************************************************)
EXTENDS Integers, Sequences

CONSTANTS
  Threads, ClockMax,                                       \* Of ClockOverride and Batches,
  Programs,                                                \* of ClockOverride,
  TIME_MAX, RANDOM_MASK, SeedTimes, MaxSeeded, FreeClock, MaxClock,   \* of Fixtures,
  BLOCK, MAX_BATCH, Counts, Lengths, Panics, MaxCalls      \* and of Batches.

VARIABLES
  part,                                                    \* Which of the three runs.
  clock,                                                   \* The wall clock.
  program, MS, ACTIVE, seen, next, half, results, wall,    \* Of ClockOverride,
  script, seed, spun,                                      \* of Fixtures,
  a_ms, a_rand, a_pc, a_now, a_calls, a_out, a_drawn,
  b_ms, b_rand, b_pc, b_now, b_calls, b_out, b_drawn,
  kind, ts, at, done, length, buffer, outcome, began, calls   \* of Batches.

oVars == << program, MS, ACTIVE, seen, next, half, results, wall >>
fVars == << script, seed, spun, a_ms, a_rand, a_pc, a_now, a_calls, a_out, a_drawn,
            b_ms, b_rand, b_pc, b_now, b_calls, b_out, b_drawn >>
bVars == << kind, ts, at, done, length, buffer, outcome, began, calls >>
vars  == << part, clock, oVars, fVars, bVars >>

-----------------------------------------------------------------------------
O == INSTANCE ClockOverride
F == INSTANCE Fixtures WITH MaxCalls <- MaxSeeded
B == INSTANCE Batches

ASSUME SourcesAssumption ==
  /\ O!ClockOverrideAssumption
  /\ F!FixturesAssumption
  /\ B!BatchesAssumption

-----------------------------------------------------------------------------
\* What the variables of the other parts are.
oUnused == /\ program = "unused" /\ MS = "unused" /\ ACTIVE = "unused" /\ seen = "unused"
           /\ next = "unused" /\ half = "unused" /\ results = "unused" /\ wall = "unused"
fUnused == /\ script = "unused" /\ seed = "unused" /\ spun = "unused"
           /\ a_ms = "unused" /\ a_rand = "unused" /\ a_pc = "unused" /\ a_now = "unused"
           /\ a_calls = "unused" /\ a_out = "unused" /\ a_drawn = "unused"
           /\ b_ms = "unused" /\ b_rand = "unused" /\ b_pc = "unused" /\ b_now = "unused"
           /\ b_calls = "unused" /\ b_out = "unused" /\ b_drawn = "unused"
bUnused == /\ kind = "unused" /\ ts = "unused" /\ at = "unused" /\ done = "unused"
           /\ length = "unused" /\ buffer = "unused" /\ outcome = "unused"
           /\ began = "unused" /\ calls = "unused"

Init ==
  \/ part = "override" /\ O!Init  /\ fUnused /\ bUnused
  \/ part = "fixtures" /\ oUnused /\ F!Init  /\ bUnused
  \/ part = "batches"  /\ oUnused /\ fUnused /\ B!Init

Next ==
  \/ part = "override" /\ O!Next /\ UNCHANGED << part, fVars, bVars >>
  \/ part = "fixtures" /\ F!Next /\ UNCHANGED << part, oVars, bVars >>
  \/ part = "batches"  /\ B!Next /\ UNCHANGED << part, oVars, fVars >>

Spec == Init /\ [][Next]_vars

-----------------------------------------------------------------------------
(* Properties: those of the modules, each of its own part.                 *)

\* A thread that alone sets and clears the override gets from now_ms what it
\* set (core/src/lib.rs:78-79).
SoleWriterObeyed == part = "override" => O!SoleWriterObeyed

\* Seeded generators are reproducible unless a millisecond is exhausted
\* (core/src/monotonic.rs:77-85).
ReproducibleUnlessExhausted == part = "fixtures" => F!ReproducibleUnlessExhausted

\* A batch is whole and of one millisecond the call lived through
\* (core/src/batch.rs:89).
OneMillisecond == part = "batches" => B!OneMillisecond

\* A caller's buffer never holds a torn identifier (core/src/batch.rs:77-85).
WholeBlocks == part = "batches" => B!WholeBlocks

=============================================================================
