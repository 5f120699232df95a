--------------------------- MODULE ClockOverride ---------------------------
(***************************************************************************)
(* The clock of crates/core/src/lib.rs: now_ms reads the wall clock unless *)
(* set_clock_override has supplied a value.  The override is two statics,  *)
(* CLOCK_OVERRIDE_MS and CLOCK_OVERRIDE_ACTIVE, accessed with Relaxed      *)
(* ordering by every thread of the process.                                *)
(*                                                                         *)
(* A relaxed atomic is modelled by the history of its values and, for each *)
(* thread, how far it has read: a load returns a value no older than the   *)
(* thread has seen of that atomic, and nothing ties one atomic to the      *)
(* other.  Stores take their places in the histories in the order they are *)
(* executed; Rust allows every behaviour of this model.                    *)
(***************************************************************************)
EXTENDS Integers, FiniteSets, Sequences

CONSTANTS
  Threads,      \* Threads of the process.
  Programs,     \* What the threads may run: functions to sequences of calls.
  ClockMax      \* Bound: the wall clock stops here.

Set(ms) == [op |-> "set", ms |-> ms]
Clear   == [op |-> "clear"]
NowMs   == [op |-> "now"]

Overrides == 1 .. 100   \* What a program may set; 0 is the initial value.

ClockOverrideAssumption ==
  /\ Programs \subseteq [Threads -> Seq({ Set(ms) : ms \in Overrides } \cup {Clear, NowMs})]
  /\ ClockMax \in Nat

VARIABLES
  program,      \* program[t] is the sequence of calls t makes.
  MS,           \* History of CLOCK_OVERRIDE_MS.
  ACTIVE,       \* History of CLOCK_OVERRIDE_ACTIVE.
  seen,         \* seen[t]: how far t has read either history.
  clock,        \* The wall clock, in milliseconds.
  next,         \* next[t]: the call of its program t is in, or about to make.
  half,         \* half[t]: t has done the first access of a set or a now.
  results,      \* results[t]: what the now_ms calls of t returned.
  wall          \* wall[t]: which of these were read from the wall clock.

vars == << program, MS, ACTIVE, seen, clock, next, half, results, wall >>

Init ==
  /\ program \in Programs
  /\ MS = << 0 >> /\ ACTIVE = << FALSE >>
  /\ seen = [t \in Threads |-> [ms |-> 1, active |-> 1]]
  /\ clock = 0
  /\ next = [t \in Threads |-> 1]
  /\ half = [t \in Threads |-> FALSE]
  /\ results = [t \in Threads |-> << >>]
  /\ wall = [t \in Threads |-> << >>]

At(t, op)  == next[t] <= Len(program[t]) /\ program[t][next[t]].op = op
Finish(t)  == next' = [next EXCEPT ![t] = @ + 1] /\ half' = [half EXCEPT ![t] = FALSE]
Halfway(t) == half' = [half EXCEPT ![t] = TRUE] /\ UNCHANGED next

Answer(t, ms, fromWall) ==
  /\ results' = [results EXCEPT ![t] = Append(@, ms)]
  /\ wall' = [wall EXCEPT ![t] = Append(@, fromWall)]

-----------------------------------------------------------------------------
(* The three functions, one atomic access at a time.                       *)

\* Mutant: an override that is active already keeps its value.
StoreMs_OnlyFirst(t) ==
  /\ At(t, "set") /\ ~half[t]
  /\ MS' = IF ACTIVE[Len(ACTIVE)] THEN MS ELSE Append(MS, program[t][next[t]].ms)
  /\ seen' = [seen EXCEPT ![t].ms = Len(MS')]
  /\ Halfway(t)
  /\ UNCHANGED << ACTIVE, clock, results, wall >>

StoreMs(t) ==
  /\ At(t, "set") /\ ~half[t]
  /\ MS' = Append(MS, program[t][next[t]].ms)
  /\ seen' = [seen EXCEPT ![t].ms = Len(MS')]
  /\ Halfway(t)
  /\ UNCHANGED << ACTIVE, clock, results, wall >>

StoreActive(t) ==
  /\ (At(t, "set") /\ half[t]) \/ At(t, "clear")
  /\ ACTIVE' = Append(ACTIVE, program[t][next[t]].op = "set")
  /\ seen' = [seen EXCEPT ![t].active = Len(ACTIVE')]
  /\ Finish(t)
  /\ UNCHANGED << MS, clock, results, wall >>

\* now_ms: the override is not active, as far as t can see, and the wall
\* clock is read; or it is active, and the value is loaded next.
LoadActive(t) ==
  /\ At(t, "now") /\ ~half[t]
  /\ \E i \in seen[t].active .. Len(ACTIVE) :
       /\ seen' = [seen EXCEPT ![t].active = i]
       /\ IF ACTIVE[i] THEN Halfway(t) /\ UNCHANGED << results, wall >>
                       ELSE Finish(t) /\ Answer(t, clock, TRUE)
  /\ UNCHANGED << MS, ACTIVE, clock >>

LoadMs(t) ==
  /\ At(t, "now") /\ half[t]
  /\ \E i \in seen[t].ms .. Len(MS) :
       /\ seen' = [seen EXCEPT ![t].ms = i]
       /\ Answer(t, MS[i], FALSE)
  /\ Finish(t)
  /\ UNCHANGED << MS, ACTIVE, clock >>

Tick ==
  /\ clock < ClockMax
  /\ clock' = clock + 1
  /\ UNCHANGED << MS, ACTIVE, seen, next, half, results, wall >>

Step(t) == StoreMs(t) \/ StoreActive(t) \/ LoadActive(t) \/ LoadMs(t)

Done == (\A t \in Threads : next[t] > Len(program[t])) /\ UNCHANGED vars

Next ==
  \/ (Tick \/ \E t \in Threads : Step(t)) /\ UNCHANGED program
  \/ Done

Spec == Init /\ [][Next]_vars

-----------------------------------------------------------------------------
(* Properties.                                                             *)

\* The n-th now_ms of t's program.
NthNow(t, n) == CHOOSE i \in 1 .. Len(program[t]) :
                  /\ program[t][i] = NowMs
                  /\ n = Cardinality({ j \in 1 .. i : program[t][j] = NowMs })

\* The last set or clear of t's own program before its call i, if any.
LastChange(t, i) ==
  LET before == { j \in 1 .. i - 1 : program[t][j].op \in {"set", "clear"} }
  IN  IF before = {} THEN Clear ELSE program[t][CHOOSE j \in before : \A k \in before : k <= j]

\* What a thread that believes its own changes expects of its n-th now_ms.
AsProgrammed(t, n) ==
  LET change == LastChange(t, NthNow(t, n))
  IN  IF change.op = "set" THEN ~wall[t][n] /\ results[t][n] = change.ms ELSE wall[t][n]

Writes(t) == \E i \in 1 .. Len(program[t]) : program[t][i].op # "now"

\* The only thread that sets and clears the override gets from now_ms exactly
\* what it set, and the wall clock after a clear, whoever else reads it
\* (set_clock_override, lib.rs:78-79; the round trip of lib.rs:106-116).
SoleWriterObeyed ==
  \A t \in Threads :
    (\A u \in Threads \ {t} : ~Writes(u)) =>
      \A n \in 1 .. Len(results[t]) : AsProgrammed(t, n)

=============================================================================
