------------------------------ MODULE Batches ------------------------------
(***************************************************************************)
(* Batch generation: crates/core/src/batch.rs and uuidv7.rs behind         *)
(* generateMany, generateInto and generateUuidV7Many of src/lib.rs.  A     *)
(* call reads the clock once, then draws two words for each identifier     *)
(* from the secure generator, which may panic at any draw.  generateMany   *)
(* collects strings and returns them at the end; generateInto writes each  *)
(* block into the caller's buffer as soon as it has it.                    *)
(*                                                                         *)
(* Of an identifier the model keeps its timestamp; the two words become    *)
(* its other bits, which no step looks at again.                           *)
(***************************************************************************)
EXTENDS Integers, Sequences

CONSTANTS
  Threads,      \* Threads that generate, each with a generator of its own.
  BLOCK,        \* Bytes of an identifier (16 in the code).
  MAX_BATCH,    \* The largest count a call may ask for.
  Counts,       \* Counts that are asked for.
  Lengths,      \* Lengths of the buffers that are passed, in bytes.
  Panics,       \* May a draw panic?
  ClockMax,     \* Bound on the clock.
  MaxCalls      \* Bound on the calls of a thread.

BatchesAssumption ==
  /\ BLOCK \in Nat \ {0} /\ MAX_BATCH \in Nat
  /\ Counts \subseteq Nat /\ Lengths \subseteq Nat
  /\ Panics \in BOOLEAN /\ ClockMax \in Nat /\ MaxCalls \in Nat

VARIABLES
  clock,        \* The wall clock; it does not step back here.
  kind,         \* kind[t]: "many" or "into", the call t is in or made last.
  ts,           \* ts[t]: the timestamp the call captured.
  at,           \* at[t]: outside, or about to draw the first or second word.
  done,         \* done[t]: identifiers the call has completed.
  length,       \* length[t]: bytes of the caller's buffer, or of the result.
  buffer,       \* buffer[t]: what the caller sees or will get, by identifier.
  outcome,      \* outcome[t]: how the last call of t ended.
  began,        \* began[t]: the clock when the call began.
  calls         \* calls[t]: calls made.

vars == << clock, kind, ts, at, done, length, buffer, outcome, began, calls >>

Old == -1    \* Bytes the call has not written.
Torn == -2   \* Bytes of a block half written.

Init ==
  /\ clock = 0
  /\ kind = [t \in Threads |-> "many"]
  /\ ts = [t \in Threads |-> 0]
  /\ at = [t \in Threads |-> "outside"]
  /\ done = [t \in Threads |-> 0]
  /\ length = [t \in Threads |-> 0]
  /\ buffer = [t \in Threads |-> << >>]
  /\ outcome = [t \in Threads |-> "none"]
  /\ began = [t \in Threads |-> 0]
  /\ calls = [t \in Threads |-> 0]

Tick ==
  /\ clock < ClockMax
  /\ clock' = clock + 1
  /\ UNCHANGED << kind, ts, at, done, buffer, outcome, began, length, calls >>

-----------------------------------------------------------------------------
Blank(n) == [i \in 1 .. n |-> Old]

\* A call of kind k begins with room for n identifiers, or is refused.
Invoke(t, k, n, len, accepted) ==
  /\ at[t] = "outside" /\ calls[t] < MaxCalls
  /\ calls' = [calls EXCEPT ![t] = @ + 1]
  /\ kind' = [kind EXCEPT ![t] = k]
  /\ began' = [began EXCEPT ![t] = clock]
  /\ length' = [length EXCEPT ![t] = len]
  /\ buffer' = [buffer EXCEPT ![t] = Blank(n)]
  /\ done' = [done EXCEPT ![t] = 0]
  /\ IF accepted THEN at' = [at EXCEPT ![t] = "clock"] /\ UNCHANGED outcome
                 ELSE outcome' = [outcome EXCEPT ![t] = "refused"] /\ UNCHANGED at
  /\ UNCHANGED << clock, ts >>

generate_many(t) == \E n \in Counts : Invoke(t, "many", n, n * BLOCK, n <= MAX_BATCH)

\* validate_block_len comes before anything is written.
generate_into(t) ==
  \E len \in Lengths : Invoke(t, "into", len \div BLOCK, len, len % BLOCK = 0)

\* now_ms(), once for the batch.
Capture(t) ==
  /\ at[t] = "clock"
  /\ ts' = [ts EXCEPT ![t] = clock]
  /\ at' = [at EXCEPT ![t] = "hi"]
  /\ UNCHANGED << clock, kind, done, buffer, outcome, began, length, calls >>

\* Mutant: the first word is written before the second is drawn.
DrawHi_Writes(t) ==
  /\ at[t] = "hi" /\ done[t] < Len(buffer[t])
  /\ at' = [at EXCEPT ![t] = "lo"]
  /\ buffer' = [buffer EXCEPT ![t][done[t] + 1] = Torn]
  /\ UNCHANGED << clock, kind, ts, done, outcome, began, length, calls >>

DrawHi(t) ==
  /\ at[t] = "hi" /\ done[t] < Len(buffer[t])
  /\ at' = [at EXCEPT ![t] = "lo"]
  /\ UNCHANGED << clock, kind, ts, done, buffer, outcome, began, length, calls >>

\* Mutant: every identifier is stamped when it is made.
DrawLo_Restamps(t) ==
  /\ at[t] = "lo"
  /\ buffer' = [buffer EXCEPT ![t][done[t] + 1] = clock]
  /\ done' = [done EXCEPT ![t] = @ + 1]
  /\ at' = [at EXCEPT ![t] = "hi"]
  /\ UNCHANGED << clock, kind, ts, outcome, began, length, calls >>

\* The second word completes the block, which is stored whole.
DrawLo(t) ==
  /\ at[t] = "lo"
  /\ buffer' = [buffer EXCEPT ![t][done[t] + 1] = ts[t]]
  /\ done' = [done EXCEPT ![t] = @ + 1]
  /\ at' = [at EXCEPT ![t] = "hi"]
  /\ UNCHANGED << clock, kind, ts, outcome, began, length, calls >>

\* Either draw panics: the collected strings are dropped, the caller's buffer
\* keeps what was written.
DrawPanic(t) ==
  /\ Panics
  /\ at[t] = "lo" \/ (at[t] = "hi" /\ done[t] < Len(buffer[t]))
  /\ at' = [at EXCEPT ![t] = "outside"]
  /\ outcome' = [outcome EXCEPT ![t] = "panicked"]
  /\ buffer' = [buffer EXCEPT ![t] = IF kind[t] = "many" THEN << >> ELSE @]
  /\ UNCHANGED << clock, kind, ts, done, began, length, calls >>

Return(t) ==
  /\ at[t] = "hi" /\ done[t] = Len(buffer[t])
  /\ at' = [at EXCEPT ![t] = "outside"]
  /\ outcome' = [outcome EXCEPT ![t] = "ok"]
  /\ UNCHANGED << clock, kind, ts, done, buffer, began, length, calls >>

Step(t) == \/ generate_many(t) \/ generate_into(t) \/ Capture(t)
           \/ DrawHi(t) \/ DrawLo(t) \/ DrawPanic(t) \/ Return(t)

Next == Tick \/ \E t \in Threads : Step(t)

Spec == Init /\ [][Next]_vars

-----------------------------------------------------------------------------
(* Properties.                                                             *)

Returned(t) == at[t] = "outside" /\ outcome[t] = "ok"

\* A call that returns has filled everything it was given, to the last byte,
\* with identifiers of one millisecond that the call lived through ("All IDs
\* share the batch's single captured timestamp", batch.rs:89).
OneMillisecond ==
  \A t \in Threads : Returned(t) =>
    /\ Len(buffer[t]) * BLOCK = length[t]
    /\ \E ms \in began[t] .. clock : \A i \in 1 .. Len(buffer[t]) : buffer[t][i] = ms

\* A caller's buffer holds identifiers written whole, then bytes that were
\* left alone, at any moment and after a draw panicked or a length was
\* refused (fill_ulid_with_ts, batch.rs:77-85).
WholeBlocks ==
  \A t \in Threads :
    /\ Torn \notin { buffer[t][i] : i \in 1 .. Len(buffer[t]) }
    /\ \A i, j \in 1 .. Len(buffer[t]) : i < j /\ buffer[t][i] = Old => buffer[t][j] = Old

=============================================================================
