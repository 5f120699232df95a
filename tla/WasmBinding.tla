---------------------------- MODULE WasmBinding ----------------------------
(***************************************************************************)
(* The monotonic stream of the WebAssembly binding (crates/wasm/src/lib.rs).*)
(* There is one thread, and JavaScript runs nothing else until a call      *)
(* returns; only the host's clock moves meanwhile.  The engine never reads *)
(* that clock: now_ms() returns what sync_clock() last stored, the         *)
(* variable `clock` of MonotonicState, or traps if nothing was stored yet. *)
(* Some entry points call sync_clock(); monotonicUlid does not, it passes  *)
(* Date.now() as an argument.                                              *)
(***************************************************************************)
EXTENDS MonotonicState

CONSTANTS
  Js,         \* The only caller.
  NoAnswer,   \* No call has been answered yet, or one is running.
  Fraction    \* A seedTime that is no non-negative integer.

ASSUME WasmBindingAssumption ==
  /\ Callers = {Js}
  /\ Fraction \notin Nat
  /\ NoAnswer \notin {"id", "error", "trap"}

VARIABLES
  date,       \* Date.now()
  active,     \* CLOCK_OVERRIDE_ACTIVE
  borrowed,   \* Is the RefCell of the stream's state borrowed?
  arg,        \* The timestamp of the last call of monotonicUlid.
  answer,     \* How it ended: "id", "error" or "trap".
  asked       \* History: Date.now() when it began, 0 if it had a seedTime.

wasmVars == << date, active, borrowed, arg, answer, asked >>
allVars == << vars, wasmVars >>

WasmInit ==
  /\ Init
  /\ clock = 0
  /\ date \in 0 .. FreeClock
  /\ active = FALSE
  /\ borrowed = FALSE
  /\ arg = 0
  /\ answer = NoAnswer
  /\ asked = 0

\* The host's clock advances, and is set back.
DateTick ==
  /\ date < MaxClock
  /\ date' = date + 1
  /\ UNCHANGED << vars, active, borrowed, arg, answer, asked >>

DateBack ==
  /\ \E t \in 0 .. MaxClock : t < date /\ date' = t
  /\ UNCHANGED << vars, active, borrowed, arg, answer, asked >>

\* JavaScript is running, not the engine.
Idle == pc[Js] = "idle"

\* sync_clock(): the two atomics of the override.
sync_clock ==
  /\ clock' = date
  /\ active' = TRUE

\* ulidBytes, generateMany, generateBytes, uuidv7, uuidv7Bytes and
\* generateUuidV7Many: they set the override and generate with it.
Synced ==
  /\ Idle
  /\ sync_clock
  /\ UNCHANGED << last_ms, last_rand, pc, now, calls, out,
                  date, borrowed, arg, answer, asked >>

\* Mutant: monotonicUlid stamps the override, stale or never set.
resolve_ts_Engine(t) == IF t = NoAnswer THEN clock ELSE t

\* resolve_ts: no argument means Date.now().
resolve_ts(t) == IF t = NoAnswer THEN date ELSE t

\* monotonicUlid(t) with the state free.
Enter(t) ==
  /\ t # Fraction
  /\ ~borrowed
  /\ Call(Js, resolve_ts(t))
  /\ borrowed' = TRUE
  /\ arg' = resolve_ts(t)
  /\ asked' = IF t = NoAnswer THEN date ELSE 0
  /\ answer' = NoAnswer
  /\ UNCHANGED << date, active >>

\* resolve_ts refuses the argument.
Refuse(t) ==
  /\ Idle
  /\ t = Fraction
  /\ answer' = "error"
  /\ UNCHANGED << vars, date, active, borrowed, arg, asked >>

\* A panic of an earlier call left the RefCell borrowed: borrow_mut panics.
AlreadyBorrowed(t) ==
  /\ Idle
  /\ t # Fraction
  /\ borrowed
  /\ arg' = resolve_ts(t)
  /\ answer' = "trap"
  /\ asked' = 0
  /\ UNCHANGED << vars, date, active, borrowed >>

Advance ==
  /\ NewMillisecond(Js) \/ Exhausted(Js) \/ Reread(Js)
  /\ UNCHANGED wasmVars

\* now_ms() returns the override.
SpinEnds ==
  /\ active
  /\ SpinExit(Js)
  /\ UNCHANGED wasmVars

\* next_secure_at returns; the borrow ends.
Encode ==
  /\ Increment(Js) \/ \E r \in Randomnesses : Draw(Js, r)
  /\ borrowed' = FALSE
  /\ answer' = "id"
  /\ UNCHANGED << date, active, arg, asked >>

\* A panic ends the call without unwinding: no guard is dropped.
Trapped ==
  /\ answer' = "trap"
  /\ UNCHANGED << date, active, borrowed, arg, asked >>

DrawTraps == DrawPanic(Js) /\ Trapped

\* now_ms() reads SystemTime, which this platform does not have.
ClockTraps ==
  /\ ~active
  /\ Go(Js, "spin", "idle")
  /\ UNCHANGED << last_ms, last_rand, clock, now, calls, out >>
  /\ Trapped

Engine == Advance \/ SpinEnds \/ Encode \/ DrawTraps \/ ClockTraps

monotonicUlid ==
  \E t \in SeedTimes \cup {NoAnswer, Fraction} :
    Enter(t) \/ Refuse(t) \/ AlreadyBorrowed(t)

WasmNext == DateTick \/ DateBack \/ Synced \/ monotonicUlid \/ Engine

WasmSpec == WasmInit /\ [][WasmNext]_allVars

-----------------------------------------------------------------------------
(* Properties.                                                             *)

\* An identifier made without a seedTime is never stamped earlier than
\* Date.now() was when the call began, however stale the override is and
\* however far the host's clock was set back (`monotonic_ulid` passes
\* resolve_ts, crates/wasm/src/lib.rs:79-86).
HostTimeRespected ==
  [][answer # "id" /\ answer' = "id"
       => timestamp_ms(out'[Len(out')]) >= asked]_allVars

\* A timestamp that an identifier cannot hold makes no identifier: "Overflow
\* past TIME_MAX is rejected by the engine itself and surfaced as a JS error"
\* (resolve_ts, crates/wasm/src/lib.rs:38-40).
OverflowRejected == arg > TIME_MAX => answer # "id"

=============================================================================
