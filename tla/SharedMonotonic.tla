-------------------------- MODULE SharedMonotonic --------------------------
(***************************************************************************)
(* The process-wide monotonic generator of the bindings: one               *)
(* MonotonicState behind one mutex, called by every thread of the process  *)
(* (src/lib.rs monotonicUlid, crates/python/src/lib.rs monotonic_ulid).    *)
(*                                                                         *)
(* A call takes the mutex first, then validates its argument, then runs    *)
(* next_secure or next_secure_at with the mutex held, waiting for the next *)
(* millisecond included.  A panic unwinds through the guard: it releases   *)
(* the mutex and poisons it.  A process has loaded one of the two          *)
(* bindings; they differ in what they do with a poisoned mutex and with    *)
(* the argument.                                                           *)
(***************************************************************************)
EXTENDS MonotonicState

CONSTANTS
  NoCaller,         \* Nobody holds the mutex.
  Default,          \* The argument of a call without a timestamp.
  NoAnswer          \* What a caller has before its call returns.

ASSUME SharedMonotonicAssumption ==
  /\ NoCaller \notin Callers
  /\ Default \notin Nat

VARIABLES
  binding,    \* Which binding the process has loaded: "node" or "python".
  holder,     \* Who holds the mutex.
  poisoned,   \* The poison flag of the mutex.
  at,         \* Where each caller is in the binding's function.
  arg,        \* The argument of its call.
  answer,     \* How its last call ended: "id", "error", "panic",
              \* "poisoned", or NoAnswer while it runs.
  place,      \* History: the position in `out` of the identifier it got.
  before,     \* History: the length of `out` when its call began.
  invoked     \* Calls entered so far (bounded by MaxCalls).

lockVars == << holder, poisoned >>
shVars == << holder, poisoned, at, arg, answer, place, before, invoked >>
allVars == << vars, shVars, binding >>

\* lock_recover's into_inner in src/lib.rs; Python's unwrap panics.
RecoversPoison == binding = "node"

\* The Node binding checks its argument; the Python binding takes any u64.
ValidatesTime == binding = "node"

Stations == {"outside", "lock", "validate", "inside"}

SharedInit ==
  /\ Init
  /\ binding \in {"node", "python"}
  /\ holder = NoCaller
  /\ poisoned = FALSE
  /\ at = [c \in Callers |-> "outside"]
  /\ arg = [c \in Callers |-> Default]
  /\ answer = [c \in Callers |-> NoAnswer]
  /\ place = [c \in Callers |-> 0]
  /\ before = [c \in Callers |-> 0]
  /\ invoked = 0

Move(c, from, to) ==
  /\ at[c] = from
  /\ at' = [at EXCEPT ![c] = to]

Finish(c, from, how) ==
  /\ Move(c, from, "outside")
  /\ answer' = [answer EXCEPT ![c] = how]

\* What callers pass.  A timestamp the unchecked binding would truncate is a
\* caller's mistake and left out there.
Arguments == (IF ValidatesTime THEN SeedTimes ELSE SeedTimes \cap Timestamps) \cup {Default}

\* A caller enters the binding.
Invoke(c) ==
  /\ Move(c, "outside", "lock")
  /\ invoked < MaxCalls
  /\ invoked' = invoked + 1
  /\ \E a \in Arguments : arg' = [arg EXCEPT ![c] = a]
  /\ answer' = [answer EXCEPT ![c] = NoAnswer]
  /\ place' = [place EXCEPT ![c] = 0]
  /\ before' = [before EXCEPT ![c] = Len(out)]
  /\ UNCHANGED << vars, lockVars >>

\* Mutant: no mutual exclusion.
Lock_Unlocked(c) ==
  /\ ~poisoned \/ RecoversPoison
  /\ holder' = c
  /\ Move(c, "lock", "validate")
  /\ UNCHANGED << vars, poisoned, arg, answer, place, before, invoked >>

\* Mutant: a poisoned mutex is never taken again.
Lock_NoRecovery(c) ==
  /\ holder = NoCaller
  /\ ~poisoned
  /\ holder' = c
  /\ Move(c, "lock", "validate")
  /\ UNCHANGED << vars, poisoned, arg, answer, place, before, invoked >>

\* Mutant: the poison flag is not looked at, as by a mutex that has none.
Lock_IgnoresPoison(c) ==
  /\ holder = NoCaller
  /\ holder' = c
  /\ Move(c, "lock", "validate")
  /\ UNCHANGED << vars, poisoned, arg, answer, place, before, invoked >>

\* lock_recover: a poisoned mutex hands out its guard all the same.
Lock(c) ==
  /\ holder = NoCaller
  /\ ~poisoned \/ RecoversPoison
  /\ holder' = c
  /\ Move(c, "lock", "validate")
  /\ UNCHANGED << vars, poisoned, arg, answer, place, before, invoked >>

\* lock().unwrap() on a poisoned mutex panics; the guard in the error is
\* dropped at once.
LockPanics(c) ==
  /\ holder = NoCaller
  /\ poisoned /\ ~RecoversPoison
  /\ Finish(c, "lock", "poisoned")
  /\ UNCHANGED << vars, lockVars, arg, place, before, invoked >>

\* Mutant: the range check admits 2^48.
explicit_ts_OffByOne(a) ==
  ValidatesTime => a \in (0 .. TIME_MAX + 1) \cup {Default}

\* explicit_ts: an integer from 0 to TIME_MAX, or no argument.
explicit_ts(a) == ValidatesTime => a \in Timestamps \cup {Default}

\* The argument is refused: the `?` drops the guard.
Refuse(c) ==
  /\ ~explicit_ts(arg[c])
  /\ holder' = NoCaller
  /\ Finish(c, "validate", "error")
  /\ UNCHANGED << vars, poisoned, arg, place, before, invoked >>

\* next_secure_at(t), or next_secure(), which reads the clock here, with
\* the mutex held.
Start(c) ==
  /\ explicit_ts(arg[c])
  /\ Move(c, "validate", "inside")
  /\ Call(c, IF arg[c] = Default THEN clock ELSE arg[c])
  /\ UNCHANGED << lockVars, arg, answer, place, before, invoked >>

\* advance, while it has no identifier to return yet.
Advance(c) ==
  /\ at[c] = "inside"
  /\ NewMillisecond(c) \/ Exhausted(c) \/ SpinExit(c) \/ Reread(c)
  /\ UNCHANGED shVars

\* advance returns and next_with encodes the identifier.
Encode(c) ==
  /\ at[c] = "inside"
  /\ Increment(c) \/ \E r \in Randomnesses : Draw(c, r)
  /\ place' = [place EXCEPT ![c] = Len(out')]
  /\ UNCHANGED << lockVars, at, arg, answer, before, invoked >>

\* The identifier is there: the guard drops and the call returns.
Unlock(c) ==
  /\ pc[c] = "idle"
  /\ holder' = NoCaller
  /\ Finish(c, "inside", "id")
  /\ UNCHANGED << vars, poisoned, arg, place, before, invoked >>

\* Mutant: the guard is leaked when the draw panics.
Unwind_KeepsLock(c) ==
  /\ DrawPanic(c)
  /\ Finish(c, "inside", "panic")
  /\ UNCHANGED << lockVars, arg, place, before, invoked >>

\* The draw panics: the guard is dropped while unwinding.
Unwind(c) ==
  /\ DrawPanic(c)
  /\ holder' = NoCaller
  /\ poisoned' = TRUE
  /\ Finish(c, "inside", "panic")
  /\ UNCHANGED << arg, place, before, invoked >>

Step(c) ==
  \/ Lock(c) \/ LockPanics(c) \/ Refuse(c) \/ Start(c)
  \/ Advance(c) \/ Encode(c) \/ Unlock(c) \/ Unwind(c)

SharedClock == (Tick \/ StepBack) /\ UNCHANGED shVars

SharedNext ==
  /\ SharedClock \/ \E c \in Callers : Invoke(c) \/ Step(c)
  /\ UNCHANGED binding

SharedSpec == SharedInit /\ [][SharedNext]_allVars

\* Threads are scheduled and the clock runs; calls are finitely many, so a
\* thread that waits for the mutex needs no stronger fairness.
SharedFairSpec ==
  /\ SharedSpec
  /\ WF_allVars(Tick /\ UNCHANGED << shVars, binding >>)
  /\ <>[][~StepBack]_allVars
  /\ \A c \in Callers : WF_allVars(Step(c) /\ UNCHANGED binding)

-----------------------------------------------------------------------------
(* Properties.                                                             *)

\* The generator as its callers should see it: exclusively borrowed (`&mut
\* self`), and never asked for a time an identifier cannot hold.
Core == INSTANCE MonotonicState WITH SeedTimes <- SeedTimes \cap Timestamps

\* The mutex and explicit_ts, which every call passes through, make the
\* binding an implementation of that generator.
CoreSpec == Core!Spec

\* Identifiers respect real time: a call that begins after another one
\* returned, in whatever thread, gets a larger identifier ("strictly
\* increasing across successive calls within this process", src/lib.rs:173).
RealTimeOrder ==
  \A c \in Callers : place[c] # 0 =>
    /\ place[c] > before[c]
    /\ \A i \in 1 .. place[c] - 1 : out[i] < out[place[c]]

\* Where poison is not recovered from, no identifier is ever made of a state
\* that a panic left half updated (crates/python/src/lib.rs:32).
NoIdFromTornState ==
  [][poisoned /\ ~RecoversPoison => UNCHANGED << last_ms, last_rand, out >>]_allVars

\* Where it is, a poisoned mutex never wedges the process
\* (src/lib.rs:133-137): a call with a valid argument gets its identifier
\* unless its own draw panics.
ValidCallsServed ==
  \A c \in Callers :
    RecoversPoison /\ at[c] = "lock" /\ explicit_ts(arg[c])
      ~> at[c] = "outside" /\ answer[c] \in {"id", "panic"}

\* Every call returns, refused and failed ones too.
EveryCallReturns == \A c \in Callers : at[c] # "outside" ~> at[c] = "outside"

=============================================================================
