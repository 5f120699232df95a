--------------------------- MODULE UlidGenerator ---------------------------
(***************************************************************************)
(* UlidGenerator of the Node binding (src/lib.rs): a MonotonicState behind *)
(* the mutex `mono` and, in deterministic mode, a DeterministicRng behind  *)
(* the mutex `det`.  One generator, called from several threads:           *)
(*                                                                         *)
(*   next, next_many              take det only (and nothing when secure)  *)
(*   monotonic, monotonic_many    take mono, then det                      *)
(*                                                                         *)
(* The *_many methods hold what they take until the whole batch is done.   *)
(* Two words of the deterministic stream make one random part.  The word   *)
(* stream is modelled by its positions: `stream` words are used up.        *)
(***************************************************************************)
EXTENDS MonotonicState

CONSTANTS
  MAX_BATCH,      \* Largest accepted count.
  NoCaller,       \* Nobody holds the mutex.
  Default         \* The argument of a call without a timestamp.

ASSUME UlidGeneratorAssumption ==
  /\ MAX_BATCH \in Nat
  /\ NoCaller \notin Callers
  /\ Default \notin Nat

VARIABLES
  deterministic,  \* Was the constructor given a seed, is there a det?
  mono,       \* Who holds the mutex of the MonotonicState.
  det,        \* Who holds the mutex of the DeterministicRng.
  at,         \* Where each caller is.
  op,         \* The method it called.
  arg,        \* The timestamp it passed, or Default.
  left,       \* How many identifiers its call still has to make.
  stream,     \* Words drawn from the deterministic stream so far.
  promised,   \* Identifiers asked for so far (bounded by MaxCalls).
  words,      \* History: the words next or next_many has drawn, in order.
  places      \* History: the positions in `out` its monotonic call was given.

genVars == << mono, det, at, op, arg, left, stream, promised, words, places >>
allVars == << vars, genVars, deterministic >>

Plain   == {"next", "next_many"}
Chained == {"monotonic", "monotonic_many"}
Many    == {"next_many", "monotonic_many"}

GenInit ==
  /\ Init
  /\ deterministic \in BOOLEAN
  /\ mono = NoCaller
  /\ det = NoCaller
  /\ at = [c \in Callers |-> "outside"]
  /\ op = [c \in Callers |-> "next"]
  /\ arg = [c \in Callers |-> Default]
  /\ left = [c \in Callers |-> 0]
  /\ stream = 0
  /\ promised = 0
  /\ words = [c \in Callers |-> << >>]
  /\ places = [c \in Callers |-> << >>]

Move(c, from, to) ==
  /\ at[c] = from
  /\ at' = [at EXCEPT ![c] = to]

\* explicit_ts: an integer from 0 to TIME_MAX, or no argument.
explicit_ts(a) == a \in Timestamps \cup {Default}

\* The mutexes c holds are free again; those it does not hold stay.
Release(c) ==
  /\ mono' = IF mono = c THEN NoCaller ELSE mono
  /\ det' = IF det = c THEN NoCaller ELSE det

\* Where a call of method m goes once its arguments are accepted.
FirstStation(m) ==
  CASE m \in Chained -> "mono"
    [] m \in Plain /\ deterministic -> "det"
    [] OTHER -> "turn"

\* A method is called with a count (1 for the single ones) and a timestamp.
\* A bad count, or a bad timestamp in next, is refused before any mutex is
\* taken: the call returns at once and nothing changes but the budget.
Invoke(c, m, n, a) ==
  /\ at[c] = "outside"
  /\ m \notin Many => n = 1
  /\ m \in Many => a = Default
  /\ promised + n + 1 <= MaxCalls
  /\ promised' = promised + n + 1
  /\ op' = [op EXCEPT ![c] = m]
  /\ arg' = [arg EXCEPT ![c] = a]
  /\ words' = [words EXCEPT ![c] = << >>]
  /\ places' = [places EXCEPT ![c] = << >>]
  /\ IF n <= MAX_BATCH /\ (m = "next" => explicit_ts(a))
       THEN /\ left' = [left EXCEPT ![c] = n]
            /\ at' = [at EXCEPT ![c] = FirstStation(m)]
       ELSE UNCHANGED << left, at >>
  /\ UNCHANGED << vars, mono, det, stream >>

\* Mutant: the state is used without its mutex.
LockMono_Unlocked(c) ==
  /\ mono' = c
  /\ Move(c, "mono", "check")
  /\ UNCHANGED << vars, det, op, arg, left, stream, promised, words, places >>

\* lock_recover(&self.mono)
LockMono(c) ==
  /\ mono = NoCaller
  /\ mono' = c
  /\ Move(c, "mono", "check")
  /\ UNCHANGED << vars, det, op, arg, left, stream, promised, words, places >>

\* Mutant: the refused call keeps the mutex.
Check_KeepsLock(c) ==
  /\ Move(c, "check", IF explicit_ts(arg[c])
                        THEN IF deterministic THEN "det" ELSE "turn"
                        ELSE "outside")
  /\ UNCHANGED << vars, mono, det, op, arg, left, stream, promised, words, places >>

\* monotonic validates its timestamp with the mutex of the state held; the
\* error drops the guard.
Check(c) ==
  /\ IF explicit_ts(arg[c])
       THEN /\ Move(c, "check", IF deterministic THEN "det" ELSE "turn")
            /\ UNCHANGED mono
       ELSE /\ Move(c, "check", "outside")
            /\ mono' = NoCaller
  /\ UNCHANGED << vars, det, op, arg, left, stream, promised, words, places >>

\* Mutant: next and next_many draw without the mutex.
LockDet_OnlyChained(c) ==
  /\ det = NoCaller \/ op[c] \in Plain
  /\ det' = c
  /\ Move(c, "det", "turn")
  /\ UNCHANGED << vars, mono, op, arg, left, stream, promised, words, places >>

\* lock_recover(det)
LockDet(c) ==
  /\ det = NoCaller
  /\ det' = c
  /\ Move(c, "det", "turn")
  /\ UNCHANGED << vars, mono, op, arg, left, stream, promised, words, places >>

-----------------------------------------------------------------------------
(* One turn of the loop over the batch; a single call is a batch of one.   *)

\* The next plain identifier: hi, then lo from the stream; a secure
\* generator draws from the thread-local pool, which is not shared.
DrawHi(c) ==
  /\ op[c] \in Plain /\ deterministic /\ left[c] > 0
  /\ Move(c, "turn", "lo")
  /\ words' = [words EXCEPT ![c] = Append(@, stream)]
  /\ stream' = stream + 1
  /\ UNCHANGED << vars, mono, det, op, arg, left, promised, places >>

DrawLo(c) ==
  /\ Move(c, "lo", "turn")
  /\ words' = [words EXCEPT ![c] = Append(@, stream)]
  /\ stream' = stream + 1
  /\ left' = [left EXCEPT ![c] = @ - 1]
  /\ UNCHANGED << vars, mono, det, op, arg, promised, places >>

DrawSecure(c) ==
  /\ op[c] \in Plain /\ ~deterministic /\ left[c] > 0
  /\ at[c] = "turn"
  /\ left' = [left EXCEPT ![c] = @ - 1]
  /\ UNCHANGED << vars, mono, det, at, op, arg, stream, promised, words, places >>

\* The next monotonic identifier: every turn reads the clock anew.
Enter(c) ==
  /\ op[c] \in Chained /\ left[c] > 0
  /\ Move(c, "turn", "inside")
  /\ Call(c, IF arg[c] = Default THEN clock ELSE arg[c])
  /\ UNCHANGED << mono, det, op, arg, left, stream, promised, words, places >>

Advance(c) ==
  /\ at[c] = "inside"
  /\ NewMillisecond(c) \/ Exhausted(c) \/ SpinExit(c) \/ Reread(c)
  /\ UNCHANGED genVars

\* advance returns; a fresh random part took two words of the stream.
Encode(c) ==
  /\ Move(c, "inside", "turn")
  /\ \/ Increment(c) /\ UNCHANGED stream
     \/ /\ \E r \in Randomnesses : Draw(c, r)
        /\ stream' = IF deterministic THEN stream + 2 ELSE stream
  /\ places' = [places EXCEPT ![c] = Append(@, Len(out'))]
  /\ left' = [left EXCEPT ![c] = @ - 1]
  /\ UNCHANGED << mono, det, op, arg, promised, words >>

\* Mutant: the batch gives the mutex of the state up between two
\* identifiers.
Done_LocksPerItem(c) ==
  /\ \/ left[c] = 0 /\ Move(c, "turn", "outside")
     \/ left[c] > 0 /\ op[c] = "monotonic_many" /\ places[c] # << >>
        /\ Move(c, "turn", "mono")
  /\ Release(c)
  /\ UNCHANGED << vars, op, arg, left, stream, promised, words, places >>

\* The batch is complete: the guards drop and the call returns.
Done(c) ==
  /\ left[c] = 0
  /\ Move(c, "turn", "outside")
  /\ Release(c)
  /\ UNCHANGED << vars, op, arg, left, stream, promised, words, places >>

\* The draw of a plain identifier panics: no mutex is held, the batch is lost.
UnwindPlain(c) ==
  /\ DrawPanics /\ ~deterministic
  /\ op[c] \in Plain /\ left[c] > 0
  /\ Move(c, "turn", "outside")
  /\ left' = [left EXCEPT ![c] = 0]
  /\ UNCHANGED << vars, mono, det, op, arg, stream, promised, words, places >>

\* The draw of a monotonic one panics and the guards drop; lock_recover takes
\* the poisoned mutexes like any other.  Only the secure generator's draw can.
Unwind(c) ==
  /\ ~deterministic
  /\ DrawPanic(c)
  /\ Move(c, "inside", "outside")
  /\ Release(c)
  /\ left' = [left EXCEPT ![c] = 0]
  /\ UNCHANGED << op, arg, stream, promised, words, places >>

Step(c) ==
  \/ LockMono(c) \/ Check(c) \/ LockDet(c)
  \/ DrawHi(c) \/ DrawLo(c) \/ DrawSecure(c)
  \/ Enter(c) \/ Advance(c) \/ Encode(c)
  \/ Done(c) \/ UnwindPlain(c) \/ Unwind(c)

GenNext ==
  /\ \/ (Tick \/ StepBack) /\ UNCHANGED genVars
     \/ \E c \in Callers, m \in Plain \cup Chained, n \in 0 .. MAX_BATCH + 1,
           a \in SeedTimes \cup {Default} : Invoke(c, m, n, a)
     \/ \E c \in Callers : Step(c)
  /\ UNCHANGED deterministic

GenSpec == GenInit /\ [][GenNext]_allVars

\* As for SharedMonotonic: threads are scheduled, the clock runs, calls are
\* finitely many.
GenFairSpec ==
  /\ GenSpec
  /\ WF_allVars(Tick /\ UNCHANGED << genVars, deterministic >>)
  /\ <>[][~StepBack]_allVars
  /\ \A c \in Callers : WF_allVars(Step(c) /\ UNCHANGED deterministic)

-----------------------------------------------------------------------------
(* Properties.                                                             *)

\* The generator as its callers should see it: exclusively borrowed, and
\* never asked for a time an identifier cannot hold.
Core == INSTANCE MonotonicState WITH SeedTimes <- SeedTimes \cap Timestamps

\* Across the two mutexes, the batches and the refused arguments the object
\* implements that generator.
CoreSpec == Core!Spec

Consecutive(s) == \A i \in 1 .. Len(s) : s[i] = s[1] + i - 1

\* A monotonic_many batch is not interleaved with other monotonic calls:
\* its identifiers are neighbours in the generator's stream ("under a
\* single lock acquisition", src/lib.rs:783-786).
BatchContiguous == \A c \in Callers : Consecutive(places[c])

\* The words of a plain call are one block of the deterministic stream and
\* start at a pair: no identifier mixes words with another call's, so the
\* sequence a seed produces does not depend on the scheduling of threads
\* (src/lib.rs:745-747, "deterministic mode stays reproducible").
WordsContiguous ==
  \A c \in Callers :
    /\ Consecutive(words[c])
    /\ words[c] # << >> => words[c][1] % 2 = 0

\* Every call returns: the order mono, then det, cannot deadlock, and a
\* refused timestamp gives the mutex back.
EveryCallReturns == \A c \in Callers : at[c] # "outside" ~> at[c] = "outside"

=============================================================================
