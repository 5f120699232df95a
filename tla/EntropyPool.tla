---------------------------- MODULE EntropyPool ----------------------------
(***************************************************************************)
(* The thread-local pool of random words behind ulid(), ulidBytes() and    *)
(* ksuid() (crates/core/src/rng.rs, next_pooled).  A word is a token: 0 is *)
(* the zero a pool is created with, and the secure generator hands out     *)
(* 1, 2, 3, ... so that two draws of one token are one random value used   *)
(* twice.                                                                  *)
(***************************************************************************)
EXTENDS Integers, Sequences

CONSTANTS
  Threads,
  PoolSize,      \* Words in a pool (32 in the code).
  MaxFresh,      \* Bound: tokens the secure generator hands out.
  FillPanics     \* May rand::rng().fill panic?

ASSUME EntropyPoolAssumption ==
  /\ PoolSize \in Nat \ {0}
  /\ MaxFresh \in Nat
  /\ FillPanics \in BOOLEAN

VARIABLES
  idx,      \* EntropyPool.idx of each thread's pool.
  words,    \* EntropyPool.words of each thread's pool.
  fresh,    \* Tokens the secure generator has handed out.
  served    \* History: the words next_pooled returned, in all threads.

vars == << idx, words, fresh, served >>

Slots == 1 .. PoolSize

Zeros == [s \in Slots |-> 0]

\* A new thread's pool claims to be used up.
NewPool(t) ==
  /\ idx' = [idx EXCEPT ![t] = PoolSize]
  /\ words' = [words EXCEPT ![t] = Zeros]

Init ==
  /\ idx = [t \in Threads |-> PoolSize]
  /\ words = [t \in Threads |-> Zeros]
  /\ fresh = 0
  /\ served = << >>

\* A pool w whose first n slots were overwritten with new tokens.
Filled(w, n) == [s \in Slots |-> IF s <= n THEN fresh + s ELSE w[s]]

\* The next word of the pool.
Serve(t) ==
  /\ idx[t] < PoolSize
  /\ served' = Append(served, words[t][idx[t] + 1])
  /\ idx' = [idx EXCEPT ![t] = @ + 1]
  /\ UNCHANGED << words, fresh >>

\* Mutant: the index is not reset after the fill.
RefillAndServe_NoReset(t) ==
  /\ idx[t] = PoolSize
  /\ fresh + PoolSize <= MaxFresh
  /\ words' = [words EXCEPT ![t] = Filled(@, PoolSize)]
  /\ fresh' = fresh + PoolSize
  /\ served' = Append(served, words'[t][1])
  /\ idx' = [idx EXCEPT ![t] = @ + 1]

\* The pool is used up: it is filled, and its first word returned.
RefillAndServe(t) ==
  /\ idx[t] = PoolSize
  /\ fresh + PoolSize <= MaxFresh
  /\ words' = [words EXCEPT ![t] = Filled(@, PoolSize)]
  /\ fresh' = fresh + PoolSize
  /\ served' = Append(served, words'[t][1])
  /\ idx' = [idx EXCEPT ![t] = 1]

\* Mutant: the index is reset before the fill.
RefillPanic_ResetFirst(t) ==
  /\ FillPanics
  /\ idx[t] = PoolSize
  /\ \E n \in 0 .. PoolSize - 1 :
       /\ fresh + n <= MaxFresh
       /\ words' = [words EXCEPT ![t] = Filled(@, n)]
       /\ fresh' = fresh + n
  /\ idx' = [idx EXCEPT ![t] = 0]
  /\ UNCHANGED served

\* The fill panics, however far it came: the index still says used up, and
\* the borrow of the pool ends with the unwinding.
RefillPanic(t) ==
  /\ FillPanics
  /\ idx[t] = PoolSize
  /\ \E n \in 0 .. PoolSize - 1 :
       /\ fresh + n <= MaxFresh
       /\ words' = [words EXCEPT ![t] = Filled(@, n)]
       /\ fresh' = fresh + n
  /\ UNCHANGED << idx, served >>

\* A thread ends and another starts in its place, with a pool of its own.
Respawn(t) == NewPool(t) /\ UNCHANGED << fresh, served >>

next_pooled(t) == Serve(t) \/ RefillAndServe(t) \/ RefillPanic(t)

Next == \E t \in Threads : next_pooled(t) \/ Respawn(t)

Spec == Init /\ [][Next]_vars

-----------------------------------------------------------------------------
(* Properties.                                                             *)

TypeOK ==
  /\ idx \in [Threads -> 0 .. PoolSize]
  /\ words \in [Threads -> [Slots -> Nat]]
  /\ fresh \in Nat
  /\ served \in Seq(Nat)

\* No random word is ever used for two identifiers, and the zeros of a new
\* pool are used for none, in any thread and after any failed refill
\* (`next_pooled`: idx is reset only after the fill).
NoWordReused ==
  /\ \A i \in 1 .. Len(served) : served[i] # 0
  /\ \A i, j \in 1 .. Len(served) : i # j => served[i] # served[j]

=============================================================================
