------------------------- MODULE EntropyPool_proofs -------------------------
(***************************************************************************)
(* No random word is used twice: a proof for every set of threads and every*)
(* pool size.  The words still to be handed out, those above the index of  *)
(* a pool, must be new to everybody: to the words already served, to the   *)
(* other pools, and to the rest of their own pool.                         *)
(***************************************************************************)
EXTENDS EntropyPool, TLAPS

\* Slot s of t's pool has a word that next_pooled will hand out.
Live(t, s) == s > idx[t]

\* A live word is one the secure generator has produced, never a zero.
LiveIsFresh ==
  \A t \in Threads, s \in Slots : Live(t, s) => words[t][s] \in 1 .. fresh

\* No word is live in two places.
LiveIsUnique ==
  \A t, u \in Threads : \A r, s \in Slots :
    Live(t, r) /\ Live(u, s) /\ words[t][r] = words[u][s] => t = u /\ r = s

\* A word that was served is one the generator produced, and is not live.
ServedIsFresh ==
  \A i \in 1 .. Len(served) : served[i] \in 1 .. fresh

ServedIsGone ==
  \A i \in 1 .. Len(served) : \A t \in Threads, s \in Slots :
    Live(t, s) => words[t][s] # served[i]

ServedIsUnique ==
  \A i, j \in 1 .. Len(served) : served[i] = served[j] => i = j

IInv ==
  /\ TypeOK
  /\ LiveIsFresh
  /\ LiveIsUnique
  /\ ServedIsFresh
  /\ ServedIsGone
  /\ ServedIsUnique

-----------------------------------------------------------------------------
(* What Append does to a sequence of words.                                *)
LEMMA AppendWord ==
  ASSUME NEW s \in Seq(Nat), NEW w \in Nat
  PROVE  /\ Append(s, w) \in Seq(Nat)
         /\ Len(s) \in Nat
         /\ Len(Append(s, w)) = Len(s) + 1
         /\ \A i \in 1 .. Len(s) : Append(s, w)[i] = s[i] /\ s[i] \in Nat
         /\ Append(s, w)[Len(s) + 1] = w
  OBVIOUS

(* The pools of a fresh process have no live word.                         *)
LEMMA InitIInv == Init => IInv
<1> SUFFICES ASSUME Init PROVE IInv
  OBVIOUS
<1> USE EntropyPoolAssumption
<1>1. TypeOK
  BY DEF Init, TypeOK, Zeros, Slots
<1>2. \A t \in Threads, s \in Slots : ~Live(t, s)
  BY DEF Init, Live, Slots
<1>3. Len(served) = 0
  BY DEF Init
<1> QED
  BY <1>1, <1>2, <1>3
     DEF IInv, LiveIsFresh, LiveIsUnique, ServedIsFresh, ServedIsGone, ServedIsUnique

(* Handing out the next word of a pool.                                    *)
LEMMA ServeIInv ==
  ASSUME IInv, NEW t \in Threads, Serve(t) PROVE IInv'
<1> USE EntropyPoolAssumption
<1> DEFINE w == words[t][idx[t] + 1]
<1>1. /\ idx \in [Threads -> 0 .. PoolSize]
      /\ words \in [Threads -> [Slots -> Nat]]
      /\ fresh \in Nat /\ served \in Seq(Nat)
  BY DEF IInv, TypeOK
<1>2. /\ idx[t] \in 0 .. PoolSize - 1
      /\ idx[t] + 1 \in Slots /\ Live(t, idx[t] + 1)
      /\ w \in 1 .. fresh /\ w \in Nat
  BY <1>1 DEF Serve, Slots, Live, IInv, LiveIsFresh
<1>3. /\ served' = Append(served, w)
      /\ idx' = [idx EXCEPT ![t] = @ + 1]
      /\ words' = words /\ fresh' = fresh
  BY DEF Serve
<1> HIDE DEF w
<1>4. /\ served' \in Seq(Nat)
      /\ Len(served) \in Nat
      /\ Len(served') = Len(served) + 1
      /\ \A i \in 1 .. Len(served) : served'[i] = served[i] /\ served[i] \in Nat
      /\ served'[Len(served) + 1] = w
  BY <1>1, <1>2, <1>3, AppendWord
<1>5. \A u \in Threads, s \in Slots :
        Live(u, s)' => Live(u, s) /\ ~(u = t /\ s = idx[t] + 1)
  BY <1>1, <1>2, <1>3 DEF Live, Slots
<1>6. TypeOK'
  BY <1>1, <1>2, <1>3, <1>4 DEF TypeOK, Slots
<1>7. LiveIsFresh'
  BY <1>3, <1>5 DEF IInv, LiveIsFresh
<1>8. LiveIsUnique'
  BY <1>3, <1>5 DEF IInv, LiveIsUnique
<1>9. ServedIsFresh'
  BY <1>2, <1>3, <1>4 DEF IInv, ServedIsFresh
<1>10. ServedIsGone'
  <2> SUFFICES ASSUME NEW i \in 1 .. Len(served'), NEW u \in Threads, NEW s \in Slots, Live(u, s)'
               PROVE  words'[u][s] # served'[i]
    BY DEF ServedIsGone
  <2>1. CASE i \in 1 .. Len(served)
    BY <2>1, <1>3, <1>4, <1>5 DEF IInv, ServedIsGone
  <2>2. CASE i = Len(served) + 1
    BY <2>2, <1>2, <1>3, <1>4, <1>5 DEF IInv, LiveIsUnique, w
  <2> QED
    BY <2>1, <2>2, <1>4
<1>11. ServedIsUnique'
  <2>1. \A i \in 1 .. Len(served) : served[i] # w
    BY <1>2 DEF IInv, ServedIsGone, w
  <2> SUFFICES ASSUME NEW i \in 1 .. Len(served'), NEW j \in 1 .. Len(served'),
                      served'[i] = served'[j]
               PROVE  i = j
    BY DEF ServedIsUnique
  <2>2. CASE i \in 1 .. Len(served) /\ j \in 1 .. Len(served)
    BY <2>2, <1>4 DEF IInv, ServedIsUnique
  <2>3. CASE i = Len(served) + 1 \/ j = Len(served) + 1
    BY <2>1, <2>3, <1>4
  <2> QED
    BY <2>2, <2>3, <1>4
<1> QED
  BY <1>6, <1>7, <1>8, <1>9, <1>10, <1>11 DEF IInv

(* A fill of n slots: the new words are newer than any word there was.     *)
LEMMA FilledWords ==
  ASSUME NEW v \in [Slots -> Nat], NEW n \in 0 .. PoolSize, fresh \in Nat
  PROVE  /\ Filled(v, n) \in [Slots -> Nat]
         /\ \A s \in 1 .. n : Filled(v, n)[s] = fresh + s
  BY EntropyPoolAssumption DEF Filled, Slots

(* A complete refill, and its first word handed out.                       *)
LEMMA RefillIInv ==
  ASSUME IInv, NEW t \in Threads, RefillAndServe(t) PROVE IInv'
<1> USE EntropyPoolAssumption
<1>1. /\ idx \in [Threads -> 0 .. PoolSize]
      /\ words \in [Threads -> [Slots -> Nat]]
      /\ fresh \in Nat /\ served \in Seq(Nat)
  BY DEF IInv, TypeOK
<1>2. /\ words'[t] \in [Slots -> Nat]
      /\ \A s \in Slots : words'[t][s] = fresh + s
      /\ \A u \in Threads : u # t => words'[u] = words[u]
      /\ words' \in [Threads -> [Slots -> Nat]]
  <2>1. words' = [words EXCEPT ![t] = Filled(words[t], PoolSize)]
    BY DEF RefillAndServe
  <2>2. /\ Filled(words[t], PoolSize) \in [Slots -> Nat]
        /\ \A s \in Slots : Filled(words[t], PoolSize)[s] = fresh + s
    <3>1. words[t] \in [Slots -> Nat] /\ PoolSize \in 0 .. PoolSize
      BY <1>1
    <3>2. \A s \in 1 .. PoolSize : Filled(words[t], PoolSize)[s] = fresh + s
      BY <1>1, <3>1, FilledWords
    <3> QED
      BY <1>1, <3>1, <3>2, FilledWords DEF Slots
  <2> QED
    BY <1>1, <2>1, <2>2
<1>3. /\ fresh' = fresh + PoolSize
      /\ idx' = [idx EXCEPT ![t] = 1]
      /\ served' = Append(served, fresh + 1)
      /\ 1 \in Slots
  BY <1>2 DEF RefillAndServe, Slots
<1>4. /\ served' \in Seq(Nat)
      /\ Len(served) \in Nat
      /\ Len(served') = Len(served) + 1
      /\ \A i \in 1 .. Len(served) : served'[i] = served[i] /\ served[i] \in Nat
      /\ served'[Len(served) + 1] = fresh + 1
  BY <1>1, <1>3, AppendWord
<1>5. \A u \in Threads, s \in Slots : Live(u, s)' =>
        \/ u = t /\ s > 1
        \/ u # t /\ Live(u, s)
  BY <1>1, <1>3 DEF Live, Slots
<1>6. TypeOK'
  BY <1>1, <1>2, <1>3, <1>4 DEF TypeOK, Slots
<1>7. LiveIsFresh'
  <2> SUFFICES ASSUME NEW u \in Threads, NEW s \in Slots, Live(u, s)'
               PROVE  words'[u][s] \in 1 .. fresh'
    BY DEF LiveIsFresh
  <2>1. CASE u = t
    <3>1. words'[u][s] = fresh + s
      BY <2>1, <1>2
    <3> QED
      BY <3>1, <1>1, <1>3 DEF Slots
  <2>2. CASE u # t
    <3>1. words'[u][s] = words[u][s] /\ words[u][s] \in 1 .. fresh
      BY <2>2, <1>2, <1>5 DEF IInv, LiveIsFresh
    <3> QED
      BY <3>1, <1>1, <1>3
  <2> QED
    BY <2>1, <2>2
<1>8. LiveIsUnique'
  <2> SUFFICES ASSUME NEW u \in Threads, NEW v \in Threads, NEW r \in Slots, NEW s \in Slots,
                      Live(u, r)', Live(v, s)', words'[u][r] = words'[v][s]
               PROVE  u = v /\ r = s
    BY DEF LiveIsUnique
  <2>1. ASSUME NEW x \in Threads, NEW q \in Slots, Live(x, q)'
        PROVE  \/ x = t /\ words'[x][q] = fresh + q
               \/ x # t /\ Live(x, q) /\ words'[x][q] = words[x][q] /\ words[x][q] \in 1 .. fresh
    BY <2>1, <1>2, <1>5 DEF IInv, LiveIsFresh
  <2>2. \/ u = t /\ words'[u][r] = fresh + r
        \/ u # t /\ Live(u, r) /\ words'[u][r] = words[u][r] /\ words[u][r] \in 1 .. fresh
    BY <2>1
  <2>3. \/ v = t /\ words'[v][s] = fresh + s
        \/ v # t /\ Live(v, s) /\ words'[v][s] = words[v][s] /\ words[v][s] \in 1 .. fresh
    BY <2>1
  <2>4. r \in Int /\ s \in Int /\ r >= 1 /\ s >= 1
    BY DEF Slots
  <2>5. CASE u = t /\ v = t
    BY <2>2, <2>3, <2>4, <2>5, <1>1
  <2>6. CASE u # t /\ v # t
    BY <2>2, <2>3, <2>6 DEF IInv, LiveIsUnique
  <2>7. CASE (u = t /\ v # t) \/ (u # t /\ v = t)
    BY <2>2, <2>3, <2>4, <2>7, <1>1
  <2> QED
    BY <2>5, <2>6, <2>7
<1>9. ServedIsFresh'
  BY <1>1, <1>3, <1>4 DEF IInv, ServedIsFresh
<1>10. ServedIsGone'
  <2> SUFFICES ASSUME NEW i \in 1 .. Len(served'), NEW u \in Threads, NEW s \in Slots, Live(u, s)'
               PROVE  words'[u][s] # served'[i]
    BY DEF ServedIsGone
  <2>1. served'[i] \in 1 .. fresh + 1
    <3>1. CASE i \in 1 .. Len(served)
      <4>1. served[i] \in 1 .. fresh
        BY <3>1 DEF IInv, ServedIsFresh
      <4>2. served'[i] = served[i]
        BY <3>1, <1>4
      <4> QED
        BY <4>1, <4>2, <1>1
    <3>2. CASE i = Len(served) + 1
      <4>1. served'[i] = fresh + 1
        BY <3>2, <1>4
      <4> QED
        BY <4>1, <1>1
    <3> QED
      BY <3>1, <3>2, <1>4
  <2>2. CASE u = t
    BY <2>1, <2>2, <1>1, <1>2, <1>5 DEF Slots
  <2>3. CASE u # t
    <3>1. Live(u, s) /\ words'[u][s] = words[u][s] /\ words[u][s] \in 1 .. fresh
      BY <2>3, <1>2, <1>5 DEF IInv, LiveIsFresh
    <3>2. CASE i \in 1 .. Len(served)
      BY <3>1, <3>2, <1>4 DEF IInv, ServedIsGone
    <3>3. CASE i = Len(served) + 1
      BY <3>1, <3>3, <1>1, <1>4
    <3> QED
      BY <3>2, <3>3, <1>4
  <2> QED
    BY <2>2, <2>3
<1>11. ServedIsUnique'
  <2>1. \A i \in 1 .. Len(served) : served[i] # fresh + 1
    BY <1>1 DEF IInv, ServedIsFresh
  <2> SUFFICES ASSUME NEW i \in 1 .. Len(served'), NEW j \in 1 .. Len(served'),
                      served'[i] = served'[j]
               PROVE  i = j
    BY DEF ServedIsUnique
  <2>2. CASE i \in 1 .. Len(served) /\ j \in 1 .. Len(served)
    BY <2>2, <1>4 DEF IInv, ServedIsUnique
  <2>3. CASE i = Len(served) + 1 \/ j = Len(served) + 1
    BY <2>1, <2>3, <1>4
  <2> QED
    BY <2>2, <2>3, <1>4
<1> QED
  BY <1>6, <1>7, <1>8, <1>9, <1>10, <1>11 DEF IInv

(* A pool that is left used up, whatever its words, has nothing live; the  *)
(* others keep theirs while the generator only moves on.                   *)
LEMMA UsedUpIInv ==
  ASSUME IInv, NEW t \in Threads, TypeOK',
         idx'[t] = PoolSize,
         \A u \in Threads : u # t => idx'[u] = idx[u] /\ words'[u] = words[u],
         fresh' >= fresh, served' = served
  PROVE  IInv'
<1> USE EntropyPoolAssumption
<1>1. \A u \in Threads, s \in Slots :
        Live(u, s)' => Live(u, s) /\ words'[u][s] = words[u][s]
  BY DEF Live, Slots
<1>2. fresh \in Nat /\ fresh' \in Nat
  BY DEF IInv, TypeOK
<1>3. LiveIsFresh'
  BY <1>1, <1>2 DEF IInv, LiveIsFresh
<1>4. LiveIsUnique'
  BY <1>1 DEF IInv, LiveIsUnique
<1>5. ServedIsFresh'
  BY <1>2 DEF IInv, ServedIsFresh
<1>6. ServedIsGone'
  BY <1>1 DEF IInv, ServedIsGone
<1>7. ServedIsUnique'
  BY DEF IInv, ServedIsUnique
<1> QED
  BY <1>3, <1>4, <1>5, <1>6, <1>7 DEF IInv

(* A fill that panics after n slots leaves the pool used up.               *)
LEMMA RefillPanicIInv ==
  ASSUME IInv, NEW t \in Threads, RefillPanic(t) PROVE IInv'
<1> USE EntropyPoolAssumption
<1>1. /\ idx \in [Threads -> 0 .. PoolSize]
      /\ words \in [Threads -> [Slots -> Nat]]
      /\ fresh \in Nat /\ served \in Seq(Nat)
  BY DEF IInv, TypeOK
<1>2. PICK n \in 0 .. PoolSize - 1 :
        /\ words' = [words EXCEPT ![t] = Filled(words[t], n)]
        /\ fresh' = fresh + n
  BY DEF RefillPanic
<1>3. Filled(words[t], n) \in [Slots -> Nat]
  <2>1. words[t] \in [Slots -> Nat] /\ n \in 0 .. PoolSize
    BY <1>1
  <2> QED
    BY <2>1, <1>1, FilledWords
<1>4. idx' = idx /\ served' = served /\ idx[t] = PoolSize
  BY DEF RefillPanic
<1>5. TypeOK'
  BY <1>1, <1>2, <1>3, <1>4 DEF TypeOK
<1>6. \A u \in Threads : u # t => words'[u] = words[u]
  BY <1>1, <1>2
<1> QED
  BY <1>1, <1>2, <1>4, <1>5, <1>6, UsedUpIInv

(* A new thread's pool is used up from the start.                          *)
LEMMA RespawnIInv ==
  ASSUME IInv, NEW t \in Threads, Respawn(t) PROVE IInv'
<1> USE EntropyPoolAssumption
<1>1. /\ idx \in [Threads -> 0 .. PoolSize]
      /\ words \in [Threads -> [Slots -> Nat]]
      /\ fresh \in Nat /\ served \in Seq(Nat)
  BY DEF IInv, TypeOK
<1>2. /\ idx' = [idx EXCEPT ![t] = PoolSize]
      /\ words' = [words EXCEPT ![t] = Zeros]
      /\ fresh' = fresh /\ served' = served
  BY DEF Respawn, NewPool
<1>3. Zeros \in [Slots -> Nat]
  BY DEF Zeros
<1>4. TypeOK'
  BY <1>1, <1>2, <1>3 DEF TypeOK
<1> QED
  BY <1>1, <1>2, <1>4, UsedUpIInv

(* Every step keeps the inductive invariant.                               *)
LEMMA NextIInv == IInv /\ [Next]_vars => IInv'
<1> SUFFICES ASSUME IInv, [Next]_vars PROVE IInv'
  OBVIOUS
<1>1. CASE UNCHANGED vars
  BY <1>1 DEF IInv, TypeOK, Live, LiveIsFresh, LiveIsUnique, ServedIsFresh, ServedIsGone,
              ServedIsUnique, vars
<1>2. ASSUME NEW t \in Threads, next_pooled(t) \/ Respawn(t) PROVE IInv'
  BY <1>2, ServeIInv, RefillIInv, RefillPanicIInv, RespawnIInv DEF next_pooled
<1> QED
  BY <1>1, <1>2 DEF Next

(* Pools, index and history keep their types.                              *)
THEOREM PoolTypeCorrect == Spec => []TypeOK
<1>1. IInv => TypeOK
  BY DEF IInv
<1> QED
  BY <1>1, InitIInv, NextIInv, PTL DEF Spec

(* No word is ever served twice, and no zero of a new pool is served: for  *)
(* every number of threads, every pool size, any number of refills that    *)
(* panic and threads that are replaced (next_pooled, rng.rs:41-55).        *)
THEOREM WordsAreUsedOnce == Spec => []NoWordReused
<1>1. IInv => NoWordReused
  <2> SUFFICES ASSUME IInv PROVE NoWordReused
    OBVIOUS
  <2>1. \A i \in 1 .. Len(served) : served[i] # 0
    BY DEF IInv, ServedIsFresh
  <2> QED
    BY <2>1 DEF IInv, ServedIsUnique, NoWordReused
<1> QED
  BY <1>1, InitIInv, NextIInv, PTL DEF Spec

=============================================================================
