--------------------------- MODULE Sources_proofs ---------------------------
(***************************************************************************)
(* Where time and randomness come from, proved for every number of         *)
(* threads, program, script, seed, count and buffer: a batch is whole and  *)
(* of one millisecond, seed and script decide what the twins return, and   *)
(* a thread that alone writes the override is obeyed.                      *)
(***************************************************************************)
EXTENDS Sources, FiniteSetTheorems, TLAPS

-----------------------------------------------------------------------------
(* The bytes of a buffer.                                                  *)

BatchTypes ==
  /\ clock \in Nat
  /\ at \in [Threads -> {"outside", "clock", "hi", "lo"}]
  /\ kind \in [Threads -> {"many", "into"}]
  /\ ts \in [Threads -> Nat]
  /\ done \in [Threads -> Nat]
  /\ length \in [Threads -> Nat]
  /\ buffer \in [Threads -> Seq(Int)]
  /\ outcome \in [Threads -> {"none", "refused", "panicked", "ok"}]
  /\ began \in [Threads -> Nat]

\* Identifiers with the call's timestamp as far as it has come, and then
\* what was there before.
RowsOf(t) ==
  \A i \in 1 .. Len(buffer[t]) :
    buffer[t][i] = IF i <= done[t] THEN ts[t] ELSE B!Old

Rows == \A t \in Threads : RowsOf(t)

\* How far a call has come.
ProgressOf(t) ==
  /\ began[t] <= clock
  /\ at[t] # "outside" \/ B!Returned(t) => Len(buffer[t]) * BLOCK = length[t]
  /\ at[t] \in {"hi", "lo"} \/ B!Returned(t) => ts[t] \in began[t] .. clock
  /\ at[t] = "clock" => done[t] = 0
  /\ at[t] \in {"hi", "lo"} => done[t] <= Len(buffer[t])
  /\ at[t] = "lo" => done[t] < Len(buffer[t])
  /\ B!Returned(t) => done[t] = Len(buffer[t])

Progress == \A t \in Threads : ProgressOf(t)

BatchInv == BatchTypes /\ Rows /\ Progress

(* A step of thread t leaves what is said of the others alone.             *)
LEMMA OnlyOneBatch ==
  ASSUME BatchInv, NEW t \in Threads, clock' = clock,
         \A u \in Threads \ {t} :
           /\ at'[u] = at[u] /\ ts'[u] = ts[u] /\ done'[u] = done[u] /\ length'[u] = length[u]
           /\ buffer'[u] = buffer[u] /\ outcome'[u] = outcome[u] /\ began'[u] = began[u],
         RowsOf(t)', ProgressOf(t)'
  PROVE  Rows' /\ Progress'
<1> SUFFICES ASSUME NEW u \in Threads \ {t} PROVE RowsOf(u)' /\ ProgressOf(u)'
  BY DEF Rows, Progress
<1>1. RowsOf(u) /\ ProgressOf(u)
  BY DEF BatchInv, Rows, Progress
<1>2. RowsOf(u)'
  BY <1>1 DEF RowsOf
<1>3. B!Returned(u)' = B!Returned(u)
  BY DEF B!Returned
<1>4. ProgressOf(u)'
  BY <1>1, <1>3 DEF ProgressOf
<1> QED
  BY <1>2, <1>4

(* A buffer of whole blocks is as long as its blocks.                      *)
LEMMA WholeLength ==
  ASSUME NEW n \in Nat, NEW k \in Nat \ {0}
  PROVE  /\ n \div k \in Nat
         /\ n % k = 0 => (n \div k) * k = n
  OBVIOUS

(* A blank buffer has the room it was asked for.                           *)
LEMMA BlankRoom ==
  ASSUME NEW n \in Nat
  PROVE  /\ B!Blank(n) \in Seq(Int) /\ Len(B!Blank(n)) = n
         /\ \A i \in 1 .. n : B!Blank(n)[i] = B!Old
  BY DEF B!Blank, B!Old

LEMMA InitBatchInv == B!Init => BatchInv
  BY DEF B!Init, BatchInv, BatchTypes, Rows, RowsOf, Progress, ProgressOf, B!Returned

(* Either call begins with a blank buffer of the length it says, or is     *)
(* refused.                                                                *)
LEMMA InvokeBatchInv ==
  ASSUME BatchInv, NEW t \in Threads, NEW k \in {"many", "into"}, NEW n \in Nat, NEW len \in Nat,
         NEW accepted \in BOOLEAN, accepted => n * BLOCK = len, B!Invoke(t, k, n, len, accepted)
  PROVE  BatchInv'
<1>1. BatchTypes
  BY DEF BatchInv
<1>2. /\ at[t] = "outside" /\ began' = [began EXCEPT ![t] = clock] /\ clock' = clock /\ ts' = ts
      /\ kind' = [kind EXCEPT ![t] = k] /\ length' = [length EXCEPT ![t] = len]
      /\ buffer' = [buffer EXCEPT ![t] = B!Blank(n)] /\ done' = [done EXCEPT ![t] = 0]
  BY DEF B!Invoke
<1>3. CASE accepted /\ at' = [at EXCEPT ![t] = "clock"] /\ outcome' = outcome
  <2>1. BatchTypes'
    BY <1>1, <1>2, <1>3, BlankRoom DEF BatchTypes
  <2>2. \A u \in Threads \ {t} :
          /\ at'[u] = at[u] /\ ts'[u] = ts[u] /\ done'[u] = done[u] /\ length'[u] = length[u]
          /\ buffer'[u] = buffer[u] /\ outcome'[u] = outcome[u] /\ began'[u] = began[u]
    BY <1>1, <1>2, <1>3 DEF BatchTypes
  <2>3. /\ buffer'[t] = B!Blank(n) /\ done'[t] = 0 /\ began'[t] = clock /\ length'[t] = len
        /\ at'[t] = "clock" /\ clock' = clock /\ clock \in Nat
    BY <1>1, <1>2, <1>3 DEF BatchTypes
  <2>4. RowsOf(t)'
    <3>1. Len(B!Blank(n)) = n /\ \A i \in 1 .. n : B!Blank(n)[i] = B!Old
      BY BlankRoom
    <3> QED
      BY <2>3, <3>1 DEF RowsOf
  <2>5. ProgressOf(t)'
    <3>1. n * BLOCK = len /\ Len(B!Blank(n)) = n
      BY <1>3, BlankRoom
    <3> QED
      BY <2>3, <3>1 DEF ProgressOf, B!Returned
  <2> QED
    BY <1>2, <2>1, <2>2, <2>4, <2>5, OnlyOneBatch DEF BatchInv
<1>4. CASE outcome' = [outcome EXCEPT ![t] = "refused"] /\ at' = at
  <2>1. BatchTypes'
    BY <1>1, <1>2, <1>4, BlankRoom DEF BatchTypes
  <2>2. \A u \in Threads \ {t} :
          /\ at'[u] = at[u] /\ ts'[u] = ts[u] /\ done'[u] = done[u] /\ length'[u] = length[u]
          /\ buffer'[u] = buffer[u] /\ outcome'[u] = outcome[u] /\ began'[u] = began[u]
    BY <1>1, <1>2, <1>4 DEF BatchTypes
  <2>3. /\ buffer'[t] = B!Blank(n) /\ done'[t] = 0 /\ began'[t] = clock
        /\ at'[t] = "outside" /\ outcome'[t] = "refused" /\ clock' = clock /\ clock \in Nat
    BY <1>1, <1>2, <1>4 DEF BatchTypes
  <2>4. RowsOf(t)'
    <3>1. Len(B!Blank(n)) = n /\ \A i \in 1 .. n : B!Blank(n)[i] = B!Old
      BY BlankRoom
    <3> QED
      BY <2>3, <3>1 DEF RowsOf
  <2>5. ProgressOf(t)'
    BY <2>3 DEF ProgressOf, B!Returned
  <2> QED
    BY <1>2, <2>1, <2>2, <2>4, <2>5, OnlyOneBatch DEF BatchInv
<1> QED
  BY <1>3, <1>4 DEF B!Invoke

(* The second word completes a block.                                      *)
LEMMA DrawLoBatchInv ==
  ASSUME BatchInv, NEW t \in Threads, B!DrawLo(t) PROVE BatchInv'
<1> DEFINE b == [buffer[t] EXCEPT ![done[t] + 1] = ts[t]]
<1>1. BatchTypes /\ RowsOf(t) /\ ProgressOf(t)
  BY DEF BatchInv, Rows, Progress
<1>2. /\ at[t] = "lo" /\ at' = [at EXCEPT ![t] = "hi"] /\ done' = [done EXCEPT ![t] = @ + 1]
      /\ buffer' = [buffer EXCEPT ![t] = b]
      /\ UNCHANGED << clock, kind, ts, outcome, began, length >>
  BY DEF B!DrawLo
<1>3. /\ done[t] \in Nat /\ ts[t] \in Nat /\ buffer[t] \in Seq(Int)
      /\ Len(buffer[t]) \in Nat /\ done[t] < Len(buffer[t])
  BY <1>1, <1>2 DEF BatchTypes, ProgressOf
<1>4. /\ b \in Seq(Int) /\ Len(b) = Len(buffer[t])
      /\ \A i \in 1 .. Len(b) : b[i] = IF i = done[t] + 1 THEN ts[t] ELSE buffer[t][i]
  BY <1>3
<1> HIDE DEF b
<1>5. BatchTypes'
  BY <1>1, <1>2, <1>4 DEF BatchTypes
<1>6. \A u \in Threads \ {t} :
        /\ at'[u] = at[u] /\ ts'[u] = ts[u] /\ done'[u] = done[u] /\ length'[u] = length[u]
        /\ buffer'[u] = buffer[u] /\ outcome'[u] = outcome[u] /\ began'[u] = began[u]
  BY <1>1, <1>2 DEF BatchTypes
<1>7. /\ buffer'[t] = b /\ done'[t] = done[t] + 1 /\ at'[t] = "hi" /\ ts'[t] = ts[t]
      /\ clock' = clock /\ began'[t] = began[t] /\ length'[t] = length[t]
  BY <1>1, <1>2 DEF BatchTypes
<1>8. RowsOf(t)'
  <2>1. ASSUME NEW i \in 1 .. Len(b) PROVE b[i] = IF i <= done[t] + 1 THEN ts[t] ELSE B!Old
    <3>1. CASE i = done[t] + 1
      BY <1>3, <1>4, <3>1
    <3>2. CASE i # done[t] + 1
      <4>1. b[i] = buffer[t][i] /\ i \in 1 .. Len(buffer[t])
        BY <1>4, <3>2
      <4>2. buffer[t][i] = IF i <= done[t] THEN ts[t] ELSE B!Old
        BY <1>1, <4>1 DEF RowsOf
      <4>3. i <= done[t] <=> i <= done[t] + 1
        BY <1>3, <3>2, <4>1
      <4> QED
        BY <4>1, <4>2, <4>3
    <3> QED
      BY <3>1, <3>2
  <2> QED
    BY <1>7, <2>1 DEF RowsOf
<1>9. ProgressOf(t)'
  <2>1. Len(b) * BLOCK = length[t] /\ ts[t] \in began[t] .. clock /\ began[t] <= clock
    BY <1>1, <1>2, <1>4 DEF ProgressOf
  <2>2. done[t] + 1 <= Len(b)
    BY <1>3, <1>4
  <2> QED
    BY <1>7, <2>1, <2>2 DEF ProgressOf, B!Returned
<1> QED
  BY <1>2, <1>5, <1>6, <1>8, <1>9, OnlyOneBatch DEF BatchInv

(* A draw panics.                                                          *)
LEMMA DrawPanicBatchInv ==
  ASSUME BatchInv, NEW t \in Threads, B!DrawPanic(t) PROVE BatchInv'
<1>1. BatchTypes /\ RowsOf(t) /\ ProgressOf(t)
  BY DEF BatchInv, Rows, Progress
<1>2. /\ at' = [at EXCEPT ![t] = "outside"] /\ outcome' = [outcome EXCEPT ![t] = "panicked"]
      /\ buffer' = [buffer EXCEPT ![t] = IF kind[t] = "many" THEN << >> ELSE buffer[t]]
      /\ UNCHANGED << clock, kind, ts, done, began, length >>
  BY DEF B!DrawPanic
<1>3. BatchTypes'
  BY <1>1, <1>2 DEF BatchTypes
<1>4. \A u \in Threads \ {t} :
        /\ at'[u] = at[u] /\ ts'[u] = ts[u] /\ done'[u] = done[u] /\ length'[u] = length[u]
        /\ buffer'[u] = buffer[u] /\ outcome'[u] = outcome[u] /\ began'[u] = began[u]
  BY <1>1, <1>2 DEF BatchTypes
<1>5. /\ buffer'[t] = << >> \/ buffer'[t] = buffer[t]
      /\ at'[t] = "outside" /\ outcome'[t] = "panicked" /\ ts'[t] = ts[t] /\ done'[t] = done[t]
      /\ clock' = clock /\ began'[t] = began[t]
  BY <1>1, <1>2 DEF BatchTypes
<1>6. RowsOf(t)'
  BY <1>1, <1>5 DEF RowsOf
<1>7. ProgressOf(t)'
  BY <1>1, <1>5 DEF ProgressOf, B!Returned
<1> QED
  BY <1>2, <1>3, <1>4, <1>6, <1>7, OnlyOneBatch DEF BatchInv

(* The steps that leave the buffers alone.                                 *)
LEMMA SameBuffersBatchInv ==
  ASSUME BatchInv, NEW t \in Threads, B!Capture(t) \/ B!DrawHi(t) \/ B!Return(t) PROVE BatchInv'
<1>1. BatchTypes /\ RowsOf(t) /\ ProgressOf(t)
  BY DEF BatchInv, Rows, Progress
<1>2. /\ done'[t] = done[t] /\ buffer'[t] = buffer[t] /\ began'[t] = began[t]
      /\ length'[t] = length[t] /\ clock' = clock
      /\ \A u \in Threads \ {t} : done'[u] = done[u] /\ buffer'[u] = buffer[u]
                                  /\ began'[u] = began[u] /\ length'[u] = length[u]
  BY DEF B!Capture, B!DrawHi, B!Return
<1>3. BatchTypes' /\ \A u \in Threads \ {t} : at'[u] = at[u] /\ ts'[u] = ts[u] /\ outcome'[u] = outcome[u]
  <2>1. CASE B!Capture(t)
    BY <1>1, <2>1 DEF B!Capture, BatchTypes
  <2>2. CASE B!DrawHi(t)
    BY <1>1, <2>2 DEF B!DrawHi, BatchTypes
  <2>3. CASE B!Return(t)
    BY <1>1, <2>3 DEF B!Return, BatchTypes
  <2> QED
    BY <2>1, <2>2, <2>3
<1>4. RowsOf(t)' /\ ProgressOf(t)'
  <2> USE DEF BatchTypes
  <2>1. CASE B!Capture(t)
    <3>1. at[t] = "clock" /\ at'[t] = "hi" /\ ts'[t] = clock /\ done[t] = 0
      BY <1>1, <2>1 DEF B!Capture, ProgressOf
    <3>2. RowsOf(t)'
      BY <1>1, <1>2, <3>1 DEF RowsOf
    <3> QED
      BY <1>1, <1>2, <3>1, <3>2 DEF ProgressOf, B!Returned
  <2>2. CASE B!DrawHi(t)
    <3>1. at[t] = "hi" /\ at'[t] = "lo" /\ ts'[t] = ts[t] /\ done[t] < Len(buffer[t])
      BY <1>1, <2>2 DEF B!DrawHi
    <3>2. RowsOf(t)'
      BY <1>1, <1>2, <3>1 DEF RowsOf
    <3> QED
      BY <1>1, <1>2, <3>1, <3>2 DEF ProgressOf, B!Returned
  <2>3. CASE B!Return(t)
    <3>1. at[t] = "hi" /\ at'[t] = "outside" /\ ts'[t] = ts[t] /\ done[t] = Len(buffer[t])
      BY <1>1, <2>3 DEF B!Return
    <3>2. RowsOf(t)'
      BY <1>1, <1>2, <3>1 DEF RowsOf
    <3> QED
      BY <1>1, <1>2, <3>1, <3>2 DEF ProgressOf, B!Returned
  <2> QED
    BY <2>1, <2>2, <2>3
<1> QED
  BY <1>2, <1>3, <1>4, OnlyOneBatch DEF BatchInv

(* Every step of the batches.                                              *)
LEMMA NextBatchInv ==
  ASSUME B!BatchesAssumption, BatchInv, [B!Next]_(B!vars) PROVE BatchInv'
<1>1. CASE UNCHANGED B!vars
  BY <1>1 DEF B!vars, BatchInv, BatchTypes, Rows, RowsOf, Progress, ProgressOf, B!Returned
<1>2. CASE B!Tick
  <2>1. BatchTypes' /\ clock' = clock + 1 /\ clock \in Nat
    BY <1>2 DEF B!Tick, BatchInv, BatchTypes
  <2>2. Rows'
    BY <1>2 DEF B!Tick, BatchInv, Rows, RowsOf
  <2>3. ASSUME NEW t \in Threads PROVE ProgressOf(t)'
    <3>1. ProgressOf(t) /\ ts[t] \in Nat /\ began[t] \in Nat
      BY DEF BatchInv, BatchTypes, Progress
    <3>2. B!Returned(t)' = B!Returned(t)
      BY <1>2 DEF B!Tick, B!Returned
    <3> QED
      BY <1>2, <2>1, <3>1, <3>2 DEF B!Tick, ProgressOf
  <2> QED
    BY <2>1, <2>2, <2>3 DEF BatchInv, Progress
<1>3. ASSUME NEW t \in Threads, B!generate_many(t) PROVE BatchInv'
  <2>1. PICK n \in Counts : B!Invoke(t, "many", n, n * BLOCK, n <= MAX_BATCH)
    BY <1>3 DEF B!generate_many
  <2>2. n \in Nat /\ BLOCK \in Nat /\ (n <= MAX_BATCH) \in BOOLEAN
    BY DEF B!BatchesAssumption
  <2>3. n * BLOCK \in Nat
    BY <2>2
  <2> QED
    BY <2>1, <2>2, <2>3, InvokeBatchInv
<1>4. ASSUME NEW t \in Threads, B!generate_into(t) PROVE BatchInv'
  <2>1. PICK len \in Lengths : B!Invoke(t, "into", len \div BLOCK, len, len % BLOCK = 0)
    BY <1>4 DEF B!generate_into
  <2>2. len \in Nat /\ BLOCK \in Nat \ {0}
    BY DEF B!BatchesAssumption
  <2>3. len \div BLOCK \in Nat /\ (len % BLOCK = 0 => (len \div BLOCK) * BLOCK = len)
    BY <2>2, WholeLength
  <2> QED
    BY <2>1, <2>2, <2>3, InvokeBatchInv
<1> QED
  BY <1>1, <1>2, <1>3, <1>4, SameBuffersBatchInv, DrawLoBatchInv, DrawPanicBatchInv
  DEF B!Next, B!Step

(* The other sources leave the batches alone.                              *)
LEMMA BatchesKept == Spec => [](part = "batches" => BatchInv)
<1>1. Init => (part = "batches" => BatchInv)
  BY InitBatchInv DEF Init
<1>2. (part = "batches" => BatchInv) /\ [Next]_vars => (part = "batches" => BatchInv)'
  <2> SUFFICES ASSUME part = "batches" => BatchInv, [Next]_vars, part' = "batches"
               PROVE  BatchInv'
    OBVIOUS
  <2>1. part = "batches" /\ [B!Next]_(B!vars)
    BY DEF Next, vars, bVars, B!vars
  <2> QED
    BY <2>1, NextBatchInv, SourcesAssumption
<1> QED
  BY <1>1, <1>2, PTL DEF Spec

(* A call that returns has filled everything it was given, to the last     *)
(* byte, with identifiers of one millisecond that it lived through, for    *)
(* every number of threads and every length (batch.rs:89).                 *)
THEOREM BatchesAreOfOneMillisecond == Spec => []OneMillisecond
<1>1. BatchInv => B!OneMillisecond
  <2> SUFFICES ASSUME BatchInv, NEW t \in Threads, B!Returned(t)
               PROVE  /\ Len(buffer[t]) * BLOCK = length[t]
                      /\ \E ms \in began[t] .. clock :
                           \A i \in 1 .. Len(buffer[t]) : buffer[t][i] = ms
    BY DEF B!OneMillisecond
  <2>1. Len(buffer[t]) * BLOCK = length[t] /\ ts[t] \in began[t] .. clock
    BY DEF BatchInv, Progress, ProgressOf
  <2>2. \A i \in 1 .. Len(buffer[t]) : buffer[t][i] = ts[t]
    BY DEF BatchInv, BatchTypes, Progress, ProgressOf, Rows, RowsOf
  <2> QED
    BY <2>1, <2>2
<1>2. (part = "batches" => BatchInv) => OneMillisecond
  BY <1>1 DEF OneMillisecond
<1> QED
  BY <1>2, BatchesKept, PTL

(* A caller's buffer holds identifiers written whole, then bytes that were *)
(* left alone, at any moment, also after a draw panicked or a length was   *)
(* refused (fill_ulid_with_ts, batch.rs:77-85).                            *)
THEOREM BlocksAreWhole == Spec => []WholeBlocks
<1>1. BatchInv => B!WholeBlocks
  <2> SUFFICES ASSUME BatchInv, NEW t \in Threads
               PROVE  /\ B!Torn \notin { buffer[t][i] : i \in 1 .. Len(buffer[t]) }
                      /\ \A i, j \in 1 .. Len(buffer[t]) :
                           i < j /\ buffer[t][i] = B!Old => buffer[t][j] = B!Old
    BY DEF B!WholeBlocks
  <2>1. /\ ts[t] \in Nat /\ done[t] \in Nat /\ Len(buffer[t]) \in Nat
        /\ \A i \in 1 .. Len(buffer[t]) : buffer[t][i] = IF i <= done[t] THEN ts[t] ELSE -1
    BY DEF BatchInv, BatchTypes, Rows, RowsOf, B!Old
  <2>2. B!Torn \notin { buffer[t][i] : i \in 1 .. Len(buffer[t]) }
    BY <2>1 DEF B!Torn
  <2>3. \A i, j \in 1 .. Len(buffer[t]) : i < j /\ buffer[t][i] = -1 => buffer[t][j] = -1
    BY <2>1
  <2> QED
    BY <2>2, <2>3 DEF B!Old
<1>2. (part = "batches" => BatchInv) => WholeBlocks
  BY <1>1 DEF WholeBlocks
<1> QED
  BY <1>2, BatchesKept, PTL

-----------------------------------------------------------------------------
(* The twins.  Until a millisecond is exhausted, the state after n calls   *)
(* is a function of the script and the seed.                               *)

\* Call i of the script begins a millisecond.
Fresh(sc, i) == sc[i] > 0 /\ \A j \in 1 .. i - 1 : sc[j] < sc[i]

\* The calls among the first n that draw.
Draws(sc, n) == { j \in 1 .. n : Fresh(sc, j) }

\* last_ms and last_rand after n calls: of the last draw, counted on from there.
StateAfter(sc, sd, n, ms, rand) ==
  /\ ms \in Nat /\ rand \in Int
  /\ \A j \in 1 .. n : sc[j] <= ms
  /\ \/ Draws(sc, n) = {} /\ ms = 0 /\ rand = n
     \/ \E f \in Draws(sc, n) :
          /\ \A j \in Draws(sc, n) : j <= f
          /\ ms = sc[f]
          /\ rand = sd[Cardinality(Draws(sc, n))] + (n - f)

\* The identifiers of o are those of the states after 1, 2, ... calls.
Recorded(sc, sd, o) ==
  /\ o \in Seq(Int)
  /\ \A i \in 1 .. Len(o) : \E m, r \in Int :
       StateAfter(sc, sd, i, m, r) /\ o[i] = F!A!from_parts(m, r)

\* What is true of one twin at any time.
Twin(sc, sd, ms, rand, pc, now, n, o, drawn) ==
  /\ Recorded(sc, sd, o)
  /\ n = IF pc = "idle" THEN Len(o) ELSE Len(o) + 1
  /\ n <= MaxSeeded
  /\ pc # "idle" => now = sc[n]
  /\ pc # "draw" => StateAfter(sc, sd, Len(o), ms, rand)
  /\ pc = "draw" => Fresh(sc, n) /\ ms = sc[n]
  /\ drawn = Cardinality(Draws(sc, Len(o)))

\* Where a twin can be that has exhausted no millisecond.
Places == {"idle", "advance", "draw"}

Scripts == [1 .. MaxSeeded -> Nat]
Seeds   == [1 .. MaxSeeded -> Int]

LEMMA DrawsStep ==
  ASSUME NEW sc, NEW n \in Nat
  PROVE  /\ IsFiniteSet(Draws(sc, n)) /\ Cardinality(Draws(sc, n)) \in 0 .. n
         /\ Fresh(sc, n + 1) =>
              /\ Draws(sc, n + 1) = Draws(sc, n) \cup {n + 1}
              /\ Cardinality(Draws(sc, n + 1)) = Cardinality(Draws(sc, n)) + 1
         /\ ~Fresh(sc, n + 1) => Draws(sc, n + 1) = Draws(sc, n)
<1>1. IsFiniteSet(Draws(sc, n)) /\ Cardinality(Draws(sc, n)) \in 0 .. n
  <2>1. IsFiniteSet(1 .. n) /\ Cardinality(1 .. n) = n
    BY FS_Interval
  <2>2. Draws(sc, n) \in SUBSET (1 .. n)
    BY DEF Draws
  <2>3. IsFiniteSet(Draws(sc, n)) /\ Cardinality(Draws(sc, n)) <= n
    BY <2>1, <2>2, FS_Subset
  <2> QED
    BY <2>3, FS_CardinalityType
<1>2. 1 .. n + 1 = (1 .. n) \cup {n + 1}
  OBVIOUS
<1>3. Fresh(sc, n + 1) => Draws(sc, n + 1) = Draws(sc, n) \cup {n + 1}
  BY <1>2 DEF Draws
<1>4. n + 1 \notin Draws(sc, n)
  BY DEF Draws
<1>5. Cardinality(Draws(sc, n) \cup {n + 1}) = Cardinality(Draws(sc, n)) + 1
  BY <1>1, <1>4, FS_AddElement
<1>6. ~Fresh(sc, n + 1) => Draws(sc, n + 1) = Draws(sc, n)
  BY <1>2 DEF Draws
<1> QED
  BY <1>1, <1>3, <1>5, <1>6

(* The code's test, of the last timestamp alone, is of all of them.        *)
LEMMA FreshIff ==
  ASSUME NEW sc \in Scripts, NEW sd, NEW n \in Nat, n + 1 <= MaxSeeded, MaxSeeded \in Nat,
         NEW ms, NEW rand, StateAfter(sc, sd, n, ms, rand)
  PROVE  sc[n + 1] > ms <=> Fresh(sc, n + 1)
<1>1. \A j \in 1 .. n + 1 : sc[j] \in Nat
  BY DEF Scripts
<1>2. sc[n + 1] > ms => Fresh(sc, n + 1)
  BY <1>1 DEF Fresh, StateAfter
<1>3. ASSUME Fresh(sc, n + 1) PROVE sc[n + 1] > ms
  <2>1. ms = 0 \/ \E f \in 1 .. n : ms = sc[f]
    BY DEF StateAfter, Draws
  <2> QED
    BY <1>1, <1>3, <2>1 DEF Fresh
<1> QED
  BY <1>2, <1>3

LEMMA DrawnState ==
  ASSUME NEW sc, NEW sd, NEW n \in Nat, NEW f \in Draws(sc, n), NEW rand \in Int, NEW ms \in Nat,
         \A j \in 1 .. n : sc[j] <= ms, \A j \in Draws(sc, n) : j <= f, ms = sc[f],
         rand = sd[Cardinality(Draws(sc, n))] + (n - f)
  PROVE  StateAfter(sc, sd, n, ms, rand)
  BY DEF StateAfter

(* A call in the same millisecond counts on, one in a new one draws.       *)
LEMMA StaleState ==
  ASSUME NEW sc \in Scripts, NEW sd \in Seeds, NEW n \in Nat, n + 1 <= MaxSeeded,
         MaxSeeded \in Nat, NEW ms, NEW rand, StateAfter(sc, sd, n, ms, rand),
         sc[n + 1] <= ms
  PROVE  StateAfter(sc, sd, n + 1, ms, rand + 1) /\ Draws(sc, n + 1) = Draws(sc, n)
<1>1. ms \in Nat /\ rand \in Int /\ sc[n + 1] \in Nat
  BY DEF StateAfter, Scripts
<1>2. ~Fresh(sc, n + 1)
  BY <1>1, FreshIff
<1>3. Draws(sc, n + 1) = Draws(sc, n)
  BY <1>2, DrawsStep
<1>4. \A j \in 1 .. n + 1 : sc[j] <= ms
  BY DEF StateAfter
<1>5. CASE Draws(sc, n) = {} /\ ms = 0 /\ rand = n
  BY <1>1, <1>3, <1>4, <1>5 DEF StateAfter
<1>6. ASSUME NEW f \in Draws(sc, n), \A j \in Draws(sc, n) : j <= f, ms = sc[f],
             rand = sd[Cardinality(Draws(sc, n))] + (n - f)
      PROVE  StateAfter(sc, sd, n + 1, ms, rand + 1)
  <2>1. Cardinality(Draws(sc, n)) \in 0 .. n /\ Cardinality(Draws(sc, n)) # 0
    BY DrawsStep, FS_EmptySet
  <2>2. sd[Cardinality(Draws(sc, n))] \in Int
    BY <2>1 DEF Seeds
  <2>3. f \in Nat
    BY DEF Draws
  <2>4. rand + 1 = sd[Cardinality(Draws(sc, n))] + (n + 1 - f)
    BY <1>6, <2>2, <2>3
  <2>5. PICK k \in Nat, r \in Int : k = n + 1 /\ r = rand + 1
    BY <1>1
  <2>6. f \in Draws(sc, k) /\ \A j \in Draws(sc, k) : j <= f
    BY <1>3, <1>6, <2>5
  <2>7. r = sd[Cardinality(Draws(sc, k))] + (k - f)
    <3>1. Draws(sc, k) = Draws(sc, n)
      BY <1>3, <2>5
    <3>2. r = sd[Cardinality(Draws(sc, n))] + (k - f)
      BY <2>3, <2>4, <2>5
    <3> QED
      BY <3>1, <3>2
  <2>8. \A j \in 1 .. k : sc[j] <= ms
    BY <1>4, <2>5
  <2>9. StateAfter(sc, sd, k, ms, r)
    BY <1>1, <1>6, <2>6, <2>7, <2>8, DrawnState
  <2> QED
    BY <2>5, <2>9
<1> QED
  BY <1>3, <1>5, <1>6 DEF StateAfter

LEMMA FreshState ==
  ASSUME NEW sc \in Scripts, NEW sd \in Seeds, NEW n \in Nat, n + 1 <= MaxSeeded,
         MaxSeeded \in Nat, Fresh(sc, n + 1)
  PROVE  /\ Cardinality(Draws(sc, n + 1)) = Cardinality(Draws(sc, n)) + 1
         /\ StateAfter(sc, sd, n + 1, sc[n + 1], sd[Cardinality(Draws(sc, n)) + 1])
<1>1. /\ Draws(sc, n + 1) = Draws(sc, n) \cup {n + 1}
      /\ Cardinality(Draws(sc, n + 1)) = Cardinality(Draws(sc, n)) + 1
      /\ Cardinality(Draws(sc, n)) \in 0 .. n
  BY DrawsStep
<1>2. \A j \in 1 .. n + 1 : sc[j] \in Nat
  BY DEF Scripts
<1>3. \A j \in 1 .. n + 1 : sc[j] <= sc[n + 1]
  BY <1>2 DEF Fresh
<1>4. sd[Cardinality(Draws(sc, n)) + 1] \in Int
  BY <1>1 DEF Seeds
<1>5. \A j \in Draws(sc, n + 1) : j <= n + 1
  BY DEF Draws
<1>6. n + 1 \in Draws(sc, n + 1)
  BY <1>1
<1>7. sd[Cardinality(Draws(sc, n)) + 1] = sd[Cardinality(Draws(sc, n + 1))] + (n + 1 - (n + 1))
  BY <1>1, <1>4
<1> QED
  BY <1>1, <1>2, <1>3, <1>4, <1>5, <1>6, <1>7 DEF StateAfter

(* There is one such state.                                                *)
LEMMA OneState ==
  ASSUME NEW sc, NEW sd, NEW n \in Nat, NEW ms, NEW rand, NEW ms2, NEW rand2,
         StateAfter(sc, sd, n, ms, rand), StateAfter(sc, sd, n, ms2, rand2)
  PROVE  ms = ms2 /\ rand = rand2
<1>1. CASE Draws(sc, n) = {}
  BY <1>1 DEF StateAfter
<1>2. CASE Draws(sc, n) # {}
  <2>1. PICK f \in Draws(sc, n) : /\ \A j \in Draws(sc, n) : j <= f
                                  /\ ms = sc[f]
                                  /\ rand = sd[Cardinality(Draws(sc, n))] + (n - f)
    BY <1>2 DEF StateAfter
  <2>2. PICK g \in Draws(sc, n) : /\ \A j \in Draws(sc, n) : j <= g
                                  /\ ms2 = sc[g]
                                  /\ rand2 = sd[Cardinality(Draws(sc, n))] + (n - g)
    BY <1>2 DEF StateAfter
  <2>3. f = g
    BY <2>1, <2>2 DEF Draws
  <2> QED
    BY <2>1, <2>2, <2>3
<1> QED
  BY <1>1, <1>2

LEMMA PartsAreInt ==
  ASSUME NEW ms \in Int, NEW rand \in Int
  PROVE  F!A!from_parts(ms, rand) \in Int /\ F!B!from_parts(ms, rand) = F!A!from_parts(ms, rand)
<1>1. TIME_MAX \in Nat /\ RANDOM_MASK \in Nat
  BY SourcesAssumption DEF F!FixturesAssumption
<1>2. ms % (TIME_MAX + 1) \in Int /\ rand % (RANDOM_MASK + 1) \in Int
  BY <1>1
<1>3. (ms % (TIME_MAX + 1)) * (RANDOM_MASK + 1) \in Int
  BY <1>1, <1>2
<1> QED
  BY <1>2, <1>3 DEF F!A!from_parts, F!B!from_parts

(* The identifier of call n, appended.                                     *)
LEMMA TwinAppends ==
  ASSUME NEW sc, NEW sd, NEW o, Recorded(sc, sd, o), NEW m \in Int, NEW r \in Int,
         NEW n, n = Len(o) + 1, StateAfter(sc, sd, n, m, r)
  PROVE  /\ Recorded(sc, sd, Append(o, F!A!from_parts(m, r)))
         /\ Len(Append(o, F!A!from_parts(m, r))) = n
<1> DEFINE e == F!A!from_parts(m, r)
<1>1. e \in Int
  BY PartsAreInt
<1> HIDE DEF e
<1>2. /\ Append(o, e) \in Seq(Int) /\ Len(Append(o, e)) = n
      /\ Append(o, e)[n] = e
      /\ \A i \in 1 .. Len(o) : Append(o, e)[i] = o[i]
  BY <1>1 DEF Recorded
<1>3. ASSUME NEW i \in 1 .. n
      PROVE  \E ms, rand \in Int :
               StateAfter(sc, sd, i, ms, rand) /\ Append(o, e)[i] = F!A!from_parts(ms, rand)
  <2>1. CASE i = n
    BY <1>2, <2>1 DEF e
  <2>2. CASE i # n
    <3>1. i \in 1 .. Len(o)
      BY <2>2 DEF Recorded
    <3>2. PICK ms \in Int, rand \in Int :
             StateAfter(sc, sd, i, ms, rand) /\ o[i] = F!A!from_parts(ms, rand)
      BY <3>1 DEF Recorded
    <3> QED
      BY <1>2, <3>1, <3>2
  <2> QED
    BY <2>1, <2>2
<1>4. Recorded(sc, sd, Append(o, e))
  BY <1>2, <1>3 DEF Recorded
<1> QED
  BY <1>2, <1>4 DEF e

LEMMA TwinCalls ==
  ASSUME NEW sc \in Scripts, NEW sd \in Seeds, NEW ms, NEW rand, NEW now, NEW n, NEW o, NEW d,
         MaxSeeded \in Nat, Twin(sc, sd, ms, rand, "idle", now, n, o, d), n < MaxSeeded
  PROVE  Twin(sc, sd, ms, rand, "advance", sc[n + 1], n + 1, o, d)
  BY DEF Twin

LEMMA TwinNewMillisecond ==
  ASSUME NEW sc \in Scripts, NEW sd \in Seeds, NEW ms, NEW rand, NEW now, NEW n, NEW o, NEW d,
         MaxSeeded \in Nat, Twin(sc, sd, ms, rand, "advance", now, n, o, d), now > ms
  PROVE  Twin(sc, sd, now, rand, "draw", now, n, o, d)
<1>1. Len(o) \in Nat /\ n = Len(o) + 1 /\ n <= MaxSeeded /\ now = sc[n]
      /\ StateAfter(sc, sd, Len(o), ms, rand)
  BY DEF Twin, Recorded
<1>2. Fresh(sc, n)
  BY <1>1, FreshIff
<1> QED
  BY <1>1, <1>2 DEF Twin

LEMMA TwinIncrements ==
  ASSUME NEW sc \in Scripts, NEW sd \in Seeds, NEW ms, NEW rand, NEW now, NEW n, NEW o, NEW d,
         MaxSeeded \in Nat, Twin(sc, sd, ms, rand, "advance", now, n, o, d), now <= ms
  PROVE  Twin(sc, sd, ms, rand + 1, "idle", now, n, Append(o, F!A!from_parts(ms, rand + 1)), d)
<1>1. /\ Len(o) \in Nat /\ n = Len(o) + 1 /\ n <= MaxSeeded /\ now = sc[n]
      /\ StateAfter(sc, sd, Len(o), ms, rand) /\ d = Cardinality(Draws(sc, Len(o)))
      /\ Recorded(sc, sd, o)
  BY DEF Twin, Recorded
<1>2. ms \in Int /\ rand \in Int
  BY <1>1 DEF StateAfter
<1>3. StateAfter(sc, sd, n, ms, rand + 1) /\ Draws(sc, n) = Draws(sc, Len(o))
  BY <1>1, StaleState
<1>4. PICK r \in Int : r = rand + 1
  BY <1>2
<1>5. StateAfter(sc, sd, n, ms, r)
  BY <1>3, <1>4
<1>6. /\ Recorded(sc, sd, Append(o, F!A!from_parts(ms, r)))
      /\ Len(Append(o, F!A!from_parts(ms, r))) = n
  BY <1>1, <1>2, <1>5, TwinAppends
<1>7. Twin(sc, sd, ms, r, "idle", now, n, Append(o, F!A!from_parts(ms, r)), d)
  BY <1>1, <1>3, <1>5, <1>6 DEF Twin
<1> QED
  BY <1>4, <1>7

LEMMA TwinDraws ==
  ASSUME NEW sc \in Scripts, NEW sd \in Seeds, NEW ms, NEW rand, NEW now, NEW n, NEW o, NEW d,
         MaxSeeded \in Nat, Twin(sc, sd, ms, rand, "draw", now, n, o, d)
  PROVE  Twin(sc, sd, ms, sd[d + 1], "idle", now, n, Append(o, F!A!from_parts(ms, sd[d + 1])), d + 1)
<1>1. /\ Len(o) \in Nat /\ n = Len(o) + 1 /\ n <= MaxSeeded
      /\ Fresh(sc, n) /\ ms = sc[n] /\ d = Cardinality(Draws(sc, Len(o)))
      /\ Recorded(sc, sd, o)
  BY DEF Twin, Recorded
<1>2. Cardinality(Draws(sc, n)) = d + 1 /\ StateAfter(sc, sd, n, ms, sd[d + 1])
  BY <1>1, FreshState
<1>3. ms \in Int /\ sd[d + 1] \in Int
  BY <1>2 DEF StateAfter
<1>4. PICK r \in Int : r = sd[d + 1]
  BY <1>3
<1>5. /\ Recorded(sc, sd, Append(o, F!A!from_parts(ms, r)))
      /\ Len(Append(o, F!A!from_parts(ms, r))) = n
  BY <1>1, <1>2, <1>3, <1>4, TwinAppends
<1>6. Twin(sc, sd, ms, r, "idle", now, n, Append(o, F!A!from_parts(ms, r)), d + 1)
  BY <1>1, <1>2, <1>4, <1>5 DEF Twin
<1> QED
  BY <1>4, <1>6

(* Identifiers of the same place are equal.                                *)
LEMMA TwinsAgree ==
  ASSUME NEW sc \in Scripts, NEW sd \in Seeds,
         NEW ms, NEW rand, NEW pc, NEW now, NEW n, NEW o, NEW d,
         NEW ms2, NEW rand2, NEW pc2, NEW now2, NEW n2, NEW o2, NEW d2,
         Twin(sc, sd, ms, rand, pc, now, n, o, d),
         Twin(sc, sd, ms2, rand2, pc2, now2, n2, o2, d2),
         NEW i \in 1 .. Len(o), i <= Len(o2)
  PROVE  o[i] = o2[i]
<1>1. i \in Nat /\ i \in 1 .. Len(o2)
  BY DEF Twin, Recorded
<1>2. PICK m \in Int, r \in Int : StateAfter(sc, sd, i, m, r) /\ o[i] = F!A!from_parts(m, r)
  BY DEF Twin, Recorded
<1>3. PICK m2 \in Int, r2 \in Int : StateAfter(sc, sd, i, m2, r2) /\ o2[i] = F!A!from_parts(m2, r2)
  BY <1>1 DEF Twin, Recorded
<1>4. m = m2 /\ r = r2
  BY <1>1, <1>2, <1>3, OneState
<1> QED
  BY <1>2, <1>3, <1>4

\* The twins, while neither has exhausted a millisecond.
TwinsInv ==
  spun # TRUE =>
    /\ script \in Scripts /\ seed \in Seeds
    /\ a_pc \in [{F!Caller} -> Places] /\ a_now \in [{F!Caller} -> Int]
    /\ Twin(script, seed, a_ms, a_rand, a_pc[F!Caller], a_now[F!Caller], a_calls, a_out, a_drawn)
    /\ b_pc \in [{F!Caller} -> Places] /\ b_now \in [{F!Caller} -> Int]
    /\ Twin(script, seed, b_ms, b_rand, b_pc[F!Caller], b_now[F!Caller], b_calls, b_out, b_drawn)

LEMMA TwinAStep ==
  ASSUME TwinsInv, F!TwinA, spun # TRUE, spun' # TRUE
  PROVE  /\ Twin(script, seed, a_ms', a_rand', a_pc'[F!Caller], a_now'[F!Caller], a_calls', a_out', a_drawn')
         /\ a_pc' \in [{F!Caller} -> Places] /\ a_now' \in [{F!Caller} -> Int]
<1> DEFINE c == F!Caller
<1>1. /\ script \in Scripts /\ seed \in Seeds /\ MaxSeeded \in Nat
      /\ a_pc \in [{c} -> Places] /\ a_now \in [{c} -> Int]
      /\ Twin(script, seed, a_ms, a_rand, a_pc[c], a_now[c], a_calls, a_out, a_drawn)
  BY SourcesAssumption DEF TwinsInv, F!FixturesAssumption
<1> HIDE DEF c
<1>2. CASE F!DrawA
  <2>1. /\ a_pc[c] = "draw" /\ a_pc' = [a_pc EXCEPT ![c] = "idle"] /\ a_now' = a_now
        /\ a_ms' = a_ms /\ a_rand' = seed[a_drawn + 1] /\ a_calls' = a_calls
        /\ a_drawn' = a_drawn + 1
        /\ a_out' = Append(a_out, F!A!from_parts(a_ms, seed[a_drawn + 1]))
    BY <1>2 DEF F!DrawA, F!A!Draw, F!A!Return, F!A!Go, c
  <2>2. a_ms \in Int /\ seed[a_drawn + 1] \in Int
    <3>1. a_ms = script[a_calls] /\ Len(a_out) \in Nat /\ a_calls = Len(a_out) + 1
          /\ a_drawn = Cardinality(Draws(script, Len(a_out))) /\ a_calls <= MaxSeeded
      BY <1>1, <2>1 DEF Twin, Recorded
    <3>2. a_drawn \in 0 .. Len(a_out)
      BY <3>1, DrawsStep
    <3> QED
      BY <1>1, <3>1, <3>2 DEF Scripts, Seeds
  <2>3. a_out' = Append(a_out, F!A!from_parts(a_ms, seed[a_drawn + 1]))
    BY <2>1, <2>2, PartsAreInt
  <2>4. Twin(script, seed, a_ms, seed[a_drawn + 1], "idle", a_now[c], a_calls,
             Append(a_out, F!A!from_parts(a_ms, seed[a_drawn + 1])), a_drawn + 1)
    BY <1>1, <2>1, TwinDraws
  <2>5. a_pc'[c] = "idle" /\ a_pc' \in [{c} -> Places]
    BY <1>1, <2>1 DEF Places
  <2> QED
    BY <1>1, <2>1, <2>3, <2>4, <2>5 DEF c
<1>3. CASE F!A!Call(c, script[a_calls + 1]) /\ UNCHANGED a_drawn
  <2>1. /\ a_pc[c] = "idle" /\ a_pc' = [a_pc EXCEPT ![c] = "advance"]
        /\ a_now' = [a_now EXCEPT ![c] = script[a_calls + 1]] /\ a_calls < MaxSeeded
        /\ a_calls' = a_calls + 1
        /\ UNCHANGED << a_ms, a_rand, a_out, a_drawn >>
    BY <1>3 DEF F!A!Call, F!A!Go
  <2>2. Twin(script, seed, a_ms, a_rand, "advance", script[a_calls + 1], a_calls + 1, a_out, a_drawn)
    BY <1>1, <2>1, TwinCalls
  <2>3. a_calls \in Nat
    BY <1>1 DEF Twin, Recorded
  <2>4. script[a_calls + 1] \in Int
    BY <1>1, <2>1, <2>3 DEF Scripts
  <2>5. /\ a_pc'[c] = "advance" /\ a_pc' \in [{c} -> Places]
        /\ a_now'[c] = script[a_calls + 1] /\ a_now' \in [{c} -> Int]
    BY <1>1, <2>1, <2>4 DEF Places
  <2> QED
    BY <2>1, <2>2, <2>5 DEF c
<1>4. CASE F!A!NewMillisecond(c) /\ UNCHANGED a_drawn
  <2>1. /\ a_pc[c] = "advance" /\ a_pc' = [a_pc EXCEPT ![c] = "draw"]
        /\ a_now[c] > a_ms /\ a_ms' = a_now[c]
        /\ UNCHANGED << a_rand, a_now, a_calls, a_out, a_drawn >>
    BY <1>4 DEF F!A!NewMillisecond, F!A!Go
  <2>2. Twin(script, seed, a_now[c], a_rand, "draw", a_now[c], a_calls, a_out, a_drawn)
    BY <1>1, <2>1, TwinNewMillisecond
  <2>3. a_pc'[c] = "draw" /\ a_pc' \in [{c} -> Places]
    BY <1>1, <2>1 DEF Places
  <2> QED
    BY <1>1, <2>1, <2>2, <2>3 DEF c
<1>5. CASE F!A!Increment(c) /\ UNCHANGED a_drawn
  <2>1. /\ a_pc[c] = "advance" /\ a_pc' = [a_pc EXCEPT ![c] = "idle"]
        /\ a_now[c] <= a_ms /\ a_rand' = a_rand + 1
        /\ a_out' = Append(a_out, F!A!from_parts(a_ms, a_rand + 1))
        /\ UNCHANGED << a_ms, a_now, a_calls, a_drawn >>
    BY <1>5 DEF F!A!Increment, F!A!Return, F!A!Go
  <2>2. a_ms \in Int /\ a_rand + 1 \in Int
    BY <1>1, <2>1 DEF Twin, StateAfter
  <2>3. a_out' = Append(a_out, F!A!from_parts(a_ms, a_rand + 1))
    BY <2>1, <2>2, PartsAreInt
  <2>4. Twin(script, seed, a_ms, a_rand + 1, "idle", a_now[c], a_calls,
             Append(a_out, F!A!from_parts(a_ms, a_rand + 1)), a_drawn)
    BY <1>1, <2>1, TwinIncrements
  <2>5. a_pc'[c] = "idle" /\ a_pc' \in [{c} -> Places]
    BY <1>1, <2>1 DEF Places
  <2> QED
    BY <1>1, <2>1, <2>3, <2>4, <2>5 DEF c
<1>6. CASE F!A!SpinExit(c) \/ F!A!Reread(c)
  BY <1>1, <1>6 DEF F!A!SpinExit, F!A!Reread, F!A!Go, Places
<1> QED
  BY <1>2, <1>3, <1>4, <1>5, <1>6 DEF F!TwinA, F!WithoutDrawA, c

LEMMA TwinBStep ==
  ASSUME TwinsInv, F!TwinB, spun # TRUE, spun' # TRUE
  PROVE  /\ Twin(script, seed, b_ms', b_rand', b_pc'[F!Caller], b_now'[F!Caller], b_calls', b_out', b_drawn')
         /\ b_pc' \in [{F!Caller} -> Places] /\ b_now' \in [{F!Caller} -> Int]
<1> DEFINE c == F!Caller
<1>1. /\ script \in Scripts /\ seed \in Seeds /\ MaxSeeded \in Nat
      /\ b_pc \in [{c} -> Places] /\ b_now \in [{c} -> Int]
      /\ Twin(script, seed, b_ms, b_rand, b_pc[c], b_now[c], b_calls, b_out, b_drawn)
  BY SourcesAssumption DEF TwinsInv, F!FixturesAssumption
<1> HIDE DEF c
<1>2. CASE F!DrawB
  <2>1. /\ b_pc[c] = "draw" /\ b_pc' = [b_pc EXCEPT ![c] = "idle"] /\ b_now' = b_now
        /\ b_ms' = b_ms /\ b_rand' = seed[b_drawn + 1] /\ b_calls' = b_calls
        /\ b_drawn' = b_drawn + 1
        /\ b_out' = Append(b_out, F!B!from_parts(b_ms, seed[b_drawn + 1]))
    BY <1>2 DEF F!DrawB, F!B!Draw, F!B!Return, F!B!Go, c
  <2>2. b_ms \in Int /\ seed[b_drawn + 1] \in Int
    <3>1. b_ms = script[b_calls] /\ Len(b_out) \in Nat /\ b_calls = Len(b_out) + 1
          /\ b_drawn = Cardinality(Draws(script, Len(b_out))) /\ b_calls <= MaxSeeded
      BY <1>1, <2>1 DEF Twin, Recorded
    <3>2. b_drawn \in 0 .. Len(b_out)
      BY <3>1, DrawsStep
    <3> QED
      BY <1>1, <3>1, <3>2 DEF Scripts, Seeds
  <2>3. b_out' = Append(b_out, F!A!from_parts(b_ms, seed[b_drawn + 1]))
    BY <2>1, <2>2, PartsAreInt
  <2>4. Twin(script, seed, b_ms, seed[b_drawn + 1], "idle", b_now[c], b_calls,
             Append(b_out, F!A!from_parts(b_ms, seed[b_drawn + 1])), b_drawn + 1)
    BY <1>1, <2>1, TwinDraws
  <2>5. b_pc'[c] = "idle" /\ b_pc' \in [{c} -> Places]
    BY <1>1, <2>1 DEF Places
  <2> QED
    BY <1>1, <2>1, <2>3, <2>4, <2>5 DEF c
<1>3. CASE F!B!Call(c, script[b_calls + 1]) /\ UNCHANGED b_drawn
  <2>1. /\ b_pc[c] = "idle" /\ b_pc' = [b_pc EXCEPT ![c] = "advance"]
        /\ b_now' = [b_now EXCEPT ![c] = script[b_calls + 1]] /\ b_calls < MaxSeeded
        /\ b_calls' = b_calls + 1
        /\ UNCHANGED << b_ms, b_rand, b_out, b_drawn >>
    BY <1>3 DEF F!B!Call, F!B!Go
  <2>2. Twin(script, seed, b_ms, b_rand, "advance", script[b_calls + 1], b_calls + 1, b_out, b_drawn)
    BY <1>1, <2>1, TwinCalls
  <2>3. b_calls \in Nat
    BY <1>1 DEF Twin, Recorded
  <2>4. script[b_calls + 1] \in Int
    BY <1>1, <2>1, <2>3 DEF Scripts
  <2>5. /\ b_pc'[c] = "advance" /\ b_pc' \in [{c} -> Places]
        /\ b_now'[c] = script[b_calls + 1] /\ b_now' \in [{c} -> Int]
    BY <1>1, <2>1, <2>4 DEF Places
  <2> QED
    BY <2>1, <2>2, <2>5 DEF c
<1>4. CASE F!B!NewMillisecond(c) /\ UNCHANGED b_drawn
  <2>1. /\ b_pc[c] = "advance" /\ b_pc' = [b_pc EXCEPT ![c] = "draw"]
        /\ b_now[c] > b_ms /\ b_ms' = b_now[c]
        /\ UNCHANGED << b_rand, b_now, b_calls, b_out, b_drawn >>
    BY <1>4 DEF F!B!NewMillisecond, F!B!Go
  <2>2. Twin(script, seed, b_now[c], b_rand, "draw", b_now[c], b_calls, b_out, b_drawn)
    BY <1>1, <2>1, TwinNewMillisecond
  <2>3. b_pc'[c] = "draw" /\ b_pc' \in [{c} -> Places]
    BY <1>1, <2>1 DEF Places
  <2> QED
    BY <1>1, <2>1, <2>2, <2>3 DEF c
<1>5. CASE F!B!Increment(c) /\ UNCHANGED b_drawn
  <2>1. /\ b_pc[c] = "advance" /\ b_pc' = [b_pc EXCEPT ![c] = "idle"]
        /\ b_now[c] <= b_ms /\ b_rand' = b_rand + 1
        /\ b_out' = Append(b_out, F!B!from_parts(b_ms, b_rand + 1))
        /\ UNCHANGED << b_ms, b_now, b_calls, b_drawn >>
    BY <1>5 DEF F!B!Increment, F!B!Return, F!B!Go
  <2>2. b_ms \in Int /\ b_rand + 1 \in Int
    BY <1>1, <2>1 DEF Twin, StateAfter
  <2>3. b_out' = Append(b_out, F!A!from_parts(b_ms, b_rand + 1))
    BY <2>1, <2>2, PartsAreInt
  <2>4. Twin(script, seed, b_ms, b_rand + 1, "idle", b_now[c], b_calls,
             Append(b_out, F!A!from_parts(b_ms, b_rand + 1)), b_drawn)
    BY <1>1, <2>1, TwinIncrements
  <2>5. b_pc'[c] = "idle" /\ b_pc' \in [{c} -> Places]
    BY <1>1, <2>1 DEF Places
  <2> QED
    BY <1>1, <2>1, <2>3, <2>4, <2>5 DEF c
<1>6. CASE F!B!SpinExit(c) \/ F!B!Reread(c)
  BY <1>1, <1>6 DEF F!B!SpinExit, F!B!Reread, F!B!Go, Places
<1> QED
  BY <1>2, <1>3, <1>4, <1>5, <1>6 DEF F!TwinB, F!WithoutDrawB, c

LEMMA InitTwinsInv == F!Init => TwinsInv
<1> SUFFICES ASSUME F!Init PROVE TwinsInv
  OBVIOUS
<1>1. SeedTimes \subseteq Nat /\ MaxSeeded \in Nat /\ RANDOM_MASK \in Nat
  BY SourcesAssumption DEF F!FixturesAssumption
<1>2. script \in Scripts /\ seed \in Seeds
  <2>1. script \in [1 .. MaxSeeded -> SeedTimes] /\ seed \in [1 .. MaxSeeded -> 0 .. RANDOM_MASK]
    BY DEF F!Init
  <2>2. script \in Scripts
    BY <1>1, <2>1 DEF Scripts
  <2>3. 0 .. RANDOM_MASK \subseteq Int
    BY <1>1
  <2>4. seed \in Seeds
    BY <2>1, <2>3 DEF Seeds
  <2> QED
    BY <2>2, <2>4
<1>3. ASSUME NEW sc, NEW sd PROVE Twin(sc, sd, 0, 0, "idle", 0, 0, << >>, 0)
  <2>1. Draws(sc, 0) = {} /\ Cardinality({}) = 0
    BY FS_EmptySet DEF Draws
  <2>2. StateAfter(sc, sd, 0, 0, 0)
    BY <2>1 DEF StateAfter
  <2>3. Recorded(sc, sd, << >>) /\ Len(<< >>) = 0
    BY DEF Recorded
  <2> QED
    BY <1>1, <2>1, <2>2, <2>3 DEF Twin
<1>4. /\ a_ms = 0 /\ a_rand = 0 /\ a_calls = 0 /\ a_out = << >> /\ a_drawn = 0
      /\ a_pc \in [{F!Caller} -> Places] /\ a_now \in [{F!Caller} -> Int]
      /\ a_pc[F!Caller] = "idle" /\ a_now[F!Caller] = 0
  BY DEF F!Init, F!A!Init, Places
<1>5. /\ b_ms = 0 /\ b_rand = 0 /\ b_calls = 0 /\ b_out = << >> /\ b_drawn = 0
      /\ b_pc \in [{F!Caller} -> Places] /\ b_now \in [{F!Caller} -> Int]
      /\ b_pc[F!Caller] = "idle" /\ b_now[F!Caller] = 0
  BY DEF F!Init, F!B!Init, Places
<1> QED
  BY <1>2, <1>3, <1>4, <1>5 DEF TwinsInv

LEMMA NextTwinsInv ==
  ASSUME TwinsInv, [F!Next]_(F!vars) PROVE TwinsInv'
<1> SUFFICES ASSUME spun' # TRUE
             PROVE  /\ script' \in Scripts /\ seed' \in Seeds
                    /\ a_pc' \in [{F!Caller} -> Places] /\ a_now' \in [{F!Caller} -> Int]
                    /\ Twin(script', seed', a_ms', a_rand', a_pc'[F!Caller], a_now'[F!Caller], a_calls', a_out', a_drawn')
                    /\ b_pc' \in [{F!Caller} -> Places] /\ b_now' \in [{F!Caller} -> Int]
                    /\ Twin(script', seed', b_ms', b_rand', b_pc'[F!Caller], b_now'[F!Caller], b_calls', b_out', b_drawn')
  BY DEF TwinsInv
<1>1. CASE UNCHANGED << script, seed, spun, F!aVars, F!bVars >>
  BY <1>1 DEF TwinsInv, F!aVars, F!bVars
<1>2. CASE F!TwinA
  <2>1. UNCHANGED << script, seed, F!bVars >> /\ spun # TRUE
    BY <1>2 DEF F!TwinA, F!DrawA, F!WithoutDrawA
  <2> QED
    BY <1>2, <2>1, TwinAStep DEF TwinsInv, F!bVars
<1>3. CASE F!TwinB
  <2>1. UNCHANGED << script, seed, F!aVars >> /\ spun # TRUE
    BY <1>3 DEF F!TwinB, F!DrawB, F!WithoutDrawB
  <2> QED
    BY <1>3, <2>1, TwinBStep DEF TwinsInv, F!aVars
<1> QED
  BY <1>1, <1>2, <1>3 DEF F!Next, F!Tick, F!vars

(* Two generators with one seed, called with one sequence of timestamps,   *)
(* return the same identifiers, whatever the wall clock does and at        *)
(* whatever pace each goes, for every script and every seed, as long as    *)
(* neither exhausts a millisecond (next_deterministic_at,                  *)
(* monotonic.rs:77-85).                                                    *)
THEOREM SeedAndScriptDecide == Spec => []ReproducibleUnlessExhausted
<1>1. Init => (part = "fixtures" => TwinsInv)
  BY InitTwinsInv DEF Init
<1>2. (part = "fixtures" => TwinsInv) /\ [Next]_vars => (part = "fixtures" => TwinsInv)'
  <2> SUFFICES ASSUME part = "fixtures" => TwinsInv, [Next]_vars, part' = "fixtures"
               PROVE  TwinsInv'
    OBVIOUS
  <2>1. part = "fixtures" /\ [F!Next]_(F!vars)
    BY DEF Next, vars, fVars, F!vars, F!aVars, F!bVars
  <2> QED
    BY <2>1, NextTwinsInv
<1>3. (part = "fixtures" => TwinsInv) => ReproducibleUnlessExhausted
  <2> SUFFICES ASSUME TwinsInv, ~spun, NEW i \in 1 .. Len(a_out), i <= Len(b_out)
               PROVE  a_out[i] = b_out[i]
    BY DEF ReproducibleUnlessExhausted, F!ReproducibleUnlessExhausted, F!Agree
  <2>1. spun # TRUE
    BY Zenon
  <2> QED
    BY <2>1, TwinsAgree DEF TwinsInv
<1> QED
  BY <1>1, <1>2, <1>3, PTL DEF Spec

-----------------------------------------------------------------------------
(* The clock and its override.                                             *)

OverrideCalls == { O!Set(ms) : ms \in O!Overrides } \cup {O!Clear, O!NowMs}

\* The set and clear calls of t before its call i, and its now_ms calls up to i.
Changes(t, i) == { j \in 1 .. i - 1 : program[t][j].op \in {"set", "clear"} }
Nows(t, i)    == { j \in 1 .. i : program[t][j] = O!NowMs }

OverrideTypes ==
  /\ program \in [Threads -> Seq(OverrideCalls)]
  /\ MS \in Seq(Int) /\ MS # << >>
  /\ ACTIVE \in Seq(BOOLEAN) /\ ACTIVE # << >>
  /\ seen \in [Threads -> [ms : Nat \ {0}, active : Nat \ {0}]]
  /\ clock \in Int
  /\ next \in [Threads -> Nat \ {0}]
  /\ half \in [Threads -> BOOLEAN]
  /\ results \in [Threads -> Seq(Int)]
  /\ wall \in [Threads -> Seq(BOOLEAN)]

\* One answer for each now_ms call made.
Answered ==
  \A t \in Threads :
    /\ next[t] <= Len(program[t]) + 1
    /\ half[t] => O!At(t, "set") \/ O!At(t, "now")
    /\ Len(results[t]) = Cardinality(Nows(t, next[t] - 1))
    /\ Len(wall[t]) = Len(results[t])

Alone(t) == \A u \in Threads \ {t} : ~O!Writes(u)

\* Call j of t is its last set or clear before the one it is at, and what
\* it stored is the newest value of either atomic; but a set that is half
\* done has already stored its own value in MS.
LastStored(t, j) ==
  /\ \A k \in Changes(t, next[t]) : k <= j
  /\ ACTIVE[Len(ACTIVE)] <=> program[t][j].op = "set"
  /\ program[t][j].op = "set" /\ ~(half[t] /\ O!At(t, "set")) => MS[Len(MS)] = program[t][j].ms

\* A thread that alone writes has seen all that was written.
SeesAll(t) ==
  /\ seen[t].ms = Len(MS) /\ seen[t].active = Len(ACTIVE)
  /\ half[t] /\ O!At(t, "now") => ACTIVE[Len(ACTIVE)]
  /\ half[t] /\ O!At(t, "set") => MS[Len(MS)] = program[t][next[t]].ms
  /\ \/ Changes(t, next[t]) = {} /\ ~ACTIVE[Len(ACTIVE)]
     \/ \E j \in Changes(t, next[t]) : LastStored(t, j)

Obeyed(t) == \A n \in 1 .. Len(results[t]) : O!AsProgrammed(t, n)

OverrideInv ==
  OverrideTypes /\ Answered /\ \A t \in Threads : Alone(t) => SeesAll(t) /\ Obeyed(t)

LEMMA CallKinds ==
  ASSUME NEW x \in OverrideCalls
  PROVE  /\ x.op \in {"set", "clear", "now"}
         /\ x.op = "now" <=> x = O!NowMs
         /\ x.op = "set" => x.ms \in Int
  BY DEF OverrideCalls, O!Overrides, O!Set, O!Clear, O!NowMs

LEMMA NowsStep ==
  ASSUME NEW t, NEW i \in Nat
  PROVE  /\ IsFiniteSet(Nows(t, i)) /\ Cardinality(Nows(t, i)) \in Nat
         /\ program[t][i + 1] = O!NowMs =>
              Cardinality(Nows(t, i + 1)) = Cardinality(Nows(t, i)) + 1
         /\ program[t][i + 1] # O!NowMs => Nows(t, i + 1) = Nows(t, i)
<1>1. IsFiniteSet(1 .. i)
  BY FS_Interval
<1>2. Nows(t, i) \in SUBSET (1 .. i)
  BY DEF Nows
<1>3. IsFiniteSet(Nows(t, i)) /\ Cardinality(Nows(t, i)) \in Nat
  BY <1>1, <1>2, FS_Subset, FS_CardinalityType
<1>4. 1 .. i + 1 = (1 .. i) \cup {i + 1}
  OBVIOUS
<1>5. ASSUME program[t][i + 1] = O!NowMs
      PROVE  Cardinality(Nows(t, i + 1)) = Cardinality(Nows(t, i)) + 1
  <2>1. Nows(t, i + 1) = Nows(t, i) \cup {i + 1} /\ i + 1 \notin Nows(t, i)
    BY <1>4, <1>5 DEF Nows
  <2> QED
    BY <1>3, <2>1, FS_AddElement
<1>6. program[t][i + 1] # O!NowMs => Nows(t, i + 1) = Nows(t, i)
  BY <1>4 DEF Nows
<1> QED
  BY <1>3, <1>5, <1>6

(* What the property means by the n-th now_ms and by the last change.      *)
LEMMA NthNowIs ==
  ASSUME NEW t \in Threads, NEW i \in 1 .. Len(program[t]), Len(program[t]) \in Nat,
         program[t][i] = O!NowMs
  PROVE  O!NthNow(t, Cardinality(Nows(t, i))) = i
<1> DEFINE n == Cardinality(Nows(t, i))
<1>1. \A S : O!Cardinality(S) = Cardinality(S)
  BY DEF O!Cardinality, Cardinality
<1>2. ASSUME NEW k \in 1 .. Len(program[t]), program[t][k] = O!NowMs, Cardinality(Nows(t, k)) = n
      PROVE  k = i
  <2>1. ASSUME NEW a \in Nat, NEW b \in Nat \ {0}, a < b, program[t][b] = O!NowMs,
               Cardinality(Nows(t, a)) = Cardinality(Nows(t, b))
        PROVE  FALSE
    <3>1. Nows(t, a) \in SUBSET Nows(t, b) /\ b \in Nows(t, b) /\ b \notin Nows(t, a)
      BY <2>1 DEF Nows
    <3>2. IsFiniteSet(Nows(t, b))
      BY NowsStep
    <3> QED
      BY <2>1, <3>1, <3>2, FS_Subset
  <2> QED
    BY <1>2, <2>1
<1>3. O!NthNow(t, n) = CHOOSE k \in 1 .. Len(program[t]) :
                         program[t][k] = O!NowMs /\ n = Cardinality(Nows(t, k))
  BY <1>1 DEF O!NthNow, Nows
<1> QED
  BY <1>2, <1>3

LEMMA LastChangeIs ==
  ASSUME NEW t \in Threads, NEW i \in Nat
  PROVE  /\ Changes(t, i) = {} => O!LastChange(t, i) = O!Clear
         /\ \A j \in Changes(t, i) : (\A k \in Changes(t, i) : k <= j) =>
              O!LastChange(t, i) = program[t][j]
<1>1. Changes(t, i) = {} => O!LastChange(t, i) = O!Clear
  BY DEF O!LastChange, Changes
<1>2. ASSUME NEW j \in Changes(t, i), \A k \in Changes(t, i) : k <= j
      PROVE  O!LastChange(t, i) = program[t][j]
  <2>1. (CHOOSE h \in Changes(t, i) : \A k \in Changes(t, i) : k <= h) = j
    BY <1>2 DEF Changes
  <2>2. O!LastChange(t, i) = program[t][CHOOSE h \in Changes(t, i) : \A k \in Changes(t, i) : k <= h]
    BY <1>2 DEF O!LastChange, Changes
  <2> QED
    BY <2>1, <2>2
<1> QED
  BY <1>1, <1>2

\* What was answered stays answered.
LEMMA KeepsAnswer ==
  ASSUME NEW t \in Threads, program' = program, NEW n,
         results'[t][n] = results[t][n], wall'[t][n] = wall[t][n], O!AsProgrammed(t, n)
  PROVE  O!AsProgrammed(t, n)'
<1>1. O!NthNow(t, n)' = O!NthNow(t, n)
  BY DEF O!NthNow
<1>2. ASSUME NEW i PROVE O!LastChange(t, i)' = O!LastChange(t, i)
  BY DEF O!LastChange
<1> QED
  BY <1>1, <1>2 DEF O!AsProgrammed

\* A new answer is of the newest override.
LEMMA NewAnswer ==
  ASSUME NEW t \in Threads, OverrideTypes, Answered, SeesAll(t), O!At(t, "now"), program' = program,
         NEW n, n = Len(results[t]) + 1,
         \/ ~ACTIVE[Len(ACTIVE)] /\ wall'[t][n]
         \/ ACTIVE[Len(ACTIVE)] /\ ~wall'[t][n] /\ results'[t][n] = MS[Len(MS)]
  PROVE  O!AsProgrammed(t, n)'
<1>0. PICK i : i = next[t]
  OBVIOUS
<1>1. /\ i \in 1 .. Len(program[t]) /\ Len(program[t]) \in Nat
      /\ program[t][i].op = "now" /\ program[t][i] \in OverrideCalls
  BY <1>0 DEF OverrideTypes, O!At
<1>2. program[t][i] = O!NowMs
  BY <1>1, CallKinds
<1>3. n = Cardinality(Nows(t, i))
  <2>1. i - 1 \in Nat /\ (i - 1) + 1 = i
    BY <1>1
  <2>2. Cardinality(Nows(t, (i - 1) + 1)) = Cardinality(Nows(t, i - 1)) + 1
    BY <1>2, <2>1, NowsStep
  <2> QED
    BY <1>0, <2>1, <2>2 DEF Answered
<1>4. O!NthNow(t, n) = i
  BY <1>1, <1>2, <1>3, NthNowIs
<1>5. IF O!LastChange(t, i).op = "set"
        THEN ACTIVE[Len(ACTIVE)] /\ O!LastChange(t, i).ms = MS[Len(MS)]
        ELSE ~ACTIVE[Len(ACTIVE)]
  <2>1. CASE Changes(t, i) = {} /\ ~ACTIVE[Len(ACTIVE)]
    BY <1>1, <2>1, LastChangeIs DEF O!Clear
  <2>2. ASSUME NEW j \in Changes(t, i), LastStored(t, j)
        PROVE  IF O!LastChange(t, i).op = "set"
                 THEN ACTIVE[Len(ACTIVE)] /\ O!LastChange(t, i).ms = MS[Len(MS)]
                 ELSE ~ACTIVE[Len(ACTIVE)]
    <3>1. O!LastChange(t, i) = program[t][j]
      BY <1>0, <1>1, <2>2, LastChangeIs DEF LastStored
    <3>2. ~O!At(t, "set")
      BY <1>0, <1>1 DEF O!At
    <3> QED
      BY <2>2, <3>1, <3>2 DEF LastStored
  <2> QED
    BY <1>0, <2>1, <2>2 DEF SeesAll
<1>6. O!NthNow(t, n)' = i
  BY <1>4 DEF O!NthNow
<1>7. O!LastChange(t, i)' = O!LastChange(t, i)
  BY DEF O!LastChange
<1>8. O!LastChange(t, O!NthNow(t, n))' = O!LastChange(t, i)
  BY <1>6, <1>7 DEF O!LastChange
<1> QED
  BY <1>5, <1>8 DEF O!AsProgrammed

LEMMA InitOverrideInv == O!Init => OverrideInv
<1> SUFFICES ASSUME O!Init PROVE OverrideInv
  OBVIOUS
<1>1. OverrideTypes
  <2>1. program \in [Threads -> Seq(OverrideCalls)]
    BY SourcesAssumption DEF O!Init, O!ClockOverrideAssumption, OverrideCalls
  <2>2. << 0 >> \in Seq(Int) /\ << 0 >> # << >> /\ << FALSE >> \in Seq(BOOLEAN) /\ << FALSE >> # << >>
    OBVIOUS
  <2> QED
    BY <2>1, <2>2 DEF O!Init, OverrideTypes
<1>2. ASSUME NEW t \in Threads
      PROVE  /\ next[t] = 1 /\ results[t] = << >> /\ wall[t] = << >> /\ ~half[t]
             /\ seen[t].ms = Len(MS) /\ seen[t].active = Len(ACTIVE) /\ ~ACTIVE[Len(ACTIVE)]
             /\ Len(program[t]) \in Nat
             /\ Changes(t, next[t]) = {} /\ Cardinality(Nows(t, next[t] - 1)) = 0
  <2>1. next[t] = 1 /\ results[t] = << >> /\ wall[t] = << >> /\ half[t] = FALSE
        /\ seen[t].ms = 1 /\ seen[t].active = 1 /\ MS = << 0 >> /\ ACTIVE = << FALSE >>
    BY DEF O!Init
  <2>2. Changes(t, 1) = {} /\ Nows(t, 0) = {} /\ 1 - 1 = 0
    BY DEF Changes, Nows
  <2>3. Cardinality({}) = 0
    BY FS_EmptySet
  <2>4. Len(program[t]) \in Nat
    BY <1>1 DEF OverrideTypes
  <2>5. Changes(t, next[t]) = {} /\ Cardinality(Nows(t, next[t] - 1)) = 0
    BY <2>1, <2>2, <2>3
  <2>6. seen[t].ms = Len(MS) /\ seen[t].active = Len(ACTIVE) /\ ~ACTIVE[Len(ACTIVE)] /\ ~half[t]
    BY <2>1
  <2> QED
    BY <2>1, <2>4, <2>5, <2>6
<1>3. Answered
  <2> SUFFICES ASSUME NEW t \in Threads
               PROVE  /\ next[t] <= Len(program[t]) + 1
                      /\ half[t] => O!At(t, "set") \/ O!At(t, "now")
                      /\ Len(results[t]) = Cardinality(Nows(t, next[t] - 1))
                      /\ Len(wall[t]) = Len(results[t])
    BY DEF Answered
  <2> QED
    BY <1>2
<1>4. ASSUME NEW t \in Threads PROVE SeesAll(t) /\ Obeyed(t)
  BY <1>2 DEF SeesAll, Obeyed
<1> QED
  BY <1>1, <1>3, <1>4 DEF OverrideInv

LEMMA ChangesStep ==
  ASSUME NEW t, NEW i \in Nat \ {0}
  PROVE  /\ program[t][i].op \in {"set", "clear"} => Changes(t, i + 1) = Changes(t, i) \cup {i}
         /\ program[t][i].op \notin {"set", "clear"} => Changes(t, i + 1) = Changes(t, i)
<1>1. 1 .. (i + 1) - 1 = (1 .. i - 1) \cup {i}
  OBVIOUS
<1> QED
  BY <1>1 DEF Changes

(* A thread that alone writes, while nothing of its own moves.             *)
LEMMA Untouched ==
  ASSUME NEW t \in Threads, SeesAll(t), Obeyed(t), program' = program, MS' = MS, ACTIVE' = ACTIVE,
         seen'[t] = seen[t], next'[t] = next[t], half'[t] = half[t],
         results'[t] = results[t], wall'[t] = wall[t]
  PROVE  SeesAll(t)' /\ Obeyed(t)'
<1>1. SeesAll(t)'
  BY DEF SeesAll, LastStored, Changes, O!At
<1>2. Obeyed(t)'
  BY KeepsAnswer DEF Obeyed
<1> QED
  BY <1>1, <1>2

LEMMA StoreMsTypes ==
  ASSUME OverrideInv, NEW u \in Threads, O!StoreMs(u), program' = program
  PROVE  OverrideTypes' /\ Answered'
<1> DEFINE ms == program[u][next[u]].ms
<1>1. /\ O!At(u, "set") /\ MS' = Append(MS, ms) /\ seen' = [seen EXCEPT ![u].ms = Len(MS')]
      /\ half' = [half EXCEPT ![u] = TRUE] /\ UNCHANGED << next, ACTIVE, clock, results, wall >>
  BY DEF O!StoreMs, O!Halfway
<1>2. ms \in Int
  <2>1. program[u][next[u]] \in OverrideCalls /\ program[u][next[u]].op = "set"
    BY <1>1 DEF OverrideInv, OverrideTypes, O!At
  <2> QED
    BY <2>1, CallKinds
<1> HIDE DEF ms
<1>3. MS' \in Seq(Int) /\ MS' # << >> /\ Len(MS') \in Nat \ {0}
  <2>1. MS \in Seq(Int)
    BY DEF OverrideInv, OverrideTypes
  <2>2. Append(MS, ms) \in Seq(Int) /\ Len(Append(MS, ms)) = Len(MS) + 1 /\ Len(MS) \in Nat
    BY <1>2, <2>1
  <2>3. MS' \in Seq(Int) /\ Len(MS') \in Nat \ {0}
    BY <1>1, <2>2
  <2> QED
    BY <2>3
<1>4. seen' \in [Threads -> [ms : Nat \ {0}, active : Nat \ {0}]]
  BY <1>1, <1>3 DEF OverrideInv, OverrideTypes
<1>5. half' \in [Threads -> BOOLEAN]
  BY <1>1 DEF OverrideInv, OverrideTypes
<1>6. OverrideTypes'
  BY <1>1, <1>3, <1>4, <1>5 DEF OverrideInv, OverrideTypes
<1>7. Answered'
  BY <1>1 DEF OverrideInv, OverrideTypes, Answered, O!At, Nows
<1> QED
  BY <1>6, <1>7

LEMMA StoreActiveTypes ==
  ASSUME OverrideInv, NEW u \in Threads, O!StoreActive(u), program' = program
  PROVE  OverrideTypes' /\ Answered'
<1>1. PICK w \in BOOLEAN : w = (program[u][next[u]].op = "set")
  OBVIOUS
<1>2. /\ O!At(u, "set") \/ O!At(u, "clear")
      /\ ACTIVE' = Append(ACTIVE, w) /\ seen' = [seen EXCEPT ![u].active = Len(ACTIVE')]
      /\ half' = [half EXCEPT ![u] = FALSE] /\ next' = [next EXCEPT ![u] = @ + 1]
      /\ UNCHANGED << MS, clock, results, wall >>
  BY <1>1 DEF O!StoreActive, O!Finish
<1>3. ACTIVE' \in Seq(BOOLEAN) /\ ACTIVE' # << >> /\ Len(ACTIVE') \in Nat \ {0}
  <2>1. ACTIVE \in Seq(BOOLEAN)
    BY DEF OverrideInv, OverrideTypes
  <2>2. /\ Append(ACTIVE, w) \in Seq(BOOLEAN)
        /\ Len(Append(ACTIVE, w)) = Len(ACTIVE) + 1 /\ Len(ACTIVE) \in Nat
    BY <1>1, <2>1
  <2>3. ACTIVE' \in Seq(BOOLEAN) /\ Len(ACTIVE') \in Nat \ {0}
    BY <1>2, <2>2
  <2> QED
    BY <2>3
<1>4. seen' \in [Threads -> [ms : Nat \ {0}, active : Nat \ {0}]]
  BY <1>2, <1>3 DEF OverrideInv, OverrideTypes
<1>5. half' \in [Threads -> BOOLEAN]
  BY <1>2 DEF OverrideInv, OverrideTypes
<1>6. next' \in [Threads -> Nat \ {0}]
  BY <1>2 DEF OverrideInv, OverrideTypes
<1>7. OverrideTypes'
  BY <1>2, <1>3, <1>4, <1>5, <1>6 DEF OverrideInv, OverrideTypes
<1>8. Nows(u, next[u]) = Nows(u, next[u] - 1)
  <2>1. program[u][next[u]] # O!NowMs
    BY <1>2 DEF O!At, O!NowMs
  <2>2. next[u] - 1 \in Nat /\ (next[u] - 1) + 1 = next[u]
    BY DEF OverrideInv, OverrideTypes
  <2>3. Nows(u, (next[u] - 1) + 1) = Nows(u, next[u] - 1)
    BY <2>1, <2>2, NowsStep
  <2> QED
    BY <2>2, <2>3
<1>9. Answered'
  <2> SUFFICES ASSUME NEW t \in Threads
               PROVE  /\ next'[t] <= Len(program[t]) + 1
                      /\ half'[t] => O!At(t, "set")' \/ O!At(t, "now")'
                      /\ Len(results[t]) = Cardinality(Nows(t, next[t] - 1)')
                      /\ Len(wall[t]) = Len(results[t])
    BY <1>2 DEF Answered
  <2>1. CASE t = u
    <3>1. next'[u] = next[u] + 1 /\ half'[u] = FALSE /\ next'[u] - 1 = next[u] /\ next[u] \in Nat
      BY <1>2 DEF OverrideInv, OverrideTypes
    <3>2. next[u] <= Len(program[u]) /\ Len(program[u]) \in Nat
      BY <1>2 DEF OverrideInv, OverrideTypes, O!At
    <3>3. Nows(u, next[u] - 1)' = Nows(u, next[u] - 1)
      BY <1>8, <3>1 DEF Nows
    <3> QED
      BY <2>1, <3>1, <3>2, <3>3 DEF OverrideInv, Answered
  <2>2. CASE t # u
    <3>1. next'[t] = next[t] /\ half'[t] = half[t]
      BY <1>2, <2>2 DEF OverrideInv, OverrideTypes
    <3>2. Nows(t, next[t] - 1)' = Nows(t, next[t] - 1)
      BY <3>1 DEF Nows
    <3>3. O!At(t, "set")' = O!At(t, "set") /\ O!At(t, "now")' = O!At(t, "now")
      BY <3>1 DEF O!At
    <3> QED
      BY <3>1, <3>2, <3>3 DEF OverrideInv, Answered
  <2> QED
    BY <2>1, <2>2
<1> QED
  BY <1>7, <1>9

LEMMA AnswerTypes ==
  ASSUME OverrideInv, NEW u \in Threads, O!At(u, "now"), O!Finish(u),
         NEW ms \in Int, NEW w \in BOOLEAN, O!Answer(u, ms, w),
         seen' \in [Threads -> [ms : Nat \ {0}, active : Nat \ {0}]], UNCHANGED << program, MS, ACTIVE, clock >>
  PROVE  OverrideTypes' /\ Answered'
<1>1. /\ half' = [half EXCEPT ![u] = FALSE] /\ next' = [next EXCEPT ![u] = @ + 1]
      /\ results' = [results EXCEPT ![u] = Append(results[u], ms)]
      /\ wall' = [wall EXCEPT ![u] = Append(wall[u], w)]
  BY DEF O!Finish, O!Answer
<1>2. /\ half \in [Threads -> BOOLEAN] /\ next \in [Threads -> Nat \ {0}]
      /\ results \in [Threads -> Seq(Int)] /\ wall \in [Threads -> Seq(BOOLEAN)]
  BY DEF OverrideInv, OverrideTypes
<1>3. /\ Append(results[u], ms) \in Seq(Int) /\ Len(Append(results[u], ms)) = Len(results[u]) + 1
      /\ Append(wall[u], w) \in Seq(BOOLEAN) /\ Len(Append(wall[u], w)) = Len(wall[u]) + 1
  BY <1>2
<1>4. half' \in [Threads -> BOOLEAN] /\ next' \in [Threads -> Nat \ {0}]
  BY <1>1, <1>2
<1>5. results' \in [Threads -> Seq(Int)] /\ wall' \in [Threads -> Seq(BOOLEAN)]
  BY <1>1, <1>2, <1>3
<1>6. OverrideTypes'
  BY <1>4, <1>5 DEF OverrideInv, OverrideTypes
<1>7. Cardinality(Nows(u, next[u])) = Cardinality(Nows(u, next[u] - 1)) + 1
  <2>1. program[u][next[u]] \in OverrideCalls /\ program[u][next[u]].op = "now"
    BY DEF OverrideInv, OverrideTypes, O!At
  <2>2. program[u][next[u]] = O!NowMs
    BY <2>1, CallKinds
  <2>3. next[u] - 1 \in Nat /\ (next[u] - 1) + 1 = next[u]
    BY <1>2
  <2>4. Cardinality(Nows(u, (next[u] - 1) + 1)) = Cardinality(Nows(u, next[u] - 1)) + 1
    BY <2>2, <2>3, NowsStep
  <2> QED
    BY <2>3, <2>4
<1>8. Answered'
  <2> SUFFICES ASSUME NEW t \in Threads
               PROVE  /\ next'[t] <= Len(program[t]) + 1
                      /\ half'[t] => O!At(t, "set")' \/ O!At(t, "now")'
                      /\ Len(results'[t]) = Cardinality(Nows(t, next[t] - 1)')
                      /\ Len(wall'[t]) = Len(results'[t])
    BY DEF Answered
  <2>1. CASE t = u
    <3>1. next'[u] = next[u] + 1 /\ half'[u] = FALSE /\ next'[u] - 1 = next[u] /\ next[u] \in Nat
      BY <1>1, <1>2
    <3>2. next[u] <= Len(program[u]) /\ Len(program[u]) \in Nat
      BY DEF OverrideInv, OverrideTypes, O!At
    <3>3. Nows(u, next[u] - 1)' = Nows(u, next[u])
      BY <3>1 DEF Nows
    <3>4. /\ Len(results'[u]) = Len(results[u]) + 1 /\ Len(wall'[u]) = Len(wall[u]) + 1
      BY <1>1, <1>2, <1>3
    <3>5. Len(results[u]) = Cardinality(Nows(u, next[u] - 1)) /\ Len(wall[u]) = Len(results[u])
      BY DEF OverrideInv, Answered
    <3>6. Nows(u, next[u] - 1)' = Nows(u, next[u]) /\ program' = program
      BY <3>3
    <3>7. next'[u] <= Len(program[u]) + 1
      BY <3>1, <3>2
    <3>8. Len(results'[u]) = Cardinality(Nows(u, next[u]))
      BY <1>7, <3>4, <3>5
    <3>9. Len(wall'[u]) = Len(results'[u])
      BY <3>4, <3>5
    <3> QED
      BY <2>1, <3>1, <3>6, <3>7, <3>8, <3>9
  <2>2. CASE t # u
    <3>1. next'[t] = next[t] /\ half'[t] = half[t] /\ results'[t] = results[t] /\ wall'[t] = wall[t]
      BY <1>1, <1>2, <2>2
    <3>2. Nows(t, next[t] - 1)' = Nows(t, next[t] - 1)
      BY <3>1 DEF Nows
    <3>3. O!At(t, "set")' = O!At(t, "set") /\ O!At(t, "now")' = O!At(t, "now")
      BY <3>1 DEF O!At
    <3> QED
      BY <3>1, <3>2, <3>3 DEF OverrideInv, Answered
  <2> QED
    BY <2>1, <2>2
<1> QED
  BY <1>6, <1>8

LEMMA LoadTypes ==
  ASSUME OverrideInv, NEW u \in Threads, O!LoadActive(u) \/ O!LoadMs(u), program' = program
  PROVE  OverrideTypes' /\ Answered'
<1>1. CASE O!LoadActive(u)
  <2>1. PICK i \in seen[u].active .. Len(ACTIVE) :
          /\ seen' = [seen EXCEPT ![u].active = i]
          /\ IF ACTIVE[i] THEN O!Halfway(u) /\ UNCHANGED << results, wall >>
                          ELSE O!Finish(u) /\ O!Answer(u, clock, TRUE)
    BY <1>1 DEF O!LoadActive
  <2>2. O!At(u, "now") /\ UNCHANGED << MS, ACTIVE, clock >>
    BY <1>1 DEF O!LoadActive
  <2>3. i \in Nat \ {0}
    BY DEF OverrideInv, OverrideTypes
  <2>4. seen' \in [Threads -> [ms : Nat \ {0}, active : Nat \ {0}]]
    BY <2>1, <2>3 DEF OverrideInv, OverrideTypes
  <2>5. CASE ACTIVE[i]
    <3>1. half' = [half EXCEPT ![u] = TRUE] /\ UNCHANGED << next, results, wall >>
      BY <2>1, <2>5 DEF O!Halfway
    <3>2. half' \in [Threads -> BOOLEAN]
      BY <3>1 DEF OverrideInv, OverrideTypes
    <3>3. OverrideTypes'
      BY <2>2, <2>4, <3>1, <3>2 DEF OverrideInv, OverrideTypes
    <3>4. Answered'
      BY <2>2, <3>1 DEF OverrideInv, OverrideTypes, Answered, O!At, Nows
    <3> QED
      BY <3>3, <3>4
  <2>6. CASE ~ACTIVE[i]
    BY <2>1, <2>2, <2>4, <2>6, AnswerTypes DEF OverrideInv, OverrideTypes
  <2> QED
    BY <2>5, <2>6
<1>2. CASE O!LoadMs(u)
  <2>1. PICK i \in seen[u].ms .. Len(MS) :
          seen' = [seen EXCEPT ![u].ms = i] /\ O!Answer(u, MS[i], FALSE)
    BY <1>2 DEF O!LoadMs
  <2>2. O!At(u, "now") /\ O!Finish(u) /\ UNCHANGED << MS, ACTIVE, clock >>
    BY <1>2 DEF O!LoadMs
  <2>3. i \in Nat \ {0}
    BY DEF OverrideInv, OverrideTypes
  <2>4. seen' \in [Threads -> [ms : Nat \ {0}, active : Nat \ {0}]]
    BY <2>1, <2>3 DEF OverrideInv, OverrideTypes
  <2>5. MS[i] \in Int
    BY <2>3 DEF OverrideInv, OverrideTypes
  <2> QED
    BY <2>1, <2>2, <2>4, <2>5, AnswerTypes
<1> QED
  BY <1>1, <1>2

(* What a thread that alone writes does itself.                            *)
LEMMA StoreMsSeesAll ==
  ASSUME OverrideInv, NEW t \in Threads, SeesAll(t), Obeyed(t), O!StoreMs(t), program' = program
  PROVE  SeesAll(t)' /\ Obeyed(t)'
<1> DEFINE ms == program[t][next[t]].ms
<1>1. /\ O!At(t, "set") /\ MS' = Append(MS, ms) /\ seen' = [seen EXCEPT ![t].ms = Len(MS')]
      /\ half' = [half EXCEPT ![t] = TRUE] /\ UNCHANGED << next, ACTIVE, clock, results, wall >>
  BY DEF O!StoreMs, O!Halfway
<1> HIDE DEF ms
<1>2. MS'[Len(MS')] = ms
  <2>1. MS \in Seq(Int)
    BY DEF OverrideInv, OverrideTypes
  <2> QED
    BY <1>1, <2>1
<1>3. /\ half'[t] = TRUE /\ seen'[t].ms = Len(MS') /\ seen'[t].active = seen[t].active
  BY <1>1 DEF OverrideInv, OverrideTypes
<1>4. O!At(t, "set")' /\ ~O!At(t, "now")' /\ Changes(t, next[t])' = Changes(t, next[t])
  BY <1>1 DEF O!At, Changes
<1>5. ASSUME NEW j \in Changes(t, next[t]), LastStored(t, j) PROVE LastStored(t, j)'
  BY <1>1, <1>3, <1>4, <1>5 DEF LastStored
<1>6. SeesAll(t)'
  BY <1>1, <1>2, <1>3, <1>4, <1>5 DEF SeesAll, ms
<1>7. Obeyed(t)'
  BY <1>1, KeepsAnswer DEF Obeyed
<1> QED
  BY <1>6, <1>7

LEMMA StoreActiveSeesAll ==
  ASSUME OverrideInv, NEW t \in Threads, SeesAll(t), Obeyed(t), O!StoreActive(t), program' = program
  PROVE  SeesAll(t)' /\ Obeyed(t)'
<1>1. PICK i \in Nat \ {0} : i = next[t]
  BY DEF OverrideInv, OverrideTypes
<1>2. /\ (half[t] /\ program[t][i].op = "set") \/ program[t][i].op = "clear"
      /\ i <= Len(program[t])
      /\ half[t] /\ O!At(t, "set") => MS[Len(MS)] = program[t][i].ms
      /\ program[t][i].op = "set" => O!At(t, "set")
  BY <1>1 DEF O!StoreActive, O!At, SeesAll
<1>3. PICK w \in BOOLEAN : w = (program[t][i].op = "set")
  OBVIOUS
<1>4. /\ ACTIVE' = Append(ACTIVE, w) /\ seen' = [seen EXCEPT ![t].active = Len(ACTIVE')]
      /\ half' = [half EXCEPT ![t] = FALSE] /\ next' = [next EXCEPT ![t] = @ + 1]
      /\ UNCHANGED << MS, clock, results, wall >>
  BY <1>1, <1>3 DEF O!StoreActive, O!Finish
<1>5. ACTIVE'[Len(ACTIVE')] = w
  <2>1. ACTIVE \in Seq(BOOLEAN)
    BY DEF OverrideInv, OverrideTypes
  <2> QED
    BY <1>4, <2>1
<1>6. /\ half'[t] = FALSE /\ seen'[t].active = Len(ACTIVE') /\ seen'[t].ms = seen[t].ms
      /\ next'[t] = i + 1
  BY <1>1, <1>4 DEF OverrideInv, OverrideTypes
<1>7. Changes(t, next[t])' = Changes(t, i) \cup {i}
  <2>1. Changes(t, i + 1) = Changes(t, i) \cup {i}
    BY <1>2, ChangesStep
  <2>2. Changes(t, next[t])' = Changes(t, i + 1)
    BY <1>6 DEF Changes
  <2> QED
    BY <2>1, <2>2
<1>8. LastStored(t, i)'
  <2>1. \A k \in Changes(t, next[t])' : k <= i
    BY <1>7 DEF Changes
  <2>2. program[t][i].op = "set" => MS[Len(MS)] = program[t][i].ms
    BY <1>2
  <2>3. ACTIVE'[Len(ACTIVE')] <=> program[t][i].op = "set"
    <3>1. CASE w = TRUE
      <4>1. program[t][i].op = "set"
        BY <1>3, <3>1, Zenon
      <4>2. ACTIVE'[Len(ACTIVE')] = TRUE
        BY <1>5, <3>1
      <4> QED
        BY <4>1, <4>2
    <3>2. CASE w = FALSE
      <4>1. program[t][i].op # "set"
        BY <1>3, <3>2, Zenon
      <4>2. ACTIVE'[Len(ACTIVE')] = FALSE
        BY <1>5, <3>2
      <4> QED
        BY <4>1, <4>2
    <3> QED
      BY <3>1, <3>2
  <2> QED
    BY <1>4, <2>1, <2>2, <2>3 DEF LastStored
<1>9. i \in Changes(t, next[t])'
  BY <1>7
<1>10. SeesAll(t)'
  BY <1>4, <1>6, <1>8, <1>9 DEF SeesAll
<1>11. Obeyed(t)'
  BY <1>4, KeepsAnswer DEF Obeyed
<1> QED
  BY <1>10, <1>11

LEMMA AnswerSeesAll ==
  ASSUME OverrideInv, NEW t \in Threads, SeesAll(t), Obeyed(t), O!At(t, "now"), O!Finish(t),
         NEW ms \in Int, NEW w \in BOOLEAN, O!Answer(t, ms, w),
         \/ ~ACTIVE[Len(ACTIVE)] /\ w = TRUE
         \/ ACTIVE[Len(ACTIVE)] /\ w = FALSE /\ ms = MS[Len(MS)],
         seen'[t] = seen[t], UNCHANGED << program, MS, ACTIVE, clock >>
  PROVE  SeesAll(t)' /\ Obeyed(t)'
<1>1. PICK i \in Nat \ {0} : i = next[t]
  BY DEF OverrideInv, OverrideTypes
<1>2. program[t][i].op = "now" /\ ~O!At(t, "set")
  BY <1>1 DEF O!At
<1>3. /\ half'[t] = FALSE /\ next'[t] = i + 1
      /\ results'[t] = Append(results[t], ms) /\ wall'[t] = Append(wall[t], w)
  BY <1>1 DEF O!Finish, O!Answer, OverrideInv, OverrideTypes
<1>4. Changes(t, next[t])' = Changes(t, i)
  <2>1. Changes(t, i + 1) = Changes(t, i)
    BY <1>2, ChangesStep
  <2>2. Changes(t, next[t])' = Changes(t, i + 1)
    BY <1>3 DEF Changes
  <2> QED
    BY <2>1, <2>2
<1>5. ASSUME NEW j \in Changes(t, i), LastStored(t, j) PROVE LastStored(t, j)'
  BY <1>1, <1>2, <1>3, <1>4, <1>5 DEF LastStored
<1>6. SeesAll(t)'
  BY <1>1, <1>3, <1>4, <1>5 DEF SeesAll
<1>7. /\ results[t] \in Seq(Int) /\ wall[t] \in Seq(BOOLEAN) /\ Len(wall[t]) = Len(results[t])
  BY DEF OverrideInv, OverrideTypes, Answered
<1>8. PICK n \in Nat : n = Len(results[t]) + 1
  BY <1>7
<1>9. /\ Len(results'[t]) = n /\ results'[t][n] = ms /\ wall'[t][n] = w
      /\ \A k \in 1 .. Len(results[t]) : results'[t][k] = results[t][k] /\ wall'[t][k] = wall[t][k]
  BY <1>3, <1>7, <1>8
<1>10. O!AsProgrammed(t, n)'
  <2>1. \/ ~ACTIVE[Len(ACTIVE)] /\ wall'[t][n]
        \/ ACTIVE[Len(ACTIVE)] /\ ~wall'[t][n] /\ results'[t][n] = MS[Len(MS)]
    BY <1>9
  <2> QED
    BY <1>8, <2>1, NewAnswer DEF OverrideInv
<1>11. ASSUME NEW k \in 1 .. Len(results'[t]) PROVE O!AsProgrammed(t, k)'
  <2>1. CASE k = n
    BY <1>10, <2>1
  <2>2. CASE k # n
    <3>1. k \in 1 .. Len(results[t])
      BY <1>7, <1>8, <1>9, <2>2
    <3> QED
      BY <1>9, <3>1, KeepsAnswer DEF Obeyed
  <2> QED
    BY <2>1, <2>2
<1>12. Obeyed(t)'
  BY <1>11 DEF Obeyed
<1> QED
  BY <1>6, <1>12

LEMMA LoadSeesAll ==
  ASSUME OverrideInv, NEW t \in Threads, SeesAll(t), Obeyed(t),
         O!LoadActive(t) \/ O!LoadMs(t), program' = program
  PROVE  SeesAll(t)' /\ Obeyed(t)'
<1>1. /\ ACTIVE \in Seq(BOOLEAN) /\ Len(ACTIVE) \in Nat /\ MS \in Seq(Int) /\ Len(MS) \in Nat \ {0}
      /\ clock \in Int
      /\ seen \in [Threads -> [ms : Nat \ {0}, active : Nat \ {0}]]
      /\ seen[t].ms = Len(MS) /\ seen[t].active = Len(ACTIVE)
  BY DEF OverrideInv, OverrideTypes, SeesAll
<1>2. CASE O!LoadActive(t)
  <2>1. PICK i \in seen[t].active .. Len(ACTIVE) :
          /\ seen' = [seen EXCEPT ![t].active = i]
          /\ IF ACTIVE[i] THEN O!Halfway(t) /\ UNCHANGED << results, wall >>
                          ELSE O!Finish(t) /\ O!Answer(t, clock, TRUE)
    BY <1>2 DEF O!LoadActive
  <2>2. O!At(t, "now") /\ UNCHANGED << MS, ACTIVE, clock >>
    BY <1>2 DEF O!LoadActive
  <2>3. i = Len(ACTIVE)
    BY <1>1
  <2>4. seen'[t] = seen[t]
    BY <1>1, <2>1, <2>3
  <2>5. CASE ACTIVE[Len(ACTIVE)]
    <3>1. half' = [half EXCEPT ![t] = TRUE] /\ UNCHANGED << next, results, wall >>
      BY <2>1, <2>3, <2>5 DEF O!Halfway
    <3>2. ~O!At(t, "set")' /\ ~O!At(t, "set") /\ Changes(t, next[t])' = Changes(t, next[t])
      BY <2>2, <3>1 DEF O!At, Changes
    <3>3. ASSUME NEW j \in Changes(t, next[t]), LastStored(t, j) PROVE LastStored(t, j)'
      BY <2>2, <3>1, <3>2, <3>3 DEF LastStored
    <3>4. SeesAll(t)'
      BY <2>2, <2>4, <2>5, <3>1, <3>2, <3>3 DEF SeesAll
    <3>5. Obeyed(t)'
      BY <3>1, KeepsAnswer DEF Obeyed
    <3> QED
      BY <3>4, <3>5
  <2>6. CASE ~ACTIVE[Len(ACTIVE)]
    <3>1. O!Finish(t) /\ O!Answer(t, clock, TRUE)
      BY <2>1, <2>3, <2>6
    <3> QED
      BY <1>1, <2>2, <2>4, <2>6, <3>1, AnswerSeesAll
  <2> QED
    BY <2>5, <2>6
<1>3. CASE O!LoadMs(t)
  <2>1. PICK i \in seen[t].ms .. Len(MS) :
          seen' = [seen EXCEPT ![t].ms = i] /\ O!Answer(t, MS[i], FALSE)
    BY <1>3 DEF O!LoadMs
  <2>2. O!At(t, "now") /\ half[t] /\ O!Finish(t) /\ UNCHANGED << MS, ACTIVE, clock >>
    BY <1>3 DEF O!LoadMs
  <2>3. i = Len(MS)
    BY <1>1
  <2>4. seen'[t] = seen[t]
    BY <1>1, <2>1, <2>3
  <2>5. ACTIVE[Len(ACTIVE)]
    BY <2>2 DEF SeesAll
  <2>6. O!Answer(t, MS[Len(MS)], FALSE)
    BY <2>1, <2>3
  <2>7. MS[Len(MS)] \in Int
    BY <1>1
  <2> QED
    BY <2>2, <2>4, <2>5, <2>6, <2>7, AnswerSeesAll
<1> QED
  BY <1>2, <1>3

LEMMA NextOverrideInv ==
  ASSUME OverrideInv, [O!Next]_(O!vars) PROVE OverrideInv'
<1>1. CASE UNCHANGED O!vars
  <2>1. OverrideTypes' /\ Answered'
    BY <1>1 DEF O!vars, OverrideInv, OverrideTypes, Answered, O!At, Nows
  <2>2. ASSUME NEW t \in Threads, Alone(t)' PROVE SeesAll(t)' /\ Obeyed(t)'
    <3>1. Alone(t)
      BY <1>1, <2>2 DEF O!vars, Alone, O!Writes
    <3> QED
      BY <1>1, <3>1, Untouched DEF O!vars, OverrideInv
  <2> QED
    BY <2>1, <2>2 DEF OverrideInv
<1>2. CASE O!Tick /\ UNCHANGED program
  <2>1. OverrideTypes'
    BY <1>2 DEF O!Tick, OverrideInv, OverrideTypes
  <2>2. Answered'
    BY <1>2 DEF O!Tick, OverrideInv, Answered, O!At, Nows
  <2>3. ASSUME NEW t \in Threads, Alone(t)' PROVE SeesAll(t)' /\ Obeyed(t)'
    <3>1. Alone(t)
      BY <1>2, <2>3 DEF Alone, O!Writes
    <3> QED
      BY <1>2, <3>1, Untouched DEF O!Tick, OverrideInv
  <2> QED
    BY <2>1, <2>2, <2>3 DEF OverrideInv
<1>3. ASSUME NEW u \in Threads, O!Step(u), program' = program PROVE OverrideInv'
  <2>1. OverrideTypes' /\ Answered'
    BY <1>3, StoreMsTypes, StoreActiveTypes, LoadTypes DEF O!Step
  <2>2. ASSUME NEW t \in Threads, Alone(t)' PROVE SeesAll(t)' /\ Obeyed(t)'
    <3>1. Alone(t)
      BY <1>3, <2>2 DEF Alone, O!Writes
    <3>2. SeesAll(t) /\ Obeyed(t)
      BY <3>1 DEF OverrideInv
    <3>3. CASE t = u
      BY <1>3, <3>2, <3>3, StoreMsSeesAll, StoreActiveSeesAll, LoadSeesAll DEF O!Step
    <3>4. CASE t # u
      <4>1. ~O!At(u, "set") /\ ~O!At(u, "clear")
        <5>1. program[u] \in Seq(OverrideCalls) /\ next[u] \in Nat \ {0}
          BY DEF OverrideInv, OverrideTypes
        <5>2. ~O!Writes(u)
          BY <3>1, <3>4 DEF Alone
        <5>3. next[u] <= Len(program[u]) => program[u][next[u]].op = "now"
          BY <5>1, <5>2 DEF O!Writes
        <5> QED
          BY <5>3 DEF O!At
      <4>2. O!LoadActive(u) \/ O!LoadMs(u)
        BY <1>3, <4>1 DEF O!Step, O!StoreMs, O!StoreActive
      <4>3. /\ MS' = MS /\ ACTIVE' = ACTIVE /\ seen'[t] = seen[t] /\ next'[t] = next[t]
            /\ half'[t] = half[t] /\ results'[t] = results[t] /\ wall'[t] = wall[t]
        <5>1. MS' = MS /\ ACTIVE' = ACTIVE
          BY <4>2 DEF O!LoadActive, O!LoadMs
        <5>2. seen'[t] = seen[t]
          <6>1. \/ \E i : seen' = [seen EXCEPT ![u].active = i]
                \/ \E i : seen' = [seen EXCEPT ![u].ms = i]
            BY <4>2 DEF O!LoadActive, O!LoadMs
          <6>2. DOMAIN seen = Threads
            BY DEF OverrideInv, OverrideTypes
          <6> QED
            BY <3>4, <6>1, <6>2
        <5>3. next'[t] = next[t] /\ half'[t] = half[t]
          <6>1. O!Finish(u) \/ O!Halfway(u)
            BY <4>2 DEF O!LoadActive, O!LoadMs
          <6>2. DOMAIN next = Threads /\ DOMAIN half = Threads
            BY DEF OverrideInv, OverrideTypes
          <6> QED
            BY <3>4, <6>1, <6>2 DEF O!Finish, O!Halfway
        <5>4. results'[t] = results[t] /\ wall'[t] = wall[t]
          <6>1. UNCHANGED << results, wall >> \/ \E ms, w : O!Answer(u, ms, w)
            BY <4>2 DEF O!LoadActive, O!LoadMs
          <6>2. DOMAIN results = Threads /\ DOMAIN wall = Threads
            BY DEF OverrideInv, OverrideTypes
          <6> QED
            BY <3>4, <6>1, <6>2 DEF O!Answer
        <5> QED
          BY <5>1, <5>2, <5>3, <5>4
      <4> QED
        BY <1>3, <3>2, <4>3, Untouched
    <3> QED
      BY <3>3, <3>4
  <2> QED
    BY <2>1, <2>2 DEF OverrideInv
<1> QED
  BY <1>1, <1>2, <1>3 DEF O!Next, O!Done

(* The only thread that sets and clears the override gets what it set, and *)
(* the wall clock after a clear, for every program and every number of     *)
(* threads, although both atomics are relaxed (set_clock_override,         *)
(* lib.rs:78-79).                                                          *)
THEOREM SoleWriterIsObeyed == Spec => []SoleWriterObeyed
<1>1. Init => (part = "override" => OverrideInv)
  BY InitOverrideInv DEF Init
<1>2. (part = "override" => OverrideInv) /\ [Next]_vars => (part = "override" => OverrideInv)'
  <2> SUFFICES ASSUME part = "override" => OverrideInv, [Next]_vars, part' = "override"
               PROVE  OverrideInv'
    OBVIOUS
  <2>1. part = "override" /\ [O!Next]_(O!vars)
    BY DEF Next, vars, oVars, O!vars
  <2> QED
    BY <2>1, NextOverrideInv
<1>3. (part = "override" => OverrideInv) => SoleWriterObeyed
  BY DEF OverrideInv, Alone, Obeyed, SoleWriterObeyed, O!SoleWriterObeyed
<1> QED
  BY <1>1, <1>2, <1>3, PTL DEF Spec

=============================================================================
