------------------------------ MODULE FillIds ------------------------------
(***************************************************************************)
(* The Prisma extension of packages/prisma/src/index.ts under concurrent   *)
(* requests, answers that are given up, and retries with the same data.    *)
(* Its handlers fill missing keys in place and pass the statement on.  The *)
(* Prisma client and the database are seen from there: the client hands a  *)
(* handler the caller's own row objects or copies of them, the database    *)
(* runs a statement whole or not at all, some time after it was sent, and  *)
(* has one unique key without a default.                                   *)
(*                                                                         *)
(* Identifiers of either family are numbers, given out in order: no two    *)
(* calls of the core return one twice.                                     *)
(***************************************************************************)
EXTENDS Integers, Sequences, FiniteSetsExt

CONSTANTS
  Callers,      \* Those who send requests.
  Rows,         \* Row objects of the callers.
  Supplied,     \* Rows that come with a key.
  Requests,     \* [model, isArray, data], data a sequence of rows.
  models,       \* The option: models to fill, {} for all.
  MaxSends      \* Bound on the statements sent.

\* Requests are lists of rows; at most one row comes with a key, number 1.
FillIdsAssumption ==
  /\ \A q \in Requests : q.data \in Seq(Rows) /\ q.isArray \in BOOLEAN
  /\ \A r, s \in Supplied : r = s

VARIABLES
  handed,       \* What the client hands a handler: "own" rows or "copies".
  key,          \* key[r]: the field of row r, or NoKey.
  next,         \* The next identifier.
  status,       \* status[c]: idle, waiting, stored, rejected, failed or gave_up.
  waits,        \* waits[c]: the statement c waits for.
  sends,        \* Statements sent.
  inflight,     \* Statements the database has not run.
  table,        \* Stored rows, as [row, key].
  refused       \* Statements the database has refused.

vars == << handed, key, next, status, waits, sends, inflight, table, refused >>

NoKey == 0

Init ==
  /\ handed \in {"own", "copies"}
  /\ key = [r \in Rows |-> IF r \in Supplied THEN 1 ELSE NoKey]
  /\ next = 2
  /\ status = [c \in Callers |-> "idle"]
  /\ waits = [c \in Callers |-> 0]
  /\ sends = 0
  /\ inflight = {} /\ table = {} /\ refused = {}

-----------------------------------------------------------------------------
shouldFill(model) == models = {} \/ model \in models

\* Where a sequence of rows lacks keys.
missing(data) == { i \in DOMAIN data : key[data[i]] = NoKey }

Count(S, i) == Cardinality({ j \in S : j <= i })

\* Mutant: the identifiers are counted over all rows, and run out.
Generated_ByRow(data, i) ==
  IF i <= Cardinality(missing(data)) THEN next + i - 1 ELSE NoKey

\* ids[i], for the i-th missing one.
Generated(data, i) == next + Count(missing(data), i) - 1

\* Mutant: the handler fills rows of its own.
fillIds_Copies(data) == UNCHANGED key

\* The caller's rows are written, the last of equal objects last; copies are
\* separate objects.
fillIds(data) ==
  key' = IF handed = "copies" THEN key
         ELSE [r \in Rows |-> LET at == { i \in missing(data) : data[i] = r }
                              IN  IF at = {} THEN key[r] ELSE Generated(data, Max(at))]

\* What the statement holds, as it is passed on.
Filled(data) ==
  [i \in DOMAIN data |->
     IF handed = "own" /\ key'[data[i]] # NoKey THEN key'[data[i]]
     ELSE IF i \in missing(data) THEN Generated(data, i) ELSE key[data[i]]]

Statement(c, data, keys, filled) ==
  [by |-> c, n |-> sends + 1, data |-> data, keys |-> keys, filled |-> filled]

\* The handler passes a statement on, and c waits for its answer.
query(c, data, keys, filled) ==
  /\ inflight' = inflight \cup { Statement(c, data, keys, filled) }
  /\ status' = [status EXCEPT ![c] = "waiting"]
  /\ waits' = [waits EXCEPT ![c] = sends + 1]

\* createMany with a single object has no `filter`; the core throws before a
\* row is written.
Throws(c, q) ==
  /\ shouldFill(q.model)
  /\ ~q.isArray \/ missing(q.data) # {}
  /\ status' = [status EXCEPT ![c] = "failed"]
  /\ UNCHANGED << key, next, waits, inflight >>

Fills(c, q) ==
  /\ shouldFill(q.model) /\ q.isArray
  /\ next' = next + Cardinality(missing(q.data))
  /\ fillIds(q.data)
  /\ query(c, q.data, Filled(q.data), TRUE)

PassesOn(c, q) ==
  /\ ~shouldFill(q.model)
  /\ query(c, q.data, [i \in DOMAIN q.data |-> key[q.data[i]]], FALSE)
  /\ UNCHANGED << key, next >>

\* create, createMany and createManyAndReturn; `create` makes an array of its
\* one row.  A retry is the same request again.
Handle(c, q) ==
  /\ sends < MaxSends
  /\ sends' = sends + 1
  /\ Throws(c, q) \/ Fills(c, q) \/ PassesOn(c, q)
  /\ UNCHANGED << handed, table, refused >>

Send(c) == status[c] # "waiting" /\ \E q \in Requests : Handle(c, q)

-----------------------------------------------------------------------------
(* The database and the callers' patience.                                 *)

Accepts(s) ==
  /\ NoKey \notin Range(s.keys)
  /\ IsInjective(s.keys)
  /\ \A row \in table : row.key \notin Range(s.keys)

Answer(s, what) ==
  status' = IF status[s.by] = "waiting" /\ waits[s.by] = s.n
              THEN [status EXCEPT ![s.by] = what] ELSE status

Execute(s) ==
  /\ inflight' = inflight \ {s}
  /\ IF Accepts(s)
       THEN /\ table' = table \cup { [row |-> s.data[i], key |-> s.keys[i]] : i \in DOMAIN s.data }
            /\ Answer(s, "stored") /\ UNCHANGED refused
       ELSE /\ refused' = refused \cup {s}
            /\ Answer(s, "rejected") /\ UNCHANGED table
  /\ UNCHANGED << handed, key, next, waits, sends >>

\* A timeout: the statement may still be run.
GiveUp(c) ==
  /\ status[c] = "waiting"
  /\ status' = [status EXCEPT ![c] = "gave_up"]
  /\ UNCHANGED << handed, key, next, waits, sends, inflight, table, refused >>

Next ==
  \/ \E c \in Callers : Send(c) \/ GiveUp(c)
  \/ \E s \in inflight : Execute(s)

Spec == Init /\ [][Next]_vars

-----------------------------------------------------------------------------
(* Properties.                                                             *)

\* Where handlers see the caller's own rows, a row is stored at most once
\* however often and by however many it is sent, given up and sent again: its
\* key was written into it the first time ("Fill missing keys in-place",
\* index.ts:39).
StoredOnce ==
  handed = "own" =>
    \A a, b \in table : a.row = b.row => a = b

\* A filled statement that does not list a row twice is refused only when one
\* of these very rows has been stored already, with the key it was given or
\* came with.
RefusedForCause ==
  \A s \in refused : s.filled /\ IsInjective(s.data) =>
    \E stored \in table :
      stored.row \in Range(s.data) /\ (handed = "own" \/ stored.row \in Supplied)

=============================================================================
