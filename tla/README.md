# A TLA+ verification project for rivid

rivid generates and handles sortable identifiers: ULID, monotonic ULID, UUIDv7 and
KSUID.  A Rust core (`crates/core`) does the work; a Node binding (`src/lib.rs`), a
WebAssembly binding (`crates/wasm`) and a Python binding (`crates/python`) expose it; a
TypeScript layer (`src/*.ts`), a command line (`cli/`) and ORM helpers (`packages/`) sit
on top.

This directory holds TLA+ models of the parts with state, concurrency, failure or
non-trivial arithmetic, twelve TLC runs, and proofs that TLAPS checks for every value of
the constants.  `PROJECT.json` lists the components, the runs, a mutant for every checked
property, the source lines behind every definition, the hazards and the theorems.

    tlc -workers 2 -config bindings.cfg SharedMonotonic.tla     # a run
    tlapm SharedMonotonic_proofs.tla                            # a proof

## 1. Inventory

| Part | State it keeps | Operations | What is hard | What makes it correct |
|---|---|---|---|---|
| Monotonic generator, `crates/core/src/monotonic.rs` | last timestamp, last random part | `next_secure`, `next_deterministic`, their `_at` forms | the clock is set back; the random part is exhausted and the code spins, then reads the clock again; a draw panics between two assignments | identifiers strictly increase, are not backdated, calls return |
| Clock, `crates/core/src/lib.rs` | two relaxed atomics of the override | `now_ms`, `set_clock_override`, `clear_clock_override` | value and flag are separate | a sole writer is obeyed |
| Entropy pool, `crates/core/src/rng.rs` | index and words, per thread | `next_pooled` behind `random_80`, `random_128` | a refill that fails half-way; new threads | no word is used twice |
| Node binding, `src/lib.rs` | process-wide generator behind a mutex; `UlidGenerator` objects with two mutexes | `monotonicUlid`; `next`, `nextMany`, `monotonic`, `monotonicMany` | poisoning, lock order, arguments refused with a lock held, batches | one call at a time, real-time order, atomic batches, nobody waits for ever |
| Python binding, `crates/python/src/lib.rs` | process-wide generator behind a mutex | `monotonic_ulid` | a poisoned mutex is not recovered; timestamps are not validated | no identifier from a torn state |
| WebAssembly binding, `crates/wasm/src/lib.rs` | `RefCell` of the generator, the engine's clock override | `monotonicUlid`; entry points that sync the clock | the engine's clock stands still; a trap leaves the cell borrowed; timestamps are not validated | the stream stays strict, host time is respected |
| Batches, `batch.rs`, `uuidv7.rs`, `src/lib.rs` | the caller's buffer | `generateMany`, `generateInto` | a panic in the middle; lengths that do not divide; time passes | one millisecond, whole blocks |
| Deterministic fixtures, `fuzz/` | two generators and their word streams | `next_deterministic_at` | a wall clock that leaks in | same seed, same identifiers |
| ULID text, `crockford.rs`, `ulid.rs`, `src/ulid.ts` | the application's array | encode, decode, compare, sort, sortInPlace | 130 bits of text for 128 of value; case; fast paths beside native ones | round trip; fast and native agree |
| UUID text, `convert.rs`, `uuidv7.rs`, `src/uuidv7.ts` | what the application holds | UUIDv7 layout, UUID to ULID to bytes and back, time | two parsers that treat hyphens differently; case | the same bits and the same time in every form |
| KSUID, `ksuid.rs` | a batch in progress | generate, generate at, decode, compare | multi-limb radix conversion, overflow check, clock outside the era | exact decoding, time reads back, text order |
| Encodings, `base58.rs`, `base64url.rs`, `sortable.rs` | none | encode, decode | carries, leading zeros, padding, left-over bits | one text per value, order |
| Policy file, `cli/check.mjs` | parser stack and heap | `parsePolicyYaml` | an indent stack with references | the policy is read back |
| `rivid check`, `cli/check.mjs` | files left, columns, findings, report | find the policy, walk, extract, analyse, report, exit | rules that look across files; files that go meanwhile | allowed columns are as absent; a mismatch fails the run |
| Command line, `cli/rivid.mjs` | arguments, identifiers made so far | every command | a core that fails in the middle; counts that are no numbers | as many identifiers as asked, or none; exit code and text agree |
| Prisma extension, `packages/prisma` | the caller's rows | `fillIds` behind `create`, `createMany`, `createManyAndReturn` | rows filled in place, answers given up, retries, the same row twice | a retried row is stored once; statements are refused for a cause |
| React page, `integrations/react-wasm` | engine instance, list of monotonic identifiers | `init`, self-test, "next" | StrictMode mounts and runs updaters twice; instances replace each other | the list is in order |
| Build scripts, `scripts/` | `dist/`, the assembled wasm package | `post-build`, `build-ts-package`, `package-wasm` | killed between writes, run again, sources that changed meanwhile | what ends well is whole |
| Drizzle, SQLAlchemy packages | none | column definitions | | not modelled |
| Errors, diagnostics, benchmarks, examples | none | | | not modelled |

How they interact: every binding owns one `MonotonicState` and serialises calls to it
(mutex or `RefCell`); the state reads `now_ms`, which reads the override before the wall
clock; random parts come from the per-thread pool (single identifiers) or from the secure
or seeded generator (monotonic and batches); the TypeScript layer calls the Node binding
or, on its fast paths, avoids it; the command line and the Prisma extension call the
TypeScript layer, the page calls the WebAssembly binding; `rivid check` uses none of them.

## 2. Modules

| Module | Models | Variables and actions |
|---|---|---|
| `Id128` | `id128.rs`: an identifier is a number made of a timestamp and a random part | operators only; `TIME_MAX` and `RANDOM_MASK` are constants |
| `StrictStream` | abstract: a sequence that only grows, by larger values | `issued`; `Issue` |
| `MonotonicState` | `monotonic.rs` | `last_ms`, `last_rand` are the fields; `pc`, `now` place each caller inside `advance`; `NewMillisecond`/`Draw`/`DrawPanic`, `Increment`, `Exhausted`/`SpinExit`/`Reread` are its branches, cut where the code reads the clock or draws; `Tick`, `StepBack` are the clock's |
| `SharedMonotonic` | `monotonicUlid` of `src/lib.rs` and `monotonic_ulid` of `crates/python` | adds `holder`, `poisoned` (the mutex), `at`, `arg`, `answer` (each call); `binding` chooses whether poison is recovered and timestamps are validated |
| `UlidGenerator` | the class of `src/lib.rs` | adds the mutexes `mono` and `det`, the batch in progress, the word stream; `deterministic` is the constructor's choice |
| `WasmBinding` | `monotonicUlid` of `crates/wasm` | adds `date` (Date.now()), `active` (is the override set), `borrowed` (the RefCell); `clock` is the override's value |
| `Fixtures` | `fuzz_targets/monotonic_state.rs`: two seeded generators | two instances of `MonotonicState` sharing the clock |
| `EntropyPool` | `next_pooled` | `idx`, `words` per thread; words are tokens |
| `ClockOverride` | the override of `lib.rs` | histories of both atomics, how far each thread has read; one action per atomic access |
| `Batches` | `batch.rs`, `uuidv7.rs` behind `generateMany`, `generateInto` | the call's captured timestamp, the caller's buffer; one action per word drawn |
| `Crockford`, `UlidText` | `crockford.rs`, `ulid.rs`, `src/ulid.ts` | operators; the application's array and its last call |
| `UuidText` | `convert.rs`, the block of `uuidv7.rs`, `decodeTime` of `src/uuidv7.ts` | `form` and `text` are what the application holds, `origin` the bytes it began with; one action per conversion |
| `Encodings` | `base58.rs`, `base64url.rs`, `sortable.rs` | an application's bytes and text |
| `Powers` | the power of a number, by recursion, for `Encodings` and `Ksuid` | an operator only |
| `Ksuid` | `ksuid.rs` | a batch in progress under a moving clock; texts read back |
| `PolicyFile`, `Policies` | `parsePolicyYaml`; the policies it should read | `heap` and `stack` as JavaScript references; one action per kind of line |
| `SchemaCheck` | `runCheck` from its arguments to its exit code: `loadPolicy`, `extractAll`, `analyze`, the report | `todo`, `seen` (files to come, files that could be read), `cols`, `found`, `printed`, `exit` |
| `Cli`, `Commands` | `rivid.mjs`: load, help, every command; the argument lists, schemas and policies it is called with | `argv`, `pc`, `made` (identifiers so far), `out`, `err`, `code`; the check is an instance of `SchemaCheck`, the monotonic loop of `StrictStream` |
| `FillIds` | the handlers of `packages/prisma/src/index.ts` | `key` is the field of each row object; `inflight`, `table`, `refused` are the database's; `Send`, `GiveUp`, `Execute` |
| `Page` | `App.tsx` over the wasm engine | `effect`, `engine`, `monoList`, `clicks`; `InitResolves`, `SelfTest`, `Click`, `Render` |
| `Build` | `npm run build`, `scripts/post-build.mjs`, `scripts/build-ts-package.mjs` | `dist`, `marker`, `index_d_ts`; one action per write, `Fail` at any time, `Edit` between builds |
| `PackageWasm` | `scripts/package-wasm.mjs` | `out` is the assembled package, `pkg` wasm-pack's output; one action per write or removal |
| `Sources` | `ClockOverride`, `Fixtures` and `Batches` side by side | `part`, chosen at the start, says which of them runs; the variables of the others stay unused |
| `Applications` | `Cli` with `SchemaCheck`, `FillIds`, `Page`, `Build` and `PackageWasm` side by side | `part`, likewise |
| `ReadBack` | `UlidText`, `Encodings`, `Ksuid`, `UuidText` and `PolicyFile` side by side | `part`, likewise |
| `Sources_MC`, `Applications_MC`, `PolicyFile_MC`, `ReadBack_MC` | instances for TLC | |
| `MonotonicState_proofs`, `SharedMonotonic_proofs`, `UlidGenerator_proofs`, `WasmBinding_proofs`, `EntropyPool_proofs`, `Sources_proofs`, `Applications_proofs`, `ReadBack_proofs` | theorems (section 4), each module's about the one it is named after | |

Composition: `SharedMonotonic`, `UlidGenerator` and `WasmBinding` extend `MonotonicState`
and use its actions inside their own; the first two are shown to implement its `Spec`,
and `Spec` to implement `StrictStream`.  `MonotonicState` assumes `&mut self` as a guard
(`Exclusive`); the bindings take it away and put their mutex in its place, so their
refinement property is the statement that the mutex does what the borrow checker does.
`WasmBinding` has other steps beside the generator's (a trap leaves `advance`, the clock
is the override) and is shown to implement `StrictStream` at once.
`Fixtures` drives two instances of `MonotonicState`; `Cli` runs `SchemaCheck` step by step
and takes its monotonic identifiers from `StrictStream`; `UuidText` and `UlidText` share
`Crockford`.

Abstractions used throughout: the 48-bit timestamp and 80-bit random part have small
constant widths, an identifier is the number they form; the alphabets, radixes, limbs
and byte sizes of the codecs are constants with the same shape (upper and lower case,
characters outside the alphabet, a first character that may overflow, a last one that
carries left-over bits).  Random words are tokens or small numbers: what matters is which
are used where, never their distribution.  Texts for people are `[form, tells]`: how it
was printed and what it says.

## 3. Runs

| Run | Question | Bounds, and why they are enough |
|---|---|---|
| `monotonic` | Do identifiers strictly increase, without backdating, and do calls return, with the clock set back, exhaustion and panicking draws? | 2 callers, 4 calls, random parts 0..2 (new millisecond, increment and exhaustion all happen, twice), timestamps 0 and 3 or the clock, which reaches 6 |
| `monotonic_reread_race` (violation) | The same if the clock may also be set back between the two reads of the exhausted branch | 1 caller suffices |
| `bindings` | Does the mutex of the Node and the Python binding serialise, order, recover or refuse, and free? | 2 threads, 3 calls, one valid timestamp and one above `TIME_MAX`, a panic in any draw: a poisoned mutex is met by a later call of either thread |
| `generator` | Are batches atomic, words taken in pairs, and can the two mutexes deadlock? | 2 threads, 6 identifiers asked for, batches of 0 to 3 with 3 refused, seeded and unseeded |
| `entropy_pool` | Is a word ever served twice? | 2 threads, pools of 3, three whole refills or more partial ones, threads replaced at any time |
| `wasm_safety` | Does a stale override, a host clock set back or a trap break the stream? | 4 calls, host clock 0..4 |
| `wasm_seed_overflow` (violation) | Is a seedTime that does not fit refused? | the same with one timestamp above `TIME_MAX` |
| `sources` | What do relaxed atomics guarantee the override?  Do seed and timestamps decide the fixtures?  Are batches whole and of one millisecond? | three programs of up to 9 calls in 2 threads, every stale read; scripts of 3 calls, every seed of 3 draws, two generators at any pace; 2 threads with 2 calls each, batches of 0 and 2, a refused count and a refused length |
| `read_back` | Is what is written read back, in order? | see `ReadBack_MC`: every ULID string of the right length and some wrong ones, arrays to 3; payloads to 3 bytes, texts to 4 characters; every KSUID text, clocks before, in and after the era; UUIDs of 5 bytes with every kind of character, at the first, last and other times, converted any number of times; one- and two-section policies at two indents |
| `policy_allow` (violation) | Is the documented `allow` entry read back? | entries of two keys, up to three sections |
| `applications` | Does the command line do as asked and tell how it went?  Is a retried row stored once?  Is the page's list in order?  Does a build repair what a killed one left? | see `Applications_MC` and below |
| `cli_json` (violation) | Is the output JSON whenever `--json` says so? | the same |

In `applications` the five parts are bounded as follows.  `cli`: some 90 argument lists
(each option missing, repeated, misplaced, at 0, 1, at the limit and beyond), four identifiers
to draw, a JSON text that holds two; the check over every pair of files of the three kinds,
with one column each or one that is declared twice, among them lines of which an extractor
loses something (`Lossy` of `Commands`), and 52 policies, among them
one in the parent directory, one that does not parse and none at all, any of the files
unreadable.  `fill`: 2 callers, 3 rows of which one comes with a key, 3 statements: enough
for a request, its retry and a request of another caller between them.  `page`: 2 mounts, 4
clicks on a list that keeps 2.  `build`: 2 sources, 3 builds, one edit of each.  `package`: 2
versions, one with a file less, 2 runs.

Every property has a mutant in `PROJECT.json`: a changed definition, as a plausible bug
would change the code, with which TLC finds the property violated.

Deadlock is checked except in `sources` and `applications`, some of whose parts end: every
call has been made, every statement sent, every build run.  (`MonotonicState` and its
compositions do not stop: the clock may be set back.  Where a program does end, an explicit
stuttering action says so.)

**Fairness.**  `monotonic`, `bindings` and `generator` check liveness under three
assumptions.  The clock runs (`WF` of `Tick`) and is not set back for ever
(`<>[][~StepBack]`): `advance` spins until the wall clock passes `last_ms`, and nothing in
the code could end that otherwise.  Threads that can step do (`WF` of each caller's
steps): the operating system's scheduler.  No strong fairness is needed for a mutex
because the calls of a behaviour are finitely many.  No thread has to call, and no draw
has to panic.  Elsewhere there is nothing to be fair about: a command, a build or a
request may be killed at any point, and no code would resume it.

In these three modules the clock moves by itself up to `FreeClock` and beyond it only
while a caller waits for it, so that the bound `MaxClock` never cuts off the wait it is
there for.

**What the properties of the newer parts mean.**

* `OrderKept`: sortable texts and KSUID texts compare as the identifiers do.
  `DecodesExactly`: a KSUID text is refused for its length, a character or a number that does
  not fit, and for nothing else.
* `CompareMatchesNative`, `SortMatchesNative`: the fast paths of the TypeScript layer answer
  what the native functions answer, whenever those do not throw.
* `SameBits`: however often a UUID is converted among UUID text (either case), ULID text and
  bytes, it is never refused, keeps its bits, and each form reads the same time.
* `IdsAsAsked`: a `rivid ulid` or `rivid uuidv7` that ends well has printed exactly the
  identifiers the first `--count` asks for, distinct, increasing with `--monotonic`; one that
  fails has printed none, however far it had come.
* `ExitTells`: `validate`, `decode` and `check` end with the code their text implies, and a
  JSON report is alone on stdout.
* `StoredOnce`: where the client hands the extension the caller's own rows, a row is stored
  at most once however often it is sent again after a lost answer.  With copies it is not so:
  the key of the first attempt is lost with the copy.  Which of the two a Prisma client does
  is outside this repository.
* `RefusedForCause`: a filled statement without repeated rows is refused only because one of
  its rows is in the table already: the generated keys never collide.
* `ListIncreases`: the page's list is in order although updaters draw identifiers, whichever
  times React runs them.  Under StrictMode this is said of each instance of the engine: the
  later `init` replaces the instance, and the new one's identifiers may precede the old one's.
* `BuildSound`, `PackageWhole`: what a run that ends well leaves does not depend on what
  killed or failed runs left before it.

## 4. Proofs

| Module | Theorem | For every ... |
|---|---|---|
| `MonotonicState_proofs` | `FromPartsOrder`: a later timestamp, or the same and a larger random part, makes a larger identifier | width of both parts |
| | `TypeCorrect`; `StrictOrder`: `StrictlyIncreasing`; `NeverBackdated`: `NotBackdated`; `ImplementsStream`: `StreamSpec` | number of callers, widths, bounds |
| `SharedMonotonic_proofs` | `BindingImplementsCore`: `CoreSpec`; `ThreadsAgreeOnOrder`: `RealTimeOrder`; `TornStateIsNeverUsed`: `NoIdFromTornState` | number of threads, either binding |
| `UlidGenerator_proofs` | `ObjectImplementsCore`: `CoreSpec`; `BatchesAreContiguous`: `BatchContiguous`; `WordsAreContiguous`: `WordsContiguous` | number of threads, batch size, seeded or not |
| `WasmBinding_proofs` | `WasmImplementsStream`: `StreamSpec`; `HostTimeIsRespected`: `HostTimeRespected` | widths, movement of the host's clock and of the override |
| `EntropyPool_proofs` | `PoolTypeCorrect`; `WordsAreUsedOnce`: `NoWordReused` | number of threads, pool size |
| `Sources_proofs` | `SeedAndScriptDecide`: `ReproducibleUnlessExhausted` | script, seed, widths, pace of either generator |
| | `SoleWriterIsObeyed`: `SoleWriterObeyed` | program, number of threads, stale read |
| | `BatchesAreOfOneMillisecond`: `OneMillisecond`; `BlocksAreWhole`: `WholeBlocks` | number of threads, count, length, block size |
| `Applications_proofs` | `PrintsWhatIsAsked`: `IdsAsAsked` | argument list, limits, point of failure |
| | `ExitTellsTheResult`: `ExitTells` | argument list, tree of files, policy |
| | `AllowedChangesNothing`: `AllowedAsAbsent`; `SqlMismatchesFail`: `SqlMismatchFails` | tree of files, policy, files that go unreadable |
| | `RowsAreStoredOnce`: `StoredOnce`; `RefusalsHaveCause`: `RefusedForCause` | callers, rows, requests, retries |
| | `ListsIncrease`: `ListIncreases` | clicks, length of the list |
| | `BuildsRepair`: `BuildSound` | files, edits, builds |
| | `PackagesAreWhole`: `PackageWhole` | versions, their contents, runs |
| `ReadBack_proofs` | `TextsReadBack`: `RoundTrip` | alphabet, lengths, limit on the first character |
| | `FastCompareIsNative`: `CompareMatchesNative`; `ValidatedSortIsNative`: `SortMatchesNative` | alphabet, length, array |
| | `KsuidsDecodeExactly`: `DecodesExactly`; `KsuidTimesReadBack`: `TimeReadsBack` | radix, size and number of limbs, length, clock, era, batch |
| | `TextsKeepOrder`: `OrderKept` | alphabet, widths, identifiers |

**Assumptions.**  Every module states what its constants are, and TLC evaluates that in
the runs of the module.  Most of it is types.  These say more: of the rows that
come with a key there is at most one, as all such keys are the number 1 in the model
(`FillIdsAssumption`); wasm-pack's own `package.json` and `.gitignore` are not among what a
version contains (`PackageWasmAssumption`); JavaScript is a single caller
(`WasmBindingAssumption`); the empty word is no identifier (`CliAssumption`); no column
that is extracted is itself the mark for "no reference" (`SchemaCheckAssumption`); a KSUID text
is long enough for every identifier, as 62^27 exceeds 2^160 (`KsuidAssumption`); three bytes
are four characters, and a sortable text has as many bits as an identifier, the last
character holding what is left over (`EncodingsAssumption`).

Beyond that, three groups of theorems suppose something of the environment.
`StrictOrder`, `NeverBackdated`, `ImplementsStream` and the two theorems of
`WasmBinding_proofs` are proved under `Environment`: no set-back between the two reads of
the exhausted branch (the run `monotonic_reread_race` shows why), explicit timestamps in
range (the Node binding checks them; the run `wasm_seed_overflow` shows that the
WebAssembly binding does not), and a clock that stays below `TIME_MAX` (the year
10889).  `ThreadsAgreeOnOrder` needs the two parts about the clock (`Clocked`).  The other
theorems suppose nothing: their condition, where there is one (no millisecond exhausted, a
sole writer, the callers' own rows), is in the property the runs check.

**The generator.**  `StrictlyIncreasing` is not inductive: it says nothing about the
state the next identifier is made of.  The invariant adds that the state is never behind
what was returned (`Ahead`: every returned identifier is at most
`from_parts(last_ms, last_rand)`), and strictly ahead of it, whatever will be drawn, once
a caller is about to draw: the new millisecond is stored before the draw, so a draw that
panics leaves the pair (new millisecond, old random part), which is still above
everything returned.  `ClockAhead` says that the second reading of the clock is beyond
`last_ms`, and `OneInside` that only one caller is in `advance`.  Each branch then
follows from the order of `from_parts`.  `NotBackdated` needs one more
invariant (`CaughtUp`: past its first test a call finds `last_ms` no earlier than its own
timestamp) and that `timestamp_ms` reads back what `from_parts` stored.

**The bindings.**  `LInv` (who is past the lock holds it; who is inside the generator is
past the lock) gives `Exclusive` at every call, so that every step of the binding is a
step of the generator or changes nothing it sees.  Recovery from poison is such a step:
that is why a poisoned mutex may be recovered at all.  `RealTimeOrder` follows from
the generator's order by an invariant (`Placed`) on where each answer lies in the stream.

**The generator object.**  The same with two mutexes: `Mutexes` says who holds which,
`Ways` that only a monotonic call takes both.  Batches then need `Chain`: while a batch is
made, its newest identifier is the newest of the stream.  That no other call can append in
between is `Mutexes` again, held over the whole batch.  Words need `Pairs`: outside a pair
the stream stands at an even word, inside one at an odd word and exactly one call is there.
The proofs take the types of the generator's own variables from `TypeCorrect`, through
`ObjectImplementsCore`.

**WebAssembly.**  Inside a call the steps are the generator's, and its lemmas are used
again (`EngineStep`).  A trap leaves `advance` like a wait that was abandoned
(`ClockTrapInv`).  `JsInv` adds that the time the host had when the call began is not later
than the timestamp the call goes on with, which is what `HostTimeRespected` needs of the
three ways an identifier is made.

**The pool.**  Words are live (still in a pool, not yet passed by its index) or served.
The invariant says that live words are new and in one slot of one pool only, and that
served ones are in none (`LiveIsUnique`, `ServedIsGone`, ...).  A refill that panics
leaves the index at the end: no slot of that pool is live, however many were overwritten.

**The twins.**  Comparing the two generators step by step does not work, as either may be
any number of calls ahead.  `TwinsInv` says of each alone that its state after `n` calls is
a function of script and seed (`StateAfter`): `last_ms` is the greatest timestamp so far, and
`last_rand` the random part of the last call that began a millisecond, counted on from there.
That the code's test of one stored timestamp finds exactly the calls that exceed all before
them is `FreshIff`.  Exhaustion is the only step that leaves this, since it reads the clock.

**The override.**  Relaxed atomics let a thread read old values, so nothing can be said
of a reader in general.  `OverrideInv` is about a thread that is alone in writing: it has seen
the whole of either history (`SeesAll`), and the newest values are those of the last set or
clear it made, a set that is half done included (`LastStored`).  What it then reads it must
read anew, and `Obeyed` records that of every answer.

**Batches.**  `Rows` gives every position of a buffer its content, identifiers of the
captured timestamp as far as the call has come and old bytes after them; `Progress` says how
far that is.  Both properties are read off it.

**The command line.**  `CliInv` says that a command that generates has the count that
`argNum` reads, that a monotonic stream is increasing as far as it has come, and that what
is about to be printed is complete and distinct.
`CountIsAskedFor` shows that this count is the number after the first `--count`, the one the
property is about.
For `ExitTells` the invariant `TellsInv` adds what a command that counts the bad arguments
knows of them (`BadIsFiltered`: its list is what a filter leaves, in order), and that a
printed report and the exit code of the check were made of the same findings (`Reported`).

**The schema check.**  A file holds the lines that have the form of a column, with what the
line and its table's statement say; `Extracted` is what the extractor for the file's kind makes
of them.  `CheckInv` says that the columns so far are those of the files read so far
(`Readable`), that every identifier column of an SQL file is among them (`SqlRead`), and that
findings and exit code are what `analyze` makes of all columns (`Concluded`).  For
`AllowedAsAbsent`, what `analyze` returns is compared with what it returns once allowed columns
are taken away: each of the five rules looks at columns only past its guard.  For
`SqlMismatchFails`, the last column that a reference names is the one `byKey` finds
(`LastIsFound`).

**Filters and folds.**  The library defines `FoldLeft`, `FlattenSeq` and the like by recursion
over a set of positions, with CHOOSE, and its induction theorems cannot be used.  The proofs
of `Applications_proofs` and `ReadBack_proofs` do the induction themselves: among the
counterexamples of a statement about numbers there is a least one (`WFMin` of
`WellFoundedInduction`, which takes a set and a relation), and the statement at its
predecessor refutes it.  Put for a set instead of a predicate this is `Induction`; from it
follows that the function a fold recurs on exists (`FoldExists`, `RecursionExists`), hence
what the fold returns.  For their sake the filters that a proof depends on are written with `FoldLeft`, not with
`SelectSeq`, and powers with `Power` rather than `^`: the provers know nothing of either.

**The Prisma extension.**  Two invariants by how the client hands rows over.  With the
callers' own rows a key in a row is that row's for good, and every statement in flight or
row in the table has its row's key or none (`OwnRows`).  With copies a generated key is of one
statement only (`Copied`).  `Complete` (a filled statement lacks no key, and different rows have
different keys) and `GivenOut` (every key in use is below the next one) hold for both.  A
filled batch then collides only with itself or with what is stored.

**The page.**  `Shown`: no identifier in the list is newer than the state of its instance.
`Instantiated`: nobody draws before there is an instance.  Dropped identifiers leave gaps
and no disorder.

**Build and package.**  Both scripts are a sequence of steps over sets of files.
`DoneSoFar` and `LastWriter` say what holds of a file once the step has come past it,
whatever was there before; for the package this is what the last step that deals with the path
has written, because later ones overwrite and delete what earlier ones made.  A run that was
killed leaves nothing that the invariant relies on: it speaks of the running one only.  The
one exception is `Looks`: a compiled file left by an earlier build is never deepened twice.

**ULID texts.**  A text read as digits has a value (`Spells`, `SpellsValue`), and the first
digit in which two texts differ decides which value is larger (`FirstDifferentDigit`,
`ValueOrder`): so upper-case texts compare as strings and as numbers alike.  The
position an element takes in a stable sort is the number of elements that come before it;
that these numbers are a permutation is `EveryRank`, of any strict total order of the
positions.  Two sorts that order the positions alike therefore return the same array.
`RoundTrip` needs the digits of a value to spell it (`DigitsSpell`) and to be the only ones
that do (`SpelledDigit`), and that the first characters of a text spell the quotient of its
value (`SpelledPrefix`), which is the time.  `UlidInv` ties the last call to its result.

**KSUID.**  `encode` divides the limbs by the radix from the most significant one down, once
for each character, and `decode` multiplies them and adds: `DivRadixDivides` and
`MulRadixMultiplies` say that the limbs as one number are divided and multiplied, carry and
remainder included, each by an induction over the limbs that keeps the partial quotient or
product.  The invariant of the decoder's loop (`Reads`) is that the limbs are the number read
so far, unless that no longer fits, which is when the carry out of the first limb is not
zero.  A number has one sequence of digits, so `encode` of what was decoded is the text.
`KsuidInv` says which second the identifiers of a batch have (`Stamped`); `EraTime` and
`FieldTime` that the clamped clock, or the explicit time, is read back from it.  Order
follows from `FirstDifferentDigit`, in the limbs as in the characters.

**Sortable texts.**  The text spells the number times `SHIFT`, because all characters but the
last are its digits above `LOW` and the last is what is left, shifted up (`SortableSpells`).
Decoding divides by `SHIFT` what it has checked to be a multiple of it.  That no value is cut
off is a matter of sizes (`Sizes`), through the laws of powers (`PowerPlus`, `PowerTimes`).

**Only model-checked.**

* Liveness (`CallsReturn`, `ValidCallsServed`, `EveryCallReturns`): the proof system does not
  reason about fairness or ENABLED.
* `OneText` (Base58 and base64url return what they were given): Base58 keeps its digits in a
  buffer whose length grows with the carry, and base64url accumulates bits in a word that
  wraps.  Both would take an invariant on the buffer of their loop, as KSUID needed one for a
  fixed number of limbs; for the sortable texts among them `SortableRead` is the main step.
* `SameBits` (UUID conversions): the parser takes the hyphens out with a filter, the text is
  written with them, and each of the conversions would have to be shown to invert the others;
  `UuidText` still has `SelectSeq` and `^`.
* `ReadsBack` (the policy parser): the tree is in a heap with references, and what the parser
  has read at some line is an invariant on the shape of that heap for every policy.

## 5. Where the code and its documents differ

Four runs show a difference and are recorded as findings.

* `monotonic_reread_race`: `advance` (monotonic.rs:106) waits for the clock to pass
  `last_ms`, then stores a second reading.  If the clock is set back in between, the next
  identifier is not larger than the last one.
* `policy_allow`: the keys after the first of a list entry are lost (check.mjs:81 and 58:
  the entry is pushed at indent + 2, its keys have that indent and pop it).  The
  documented `allow` entry has three.
* `wasm_seed_overflow`: `monotonicUlid` of the WebAssembly binding casts its seedTime and
  calls `next_secure_at`, which validates nothing (lib.rs:50, 85): a seedTime above
  `TIME_MAX` is truncated in the identifier, where a comment says "Overflow past TIME_MAX is
  rejected by the engine itself" (lib.rs:38-40).
* `cli_json`: without `--count`, `rivid ulid` and `rivid uuidv7` print one bare line whatever
  `--json` says (rivid.mjs:139); the usage promises an array (rivid.mjs:49).

The others were met while modelling.  The models follow the code.

| Code | Document |
|---|---|
| A first call at timestamp 0 is not a new millisecond: it increments a random part that was never drawn (monotonic.rs:95) | "the first call is treated as a new millisecond and draws fresh randomness" (monotonic.rs:51-52) |
| The pool is refilled when it is empty (rng.rs:43) | "50% (refill when < 16 words remain)" (SECURITY.md:43) |
| Python unwraps a poisoned mutex: one panic, and every later call fails (python lib.rs:32) | "mirroring `monotonicUlid()` semantics" (python lib.rs:13), where "a poisoned lock must never permanently wedge" the process (src/lib.rs:136-137) |
| Python truncates a timestamp above `TIME_MAX` (python lib.rs:34) | "mirroring `monotonicUlid()` semantics" (python lib.rs:13), which refuses it |
| `--count 0` and `--count ""` are accepted (rivid.mjs:59) | "`--count` accepts 1–100,000,000" (docs/cli.md:19) |
| `rivid check` without a path scans the package's own directory (rivid.mjs:199) | "scan a subdirectory" with a path (docs/cli.md:52); `runCheck` itself defaults to the current directory (check.mjs:400) |
| Directories and files that cannot be read are passed over in silence (check.mjs:353-357, 381-385) | "2 = usage/IO error" (check.mjs:23-24) |
| `decode` exits with 1 when there are more arguments (rivid.mjs:168-171) | and says they are "ignored" |
| `uuidv7Column` ignores `monotonic` (drizzle index.ts:54) | "Use strict same-millisecond ordering for generated values" (drizzle index.ts:23-24) |
| `createMany` with a single object throws: `fillIds` calls its `filter` (prisma index.ts:45, 73) | "Fill missing keys in-place" (prisma index.ts:39) |
| `monotonicUlid` does not sync the override; exhaustion before any other call reads `SystemTime`, which traps (wasm lib.rs:79-86) | "every entry point syncs" (wasm lib.rs:25-26) |
| Under WebAssembly the wait of the exhausted branch never ends: nothing moves the override meanwhile (monotonic.rs:126) | "waits for the next millisecond instead of throwing" (README.md:301) |
| With explicit timestamps an exhausted millisecond is replaced by the wall clock's (monotonic.rs:106) | "identical seed + identical timestamp sequence produces an identical output sequence" (fuzz monotonic_state.rs:11-12) |
| `compare` of two equal strings returns 0 without looking at them (ulid.ts:136) | throws "when either input is not a valid ULID" (ulid.ts:126) |
| `sort` with `validate: false` sorts mixed case as text (ulid.ts:195) | "ascending by ULID value" (ulid.ts:144, 150-151) |
| `decode` refuses texts that `encode` makes of long byte strings (base58.rs:73) | "arbitrary byte strings", "to its original bytes" (base58.rs:1, 67) |
| Of an SQL schema only a reference `REFERENCES t(c)` on the column's own line is seen: one without the column, a table-level `FOREIGN KEY`, or one of a column without PRIMARY KEY whose name is not `id` and does not end in `_id` or `_key` is not compared (check.mjs:147-148), nor is any in a statement that does not end with `);` (137) | "Foreign-key / primary-key representation mismatches" (docs/cli.md:29) |
| A table-level `PRIMARY KEY (id)` makes no column a key, and drift is not seen (check.mjs:152) | "Primary-key representation drift across tables" (docs/cli.md:30) |
| The storage of an SQL column is the first entry of a table of types that its line mentions anywhere, as in a default or a check (check.mjs:149) | "mapped to a canonical representation name" (check.mjs:37-38) |
| Prisma and Drizzle references are not resolved (check.mjs:187) | "FK/PK representation mismatches" in all three (rivid.mjs:108-109) |
| Only the scan root is searched for a policy (check.mjs:112) | "(or ancestors)" (check.mjs:110) |
| An `allow:` without entries makes the audit throw, exit code 1 (check.mjs:248) | 1 means inconsistencies found (check.mjs:23-24) |
| A thread may see the override's flag without its value and return 0 (core lib.rs:84-85) | "return `ms` until cleared" (core lib.rs:78-79) |
| Two tests set one process-wide override in parallel threads (core lib.rs:106-128) | each asserts its own value |
| The identifiers of one batch are in no order (batch.rs:82) | "`ORDER BY id` equals insertion order (with monotonic or batch generation)" (drizzle index.ts:5-6, sqlalchemy.py:15-16) |

Accordingly, the runs state what the code does promise: `bindings` passes Python only
timestamps in range, `wasm_safety` likewise; `ReproducibleUnlessExhausted`,
`SoleWriterObeyed` and `SqlMismatchFails` name their conditions; `read_back` takes
policies whose entries have one key.

## 6. Not modelled, and why

* The random generators (ChaCha12, Xoshiro256**) and the quality of what they draw: the
  `rand` crate's.
* How the regular expressions of `rivid check` find statements, lines and names in a text:
  `SchemaCheck` starts from the lines of tables, and models which of them become columns,
  with what storage, key and reference, and what is lost.
* The Drizzle and SQLAlchemy packages: column definitions whose default calls the core once.
* In `Cli`: the benchmark's own process, and a stdout whose reader closes it.
* In `FillIds`: upserts and nested writes, which the extension does not intercept.
* In `Page`: the cards other than the self-test and the monotonic list, which show the value
  made last.
* In `Build`: files that remain in `dist/` after their source is deleted, as nothing cleans
  it (`Files` is fixed); napi, tsc, wasm-pack and npm, seen from the scripts.
* The heap of the WebAssembly engine and the size limits of its batches: the host's.
* Error texts, diagnostics, re-exports, benchmarks and examples: no behaviour of their own.
* A fork with a warm entropy pool: only Python can do it, and the code has no step that
  would notice.

## 7. Plan

Done, in this order: the generator and its stream; the bindings and the generator
object; the pool; WebAssembly and fixtures; the codecs; `rivid check`; the override and
batches; UUIDs; the command line; the Prisma extension; the page; the build and packaging
scripts; the proofs of section 4, in the order of its table.

Next:

1. `OneText` for base64url, a group of three bytes at a time; then for Base58, with the value
   of the growing buffer as the invariant of its two loops.
2. `SameBits`, with `Power` in `UuidText` and the digits of `ReadBack_proofs`.
3. An invariant on the heap of the policy parser, for one section first.
