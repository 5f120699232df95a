---------------------------- MODULE Applications ----------------------------
(***************************************************************************)
(* What is built on the engine and around it: the command `rivid` with its *)
(* schema check, the Prisma extension, the demonstration page, and the     *)
(* scripts that build and package the project.  They share no state, so a  *)
(* behaviour is a behaviour of one of them, chosen at the start, while the *)
(* variables of the others stay unused.  The parts are                     *)
(*                                                                         *)
(*   cli       Cli          every command, with SchemaCheck                *)
(*   fill      FillIds      callers, their rows, and retries               *)
(*   page      Page         instances of the engine, and clicks            *)
(*   build     Build        sources, edits and builds                      *)
(*   package   PackageWasm  versions and runs                              *)
(***************************************************************************)
EXTENDS Integers, Sequences

CONSTANTS
  Argvs, NumberOf, ValidIds, Ids, MAX_COUNT, MAX_JSON,     \* Of Cli
  Options, Missing, Trees, Stores, Public, Idempotency,    \* and SchemaCheck,
  Events, Unset, EmptyMap, NoRef,
  Callers, Rows, Supplied, Requests, models, MaxSends,     \* FillIds,
  KEPT, MaxClicks,                                         \* Page,
  Files, UsesBinding, MaxEdits, MaxBuilds,                 \* Build,
  Versions, Contents, MaxRuns                              \* PackageWasm.

VARIABLES
  part,                                                  \* Which of the five runs.
  argv, pc, count, made, out, err, code,                 \* Of Cli,
  github, tree, stored, policy, todo, seen, cols, found, printed, exit,
  handed, key, next, status, waits, sends, inflight, table, refused,   \* FillIds,
  mounts, effect, engine, last, ready, error, checks,    \* Page,
  monoList, clicks, clicked,
  project, b_version, dist, marker, index_d_ts,          \* Build,
  b_steps, b_todo, command, b_outcome, builds,
  pkg, release, w_version, w_out, w_steps, w_todo,       \* PackageWasm.
  w_outcome, runs

lVars == << argv, pc, count, made, out, err, code, github, tree, stored,
            policy, todo, seen, cols, found, printed, exit >>
fVars == << handed, key, next, status, waits, sends, inflight, table,
            refused >>
gVars == << mounts, effect, engine, last, ready, error, checks, monoList,
            clicks, clicked >>
bVars == << project, b_version, dist, marker, index_d_ts, b_steps,
            b_todo, command, b_outcome, builds >>
wVars == << pkg, release, w_version, w_out, w_steps, w_todo, w_outcome,
            runs >>
vars  == << part, lVars, fVars, gVars, bVars, wVars >>

-----------------------------------------------------------------------------
L == INSTANCE Cli
F == INSTANCE FillIds
G == INSTANCE Page
B == INSTANCE Build WITH
       version <- b_version, steps <- b_steps, todo <- b_todo, outcome <- b_outcome
W == INSTANCE PackageWasm WITH
       version <- w_version, out <- w_out, steps <- w_steps, todo <- w_todo,
       outcome <- w_outcome

ASSUME ApplicationsAssumption ==
  /\ L!CliAssumption
  /\ F!FillIdsAssumption
  /\ KEPT \in Nat
  /\ W!PackageWasmAssumption

-----------------------------------------------------------------------------
\* What the variables of the other parts are.
lUnused == /\ argv = "unused" /\ pc = "unused" /\ count = "unused" /\ made = "unused"
           /\ out = "unused" /\ err = "unused" /\ code = "unused" /\ github = "unused"
           /\ tree = "unused" /\ stored = "unused" /\ policy = "unused" /\ todo = "unused"
           /\ seen = "unused" /\ cols = "unused" /\ found = "unused" /\ printed = "unused"
           /\ exit = "unused"
fUnused == /\ handed = "unused" /\ key = "unused" /\ next = "unused" /\ status = "unused"
           /\ waits = "unused" /\ sends = "unused" /\ inflight = "unused"
           /\ table = "unused" /\ refused = "unused"
gUnused == /\ mounts = "unused" /\ effect = "unused" /\ engine = "unused"
           /\ last = "unused" /\ ready = "unused" /\ error = "unused" /\ checks = "unused"
           /\ monoList = "unused" /\ clicks = "unused" /\ clicked = "unused"
bUnused == /\ project = "unused" /\ b_version = "unused" /\ dist = "unused"
           /\ marker = "unused" /\ index_d_ts = "unused" /\ b_steps = "unused"
           /\ b_todo = "unused" /\ command = "unused" /\ b_outcome = "unused"
           /\ builds = "unused"
wUnused == /\ pkg = "unused" /\ release = "unused" /\ w_version = "unused"
           /\ w_out = "unused" /\ w_steps = "unused" /\ w_todo = "unused"
           /\ w_outcome = "unused" /\ runs = "unused"

Init ==
  \/ part = "cli"     /\ L!Init  /\ fUnused /\ gUnused /\ bUnused /\ wUnused
  \/ part = "fill"    /\ lUnused /\ F!Init  /\ gUnused /\ bUnused /\ wUnused
  \/ part = "page"    /\ lUnused /\ fUnused /\ G!Init  /\ bUnused /\ wUnused
  \/ part = "build"   /\ lUnused /\ fUnused /\ gUnused /\ B!Init  /\ wUnused
  \/ part = "package" /\ lUnused /\ fUnused /\ gUnused /\ bUnused /\ W!Init

Next ==
  \/ part = "cli"     /\ L!Next /\ UNCHANGED << part, fVars, gVars, bVars, wVars >>
  \/ part = "fill"    /\ F!Next /\ UNCHANGED << part, lVars, gVars, bVars, wVars >>
  \/ part = "page"    /\ G!Next /\ UNCHANGED << part, lVars, fVars, bVars, wVars >>
  \/ part = "build"   /\ B!Next /\ UNCHANGED << part, lVars, fVars, gVars, wVars >>
  \/ part = "package" /\ W!Next /\ UNCHANGED << part, lVars, fVars, gVars, bVars >>

Spec == Init /\ [][Next]_vars

-----------------------------------------------------------------------------
(* Properties: those of the modules, each of its own part.                 *)

\* An allowed column is as good as absent (cli/check.mjs:10-11).
AllowedAsAbsent == part = "cli" => L!Check!AllowedAsAbsent

\* An SQL foreign key that differs from its target fails the check
\* (cli/check.mjs:297-312).
SqlMismatchFails == part = "cli" => L!Check!SqlMismatchFails

\* The identifiers that are printed are those that were asked for
\* (cli/rivid.mjs:132-155).
IdsAsAsked == part = "cli" => L!IdsAsAsked

\* The exit code and the text of a command tell the same (docs/cli.md:15-20).
ExitTells == part = "cli" => L!ExitTells

\* A single identifier is an array with --json, as any other number of them:
\* "Output JSON array instead of one ID per line" (cli/rivid.mjs:49, 79).
JsonWhenAsked == part = "cli" => L!JsonWhenAsked

\* A retried row is stored once (packages/prisma/src/index.ts:39).
StoredOnce == part = "fill" => F!StoredOnce

\* A filled statement is refused only for a row already stored
\* (packages/prisma/src/index.ts:40-56).
RefusedForCause == part = "fill" => F!RefusedForCause

\* The page's list is in order (integrations/react-wasm/src/App.tsx:145-147).
ListIncreases == part = "page" => G!ListIncreases

\* A build that ends well repairs what failed ones left
\* (scripts/post-build.mjs:1-8).
BuildSound == part = "build" => B!BuildSound

\* The assembled package is that of the last run alone
\* (scripts/package-wasm.mjs:17-28).
PackageWhole == part = "package" => W!PackageWhole

=============================================================================
