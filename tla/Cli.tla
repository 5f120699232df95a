-------------------------------- MODULE Cli --------------------------------
(***************************************************************************)
(* The command `rivid` of cli/rivid.mjs: it loads the native core, reads   *)
(* its arguments, runs one command and exits.  The native core is seen     *)
(* from here: its generators return identifiers or fail, its monotonic     *)
(* generator is a StrictStream.  `rivid check` is SchemaCheck, step by     *)
(* step, on the arguments after the command.                               *)
(*                                                                         *)
(* Words are strings, identifiers are numbers, and stdout and stderr are   *)
(* sequences of what was printed: [form, tells].  A stdout that its reader *)
(* closes is left out, and so is the benchmark's own program.              *)
(***************************************************************************)
EXTENDS Integers, SequencesExt

CONSTANTS
  Argvs,        \* What the command is called with.
  NumberOf,     \* Number() of a word: -1 unless it is a natural number.
  ValidIds,     \* Words that are identifiers.
  Ids,          \* Identifiers that are generated.
  MAX_COUNT,    \* The largest --count (100_000_000 in the code).
  MAX_JSON,     \* Identifiers whose JSON still fits a string.
  Options, Missing, Trees, Stores, Public, Idempotency, Events, Unset, EmptyMap, NoRef

VARIABLES
  argv,         \* process.argv.slice(2)
  pc,           \* load, run, make, emit, check or exited.
  count,        \* What --count asked for.
  made,         \* Identifiers generated so far.
  out,          \* Stdout.
  err,          \* Stderr.
  code,         \* The exit code, or Running.
  github, tree, stored, policy, todo, seen, cols, found, printed, exit   \* SchemaCheck's.

cVars == << github, tree, stored, policy, todo, seen, cols, found, printed, exit >>
vars  == << argv, pc, count, made, out, err, code, cVars >>

Running == -1
Refused == -1

cmd  == IF argv = << >> THEN "ulid" ELSE Head(argv)
rest == IF argv = << >> THEN << >> ELSE Tail(argv)

includes(word) == word \in ToSet(rest)

Check == INSTANCE SchemaCheck WITH args <- rest

\* Identifiers are compared as numbers, and no identifier is empty.
CliAssumption ==
  /\ Argvs \subseteq Seq(DOMAIN NumberOf)
  /\ \A w \in DOMAIN NumberOf : NumberOf[w] \in Int
  /\ Ids \subseteq Int /\ "" \notin ValidIds
  /\ MAX_COUNT \in Nat /\ MAX_JSON \in Nat
  /\ Check!SchemaCheckAssumption

Stream == INSTANCE StrictStream WITH Values <- Ids, issued <- made

Init ==
  /\ argv \in Argvs
  /\ pc = "load"
  /\ count = 0
  /\ made = << >> /\ out = << >> /\ err = << >>
  /\ code = Running
  /\ IF cmd = "check" THEN Check!Init ELSE Check!NoCheck

-----------------------------------------------------------------------------
Shown(form, x) == [form |-> form, tells |-> x]

\* The command ends with code c, after printing os and es.
Exit(c, os, es) ==
  /\ code' = c /\ out' = os /\ err' = es
  /\ pc' = "exited"
  /\ UNCHANGED << argv, count, made, cVars >>

Goto(there) == pc' = there /\ UNCHANGED << argv, out, err, code >>

AsksHelp == includes("--help") \/ includes("-h")

Documented == {"ulid", "uuidv7", "decode", "validate", "benchmark", "check"}

\* The binding is loaded before anything else, whatever was asked.
load ==
  /\ pc = "load"
  /\ \/ Goto("run") /\ UNCHANGED << count, made, cVars >>
     \/ Exit(1, << >>, << "unloadable" >>)

Help ==
  /\ pc = "run" /\ AsksHelp
  /\ Exit(0, << Shown("help", IF cmd \in Documented THEN cmd ELSE "usage") >>, << >>)

Runs(command) == pc = "run" /\ ~AsksHelp /\ cmd = command

-----------------------------------------------------------------------------
(* rivid ulid and rivid uuidv7.                                            *)

\* argNum: the word after the first `name`, if there is one.
argNum(name, fallback) ==
  IF ~includes(name) THEN fallback
  ELSE LET next == SelectInSeq(rest, LAMBDA w : w = name) + 1
           v    == IF next > Len(rest) THEN -1 ELSE NumberOf[rest[next]]
       IN  IF v < 0 \/ v > MAX_COUNT THEN Refused ELSE v

Generates == Runs("ulid") \/ Runs("uuidv7")

ParseCount ==
  /\ Generates
  /\ LET n == argNum("--count", 1) IN
     \/ n = Refused /\ Exit(1, << >>, << "--count" >>)
     \/ n # Refused /\ count' = n /\ Goto("make") /\ UNCHANGED << made, cVars >>

Monotonic == cmd = "ulid" /\ includes("--monotonic")

\* Mutant: one identifier is asked for whenever the count is at most one.
Single_ByCount == count <= 1

\* ulid() or uuidv7(), not a batch.  --count may say 0: a batch of none.
Single == count <= 1 /\ ~includes("--count")

\* core.monotonicUlid(), once for each identifier.
MonotonicUlid ==
  /\ pc = "make" /\ Monotonic /\ Len(made) < count
  /\ Stream!Next
  /\ UNCHANGED << argv, pc, count, out, err, code, cVars >>

\* core.ulid(), generateMany or their UUIDv7 twins, in one call: the ids of a
\* batch differ.  Or the monotonic stream has all it was asked for.
Generate ==
  /\ pc = "make"
  /\ IF Monotonic THEN Len(made) = count /\ UNCHANGED made
                  ELSE made' \in Injection(1 .. (IF Single THEN 1 ELSE count), Ids)
  /\ Goto("emit")
  /\ UNCHANGED << count, cVars >>

\* The core throws: no entropy, or no memory for the batch.
CoreFails ==
  /\ pc = "make"
  /\ Exit(1, << >>, << "uncaught" >>)

Lines(ids) == [i \in 1 .. Len(ids) |-> Shown("line", ids[i])]

\* A single identifier is a line even with --json.
AsJson == includes("--json") /\ (Monotonic \/ ~Single)

\* JSON.stringify throws when its text exceeds the longest string.
emit ==
  /\ pc = "emit"
  /\ CASE AsJson /\ Len(made) > MAX_JSON -> Exit(1, << >>, << "uncaught" >>)
       [] AsJson /\ Len(made) <= MAX_JSON -> Exit(0, << Shown("json", made) >>, << >>)
       [] OTHER -> Exit(0, Lines(made), << >>)

-----------------------------------------------------------------------------
(* The other commands.                                                     *)

bytes16 == Runs("bytes16") /\ (Exit(0, << Shown("hex", 1) >>, << >>) \/ Exit(1, << >>, << "uncaught" >>))

Usage == Shown("help", "usage")

decode ==
  /\ Runs("decode")
  /\ CASE rest = << >> \/ (rest # << >> /\ Head(rest) = "") -> Exit(1, << Usage >>, << >>)
       [] Len(rest) > 1 /\ Head(rest) # "" -> Exit(1, << >>, << "extra" >>)
       [] OTHER -> IF Head(rest) \in ValidIds THEN Exit(0, << Shown("decoded", Head(rest)) >>, << >>)
                                              ELSE Exit(1, << >>, << "invalid" >>)

\* Mutant: the first invalid argument is told, the others are not.
bad_First == FoldLeft(LAMBDA ws, w : IF w \in ValidIds \/ ws # << >> THEN ws ELSE Append(ws, w),
                      << >>, rest)

bad == FoldLeft(LAMBDA ws, w : IF w \in ValidIds THEN ws ELSE Append(ws, w), << >>, rest)

validate ==
  /\ Runs("validate")
  /\ CASE rest = << >> -> Exit(1, << Usage >>, << >>)
       [] rest # << >> /\ bad # << >> -> Exit(1, << >>, bad)
       [] OTHER -> Exit(0, << Shown("valid", Len(rest)) >>, << >>)

\* runCheck, on the arguments after `check`, and its code.
check ==
  \/ Runs("check") /\ Goto("check") /\ UNCHANGED << count, made, cVars >>
  \/ /\ pc = "check" /\ UNCHANGED << argv, pc, count, made, out, err, code >>
     /\ Check!runCheck
  \/ pc = "check" /\ exit # Check!Running /\ Exit(exit, printed, << >>)

\* The child's exit code, or 1 when a signal ended it.
benchmark == Runs("benchmark") /\ \E status \in {0, 1} : Exit(status, << >>, << >>)

version == Runs("version") /\ Exit(0, << Shown("version", 1) >>, << >>)

help == (Runs("help") \/ Runs("--help") \/ Runs("-h")) /\ Exit(0, << Usage >>, << >>)

Known == Documented \cup {"bytes16", "version", "help", "--help", "-h"}

Unknown ==
  /\ pc = "run" /\ ~AsksHelp /\ cmd \notin Known
  /\ Exit(1, << Usage >>, << "unknown" >>)

Exited == pc = "exited" /\ UNCHANGED vars

Next ==
  \/ load \/ Help \/ ParseCount \/ MonotonicUlid \/ Generate \/ CoreFails \/ emit
  \/ bytes16 \/ decode \/ validate \/ check \/ benchmark \/ version \/ help \/ Unknown
  \/ Exited

Spec == Init /\ [][Next]_vars

-----------------------------------------------------------------------------
(* Properties.                                                             *)

\* The identifiers on stdout: a JSON array of them, or else a line for each.
IdsShown ==
  IF Len(out) = 1 /\ out[1].form = "json" THEN out[1].tells
  ELSE [i \in 1 .. Len(out) |-> out[i].tells]

\* What --count says where it first stands, and 1 where it does not.
AskedFor(n) ==
  IF includes("--count")
    THEN \E i \in 1 .. Len(rest) - 1 :
           /\ rest[i] = "--count" /\ NumberOf[rest[i + 1]] = n
           /\ \A j \in 1 .. i - 1 : rest[j] # "--count"
    ELSE n = 1

\* A run that ends well has printed as many identifiers as it was asked for,
\* no two of them equal, in increasing order with --monotonic, and a run that
\* fails has printed none, however far it had come (rivid.mjs:132-155; "Every
\* command exits non-zero on invalid input", docs/cli.md:19-20).
IdsAsAsked ==
  pc = "exited" /\ cmd \in {"ulid", "uuidv7"} /\ ~AsksHelp =>
    IF code = 0
      THEN /\ AskedFor(Len(IdsShown))
           /\ IsInjective(IdsShown)
           /\ Monotonic => \A i, j \in 1 .. Len(IdsShown) : i < j => IdsShown[i] < IdsShown[j]
      ELSE IdsShown = << >>

Loaded == err # << "unloadable" >>

ToldInvalid(words) == \A w \in ToSet(rest) : w \in words <=> w \notin ValidIds

\* The exit code and what was printed tell the same: validate and decode end
\* with 0 if and only if every argument is an identifier (and decode has one),
\* validate names each argument that is not; check ends with 0 or 1 as its
\* report tells no severe finding or some, and a report in JSON stands alone
\* (docs/cli.md:15-20, cli/check.mjs:23-24).
ExitTells ==
  pc = "exited" /\ Loaded /\ ~AsksHelp =>
    /\ cmd = "validate" /\ rest # << >> =>
         /\ code = 0 <=> ToSet(rest) \subseteq ValidIds
         /\ ToldInvalid(ToSet(err))
    /\ cmd = "decode" => (code = 0 <=> Len(rest) = 1 /\ Head(rest) \in ValidIds)
    /\ cmd = "check" /\ out # << >> =>
         /\ code = 1 <=> \E f \in Head(out).tells : Check!Severe(f)
         /\ includes("--json") <=> Head(out).form = "json"
         /\ includes("--json") => Len(out) = 1

\* The usage line of --json: "Output JSON array instead of one ID per line"
\* (rivid.mjs:49, 79).  It does not hold of a single identifier.
JsonWhenAsked ==
  pc = "exited" /\ code = 0 /\ cmd \in {"ulid", "uuidv7"} /\ includes("--json") /\ ~AsksHelp
    => \A i \in 1 .. Len(out) : out[i].form = "json"

=============================================================================
