------------------------------- MODULE Build -------------------------------
(***************************************************************************)
(* The build scripts over what they leave on disk: `npm run build` of the  *)
(* core (napi, two compilations, scripts/post-build.mjs), post-build alone,*)
(* and scripts/build-ts-package.mjs of a package.  A build may fail or be  *)
(* killed between any two writes, sources may be edited between builds,    *)
(* and nothing is ever cleaned.                                            *)
(*                                                                         *)
(* Of a compiled file the model keeps the version of its source and how    *)
(* far up it looks for the native binding, if it uses it.  napi and tsc    *)
(* are seen from the scripts.                                              *)
(***************************************************************************)
EXTENDS Integers, SequencesExt

CONSTANTS
  Files,        \* Source files.
  UsesBinding,  \* Those that import '../index.js' (of the core).
  MaxEdits,     \* Bound on the edits of a file.
  MaxBuilds     \* Bound on the builds.

Formats == {"esm", "cjs"}
Absent  == [version |-> 0, up |-> 0]

\* What runs one after another: the scripts of package.json and of the two
\* files, in steps.
PostBuild == << "markers", "walk", "declarations" >>
Steps == [core    |-> << "napi", "esm", "cjs" >> \o PostBuild,
          fix     |-> PostBuild,
          package |-> << "esm", "cjs", "markers" >>]

VARIABLES
  project,      \* core or package.
  version,      \* version[f]: of the source f.
  dist,         \* dist[m][f]: the compiled file of format m.
  marker,       \* Formats whose package.json is written.
  index_d_ts,   \* The declarations of the binding: none, generated, patched.
  steps,        \* Steps left of the running build.
  todo,         \* Files left in its current step.
  command,      \* The build that runs or ran last: core, fix or package.
  outcome,      \* none, running, failed or ended: none since an edit.
  builds        \* Builds so far.

vars == << project, version, dist, marker, index_d_ts, steps, todo, command, outcome, builds >>

Init ==
  /\ project \in {"core", "package"}
  /\ version = [f \in Files |-> 1]
  /\ dist = [m \in Formats |-> [f \in Files |-> Absent]]
  /\ marker = {}
  /\ index_d_ts = "none"
  /\ steps = << >> /\ todo = {}
  /\ command = "core" /\ outcome = "none"
  /\ builds = 0

Edit(f) ==
  /\ outcome # "running" /\ version[f] < MaxEdits
  /\ version' = [version EXCEPT ![f] = @ + 1]
  /\ outcome' = "none"
  /\ UNCHANGED << project, dist, marker, index_d_ts, steps, todo, command, builds >>

\* The files a step goes through.
Work(step) ==
  CASE step \in Formats -> {step} \X Files
    [] step = "walk" -> { at \in Formats \X Files : dist[at[1]][at[2]] # Absent }
    [] step = "markers" -> Formats \X {"package.json"}
    [] OTHER -> {}

Start(b) ==
  /\ outcome # "running" /\ builds < MaxBuilds
  /\ b \in IF project = "core" THEN {"core", "fix"} ELSE {"package"}
  /\ builds' = builds + 1
  /\ steps' = Steps[b]
  /\ todo' = Work(Head(Steps[b]))
  /\ command' = b /\ outcome' = "running"
  /\ UNCHANGED << project, version, dist, marker, index_d_ts >>

Step(s) == outcome = "running" /\ steps # << >> /\ Head(steps) = s

\* One write of a step.
Does(at) == todo' = todo \ {at} /\ UNCHANGED << project, version, steps, command, outcome, builds >>

Bare(f) == project = "core" /\ f \in UsesBinding

\* tsc writes each file anew, as its source has it.
Emit(m, f) ==
  /\ Step(m) /\ << m, f >> \in todo
  /\ dist' = [dist EXCEPT ![m][f] = [version |-> version[f], up |-> IF Bare(f) THEN 1 ELSE 0]]
  /\ Does(<< m, f >>)
  /\ UNCHANGED << marker, index_d_ts >>

\* A package.json beside the files of a format.
Marker(m) ==
  /\ Step("markers") /\ << m, "package.json" >> \in todo
  /\ marker' = marker \cup {m}
  /\ Does(<< m, "package.json" >>)
  /\ UNCHANGED << dist, index_d_ts >>

\* Mutant: any path to index.js gets one level deeper.
Deeper_Any(up) == IF up > 0 THEN up + 1 ELSE 0

\* '../index.js', the quotes included, becomes '../../index.js'.
Deeper(up) == IF up = 1 THEN 2 ELSE up

Rewrite(m, f) ==
  /\ Step("walk") /\ << m, f >> \in todo
  /\ dist' = [dist EXCEPT ![m][f].up = Deeper(@)]
  /\ Does(<< m, f >>)
  /\ UNCHANGED << marker, index_d_ts >>

\* The next step begins, or the build ends well.  napi and the patching of
\* the declarations are the ends of their steps; a file without declarations
\* cannot be patched.
EndStep ==
  /\ outcome = "running" /\ todo = {}
  /\ ~(Head(steps) = "declarations" /\ index_d_ts = "none")
  /\ index_d_ts' = CASE Head(steps) = "napi" -> "generated"
                     [] Head(steps) = "declarations" -> "patched"
                     [] OTHER -> index_d_ts
  /\ steps' = Tail(steps)
  /\ todo' = IF steps' = << >> THEN {} ELSE Work(Head(steps'))
  /\ outcome' = IF steps' = << >> THEN "ended" ELSE outcome
  /\ UNCHANGED << project, version, dist, marker, command, builds >>

\* A step fails (type errors, which do not keep tsc from writing, a missing
\* file), or the build is killed.
Fail ==
  /\ outcome = "running"
  /\ outcome' = "failed"
  /\ steps' = << >> /\ todo' = {}
  /\ UNCHANGED << project, version, dist, marker, index_d_ts, command, builds >>

Next ==
  \/ \E f \in Files : Edit(f)
  \/ \E b \in {"core", "fix", "package"} : Start(b)
  \/ \E m \in Formats : Marker(m) \/ \E f \in Files : Emit(m, f) \/ Rewrite(m, f)
  \/ EndStep \/ Fail

Spec == Init /\ [][Next]_vars

-----------------------------------------------------------------------------
(* Properties.                                                             *)

\* Whatever has failed or been killed before, and however often: after a
\* build, or after post-build alone, every compiled file looks for the binding
\* where it is, both formats are marked and the declarations of the core are
\* patched (scripts/post-build.mjs:1-8); after a build every file is the one
\* its source has become.
BuildSound ==
  outcome = "ended" =>
    /\ \A m \in Formats, f \in Files : dist[m][f] # Absent =>
         dist[m][f].up = IF Bare(f) THEN 2 ELSE 0
    /\ command # "fix" => \A m \in Formats, f \in Files : dist[m][f].version = version[f]
    /\ marker = Formats
    /\ project = "core" => index_d_ts = "patched"

=============================================================================
