---------------------------- MODULE PackageWasm ----------------------------
(***************************************************************************)
(* scripts/package-wasm.mjs: it assembles crates/wasm/npm, the package     *)
(* that is published, from what wasm-pack left in pkg-web and pkg.  A run  *)
(* may fail or be killed between any two writes, and be started again      *)
(* after the inputs or the version have changed.                           *)
(*                                                                         *)
(* A file of wasm-pack's is its version; wasm-pack and npm are outside.    *)
(***************************************************************************)
EXTENDS Integers, SequencesExt

CONSTANTS
  Versions,     \* Versions of the sources.
  Contents,     \* Contents[v]: the files wasm-pack makes of version v.
  MaxRuns       \* Bound on the runs.

Dirs  == {"web", "nodejs"}
Names == (UNION { Contents[v] : v \in Versions }) \cup {"package.json", ".gitignore"}
Own   == {"package.json", "README.md", "LICENSE"}
Paths == (Dirs \X Names) \cup ({"root"} \X Own)

Absent == 0
Fixed  == -1     \* What the script writes itself, whatever the version.

\* A manifest or an ignore file is none of the files that are published.
PackageWasmAssumption == \A v \in Versions : Contents[v] \cap {"package.json", ".gitignore"} = {}

VARIABLES
  pkg,          \* pkg[d]: the version in wasm-pack's output for d, or Absent.
  release,      \* The version of the root package.json, or RELEASE_VERSION.
  version,      \* The version the run has read.
  out,          \* out[p]: what is at p of the assembled package.
  steps,        \* Steps left of the run.
  todo,         \* Paths left in its current step.
  outcome,      \* none, running, failed or ended.
  runs          \* Runs so far.

vars == << pkg, release, version, out, steps, todo, outcome, runs >>

Init ==
  /\ pkg = [d \in Dirs |-> Absent]
  /\ release \in Versions /\ version = release
  /\ out = [p \in Paths |-> Absent]
  /\ steps = << >> /\ todo = {}
  /\ outcome = "none"
  /\ runs = 0

\* wasm-pack builds one of its targets, which it cleans; the version is set.
WasmPack(d) ==
  /\ outcome # "running"
  /\ pkg' = [pkg EXCEPT ![d] = release]
  /\ outcome' = "none"
  /\ UNCHANGED << release, version, out, steps, todo, runs >>

SetVersion ==
  /\ outcome # "running"
  /\ release' \in Versions
  /\ outcome' = "none"
  /\ UNCHANGED << pkg, version, out, steps, todo, runs >>

-----------------------------------------------------------------------------
\* wasm-pack's files of d, with its manifest and its ignore file.
Made(d) == {d} \X (Contents[pkg[d]] \cup {"package.json", ".gitignore"})

Steps == << "remove", "web", "nodejs", "strip", "commonjs", "manifest", "readme", "license" >>

\* Mutant: the package of an earlier run is written over.
Removed_Never == {}

\* rmSync deletes the tree entry by entry.
Removed == { p \in Paths : out[p] # Absent }

Work(step) ==
  CASE step = "remove" -> Removed
    [] step \in Dirs -> Made(step)
    [] step = "strip" -> Dirs \X {"package.json", ".gitignore"}
    [] step = "commonjs" -> { << "nodejs", "package.json" >> }
    [] step = "manifest" -> { << "root", "package.json" >> }
    [] step = "readme" -> { << "root", "README.md" >> }
    [] step = "license" -> { << "root", "LICENSE" >> }

Start ==
  /\ outcome # "running" /\ runs < MaxRuns
  /\ runs' = runs + 1
  /\ version' = release
  /\ steps' = Steps /\ todo' = Work("remove")
  /\ outcome' = "running"
  /\ UNCHANGED << pkg, release, out >>

Written(step, p) ==
  CASE step \in {"remove", "strip"} -> Absent
    [] step \in Dirs -> pkg[step]
    [] step \in {"manifest", "readme"} -> version
    [] OTHER -> Fixed

\* One write, or one removal, of the current step.
Write(p) ==
  /\ outcome = "running" /\ p \in todo
  /\ out' = [out EXCEPT ![p] = Written(Head(steps), p)]
  /\ todo' = todo \ {p}
  /\ UNCHANGED << pkg, release, version, steps, outcome, runs >>

\* The next step begins, if what it copies is there.
EndStep ==
  /\ outcome = "running" /\ todo = {}
  /\ steps' = Tail(steps)
  /\ IF steps' = << >> THEN todo' = {} /\ outcome' = "ended"
     ELSE /\ Head(steps') \in Dirs => pkg[Head(steps')] # Absent
          /\ todo' = Work(Head(steps'))
          /\ UNCHANGED outcome
  /\ UNCHANGED << pkg, release, version, out, runs >>

Fail ==
  /\ outcome = "running"
  /\ outcome' = "failed"
  /\ steps' = << >> /\ todo' = {}
  /\ UNCHANGED << pkg, release, version, out, runs >>

Next ==
  \/ \E d \in Dirs : WasmPack(d)
  \/ SetVersion \/ Start \/ EndStep \/ Fail
  \/ \E p \in todo : Write(p)

Spec == Init /\ [][Next]_vars

-----------------------------------------------------------------------------
(* Properties.                                                             *)

\* A run that ends well leaves the package of its own inputs and version and
\* nothing else, whatever runs before it have left: no file of an earlier
\* build, no manifest and no ignore file of wasm-pack's, which would empty the
\* published package (package-wasm.mjs:23-24), and the manifest that makes the
\* Node build CommonJS.
PackageWhole ==
  outcome = "ended" =>
    \A p \in Paths :
      out[p] = CASE p = << "nodejs", "package.json" >> -> Fixed
                 [] p = << "root", "LICENSE" >> -> Fixed
                 [] p[1] = "root" /\ p[2] # "LICENSE" -> version
                 [] p[1] \in Dirs /\ p[2] \in Contents[pkg[p[1]]] -> pkg[p[1]]
                 [] OTHER -> Absent

=============================================================================
