-------------------------------- MODULE Page --------------------------------
(***************************************************************************)
(* The demonstration page of integrations/react-wasm: App.tsx over the     *)
(* wasm engine.  Mounting starts init(), which fetches and instantiates    *)
(* the module; in development StrictMode mounts twice, and of two inits    *)
(* that overlap each makes an instance, the later of which takes the       *)
(* place of the earlier.  React runs the updater of a click when it        *)
(* renders, once or, in StrictMode and when it renders again, repeatedly.  *)
(*                                                                         *)
(* The glue of init() and React are seen from the page.  An instance has a *)
(* monotonic state of its own; its identifiers are numbers that increase   *)
(* by one or two.                                                          *)
(***************************************************************************)
EXTENDS Integers, SequencesExt

CONSTANTS
  KEPT,         \* How many older identifiers the list keeps (4 in the code).
  MaxClicks     \* Bound on the clicks on "next".

VARIABLES
  mounts,       \* 1, or 2 under StrictMode.
  effect,       \* effect[e]: fetching, loaded, done or failed.
  engine,       \* The instance the glue uses, 0 before there is one.
  last,         \* last[i]: the newest monotonic identifier of instance i.
  ready, error, \* State of the page,
  checks,       \* the outcome of its self-test of the monotonic order,
  monoList,     \* its list of [id, of], of the instance.
  clicks,       \* Updaters React has not run.
  clicked       \* Clicks so far.

vars == << mounts, effect, engine, last, ready, error, checks, monoList, clicks, clicked >>
page == << ready, error, checks, monoList, clicks, clicked >>

Instances == 1 .. 2

Init ==
  /\ mounts \in 1 .. 2
  /\ effect = [e \in Instances |-> IF e <= mounts THEN "fetching" ELSE "done"]
  /\ engine = 0
  /\ last = [i \in Instances |-> 0]
  /\ ready = FALSE /\ error = FALSE
  /\ checks = TRUE
  /\ monoList = << >>
  /\ clicks = 0 /\ clicked = 0

\* The values `last` may have after n calls of monotonicUlid: lists of the n
\* identifiers.
Stream(n) == { ids \in [1 .. n -> (last[engine] + 1) .. (last[engine] + 2 * n)] :
                 \A k \in 1 .. n : ids[k] - (IF k = 1 THEN last[engine] ELSE ids[k - 1]) \in {1, 2} }

-----------------------------------------------------------------------------
(* init(), and what the effect does after it.                              *)

InitResolves(e) ==
  /\ effect[e] = "fetching"
  /\ effect' = [effect EXCEPT ![e] = "loaded"]
  /\ engine' = e
  /\ UNCHANGED << mounts, last, page >>

InitRejects(e) ==
  /\ effect[e] = "fetching"
  /\ effect' = [effect EXCEPT ![e] = "failed"]
  /\ error' = TRUE
  /\ UNCHANGED << mounts, engine, last, ready, checks, monoList, clicks, clicked >>

\* runSelfTests, which takes three identifiers and may throw, and the first
\* values of the page.
SelfTest(e) ==
  /\ effect[e] = "loaded"
  /\ effect' = [effect EXCEPT ![e] = "done"]
  /\ \/ /\ \E m \in Stream(3) :
             /\ checks' = (m[1] < m[2] /\ m[2] < m[3])
             /\ last' = [last EXCEPT ![engine] = m[3]]
        /\ ready' = TRUE /\ UNCHANGED error
     \/ error' = TRUE /\ UNCHANGED << checks, last, ready >>
  /\ UNCHANGED << mounts, engine, monoList, clicks, clicked >>

-----------------------------------------------------------------------------
(* The button "next".                                                      *)

\* The error replaces the page, its buttons included.
Click ==
  /\ ready /\ ~error /\ clicked < MaxClicks
  /\ clicks' = clicks + 1 /\ clicked' = clicked + 1
  /\ UNCHANGED << mounts, effect, engine, last, ready, error, checks, monoList >>

Recent(list) == SubSeq(list, Len(list) - (IF Len(list) < KEPT THEN Len(list) ELSE KEPT) + 1, Len(list))

\* Mutant: the newest identifier is put in front.
next_InFront(list, m) == << m >> \o SubSeq(list, 1, IF Len(list) < KEPT THEN Len(list) ELSE KEPT)

next(list, m) == Append(Recent(list), m)

\* React runs the updater of the oldest click on the committed list, runs it
\* again in StrictMode, and keeps what it returned last; a render that is
\* abandoned has run it once more.
Render ==
  /\ clicks > 0
  /\ clicks' = clicks - 1
  /\ \E runs \in mounts .. mounts + 1 : \E ids \in Stream(runs) :
       /\ last' = [last EXCEPT ![engine] = ids[runs]]
       /\ monoList' = next(monoList, [id |-> ids[runs], of |-> engine])
  /\ UNCHANGED << mounts, effect, engine, ready, error, checks, clicked >>

Next ==
  \/ \E e \in Instances : InitResolves(e) \/ InitRejects(e) \/ SelfTest(e)
  \/ Click \/ Render

Spec == Init /\ [][Next]_vars

-----------------------------------------------------------------------------
(* Properties.                                                             *)

\* The list shows its newest identifiers in increasing order, which also
\* tells its rows apart (their React keys, App.tsx:145-147): all of the list
\* where the page mounts once, the identifiers of one instance where
\* StrictMode has replaced the instance under it.
ListIncreases ==
  \A i, j \in 1 .. Len(monoList) :
    i < j /\ (mounts = 1 \/ monoList[i].of = monoList[j].of) => monoList[i].id < monoList[j].id

=============================================================================
