------------------------ MODULE Applications_proofs ------------------------
(***************************************************************************)
(* What is built around the engine, proved of each of the five parts for   *)
(* every number of files and builds, of versions and runs, of clicks, of   *)
(* callers, rows and requests, and for every list of arguments, tree of    *)
(* files and policy.                                                       *)
(***************************************************************************)
EXTENDS Applications, FiniteSetTheorems, SequenceTheorems, WellFoundedInduction, TLAPS

-----------------------------------------------------------------------------
(* The build scripts.                                                      *)

\* The order of the steps, which all builds keep.
Rank == [napi |-> 1, esm |-> 2, cjs |-> 3, markers |-> 4, walk |-> 5, declarations |-> 6]

\* The steps a build begins and ends with.
FirstRank(b) == IF b = "core" THEN 1 ELSE IF b = "fix" THEN 4 ELSE 2
LastRank(b)  == IF b = "package" THEN 4 ELSE 6

\* The step a build is in.
Place == LastRank(command) - Len(b_steps) + 1

\* Has the build come past the file x of step s?
Past(s, x) ==
  \/ Rank[s] < Place
  \/ Rank[s] = Place /\ x \notin b_todo

BuildTypes ==
  /\ project \in {"core", "package"}
  /\ command \in {"core", "fix", "package"}
  /\ b_version \in [Files -> Nat \ {0}]
  /\ dist \in [B!Formats -> [Files -> [version : Nat, up : 0 .. 2]]]
  /\ marker \subseteq B!Formats
  /\ b_steps \in Seq(DOMAIN Rank)

\* The steps that are left are the last ones, in order.
InOrder ==
  /\ b_outcome = "running" => b_steps # << >>
  /\ b_outcome # "running" => b_steps = << >> /\ b_todo = {}
  /\ b_outcome \in {"running", "ended"} =>
       /\ command = "package" <=> project = "package"
       /\ Place \in Nat
       /\ \A i \in 1 .. Len(b_steps) : Rank[b_steps[i]] = Place + i - 1

\* A compiled file looks for the binding one level up until it is rewritten.
Looks ==
  \A m \in B!Formats, f \in Files :
    \/ dist[m][f] = B!Absent
    \/ dist[m][f].version # 0 /\ dist[m][f].up \in (IF B!Bare(f) THEN {1, 2} ELSE {0})

\* What the build has come past is as it must be.
DoneSoFar ==
  b_outcome \in {"running", "ended"} =>
    /\ \A m \in B!Formats, f \in Files :
         /\ command # "fix" /\ Past(m, << m, f >>) => dist[m][f].version = b_version[f]
         /\ Past("walk", << m, f >>) /\ dist[m][f] # B!Absent =>
              dist[m][f].up = IF B!Bare(f) THEN 2 ELSE 0
    /\ \A m \in B!Formats : Past("markers", << m, "package.json" >>) => m \in marker
    /\ Place > 6 => index_d_ts = "patched"

BuildInv == BuildTypes /\ InOrder /\ Looks /\ DoneSoFar

LEMMA InitBuildInv == B!Init => BuildInv
<1> SUFFICES ASSUME B!Init PROVE BuildInv
  OBVIOUS
<1>1. BuildTypes
  BY DEF B!Init, BuildTypes, B!Formats, B!Absent
<1>2. InOrder /\ Looks /\ DoneSoFar
  BY DEF B!Init, InOrder, Looks, DoneSoFar, B!Formats
<1> QED
  BY <1>1, <1>2 DEF BuildInv

(* A build begins with the first of its steps, all of which are in order.  *)
LEMMA StepsInOrder ==
  ASSUME NEW b \in {"core", "fix", "package"}
  PROVE  /\ B!Steps[b] \in Seq(DOMAIN Rank)
         /\ Len(B!Steps[b]) = LastRank(b) - FirstRank(b) + 1
         /\ \A i \in 1 .. Len(B!Steps[b]) : Rank[B!Steps[b][i]] = FirstRank(b) + i - 1
<1> USE DEF FirstRank, LastRank
<1>1. B!PostBuild \in Seq(DOMAIN Rank) /\ Len(B!PostBuild) = 3
  BY DEF B!PostBuild, Rank
<1>2. << "napi", "esm", "cjs" >> \in Seq(DOMAIN Rank) /\ Len(<< "napi", "esm", "cjs" >>) = 3
  BY DEF Rank
<1>3. CASE b = "core"
  <2> DEFINE compile == << "napi", "esm", "cjs" >>
             s == compile \o B!PostBuild
  <2>1. B!Steps[b] = s
    BY <1>3 DEF B!Steps
  <2>2. /\ s \in Seq(DOMAIN Rank) /\ Len(s) = 6
        /\ s[1] = "napi" /\ s[2] = "esm" /\ s[3] = "cjs"
        /\ s[4] = B!PostBuild[1] /\ s[5] = B!PostBuild[2] /\ s[6] = B!PostBuild[3]
    <3> HIDE DEF compile
    <3>1. compile \in Seq(DOMAIN Rank) /\ Len(compile) = 3
      BY <1>2 DEF compile
    <3>2. /\ s \in Seq(DOMAIN Rank) /\ Len(s) = Len(compile) + Len(B!PostBuild)
          /\ \A i \in 1 .. Len(compile) + Len(B!PostBuild) :
               s[i] = IF i <= Len(compile) THEN compile[i] ELSE B!PostBuild[i - Len(compile)]
      BY <1>1, <3>1, ConcatProperties
    <3> HIDE DEF s
    <3> QED
      BY <1>1, <3>1, <3>2 DEF compile
  <2> HIDE DEF s
  <2>3. \A i \in 1 .. 6 : Rank[s[i]] = i
    BY <2>2 DEF B!PostBuild, Rank
  <2> QED
    BY <1>3, <2>1, <2>2, <2>3
<1>4. CASE b = "fix"
  BY <1>4, <1>1 DEF B!Steps, B!PostBuild, Rank
<1>5. CASE b = "package"
  <2>1. B!Steps[b] = << "esm", "cjs", "markers" >>
    BY <1>5 DEF B!Steps
  <2> QED
    BY <1>5, <2>1 DEF Rank
<1> QED
  BY <1>3, <1>4, <1>5

(* The running step is the one the build has come to.                      *)
LEMMA AtPlace ==
  ASSUME BuildTypes, InOrder, b_outcome = "running"
  PROVE  /\ Head(b_steps) \in DOMAIN Rank /\ Rank[Head(b_steps)] = Place
         /\ Len(b_steps) \in Nat \ {0} /\ Place \in Nat
         /\ Tail(b_steps) \in Seq(DOMAIN Rank) /\ Len(Tail(b_steps)) = Len(b_steps) - 1
         /\ \A i \in 1 .. Len(Tail(b_steps)) : Rank[Tail(b_steps)[i]] = Place + i
<1>1. b_steps # << >> /\ b_steps \in Seq(DOMAIN Rank)
  BY DEF InOrder, BuildTypes
<1>2. Len(b_steps) \in Nat \ {0} /\ Place \in Nat
  BY <1>1, EmptySeq DEF InOrder
<1>3. \A i \in 1 .. Len(b_steps) : Rank[b_steps[i]] = Place + i - 1
  BY DEF InOrder
<1>4. Head(b_steps) = b_steps[1] /\ Head(b_steps) \in DOMAIN Rank
  BY <1>1, HeadTailProperties
<1>5. Rank[Head(b_steps)] = Place
  BY <1>2, <1>3, <1>4
<1>6. /\ Tail(b_steps) \in Seq(DOMAIN Rank) /\ Len(Tail(b_steps)) = Len(b_steps) - 1
      /\ \A i \in 1 .. Len(Tail(b_steps)) : Tail(b_steps)[i] = b_steps[i + 1]
  BY <1>1, HeadTailProperties
<1>7. \A i \in 1 .. Len(Tail(b_steps)) : Rank[Tail(b_steps)[i]] = Place + i
  BY <1>2, <1>3, <1>6
<1> QED
  BY <1>2, <1>4, <1>5, <1>6, <1>7

(* An edit ends what was known of the build.                               *)
LEMMA EditBuildInv ==
  ASSUME BuildInv, NEW f \in Files, B!Edit(f) PROVE BuildInv'
<1>1. /\ b_version' = [b_version EXCEPT ![f] = @ + 1] /\ b_outcome' = "none"
      /\ b_outcome # "running"
      /\ UNCHANGED << project, dist, marker, index_d_ts, b_steps, b_todo, command, builds >>
  BY DEF B!Edit
<1>2. BuildTypes'
  BY <1>1 DEF BuildInv, BuildTypes
<1>3. InOrder'
  BY <1>1 DEF BuildInv, InOrder
<1>4. Looks' /\ DoneSoFar'
  BY <1>1 DEF BuildInv, Looks, DoneSoFar, B!Bare, B!Absent
<1> QED
  BY <1>2, <1>3, <1>4 DEF BuildInv

(* A build begins with nothing behind it that it has to do.                *)
LEMMA StartBuildInv ==
  ASSUME BuildInv, NEW b \in {"core", "fix", "package"}, B!Start(b) PROVE BuildInv'
<1>1. /\ b \in IF project = "core" THEN {"core", "fix"} ELSE {"package"}
      /\ b_steps' = B!Steps[b] /\ b_todo' = B!Work(Head(B!Steps[b]))
      /\ command' = b /\ b_outcome' = "running"
      /\ UNCHANGED << project, b_version, dist, marker, index_d_ts >>
  BY DEF B!Start
<1> DEFINE first == FirstRank(b)
<1>2. /\ B!Steps[b] \in Seq(DOMAIN Rank) /\ B!Steps[b] # << >>
      /\ Len(B!Steps[b]) \in Nat \ {0}
      /\ \A i \in 1 .. Len(B!Steps[b]) : Rank[B!Steps[b][i]] = first + i - 1
      /\ first = LastRank(b) - Len(B!Steps[b]) + 1
  <2>1. /\ B!Steps[b] \in Seq(DOMAIN Rank) /\ Len(B!Steps[b]) = LastRank(b) - first + 1
        /\ \A i \in 1 .. Len(B!Steps[b]) : Rank[B!Steps[b][i]] = first + i - 1
    BY StepsInOrder
  <2>2. first \in Nat /\ LastRank(b) \in Nat /\ LastRank(b) - first + 1 \in Nat \ {0}
    BY DEF FirstRank, LastRank
  <2> HIDE DEF first
  <2> QED
    BY <2>1, <2>2, EmptySeq
<1> HIDE DEF first
<1>3. Place' = first
  BY <1>1, <1>2 DEF Place
<1>4. BuildTypes'
  BY <1>1, <1>2 DEF BuildInv, BuildTypes
<1>5. InOrder'
  <2>1. first \in Nat
    BY DEF first, FirstRank
  <2>2. (command = "package" <=> project = "package")'
    BY <1>1, <1>4 DEF BuildTypes
  <2> QED
    BY <1>1, <1>2, <1>3, <2>1, <2>2 DEF InOrder
<1>6. Looks'
  BY <1>1 DEF BuildInv, Looks, B!Bare, B!Absent
<1>7. DoneSoFar'
  <2>1. CASE b = "core"
    BY <1>1, <1>3, <2>1 DEF DoneSoFar, Past, first, FirstRank, Rank, B!Formats
  <2>2. CASE b = "fix"
    <3>1. Head(B!Steps[b]) = "markers"
      BY <2>2 DEF B!Steps, B!PostBuild
    <3>2. b_todo' = B!Formats \X {"package.json"}
      BY <1>1, <3>1 DEF B!Work, B!Formats
    <3> QED
      BY <1>1, <1>3, <2>2, <3>2 DEF DoneSoFar, Past, first, FirstRank, Rank, B!Formats
  <2>3. CASE b = "package"
    <3>1. Head(B!Steps[b]) = "esm"
      BY <2>3 DEF B!Steps
    <3>2. b_todo' = {"esm"} \X Files
      BY <1>1, <3>1 DEF B!Work, B!Formats
    <3> QED
      BY <1>1, <1>3, <2>3, <3>2 DEF DoneSoFar, Past, first, FirstRank, Rank, B!Formats
  <2> QED
    BY <2>1, <2>2, <2>3
<1> QED
  BY <1>4, <1>5, <1>6, <1>7 DEF BuildInv

(* A compiled file is as its source has it, and has to be rewritten.       *)
LEMMA EmitBuildInv ==
  ASSUME BuildInv, NEW m \in B!Formats, NEW f \in Files, B!Emit(m, f) PROVE BuildInv'
<1> USE DEF BuildInv
<1>1. /\ b_outcome = "running" /\ Head(b_steps) = m /\ << m, f >> \in b_todo
      /\ dist' = [dist EXCEPT ![m][f] =
                    [version |-> b_version[f], up |-> IF B!Bare(f) THEN 1 ELSE 0]]
      /\ b_todo' = b_todo \ {<< m, f >>}
      /\ UNCHANGED << project, b_version, marker, index_d_ts, b_steps, command, b_outcome >>
  BY DEF B!Emit, B!Step, B!Does
<1>2. Rank[m] = Place /\ Rank[m] \in {2, 3}
  BY <1>1, AtPlace DEF B!Formats, Rank
<1>3. Place' = Place
  BY <1>1 DEF Place
<1>4. /\ dist'[m][f] = [version |-> b_version[f], up |-> IF B!Bare(f) THEN 1 ELSE 0]
      /\ \A n \in B!Formats, g \in Files : << n, g >> # << m, f >> => dist'[n][g] = dist[n][g]
  BY <1>1 DEF BuildTypes
<1>5. BuildTypes'
  BY <1>1 DEF BuildTypes
<1>6. InOrder'
  BY <1>1, <1>3 DEF InOrder
<1>7. Looks'
  BY <1>1, <1>4 DEF Looks, BuildTypes, B!Bare, B!Absent
<1>8. DoneSoFar'
  <2>1. \A n \in B!Formats, g \in Files :
          /\ Past(n, << n, g >>)' /\ << n, g >> # << m, f >> => Past(n, << n, g >>)
          /\ ~Past("walk", << n, g >>)'
    BY <1>1, <1>2, <1>3 DEF Past, Rank
  <2>2. \A n \in B!Formats : ~Past("markers", << n, "package.json" >>)'
    BY <1>2, <1>3 DEF Past, Rank
  <2> QED
    BY <1>1, <1>2, <1>3, <1>4, <2>1, <2>2 DEF DoneSoFar
<1> QED
  BY <1>5, <1>6, <1>7, <1>8

(* A format is marked.                                                     *)
LEMMA MarkerBuildInv ==
  ASSUME BuildInv, NEW m \in B!Formats, B!Marker(m) PROVE BuildInv'
<1> USE DEF BuildInv
<1>1. /\ b_outcome = "running" /\ Head(b_steps) = "markers" /\ marker' = marker \cup {m}
      /\ b_todo' = b_todo \ {<< m, "package.json" >>}
      /\ UNCHANGED << project, b_version, dist, index_d_ts, b_steps, command, b_outcome >>
  BY DEF B!Marker, B!Step, B!Does
<1>2. Place = 4
  BY <1>1, AtPlace DEF Rank
<1>3. Place' = Place
  BY <1>1 DEF Place
<1>4. BuildTypes' /\ InOrder'
  BY <1>1, <1>3 DEF BuildTypes, InOrder
<1>5. Looks'
  BY <1>1 DEF Looks, B!Bare, B!Absent
<1>6. DoneSoFar'
  <2>1. \A n \in B!Formats, g \in Files :
          Past(n, << n, g >>) /\ ~Past("walk", << n, g >>)'
    BY <1>2, <1>3 DEF Past, Rank, B!Formats
  <2>2. \A n \in B!Formats :
          Past("markers", << n, "package.json" >>)' /\ n # m => Past("markers", << n, "package.json" >>)
    BY <1>1, <1>3 DEF Past
  <2> QED
    BY <1>1, <1>2, <1>3, <2>1, <2>2 DEF DoneSoFar
<1> QED
  BY <1>4, <1>5, <1>6

(* A rewritten file looks two levels up, if it looks at all.               *)
LEMMA RewriteBuildInv ==
  ASSUME BuildInv, NEW m \in B!Formats, NEW f \in Files, B!Rewrite(m, f) PROVE BuildInv'
<1> USE DEF BuildInv
<1>1. /\ b_outcome = "running" /\ Head(b_steps) = "walk" /\ << m, f >> \in b_todo
      /\ dist' = [dist EXCEPT ![m][f].up = B!Deeper(@)]
      /\ b_todo' = b_todo \ {<< m, f >>}
      /\ UNCHANGED << project, b_version, marker, index_d_ts, b_steps, command, b_outcome >>
  BY DEF B!Rewrite, B!Step, B!Does
<1>2. Place = 5
  BY <1>1, AtPlace DEF Rank
<1>3. Place' = Place
  BY <1>1 DEF Place
<1>4. /\ dist'[m][f].version = dist[m][f].version /\ dist'[m][f].up = B!Deeper(dist[m][f].up)
      /\ dist'[m][f] \in [version : Nat, up : 0 .. 2]
      /\ \A n \in B!Formats, g \in Files : << n, g >> # << m, f >> => dist'[n][g] = dist[n][g]
  <2>1. dist \in [B!Formats -> [Files -> [version : Nat, up : 0 .. 2]]]
    BY DEF BuildTypes
  <2>2. dist[m][f] \in [version : Nat, up : 0 .. 2] /\ f \in Files
    BY <1>1, <2>1
  <2>3. dist'[m][f] = [dist[m][f] EXCEPT !.up = B!Deeper(dist[m][f].up)]
    BY <1>1, <2>1, <2>2
  <2>4. B!Deeper(dist[m][f].up) \in 0 .. 2
    BY <2>2 DEF B!Deeper
  <2> QED
    BY <1>1, <2>1, <2>2, <2>3, <2>4
<1>5. BuildTypes'
  BY <1>1, <1>4 DEF BuildTypes, B!Deeper
<1>6. InOrder'
  BY <1>1, <1>3 DEF InOrder
<1>7. dist[m][f] = B!Absent => dist'[m][f] = B!Absent
  BY <1>4 DEF B!Absent, B!Deeper
<1>8. dist[m][f] # B!Absent =>
        /\ dist'[m][f].version # 0
        /\ dist'[m][f].up = IF B!Bare(f) THEN 2 ELSE 0
  BY <1>4 DEF Looks, B!Deeper
<1>9. Looks'
  BY <1>1, <1>4, <1>7, <1>8 DEF Looks, B!Bare, B!Absent
<1>10. DoneSoFar'
  <2>1. \A n \in B!Formats, g \in Files :
          /\ Past(n, << n, g >>)
          /\ Past("walk", << n, g >>)' /\ << n, g >> # << m, f >> => Past("walk", << n, g >>)
    BY <1>1, <1>2, <1>3 DEF Past, Rank, B!Formats
  <2>2. \A n \in B!Formats, g \in Files : dist'[n][g].version = dist[n][g].version
    BY <1>4
  <2>3. \A n \in B!Formats, g \in Files :
          Past("walk", << n, g >>)' /\ dist'[n][g] # B!Absent =>
            dist'[n][g].up = IF B!Bare(g) THEN 2 ELSE 0
    BY <1>1, <1>4, <1>7, <1>8, <2>1 DEF DoneSoFar
  <2>4. \A n \in B!Formats : Past("markers", << n, "package.json" >>)
    BY <1>2 DEF Past, Rank
  <2> QED
    BY <1>1, <1>2, <1>3, <2>1, <2>2, <2>3, <2>4 DEF DoneSoFar, B!Absent, B!Bare
<1> QED
  BY <1>5, <1>6, <1>9, <1>10

(* What the next step has nothing to do with is past already.              *)
LEMMA EndStepBuildInv == ASSUME BuildInv, B!EndStep PROVE BuildInv'
<1> USE DEF BuildInv
<1>1. /\ b_outcome = "running" /\ b_todo = {} /\ b_steps' = Tail(b_steps)
      /\ b_todo' = IF b_steps' = << >> THEN {} ELSE B!Work(Head(b_steps'))
      /\ b_outcome' = IF b_steps' = << >> THEN "ended" ELSE b_outcome
      /\ Head(b_steps) = "declarations" => index_d_ts' = "patched"
      /\ UNCHANGED << project, b_version, dist, marker, command >>
  BY DEF B!EndStep
<1>2. /\ Head(b_steps) \in DOMAIN Rank /\ Rank[Head(b_steps)] = Place
      /\ b_steps' \in Seq(DOMAIN Rank) /\ Len(b_steps') = Len(b_steps) - 1
      /\ \A i \in 1 .. Len(b_steps') : Rank[b_steps'[i]] = Place + i
      /\ Place \in Nat /\ Len(b_steps) \in Nat \ {0}
  BY <1>1, AtPlace
<1>3. Place' = Place + 1
  BY <1>1, <1>2 DEF Place, LastRank
<1>4. BuildTypes'
  BY <1>1, <1>2 DEF BuildTypes
<1>5. InOrder'
  BY <1>1, <1>2, <1>3 DEF InOrder
<1>6. Looks'
  BY <1>1 DEF Looks, B!Bare, B!Absent
<1>7. ASSUME NEW s \in DOMAIN Rank, NEW x, Past(s, x)'
      PROVE  \/ Past(s, x)
             \/ b_steps' = << >> /\ Rank[s] = LastRank(command) + 1
             \/ x \notin B!Work(s)
  <2>1. Rank[s] \in Nat
    BY DEF Rank
  <2>2. CASE Rank[s] < Place + 1
    BY <1>1, <1>2, <2>1, <2>2 DEF Past
  <2>3. CASE Rank[s] = Place + 1 /\ x \notin b_todo' /\ b_steps' = << >>
    <3>1. Len(b_steps') = 0
      BY <2>3
    <3>2. Len(b_steps) = 1 /\ LastRank(command) \in Nat
      BY <1>2, <3>1 DEF LastRank
    <3>3. Place = LastRank(command)
      BY <3>2 DEF Place
    <3> QED
      BY <2>3, <3>3
  <2>4. CASE Rank[s] = Place + 1 /\ x \notin b_todo' /\ b_steps' # << >>
    <3>1. Len(b_steps') \in Nat \ {0} /\ Head(b_steps') = b_steps'[1] /\ Head(b_steps') \in DOMAIN Rank
      <4>1. PICK S : S = DOMAIN Rank /\ b_steps' \in Seq(S)
        BY <1>2
      <4>2. PICK q \in Seq(S) : q = b_steps' /\ q # << >>
        BY <2>4, <4>1
      <4>3. Len(q) \in Nat \ {0} /\ Head(q) = q[1] /\ Head(q) \in S
        <5>1. Head(q) \in S /\ Len(q) \in Nat
          BY <4>2, HeadTailProperties, LenProperties
        <5>2. Len(q) # 0
          BY <4>2, EmptySeq
        <5> QED
          BY <5>1, <5>2
      <4> QED
        BY <4>1, <4>2, <4>3
    <3>2. Rank[Head(b_steps')] = Rank[s]
      BY <1>2, <2>4, <3>1
    <3>3. Head(b_steps') = s
      BY <3>1, <3>2 DEF Rank
    <3> QED
      BY <1>1, <2>4, <3>3
  <2> QED
    BY <1>7, <1>3, <2>2, <2>3, <2>4 DEF Past
<1>8. DoneSoFar'
  <2> SUFFICES
        /\ \A m \in B!Formats, f \in Files :
             /\ command # "fix" /\ Past(m, << m, f >>)' => dist[m][f].version = b_version[f]
             /\ Past("walk", << m, f >>)' /\ dist[m][f] # B!Absent =>
                  dist[m][f].up = IF B!Bare(f) THEN 2 ELSE 0
        /\ \A m \in B!Formats : Past("markers", << m, "package.json" >>)' => m \in marker
        /\ Place' > 6 => index_d_ts' = "patched"
    BY <1>1 DEF DoneSoFar, B!Bare, B!Absent
  <2>1. ASSUME NEW m \in B!Formats, NEW f \in Files, command # "fix", Past(m, << m, f >>)'
        PROVE  dist[m][f].version = b_version[f]
    <3>1. m \in DOMAIN Rank /\ Rank[m] \in {2, 3}
      BY DEF B!Formats, Rank
    <3>2. << m, f >> \in B!Work(m)
      BY DEF B!Work, B!Formats
    <3>3. Past(m, << m, f >>)
      BY <1>7, <2>1, <3>1, <3>2 DEF LastRank
    <3> QED
      BY <1>1, <2>1, <3>3 DEF DoneSoFar
  <2>2. ASSUME NEW m \in B!Formats, NEW f \in Files, Past("walk", << m, f >>)',
               dist[m][f] # B!Absent
        PROVE  dist[m][f].up = IF B!Bare(f) THEN 2 ELSE 0
    <3>1. "walk" \in DOMAIN Rank /\ Rank["walk"] = 5
      BY DEF Rank
    <3>2. << m, f >> \in B!Work("walk")
      BY <2>2 DEF B!Work, B!Formats
    <3>3. CASE Past("walk", << m, f >>)
      BY <1>1, <2>2, <3>3 DEF DoneSoFar
    <3>4. CASE command = "package"
      BY <1>1, <2>2, <3>4 DEF InOrder, Looks, B!Bare, BuildTypes
    <3> QED
      BY <1>7, <2>2, <3>1, <3>2, <3>3, <3>4 DEF LastRank
  <2>3. ASSUME NEW m \in B!Formats, Past("markers", << m, "package.json" >>)'
        PROVE  m \in marker
    <3>1. "markers" \in DOMAIN Rank /\ Rank["markers"] = 4
      BY DEF Rank
    <3>2. << m, "package.json" >> \in B!Work("markers")
      BY DEF B!Work, B!Formats
    <3> QED
      BY <1>1, <1>7, <2>3, <3>1, <3>2 DEF DoneSoFar, LastRank
  <2>4. Place' > 6 => index_d_ts' = "patched"
    BY <1>1, <1>2, <1>3 DEF Rank
  <2> QED
    BY <2>1, <2>2, <2>3, <2>4
<1> QED
  BY <1>4, <1>5, <1>6, <1>8

LEMMA NextBuildInv == ASSUME BuildInv, [B!Next]_(B!vars) PROVE BuildInv'
<1>1. CASE UNCHANGED B!vars
  BY <1>1 DEF B!vars, BuildInv, BuildTypes, InOrder, Looks, DoneSoFar, Past, Place, B!Bare, B!Absent
<1>2. CASE B!Fail
  BY <1>2 DEF B!Fail, BuildInv, BuildTypes, InOrder, Looks, DoneSoFar, B!Bare, B!Absent
<1> QED
  BY <1>1, <1>2, EditBuildInv, StartBuildInv, EmitBuildInv, MarkerBuildInv, RewriteBuildInv,
     EndStepBuildInv DEF B!Next

(* The other parts leave the build alone.                                  *)
LEMMA BuildKept == Spec => [](part = "build" => BuildInv)
<1>1. Init => (part = "build" => BuildInv)
  BY InitBuildInv DEF Init
<1>2. (part = "build" => BuildInv) /\ [Next]_vars => (part = "build" => BuildInv)'
  <2> SUFFICES ASSUME part = "build" => BuildInv, [Next]_vars, part' = "build"
               PROVE  BuildInv'
    OBVIOUS
  <2>1. part = "build" /\ [B!Next]_(B!vars)
    BY DEF Next, vars, bVars, B!vars
  <2> QED
    BY <2>1, NextBuildInv
<1> QED
  BY <1>1, <1>2, PTL DEF Spec

(* Whatever has failed or been killed before, and however often: after a   *)
(* build, or after post-build alone, every compiled file looks for the     *)
(* binding where it is, both formats are marked and the declarations are   *)
(* patched; after a build every file is the one its source has become      *)
(* (scripts/post-build.mjs:1-8).                                           *)
THEOREM BuildsRepair == Spec => []BuildSound
<1>1. ASSUME BuildInv, b_outcome = "ended"
      PROVE  /\ \A m \in B!Formats, f \in Files : dist[m][f] # B!Absent =>
                  dist[m][f].up = IF B!Bare(f) THEN 2 ELSE 0
             /\ command # "fix" =>
                  \A m \in B!Formats, f \in Files : dist[m][f].version = b_version[f]
             /\ marker = B!Formats
             /\ project = "core" => index_d_ts = "patched"
  <2>1. b_steps = << >> /\ b_todo = {} /\ (command = "package" <=> project = "package")
    BY <1>1 DEF BuildInv, InOrder
  <2>2. Place = LastRank(command) + 1
    BY <2>1 DEF Place, LastRank
  <2>3. \A m \in B!Formats, f \in Files :
          /\ Past(m, << m, f >>) /\ Past("walk", << m, f >>)
          /\ Past("markers", << m, "package.json" >>)
    BY <2>1, <2>2 DEF Past, LastRank, Rank, B!Formats
  <2>4. \A m \in B!Formats : Past("markers", << m, "package.json" >>)
    BY <2>1, <2>2 DEF Past, LastRank, Rank
  <2>5. project = "core" => Place > 6
    BY <2>1, <2>2 DEF LastRank
  <2> QED
    BY <1>1, <2>3, <2>4, <2>5 DEF BuildInv, BuildTypes, DoneSoFar
<1>2. (part = "build" => BuildInv) => BuildSound
  BY <1>1 DEF BuildSound, B!BuildSound
<1> QED
  BY <1>2, BuildKept, PTL

-----------------------------------------------------------------------------
(* The published package.                                                  *)

\* The order of the steps of a run.
StepNo == [remove |-> 1, web |-> 2, nodejs |-> 3, strip |-> 4, commonjs |-> 5,
           manifest |-> 6, readme |-> 7, license |-> 8]

\* The step a run is in.
Now == 9 - Len(w_steps)

\* Has the run come past the path p in step s?
Over(s, p) ==
  \/ StepNo[s] < Now
  \/ StepNo[s] = Now /\ p \notin w_todo

\* The paths a step deals with; those that are absent are removed already.
Scope(s) == IF s = "remove" THEN W!Paths ELSE W!Work(s)

PackageTypes ==
  /\ pkg \in [W!Dirs -> Versions \cup {W!Absent}]
  /\ release \in Versions
  /\ w_version \in Versions
  /\ w_out = [p \in W!Paths |-> w_out[p]]
  /\ w_steps \in Seq(DOMAIN StepNo)

\* The steps that are left are the last ones, in order, and the current one
\* has to do only with its own paths.
InTurn ==
  /\ w_outcome = "running" => w_steps # << >>
  /\ w_outcome # "running" => w_steps = << >> /\ w_todo = {}
  /\ \A i \in 1 .. Len(w_steps) : StepNo[w_steps[i]] = Now + i - 1
  /\ \A s \in DOMAIN StepNo :
       w_outcome = "running" /\ s = Head(w_steps) => w_todo \subseteq Scope(s) \cap W!Paths
  /\ \A d \in W!Dirs :
       w_outcome \in {"running", "ended"} /\ StepNo[d] <= Now => pkg[d] \in Versions

\* At every path is what the last step that came past it has written there.
LastWriter ==
  w_outcome \in {"running", "ended"} =>
    \A p \in W!Paths, s \in DOMAIN StepNo :
      /\ Over(s, p) /\ p \in Scope(s)
      /\ \A z \in DOMAIN StepNo : StepNo[z] > StepNo[s] /\ p \in Scope(z) => ~Over(z, p)
      => w_out[p] = W!Written(s, p)

PackageInv == PackageTypes /\ InTurn /\ LastWriter

LEMMA InitPackageInv == W!Init => PackageInv
  BY DEF W!Init, PackageInv, PackageTypes, InTurn, LastWriter, Now

(* What each step works on, and writes.                                    *)
LEMMA WorkOf ==
  /\ W!Work("remove") = W!Removed
  /\ \A d \in W!Dirs : W!Work(d) = W!Made(d)
  /\ W!Work("strip") = W!Dirs \X {"package.json", ".gitignore"}
  /\ W!Work("commonjs") = {<< "nodejs", "package.json" >>}
  /\ W!Work("manifest") = {<< "root", "package.json" >>}
  /\ W!Work("readme") = {<< "root", "README.md" >>}
  /\ W!Work("license") = {<< "root", "LICENSE" >>}
  BY DEF W!Work, W!Dirs

LEMMA WrittenBy ==
  ASSUME NEW p
  PROVE  /\ W!Written("remove", p) = W!Absent /\ W!Written("strip", p) = W!Absent
         /\ \A d \in W!Dirs : W!Written(d, p) = pkg[d]
         /\ W!Written("manifest", p) = w_version /\ W!Written("readme", p) = w_version
         /\ W!Written("commonjs", p) = W!Fixed /\ W!Written("license", p) = W!Fixed
  BY DEF W!Written, W!Dirs

(* The names that can occur in the package.                                *)
LEMMA NamesInclude ==
  /\ "package.json" \in W!Names /\ ".gitignore" \in W!Names
  /\ \A v \in Versions : Contents[v] \subseteq W!Names
<1>1. "package.json" \in W!Names /\ ".gitignore" \in W!Names
  BY DEF W!Names
<1>2. ASSUME NEW v \in Versions, NEW n \in Contents[v] PROVE n \in W!Names
  <2>1. n \in UNION { Contents[u] : u \in Versions }
    BY <1>2
  <2> QED
    BY <2>1 DEF W!Names
<1> QED
  BY <1>1, <1>2

(* A run takes its eight steps in order.                                   *)
LEMMA RunInOrder ==
  /\ W!Steps \in Seq(DOMAIN StepNo) /\ Len(W!Steps) = 8 /\ W!Steps # << >>
  /\ Head(W!Steps) = "remove"
  /\ \A i \in 1 .. 8 : StepNo[W!Steps[i]] = i
<1>1. W!Steps \in Seq(DOMAIN StepNo) /\ Len(W!Steps) = 8 /\ W!Steps # << >>
  BY DEF W!Steps, StepNo
<1>2. Head(W!Steps) = "remove"
  BY DEF W!Steps
<1>3. \A i \in 1 .. 8 : StepNo[W!Steps[i]] = i
  BY DEF W!Steps, StepNo
<1> QED
  BY <1>1, <1>2, <1>3

(* The running step is the one the run has come to.                        *)
LEMMA AtNow ==
  ASSUME PackageTypes, InTurn, w_outcome = "running"
  PROVE  /\ Head(w_steps) \in DOMAIN StepNo /\ StepNo[Head(w_steps)] = Now
         /\ Len(w_steps) \in Nat \ {0} /\ Now \in Nat
         /\ Tail(w_steps) \in Seq(DOMAIN StepNo) /\ Len(Tail(w_steps)) = Len(w_steps) - 1
         /\ \A i \in 1 .. Len(Tail(w_steps)) : StepNo[Tail(w_steps)[i]] = Now + i
<1>1. w_steps # << >> /\ w_steps \in Seq(DOMAIN StepNo)
  BY DEF InTurn, PackageTypes
<1>2. Len(w_steps) \in Nat \ {0} /\ Now \in Int
  BY <1>1, EmptySeq DEF Now
<1>3. \A i \in 1 .. Len(w_steps) : StepNo[w_steps[i]] = Now + i - 1
  BY DEF InTurn
<1>4. Head(w_steps) = w_steps[1] /\ Head(w_steps) \in DOMAIN StepNo
  BY <1>1, HeadTailProperties
<1>5. StepNo[Head(w_steps)] = Now
  BY <1>2, <1>3, <1>4
<1>6. Now \in Nat
  BY <1>4, <1>5 DEF StepNo
<1>7. /\ Tail(w_steps) \in Seq(DOMAIN StepNo) /\ Len(Tail(w_steps)) = Len(w_steps) - 1
      /\ \A i \in 1 .. Len(Tail(w_steps)) : Tail(w_steps)[i] = w_steps[i + 1]
  BY <1>1, HeadTailProperties
<1>8. \A i \in 1 .. Len(Tail(w_steps)) : StepNo[Tail(w_steps)[i]] = Now + i
  BY <1>2, <1>3, <1>7
<1> QED
  BY <1>2, <1>4, <1>5, <1>6, <1>7, <1>8

(* A run begins with the removal of what is there.                         *)
LEMMA StartPackageInv == ASSUME PackageInv, W!Start PROVE PackageInv'
<1>1. /\ w_version' = release /\ w_steps' = W!Steps /\ w_todo' = W!Removed
      /\ w_outcome' = "running" /\ UNCHANGED << pkg, release, w_out >>
  BY WorkOf DEF W!Start
<1>2. Now' = 1 /\ w_todo' \subseteq W!Paths
  BY <1>1, RunInOrder DEF Now, W!Removed
<1>3. PackageTypes'
  BY <1>1, RunInOrder DEF PackageInv, PackageTypes
<1>4. InTurn'
  <2>1. \A d \in W!Dirs : ~(StepNo[d] <= Now')
    BY <1>2 DEF StepNo, W!Dirs
  <2> QED
    BY <1>1, <1>2, <2>1, RunInOrder DEF InTurn, Scope
<1>5. LastWriter'
  <2> SUFFICES ASSUME NEW p \in W!Paths, NEW s \in DOMAIN StepNo, Over(s, p)'
               PROVE  (w_out[p] = W!Written(s, p))'
    BY DEF LastWriter
  <2>1. s = "remove" /\ p \notin w_todo'
    BY <1>2 DEF Over, StepNo
  <2>2. W!Written("remove", p)' = W!Absent
    BY DEF W!Written, W!Dirs
  <2> QED
    BY <1>1, <2>1, <2>2 DEF W!Removed
<1> QED
  BY <1>3, <1>4, <1>5 DEF PackageInv

(* One write changes one path, which the run is past then in this step.    *)
LEMMA WritePackageInv ==
  ASSUME PackageInv, NEW p \in w_todo, W!Write(p) PROVE PackageInv'
<1>1. /\ w_outcome = "running" /\ w_out' = [w_out EXCEPT ![p] = W!Written(Head(w_steps), p)]
      /\ w_todo' = w_todo \ {p}
      /\ UNCHANGED << pkg, release, w_version, w_steps, w_outcome >>
  BY DEF W!Write
<1>2. Now' = Now
  BY <1>1 DEF Now
<1>3. PICK h \in DOMAIN StepNo : h = Head(w_steps) /\ StepNo[h] = Now /\ Now \in Nat
  BY <1>1, AtNow DEF PackageInv
<1>4. p \in W!Paths /\ p \in Scope(h)
  BY <1>1, <1>3 DEF PackageInv, InTurn
<1>5. PackageTypes'
  BY <1>1 DEF PackageInv, PackageTypes
<1>6. \A s \in DOMAIN StepNo : s # "remove" => Scope(s)' = Scope(s)
  BY <1>1 DEF Scope, W!Work, W!Made, StepNo, W!Dirs
<1>7. Scope("remove")' = Scope("remove")
  BY DEF Scope
<1>8. InTurn'
  BY <1>1, <1>2, <1>6, <1>7 DEF PackageInv, InTurn
<1>9. LastWriter'
  <2>1. \A s \in DOMAIN StepNo, q \in W!Paths : q # p => (Over(s, q)' <=> Over(s, q))
    BY <1>1, <1>2 DEF Over
  <2>2. \A q \in W!Paths : q # p => w_out'[q] = w_out[q]
    BY <1>1, <1>3, <1>4 DEF PackageInv, PackageTypes
  <2>3. w_out'[p] = W!Written(h, p)
    BY <1>1, <1>3, <1>4 DEF PackageInv, PackageTypes
  <2>4. \A s \in DOMAIN StepNo : \A q : W!Written(s, q)' = W!Written(s, q)
    BY <1>1 DEF W!Written
  <2>5. Over(h, p)'
    BY <1>1, <1>2, <1>3 DEF Over
  <2>6. \A s \in DOMAIN StepNo : Over(s, p)' => StepNo[s] <= Now
    BY <1>2, <1>3 DEF Over, StepNo
  <2>7. \A s \in DOMAIN StepNo : StepNo[s] = Now => s = h
    BY <1>3 DEF StepNo
  <2>8. ASSUME NEW q \in W!Paths, q # p, NEW s \in DOMAIN StepNo, Over(s, q)', q \in Scope(s),
               \A z \in DOMAIN StepNo :
                 StepNo[z] > StepNo[s] /\ q \in Scope(z) => ~Over(z, q)'
        PROVE  w_out'[q] = W!Written(s, q)
    BY <1>1, <2>1, <2>2, <2>8 DEF PackageInv, LastWriter
  <2>9. ASSUME NEW s \in DOMAIN StepNo, Over(s, p)', p \in Scope(s),
               \A z \in DOMAIN StepNo :
                 StepNo[z] > StepNo[s] /\ p \in Scope(z) => ~Over(z, p)'
        PROVE  w_out'[p] = W!Written(s, p)
    <3>1. StepNo[s] \in Nat /\ Now \in Nat /\ StepNo[s] <= Now
      BY <1>3, <2>6, <2>9 DEF StepNo
    <3>2. ~(StepNo[h] > StepNo[s])
      BY <1>4, <2>5, <2>9
    <3>3. s = h
      BY <1>3, <2>7, <3>1, <3>2
    <3> QED
      BY <2>3, <3>3
  <2> QED
    BY <1>6, <1>7, <2>4, <2>8, <2>9 DEF LastWriter
<1> QED
  BY <1>5, <1>8, <1>9 DEF PackageInv

(* The next step is past all the paths it has nothing to do with.          *)
LEMMA EndStepPackageInv == ASSUME PackageInv, W!EndStep PROVE PackageInv'
<1>1. /\ w_outcome = "running" /\ w_todo = {} /\ w_steps' = Tail(w_steps)
      /\ IF w_steps' = << >> THEN w_todo' = {} /\ w_outcome' = "ended"
         ELSE /\ Head(w_steps') \in W!Dirs => pkg[Head(w_steps')] # W!Absent
              /\ w_todo' = W!Work(Head(w_steps')) /\ w_outcome' = w_outcome
      /\ UNCHANGED << pkg, release, w_version, w_out >>
  BY DEF W!EndStep
<1>2. /\ Head(w_steps) \in DOMAIN StepNo /\ StepNo[Head(w_steps)] = Now
      /\ w_steps' \in Seq(DOMAIN StepNo) /\ Len(w_steps') = Len(w_steps) - 1
      /\ \A i \in 1 .. Len(w_steps') : StepNo[w_steps'[i]] = Now + i
      /\ Now \in Nat /\ Len(w_steps) \in Nat \ {0}
  BY <1>1, AtNow DEF PackageInv
<1>3. Now' = Now + 1
  BY <1>1, <1>2 DEF Now
<1>4. PackageTypes'
  BY <1>1, <1>2 DEF PackageInv, PackageTypes
<1>5. ASSUME w_steps' # << >>
      PROVE  /\ Head(w_steps') \in DOMAIN StepNo /\ StepNo[Head(w_steps')] = Now + 1
             /\ Head(w_steps') # "remove"
  <2>1. Len(w_steps') \in Nat \ {0} /\ Head(w_steps') = w_steps'[1] /\ Head(w_steps') \in DOMAIN StepNo
    BY <1>2, <1>5, EmptySeq, HeadTailProperties
  <2>2. StepNo[Head(w_steps')] = Now + 1
    BY <1>2, <2>1
  <2>3. Now >= 1
    BY <1>2 DEF StepNo
  <2>4. StepNo["remove"] = 1
    BY DEF StepNo
  <2> QED
    BY <1>2, <2>1, <2>2, <2>3, <2>4
<1>6. \A s \in DOMAIN StepNo : Scope(s)' = Scope(s)
  <2>1. Scope("remove")' = Scope("remove")
    BY DEF Scope
  <2>2. \A s \in DOMAIN StepNo : s # "remove" => Scope(s)' = Scope(s)
    BY <1>1 DEF Scope, W!Work, W!Made, StepNo, W!Dirs
  <2> QED
    BY <2>1, <2>2
<1>7. InTurn'
  <2>1. \A i \in 1 .. Len(w_steps') : StepNo[w_steps'[i]] = Now' + i - 1
    BY <1>2, <1>3
  <2>2. ASSUME NEW s \in DOMAIN StepNo, w_steps' # << >>, s = Head(w_steps')
        PROVE  w_todo' \subseteq Scope(s)' \cap W!Paths
    <3>1. s # "remove" /\ (s \in W!Dirs => pkg[s] # W!Absent) /\ w_todo' = W!Work(s)
      BY <1>1, <1>5, <2>2
    <3>2. w_todo' = Scope(s)'
      BY <1>6, <3>1 DEF Scope
    <3>3. CASE s \in W!Dirs
      <4> DEFINE v == pkg[s]
      <4>1. v \in Versions
        BY <3>1, <3>3 DEF PackageInv, PackageTypes
      <4>2. W!Work(s) = {s} \X (Contents[v] \cup {"package.json", ".gitignore"})
        BY <3>3, WorkOf DEF W!Made
      <4> HIDE DEF v
      <4>3. Contents[v] \cup {"package.json", ".gitignore"} \subseteq W!Names
        BY <4>1, NamesInclude
      <4>4. W!Work(s) \subseteq W!Dirs \X W!Names
        BY <3>3, <4>2, <4>3
      <4> QED
        BY <3>1, <3>2, <4>4 DEF W!Paths
    <3>4. CASE s \notin W!Dirs
      <4>1. \/ W!Work(s) = W!Dirs \X {"package.json", ".gitignore"}
            \/ W!Work(s) = {<< "nodejs", "package.json" >>}
            \/ \E f \in W!Own : W!Work(s) = {<< "root", f >>}
        BY <3>1, <3>4, WorkOf DEF StepNo, W!Dirs, W!Own
      <4>2. "nodejs" \in W!Dirs /\ {"package.json", ".gitignore"} \subseteq W!Names
        BY NamesInclude DEF W!Dirs
      <4>3. W!Work(s) \subseteq W!Paths
        BY <4>1, <4>2 DEF W!Paths
      <4> QED
        BY <3>1, <3>2, <4>3
    <3> QED
      BY <3>3, <3>4
  <2> QED
    <3>1. ASSUME NEW d \in W!Dirs, StepNo[d] <= Now' PROVE pkg[d] \in Versions
      <4>1. StepNo[d] \in 2 .. 3 /\ d \in DOMAIN StepNo
        BY DEF StepNo, W!Dirs
      <4>2. CASE StepNo[d] <= Now
        BY <1>1, <4>2 DEF PackageInv, InTurn
      <4>3. CASE StepNo[d] = Now + 1
        <5>1. Len(w_steps') # 0
          BY <1>2, <4>1, <4>3 DEF Now
        <5>2. w_steps' # << >>
          BY <5>1
        <5>3. d = Head(w_steps')
          BY <1>5, <4>1, <4>3, <5>2 DEF StepNo
        <5>4. pkg[d] # W!Absent /\ pkg' = pkg
          BY <1>1, <5>2, <5>3
        <5>5. pkg[d] \in Versions \cup {W!Absent}
          BY DEF PackageInv, PackageTypes
        <5> QED
          BY <5>4, <5>5
      <4> QED
        BY <1>2, <1>3, <3>1, <4>1, <4>2, <4>3
    <3> QED
      BY <1>1, <2>1, <2>2, <3>1 DEF InTurn
<1>8. LastWriter'
  <2>1. \A s \in DOMAIN StepNo : \A q : W!Written(s, q)' = W!Written(s, q)
    BY <1>1 DEF W!Written
  <2>2. ASSUME NEW s \in DOMAIN StepNo, NEW q \in Scope(s) PROVE Over(s, q)' <=> Over(s, q)
    <3>1. StepNo[s] \in 1 .. 8
      BY DEF StepNo
    <3>2. CASE StepNo[s] = Now + 1
      <4>1. w_steps' # << >>
        <5>1. w_steps' = << >> => Len(w_steps') = 0
          OBVIOUS
        <5>2. Now + 1 <= 8
          BY <3>1, <3>2
        <5> QED
          BY <1>2, <5>1, <5>2 DEF Now
      <4>2. s = Head(w_steps')
        BY <1>5, <3>2, <4>1 DEF StepNo
      <4>3. q \in w_todo'
        BY <1>1, <1>5, <4>1, <4>2, <2>2 DEF Scope
      <4> QED
        BY <1>2, <1>3, <3>2, <4>3 DEF Over
    <3>3. CASE StepNo[s] # Now + 1
      BY <1>1, <1>2, <1>3, <3>1, <3>3 DEF Over
    <3> QED
      BY <3>2, <3>3
  <2> SUFFICES ASSUME NEW p \in W!Paths, NEW s \in DOMAIN StepNo, Over(s, p)', p \in Scope(s),
                      \A z \in DOMAIN StepNo :
                        StepNo[z] > StepNo[s] /\ p \in Scope(z) => ~Over(z, p)'
               PROVE  w_out[p] = W!Written(s, p)
    BY <1>1, <1>6, <2>1 DEF LastWriter
  <2> QED
    BY <1>1, <2>2 DEF PackageInv, LastWriter
<1> QED
  BY <1>4, <1>7, <1>8 DEF PackageInv

LEMMA NextPackageInv == ASSUME PackageInv, [W!Next]_(W!vars) PROVE PackageInv'
<1>1. ASSUME UNCHANGED << w_steps, w_todo >>, PackageTypes', w_outcome' \notin {"running", "ended"},
             w_outcome # "running"
      PROVE  PackageInv'
  <2>1. InTurn'
    BY <1>1 DEF PackageInv, InTurn, Now
  <2>2. LastWriter'
    BY <1>1 DEF LastWriter
  <2> QED
    BY <1>1, <2>1, <2>2 DEF PackageInv
<1>2. CASE UNCHANGED W!vars
  <2>1. UNCHANGED << pkg, release, w_version, w_out, w_steps, w_todo, w_outcome >>
    BY <1>2 DEF W!vars
  <2>2. PackageTypes'
    BY <2>1 DEF PackageInv, PackageTypes
  <2>3. /\ \A s \in DOMAIN StepNo : Scope(s)' = Scope(s)
        /\ \A s \in DOMAIN StepNo : \A p : Over(s, p)' <=> Over(s, p)
        /\ \A s \in DOMAIN StepNo : \A p : W!Written(s, p)' = W!Written(s, p)
        /\ Now' = Now
    BY <2>1 DEF Scope, W!Work, W!Removed, W!Made, Over, Now, W!Written
  <2>4. InTurn' /\ LastWriter'
    BY <2>1, <2>3 DEF PackageInv, InTurn, LastWriter
  <2> QED
    BY <2>2, <2>4 DEF PackageInv
<1>3. ASSUME NEW d \in W!Dirs, W!WasmPack(d) PROVE PackageInv'
  <2>1. PackageTypes'
    BY <1>3 DEF W!WasmPack, PackageInv, PackageTypes
  <2> QED
    BY <1>1, <1>3, <2>1 DEF W!WasmPack
<1>4. CASE W!SetVersion
  <2>1. PackageTypes'
    BY <1>4 DEF W!SetVersion, PackageInv, PackageTypes
  <2> QED
    BY <1>1, <1>4, <2>1 DEF W!SetVersion
<1>5. CASE W!Fail
  <2>1. PackageTypes'
    BY <1>5 DEF W!Fail, PackageInv, PackageTypes
  <2> QED
    BY <1>5, <2>1 DEF W!Fail, PackageInv, InTurn, LastWriter
<1> QED
  BY <1>2, <1>3, <1>4, <1>5, StartPackageInv, WritePackageInv, EndStepPackageInv DEF W!Next

(* The other parts leave the package alone.                                *)
LEMMA PackageKept == Spec => [](part = "package" => PackageInv)
<1>1. Init => (part = "package" => PackageInv)
  BY InitPackageInv DEF Init
<1>2. (part = "package" => PackageInv) /\ [Next]_vars => (part = "package" => PackageInv)'
  <2> SUFFICES ASSUME part = "package" => PackageInv, [Next]_vars, part' = "package"
               PROVE  PackageInv'
    OBVIOUS
  <2>1. part = "package" /\ [W!Next]_(W!vars)
    BY DEF Next, vars, wVars, W!vars
  <2> QED
    BY <2>1, NextPackageInv
<1> QED
  BY <1>1, <1>2, PTL DEF Spec

(* A run that ends well leaves the package of its own inputs and version   *)
(* and nothing else, whatever runs before it have left, for every number   *)
(* of versions, files and runs (scripts/package-wasm.mjs:17-28).           *)
THEOREM PackagesAreWhole == Spec => []PackageWhole
<1>1. ASSUME PackageInv, w_outcome = "ended", NEW p \in W!Paths
      PROVE  w_out[p] = CASE p = << "nodejs", "package.json" >> -> W!Fixed
                          [] p = << "root", "LICENSE" >> -> W!Fixed
                          [] p[1] = "root" /\ p[2] # "LICENSE" -> w_version
                          [] p[1] \in W!Dirs /\ p[2] \in Contents[pkg[p[1]]] -> pkg[p[1]]
                          [] OTHER -> W!Absent
  <2>1. \A s \in DOMAIN StepNo : Over(s, p)
    BY <1>1 DEF PackageInv, InTurn, Over, Now, StepNo
  <2>2. \A s \in DOMAIN StepNo :
          /\ p \in Scope(s)
          /\ \A z \in DOMAIN StepNo : StepNo[z] > StepNo[s] => p \notin Scope(z)
          => w_out[p] = W!Written(s, p)
    BY <1>1, <2>1 DEF PackageInv, LastWriter
  <2>3. /\ Scope("remove") = W!Paths
        /\ \A s \in DOMAIN StepNo : s # "remove" => Scope(s) = W!Work(s)
    BY DEF Scope
  <2>4. ASSUME NEW d \in W!Dirs
        PROVE  pkg[d] \in Versions /\ Contents[pkg[d]] \cap {"package.json", ".gitignore"} = {}
    <3>1. pkg[d] \in Versions
      BY <1>1 DEF PackageInv, InTurn, Now, StepNo, W!Dirs
    <3> QED
      BY <3>1, ApplicationsAssumption DEF W!PackageWasmAssumption
  <2>5. CASE p[1] \in W!Dirs
    <3>1. PICK d \in W!Dirs, n \in W!Names : p = << d, n >>
      <4>1. p \in W!Dirs \X W!Names
        BY <2>5 DEF W!Paths, W!Dirs
      <4> QED
        BY <4>1
    <3>2. /\ d \in DOMAIN StepNo /\ d \in {"web", "nodejs"} /\ d # "root"
          /\ \A z \in DOMAIN StepNo : StepNo[z] > StepNo[d] =>
               z \in {"nodejs", "strip", "commonjs", "manifest", "readme", "license"}
      BY DEF W!Dirs, StepNo
    <3>3. /\ \A z \in W!Dirs : p \in Scope(z) <=>
               z = d /\ n \in Contents[pkg[d]] \cup {"package.json", ".gitignore"}
          /\ p \in Scope("strip") <=> n \in {"package.json", ".gitignore"}
          /\ p \in Scope("commonjs") <=> p = << "nodejs", "package.json" >>
          /\ p \notin Scope("manifest") /\ p \notin Scope("readme") /\ p \notin Scope("license")
      BY <2>3, <3>1, <3>2, WorkOf DEF W!Made, W!Dirs, StepNo
    <3>4. CASE p = << "nodejs", "package.json" >>
      <4>1. w_out[p] = W!Written("commonjs", p)
        BY <2>2, <3>3, <3>4 DEF StepNo
      <4>2. n \notin Contents[pkg[d]] /\ p[1] = d /\ p[2] = n /\ p[1] # "root"
        BY <2>4, <3>1, <3>2, <3>4
      <4>3. w_out[p] = W!Fixed
        BY <4>1, WrittenBy
      <4> QED
        BY <3>4, <4>2, <4>3
    <3>5. CASE p # << "nodejs", "package.json" >> /\ n \in {"package.json", ".gitignore"}
      <4>1. w_out[p] = W!Written("strip", p)
        BY <2>2, <3>3, <3>5 DEF StepNo
      <4>2. n \notin Contents[pkg[d]]
        BY <2>4, <3>5
      <4>3. w_out[p] = W!Absent
        BY <4>1, WrittenBy
      <4>4. p[1] = d /\ p[2] = n /\ p[1] # "root"
        BY <3>1, <3>2
      <4> QED
        BY <3>5, <4>2, <4>3, <4>4
    <3>6. CASE n \in Contents[pkg[d]]
      <4>1. n \notin {"package.json", ".gitignore"}
        BY <2>4, <3>6
      <4>2. w_out[p] = W!Written(d, p)
        BY <2>2, <3>1, <3>2, <3>3, <3>6, <4>1 DEF StepNo, W!Dirs
      <4> QED
        BY <3>1, <3>2, <3>6, <4>1, <4>2, WrittenBy
    <3>7. CASE n \notin Contents[pkg[d]] \cup {"package.json", ".gitignore"}
      <4>1. w_out[p] = W!Written("remove", p)
        BY <2>2, <2>3, <3>1, <3>3, <3>7 DEF StepNo, W!Dirs
      <4> QED
        BY <3>1, <3>2, <3>7, <4>1, WrittenBy
    <3> QED
      BY <3>4, <3>5, <3>6, <3>7
  <2>6. CASE p[1] \notin W!Dirs
    <3>1. PICK n \in W!Own : p = << "root", n >>
      BY <2>6 DEF W!Paths
    <3>2. /\ p \in Scope("manifest") <=> n = "package.json"
          /\ p \in Scope("readme") <=> n = "README.md"
          /\ p \in Scope("license") <=> n = "LICENSE"
      BY <2>3, <3>1, WorkOf DEF StepNo
    <3>3. CASE n = "package.json"
      <4>1. w_out[p] = W!Written("manifest", p)
        BY <2>2, <3>2, <3>3 DEF StepNo
      <4> QED
        BY <3>1, <3>3, <4>1, WrittenBy DEF W!Dirs
    <3>4. CASE n = "README.md"
      <4>1. w_out[p] = W!Written("readme", p)
        BY <2>2, <3>2, <3>4 DEF StepNo
      <4> QED
        BY <3>1, <3>4, <4>1, WrittenBy DEF W!Dirs
    <3>5. CASE n = "LICENSE"
      <4>1. w_out[p] = W!Written("license", p)
        BY <2>2, <3>2, <3>5 DEF StepNo
      <4> QED
        BY <3>1, <3>5, <4>1, WrittenBy DEF W!Dirs
    <3> QED
      BY <3>1, <3>3, <3>4, <3>5 DEF W!Own
  <2> QED
    BY <2>5, <2>6
<1>2. (part = "package" => PackageInv) => PackageWhole
  BY <1>1 DEF PackageWhole, W!PackageWhole
<1> QED
  BY <1>2, PackageKept, PTL

-----------------------------------------------------------------------------
(* The list of the demonstration page.                                     *)

PageTypes ==
  /\ mounts \in 1 .. 2
  /\ effect \in [G!Instances -> {"fetching", "loaded", "done", "failed"}]
  /\ engine \in 0 .. 2
  /\ last \in [G!Instances -> Nat]
  /\ clicks \in Nat /\ ready \in BOOLEAN
  /\ monoList \in Seq([id : Nat, of : G!Instances])

\* Nothing takes an identifier before there is an instance, and a page that
\* mounts once has no second one.
Instantiated ==
  /\ clicks > 0 \/ ready \/ (\E e \in G!Instances : effect[e] = "loaded") =>
       engine \in G!Instances
  /\ mounts = 1 =>
       /\ effect[2] = "done" /\ engine # 2
       /\ \A i \in 1 .. Len(monoList) : monoList[i].of = 1

\* What is shown is not newer than the state of its instance.
Shown ==
  /\ \A i \in 1 .. Len(monoList) : monoList[i].id <= last[monoList[i].of]
  /\ \A i, j \in 1 .. Len(monoList) :
       i < j /\ monoList[i].of = monoList[j].of => monoList[i].id < monoList[j].id

PageInv == PageTypes /\ Instantiated /\ Shown

(* However often React runs an updater, the last identifier it takes is    *)
(* newer than all that the instance has given out.                         *)
LEMMA StreamGrows ==
  ASSUME last[engine] \in Nat, NEW n \in 1 .. 3, NEW ids \in G!Stream(n)
  PROVE  /\ ids[n] \in Nat /\ ids[n] > last[engine]
         /\ \A k \in 1 .. n : ids[k] \in Nat
<1>1. /\ \A k \in 1 .. n : ids[k] \in Nat
      /\ \A k \in 1 .. n : ids[k] - (IF k = 1 THEN last[engine] ELSE ids[k - 1]) \in {1, 2}
  BY DEF G!Stream
<1>2. ids[1] - last[engine] \in {1, 2}
  BY <1>1
<1>3. n > 1 => ids[2] - ids[1] \in {1, 2}
  BY <1>1
<1>4. n > 2 => ids[3] - ids[2] \in {1, 2}
  BY <1>1
<1>5. n = 1 \/ n = 2 \/ n = 3
  OBVIOUS
<1> QED
  BY <1>1, <1>2, <1>3, <1>4, <1>5

(* The list keeps its newest entries in their order.                       *)
LEMMA RecentIsSuffix ==
  ASSUME NEW S, NEW list \in Seq(S)
  PROVE  /\ G!Recent(list) \in Seq(S)
         /\ \E d \in Nat : /\ Len(G!Recent(list)) = Len(list) - d
                           /\ \A i \in 1 .. Len(G!Recent(list)) : G!Recent(list)[i] = list[i + d]
<1> DEFINE kept == IF Len(list) < KEPT THEN Len(list) ELSE KEPT
           d    == Len(list) - kept
<1>1. kept \in Nat /\ kept <= Len(list) /\ Len(list) \in Nat
  BY ApplicationsAssumption
<1>2. G!Recent(list) = SubSeq(list, d + 1, Len(list)) /\ d \in Nat
  BY <1>1 DEF G!Recent
<1> HIDE DEF d, kept
<1>3. /\ SubSeq(list, d + 1, Len(list)) \in Seq(S)
      /\ Len(SubSeq(list, d + 1, Len(list))) = Len(list) - d
      /\ \A i \in 1 .. Len(list) - d : SubSeq(list, d + 1, Len(list))[i] = list[i + d]
  <2>1. Len(list) - d \in Nat
    BY <1>1, <1>2 DEF d
  <2> QED
    BY <1>1, <1>2, <2>1, SubSeqProperties
<1> QED
  BY <1>2, <1>3

LEMMA InitPageInv == G!Init => PageInv
<1> SUFFICES ASSUME G!Init PROVE PageInv
  OBVIOUS
<1>1. monoList = << >> /\ last = [i \in G!Instances |-> 0] /\ engine = 0
  BY DEF G!Init
<1>2. PageTypes
  <2>1. effect \in [G!Instances -> {"fetching", "loaded", "done", "failed"}]
    BY DEF G!Init
  <2>2. last \in [G!Instances -> Nat]
    BY <1>1
  <2>3. monoList \in Seq([id : Nat, of : G!Instances])
    BY <1>1
  <2>4. mounts \in 1 .. 2 /\ engine = 0 /\ clicks = 0 /\ ready = FALSE
    BY DEF G!Init
  <2>5. engine \in 0 .. 2 /\ clicks \in Nat
    BY <2>4
  <2>6. ready \in BOOLEAN
    BY <2>4, Zenon
  <2> QED
    BY <2>1, <2>2, <2>3, <2>4, <2>5, <2>6 DEF PageTypes
<1>3. Instantiated
  BY DEF G!Init, Instantiated, G!Instances
<1>4. Shown
  BY <1>1 DEF Shown
<1> QED
  BY <1>2, <1>3, <1>4 DEF PageInv

(* A committed click puts one identifier at the end of the list.           *)
LEMMA RenderPageInv == ASSUME PageInv, G!Render PROVE PageInv'
<1>0. PICK n \in mounts .. mounts + 1 : \E ids \in G!Stream(n) :
        /\ last' = [last EXCEPT ![engine] = ids[n]]
        /\ monoList' = G!next(monoList, [id |-> ids[n], of |-> engine])
  BY DEF G!Render
<1>1. PICK ids \in G!Stream(n) :
        /\ clicks > 0 /\ clicks' = clicks - 1
        /\ last' = [last EXCEPT ![engine] = ids[n]]
        /\ monoList' = G!next(monoList, [id |-> ids[n], of |-> engine])
        /\ UNCHANGED << mounts, effect, engine, ready >>
  BY <1>0 DEF G!Render
<1>2. /\ engine \in G!Instances /\ last[engine] \in Nat /\ n \in 1 .. 3
      /\ monoList \in Seq([id : Nat, of : G!Instances])
  BY <1>1 DEF PageInv, Instantiated, PageTypes
<1>3. ids[n] \in Nat /\ ids[n] > last[engine]
  BY <1>2, StreamGrows
<1> DEFINE entry == [id |-> ids[n], of |-> engine]
           old   == G!Recent(monoList)
<1>4. entry \in [id : Nat, of : G!Instances]
  BY <1>2, <1>3
<1>5. old \in Seq([id : Nat, of : G!Instances])
  BY <1>2, RecentIsSuffix
<1>6. PICK d \in Nat : /\ Len(old) = Len(monoList) - d
                       /\ \A i \in 1 .. Len(old) : old[i] = monoList[i + d]
  BY <1>2, RecentIsSuffix
<1>7. monoList' = Append(old, entry)
  BY <1>1 DEF G!next
<1>8. /\ entry.id = ids[n] /\ entry.of = engine
      /\ Len(monoList) \in Nat /\ Len(old) \in Nat
  BY <1>2, <1>5
<1> HIDE DEF old, entry
<1>9. /\ monoList' \in Seq([id : Nat, of : G!Instances])
      /\ Len(monoList') = Len(old) + 1
      /\ monoList'[Len(old) + 1] = entry
      /\ \A i \in 1 .. Len(old) : monoList'[i] = monoList[i + d] /\ i + d \in 1 .. Len(monoList)
  BY <1>4, <1>5, <1>6, <1>7, <1>8
<1>10. PageTypes'
  BY <1>1, <1>2, <1>3, <1>9 DEF PageInv, PageTypes
<1>11. Instantiated'
  <2>1. mounts = 1 => engine = 1
    BY <1>2 DEF PageInv, Instantiated, G!Instances
  <2>2. ASSUME mounts = 1, NEW i \in 1 .. Len(monoList') PROVE monoList'[i].of = 1
    <3>1. CASE i = Len(old) + 1
      BY <1>8, <1>9, <2>1, <2>2, <3>1
    <3>2. CASE i \in 1 .. Len(old)
      <4>1. monoList'[i] = monoList[i + d] /\ i + d \in 1 .. Len(monoList)
        BY <1>9, <3>2
      <4> QED
        BY <2>2, <4>1 DEF PageInv, Instantiated
    <3> QED
      BY <1>8, <1>9, <3>1, <3>2
  <2> QED
    BY <1>1, <1>2, <2>2 DEF PageInv, Instantiated
<1>12. Shown'
  <2>1. /\ last'[engine] = ids[n]
        /\ \A i \in G!Instances : last[i] \in Nat /\ last'[i] \in Nat /\ last[i] <= last'[i]
    BY <1>1, <1>2, <1>3 DEF PageInv, PageTypes
  <2>2. ASSUME NEW i \in 1 .. Len(old)
        PROVE  /\ monoList'[i] \in [id : Nat, of : G!Instances]
               /\ monoList'[i].id <= last[monoList'[i].of]
    <3>1. monoList'[i] = monoList[i + d] /\ i + d \in 1 .. Len(monoList)
      BY <1>9
    <3>2. monoList[i + d] \in [id : Nat, of : G!Instances]
      BY <1>2, <3>1, ElementOfSeq
    <3>3. monoList[i + d].id <= last[monoList[i + d].of]
      BY <3>1 DEF PageInv, Shown
    <3> QED
      BY <3>1, <3>2, <3>3
  <2>3. ASSUME NEW i \in 1 .. Len(monoList') PROVE monoList'[i].id <= last'[monoList'[i].of]
    <3>1. CASE i = Len(old) + 1
      BY <1>3, <1>8, <1>9, <2>1, <3>1
    <3>2. CASE i \in 1 .. Len(old)
      <4>1. monoList'[i].id \in Nat /\ monoList'[i].of \in G!Instances
        BY <2>2, <3>2
      <4> QED
        BY <2>1, <2>2, <3>2, <4>1
    <3> QED
      BY <1>8, <1>9, <3>1, <3>2
  <2>4. ASSUME NEW i \in 1 .. Len(monoList'), NEW j \in 1 .. Len(monoList'),
               i < j, monoList'[i].of = monoList'[j].of
        PROVE  monoList'[i].id < monoList'[j].id
    <3>1. i \in 1 .. Len(old)
      BY <1>8, <1>9, <2>4
    <3>2. CASE j \in 1 .. Len(old)
      <4>1. i + d \in 1 .. Len(monoList) /\ j + d \in 1 .. Len(monoList) /\ i + d < j + d
        BY <1>9, <2>4, <3>1, <3>2
      <4>2. monoList'[i] = monoList[i + d] /\ monoList'[j] = monoList[j + d]
        BY <1>9, <3>1, <3>2
      <4>3. monoList[i + d].of = monoList[j + d].of
        BY <2>4, <4>2
      <4>4. monoList[i + d].id < monoList[j + d].id
        BY <4>1, <4>3 DEF PageInv, Shown
      <4> QED
        BY <4>2, <4>4
    <3>3. CASE j = Len(old) + 1
      <4>1. monoList'[i].of = engine /\ monoList'[i].id \in Nat
        BY <1>8, <1>9, <2>2, <2>4, <3>1, <3>3
      <4>2. monoList'[j].id = ids[n]
        BY <1>8, <1>9, <3>3
      <4>3. monoList'[i].id <= last[engine]
        BY <2>2, <3>1, <4>1
      <4> QED
        BY <1>2, <1>3, <4>1, <4>2, <4>3
    <3> QED
      BY <1>8, <1>9, <3>2, <3>3
  <2> QED
    BY <1>1, <2>3, <2>4 DEF Shown
<1> QED
  BY <1>10, <1>11, <1>12 DEF PageInv

(* The self-test takes its three identifiers of the instance in place.     *)
LEMMA SelfTestPageInv ==
  ASSUME PageInv, NEW e \in G!Instances, G!SelfTest(e) PROVE PageInv'
<1>1. /\ effect[e] = "loaded" /\ effect' = [effect EXCEPT ![e] = "done"]
      /\ engine \in G!Instances /\ last[engine] \in Nat
      /\ UNCHANGED << mounts, engine, monoList, clicks >>
  <2>1. /\ effect[e] = "loaded" /\ effect' = [effect EXCEPT ![e] = "done"]
        /\ UNCHANGED << mounts, engine, monoList, clicks >>
    BY DEF G!SelfTest
  <2>2. engine \in G!Instances
    BY <2>1 DEF PageInv, Instantiated
  <2>3. last \in [G!Instances -> Nat]
    BY DEF PageInv, PageTypes
  <2> QED
    BY <2>1, <2>2, <2>3
<1>2. PICK n \in Nat : n >= last[engine] /\ last' = [last EXCEPT ![engine] = n]
  <2>1. CASE \E m \in G!Stream(3) : last' = [last EXCEPT ![engine] = m[3]]
    <3>1. PICK m \in G!Stream(3) : last' = [last EXCEPT ![engine] = m[3]]
      BY <2>1
    <3>2. m[3] \in Nat /\ m[3] > last[engine]
      BY <1>1, StreamGrows
    <3>3. m[3] >= last[engine]
      BY <1>1, <3>2
    <3> m[3] \in Nat
      BY <3>2
    <3> WITNESS m[3] \in Nat
    <3> QED
      BY <3>1, <3>3
  <2>2. CASE last' = last
    <3>1. last = [last EXCEPT ![engine] = last[engine]]
      BY <1>1 DEF PageInv, PageTypes
    <3>2. last[engine] >= last[engine]
      BY <1>1
    <3>3. last' = [last EXCEPT ![engine] = last[engine]]
      BY <2>2, <3>1
    <3> last[engine] \in Nat
      BY <1>1
    <3> WITNESS last[engine] \in Nat
    <3> QED
      BY <3>2, <3>3
  <2> QED
    BY <2>1, <2>2 DEF G!SelfTest
<1>3. ready' \in BOOLEAN
  BY DEF G!SelfTest, PageInv, PageTypes
<1>4. PageTypes'
  BY <1>1, <1>2, <1>3 DEF PageInv, PageTypes
<1>5. Instantiated'
  BY <1>1 DEF PageInv, PageTypes, Instantiated, G!Instances
<1>6. Shown'
  <2>1. \A i \in G!Instances : last[i] \in Nat /\ last'[i] \in Nat /\ last[i] <= last'[i]
    BY <1>1, <1>2 DEF PageInv, PageTypes
  <2>2. ASSUME NEW i \in 1 .. Len(monoList)
        PROVE  monoList[i].id \in Nat /\ monoList[i].of \in G!Instances
    <3>1. monoList[i] \in [id : Nat, of : G!Instances]
      BY ElementOfSeq DEF PageInv, PageTypes
    <3> QED
      BY <3>1
  <2>3. \A i \in 1 .. Len(monoList) : monoList[i].id <= last'[monoList[i].of]
    BY <2>1, <2>2 DEF PageInv, Shown
  <2> QED
    BY <1>1, <2>3 DEF PageInv, Shown
<1> QED
  BY <1>4, <1>5, <1>6 DEF PageInv

LEMMA NextPageInv == ASSUME PageInv, [G!Next]_(G!vars) PROVE PageInv'
<1>1. CASE UNCHANGED G!vars
  BY <1>1 DEF G!vars, PageInv, PageTypes, Instantiated, Shown
<1>2. ASSUME NEW e \in G!Instances, G!InitResolves(e) PROVE PageInv'
  <2>1. /\ effect[e] = "fetching" /\ effect' = [effect EXCEPT ![e] = "loaded"] /\ engine' = e
        /\ UNCHANGED << mounts, last, ready, monoList, clicks >>
    BY <1>2 DEF G!InitResolves, G!page
  <2>2. mounts = 1 => e = 1
    BY <2>1 DEF PageInv, Instantiated, G!Instances
  <2>3. PageTypes'
    BY <2>1 DEF PageInv, PageTypes, G!Instances
  <2>4. Instantiated'
    BY <2>1, <2>2 DEF PageInv, PageTypes, Instantiated, G!Instances
  <2>5. Shown'
    BY <2>1 DEF PageInv, Shown
  <2> QED
    BY <2>3, <2>4, <2>5 DEF PageInv
<1>3. ASSUME NEW e \in G!Instances, G!InitRejects(e) PROVE PageInv'
  <2>1. /\ effect[e] = "fetching" /\ effect' = [effect EXCEPT ![e] = "failed"]
        /\ UNCHANGED << mounts, engine, last, ready, monoList, clicks >>
    BY <1>3 DEF G!InitRejects
  <2>2. PageTypes'
    BY <2>1 DEF PageInv, PageTypes
  <2>3. Instantiated'
    BY <2>1 DEF PageInv, PageTypes, Instantiated, G!Instances
  <2>4. Shown'
    BY <2>1 DEF PageInv, Shown
  <2> QED
    BY <2>2, <2>3, <2>4 DEF PageInv
<1>4. CASE G!Click
  <2>1. ready /\ clicks' = clicks + 1
        /\ UNCHANGED << mounts, effect, engine, last, ready, monoList >>
    BY <1>4 DEF G!Click
  <2> QED
    BY <2>1 DEF PageInv, PageTypes, Instantiated, Shown
<1> QED
  BY <1>1, <1>2, <1>3, <1>4, SelfTestPageInv, RenderPageInv DEF G!Next

(* The other parts leave the page alone.                                   *)
LEMMA PageKept == Spec => [](part = "page" => PageInv)
<1>1. Init => (part = "page" => PageInv)
  BY InitPageInv DEF Init
<1>2. (part = "page" => PageInv) /\ [Next]_vars => (part = "page" => PageInv)'
  <2> SUFFICES ASSUME part = "page" => PageInv, [Next]_vars, part' = "page"
               PROVE  PageInv'
    OBVIOUS
  <2>1. part = "page" /\ [G!Next]_(G!vars)
    BY DEF Next, vars, gVars, G!vars
  <2> QED
    BY <2>1, NextPageInv
<1> QED
  BY <1>1, <1>2, PTL DEF Spec

(* The list of the page is in order whatever the number of entries it      *)
(* keeps and of clicks, however often React runs an updater, and whichever *)
(* instance is under it (integrations/react-wasm/src/App.tsx:104-110).     *)
THEOREM ListsIncrease == Spec => []ListIncreases
<1>1. ASSUME PageInv PROVE G!ListIncreases
  BY <1>1 DEF PageInv, PageTypes, Instantiated, Shown, G!ListIncreases
<1>2. (part = "page" => PageInv) => ListIncreases
  BY <1>1 DEF ListIncreases
<1> QED
  BY <1>2, PageKept, PTL

-----------------------------------------------------------------------------
(* The Prisma extension.                                                   *)

FillTypes ==
  /\ handed \in {"own", "copies"}
  /\ key \in [Rows -> Nat]
  /\ next \in Nat \ {0, 1}
  /\ \A s \in inflight : s.data \in Seq(Rows) /\ s.keys \in [DOMAIN s.data -> Nat]
  /\ \A row \in table : row \in [row : Rows, key : Nat \ {F!NoKey}]

\* Every key in use was given out, or came with a row.
GivenOut ==
  /\ \A r \in Rows : key[r] < next
  /\ \A s \in inflight : \A i \in DOMAIN s.data : s.keys[i] < next
  /\ \A row \in table : row.key < next

\* A statement the handler has filled lacks no key, and two rows of it that
\* are different have different ones.
Complete ==
  \A s \in inflight : s.filled =>
    /\ \A i \in DOMAIN s.data : s.keys[i] # F!NoKey
    /\ F!IsInjective(s.data) => F!IsInjective(s.keys)

\* A key in a row of the caller's own is that row's for good.
OwnRows ==
  handed = "own" =>
    /\ \A r, t \in Rows : key[r] = key[t] /\ key[r] # F!NoKey => r = t
    /\ \A s \in inflight : \A i \in DOMAIN s.data : s.keys[i] \in {F!NoKey, key[s.data[i]]}
    /\ \A row \in table : row.key = key[row.row]

\* A key in a copy is of one statement, except the supplied one.
Copied ==
  handed = "copies" =>
    /\ \A r \in Rows : key[r] = IF r \in Supplied THEN 1 ELSE F!NoKey
    /\ \A s \in inflight : \A i \in DOMAIN s.data : s.keys[i] = 1 => s.data[i] \in Supplied
    /\ \A row \in table : row.key = 1 => row.row \in Supplied
    /\ \A s, z \in inflight : s # z =>
         \A i \in DOMAIN s.data, j \in DOMAIN z.data : s.keys[i] = z.keys[j] => s.keys[i] <= 1
    /\ \A s \in inflight, row \in table : \A i \in DOMAIN s.data :
         s.keys[i] = row.key => row.key = 1

FillInv == FillTypes /\ GivenOut /\ Complete /\ OwnRows /\ Copied /\ F!RefusedForCause

(* The instance counts as the library does.                                *)
LEMMA SameCardinality == ASSUME NEW S PROVE F!Cardinality(S) = Cardinality(S)
  BY DEF F!Cardinality, Cardinality

(* A nonempty bounded set of numbers has a greatest one.                   *)
LEMMA Greatest ==
  ASSUME NEW n \in Nat, NEW S \in SUBSET (1 .. n), S # {} PROVE F!Max(S) \in S
<1> DEFINE Bounds == { b \in Nat : \A x \in S : x <= b }
<1>1. Bounds \subseteq Nat /\ n \in Bounds
  OBVIOUS
<1>2. PICK b \in Bounds : \A c \in Bounds : ~(c < b)
  <2>1. \E x \in Bounds : \A y \in Bounds : ~(<< y, x >> \in OpToRel(<, Nat))
    BY <1>1, NatLessThanWellFounded, WFMin
  <2> QED
    BY <1>1, <2>1 DEF OpToRel
<1>3. b \in S
  <2>1. PICK x \in S : TRUE
    OBVIOUS
  <2>2. ASSUME b \notin S PROVE FALSE
    <3>1. \A y \in S : y <= b - 1
      BY <1>2, <2>2
    <3>2. b - 1 \in Nat
      BY <1>2, <2>1, <3>1
    <3>3. b - 1 \in Bounds
      BY <3>1, <3>2
    <3> QED
      BY <1>2, <3>3
  <2> QED
    BY <2>2
<1>4. \A y \in S : b >= y
  BY <1>2
<1> QED
  BY <1>3, <1>4 DEF F!Max

(* The positions that lack keys are counted in their order.                *)
LEMMA CountOrders ==
  ASSUME NEW n \in Nat, NEW S \in SUBSET (1 .. n), NEW i \in S
  PROVE  /\ F!Count(S, i) \in 1 .. F!Cardinality(S)
         /\ F!Cardinality(S) \in Nat
         /\ \A j \in S : j < i => F!Count(S, j) < F!Count(S, i)
<1> DEFINE Upto(k) == { j \in S : j <= k }
<1>1. IsFiniteSet(S) /\ Cardinality(S) \in Nat
  <2>1. IsFiniteSet(1 .. n)
    BY FS_Interval
  <2>2. IsFiniteSet(S)
    BY <2>1, FS_Subset
  <2> QED
    BY <2>2, FS_CardinalityType
<1>2. \A k \in S : IsFiniteSet(Upto(k)) /\ Cardinality(Upto(k)) \in Nat
                   /\ Cardinality(Upto(k)) <= Cardinality(S)
  BY <1>1, FS_Subset, FS_CardinalityType
<1>3. Cardinality(Upto(i)) # 0
  BY <1>2, FS_EmptySet
<1>4. ASSUME NEW j \in S, j < i PROVE Cardinality(Upto(j)) < Cardinality(Upto(i))
  <2>1. Upto(j) \subseteq Upto(i) /\ i \in Upto(i) /\ i \notin Upto(j)
    <3>1. i \in Nat /\ j \in Nat /\ S \subseteq Nat /\ ~(i <= j)
      BY <1>4
    <3>2. \A x \in S : x <= j => x <= i
      BY <1>4, <3>1
    <3>3. i <= i
      BY <3>1
    <3>4. i \in Upto(i)
      BY <3>3
    <3>5. i \notin Upto(j)
      BY <3>1
    <3>6. Upto(j) \subseteq Upto(i)
      BY <3>2
    <3> QED
      BY <3>4, <3>5, <3>6
  <2>2. Cardinality(Upto(j)) <= Cardinality(Upto(i)) /\ Cardinality(Upto(j)) # Cardinality(Upto(i))
    BY <1>2, <2>1, FS_Subset
  <2> QED
    BY <1>2, <2>2
<1>5. \A k \in S : F!Count(S, k) = Cardinality(Upto(k))
  BY SameCardinality DEF F!Count
<1>6. F!Cardinality(S) = Cardinality(S)
  BY SameCardinality
<1> HIDE DEF Upto
<1> QED
  BY <1>1, <1>2, <1>3, <1>4, <1>5, <1>6

(* Every row that lacks a key gets one of its own, none of them in use.    *)
LEMMA GeneratedApart ==
  ASSUME next \in Nat, NEW data \in Seq(Rows)
  PROVE  /\ F!missing(data) \subseteq 1 .. Len(data)
         /\ F!Cardinality(F!missing(data)) \in Nat
         /\ \A i \in F!missing(data) :
              /\ F!Generated(data, i) \in Nat
              /\ F!Generated(data, i) >= next
              /\ F!Generated(data, i) < next + F!Cardinality(F!missing(data))
              /\ \A j \in F!missing(data) : i # j => F!Generated(data, i) # F!Generated(data, j)
<1> DEFINE M == F!missing(data)
<1>1. M \in SUBSET (1 .. Len(data)) /\ Len(data) \in Nat
  BY DEF F!missing
<1>2. F!Cardinality(M) \in Nat
  <2>1. IsFiniteSet(1 .. Len(data))
    BY <1>1, FS_Interval
  <2>2. IsFiniteSet(M)
    BY <1>1, <2>1, FS_Subset
  <2> QED
    BY <2>2, FS_CardinalityType, SameCardinality
<1>3. \A i \in M : /\ F!Count(M, i) \in 1 .. F!Cardinality(M)
                   /\ \A j \in M : j < i => F!Count(M, j) < F!Count(M, i)
  BY <1>1, CountOrders
<1>4. \A i \in M : F!Generated(data, i) = next + F!Count(M, i) - 1
  BY DEF F!Generated
<1> HIDE DEF M
<1>5. ASSUME NEW i \in M
      PROVE  /\ F!Generated(data, i) \in Nat
             /\ F!Generated(data, i) >= next
             /\ F!Generated(data, i) < next + F!Cardinality(M)
  BY <1>2, <1>3, <1>4
<1>6. ASSUME NEW i \in M, NEW j \in M, i # j
      PROVE  F!Generated(data, i) # F!Generated(data, j)
  <2>1. i \in Nat /\ j \in Nat
    BY <1>1
  <2>2. F!Count(M, i) # F!Count(M, j) /\ F!Count(M, i) \in Nat /\ F!Count(M, j) \in Nat
    BY <1>2, <1>3, <1>6, <2>1
  <2> QED
    BY <1>4, <2>2
<1> QED
  BY <1>1, <1>2, <1>5, <1>6 DEF M

(* What the handler does to the rows and to the statement it passes on.    *)
LEMMA WhatIsFilled ==
  ASSUME FillInv, NEW data \in Seq(Rows), F!fillIds(data)
  PROVE  /\ key' \in [Rows -> Nat]
         /\ handed = "copies" => key' = key
         /\ \A r \in Rows :
              \/ key'[r] = key[r]
              \/ /\ key[r] = F!NoKey
                 /\ \E i \in F!missing(data) : data[i] = r /\ key'[r] = F!Generated(data, i)
         /\ F!Filled(data) \in [DOMAIN data -> Nat]
         /\ \A i \in DOMAIN data :
              /\ F!Filled(data)[i] # F!NoKey
              /\ handed = "own" => F!Filled(data)[i] = key'[data[i]]
              /\ handed = "copies" =>
                   F!Filled(data)[i] = IF i \in F!missing(data) THEN F!Generated(data, i)
                                       ELSE key[data[i]]
<1> DEFINE M     == F!missing(data)
           at(r) == { i \in M : data[i] = r }
<1>1. /\ next \in Nat \ {0, 1} /\ key \in [Rows -> Nat] /\ handed \in {"own", "copies"}
      /\ Len(data) \in Nat /\ DOMAIN data = 1 .. Len(data)
      /\ \A i \in DOMAIN data : data[i] \in Rows
  BY DEF FillInv, FillTypes
<1>2. /\ M \subseteq 1 .. Len(data)
      /\ \A i \in M : F!Generated(data, i) \in Nat /\ F!Generated(data, i) >= next
  BY <1>1, GeneratedApart
<1>3. \A i \in DOMAIN data : i \in M <=> key[data[i]] = F!NoKey
  BY DEF F!missing
<1>4. \A i \in M : F!Generated(data, i) # F!NoKey
  BY <1>1, <1>2 DEF F!NoKey
<1>5. handed = "copies" => key' = key
  BY DEF F!fillIds
<1>6. ASSUME handed = "own"
      PROVE  /\ DOMAIN key' = Rows
             /\ \A r \in Rows : key'[r] = IF at(r) = {} THEN key[r]
                                          ELSE F!Generated(data, F!Max(at(r)))
  BY <1>6 DEF F!fillIds
<1>7. ASSUME handed = "own", NEW r \in Rows
      PROVE  IF at(r) = {} THEN key'[r] = key[r]
             ELSE \E i \in M : data[i] = r /\ key'[r] = F!Generated(data, i)
  <2>1. at(r) # {} => F!Max(at(r)) \in at(r)
    BY <1>1, <1>2, Greatest
  <2>2. at(r) # {} => F!Max(at(r)) \in M /\ data[F!Max(at(r))] = r
    BY <2>1
  <2> QED
    BY <1>6, <1>7, <2>2
<1>8. ASSUME NEW r \in Rows
      PROVE  \/ key'[r] = key[r]
             \/ /\ key[r] = F!NoKey
                /\ \E i \in M : data[i] = r /\ key'[r] = F!Generated(data, i)
  <2>1. at(r) # {} => key[r] = F!NoKey
    BY <1>1, <1>2, <1>3
  <2> HIDE DEF at, M
  <2> QED
    BY <1>1, <1>5, <1>7, <2>1
<1>9. key' \in [Rows -> Nat]
  <2>1. CASE handed = "own"
    <3>1. \A r \in Rows : key'[r] \in Nat
      BY <1>1, <1>2, <1>8
    <3>2. key' = [r \in Rows |-> key'[r]]
      BY <2>1 DEF F!fillIds
    <3> QED
      BY <3>1, <3>2
  <2> QED
    BY <1>1, <1>5, <2>1
<1>10. ASSUME handed = "own", NEW i \in DOMAIN data
       PROVE  key'[data[i]] # F!NoKey /\ F!Filled(data)[i] = key'[data[i]]
  <2>1. key'[data[i]] # F!NoKey
    <3>1. CASE i \in M
      <4>1. at(data[i]) # {}
        BY <3>1
      <4>2. \E j \in M : key'[data[i]] = F!Generated(data, j)
        BY <1>1, <1>7, <1>10, <4>1
      <4> QED
        BY <1>4, <4>2
    <3>2. CASE i \notin M
      <4>1. key[data[i]] # F!NoKey
        BY <1>3, <3>2
      <4> QED
        BY <1>1, <1>8, <4>1
    <3> QED
      BY <3>1, <3>2
  <2> QED
    BY <1>10, <2>1 DEF F!Filled
<1>11. ASSUME handed = "copies", NEW i \in DOMAIN data
       PROVE  /\ F!Filled(data)[i] = IF i \in M THEN F!Generated(data, i) ELSE key[data[i]]
              /\ F!Filled(data)[i] # F!NoKey
  <2>1. F!Filled(data)[i] = IF i \in M THEN F!Generated(data, i) ELSE key[data[i]]
    BY <1>11 DEF F!Filled
  <2> QED
    BY <1>3, <1>4, <2>1
<1>12. F!Filled(data) \in [DOMAIN data -> Nat]
  <2>1. \A i \in DOMAIN data : F!Filled(data)[i] \in Nat
    BY <1>1, <1>2, <1>9, <1>10, <1>11
  <2>2. F!Filled(data) = [i \in DOMAIN data |-> F!Filled(data)[i]]
    BY DEF F!Filled
  <2> QED
    BY <2>1, <2>2
<1> HIDE DEF M, at
<1> QED
  BY <1>1, <1>5, <1>8, <1>9, <1>10, <1>11, <1>12 DEF M

LEMMA InitFillInv == F!Init => FillInv
<1> SUFFICES ASSUME F!Init PROVE FillInv
  OBVIOUS
<1>1. /\ handed \in {"own", "copies"} /\ next = 2
      /\ key = [r \in Rows |-> IF r \in Supplied THEN 1 ELSE F!NoKey]
      /\ inflight = {} /\ table = {} /\ refused = {}
  BY DEF F!Init
<1>2. \A r, t \in Supplied : r = t
  BY ApplicationsAssumption DEF F!FillIdsAssumption
<1>3. FillTypes
  BY <1>1 DEF FillTypes, F!NoKey
<1>4. GivenOut /\ Complete
  BY <1>1 DEF GivenOut, Complete, F!NoKey
<1>5. OwnRows /\ Copied
  BY <1>1, <1>2 DEF OwnRows, Copied
<1>6. F!RefusedForCause
  BY <1>1 DEF F!RefusedForCause
<1> QED
  BY <1>3, <1>4, <1>5, <1>6 DEF FillInv

(* A statement is filled and passed on.                                    *)
LEMMA FillsInv ==
  ASSUME FillInv, NEW c, NEW q \in Requests, F!Fills(c, q),
         UNCHANGED << handed, table, refused >>
  PROVE  FillInv'
<1> DEFINE data == q.data
           M    == F!missing(data)
           keys == F!Filled(data)
           new  == F!Statement(c, data, keys, TRUE)
<1>1. data \in Seq(Rows)
  BY ApplicationsAssumption DEF F!FillIdsAssumption
<1>2. /\ next' = next + F!Cardinality(M) /\ F!fillIds(data)
      /\ inflight' = inflight \cup {new}
      /\ UNCHANGED << handed, table, refused >>
  BY DEF F!Fills, F!query
<1>3. new.data = data /\ new.keys = keys /\ new.filled = TRUE
  BY DEF F!Statement
<1>4. /\ next \in Nat \ {0, 1} /\ key \in [Rows -> Nat] /\ handed \in {"own", "copies"}
      /\ \A i \in DOMAIN data : data[i] \in Rows
  BY <1>1 DEF FillInv, FillTypes
<1>5. /\ M \subseteq DOMAIN data /\ F!Cardinality(M) \in Nat
      /\ \A i \in M : /\ F!Generated(data, i) \in Nat
                      /\ F!Generated(data, i) >= next
                      /\ F!Generated(data, i) < next'
                      /\ \A j \in M : i # j => F!Generated(data, i) # F!Generated(data, j)
  BY <1>1, <1>2, <1>4, GeneratedApart
<1>6. /\ key' \in [Rows -> Nat]
      /\ handed = "copies" => key' = key
      /\ \A r \in Rows :
           \/ key'[r] = key[r]
           \/ /\ key[r] = F!NoKey
              /\ \E i \in M : data[i] = r /\ key'[r] = F!Generated(data, i)
      /\ keys \in [DOMAIN data -> Nat]
      /\ \A i \in DOMAIN data :
           /\ keys[i] # F!NoKey
           /\ handed = "own" => keys[i] = key'[data[i]]
           /\ handed = "copies" =>
                keys[i] = IF i \in M THEN F!Generated(data, i) ELSE key[data[i]]
  BY <1>1, <1>2, WhatIsFilled
<1>7. next' \in Nat \ {0, 1} /\ next' >= next
  BY <1>2, <1>4, <1>5
<1>8. \A s \in inflight : s.data \in Seq(Rows) /\ s.keys \in [DOMAIN s.data -> Nat]
  BY DEF FillInv, FillTypes
<1>9. \A row \in table : row.row \in Rows /\ row.key \in Nat \ {F!NoKey} /\ row.key < next
  BY DEF FillInv, FillTypes, GivenOut
<1>10. handed = "copies" => \A r \in Rows : key[r] = IF r \in Supplied THEN 1 ELSE F!NoKey
  BY DEF FillInv, Copied
<1>11. \A r \in Rows : key[r] \in Nat /\ key[r] < next /\ key'[r] \in Nat
  BY <1>4, <1>6 DEF FillInv, GivenOut
<1>12. handed = "own" =>
        \A r, t \in Rows : key[r] = key[t] /\ key[r] # F!NoKey => r = t
  BY DEF FillInv, OwnRows
<1> HIDE DEF data, M, keys, new
<1>13. \A i \in DOMAIN data : keys[i] \in Nat /\ keys[i] < next'
  <2>1. \A r \in Rows : key'[r] < next'
    BY <1>4, <1>5, <1>6, <1>7, <1>11
  <2> QED
    BY <1>4, <1>5, <1>6, <1>7, <1>11, <2>1
<1>14. ASSUME handed = "own", NEW r \in Rows, NEW t \in Rows,
              key'[r] = key'[t], key'[r] # F!NoKey
       PROVE  r = t
  <2>1. CASE key'[r] = key[r] /\ key'[t] = key[t]
    BY <1>12, <1>14, <2>1
  <2>2. CASE key'[r] # key[r] /\ key'[t] # key[t]
    <3>1. PICK i \in M : data[i] = r /\ key'[r] = F!Generated(data, i)
      BY <1>6, <2>2
    <3>2. PICK j \in M : data[j] = t /\ key'[t] = F!Generated(data, j)
      BY <1>6, <2>2
    <3> QED
      BY <1>5, <1>14, <3>1, <3>2
  <2>3. ASSUME NEW u \in Rows, NEW w \in Rows, key'[u] = key[u], key'[w] # key[w]
        PROVE  key'[u] # key'[w]
    <3>1. PICK i \in M : key'[w] = F!Generated(data, i)
      BY <1>6, <2>3
    <3>2. key'[w] >= next /\ key'[u] < next
      BY <1>5, <1>11, <2>3, <3>1
    <3> QED
      BY <1>4, <1>11, <3>2
  <2> QED
    BY <1>14, <2>1, <2>2, <2>3
<1>15. F!IsInjective(data) => F!IsInjective(keys)
  <2> SUFFICES ASSUME F!IsInjective(data), NEW i \in DOMAIN data, NEW j \in DOMAIN data,
                      keys[i] = keys[j]
               PROVE  i = j
    BY <1>6 DEF F!IsInjective
  <2>1. data[i] = data[j] => i = j
    BY DEF F!IsInjective
  <2>2. CASE handed = "own"
    BY <1>4, <1>6, <1>14, <2>1, <2>2
  <2>3. CASE handed = "copies"
    <3>1. CASE i \in M /\ j \in M
      BY <1>5, <1>6, <2>3, <3>1
    <3>2. ASSUME NEW x \in DOMAIN data, x \notin M
          PROVE  keys[x] = 1 /\ data[x] \in Supplied
      BY <1>4, <1>6, <1>10, <2>3, <3>2
    <3>3. CASE i \notin M /\ j \notin M
      BY <2>1, <3>2, <3>3, ApplicationsAssumption DEF F!FillIdsAssumption
    <3>4. \A x \in M : x \in DOMAIN data /\ keys[x] # 1
      BY <1>4, <1>5, <1>6, <2>3
    <3> QED
      BY <3>1, <3>2, <3>3, <3>4
  <2> QED
    BY <1>4, <2>2, <2>3
<1>16. FillTypes'
  BY <1>1, <1>2, <1>3, <1>6, <1>7, <1>8 DEF FillInv, FillTypes
<1>17. GivenOut'
  <2>1. \A r \in Rows : key'[r] < next'
    BY <1>4, <1>5, <1>6, <1>7, <1>11
  <2>2. \A s \in inflight : \A i \in DOMAIN s.data : s.keys[i] < next'
    BY <1>4, <1>7, <1>8 DEF FillInv, GivenOut
  <2>3. \A row \in table : row.key < next'
    BY <1>4, <1>7, <1>9
  <2> QED
    BY <1>2, <1>3, <1>13, <2>1, <2>2, <2>3 DEF GivenOut
<1>18. Complete'
  BY <1>2, <1>3, <1>6, <1>15 DEF FillInv, Complete
<1>19. OwnRows'
  <2> SUFFICES ASSUME handed = "own"
               PROVE  /\ \A r, t \in Rows : key'[r] = key'[t] /\ key'[r] # F!NoKey => r = t
                      /\ \A s \in inflight' : \A i \in DOMAIN s.data :
                           s.keys[i] \in {F!NoKey, key'[s.data[i]]}
                      /\ \A row \in table : row.key = key'[row.row]
    BY <1>2 DEF OwnRows
  <2>1. \A r \in Rows : key[r] # F!NoKey => key'[r] = key[r]
    BY <1>6
  <2>2. ASSUME NEW s \in inflight, NEW i \in DOMAIN s.data
        PROVE  s.keys[i] \in {F!NoKey, key'[s.data[i]]}
    <3>1. s.keys[i] \in {F!NoKey, key[s.data[i]]} /\ s.data[i] \in Rows
      BY <1>8 DEF FillInv, OwnRows
    <3> QED
      BY <2>1, <3>1
  <2>3. \A row \in table : row.key = key'[row.row]
    BY <1>9, <2>1 DEF FillInv, OwnRows
  <2> QED
    BY <1>2, <1>3, <1>6, <1>14, <2>2, <2>3
<1>20. Copied'
  <2> SUFFICES ASSUME handed = "copies" PROVE Copied'
    BY <1>2 DEF Copied
  <2>1. ASSUME NEW i \in DOMAIN data
        PROVE  \/ keys[i] >= next /\ keys[i] \in Nat
               \/ keys[i] = 1 /\ data[i] \in Supplied
    BY <1>4, <1>5, <1>6, <1>10
  <2>2. ASSUME NEW s \in inflight, NEW i \in DOMAIN s.data, NEW j \in DOMAIN data, s.keys[i] = keys[j]
        PROVE  keys[j] = 1
    <3>1. s.keys[i] \in Nat /\ s.keys[i] < next
      BY <1>8 DEF FillInv, GivenOut
    <3> QED
      BY <1>4, <2>1, <2>2, <3>1
  <2>3. ASSUME NEW row \in table, NEW j \in DOMAIN data, row.key = keys[j]
        PROVE  keys[j] = 1
    BY <1>4, <1>9, <2>1, <2>3
  <2>4. \A s \in inflight', z \in inflight' : s # z =>
          \A i \in DOMAIN s.data, j \in DOMAIN z.data : s.keys[i] = z.keys[j] => s.keys[i] <= 1
    BY <1>2, <1>3, <2>2 DEF FillInv, Copied
  <2>5. \A s \in inflight', row \in table : \A i \in DOMAIN s.data :
          s.keys[i] = row.key => row.key = 1
    BY <1>2, <1>3, <2>3 DEF FillInv, Copied
  <2>6. \A s \in inflight' : \A i \in DOMAIN s.data : s.keys[i] = 1 => s.data[i] \in Supplied
    <3>1. \A i \in DOMAIN data : keys[i] = 1 => data[i] \in Supplied
      BY <1>4, <2>1
    <3> QED
      BY <1>2, <1>3, <3>1 DEF FillInv, Copied
  <2> QED
    BY <1>2, <1>6, <2>4, <2>5, <2>6 DEF FillInv, Copied
<1>21. F!RefusedForCause'
  BY <1>2 DEF FillInv, F!RefusedForCause
<1> QED
  BY <1>16, <1>17, <1>18, <1>19, <1>20, <1>21 DEF FillInv

(* A statement the extension is not configured for is passed on as it is.  *)
LEMMA PassesOnInv ==
  ASSUME FillInv, NEW c, NEW q \in Requests, F!PassesOn(c, q),
         UNCHANGED << handed, table, refused >>
  PROVE  FillInv'
<1> DEFINE data == q.data
           keys == [i \in DOMAIN data |-> key[data[i]]]
           new  == F!Statement(c, data, keys, FALSE)
<1>1. data \in Seq(Rows)
  BY ApplicationsAssumption DEF F!FillIdsAssumption
<1>2. inflight' = inflight \cup {new} /\ UNCHANGED << handed, key, next, table, refused >>
  BY DEF F!PassesOn, F!query
<1>3. new.data = data /\ new.keys = keys /\ new.filled = FALSE
  BY DEF F!Statement
<1>4. /\ \A i \in DOMAIN data : data[i] \in Rows /\ keys[i] = key[data[i]]
      /\ keys \in [DOMAIN data -> Nat]
  BY <1>1 DEF FillInv, FillTypes
<1> HIDE DEF data, keys, new
<1>5. FillTypes'
  BY <1>1, <1>2, <1>3, <1>4 DEF FillInv, FillTypes
<1>6. GivenOut'
  BY <1>2, <1>3, <1>4 DEF FillInv, GivenOut
<1>7. Complete'
  BY <1>2, <1>3 DEF FillInv, Complete
<1>8. OwnRows'
  BY <1>2, <1>3, <1>4 DEF FillInv, OwnRows
<1>9. Copied'
  <2> SUFFICES ASSUME handed = "copies" PROVE Copied'
    BY <1>2 DEF Copied
  <2>1. \A i \in DOMAIN data :
          keys[i] \in {0, 1} /\ (keys[i] = 1 => data[i] \in Supplied)
    BY <1>4 DEF FillInv, Copied, F!NoKey
  <2>2. \A row \in table : row.key # 0
    BY DEF FillInv, FillTypes, F!NoKey
  <2>3. \A s \in inflight', z \in inflight' : s # z =>
          \A i \in DOMAIN s.data, j \in DOMAIN z.data : s.keys[i] = z.keys[j] => s.keys[i] <= 1
    BY <1>2, <1>3, <2>1 DEF FillInv, Copied
  <2>4. \A s \in inflight', row \in table : \A i \in DOMAIN s.data :
          s.keys[i] = row.key => row.key = 1
    BY <1>2, <1>3, <2>1, <2>2 DEF FillInv, Copied
  <2>5. \A s \in inflight' : \A i \in DOMAIN s.data : s.keys[i] = 1 => s.data[i] \in Supplied
    BY <1>2, <1>3, <2>1 DEF FillInv, Copied
  <2> QED
    BY <1>2, <2>3, <2>4, <2>5 DEF FillInv, Copied
<1>10. F!RefusedForCause'
  BY <1>2 DEF FillInv, F!RefusedForCause
<1> QED
  BY <1>5, <1>6, <1>7, <1>8, <1>9, <1>10 DEF FillInv

(* Why the database refuses a statement that was filled.                   *)
LEMMA RefusalHasCause ==
  ASSUME FillInv, NEW s \in inflight, ~F!Accepts(s), s.filled, F!IsInjective(s.data)
  PROVE  \E row \in table :
           row.row \in F!Range(s.data) /\ (handed = "own" \/ row.row \in Supplied)
<1>1. s.data \in Seq(Rows) /\ s.keys \in [DOMAIN s.data -> Nat] /\ handed \in {"own", "copies"}
  BY DEF FillInv, FillTypes
<1>2. F!NoKey \notin F!Range(s.keys) /\ F!IsInjective(s.keys)
  BY <1>1 DEF FillInv, Complete, F!Range
<1>3. PICK row \in table : row.key \in F!Range(s.keys)
  BY <1>2 DEF F!Accepts
<1>4. PICK i \in DOMAIN s.data : row.key = s.keys[i]
  BY <1>1, <1>3 DEF F!Range
<1>5. s.data[i] \in Rows /\ s.data[i] \in F!Range(s.data) /\ row.row \in Rows /\ row.key # F!NoKey
  BY <1>1 DEF FillInv, FillTypes, F!Range
<1>6. CASE handed = "own"
  <2>1. row.key = key[row.row] /\ s.keys[i] = key[s.data[i]]
    BY <1>4, <1>5, <1>6 DEF FillInv, OwnRows
  <2>2. key[row.row] = key[s.data[i]] /\ key[row.row] # F!NoKey
    BY <1>4, <1>5, <2>1
  <2>3. \A r, t \in Rows : key[r] = key[t] /\ key[r] # F!NoKey => r = t
    BY <1>6 DEF FillInv, OwnRows
  <2>4. row.row = s.data[i]
    BY <1>5, <2>2, <2>3
  <2> QED
    BY <1>5, <1>6, <2>4
<1>7. CASE handed = "copies"
  <2>1. row.key = 1 /\ row.row \in Supplied /\ s.data[i] \in Supplied
    BY <1>4, <1>7 DEF FillInv, Copied
  <2>2. row.row = s.data[i]
    BY <2>1, ApplicationsAssumption DEF F!FillIdsAssumption
  <2> QED
    BY <1>5, <2>1, <2>2
<1> QED
  BY <1>1, <1>6, <1>7

(* The database stores the rows of a statement, or none of them.           *)
LEMMA ExecuteInv == ASSUME FillInv, NEW s \in inflight, F!Execute(s) PROVE FillInv'
<1> DEFINE stored_rows == { [row |-> s.data[i], key |-> s.keys[i]] : i \in DOMAIN s.data }
<1>1. /\ inflight' = inflight \ {s} /\ UNCHANGED << handed, key, next >>
      /\ \/ F!Accepts(s) /\ table' = table \cup stored_rows /\ refused' = refused
         \/ ~F!Accepts(s) /\ table' = table /\ refused' = refused \cup {s}
  BY DEF F!Execute
<1>2. s.data \in Seq(Rows) /\ s.keys \in [DOMAIN s.data -> Nat]
  BY DEF FillInv, FillTypes
<1>3. ASSUME F!Accepts(s), NEW row \in stored_rows
      PROVE  /\ row \in [row : Rows, key : Nat \ {F!NoKey}]
             /\ \E i \in DOMAIN s.data : row.row = s.data[i] /\ row.key = s.keys[i]
  <2>1. PICK i \in DOMAIN s.data : row = [row |-> s.data[i], key |-> s.keys[i]]
    OBVIOUS
  <2>2. s.keys[i] # F!NoKey
    BY <1>2, <1>3 DEF F!Accepts, F!Range
  <2> QED
    BY <1>2, <2>1, <2>2
<1> HIDE DEF stored_rows
<1>4. \A row \in table' :
        \/ row \in table
        \/ /\ row \in [row : Rows, key : Nat \ {F!NoKey}]
           /\ \E i \in DOMAIN s.data : row.row = s.data[i] /\ row.key = s.keys[i]
  BY <1>1, <1>3
<1>5. FillTypes'
  BY <1>1, <1>4 DEF FillInv, FillTypes
<1>6. GivenOut'
  BY <1>1, <1>4 DEF FillInv, GivenOut
<1>7. Complete'
  BY <1>1 DEF FillInv, Complete
<1>8. OwnRows'
  <2> SUFFICES ASSUME handed = "own", NEW row \in table' PROVE row.key = key[row.row]
    BY <1>1 DEF FillInv, OwnRows
  <2> QED
    BY <1>4 DEF FillInv, OwnRows
<1>9. Copied'
  <2> SUFFICES ASSUME handed = "copies" PROVE Copied'
    BY <1>1 DEF Copied
  <2>1. \A row \in table' : row.key = 1 => row.row \in Supplied
    BY <1>4 DEF FillInv, Copied
  <2>2. ASSUME NEW z \in inflight', NEW row \in table', NEW j \in DOMAIN z.data,
               z.keys[j] = row.key
        PROVE  row.key = 1
    <3>1. CASE row \in table
      BY <1>1, <2>2, <3>1 DEF FillInv, Copied
    <3>2. CASE row \notin table
      <4>1. PICK i \in DOMAIN s.data : row.key = s.keys[i]
        BY <1>4, <3>2
      <4>2. s.keys[i] <= 1
        BY <1>1, <2>2, <4>1 DEF FillInv, Copied
      <4>3. row.key \in Nat \ {0}
        BY <1>4, <3>2 DEF F!NoKey
      <4> QED
        BY <4>1, <4>2, <4>3
    <3> QED
      BY <3>1, <3>2
  <2> QED
    BY <1>1, <2>1, <2>2 DEF FillInv, Copied
<1>10. F!RefusedForCause'
  <2> SUFFICES ASSUME NEW z \in refused', z.filled, F!IsInjective(z.data)
               PROVE  \E row \in table' :
                        row.row \in F!Range(z.data) /\ (handed = "own" \/ row.row \in Supplied)
    BY <1>1 DEF F!RefusedForCause
  <2>1. CASE z \in refused
    BY <1>1, <2>1 DEF FillInv, F!RefusedForCause
  <2>2. CASE z \notin refused
    BY <1>1, <2>2, RefusalHasCause
  <2> QED
    BY <2>1, <2>2
<1> QED
  BY <1>5, <1>6, <1>7, <1>8, <1>9, <1>10 DEF FillInv

LEMMA NextFillInv == ASSUME FillInv, [F!Next]_(F!vars) PROVE FillInv'
<1>1. ASSUME UNCHANGED << handed, key, next, inflight, table, refused >> PROVE FillInv'
  BY <1>1 DEF FillInv, FillTypes, GivenOut, Complete, OwnRows, Copied, F!RefusedForCause
<1>2. ASSUME NEW c \in Callers, F!Send(c) PROVE FillInv'
  <2>1. PICK q \in Requests : F!Handle(c, q)
    BY <1>2 DEF F!Send
  <2>2. CASE F!Throws(c, q)
    BY <1>1, <2>1, <2>2 DEF F!Handle, F!Throws
  <2>3. CASE F!Fills(c, q)
    BY <2>1, <2>3, FillsInv DEF F!Handle
  <2>4. CASE F!PassesOn(c, q)
    BY <2>1, <2>4, PassesOnInv DEF F!Handle
  <2> QED
    BY <2>1, <2>2, <2>3, <2>4 DEF F!Handle
<1>3. ASSUME NEW c \in Callers, F!GiveUp(c) PROVE FillInv'
  BY <1>1, <1>3 DEF F!GiveUp
<1>4. CASE UNCHANGED F!vars
  BY <1>1, <1>4 DEF F!vars
<1> QED
  BY <1>2, <1>3, <1>4, ExecuteInv DEF F!Next

(* The other parts leave rows and statements alone.                        *)
LEMMA FillKept == Spec => [](part = "fill" => FillInv)
<1>1. Init => (part = "fill" => FillInv)
  BY InitFillInv DEF Init
<1>2. (part = "fill" => FillInv) /\ [Next]_vars => (part = "fill" => FillInv)'
  <2> SUFFICES ASSUME part = "fill" => FillInv, [Next]_vars, part' = "fill"
               PROVE  FillInv'
    OBVIOUS
  <2>1. part = "fill" /\ [F!Next]_(F!vars)
    BY DEF Next, vars, fVars, F!vars
  <2> QED
    BY <2>1, NextFillInv
<1> QED
  BY <1>1, <1>2, PTL DEF Spec

(* Where handlers see the callers' own rows, a row is stored once, however *)
(* many callers send it, in whatever statements and order, give up and     *)
(* send it again (packages/prisma/src/index.ts:39-56).                     *)
THEOREM RowsAreStoredOnce == Spec => []StoredOnce
<1>1. ASSUME FillInv PROVE F!StoredOnce
  <2> SUFFICES ASSUME handed = "own", NEW a \in table, NEW b \in table, a.row = b.row
               PROVE  a = b
    BY DEF F!StoredOnce
  <2>1. a.key = key[a.row] /\ b.key = key[b.row]
    BY <1>1 DEF FillInv, OwnRows
  <2>2. a \in [row : Rows, key : Nat \ {F!NoKey}] /\ b \in [row : Rows, key : Nat \ {F!NoKey}]
    BY <1>1 DEF FillInv, FillTypes
  <2> QED
    BY <2>1, <2>2
<1>2. (part = "fill" => FillInv) => StoredOnce
  BY <1>1 DEF StoredOnce
<1> QED
  BY <1>2, FillKept, PTL

(* A filled statement without a repeated row is refused only because one   *)
(* of its own rows is in the table: the extension never makes two rows     *)
(* collide, and never leaves one without a key                             *)
(* (packages/prisma/src/index.ts:39-56).                                   *)
THEOREM RefusalsHaveCause == Spec => []RefusedForCause
<1>1. (part = "fill" => FillInv) => RefusedForCause
  BY DEF FillInv, RefusedForCause
<1> QED
  BY <1>1, FillKept, PTL

-----------------------------------------------------------------------------
(* Folds over a sequence.  FoldLeft recurs over the set of positions, from *)
(* the last one down, so a fold has the value of a recursive function that *)
(* must first be shown to exist.                                           *)

(* What 0 has, and each number has if the one before it does, all have.    *)
LEMMA Induction ==
  ASSUME NEW n \in Nat, NEW S, 0 \in S, \A k \in 1 .. n : k - 1 \in S => k \in S
  PROVE  \A k \in 0 .. n : k \in S
<1> SUFFICES ASSUME NEW m \in (0 .. n) \ S PROVE FALSE
  OBVIOUS
<1> DEFINE Out == (0 .. n) \ S
<1>1. PICK k \in Out : \A j \in Out : ~(j < k)
  <2>1. Out \subseteq Nat /\ Out # {}
    OBVIOUS
  <2>2. \E x \in Out : \A y \in Out : ~(<< y, x >> \in OpToRel(<, Nat))
    BY <2>1, NatLessThanWellFounded, WFMin
  <2> QED
    BY <2>1, <2>2 DEF OpToRel
<1>2. k \in 1 .. n /\ k - 1 \in 0 .. n
  BY <1>1
<1> QED
  BY <1>1, <1>2

Top(s) == CHOOSE x \in s : \A y \in s : x >= y

LEMMA TopIsIn ==
  ASSUME NEW n \in Nat, NEW s \in SUBSET (1 .. n), s # {}
  PROVE  Top(s) \in s /\ \A y \in s : Top(s) >= y
<1> DEFINE S == { k \in 0 .. n : \A t \in SUBSET (1 .. k) : t # {} => \E x \in t : \A y \in t : x >= y }
<1>1. 0 \in S
  <2>1. \A t \in SUBSET (1 .. 0) : t = {}
    OBVIOUS
  <2>2. \A t \in SUBSET (1 .. 0) : t # {} => \E x \in t : \A y \in t : x >= y
    BY <2>1
  <2>3. 0 \in 0 .. n
    OBVIOUS
  <2> QED
    BY <2>2, <2>3
<1>2. ASSUME NEW k \in 1 .. n, k - 1 \in S PROVE k \in S
  <2> SUFFICES ASSUME NEW t \in SUBSET (1 .. k), t # {} PROVE \E x \in t : \A y \in t : x >= y
    OBVIOUS
  <2>1. CASE k \in t
    BY <2>1
  <2>2. CASE k \notin t
    <3>1. t \in SUBSET (1 .. k - 1)
      BY <2>2
    <3> QED
      BY <1>2, <3>1
  <2> QED
    BY <2>1, <2>2
<1> HIDE DEF S
<1>3. \A k \in 0 .. n : k \in S
  BY <1>1, <1>2, Induction
<1>4. \E x \in s : \A y \in s : x >= y
  BY <1>3 DEF S
<1> QED
  BY <1>4 DEF Top

LEMMA TopOfRange ==
  ASSUME NEW k \in Nat \ {0} PROVE Top(1 .. k) = k /\ (1 .. k) \ {k} = 1 .. k - 1
  BY DEF Top

\* The step of a fold over 1 .. n, with values in D.
IsStep(op, n, D) == op \in [1 .. n -> [D -> D]]

IsFold(iter, n, D, b, op) ==
  /\ iter \in [SUBSET (1 .. n) -> D]
  /\ \A s \in SUBSET (1 .. n) :
       iter[s] = IF s = {} THEN b ELSE op[Top(s)][iter[s \ {Top(s)}]]

(* A fold over the positions of a sequence has a value for each set of     *)
(* them.                                                                   *)
LEMMA FoldExists ==
  ASSUME NEW n \in Nat, NEW D, NEW b \in D, NEW op, IsStep(op, n, D)
  PROVE  \E iter : IsFold(iter, n, D, b, op)
<1> USE DEF IsStep
<1> DEFINE Folds(iter, k) == \A s \in SUBSET (1 .. k) :
             iter[s] = IF s = {} THEN b ELSE op[Top(s)][iter[s \ {Top(s)}]]
           S == { k \in 0 .. n : \E iter \in [SUBSET (1 .. k) -> D] : Folds(iter, k) }
<1>1. 0 \in S
  <2> DEFINE iter == [s \in SUBSET (1 .. 0) |-> b]
  <2>1. iter \in [SUBSET (1 .. 0) -> D]
    OBVIOUS
  <2>2. ASSUME NEW s \in SUBSET (1 .. 0) PROVE s = {} /\ iter[s] = b
    OBVIOUS
  <2> HIDE DEF iter
  <2>3. Folds(iter, 0)
    BY <2>2
  <2>4. \E f \in [SUBSET (1 .. 0) -> D] : Folds(f, 0)
    <3> HIDE DEF Folds
    <3> QED
      BY <2>1, <2>3
  <2>5. 0 \in 0 .. n
    OBVIOUS
  <2> HIDE DEF Folds
  <2> QED
    BY <2>4, <2>5
<1>2. ASSUME NEW k \in 1 .. n, k - 1 \in S PROVE k \in S
  <2>1. PICK old \in [SUBSET (1 .. k - 1) -> D] : Folds(old, k - 1)
    BY <1>2
  <2> DEFINE iter == [s \in SUBSET (1 .. k) |-> IF k \in s THEN op[k][old[s \ {k}]] ELSE old[s]]
  <2>2. ASSUME NEW s \in SUBSET (1 .. k)
        PROVE  iter[s] \in D /\ iter[s] = IF s = {} THEN b ELSE op[Top(s)][iter[s \ {Top(s)}]]
    <3>1. CASE k \in s
      <4>1. s \ {k} \in SUBSET (1 .. k - 1) /\ s \ {k} \in SUBSET (1 .. k)
        OBVIOUS
      <4>2. Top(s) = k
        <5>1. k \in Nat /\ s # {}
          BY <3>1
        <5>2. Top(s) \in s /\ Top(s) >= k
          BY <3>1, <5>1, TopIsIn
        <5>3. PICK x \in s : x = Top(s) /\ x >= k
          BY <5>2
        <5>4. x = k
          BY <5>3
        <5> QED
          BY <5>3, <5>4
      <4>3. old[s \ {k}] \in D /\ iter[s \ {k}] = old[s \ {k}] /\ iter[s] = op[k][old[s \ {k}]]
        BY <3>1, <4>1
      <4> HIDE DEF iter
      <4> QED
        BY <3>1, <4>2, <4>3
    <3>2. CASE k \notin s
      <4>1. s \in SUBSET (1 .. k - 1)
        BY <3>2
      <4>2. iter[s] = old[s] /\ old[s] \in D
        BY <3>2, <4>1
      <4>3. s # {} => /\ Top(s) \in s /\ s \ {Top(s)} \in SUBSET (1 .. k - 1)
                      /\ s \ {Top(s)} \in SUBSET (1 .. k) /\ k \notin s \ {Top(s)}
        <5>1. k \in Nat
          OBVIOUS
        <5>2. s # {} => Top(s) \in s
          BY <5>1, TopIsIn
        <5> HIDE DEF iter
        <5> QED
          BY <3>2, <4>1, <5>2
      <4>4. s # {} => iter[s \ {Top(s)}] = old[s \ {Top(s)}]
        BY <4>3
      <4>5. old[s] = IF s = {} THEN b ELSE op[Top(s)][old[s \ {Top(s)}]]
        BY <2>1, <4>1
      <4> HIDE DEF iter
      <4> QED
        BY <4>2, <4>4, <4>5
    <3> QED
      BY <3>1, <3>2
  <2>3. iter \in [SUBSET (1 .. k) -> D]
    BY <2>2
  <2>4. Folds(iter, k)
    BY <2>2
  <2>5. \E f \in [SUBSET (1 .. k) -> D] : Folds(f, k)
    <3> HIDE DEF iter, Folds
    <3> QED
      BY <2>3, <2>4
  <2> HIDE DEF Folds
  <2> QED
    BY <2>5
<1> HIDE DEF S
<1>3. \A k \in 0 .. n : k \in S
  BY <1>1, <1>2, Induction
<1>4. \E iter \in [SUBSET (1 .. n) -> D] : Folds(iter, n)
  <2>1. n \in 0 .. n
    OBVIOUS
  <2> QED
    BY <1>3, <2>1 DEF S
<1> QED
  BY <1>4 DEF IsFold

(* What is left of a sequence without the elements in Good.                *)

FilterStep(iter, s, Good, t) ==
  IF s[Top(t)] \in Good THEN iter[t \ {Top(t)}] ELSE Append(iter[t \ {Top(t)}], s[Top(t)])

Filters(iter, s, Good) ==
  iter = [t \in SUBSET (1 .. Len(s)) |-> IF t = {} THEN << >> ELSE FilterStep(iter, s, Good, t)]

\* f are the positions of s, up to k, whose elements are in kept.
Picks(f, kept, s, k, Good) ==
  /\ f \in [1 .. Len(kept) -> 1 .. k]
  /\ \A i \in 1 .. Len(kept) : kept[i] = s[f[i]] /\ kept[i] \notin Good
  /\ \A i, j \in 1 .. Len(kept) : i < j => f[i] < f[j]
  /\ \A j \in 1 .. k : s[j] \notin Good => \E i \in 1 .. Len(kept) : f[i] = j

LEMMA FilterExists ==
  ASSUME NEW D, NEW s \in Seq(D), NEW Good
  PROVE  \E iter : Filters(iter, s, Good)
<1> DEFINE n  == Len(s)
           op == [i \in 1 .. n |-> [q \in Seq(D) |-> IF s[i] \in Good THEN q ELSE Append(q, s[i])]]
<1>1. n \in Nat /\ << >> \in Seq(D)
  OBVIOUS
<1>2. ASSUME NEW i \in 1 .. n, NEW q \in Seq(D)
      PROVE  (IF s[i] \in Good THEN q ELSE Append(q, s[i])) \in Seq(D)
  <2>1. s[i] \in D
    OBVIOUS
  <2>2. Append(q, s[i]) \in Seq(D)
    BY <2>1
  <2> QED
    BY <2>2
<1>3. ASSUME NEW i \in 1 .. n, NEW q \in Seq(D)
      PROVE  op[i][q] = IF s[i] \in Good THEN q ELSE Append(q, s[i])
  OBVIOUS
<1>4. op \in [1 .. n -> [Seq(D) -> Seq(D)]]
  BY <1>2
<1> HIDE DEF op
<1>5. PICK iter \in [SUBSET (1 .. n) -> Seq(D)] : \A t \in SUBSET (1 .. n) :
        iter[t] = IF t = {} THEN << >> ELSE op[Top(t)][iter[t \ {Top(t)}]]
  <2> DEFINE V == Seq(D)
             b == << >>
  <2>1. n \in Nat /\ b \in V /\ IsStep(op, n, V)
    BY <1>1, <1>4 DEF IsStep
  <2>2. \E iter : IsFold(iter, n, V, b, op)
    <3> HIDE DEF n, V, b
    <3> QED
      BY <2>1, FoldExists
  <2> QED
    BY <2>2 DEF IsFold
<1>6. ASSUME NEW t \in SUBSET (1 .. n)
      PROVE  iter[t] = IF t = {} THEN << >> ELSE FilterStep(iter, s, Good, t)
  <2>1. CASE t = {}
    BY <1>5, <2>1
  <2>2. CASE t # {}
    <3>1. PICK i \in 1 .. n : i = Top(t)
      BY <1>1, <2>2, TopIsIn
    <3>2. PICK q \in Seq(D) : q = iter[t \ {i}]
      OBVIOUS
    <3>3. iter[t] = op[i][q]
      BY <1>5, <2>2, <3>1, <3>2
    <3> QED
      BY <1>3, <2>2, <3>1, <3>2, <3>3 DEF FilterStep
  <2> QED
    BY <2>1, <2>2
<1>7. iter = [t \in SUBSET (1 .. n) |-> IF t = {} THEN << >> ELSE FilterStep(iter, s, Good, t)]
  BY <1>6
<1> QED
  BY <1>7 DEF Filters

(* A filter keeps the others in their order.                               *)
LEMMA FilterKeepsOrder ==
  ASSUME NEW D, NEW s \in Seq(D), NEW Good, NEW iter, Filters(iter, s, Good)
  PROVE  /\ iter[1 .. Len(s)] \in Seq(D)
         /\ \E f : Picks(f, iter[1 .. Len(s)], s, Len(s), Good)
<1> DEFINE n == Len(s)
           S == { k \in 0 .. n : iter[1 .. k] \in Seq(D) /\ \E f : Picks(f, iter[1 .. k], s, k, Good) }
<1>1. 0 \in S
  <2>1. 1 .. 0 = {} /\ {} \in SUBSET (1 .. n)
    OBVIOUS
  <2>2. iter[1 .. 0] = << >>
    BY <2>1 DEF Filters
  <2>3. Picks(<< >>, << >>, s, 0, Good)
    BY DEF Picks
  <2>4. iter[1 .. 0] \in Seq(D) /\ \E f : Picks(f, iter[1 .. 0], s, 0, Good)
    BY <2>2, <2>3
  <2>5. 0 \in 0 .. n
    OBVIOUS
  <2> QED
    BY <2>4, <2>5
<1>2. ASSUME NEW k \in 1 .. n, k - 1 \in S PROVE k \in S
  <2> SUFFICES iter[1 .. k] \in Seq(D) /\ \E f : Picks(f, iter[1 .. k], s, k, Good)
    OBVIOUS
  <2>1. PICK old \in Seq(D) : old = iter[1 .. k - 1]
    BY <1>2
  <2>2. PICK f : Picks(f, old, s, k - 1, Good)
    BY <1>2, <2>1
  <2>3. Top(1 .. k) = k /\ (1 .. k) \ {k} = 1 .. k - 1 /\ k \in Nat /\ s[k] \in D
    <3>1. k \in Nat \ {0}
      OBVIOUS
    <3> QED
      BY <3>1, TopOfRange
  <2>4. iter[1 .. k] = IF s[k] \in Good THEN old ELSE Append(old, s[k])
    <3>1. 1 .. k \in SUBSET (1 .. n) /\ 1 .. k # {}
      <4>1. n \in Nat /\ k \in 1 .. k
        BY <2>3
      <4>2. \A x \in 1 .. k : x \in 1 .. n
        BY <2>3, <4>1
      <4> QED
        BY <4>1, <4>2
    <3>2. iter[1 .. k] = FilterStep(iter, s, Good, 1 .. k)
      BY <3>1 DEF Filters
    <3> QED
      BY <2>1, <2>3, <3>2 DEF FilterStep
  <2>5. CASE s[k] \in Good
    <3>1. Picks(f, old, s, k, Good)
      BY <2>2, <2>3, <2>5 DEF Picks
    <3> QED
      BY <2>4, <2>5, <3>1
  <2>6. CASE s[k] \notin Good
    <3> DEFINE m == Len(old)
               g == [i \in 1 .. m + 1 |-> IF i = m + 1 THEN k ELSE f[i]]
               new == Append(old, s[k])
    <3>1. m \in Nat /\ new \in Seq(D) /\ Len(new) = m + 1 /\ new[m + 1] = s[k]
          /\ \A i \in 1 .. m : new[i] = old[i] /\ i \in 1 .. m + 1 /\ i # m + 1
      BY <2>3
    <3>2. /\ DOMAIN g = 1 .. m + 1 /\ g[m + 1] = k
          /\ \A i \in 1 .. m : g[i] = f[i]
      BY <3>1
    <3>3. \A i \in 1 .. m : f[i] \in 1 .. k - 1
      BY <2>2 DEF Picks
    <3>4. g \in [1 .. m + 1 -> 1 .. k]
      BY <2>3, <3>3
    <3> HIDE DEF g, new, m
    <3>5. \A i \in 1 .. m + 1 : i = m + 1 \/ i \in 1 .. m
      BY <3>1
    <3>6. \A i \in 1 .. m : old[i] = s[f[i]] /\ old[i] \notin Good
      BY <2>2 DEF Picks, m
    <3>7. \A i, j \in 1 .. m : i < j => f[i] < f[j]
      BY <2>2 DEF Picks, m
    <3>8. \A j \in 1 .. k - 1 : s[j] \notin Good => \E i \in 1 .. m : f[i] = j
      BY <2>2 DEF Picks, m
    <3>9. \A i \in 1 .. m + 1 : new[i] = s[g[i]] /\ new[i] \notin Good
      BY <2>6, <3>1, <3>2, <3>5, <3>6
    <3>10. \A i, j \in 1 .. m + 1 : i < j => g[i] < g[j]
      <4> SUFFICES ASSUME NEW i \in 1 .. m + 1, NEW j \in 1 .. m + 1, i < j PROVE g[i] < g[j]
        OBVIOUS
      <4>1. i \in 1 .. m
        BY <3>1
      <4>2. CASE j = m + 1
        BY <2>3, <3>2, <3>3, <4>1, <4>2
      <4>3. CASE j \in 1 .. m
        BY <3>2, <3>7, <4>1, <4>3
      <4> QED
        BY <3>5, <4>2, <4>3
    <3>11. \A j \in 1 .. k : s[j] \notin Good => \E i \in 1 .. m + 1 : g[i] = j
      <4> SUFFICES ASSUME NEW j \in 1 .. k, s[j] \notin Good PROVE \E i \in 1 .. m + 1 : g[i] = j
        OBVIOUS
      <4>1. CASE j = k
        BY <3>1, <3>2, <4>1
      <4>2. CASE j # k
        <5>1. j \in 1 .. k - 1
          BY <4>2
        <5>2. PICK i \in 1 .. m : f[i] = j
          BY <3>8, <5>1
        <5> QED
          BY <3>1, <3>2, <5>2
      <4> QED
        BY <4>1, <4>2
    <3>12. Picks(g, new, s, k, Good)
      BY <3>1, <3>4, <3>9, <3>10, <3>11 DEF Picks
    <3>13. iter[1 .. k] = new
      BY <2>4, <2>6 DEF new
    <3> QED
      BY <3>1, <3>12, <3>13
  <2> QED
    BY <2>5, <2>6
<1> HIDE DEF S
<1>3. n \in Nat /\ n \in 0 .. n
  OBVIOUS
<1> HIDE DEF n
<1>4. \A k \in 0 .. n : k \in S
  BY <1>1, <1>2, <1>3, Induction
<1> QED
  BY <1>3, <1>4 DEF S, n

\* Flattening a sequence of sequences.
Flattens(flat, ss, k) ==
  flat = [i \in 1 .. k |-> IF i = 1 THEN ss[i] ELSE flat[i - 1] \o ss[i]]

LEMMA FlattenExists ==
  ASSUME NEW D, NEW ss \in Seq(Seq(D)), NEW n \in 0 .. Len(ss)
  PROVE  \E flat \in [1 .. n -> Seq(D)] : Flattens(flat, ss, n)
<1> DEFINE S == { k \in 0 .. n : \E flat \in [1 .. k -> Seq(D)] : Flattens(flat, ss, k) }
<1>1. n \in Nat /\ n <= Len(ss) /\ n \in 0 .. n
  OBVIOUS
<1>2. 0 \in S
  <2> DEFINE flat == [i \in 1 .. 0 |-> << >>]
  <2>1. flat \in [1 .. 0 -> Seq(D)] /\ flat = [i \in 1 .. 0 |-> IF i = 1 THEN ss[i] ELSE flat[i - 1] \o ss[i]]
    OBVIOUS
  <2>2. Flattens(flat, ss, 0)
    BY <2>1 DEF Flattens
  <2>3. 0 \in 0 .. n
    BY <1>1
  <2> HIDE DEF flat
  <2> QED
    BY <2>1, <2>2, <2>3
<1>3. ASSUME NEW k \in 1 .. n, k - 1 \in S PROVE k \in S
  <2>1. PICK old \in [1 .. k - 1 -> Seq(D)] : Flattens(old, ss, k - 1)
    BY <1>3
  <2>2. ss[k] \in Seq(D)
    BY <1>1
  <2> DEFINE flat == [i \in 1 .. k |-> IF i = k THEN (IF k = 1 THEN ss[k] ELSE old[k - 1] \o ss[k]) ELSE old[i]]
  <2>3. ASSUME NEW i \in 1 .. k
        PROVE  flat[i] \in Seq(D) /\ flat[i] = IF i = 1 THEN ss[i] ELSE flat[i - 1] \o ss[i]
    <3>1. CASE i = k
      <4>1. CASE k = 1
        BY <2>2, <3>1, <4>1
      <4>2. CASE k # 1
        <5>1. k - 1 \in 1 .. k - 1 /\ k - 1 \in 1 .. k /\ k - 1 # k /\ k \in 1 .. k
          BY <4>2
        <5>2. flat[k - 1] = old[k - 1] /\ old[k - 1] \in Seq(D) /\ flat[k] = old[k - 1] \o ss[k]
          <6>1. flat[k - 1] = old[k - 1]
            BY <5>1
          <6>2. flat[k] = old[k - 1] \o ss[k]
            BY <4>2, <5>1
          <6> HIDE DEF flat
          <6> QED
            BY <5>1, <6>1, <6>2
        <5>3. old[k - 1] \o ss[k] \in Seq(D)
          BY <2>2, <5>2
        <5> HIDE DEF flat
        <5> QED
          BY <3>1, <4>2, <5>2, <5>3
      <4> QED
        BY <4>1, <4>2
    <3>2. CASE i # k
      <4>1. i \in 1 .. k - 1
        BY <3>2
      <4>2. flat[i] = old[i] /\ old[i] \in Seq(D)
        BY <3>2, <4>1
      <4>3. i # 1 => i - 1 \in 1 .. k - 1 /\ i - 1 \in 1 .. k /\ i - 1 # k
        BY <4>1
      <4>4. i # 1 => flat[i - 1] = old[i - 1]
        BY <4>3
      <4>5. old[i] = IF i = 1 THEN ss[i] ELSE old[i - 1] \o ss[i]
        BY <2>1, <4>1 DEF Flattens
      <4> HIDE DEF flat
      <4> QED
        BY <4>2, <4>4, <4>5
    <3> QED
      BY <3>1, <3>2
  <2>4. flat \in [1 .. k -> Seq(D)]
    BY <2>3
  <2>5. flat = [i \in 1 .. k |-> flat[i]]
    OBVIOUS
  <2> HIDE DEF flat
  <2>6. flat = [i \in 1 .. k |-> IF i = 1 THEN ss[i] ELSE flat[i - 1] \o ss[i]]
    BY <2>3, <2>5
  <2>7. Flattens(flat, ss, k)
    BY <2>6 DEF Flattens
  <2>8. k \in 0 .. n
    BY <1>1
  <2> QED
    BY <2>4, <2>7, <2>8
<1> HIDE DEF S
<1>4. \A k \in 0 .. n : k \in S
  BY <1>1, <1>2, <1>3, Induction
<1> QED
  BY <1>1, <1>4 DEF S

\* There is but one such function.
LEMMA FlattenUnique ==
  ASSUME NEW ss, NEW m \in Nat, NEW n \in 0 .. m, NEW f, NEW g, Flattens(f, ss, m), Flattens(g, ss, n)
  PROVE  \A i \in 1 .. n : f[i] = g[i]
<1> DEFINE S == { k \in 0 .. n : k = 0 \/ f[k] = g[k] }
<1>1. 0 \in S /\ n \in Nat
  OBVIOUS
<1>2. ASSUME NEW k \in 1 .. n, k - 1 \in S PROVE k \in S
  <2>1. k \in 1 .. m /\ k \in 0 .. n
    OBVIOUS
  <2>2. /\ f[k] = IF k = 1 THEN ss[k] ELSE f[k - 1] \o ss[k]
        /\ g[k] = IF k = 1 THEN ss[k] ELSE g[k - 1] \o ss[k]
    BY <2>1 DEF Flattens
  <2>3. k = 1 \/ f[k - 1] = g[k - 1]
    BY <1>2
  <2> QED
    BY <2>1, <2>2, <2>3
<1> HIDE DEF S
<1>3. \A k \in 0 .. n : k \in S
  BY <1>1, <1>2, Induction
<1>4. ASSUME NEW i \in 1 .. n PROVE f[i] = g[i]
  <2>1. i \in S
    BY <1>3
  <2> QED
    BY <2>1 DEF S
<1> QED
  BY <1>4

LEMMA FlattenPrefix ==
  ASSUME NEW ss, NEW n \in Nat, NEW f, NEW g, Flattens(g, ss, n + 1), Flattens(f, ss, n)
  PROVE  \A i \in 1 .. n : g[i] = f[i]
<1>1. PICK m \in Nat : m = n + 1
  OBVIOUS
<1>2. n \in 0 .. m
  BY <1>1
<1> QED
  BY <1>1, <1>2, FlattenUnique

LEMMA FlattenIs ==
  ASSUME NEW D, NEW ss \in Seq(Seq(D)), NEW flat, Flattens(flat, ss, Len(ss))
  PROVE  L!Check!FlattenSeq(ss) = IF Len(ss) = 0 THEN << >> ELSE flat[Len(ss)]
<1> DEFINE n     == Len(ss)
           Eq(it) == it = [i \in 1 .. Len(ss) |-> IF i = 1 THEN ss[i] ELSE it[i - 1] \o ss[i]]
           H     == CHOOSE it : Eq(it)
<1>1. n \in Nat /\ n \in 0 .. n
  OBVIOUS
<1>2. CASE n = 0
  BY <1>2 DEF L!Check!FlattenSeq
<1>3. CASE n # 0
  <2>1. L!Check!FlattenSeq(ss) = H[n]
    BY <1>3 DEF L!Check!FlattenSeq
  <2>2. Eq(flat)
    BY DEF Flattens
  <2>3. Eq(H)
    <3> HIDE DEF Eq
    <3> QED
      BY <2>2
  <2> HIDE DEF H
  <2>4. Flattens(H, ss, n)
    BY <2>3 DEF Flattens
  <2> HIDE DEF Eq, n
  <2>5. \A i \in 1 .. n : H[i] = flat[i]
    BY <1>1, <2>4, FlattenUnique DEF n
  <2> QED
    BY <1>1, <1>3, <2>1, <2>5 DEF n
<1> QED
  BY <1>2, <1>3

(* What a sequence of sequences flattens to grows by what is appended.     *)
LEMMA FlattenAppend ==
  ASSUME NEW D, NEW ss \in Seq(Seq(D)), NEW x \in Seq(D)
  PROVE  /\ L!Check!FlattenSeq(ss) \in Seq(D)
         /\ L!Check!FlattenSeq(Append(ss, x)) = L!Check!FlattenSeq(ss) \o x
<1>1. PICK n \in Nat : n = Len(ss)
  OBVIOUS
<1>2. PICK more : more \in Seq(Seq(D)) /\ more = Append(ss, x)
  <2> DEFINE V == Seq(D)
  <2>1. x \in V /\ ss \in Seq(V)
    OBVIOUS
  <2> HIDE DEF V
  <2>2. Append(ss, x) \in Seq(V)
    BY <2>1
  <2> QED
    BY <2>2 DEF V
<1>3. Len(more) = n + 1 /\ more[n + 1] = x /\ \A i \in 1 .. n : more[i] = ss[i]
  BY <1>1, <1>2
<1>4. PICK f : f \in [1 .. n -> Seq(D)] /\ Flattens(f, ss, n)
  <2>1. n \in 0 .. Len(ss)
    BY <1>1
  <2> QED
    BY <2>1, FlattenExists
<1>5. PICK g : g \in [1 .. n + 1 -> Seq(D)] /\ Flattens(g, more, n + 1)
  <2>1. n + 1 \in 0 .. Len(more)
    BY <1>3
  <2> QED
    BY <1>2, <2>1, FlattenExists
<1>6. Flattens(f, more, n)
  <2>1. \A i \in 1 .. n : (IF i = 1 THEN more[i] ELSE f[i - 1] \o more[i])
                           = IF i = 1 THEN ss[i] ELSE f[i - 1] \o ss[i]
    BY <1>3
  <2> QED
    BY <1>4, <2>1 DEF Flattens
<1>7. \A i \in 1 .. n : g[i] = f[i]
  BY <1>5, <1>6, FlattenPrefix
<1>8. L!Check!FlattenSeq(ss) = IF n = 0 THEN << >> ELSE f[n]
  BY <1>1, <1>4, FlattenIs
<1>9. L!Check!FlattenSeq(more) = g[n + 1]
  <2>1. L!Check!FlattenSeq(more) = IF n + 1 = 0 THEN << >> ELSE g[n + 1]
    BY <1>2, <1>3, <1>5, FlattenIs
  <2> QED
    BY <2>1
<1>10. g[n + 1] = IF n = 0 THEN x ELSE g[n] \o x
  <2>1. n + 1 \in 1 .. n + 1 /\ (n + 1 = 1 <=> n = 0) /\ (n + 1) - 1 = n
    OBVIOUS
  <2>2. g[n + 1] = IF n + 1 = 1 THEN more[n + 1] ELSE g[(n + 1) - 1] \o more[n + 1]
    BY <1>5, <2>1 DEF Flattens
  <2> QED
    BY <1>3, <2>1, <2>2
<1>11. CASE n = 0
  <2>1. << >> \in Seq(D) /\ << >> \o x = x
    OBVIOUS
  <2> QED
    BY <1>2, <1>8, <1>9, <1>10, <1>11, <2>1
<1>12. CASE n # 0
  <2>1. n \in 1 .. n
    BY <1>12
  <2> QED
    BY <1>2, <1>4, <1>7, <1>8, <1>9, <1>10, <1>12, <2>1
<1> QED
  BY <1>11, <1>12

-----------------------------------------------------------------------------
(* The command line.                                                       *)

Words == DOMAIN NumberOf

\* rivid ulid or rivid uuidv7, and not their help.
Generating == L!cmd \in {"ulid", "uuidv7"} /\ ~L!AsksHelp

Rising(ids) == \A i, j \in 1 .. Len(ids) : i < j => ids[i] < ids[j]

CliInv ==
  /\ argv \in Seq(Words)
  /\ pc = "load" \/ pc = "run" => made = << >>
  /\ pc = "check" => ~Generating
  /\ pc = "make" \/ pc = "emit" =>
       Generating /\ count = L!argNum("--count", 1) /\ count # L!Refused
  /\ pc = "make" => made \in Seq(Ids) /\ Rising(made)
  /\ pc = "emit" =>
       /\ made \in Seq(Ids) /\ Len(made) = count /\ L!IsInjective(made)
       /\ L!Monotonic => Rising(made)
  /\ L!IdsAsAsked

(* A nonempty set of numbers has a least one.                              *)
LEMMA Least ==
  ASSUME NEW S \in SUBSET Nat, S # {} PROVE L!Min(S) \in S /\ \A x \in S : L!Min(S) <= x
<1>1. PICK m \in S : \A c \in S : ~(c < m)
  <2>1. \E x \in S : \A y \in S : ~(<< y, x >> \in OpToRel(<, Nat))
    BY NatLessThanWellFounded, WFMin
  <2> QED
    BY <2>1 DEF OpToRel
<1>2. \A x \in S : m <= x
  BY <1>1
<1> QED
  BY <1>2 DEF L!Min

LEMMA RestOfWords == ASSUME argv \in Seq(Words) PROVE L!rest \in Seq(Words)
  BY DEF L!rest

(* argNum reads the word after the first --count.                          *)
LEMMA CountIsAskedFor ==
  ASSUME argv \in Seq(Words), L!argNum("--count", 1) # L!Refused
  PROVE  L!argNum("--count", 1) \in Nat /\ L!AskedFor(L!argNum("--count", 1))
<1>1. PICK r \in Seq(Words) : r = L!rest
  BY RestOfWords
<1>2. CASE ~L!includes("--count")
  BY <1>2 DEF L!argNum, L!AskedFor
<1>3. CASE L!includes("--count")
  <2> DEFINE I == { i \in 1 .. Len(r) : r[i] = "--count" }
             first == L!Min(I)
  <2>1. I \in SUBSET Nat /\ I # {}
    BY <1>1, <1>3 DEF L!includes, L!ToSet
  <2>2. /\ first \in 1 .. Len(r) /\ r[first] = "--count"
        /\ \A j \in 1 .. first - 1 : r[j] # "--count"
    <3>1. first \in I /\ \A x \in I : first <= x
      BY <2>1, Least
    <3> HIDE DEF first
    <3>2. first \in 1 .. Len(r) /\ r[first] = "--count"
      BY <3>1
    <3>3. ASSUME NEW j \in 1 .. first - 1 PROVE r[j] # "--count"
      <4>1. j \in 1 .. Len(r) /\ ~(first <= j)
        BY <3>2
      <4> QED
        BY <3>1, <4>1
    <3> QED
      BY <3>2, <3>3
  <2>3. L!SelectInSeq(L!rest, LAMBDA w : w = "--count") = first
    BY <1>1, <2>1 DEF L!SelectInSeq
  <2> HIDE DEF I, first
  <2> DEFINE v == IF first + 1 > Len(r) THEN -1 ELSE NumberOf[r[first + 1]]
  <2>4. L!argNum("--count", 1) = IF v < 0 \/ v > MAX_COUNT THEN L!Refused ELSE v
    BY <1>1, <1>3, <2>3 DEF L!argNum
  <2>5. ~(v < 0) /\ L!argNum("--count", 1) = v
    BY <2>4
  <2>6. first + 1 <= Len(r) /\ v = NumberOf[r[first + 1]]
    BY <2>2, <2>5
  <2>7. v \in Int
    <3>1. \A w \in Words : NumberOf[w] \in Int
      BY ApplicationsAssumption DEF L!CliAssumption, Words
    <3>2. r[first + 1] \in Words
      BY <2>2, <2>6
    <3> QED
      BY <2>6, <3>1, <3>2
  <2>8. v \in Nat
    BY <2>5, <2>7
  <2>9. \E i \in 1 .. Len(r) - 1 :
          r[i] = "--count" /\ NumberOf[r[i + 1]] = v /\ \A j \in 1 .. i - 1 : r[j] # "--count"
    BY <2>2, <2>6
  <2> QED
    BY <1>1, <1>3, <2>5, <2>8, <2>9 DEF L!AskedFor
<1> QED
  BY <1>2, <1>3

(* Counted from the arguments, one identifier is what --count says, too.   *)
LEMMA SingleIsOne ==
  ASSUME L!Single, count = L!argNum("--count", 1) PROVE count = 1
  BY DEF L!Single, L!argNum

LEMMA RisingIsInjective ==
  ASSUME NEW ids \in Seq(Ids), Rising(ids) PROVE L!IsInjective(ids)
<1>1. Ids \subseteq Int
  BY ApplicationsAssumption DEF L!CliAssumption
<1>2. ASSUME NEW i \in DOMAIN ids, NEW j \in DOMAIN ids, ids[i] = ids[j] PROVE i = j
  <2>1. i \in 1 .. Len(ids) /\ j \in 1 .. Len(ids) /\ ids[i] \in Ids /\ ids[j] \in Ids
    BY ElementOfSeq
  <2>2. ids[i] \in Int /\ ids[j] \in Int
    BY <1>1, <2>1
  <2> QED
    BY <1>2, <2>1, <2>2 DEF Rising
<1> QED
  BY <1>2 DEF L!IsInjective

LEMMA InitCliInv == L!Init => CliInv
<1> SUFFICES ASSUME L!Init PROVE CliInv
  OBVIOUS
<1>1. argv \in Seq(Words) /\ pc = "load" /\ made = << >>
  BY ApplicationsAssumption DEF L!Init, L!CliAssumption, Words
<1> QED
  BY <1>1 DEF CliInv, L!IdsAsAsked

\* The arguments do not change, and nor does what they say.
LEMMA SameWords ==
  ASSUME argv' = argv
  PROVE  /\ L!cmd' = L!cmd
         /\ Generating' <=> Generating
         /\ L!Monotonic' <=> L!Monotonic
         /\ L!argNum("--count", 1)' = L!argNum("--count", 1)
         /\ \A n : L!AskedFor(n)' <=> L!AskedFor(n)
  BY DEF L!cmd, L!rest, Generating, L!AsksHelp, L!includes, L!ToSet, L!Monotonic, L!argNum,
         L!SelectInSeq, L!Min, L!Refused, L!AskedFor

LEMMA FailsInvariant ==
  ASSUME CliInv, argv' = argv, pc' = "exited", out' = << >>, code' # 0 PROVE CliInv'
<1>1. L!IdsShown' = << >>
  BY DEF L!IdsShown
<1> QED
  BY <1>1 DEF CliInv, L!IdsAsAsked

LEMMA OthersInvariant ==
  ASSUME CliInv, ~Generating, argv' = argv, pc' \in {"check", "exited"} PROVE CliInv'
<1>1. ~Generating'
  BY SameWords
<1> QED
  BY <1>1 DEF CliInv, L!IdsAsAsked, Generating

LEMMA MonotonicUlidInvariant ==
  ASSUME CliInv, L!MonotonicUlid PROVE CliInv'
<1>1. pc = "make" /\ UNCHANGED << argv, pc, count, out, code >>
  BY DEF L!MonotonicUlid
<1>2. PICK id \in Ids : (\A i \in 1 .. Len(made) : made[i] < id) /\ made' = Append(made, id)
  BY DEF L!MonotonicUlid, L!Stream!Next, L!Stream!Issue
<1>3. made \in Seq(Ids) /\ Rising(made) /\ Ids \subseteq Int
  BY <1>1, ApplicationsAssumption DEF CliInv, L!CliAssumption
<1>4. /\ made' \in Seq(Ids) /\ Len(made') = Len(made) + 1 /\ Len(made) \in Nat
      /\ made'[Len(made) + 1] = id
      /\ \A i \in 1 .. Len(made) : made'[i] = made[i]
  BY <1>2, <1>3
<1>5. Rising(made)'
  <2> SUFFICES ASSUME NEW i \in 1 .. Len(made'), NEW j \in 1 .. Len(made'), i < j
               PROVE  made'[i] < made'[j]
    BY DEF Rising
  <2>1. i \in 1 .. Len(made) /\ made'[i] = made[i]
    BY <1>4
  <2>2. CASE j = Len(made) + 1
    BY <1>2, <1>4, <2>1, <2>2
  <2>3. CASE j # Len(made) + 1
    <3>1. j \in 1 .. Len(made) /\ made'[j] = made[j]
      BY <1>4, <2>3
    <3> QED
      BY <1>3, <2>1, <3>1 DEF Rising
  <2> QED
    BY <2>2, <2>3
<1>6. Generating' /\ count' = L!argNum("--count", 1)' /\ count' # L!Refused'
  BY <1>1, SameWords DEF CliInv, L!Refused
<1> QED
  BY <1>1, <1>4, <1>5, <1>6 DEF CliInv, L!IdsAsAsked

LEMMA GenerateInvariant ==
  ASSUME CliInv, L!Generate PROVE CliInv'
<1>1. pc = "make" /\ pc' = "emit" /\ UNCHANGED << argv, count, out, code >>
  BY DEF L!Generate, L!Goto
<1>2. Generating' /\ count' = L!argNum("--count", 1)' /\ count' # L!Refused'
  BY <1>1, SameWords DEF CliInv, L!Refused
<1>3. count \in Nat
  BY <1>1, CountIsAskedFor DEF CliInv
<1>4. made' \in Seq(Ids) /\ Len(made') = count /\ L!IsInjective(made')
      /\ (L!Monotonic => Rising(made'))
  <2>1. CASE L!Monotonic
    <3>1. made' = made /\ Len(made) = count /\ made \in Seq(Ids) /\ Rising(made)
      BY <1>1, <2>1 DEF L!Generate, CliInv
    <3> QED
      BY <3>1, RisingIsInjective
  <2>2. CASE ~L!Monotonic
    <3>1. made' \in L!Injection(1 .. (IF L!Single THEN 1 ELSE count), Ids)
      BY <2>2 DEF L!Generate
    <3>2. (IF L!Single THEN 1 ELSE count) = count
      BY <1>1, SingleIsOne DEF CliInv
    <3>3. made' \in [1 .. count -> Ids] /\ L!IsInjective(made')
      BY <3>1, <3>2 DEF L!Injection
    <3>4. made' \in Seq(Ids) /\ Len(made') = count
      BY <1>3, <3>3
    <3> QED
      BY <2>2, <3>3, <3>4
  <2> QED
    BY <2>1, <2>2
<1>5. L!IsInjective(made)' /\ (L!Monotonic' => Rising(made)')
  BY <1>1, <1>4, SameWords DEF L!IsInjective, Rising
<1> QED
  BY <1>1, <1>2, <1>4, <1>5 DEF CliInv, L!IdsAsAsked

LEMMA EmitInvariant ==
  ASSUME CliInv, L!emit PROVE CliInv'
<1>1. /\ pc = "emit" /\ made \in Seq(Ids) /\ Len(made) \in Nat /\ Len(made) = count /\ MAX_JSON \in Nat
      /\ L!IsInjective(made) /\ (L!Monotonic => Rising(made)) /\ L!AskedFor(count)
  BY CountIsAskedFor, ApplicationsAssumption DEF L!emit, CliInv, L!CliAssumption
<1>2. CASE L!AsJson /\ Len(made) > MAX_JSON
  <2>1. L!Exit(1, << >>, << "uncaught" >>)
    BY <1>1, <1>2 DEF L!emit
  <2> QED
    BY <2>1, FailsInvariant DEF L!Exit
<1>3. CASE ~(L!AsJson /\ Len(made) > MAX_JSON)
  <2>1. \/ L!Exit(0, << L!Shown("json", made) >>, << >>)
        \/ L!Exit(0, L!Lines(made), << >>)
    BY <1>1, <1>3 DEF L!emit
  <2>2. pc' = "exited" /\ code' = 0 /\ argv' = argv
    BY <2>1 DEF L!Exit
  <2>3. L!IdsShown' = made
    <3>1. CASE out' = << L!Shown("json", made) >>
      BY <3>1 DEF L!IdsShown, L!Shown
    <3>2. CASE out' = L!Lines(made)
      <4>1. /\ Len(out') = Len(made)
            /\ \A i \in 1 .. Len(made) : out'[i] = [form |-> "line", tells |-> made[i]]
        BY <1>1, <3>2 DEF L!Lines, L!Shown
      <4>2. ASSUME Len(out') = 1 PROVE out'[1].form = "line"
        <5>1. 1 \in 1 .. Len(made)
          BY <4>1, <4>2
        <5>2. out'[1] = [form |-> "line", tells |-> made[1]]
          BY <4>1, <5>1
        <5> QED
          BY <5>2
      <4>3. ASSUME NEW i \in 1 .. Len(made) PROVE out'[i].tells = made[i]
        <5>1. out'[i] = [form |-> "line", tells |-> made[i]]
          BY <4>1
        <5> QED
          BY <5>1
      <4>4. L!IdsShown' = [i \in 1 .. Len(out') |-> out'[i].tells]
        BY <4>2 DEF L!IdsShown
      <4>5. L!IdsShown' = [i \in 1 .. Len(made) |-> made[i]]
        BY <4>1, <4>3, <4>4
      <4> QED
        BY <1>1, <4>5
    <3> QED
      BY <2>1, <3>1, <3>2 DEF L!Exit
  <2>4. L!AskedFor(count)'
    BY <1>1, <2>1, <2>2, SameWords DEF L!Exit
  <2>5. L!IdsAsAsked'
    <3>1. L!AskedFor(Len(L!IdsShown))'
      BY <1>1, <2>2, <2>3, SameWords
    <3>2. L!IsInjective(L!IdsShown)'
      BY <1>1, <2>3 DEF L!IsInjective
    <3>3. L!Monotonic' =>
            \A i, j \in 1 .. Len(L!IdsShown') : i < j => L!IdsShown'[i] < L!IdsShown'[j]
      BY <1>1, <2>2, <2>3, SameWords DEF Rising
    <3> QED
      BY <2>2, <3>1, <3>2, <3>3 DEF L!IdsAsAsked
  <2> QED
    BY <2>2, <2>5 DEF CliInv
<1> QED
  BY <1>2, <1>3

LEMMA NextCliInv ==
  ASSUME CliInv, [L!Next]_(L!vars) PROVE CliInv'
<1>1. CASE UNCHANGED << argv, pc, count, made, out, code >>
  <2>1. L!IdsAsAsked'
    <3>1. L!IdsShown' = L!IdsShown
      BY <1>1 DEF L!IdsShown
    <3>2. L!AskedFor(Len(L!IdsShown))' <=> L!AskedFor(Len(L!IdsShown))
      BY <1>1, <3>1, SameWords
    <3>3. L!IsInjective(L!IdsShown)' <=> L!IsInjective(L!IdsShown)
      BY <3>1 DEF L!IsInjective
    <3>4. L!cmd' = L!cmd /\ (L!AsksHelp' <=> L!AsksHelp) /\ (L!Monotonic' <=> L!Monotonic)
      BY <1>1, SameWords DEF L!AsksHelp, L!includes, L!ToSet, L!rest
    <3> QED
      BY <1>1, <3>1, <3>2, <3>3, <3>4 DEF CliInv, L!IdsAsAsked
  <2>2. pc' = "make" \/ pc' = "emit" =>
          Generating' /\ count' = L!argNum("--count", 1)' /\ count' # L!Refused'
    BY <1>1, SameWords DEF CliInv, L!Refused
  <2>3. pc' = "check" => ~Generating'
    BY <1>1, SameWords DEF CliInv
  <2>4. pc' = "make" => made' \in Seq(Ids) /\ Rising(made)'
    BY <1>1 DEF CliInv, Rising
  <2>5. pc' = "emit" => /\ made' \in Seq(Ids) /\ Len(made') = count' /\ L!IsInjective(made)'
                        /\ L!Monotonic' => Rising(made)'
    BY <1>1, SameWords DEF CliInv, Rising, L!IsInjective
  <2> QED
    BY <1>1, <2>1, <2>2, <2>3, <2>4, <2>5 DEF CliInv
<1>2. CASE L!load
  <2>1. CASE L!Goto("run") /\ UNCHANGED << count, made >>
    <3>1. pc = "load" /\ pc' = "run" /\ argv' = argv /\ made' = made
      BY <1>2, <2>1 DEF L!load, L!Goto
    <3>2. made' = << >> /\ argv' \in Seq(Words)
      BY <3>1 DEF CliInv
    <3> QED
      BY <3>1, <3>2 DEF CliInv, L!IdsAsAsked
  <2>2. ASSUME NEW es, L!Exit(1, << >>, es) PROVE CliInv'
    BY <2>2, FailsInvariant DEF L!Exit
  <2> QED
    BY <1>2, <2>1, <2>2 DEF L!load
<1>3. CASE L!Help
  BY <1>3, OthersInvariant DEF L!Help, L!Exit, Generating
<1>4. CASE L!ParseCount
  <2> DEFINE n == L!argNum("--count", 1)
  <2>1. Generating /\ pc = "run"
    BY <1>4 DEF L!ParseCount, L!Generates, L!Runs, Generating
  <2> HIDE DEF n
  <2>2. CASE n = L!Refused /\ L!Exit(1, << >>, << "--count" >>)
    BY <2>2, FailsInvariant DEF L!Exit
  <2>3. CASE n # L!Refused /\ count' = n /\ L!Goto("make") /\ UNCHANGED made
    <3>1. /\ Generating' /\ count' = L!argNum("--count", 1)' /\ count' # L!Refused'
          /\ pc' = "make" /\ argv' = argv
      BY <2>1, <2>3, SameWords DEF L!Goto, L!Refused, n
    <3>2. made' = << >>
      BY <2>1, <2>3 DEF CliInv
    <3>3. made' \in Seq(Ids) /\ Rising(made)'
      BY <3>2 DEF Rising
    <3> QED
      BY <3>1, <3>3 DEF CliInv, L!IdsAsAsked
  <2> QED
    BY <1>4, <2>2, <2>3 DEF L!ParseCount, n
<1>5. CASE L!CoreFails
  BY <1>5, FailsInvariant DEF L!CoreFails, L!Exit
<1>6. CASE L!check
  <2>1. CASE L!Runs("check") /\ L!Goto("check")
    BY <2>1, OthersInvariant DEF L!Runs, L!Goto, Generating
  <2>2. CASE UNCHANGED << argv, pc, count, made, out, err, code >>
    BY <1>1, <2>2
  <2>3. CASE pc = "check" /\ L!Exit(exit, printed, << >>)
    BY <2>3, OthersInvariant DEF L!Exit, CliInv
  <2> QED
    BY <1>6, <2>1, <2>2, <2>3 DEF L!check
<1>7. CASE L!bytes16 \/ L!decode \/ L!validate \/ L!benchmark \/ L!version \/ L!help \/ L!Unknown
  <2>1. ~Generating
    BY <1>7 DEF L!bytes16, L!decode, L!validate, L!benchmark, L!version, L!help, L!Unknown,
                L!Runs, L!Known, L!Documented, Generating
  <2>2. pc' = "exited" /\ argv' = argv
    <3>1. CASE L!bytes16
      BY <3>1 DEF L!bytes16, L!Exit
    <3>2. CASE L!decode
      BY <3>2 DEF L!decode, L!Exit
    <3>3. CASE L!validate
      BY <3>3 DEF L!validate, L!Exit
    <3>4. CASE L!benchmark
      BY <3>4 DEF L!benchmark, L!Exit
    <3>5. CASE L!version \/ L!help \/ L!Unknown
      BY <3>5 DEF L!version, L!help, L!Unknown, L!Exit
    <3> QED
      BY <1>7, <3>1, <3>2, <3>3, <3>4, <3>5
  <2> QED
    BY <2>1, <2>2, OthersInvariant
<1>8. CASE L!Exited \/ UNCHANGED L!vars
  BY <1>1, <1>8 DEF L!Exited, L!vars
<1> QED
  BY <1>2, <1>3, <1>4, <1>5, <1>6, <1>7, <1>8, MonotonicUlidInvariant, GenerateInvariant,
     EmitInvariant DEF L!Next

(* A run of rivid ulid or uuidv7 that ends well has printed as many        *)
(* distinct identifiers as the first --count says, increasing with         *)
(* --monotonic, as lines or as one array; one that fails has printed none, *)
(* for every argument list and every point at which the core may fail      *)
(* (cli/rivid.mjs:132-155).                                                *)
THEOREM PrintsWhatIsAsked == Spec => []IdsAsAsked
<1>1. Init => (part = "cli" => CliInv)
  BY InitCliInv DEF Init
<1>2. (part = "cli" => CliInv) /\ [Next]_vars => (part = "cli" => CliInv)'
  <2> SUFFICES ASSUME part = "cli" => CliInv, [Next]_vars, part' = "cli"
               PROVE  CliInv'
    OBVIOUS
  <2>1. part = "cli" /\ [L!Next]_(L!vars)
    BY DEF Next, vars, lVars, L!vars, L!cVars
  <2> QED
    BY <2>1, NextCliInv
<1>3. (part = "cli" => CliInv) => IdsAsAsked
  BY DEF CliInv, IdsAsAsked
<1> QED
  BY <1>1, <1>2, <1>3, PTL DEF Spec

-----------------------------------------------------------------------------
(* What the command line tells.                                            *)

\* What validate and check have to tell.
Reported ==
  \/ printed = << >>
  \/ /\ exit \in {0, 1} /\ printed = L!Check!Report(found)
     /\ exit = 1 <=> \E f \in found : L!Check!Severe(f)

TellsInv ==
  /\ argv \in Seq(Words)
  /\ pc = "make" \/ pc = "emit" => Generating
  /\ pc = "check" => L!cmd = "check" /\ ~L!AsksHelp
  /\ Reported
  /\ L!ExitTells

(* bad is what a filter leaves of the arguments.                           *)
LEMMA BadIsFiltered ==
  ASSUME NEW r \in Seq(Words), r = L!rest
  PROVE  L!bad \in Seq(Words) /\ \E f : Picks(f, L!bad, r, Len(r), ValidIds)
<1> DEFINE Eq(it) == it = [s \in SUBSET (DOMAIN L!rest) |->
                           IF s = {} THEN << >>
                           ELSE IF L!rest[L!Max(s)] \in ValidIds THEN it[s \ {L!Max(s)}]
                                ELSE Append(it[s \ {L!Max(s)}], L!rest[L!Max(s)])]
           H == CHOOSE it : Eq(it)
<1>1. L!bad = H[DOMAIN L!rest]
  BY DEF L!bad, L!FoldLeft, L!MapThenFoldSet
<1>2. DOMAIN L!rest = 1 .. Len(r)
  OBVIOUS
<1>3. ASSUME NEW it PROVE Eq(it) <=> Filters(it, r, ValidIds)
  <2>1. \A s : L!Max(s) = Top(s)
    BY DEF L!Max, Top
  <2> QED
    BY <1>2, <2>1 DEF Filters, FilterStep
<1>4. \E it : Eq(it)
  <2>1. \E it : Filters(it, r, ValidIds)
    BY FilterExists
  <2> HIDE DEF Eq
  <2> QED
    BY <1>3, <2>1
<1>5. Eq(H)
  <2> HIDE DEF Eq
  <2> QED
    BY <1>4
<1> HIDE DEF Eq, H
<1>6. Filters(H, r, ValidIds)
  BY <1>3, <1>5
<1> QED
  BY <1>1, <1>2, <1>6, FilterKeepsOrder

(* validate tells the arguments that are no identifiers, and no others.    *)
LEMMA BadTells ==
  ASSUME argv \in Seq(Words)
  PROVE  /\ L!bad = << >> <=> L!ToSet(L!rest) \subseteq ValidIds
         /\ L!ToldInvalid(L!ToSet(L!bad))
<1>1. PICK r \in Seq(Words) : r = L!rest
  BY RestOfWords
<1>2. PICK b \in Seq(Words) : b = L!bad
  BY <1>1, BadIsFiltered
<1>3. PICK f : Picks(f, b, r, Len(r), ValidIds)
  BY <1>1, <1>2, BadIsFiltered
<1>4. Len(r) \in Nat /\ Len(b) \in Nat /\ (b = << >> <=> Len(b) = 0)
  OBVIOUS
<1>5. /\ f \in [1 .. Len(b) -> 1 .. Len(r)]
      /\ \A i \in 1 .. Len(b) : b[i] = r[f[i]] /\ b[i] \notin ValidIds
      /\ \A j \in 1 .. Len(r) : r[j] \notin ValidIds => \E i \in 1 .. Len(b) : f[i] = j
  BY <1>3 DEF Picks
<1>6. \A w : w \in L!ToSet(r) <=> \E j \in 1 .. Len(r) : r[j] = w
  BY DEF L!ToSet
<1>7. \A w : w \in L!ToSet(b) <=> \E i \in 1 .. Len(b) : b[i] = w
  BY DEF L!ToSet
<1>8. ASSUME NEW w \in L!ToSet(r) PROVE w \in L!ToSet(b) <=> w \notin ValidIds
  <2>1. ASSUME w \in L!ToSet(b) PROVE w \notin ValidIds
    BY <1>5, <1>7, <2>1
  <2>2. ASSUME w \notin ValidIds PROVE w \in L!ToSet(b)
    <3>1. PICK j \in 1 .. Len(r) : r[j] = w
      BY <1>6
    <3>2. PICK i \in 1 .. Len(b) : f[i] = j
      BY <1>5, <2>2, <3>1
    <3>3. b[i] = w
      BY <1>5, <3>1, <3>2
    <3> QED
      BY <1>7, <3>3
  <2> QED
    BY <2>1, <2>2
<1>9. b = << >> <=> L!ToSet(r) \subseteq ValidIds
  <2>1. CASE b = << >>
    <3>1. \A w : w \notin L!ToSet(b)
      BY <1>4, <1>7, <2>1
    <3> QED
      BY <1>8, <2>1, <3>1
  <2>2. CASE b # << >>
    <3>1. 1 \in 1 .. Len(b)
      BY <1>4, <2>2
    <3>2. b[1] = r[f[1]] /\ b[1] \notin ValidIds /\ f[1] \in 1 .. Len(r)
      BY <1>5, <3>1
    <3>3. b[1] \in L!ToSet(r)
      BY <1>6, <3>2
    <3> QED
      BY <2>2, <3>2, <3>3
  <2> QED
    BY <2>1, <2>2
<1> QED
  BY <1>1, <1>2, <1>8, <1>9 DEF L!ToldInvalid

\* The arguments do not change: what is asked, and what a report says of findings.
LEMMA SameArguments ==
  ASSUME argv' = argv
  PROVE  /\ L!cmd' = L!cmd /\ L!rest' = L!rest
         /\ L!AsksHelp' <=> L!AsksHelp
         /\ Generating' <=> Generating
         /\ \A f : L!Check!Severe(f)' <=> L!Check!Severe(f)
         /\ L!includes("--json")' <=> L!includes("--json")
  BY DEF L!cmd, L!rest, L!AsksHelp, L!includes, L!ToSet, Generating, L!Check!Severe,
         L!Check!strict, L!Check!ToSet

LEMMA SameReport ==
  ASSUME Reported, argv' = argv, UNCHANGED << exit, printed, found, github >>
  PROVE  Reported'
<1>1. L!Check!Report(found)' = L!Check!Report(found)
  BY DEF L!Check!Report, L!Check!json, L!Check!ToSet, L!Check!Printed, L!rest
<1> QED
  BY <1>1, SameArguments DEF Reported

LEMMA ExitsTelling ==
  ASSUME TellsInv, argv' = argv, UNCHANGED << exit, printed, found, github >>,
         pc' = "exited", L!ExitTells'
  PROVE  TellsInv'
  BY SameReport DEF TellsInv

(* Where nothing is promised of the exit, any will do.                     *)
LEMMA OthersTell ==
  ASSUME argv' = argv,
         \/ L!AsksHelp
         \/ L!cmd \notin {"validate", "decode", "check"}
         \/ err' = << "unloadable" >>
  PROVE  L!ExitTells'
<1>1. L!AsksHelp' \/ L!cmd' \notin {"validate", "decode", "check"} \/ err' = << "unloadable" >>
  BY SameArguments
<1> QED
  BY <1>1 DEF L!ExitTells, L!Loaded

LEMMA DecodeTells == ASSUME TellsInv, L!decode PROVE L!ExitTells'
<1>1. L!cmd = "decode" /\ argv' = argv
  BY DEF L!decode, L!Runs, L!Exit
<1>2. L!cmd' = "decode" /\ L!rest' = L!rest
  BY <1>1, SameArguments
<1>3. PICK r \in Seq(Words) : r = L!rest
  BY RestOfWords DEF TellsInv
<1>4. PICK empty : empty = ""
  OBVIOUS
<1>5. empty \notin ValidIds
  BY <1>4, ApplicationsAssumption, Zenon DEF L!CliAssumption
<1>6. \/ (r = << >> \/ Head(r) = empty) /\ code' = 1
      \/ Len(r) > 1 /\ code' = 1
      \/ /\ r # << >> /\ Head(r) # empty /\ ~(Len(r) > 1)
         /\ code' = IF Head(r) \in ValidIds THEN 0 ELSE 1
  <2>1. CASE r = << >> \/ Head(r) = ""
    BY <1>3, <1>4, <2>1, Zenon DEF L!decode, L!Exit
  <2>2. CASE r # << >> /\ Head(r) # "" /\ Len(r) > 1
    BY <1>3, <2>2, Zenon DEF L!decode, L!Exit
  <2>3. CASE r # << >> /\ Head(r) # "" /\ ~(Len(r) > 1)
    BY <1>3, <1>4, <2>3, Zenon DEF L!decode, L!Exit
  <2> QED
    BY <2>1, <2>2, <2>3, Zenon
<1>7. code' = 0 <=> Len(r) = 1 /\ Head(r) \in ValidIds
  <2>1. PICK n \in Nat : n = Len(r)
    OBVIOUS
  <2>2. r = << >> <=> n = 0
    BY <2>1
  <2>3. n > 1 => n # 1
    OBVIOUS
  <2>4. ~(n > 1) => n = 0 \/ n = 1
    OBVIOUS
  <2>5. CASE (r = << >> \/ Head(r) = empty) /\ code' = 1
    BY <1>5, <2>1, <2>2, <2>5
  <2>6. CASE Len(r) > 1 /\ code' = 1
    BY <2>1, <2>3, <2>6
  <2>7. CASE /\ r # << >> /\ Head(r) # empty /\ ~(Len(r) > 1)
             /\ code' = IF Head(r) \in ValidIds THEN 0 ELSE 1
    BY <2>1, <2>2, <2>4, <2>7
  <2> QED
    BY <1>6, <2>5, <2>6, <2>7
<1> QED
  BY <1>2, <1>3, <1>7 DEF L!ExitTells

LEMMA ValidateTells == ASSUME TellsInv, L!validate PROVE L!ExitTells'
<1>1. L!cmd = "validate" /\ argv' = argv
  <2>1. L!Runs("validate")
    BY DEF L!validate
  <2>2. \E c, os, es : L!Exit(c, os, es)
    <3>1. CASE L!rest = << >>
      BY <3>1 DEF L!validate
    <3>2. CASE L!rest # << >> /\ L!bad # << >>
      BY <3>2 DEF L!validate
    <3>3. CASE L!rest # << >> /\ L!bad = << >>
      BY <3>3 DEF L!validate
    <3> QED
      BY <3>1, <3>2, <3>3
  <2> QED
    BY <2>1, <2>2 DEF L!Runs, L!Exit
<1>2. L!cmd' = "validate" /\ L!rest' = L!rest
  BY <1>1, SameArguments
<1>3. /\ L!bad = << >> <=> L!ToSet(L!rest) \subseteq ValidIds
      /\ L!ToldInvalid(L!ToSet(L!bad))
  BY BadTells DEF TellsInv
<1>4. ASSUME L!rest # << >>
      PROVE  /\ code' = 0 <=> L!ToSet(L!rest) \subseteq ValidIds
             /\ err' = L!bad
  <2>1. CASE L!bad # << >>
    <3>1. L!Exit(1, << >>, L!bad)
      BY <1>4, <2>1 DEF L!validate
    <3> QED
      BY <1>3, <2>1, <3>1 DEF L!Exit
  <2>2. CASE L!bad = << >>
    <3>1. L!Exit(0, << L!Shown("valid", Len(L!rest)) >>, << >>)
      BY <1>4, <2>2 DEF L!validate
    <3> QED
      BY <1>3, <2>2, <3>1 DEF L!Exit
  <2> QED
    BY <2>1, <2>2
<1>5. ASSUME L!rest # << >>
      PROVE  /\ code' = 0 <=> L!ToSet(L!rest)' \subseteq ValidIds
             /\ L!ToldInvalid(L!ToSet(err))'
  <2>1. L!ToSet(L!rest)' = L!ToSet(L!rest) /\ L!ToSet(err)' = L!ToSet(L!bad)
    BY <1>2, <1>4, <1>5 DEF L!ToSet
  <2> QED
    BY <1>3, <1>4, <1>5, <2>1 DEF L!ToldInvalid
<1> QED
  BY <1>2, <1>5 DEF L!ExitTells

LEMMA CheckTells == ASSUME TellsInv, pc = "check", L!Exit(exit, printed, << >>) PROVE L!ExitTells'
<1>1. L!cmd = "check" /\ argv' = argv /\ code' = exit /\ out' = printed
  BY DEF TellsInv, L!Exit
<1>2. CASE printed = << >>
  BY <1>1, <1>2, SameArguments DEF L!ExitTells
<1>3. CASE /\ exit \in {0, 1} /\ printed = L!Check!Report(found)
           /\ exit = 1 <=> \E f \in found : L!Check!Severe(f)
  <2>1. L!includes("--json") <=> L!Check!json
    BY DEF L!includes, L!ToSet, L!Check!json, L!Check!ToSet
  <2>2. /\ Head(out').tells = found
        /\ L!includes("--json") <=> Head(out').form = "json"
        /\ L!includes("--json") => Len(out') = 1
    <3>1. CASE L!Check!json
      <4>1. out' = << [form |-> "json", tells |-> found] >>
        BY <1>1, <1>3, <3>1 DEF L!Check!Report, L!Check!Printed
      <4>2. Head(out') = [form |-> "json", tells |-> found] /\ Len(out') = 1
        BY <4>1
      <4> QED
        BY <2>1, <3>1, <4>2
    <3>2. CASE ~L!Check!json
      <4>1. Head(out') = [form |-> "text", tells |-> found]
        BY <1>1, <1>3, <3>2 DEF L!Check!Report, L!Check!Printed
      <4> QED
        BY <2>1, <3>2, <4>1
    <3> QED
      BY <3>1, <3>2
  <2>3. code' = 1 <=> \E f \in Head(out').tells : L!Check!Severe(f)'
    BY <1>1, <1>3, <2>2, SameArguments
  <2>4. L!includes("--json")' <=> L!includes("--json")
    BY <1>1, SameArguments
  <2>5. L!cmd' = "check"
    BY <1>1, SameArguments
  <2> QED
    BY <2>2, <2>3, <2>4, <2>5 DEF L!ExitTells
<1> QED
  BY <1>2, <1>3 DEF TellsInv, Reported

LEMMA RunCheckReports ==
  ASSUME Reported, argv' = argv, L!Check!runCheck PROVE Reported'
<1>1. CASE L!Check!ExtractFile \/ L!Check!SkipFile
  BY <1>1, SameReport DEF L!Check!ExtractFile, L!Check!SkipFile, L!Check!given
<1>2. CASE L!Check!LoadPolicy
  <2>1. printed = << >> /\ printed' = printed
    BY <1>2 DEF L!Check!LoadPolicy, L!Check!Running, Reported
  <2> QED
    BY <2>1 DEF Reported
<1>3. CASE L!Check!Analyze
  <2>1. CASE L!Check!Crashes
    BY <1>3, <2>1 DEF L!Check!Analyze, L!Check!Running, Reported
  <2>2. CASE ~L!Check!Crashes
    <3>1. /\ printed' = L!Check!Report(found') /\ github' = github
          /\ exit' = IF \E f \in found' : L!Check!Severe(f) THEN 1 ELSE 0
      BY <1>3, <2>2 DEF L!Check!Analyze, L!Check!given
    <3>2. printed' = L!Check!Report(found)'
      BY <3>1 DEF L!Check!Report, L!Check!json, L!Check!ToSet, L!Check!Printed, L!rest
    <3> QED
      BY <3>1, <3>2, SameArguments DEF Reported
  <2> QED
    BY <2>1, <2>2
<1> QED
  BY <1>1, <1>2, <1>3 DEF L!Check!runCheck

LEMMA InitTellsInv == L!Init => TellsInv
<1> SUFFICES ASSUME L!Init PROVE TellsInv
  OBVIOUS
<1>1. argv \in Seq(Words) /\ pc = "load"
  BY ApplicationsAssumption DEF L!Init, L!CliAssumption, Words
<1>2. printed = << >>
  BY DEF L!Init, L!Check!Init, L!Check!NoCheck, L!Check!Unstarted
<1> QED
  BY <1>1, <1>2 DEF TellsInv, Reported, L!ExitTells

LEMMA NextTellsInv ==
  ASSUME TellsInv, [L!Next]_(L!vars) PROVE TellsInv'
<1>1. ASSUME UNCHANGED << argv, out, err, code, exit, printed, found, github >>,
             pc' = pc \/ pc' \in {"run", "make", "emit"},
             (pc' = "make" \/ pc' = "emit") /\ pc' # pc => Generating
      PROVE  TellsInv'
  <2>1. L!ExitTells'
    <3>1. ASSUME pc = "exited", pc' = pc PROVE L!ExitTells'
      <4>1. /\ L!ToSet(L!rest)' = L!ToSet(L!rest)
            /\ L!ToldInvalid(L!ToSet(err))' <=> L!ToldInvalid(L!ToSet(err))
        BY <1>1, SameArguments DEF L!ToSet, L!ToldInvalid
      <4> QED
        BY <1>1, <3>1, <4>1, SameArguments DEF TellsInv, L!ExitTells, L!Loaded
    <3>2. ASSUME pc' # "exited" PROVE L!ExitTells'
      BY <3>2 DEF L!ExitTells
    <3> QED
      BY <1>1, <3>1, <3>2
  <2>2. pc' = "make" \/ pc' = "emit" => Generating'
    BY <1>1, SameArguments DEF TellsInv
  <2>3. pc' = "check" => L!cmd' = "check" /\ ~L!AsksHelp'
    BY <1>1, SameArguments DEF TellsInv
  <2> QED
    BY <1>1, <2>1, <2>2, <2>3, SameReport DEF TellsInv
<1>2. ASSUME NEW c, NEW os, NEW es, L!Exit(c, os, es),
             \/ L!AsksHelp
             \/ L!cmd \notin {"validate", "decode", "check"}
             \/ es = << "unloadable" >>
      PROVE  TellsInv'
  BY <1>2, ExitsTelling, OthersTell DEF L!Exit, L!cVars
<1>3. CASE L!load
  <2>1. CASE L!Goto("run") /\ UNCHANGED L!cVars
    BY <1>1, <2>1 DEF L!Goto, L!cVars
  <2>2. CASE L!Exit(1, << >>, << "unloadable" >>)
    BY <1>2, <2>2
  <2> QED
    BY <1>3, <2>1, <2>2 DEF L!load
<1>4. CASE L!Help
  BY <1>2, <1>4 DEF L!Help
<1>5. CASE L!ParseCount
  <2>1. Generating
    BY <1>5 DEF L!ParseCount, L!Generates, L!Runs, Generating
  <2>2. CASE L!Exit(1, << >>, << "--count" >>)
    BY <1>2, <2>1, <2>2 DEF Generating
  <2>3. CASE L!Goto("make") /\ UNCHANGED L!cVars
    BY <1>1, <2>1, <2>3 DEF L!Goto, L!cVars
  <2> QED
    BY <1>5, <2>2, <2>3 DEF L!ParseCount
<1>6. CASE L!MonotonicUlid
  BY <1>1, <1>6 DEF L!MonotonicUlid, L!cVars
<1>7. CASE L!Generate
  BY <1>1, <1>7 DEF L!Generate, L!Goto, L!cVars, TellsInv
<1>8. CASE L!CoreFails
  BY <1>2, <1>8 DEF L!CoreFails, TellsInv, Generating
<1>9. CASE L!emit
  <2>1. Generating
    BY <1>9 DEF L!emit, TellsInv
  <2>2. \E c, os, es : L!Exit(c, os, es)
    <3>1. CASE L!AsJson /\ Len(made) > MAX_JSON
      BY <1>9, <3>1 DEF L!emit
    <3>2. CASE L!AsJson /\ ~(Len(made) > MAX_JSON)
      BY <1>9, <3>2 DEF L!emit
    <3>3. CASE ~L!AsJson
      BY <1>9, <3>3 DEF L!emit
    <3> QED
      BY <3>1, <3>2, <3>3
  <2> QED
    BY <1>2, <2>1, <2>2 DEF Generating
<1>10. CASE L!bytes16 \/ L!benchmark \/ L!version \/ L!help \/ L!Unknown
  <2>1. L!cmd \notin {"validate", "decode", "check"}
    BY <1>10 DEF L!bytes16, L!benchmark, L!version, L!help, L!Unknown, L!Runs, L!Known, L!Documented
  <2> QED
    BY <1>2, <1>10, <2>1 DEF L!bytes16, L!benchmark, L!version, L!help, L!Unknown
<1>11. CASE L!decode
  <2>1. pc' = "exited" /\ argv' = argv /\ UNCHANGED << exit, printed, found, github >>
    BY <1>11 DEF L!decode, L!Exit, L!cVars
  <2> QED
    BY <1>11, <2>1, DecodeTells, ExitsTelling
<1>12. CASE L!validate
  <2>1. pc' = "exited" /\ argv' = argv /\ UNCHANGED << exit, printed, found, github >>
    <3>1. CASE L!rest = << >>
      BY <1>12, <3>1 DEF L!validate, L!Exit, L!cVars
    <3>2. CASE L!rest # << >> /\ L!bad # << >>
      BY <1>12, <3>2 DEF L!validate, L!Exit, L!cVars
    <3>3. CASE L!rest # << >> /\ L!bad = << >>
      BY <1>12, <3>3 DEF L!validate, L!Exit, L!cVars
    <3> QED
      BY <3>1, <3>2, <3>3
  <2> QED
    BY <1>12, <2>1, ValidateTells, ExitsTelling
<1>13. CASE L!check
  <2>1. CASE L!Runs("check") /\ L!Goto("check") /\ UNCHANGED L!cVars
    <3>1. L!cmd' = "check" /\ ~L!AsksHelp' /\ pc' = "check"
      BY <2>1, SameArguments DEF L!Runs, L!Goto
    <3> QED
      BY <2>1, <3>1, SameReport DEF TellsInv, L!ExitTells, L!Goto, L!cVars
  <2>2. CASE pc = "check" /\ UNCHANGED << argv, pc, count, made, out, err, code >> /\ L!Check!runCheck
    <3>1. L!cmd' = "check" /\ ~L!AsksHelp' /\ pc' = "check"
      BY <2>2, SameArguments DEF TellsInv
    <3> QED
      BY <2>2, <3>1, RunCheckReports DEF TellsInv, L!ExitTells
  <2>3. CASE pc = "check" /\ L!Exit(exit, printed, << >>)
    BY <2>3, CheckTells, ExitsTelling DEF L!Exit, L!cVars
  <2> QED
    BY <1>13, <2>1, <2>2, <2>3 DEF L!check
<1>14. CASE L!Exited \/ UNCHANGED L!vars
  BY <1>1, <1>14 DEF L!Exited, L!vars, L!cVars
<1> QED
  BY <1>3, <1>4, <1>5, <1>6, <1>7, <1>8, <1>9, <1>10, <1>11, <1>12, <1>13, <1>14 DEF L!Next

(* rivid validate and decode end with 0 if and only if every argument is   *)
(* an identifier, validate names each that is not and no other, and the    *)
(* exit code of rivid check is the one its report stands for, in whatever  *)
(* form it is printed (cli/rivid.mjs:179-200, cli/check.mjs:23-24).        *)
THEOREM ExitTellsTheResult == Spec => []ExitTells
<1>1. Init => (part = "cli" => TellsInv)
  BY InitTellsInv DEF Init
<1>2. (part = "cli" => TellsInv) /\ [Next]_vars => (part = "cli" => TellsInv)'
  <2> SUFFICES ASSUME part = "cli" => TellsInv, [Next]_vars, part' = "cli"
               PROVE  TellsInv'
    OBVIOUS
  <2>1. part = "cli" /\ [L!Next]_(L!vars)
    BY DEF Next, vars, lVars, L!vars, L!cVars
  <2> QED
    BY <2>1, NextTellsInv
<1>3. (part = "cli" => TellsInv) => ExitTells
  BY DEF TellsInv, ExitTells
<1> QED
  BY <1>1, <1>2, <1>3, PTL DEF Spec

-----------------------------------------------------------------------------
(* The schema check: what analyze finds.                                   *)

SchemaFiles == UNION { L!Check!ToSet(t) : t \in Trees }
Columns     == UNION { L!Check!ToSet(L!Check!Extracted(file)) : file \in SchemaFiles }

\* r is what remains of the columns cs without those the policy p allows, and
\* f their positions in cs.
Remains(f, r, cs, p) ==
  /\ f \in [1 .. Len(r) -> 1 .. Len(cs)]
  /\ \A i \in 1 .. Len(r) : r[i] = cs[f[i]] /\ ~L!Check!allowed(r[i], p)
  /\ \A i, j \in 1 .. Len(r) : i < j => f[i] < f[j]
  /\ \A j \in 1 .. Len(cs) : ~L!Check!allowed(cs[j], p) => \E i \in 1 .. Len(r) : f[i] = j

LEMMA ReportableRemains ==
  ASSUME NEW cs \in Seq(Columns), NEW p
  PROVE  /\ L!Check!Reportable(cs, p) \in Seq(Columns)
         /\ \E f : Remains(f, L!Check!Reportable(cs, p), cs, p)
<1> DEFINE Good  == { c \in Columns : L!Check!allowed(c, p) }
           Eq(it) == it = [s \in SUBSET (DOMAIN cs) |->
                           IF s = {} THEN << >>
                           ELSE IF L!Check!allowed(cs[L!Check!Max(s)], p) THEN it[s \ {L!Check!Max(s)}]
                                ELSE Append(it[s \ {L!Check!Max(s)}], cs[L!Check!Max(s)])]
           H == CHOOSE it : Eq(it)
           r == L!Check!Reportable(cs, p)
<1>1. r = H[DOMAIN cs]
  BY DEF L!Check!Reportable, L!Check!FoldLeft, L!Check!MapThenFoldSet
<1>2. DOMAIN cs = 1 .. Len(cs) /\ Len(cs) \in Nat
  OBVIOUS
<1>3. ASSUME NEW it PROVE Eq(it) <=> Filters(it, cs, Good)
  <2>1. \A s : L!Check!Max(s) = Top(s)
    BY DEF L!Check!Max, Top
  <2>2. ASSUME NEW s \in SUBSET (1 .. Len(cs)), s # {}
        PROVE  L!Check!allowed(cs[Top(s)], p) <=> cs[Top(s)] \in Good
    <3>1. Top(s) \in 1 .. Len(cs)
      BY <1>2, <2>2, TopIsIn
    <3>2. cs[Top(s)] \in Columns
      BY <3>1
    <3> QED
      BY <3>2
  <2> HIDE DEF Good
  <2>3. ASSUME NEW s \in SUBSET (1 .. Len(cs))
        PROVE  (IF s = {} THEN << >>
                ELSE IF L!Check!allowed(cs[Top(s)], p) THEN it[s \ {Top(s)}]
                     ELSE Append(it[s \ {Top(s)}], cs[Top(s)]))
               = IF s = {} THEN << >> ELSE FilterStep(it, cs, Good, s)
    BY <2>2 DEF FilterStep
  <2>4. Eq(it) <=> it = [s \in SUBSET (1 .. Len(cs)) |->
                         IF s = {} THEN << >>
                         ELSE IF L!Check!allowed(cs[Top(s)], p) THEN it[s \ {Top(s)}]
                              ELSE Append(it[s \ {Top(s)}], cs[Top(s)])]
    BY <1>2, <2>1
  <2> HIDE DEF Eq
  <2> QED
    BY <2>3, <2>4 DEF Filters
<1>4. Eq(H)
  <2>1. \E it : Filters(it, cs, Good)
    <3> HIDE DEF Good
    <3> QED
      BY FilterExists
  <2> HIDE DEF Eq
  <2> QED
    BY <1>3, <2>1
<1> HIDE DEF Eq, H, r
<1>5. Filters(H, cs, Good)
  BY <1>3, <1>4
<1>6. r \in Seq(Columns) /\ \E f : Picks(f, r, cs, Len(cs), Good)
  <2> HIDE DEF Good
  <2> QED
    BY <1>1, <1>2, <1>5, FilterKeepsOrder
<1>7. PICK f : Picks(f, r, cs, Len(cs), Good)
  BY <1>6
<1>8. Remains(f, r, cs, p)
  <2>1. \A i \in 1 .. Len(r) : r[i] = cs[f[i]] /\ ~L!Check!allowed(r[i], p)
    <3>1. \A i \in 1 .. Len(r) : r[i] \in Columns
      BY <1>6
    <3> QED
      BY <1>7, <3>1 DEF Picks
  <2>2. \A j \in 1 .. Len(cs) : ~L!Check!allowed(cs[j], p) => \E i \in 1 .. Len(r) : f[i] = j
    BY <1>7 DEF Picks
  <2> QED
    BY <1>7, <2>1, <2>2 DEF Picks, Remains
<1> QED
  BY <1>6, <1>8 DEF r

\* Positions are compared as before.
LEMMA RemainsInOrder ==
  ASSUME NEW r \in Seq(Columns), NEW cs \in Seq(Columns), NEW p, NEW f, Remains(f, r, cs, p)
  PROVE  /\ \A i \in 1 .. Len(r) : f[i] \in 1 .. Len(cs)
         /\ \A i, j \in 1 .. Len(r) : f[i] <= f[j] <=> i <= j
<1>1. \A i \in 1 .. Len(r) : f[i] \in 1 .. Len(cs)
  BY DEF Remains
<1>2. ASSUME NEW i \in 1 .. Len(r), NEW j \in 1 .. Len(r) PROVE f[i] <= f[j] <=> i <= j
  <2>1. i < j => f[i] < f[j]
    BY DEF Remains
  <2>2. j < i => f[j] < f[i]
    BY DEF Remains
  <2>3. f[i] \in Int /\ f[j] \in Int
    BY <1>1
  <2>4. i = j => f[i] = f[j]
    OBVIOUS
  <2> QED
    BY <2>1, <2>2, <2>3, <2>4
<1> QED
  BY <1>1, <1>2

LEMMA Rules1to3Same ==
  ASSUME NEW r \in Seq(Columns), NEW cs \in Seq(Columns), NEW p, NEW f, Remains(f, r, cs, p)
  PROVE  L!Check!Rules1to3(r, p) = L!Check!Rules1to3(cs, p)
<1>1. \A x : x \in L!Check!Rules1to3(r, p) <=>
         \E i \in 1 .. Len(r) : ~L!Check!allowed(r[i], p) /\ x \in L!Check!ColumnFindings(r[i], p)
  BY DEF L!Check!Rules1to3
<1>2. \A x : x \in L!Check!Rules1to3(cs, p) <=>
         \E j \in 1 .. Len(cs) : ~L!Check!allowed(cs[j], p) /\ x \in L!Check!ColumnFindings(cs[j], p)
  BY DEF L!Check!Rules1to3
<1>3. ASSUME NEW x \in L!Check!Rules1to3(r, p) PROVE x \in L!Check!Rules1to3(cs, p)
  <2>1. PICK i \in 1 .. Len(r) : ~L!Check!allowed(r[i], p) /\ x \in L!Check!ColumnFindings(r[i], p)
    BY <1>1
  <2>2. f[i] \in 1 .. Len(cs) /\ r[i] = cs[f[i]]
    BY DEF Remains
  <2> QED
    BY <1>2, <2>1, <2>2
<1>4. ASSUME NEW x \in L!Check!Rules1to3(cs, p) PROVE x \in L!Check!Rules1to3(r, p)
  <2>1. PICK j \in 1 .. Len(cs) : ~L!Check!allowed(cs[j], p) /\ x \in L!Check!ColumnFindings(cs[j], p)
    BY <1>2
  <2>2. PICK i \in 1 .. Len(r) : f[i] = j /\ r[i] = cs[j]
    BY <2>1 DEF Remains
  <2> QED
    BY <1>1, <2>1, <2>2
<1> QED
  BY <1>3, <1>4

(* byKey finds the last column of a name.                                  *)
LEMMA ByKeyIsLast ==
  ASSUME NEW cs \in Seq(Columns), NEW ref
  PROVE  LET at == { j \in 1 .. Len(cs) : cs[j].table = ref.table /\ cs[j].column = ref.column }
         IN  /\ at = {} => L!Check!byKey(cs, ref) = NoRef
             /\ \A j \in at : (\A k \in at : k <= j) => L!Check!byKey(cs, ref) = cs[j]
             /\ at # {} => \E j \in at : \A k \in at : k <= j
<1> DEFINE at == { j \in 1 .. Len(cs) : cs[j].table = ref.table /\ cs[j].column = ref.column }
<1>1. at = {} => L!Check!byKey(cs, ref) = NoRef
  BY DEF L!Check!byKey
<1>2. ASSUME NEW j \in at, \A k \in at : k <= j PROVE L!Check!byKey(cs, ref) = cs[j]
  <2>1. L!Check!byKey(cs, ref) = cs[CHOOSE i \in at : \A k \in at : k <= i]
    BY <1>2 DEF L!Check!byKey
  <2>2. \A i \in at : i \in Int
    OBVIOUS
  <2> HIDE DEF at
  <2>3. \A i \in at : (\A k \in at : k <= i) => i = j
    BY <1>2, <2>2
  <2>4. (CHOOSE i \in at : \A k \in at : k <= i) = j
    BY <1>2, <2>3
  <2> QED
    BY <2>1, <2>4
<1>3. ASSUME at # {} PROVE \E j \in at : \A k \in at : k <= j
  <2>1. at \in SUBSET (1 .. Len(cs)) /\ Len(cs) \in Nat
    OBVIOUS
  <2> HIDE DEF at
  <2>2. Top(at) \in at /\ \A y \in at : Top(at) >= y
    BY <1>3, <2>1, TopIsIn
  <2>3. PICK j \in at : j = Top(at)
    BY <2>2
  <2>4. \A k \in at : k <= j
    BY <2>1, <2>2, <2>3
  <2> QED
    BY <2>4
<1> QED
  BY <1>1, <1>2, <1>3

LEMMA AllowedByName ==
  ASSUME NEW c, NEW d, c.table = d.table, c.column = d.column, NEW p
  PROVE  L!Check!allowed(c, p) <=> L!Check!allowed(d, p)
  BY Zenon DEF L!Check!allowed

(* A reference finds the same column among those that remain, unless it is *)
(* an allowed one.                                                         *)
LEMMA ByKeySame ==
  ASSUME NEW r \in Seq(Columns), NEW cs \in Seq(Columns), NEW p, NEW f, Remains(f, r, cs, p), NEW ref
  PROVE  LET was == L!Check!byKey(cs, ref)
             is  == L!Check!byKey(r, ref)
         IN  \/ is = was
             \/ is = NoRef /\ L!Check!allowed(was, p)
<1> DEFINE A == { j \in 1 .. Len(cs) : cs[j].table = ref.table /\ cs[j].column = ref.column }
           R == { i \in 1 .. Len(r) : r[i].table = ref.table /\ r[i].column = ref.column }
<1>1. \A i \in 1 .. Len(r) : i \in R <=> f[i] \in A
  BY DEF Remains
<1>2. CASE A = {}
  <2>1. R = {}
    BY <1>1, <1>2
  <2>2. L!Check!byKey(r, ref) = NoRef /\ L!Check!byKey(cs, ref) = NoRef
    BY <1>2, <2>1, ByKeyIsLast
  <2> QED
    BY <2>2
<1>3. CASE A # {}
  <2>1. PICK j \in A : \A k \in A : k <= j
    BY <1>3, ByKeyIsLast
  <2>2. L!Check!byKey(cs, ref) = cs[j]
    BY <2>1, ByKeyIsLast
  <2>3. CASE L!Check!allowed(cs[j], p)
    <3>1. R = {}
      <4> SUFFICES ASSUME NEW i \in R PROVE FALSE
        OBVIOUS
      <4>1. r[i].table = cs[j].table /\ r[i].column = cs[j].column
        OBVIOUS
      <4>2. L!Check!allowed(r[i], p)
        BY <2>3, <4>1, AllowedByName
      <4> QED
        BY <4>2 DEF Remains
    <3>2. L!Check!byKey(r, ref) = NoRef
      BY <3>1, ByKeyIsLast
    <3> QED
      BY <2>2, <2>3, <3>2
  <2>4. CASE ~L!Check!allowed(cs[j], p)
    <3>1. PICK i \in 1 .. Len(r) : f[i] = j
      BY <2>4 DEF Remains
    <3>2. i \in R /\ r[i] = cs[j]
      BY <1>1, <3>1 DEF Remains
    <3>3. \A k \in R : k <= i
      <4> SUFFICES ASSUME NEW k \in R PROVE k <= i
        OBVIOUS
      <4>1. k \in 1 .. Len(r) /\ f[k] \in A
        BY <1>1
      <4>2. f[k] <= f[i]
        BY <2>1, <3>1, <4>1
      <4> HIDE DEF A, R
      <4> QED
        BY <4>1, <4>2, RemainsInOrder
    <3>4. L!Check!byKey(r, ref) = r[i]
      BY <3>2, <3>3, ByKeyIsLast
    <3> QED
      BY <2>2, <3>2, <3>4
  <2> QED
    BY <2>3, <2>4
<1> QED
  BY <1>2, <1>3

\* Column c of cs is a foreign key that rule 4 reports.
Mismatched(c, cs, p) ==
  /\ c.ref # NoRef /\ ~L!Check!allowed(c, p)
  /\ L!Check!byKey(cs, c.ref) # NoRef
  /\ ~L!Check!allowed(L!Check!byKey(cs, c.ref), p)
  /\ L!Check!byKey(cs, c.ref).rep # c.rep

LEMMA InRule4 ==
  ASSUME NEW cs, NEW p, NEW x
  PROVE  x \in L!Check!Rule4(cs, p) <=>
           \E j \in 1 .. Len(cs) :
             Mismatched(cs[j], cs, p) /\ x = L!Check!Finding("fk-mismatch", "error", cs[j])
  BY DEF L!Check!Rule4, Mismatched

LEMMA Rule4Same ==
  ASSUME NEW r \in Seq(Columns), NEW cs \in Seq(Columns), NEW p, NEW f, Remains(f, r, cs, p)
  PROVE  L!Check!Rule4(r, p) = L!Check!Rule4(cs, p)
<1>1. ASSUME NEW c PROVE Mismatched(c, r, p) <=> Mismatched(c, cs, p)
  BY ByKeySame DEF Mismatched
<1>2. ASSUME NEW j \in 1 .. Len(cs), Mismatched(cs[j], cs, p)
      PROVE  \E i \in 1 .. Len(r) : r[i] = cs[j]
  <2>1. ~L!Check!allowed(cs[j], p)
    BY <1>2 DEF Mismatched
  <2> QED
    BY <2>1 DEF Remains
<1>3. ASSUME NEW i \in 1 .. Len(r) PROVE \E j \in 1 .. Len(cs) : r[i] = cs[j]
  BY DEF Remains
<1>4. ASSUME NEW x PROVE x \in L!Check!Rule4(r, p) <=> x \in L!Check!Rule4(cs, p)
  <2>1. ASSUME x \in L!Check!Rule4(r, p) PROVE x \in L!Check!Rule4(cs, p)
    <3>1. PICK i \in 1 .. Len(r) :
            Mismatched(r[i], r, p) /\ x = L!Check!Finding("fk-mismatch", "error", r[i])
      BY <2>1, InRule4
    <3>2. PICK j \in 1 .. Len(cs) : r[i] = cs[j]
      BY <1>3
    <3>3. Mismatched(cs[j], cs, p) /\ x = L!Check!Finding("fk-mismatch", "error", cs[j])
      BY <1>1, <3>1, <3>2
    <3> QED
      BY <3>3, InRule4
  <2>2. ASSUME x \in L!Check!Rule4(cs, p) PROVE x \in L!Check!Rule4(r, p)
    <3>1. PICK j \in 1 .. Len(cs) :
            Mismatched(cs[j], cs, p) /\ x = L!Check!Finding("fk-mismatch", "error", cs[j])
      BY <2>2, InRule4
    <3>2. PICK i \in 1 .. Len(r) : r[i] = cs[j]
      BY <1>2, <3>1
    <3>3. Mismatched(r[i], r, p) /\ x = L!Check!Finding("fk-mismatch", "error", r[i])
      BY <1>1, <3>1, <3>2
    <3> QED
      BY <3>3, InRule4
  <2> QED
    BY <2>1, <2>2
<1> QED
  BY <1>4

\* The positions of the key columns that decide for their tables.
LastKeys(cs, p) ==
  { j \in L!Check!DriftKeys(cs, p) :
      \A k \in L!Check!DriftKeys(cs, p) : cs[k].table = cs[j].table => k <= j }

LEMMA Rule5Same ==
  ASSUME NEW r \in Seq(Columns), NEW cs \in Seq(Columns), NEW p, NEW f, Remains(f, r, cs, p)
  PROVE  L!Check!Rule5(r, p) = L!Check!Rule5(cs, p)
<1> DEFINE R == L!Check!DriftKeys(r, p)
           C == L!Check!DriftKeys(cs, p)
<1>1. ASSUME NEW i \in 1 .. Len(r)
      PROVE  /\ f[i] \in 1 .. Len(cs) /\ r[i] = cs[f[i]]
             /\ i \in R <=> f[i] \in C
  BY DEF Remains, L!Check!DriftKeys
<1>2. ASSUME NEW j \in C PROVE \E i \in R : f[i] = j
  <2>1. j \in 1 .. Len(cs) /\ ~L!Check!allowed(cs[j], p)
    BY DEF L!Check!DriftKeys
  <2>2. PICK i \in 1 .. Len(r) : f[i] = j
    BY <2>1 DEF Remains
  <2> QED
    BY <1>1, <2>2
<1>3. R \subseteq 1 .. Len(r)
  BY DEF L!Check!DriftKeys
<1> HIDE DEF R, C
<1>4. ASSUME NEW i \in R PROVE i \in LastKeys(r, p) <=> f[i] \in LastKeys(cs, p)
  <2>1. ASSUME i \in LastKeys(r, p), NEW k \in C, cs[k].table = cs[f[i]].table PROVE k <= f[i]
    <3>1. PICK m \in R : f[m] = k
      BY <1>2
    <3>2. m \in 1 .. Len(r) /\ i \in 1 .. Len(r) /\ r[m].table = r[i].table
      BY <1>1, <1>3, <2>1, <3>1
    <3>3. m <= i
      BY <2>1, <3>2 DEF LastKeys, R
    <3> QED
      BY <3>1, <3>2, <3>3, RemainsInOrder
  <2>2. ASSUME f[i] \in LastKeys(cs, p), NEW m \in R, r[m].table = r[i].table PROVE m <= i
    <3>1. m \in 1 .. Len(r) /\ i \in 1 .. Len(r)
      BY <1>3
    <3>2. f[m] \in C /\ cs[f[m]].table = cs[f[i]].table
      BY <1>1, <2>2, <3>1
    <3>3. f[m] <= f[i]
      BY <2>2, <3>2 DEF LastKeys, C
    <3> QED
      BY <3>1, <3>3, RemainsInOrder
  <2>3. f[i] \in C
    BY <1>1, <1>3
  <2> QED
    BY <2>1, <2>2, <2>3 DEF LastKeys, R, C
<1>5. { L!Check!Bucket(r[i].rep) : i \in LastKeys(r, p) } = { L!Check!Bucket(cs[j].rep) : j \in LastKeys(cs, p) }
  <2>1. ASSUME NEW i \in LastKeys(r, p) PROVE f[i] \in LastKeys(cs, p) /\ r[i] = cs[f[i]]
    <3>1. i \in R
      BY DEF LastKeys, R
    <3> QED
      BY <1>1, <1>3, <1>4, <3>1
  <2>2. ASSUME NEW j \in LastKeys(cs, p) PROVE \E i \in LastKeys(r, p) : r[i] = cs[j]
    <3>1. j \in C
      BY DEF LastKeys, C
    <3>2. PICK i \in R : f[i] = j
      BY <1>2, <3>1
    <3>3. i \in LastKeys(r, p) /\ r[i] = cs[j]
      BY <1>1, <1>3, <1>4, <3>2
    <3> QED
      BY <3>3
  <2> QED
    BY <2>1, <2>2
<1>6. ASSUME NEW s
      PROVE  L!Check!Rule5(s, p) =
               IF p.database # Unset /\ L!Check!Cardinality({ L!Check!Bucket(s[j].rep) : j \in LastKeys(s, p) }) > 1
                 THEN { L!Check!Finding("pk-drift", "warning", NoRef) } ELSE {}
  BY DEF L!Check!Rule5, LastKeys
<1> QED
  BY <1>5, <1>6

(* The columns that the policy allows make no difference.                  *)
LEMMA AllowedMakeNoDifference ==
  ASSUME NEW cs \in Seq(Columns), NEW p
  PROVE  L!Check!analyze(cs, p) = L!Check!analyze(L!Check!Reportable(cs, p), p)
<1>1. PICK r \in Seq(Columns) : r = L!Check!Reportable(cs, p)
  BY ReportableRemains
<1>2. PICK f : Remains(f, r, cs, p)
  BY <1>1, ReportableRemains
<1>3. /\ L!Check!Rules1to3(r, p) = L!Check!Rules1to3(cs, p)
      /\ L!Check!Rule4(r, p) = L!Check!Rule4(cs, p)
      /\ L!Check!Rule5(r, p) = L!Check!Rule5(cs, p)
  BY <1>2, Rules1to3Same, Rule4Same, Rule5Same
<1> QED
  BY <1>1, <1>3 DEF L!Check!analyze

-----------------------------------------------------------------------------
(* The schema check: what is extracted, and what becomes of it.            *)

Lines == UNION { L!Check!ToSet(file.decls) : file \in SchemaFiles }

\* The identifier columns of SQL files are among the columns cs.
SqlRead(cs, fs) ==
  \A file \in L!Check!ToSet(fs) : file.kind = "sql" =>
    \A c \in L!Check!ToSet(file.decls) : L!Check!IsColumn("sql", c) =>
      \E j \in 1 .. Len(cs) : cs[j] = L!Check!extractSql(c)

\* A check that ends has read every file and told what the rules say.
Concluded ==
  L!Check!Analyzed =>
    /\ todo = << >>
    /\ found = L!Check!analyze(cols, policy)
    /\ exit = 1 <=> \E f \in found : L!Check!Severe(f)

CheckInv ==
  /\ tree \in Seq(SchemaFiles) /\ todo \in Seq(SchemaFiles) /\ seen \in Seq(SchemaFiles)
  /\ cols \in Seq(Columns) /\ cols = L!Check!Readable
  /\ SqlRead(cols, seen)
  /\ Concluded

LEMMA TreesAreFiles ==
  ASSUME NEW t \in Trees PROVE t \in Seq(SchemaFiles)
<1>1. t \in Seq(L!Check!ToSet(t))
  BY ApplicationsAssumption DEF L!CliAssumption, L!Check!SchemaCheckAssumption
<1>2. L!Check!ToSet(t) \subseteq SchemaFiles
  BY DEF SchemaFiles
<1> HIDE DEF SchemaFiles
<1> QED
  BY <1>1, <1>2

LEMMA InRange ==
  ASSUME NEW D, NEW s \in Seq(D), NEW x
  PROVE  x \in L!Check!ToSet(s) <=> \E i \in 1 .. Len(s) : s[i] = x
  BY DEF L!Check!ToSet

LEMMA FilesAreLines ==
  ASSUME NEW file \in SchemaFiles
  PROVE  /\ file.decls \in Seq(Lines)
         /\ NoRef \notin L!Check!ToSet(L!Check!Extracted(file))
<1>1. /\ file.decls \in Seq(L!Check!ToSet(file.decls))
      /\ NoRef \notin L!Check!ToSet(L!Check!Extracted(file))
  <2>1. PICK t \in Trees : file \in L!Check!ToSet(t)
    BY DEF SchemaFiles
  <2>2. L!Check!SchemaCheckAssumption
    BY ApplicationsAssumption DEF L!CliAssumption
  <2> QED
    BY <2>1, <2>2 DEF L!Check!SchemaCheckAssumption
<1>2. L!Check!ToSet(file.decls) \subseteq Lines
  BY DEF Lines
<1>3. file.decls \in Seq(Lines)
  BY <1>1, <1>2
<1> QED
  BY <1>1, <1>3

(* Of the lines of a file those that are columns stay, in order.           *)
LEMMA ColumnLinesRemain ==
  ASSUME NEW file \in SchemaFiles
  PROVE  /\ L!Check!ColumnLines(file) \in Seq(Lines)
         /\ \A j \in 1 .. Len(file.decls) : L!Check!IsColumn(file.kind, file.decls[j]) =>
              \E i \in 1 .. Len(L!Check!ColumnLines(file)) : L!Check!ColumnLines(file)[i] = file.decls[j]
<1>1. PICK ds \in Seq(Lines) : ds = file.decls
  BY FilesAreLines
<1> DEFINE Bad == { d \in Lines : ~L!Check!IsColumn(file.kind, d) }
           Eq(it) == it = [s \in SUBSET (DOMAIN ds) |->
                           IF s = {} THEN << >>
                           ELSE IF L!Check!IsColumn(file.kind, ds[L!Check!Max(s)])
                                  THEN Append(it[s \ {L!Check!Max(s)}], ds[L!Check!Max(s)])
                                  ELSE it[s \ {L!Check!Max(s)}]]
           H == CHOOSE it : Eq(it)
           r == L!Check!ColumnLines(file)
<1>2. r = H[DOMAIN ds]
  BY <1>1 DEF L!Check!ColumnLines, L!Check!FoldLeft, L!Check!MapThenFoldSet
<1>3. DOMAIN ds = 1 .. Len(ds) /\ Len(ds) \in Nat
  OBVIOUS
<1>4. ASSUME NEW it PROVE Eq(it) <=> Filters(it, ds, Bad)
  <2>1. \A s : L!Check!Max(s) = Top(s)
    BY DEF L!Check!Max, Top
  <2>2. ASSUME NEW s \in SUBSET (1 .. Len(ds)), s # {}
        PROVE  L!Check!IsColumn(file.kind, ds[Top(s)]) <=> ds[Top(s)] \notin Bad
    <3>1. Top(s) \in 1 .. Len(ds)
      BY <1>3, <2>2, TopIsIn
    <3>2. ds[Top(s)] \in Lines
      BY <3>1
    <3> QED
      BY <3>2
  <2> HIDE DEF Bad
  <2>3. ASSUME NEW s \in SUBSET (1 .. Len(ds))
        PROVE  (IF s = {} THEN << >>
                ELSE IF L!Check!IsColumn(file.kind, ds[Top(s)]) THEN Append(it[s \ {Top(s)}], ds[Top(s)])
                     ELSE it[s \ {Top(s)}])
               = IF s = {} THEN << >> ELSE FilterStep(it, ds, Bad, s)
    BY <2>2 DEF FilterStep
  <2>4. Eq(it) <=> it = [s \in SUBSET (1 .. Len(ds)) |->
                         IF s = {} THEN << >>
                         ELSE IF L!Check!IsColumn(file.kind, ds[Top(s)])
                                THEN Append(it[s \ {Top(s)}], ds[Top(s)])
                                ELSE it[s \ {Top(s)}]]
    BY <1>3, <2>1
  <2> HIDE DEF Eq
  <2> QED
    BY <2>3, <2>4 DEF Filters
<1>5. Eq(H)
  <2>1. \E it : Filters(it, ds, Bad)
    <3> HIDE DEF Bad
    <3> QED
      BY FilterExists
  <2> HIDE DEF Eq
  <2> QED
    BY <1>4, <2>1
<1> HIDE DEF Eq, H, r
<1>6. Filters(H, ds, Bad)
  BY <1>4, <1>5
<1>7. r \in Seq(Lines) /\ \E f : Picks(f, r, ds, Len(ds), Bad)
  <2> HIDE DEF Bad
  <2> QED
    BY <1>2, <1>3, <1>6, FilterKeepsOrder
<1>8. ASSUME NEW j \in 1 .. Len(ds), L!Check!IsColumn(file.kind, ds[j])
      PROVE  \E i \in 1 .. Len(r) : r[i] = ds[j]
  <2>1. PICK f : Picks(f, r, ds, Len(ds), Bad)
    BY <1>7
  <2>2. ds[j] \notin Bad
    BY <1>8
  <2> QED
    BY <2>1, <2>2 DEF Picks
<1> QED
  BY <1>1, <1>7, <1>8 DEF r

(* A file's columns are a sequence, and an SQL file's hold every line that *)
(* is one.                                                                 *)
LEMMA ExtractedReads ==
  ASSUME NEW file \in SchemaFiles
  PROVE  /\ L!Check!Extracted(file) \in Seq(Columns)
         /\ file.kind = "sql" => \A c \in L!Check!ToSet(file.decls) : L!Check!IsColumn("sql", c) =>
              \E i \in 1 .. Len(L!Check!Extracted(file)) : L!Check!Extracted(file)[i] = L!Check!extractSql(c)
<1>1. PICK r \in Seq(Lines) : r = L!Check!ColumnLines(file)
  BY ColumnLinesRemain
<1> DEFINE es == [i \in 1 .. Len(r) |-> L!Check!Extract(file.kind, r[i])]
<1>2. es = L!Check!Extracted(file)
  BY <1>1 DEF L!Check!Extracted
<1>3. Len(r) \in Nat /\ Len(es) = Len(r) /\ DOMAIN es = 1 .. Len(r)
  OBVIOUS
<1>4. \A i \in 1 .. Len(r) : es[i] \in Columns
  <2>1. \A i \in 1 .. Len(r) : es[i] \in L!Check!ToSet(es)
    BY <1>3 DEF L!Check!ToSet
  <2> HIDE DEF es
  <2> QED
    BY <1>2, <2>1 DEF Columns
<1>5. es \in Seq(Columns)
  BY <1>4
<1>6. ASSUME file.kind = "sql", NEW c \in L!Check!ToSet(file.decls), L!Check!IsColumn("sql", c)
      PROVE  \E i \in 1 .. Len(es) : es[i] = L!Check!extractSql(c)
  <2>1. PICK j \in 1 .. Len(file.decls) : file.decls[j] = c
    <3>1. file.decls \in Seq(Lines)
      BY FilesAreLines
    <3> QED
      BY <1>6, <3>1, InRange
  <2>2. PICK i \in 1 .. Len(r) : r[i] = c
    BY <1>1, <1>6, <2>1, ColumnLinesRemain
  <2>3. es[i] = L!Check!extractSql(c)
    BY <1>6, <2>2 DEF L!Check!Extract
  <2> QED
    BY <1>3, <2>2, <2>3
<1> QED
  BY <1>2, <1>5, <1>6

LEMMA ConcludedElse ==
  ASSUME ~L!Check!Analyzed' PROVE Concluded'
  BY DEF Concluded

LEMMA SqlReadAppend ==
  ASSUME NEW fs \in Seq(SchemaFiles), NEW file \in SchemaFiles, NEW cs \in Seq(Columns), SqlRead(cs, fs)
  PROVE  SqlRead(cs \o L!Check!Extracted(file), Append(fs, file))
<1>1. PICK es \in Seq(Columns) : es = L!Check!Extracted(file)
  BY ExtractedReads
<1>2. PICK n \in Nat : n = Len(cs)
  OBVIOUS
<1>3. PICK all : all = cs \o es
  OBVIOUS
<1>4. /\ Len(all) = n + Len(es) /\ Len(es) \in Nat
      /\ \A j \in 1 .. n : all[j] = cs[j]
      /\ \A i \in 1 .. Len(es) : all[n + i] = es[i]
  BY <1>2, <1>3, ConcatProperties
<1>5. PICK more \in Seq(SchemaFiles) : more = Append(fs, file)
  <2>1. Append(fs, file) \in Seq(SchemaFiles)
    BY AppendProperties
  <2> QED
    BY <2>1
<1>6. ASSUME NEW g \in L!Check!ToSet(more) PROVE g = file \/ g \in L!Check!ToSet(fs)
  <2>1. PICK i \in 1 .. Len(more) : more[i] = g
    BY InRange
  <2>2. PICK k \in Nat : k = Len(fs)
    OBVIOUS
  <2>3. Len(more) = k + 1 /\ more[k + 1] = file /\ \A j \in 1 .. k : more[j] = fs[j]
    BY <1>5, <2>2
  <2>4. CASE i = k + 1
    BY <2>1, <2>3, <2>4
  <2>5. CASE i # k + 1
    <3>1. i \in 1 .. k
      BY <2>3, <2>5
    <3>2. fs[i] = g
      BY <2>1, <2>3, <3>1
    <3> QED
      BY <2>2, <3>1, <3>2, InRange
  <2> QED
    BY <2>4, <2>5
<1>7. ASSUME NEW g \in L!Check!ToSet(more), g.kind = "sql",
             NEW c \in L!Check!ToSet(g.decls), L!Check!IsColumn("sql", c)
      PROVE  \E j \in 1 .. Len(all) : all[j] = L!Check!extractSql(c)
  <2>1. CASE g \in L!Check!ToSet(fs)
    <3>1. PICK j \in 1 .. n : cs[j] = L!Check!extractSql(c)
      BY <1>2, <1>7, <2>1 DEF SqlRead
    <3>2. j \in 1 .. Len(all)
      BY <1>4
    <3> QED
      BY <1>4, <3>1, <3>2
  <2>2. CASE g = file
    <3>1. PICK i \in 1 .. Len(es) : es[i] = L!Check!extractSql(c)
      BY <1>1, <1>7, <2>2, ExtractedReads
    <3>2. n + i \in 1 .. Len(all)
      BY <1>4
    <3> QED
      BY <1>4, <3>1, <3>2
  <2> QED
    BY <1>6, <2>1, <2>2
<1> QED
  BY <1>1, <1>3, <1>5, <1>7 DEF SqlRead

LEMMA ReadableAppend ==
  ASSUME seen \in Seq(SchemaFiles), NEW file \in SchemaFiles, seen' = Append(seen, file)
  PROVE  L!Check!Readable' = L!Check!Readable \o L!Check!Extracted(file)
<1> DEFINE ss   == [i \in 1 .. Len(seen) |-> L!Check!Extracted(seen[i])]
           more == [i \in 1 .. Len(seen') |-> L!Check!Extracted(seen'[i])]
           V    == Seq(Columns)
<1>1. PICK n \in Nat : n = Len(seen)
  OBVIOUS
<1>2. Len(seen') = n + 1 /\ seen'[n + 1] = file /\ \A i \in 1 .. n : seen'[i] = seen[i]
  BY <1>1
<1>3. L!Check!Extracted(file) \in V /\ \A i \in 1 .. n : L!Check!Extracted(seen[i]) \in V
  <2>1. \A i \in 1 .. n : seen[i] \in SchemaFiles
    BY <1>1
  <2> QED
    BY <2>1, ExtractedReads
<1> HIDE DEF V
<1>4. ss \in Seq(V) /\ Len(ss) = n /\ \A i \in 1 .. n : ss[i] = L!Check!Extracted(seen[i])
  BY <1>1, <1>3
<1>5. more = Append(ss, L!Check!Extracted(file))
  <2>1. more = [i \in 1 .. n + 1 |-> IF i = n + 1 THEN L!Check!Extracted(file) ELSE L!Check!Extracted(seen[i])]
    <3>1. \A i \in 1 .. n + 1 : i = n + 1 \/ i \in 1 .. n
      OBVIOUS
    <3>2. \A i \in 1 .. n + 1 : L!Check!Extracted(seen'[i]) = IF i = n + 1 THEN L!Check!Extracted(file) ELSE L!Check!Extracted(seen[i])
      BY <1>2, <3>1
    <3> QED
      BY <1>2, <3>2
  <2>2. Append(ss, L!Check!Extracted(file)) = [i \in 1 .. n + 1 |-> IF i = n + 1 THEN L!Check!Extracted(file) ELSE L!Check!Extracted(seen[i])]
    <3> HIDE DEF ss
    <3>1. PICK q : q = Append(ss, L!Check!Extracted(file))
      OBVIOUS
    <3>2. q \in Seq(V) /\ Len(q) = n + 1 /\ q[n + 1] = L!Check!Extracted(file) /\ \A i \in 1 .. n : q[i] = ss[i]
      BY <1>3, <1>4, <3>1
    <3>3. \A i \in 1 .. n + 1 : i = n + 1 \/ i \in 1 .. n
      OBVIOUS
    <3>4. \A i \in 1 .. n + 1 : q[i] = IF i = n + 1 THEN L!Check!Extracted(file) ELSE L!Check!Extracted(seen[i])
      BY <1>4, <3>2, <3>3
    <3>5. q = [i \in 1 .. n + 1 |-> q[i]]
      BY <3>2
    <3> QED
      BY <3>1, <3>4, <3>5
  <2> HIDE DEF ss, more
  <2> QED
    BY <2>1, <2>2
<1>6. L!Check!Readable = L!Check!FlattenSeq(ss) /\ L!Check!Readable' = L!Check!FlattenSeq(more)
  BY DEF L!Check!Readable
<1> HIDE DEF ss, more
<1> QED
  BY <1>3, <1>4, <1>5, <1>6, FlattenAppend DEF V

LEMMA ExtractFileInv ==
  ASSUME CheckInv, L!Check!ExtractFile PROVE CheckInv'
<1>1. PICK file \in SchemaFiles : file = Head(todo)
  BY DEF L!Check!ExtractFile, CheckInv
<1>2. /\ todo # << >> /\ todo' = Tail(todo) /\ tree' = tree
      /\ seen' = Append(seen, file) /\ cols' = cols \o L!Check!Extracted(file)
      /\ UNCHANGED << policy, exit >>
  BY <1>1 DEF L!Check!ExtractFile, L!Check!given
<1>3. L!Check!Readable' = L!Check!Readable \o L!Check!Extracted(file)
  BY <1>2, ReadableAppend DEF CheckInv
<1>4. cols' \in Seq(Columns) /\ cols' = L!Check!Readable'
  <2>1. cols \in Seq(Columns) /\ L!Check!Extracted(file) \in Seq(Columns)
    BY ExtractedReads DEF CheckInv
  <2>2. cols \o L!Check!Extracted(file) \in Seq(Columns)
    BY <2>1, ConcatProperties
  <2> QED
    BY <1>2, <1>3, <2>2 DEF CheckInv
<1>5. SqlRead(cols, seen)'
  <2>1. SqlRead(cols \o L!Check!Extracted(file), Append(seen, file))
    BY SqlReadAppend DEF CheckInv
  <2> QED
    BY <1>2, <2>1 DEF SqlRead, L!Check!ToSet
<1>6. ~L!Check!Analyzed'
  <2>1. ~L!Check!Analyzed
    BY <1>2 DEF CheckInv, Concluded
  <2> QED
    BY <1>2, <2>1 DEF L!Check!Analyzed, L!Check!Started, L!Check!Crashes, L!Check!Running
<1>7. todo' \in Seq(SchemaFiles) /\ seen' \in Seq(SchemaFiles) /\ tree' \in Seq(SchemaFiles)
  BY <1>2 DEF CheckInv
<1> QED
  BY <1>4, <1>5, <1>6, <1>7, ConcludedElse DEF CheckInv

\* What is true of the columns stays true while they and the files stay.
LEMMA SameColumns ==
  ASSUME CheckInv, UNCHANGED << tree, seen, cols >>, todo' \in Seq(SchemaFiles), Concluded'
  PROVE  CheckInv'
<1>1. L!Check!Readable' = L!Check!Readable
  BY DEF L!Check!Readable
<1>2. SqlRead(cols, seen)'
  <2>1. SqlRead(cols, seen) /\ cols' = cols /\ seen' = seen
    BY DEF CheckInv
  <2> QED
    BY <2>1 DEF SqlRead, L!Check!ToSet
<1> QED
  BY <1>1, <1>2 DEF CheckInv

LEMMA RunCheckInv ==
  ASSUME CheckInv, argv' = argv, L!Check!runCheck PROVE CheckInv'
<1>1. CASE L!Check!LoadPolicy
  <2>1. todo' \in Seq(SchemaFiles) /\ UNCHANGED << tree, seen, cols >>
    BY <1>1 DEF L!Check!LoadPolicy, L!Check!given, CheckInv
  <2>2. ~L!Check!Analyzed'
    BY <1>1 DEF L!Check!LoadPolicy, L!Check!Analyzed, L!Check!Started, L!Check!Running
  <2> QED
    BY <2>1, <2>2, ConcludedElse, SameColumns
<1>2. CASE L!Check!SkipFile
  <2>1. todo # << >> /\ todo' = Tail(todo) /\ UNCHANGED << tree, seen, cols, policy, exit >>
    BY <1>2 DEF L!Check!SkipFile, L!Check!given
  <2>2. ~L!Check!Analyzed
    BY <2>1 DEF CheckInv, Concluded
  <2>3. ~L!Check!Analyzed'
    BY <2>1, <2>2 DEF L!Check!Analyzed, L!Check!Started, L!Check!Crashes, L!Check!Running
  <2>4. todo' \in Seq(SchemaFiles)
    BY <2>1 DEF CheckInv
  <2> QED
    BY <2>1, <2>3, <2>4, ConcludedElse, SameColumns
<1>3. CASE L!Check!Analyze
  <2>1. todo = << >> /\ UNCHANGED << tree, seen, cols, policy, todo >>
    BY <1>3 DEF L!Check!Analyze, L!Check!given
  <2>2. CASE L!Check!Crashes
    <3>1. ~L!Check!Analyzed'
      BY <2>1, <2>2 DEF L!Check!Analyzed, L!Check!Crashes
    <3> QED
      BY <2>1, <3>1, ConcludedElse, SameColumns DEF CheckInv
  <2>3. CASE ~L!Check!Crashes
    <3>1. /\ found' = L!Check!analyze(cols, policy)
          /\ exit' = IF \E f \in found' : L!Check!Severe(f) THEN 1 ELSE 0
      BY <1>3, <2>3 DEF L!Check!Analyze
    <3>2. Concluded'
      BY <2>1, <3>1, SameArguments DEF Concluded
    <3> QED
      BY <2>1, <3>2, SameColumns DEF CheckInv
  <2> QED
    BY <2>2, <2>3
<1>4. CASE L!Check!ExtractFile
  BY <1>4, ExtractFileInv
<1> QED
  BY <1>1, <1>2, <1>3, <1>4 DEF L!Check!runCheck

LEMMA InitCheckInv == L!Init => CheckInv
<1> SUFFICES ASSUME L!Init PROVE CheckInv
  OBVIOUS
<1>1. L!Check!Unstarted /\ tree \in Seq(SchemaFiles)
  <2>1. CASE L!cmd = "check"
    BY <2>1, TreesAreFiles DEF L!Init, L!Check!Init
  <2>2. CASE L!cmd # "check"
    <3>1. tree = << >> /\ L!Check!Unstarted
      BY <2>2 DEF L!Init, L!Check!NoCheck
    <3> QED
      BY <3>1
  <2> QED
    BY <2>1, <2>2
<1>2. seen = << >> /\ cols = << >> /\ todo = << >> /\ exit = L!Check!Running
  BY <1>1 DEF L!Check!Unstarted
<1>3. L!Check!Readable = << >>
  <2> DEFINE ss == [i \in 1 .. Len(seen) |-> L!Check!Extracted(seen[i])]
  <2>1. ss = << >> /\ Len(ss) = 0
    BY <1>2
  <2>2. L!Check!Readable = L!Check!FlattenSeq(ss)
    BY DEF L!Check!Readable
  <2> HIDE DEF ss
  <2> QED
    BY <2>1, <2>2 DEF L!Check!FlattenSeq
<1>4. cols \in Seq(Columns) /\ cols = L!Check!Readable /\ SqlRead(cols, seen)
  BY <1>2, <1>3 DEF SqlRead, L!Check!ToSet
<1>5. Concluded
  BY <1>2 DEF Concluded, L!Check!Analyzed
<1> QED
  BY <1>1, <1>2, <1>3, <1>4, <1>5 DEF CheckInv

LEMMA NextCheckInv ==
  ASSUME CheckInv, [L!Next]_(L!vars) PROVE CheckInv'
<1>1. ASSUME UNCHANGED << argv, L!cVars >> PROVE CheckInv'
  <2>1. UNCHANGED << argv, tree, seen, cols, todo, policy, found, exit >>
    BY <1>1 DEF L!cVars
  <2>2. Concluded'
    BY <2>1, SameArguments DEF CheckInv, Concluded, L!Check!Analyzed, L!Check!Started,
                               L!Check!Crashes, L!Check!Running
  <2>3. todo' \in Seq(SchemaFiles)
    BY <2>1 DEF CheckInv
  <2> QED
    BY <2>1, <2>2, <2>3, SameColumns
<1>2. ASSUME NEW c, NEW os, NEW es, L!Exit(c, os, es) PROVE CheckInv'
  BY <1>1, <1>2 DEF L!Exit
<1>3. CASE L!load
  <2>1. CASE L!Goto("run") /\ UNCHANGED L!cVars
    BY <1>1, <2>1 DEF L!Goto
  <2>2. CASE L!Exit(1, << >>, << "unloadable" >>)
    BY <1>2, <2>2
  <2> QED
    BY <1>3, <2>1, <2>2 DEF L!load
<1>4. CASE L!Help
  BY <1>2, <1>4 DEF L!Help
<1>5. CASE L!ParseCount
  <2>1. CASE L!Exit(1, << >>, << "--count" >>)
    BY <1>2, <2>1
  <2>2. CASE L!Goto("make") /\ UNCHANGED L!cVars
    BY <1>1, <2>2 DEF L!Goto
  <2> QED
    BY <1>5, <2>1, <2>2 DEF L!ParseCount
<1>6. CASE L!MonotonicUlid
  BY <1>1, <1>6 DEF L!MonotonicUlid
<1>7. CASE L!Generate
  BY <1>1, <1>7 DEF L!Generate, L!Goto
<1>8. CASE L!CoreFails
  BY <1>2, <1>8 DEF L!CoreFails
<1>9. CASE L!emit
  <2>1. CASE L!AsJson /\ Len(made) > MAX_JSON
    BY <1>2, <1>9, <2>1 DEF L!emit
  <2>2. CASE L!AsJson /\ ~(Len(made) > MAX_JSON)
    <3>1. UNCHANGED << argv, L!cVars >>
      BY <1>9, <2>2 DEF L!emit, L!Exit
    <3> QED
      BY <1>1, <3>1
  <2>3. CASE ~L!AsJson
    BY <1>2, <1>9, <2>3 DEF L!emit
  <2> QED
    BY <2>1, <2>2, <2>3
<1>10. CASE L!bytes16 \/ L!benchmark \/ L!version \/ L!help \/ L!Unknown
  BY <1>2, <1>10 DEF L!bytes16, L!benchmark, L!version, L!help, L!Unknown
<1>11. CASE L!decode
  <2>1. UNCHANGED << argv, L!cVars >>
    BY <1>11 DEF L!decode, L!Exit
  <2> QED
    BY <1>1, <2>1
<1>12. CASE L!validate
  <2>1. UNCHANGED << argv, L!cVars >>
    <3>1. CASE L!rest = << >>
      BY <1>12, <3>1 DEF L!validate, L!Exit
    <3>2. CASE L!rest # << >> /\ L!bad # << >>
      BY <1>12, <3>2 DEF L!validate, L!Exit
    <3>3. CASE L!rest # << >> /\ L!bad = << >>
      BY <1>12, <3>3 DEF L!validate, L!Exit
    <3> QED
      BY <3>1, <3>2, <3>3
  <2> QED
    BY <1>1, <2>1
<1>13. CASE L!check
  <2>1. CASE L!Goto("check") /\ UNCHANGED L!cVars
    BY <1>1, <2>1 DEF L!Goto
  <2>2. CASE argv' = argv /\ L!Check!runCheck
    BY <2>2, RunCheckInv
  <2>3. CASE L!Exit(exit, printed, << >>)
    BY <1>2, <2>3
  <2> QED
    BY <1>13, <2>1, <2>2, <2>3 DEF L!check
<1>14. CASE L!Exited \/ UNCHANGED L!vars
  BY <1>1, <1>14 DEF L!Exited, L!vars
<1> QED
  BY <1>3, <1>4, <1>5, <1>6, <1>7, <1>8, <1>9, <1>10, <1>11, <1>12, <1>13, <1>14 DEF L!Next

LEMMA CheckKept == Spec => [](part = "cli" => CheckInv)
<1>1. Init => (part = "cli" => CheckInv)
  BY InitCheckInv DEF Init
<1>2. (part = "cli" => CheckInv) /\ [Next]_vars => (part = "cli" => CheckInv)'
  <2> SUFFICES ASSUME part = "cli" => CheckInv, [Next]_vars, part' = "cli"
               PROVE  CheckInv'
    OBVIOUS
  <2>1. part = "cli" /\ [L!Next]_(L!vars)
    BY DEF Next, vars, lVars, L!vars, L!cVars
  <2> QED
    BY <2>1, NextCheckInv
<1> QED
  BY <1>1, <1>2, PTL DEF Spec

(* A column that the policy of rivid check allows changes nothing in the   *)
(* report, whether it would be reported itself, is referenced by another   *)
(* column or takes part in the comparison of primary keys, for every tree  *)
(* of schema files, every policy, and whatever files become unreadable     *)
(* (cli/check.mjs:10-11, 248-310).                                         *)
THEOREM AllowedChangesNothing == Spec => []AllowedAsAbsent
<1>1. CheckInv => L!Check!AllowedAsAbsent
  BY AllowedMakeNoDifference DEF CheckInv, Concluded, L!Check!AllowedAsAbsent
<1>2. (part = "cli" => CheckInv) => AllowedAsAbsent
  BY <1>1 DEF AllowedAsAbsent
<1> QED
  BY <1>2, CheckKept, PTL

(* A reference finds the last column that it names.                        *)
LEMMA LastIsFound ==
  ASSUME NEW cs \in Seq(Columns), NEW ref, NEW k \in 1 .. Len(cs), L!Check!LastNamed(cs, ref, k)
  PROVE  L!Check!byKey(cs, ref) = cs[k] /\ cs[k] # NoRef
<1> DEFINE at == { j \in 1 .. Len(cs) : cs[j].table = ref.table /\ cs[j].column = ref.column }
<1>1. k \in at
  BY DEF L!Check!LastNamed
<1>2. ASSUME NEW j \in at PROVE j <= k
  <2>1. ~(j \in k + 1 .. Len(cs))
    BY <1>2 DEF L!Check!LastNamed
  <2>2. Len(cs) \in Nat
    OBVIOUS
  <2> QED
    BY <2>1, <2>2
<1>3. L!Check!byKey(cs, ref) = cs[k]
  BY <1>1, <1>2, ByKeyIsLast
<1>4. cs[k] # NoRef
  <2>1. cs[k] \in Columns
    OBVIOUS
  <2>2. NoRef \notin Columns
    BY FilesAreLines DEF Columns
  <2> QED
    BY <2>1, <2>2
<1> QED
  BY <1>3, <1>4

(* An identifier column of an SQL file whose own line references a column  *)
(* stored in another way fails the run unless one of the two is allowed,   *)
(* wherever in the tree the two are, however often the second is declared, *)
(* and whatever other files cannot be read (cli/check.mjs:147-149,         *)
(* 297-312).                                                               *)
THEOREM SqlMismatchesFail == Spec => []SqlMismatchFails
<1>1. CheckInv => L!Check!SqlMismatchFails
  <2> SUFFICES ASSUME CheckInv, L!Check!Analyzed,
                      NEW i \in 1 .. Len(seen), seen[i].kind = "sql",
                      NEW c \in L!Check!ToSet(seen[i].decls), NEW k \in 1 .. Len(L!Check!Readable),
                      L!Check!IsColumn("sql", c), c.inline, c.ref # NoRef,
                      L!Check!LastNamed(L!Check!Readable, c.ref, k),
                      L!Check!Readable[k].rep # L!Check!Rep("sql", c),
                      ~L!Check!allowed(c, policy), ~L!Check!allowed(L!Check!Readable[k], policy)
               PROVE  exit = 1
    BY DEF L!Check!SqlMismatchFails
  <2>1. PICK cs \in Seq(Columns) : cs = cols /\ cs = L!Check!Readable
    BY DEF CheckInv
  <2>2. PICK j \in 1 .. Len(cs) : cs[j] = L!Check!extractSql(c)
    <3>1. seen[i] \in L!Check!ToSet(seen)
      BY InRange DEF CheckInv
    <3> QED
      BY <2>1, <3>1 DEF CheckInv, SqlRead
  <2>3. /\ cs[j].table = c.table /\ cs[j].column = c.column
        /\ cs[j].rep = L!Check!Rep("sql", c) /\ cs[j].ref = c.ref
    BY <2>2 DEF L!Check!extractSql, L!Check!Column
  <2>4. L!Check!byKey(cs, c.ref) = cs[k] /\ cs[k] # NoRef
    BY <2>1, LastIsFound
  <2>5. ~L!Check!allowed(cs[j], policy) /\ ~L!Check!allowed(cs[k], policy)
    BY <2>1, <2>3, AllowedByName
  <2>6. Mismatched(cs[j], cs, policy)
    BY <2>1, <2>3, <2>4, <2>5 DEF Mismatched
  <2>7. L!Check!Finding("fk-mismatch", "error", cs[j]) \in found
    BY <2>1, <2>6, InRule4 DEF CheckInv, Concluded, L!Check!analyze
  <2>8. L!Check!Severe(L!Check!Finding("fk-mismatch", "error", cs[j]))
    BY DEF L!Check!Severe, L!Check!Finding
  <2> QED
    BY <2>7, <2>8 DEF CheckInv, Concluded
<1>2. (part = "cli" => CheckInv) => SqlMismatchFails
  BY <1>1 DEF SqlMismatchFails
<1> QED
  BY <1>2, CheckKept, PTL

=============================================================================
