----------------------------- MODULE PolicyFile -----------------------------
(***************************************************************************)
(* Reading .rivid.yml: parsePolicyYaml of cli/check.mjs, line by line.     *)
(* The parser builds JavaScript objects through references, so objects     *)
(* live in a heap and the stack and the maps hold their addresses.         *)
(*                                                                         *)
(* A line is one of   key:        [kind |-> "bare", key]                   *)
(*                    key: value  [kind |-> "pair", key, value]            *)
(*                    - value     [kind |-> "item", value]                 *)
(*                    - key: value[kind |-> "entry", key, value]           *)
(* with its indent; blank lines and comments are skipped and left out.     *)
(* The files are those that state a policy: a policy is chosen and written *)
(* out as YAML, and the parser should read it back.                        *)
(***************************************************************************)
EXTENDS Integers, SequencesExt

CONSTANTS
  Policies,     \* Policies: [scalars: key -> value, lists: key -> entries].
  ListIndents   \* How far a list may be indented under its key.

PolicyFileAssumption == ListIndents \subseteq Nat

VARIABLES
  policy,       \* The policy the file states.
  lines,        \* The lines that are left.
  heap,         \* Address -> [kind: "map" | "list", at: keys -> values].
  stack         \* Frames [indent, obj, lastKey].

vars == << policy, lines, heap, stack >>

None == "none"
Root == 1

Scalar(v)  == [kind |-> "scalar", value |-> v]
Ref(a)     == [kind |-> "ref", to |-> a]
EmptyMap   == [kind |-> "map", at |-> << >>]
IsEmpty(o) == o.kind = "map" /\ DOMAIN o.at = {}

Put(f, k, v) == [x \in DOMAIN f \cup {k} |-> IF x = k THEN v ELSE f[x]]

-----------------------------------------------------------------------------
(* The file that states a policy: "rivid:" and everything below it.        *)

Pair(n, k, v)  == [indent |-> n, kind |-> "pair", key |-> k, value |-> v]
Entry(n, k, v) == [indent |-> n, kind |-> "entry", key |-> k, value |-> v]
Bare(n, k)     == [indent |-> n, kind |-> "bare", key |-> k]

\* An entry is a sequence of key-value pairs; the first follows the dash.
EntryLines(n, e) ==
  << Entry(n, e[1][1], e[1][2]) >>
    \o [i \in 1 .. Len(e) - 1 |-> Pair(n + 2, e[i + 1][1], e[i + 1][2])]

ItemLines(n, e) ==
  IF e[1][1] = None THEN << [indent |-> n, kind |-> "item", value |-> e[1][2]] >>
  ELSE EntryLines(n, e)

ListLines(k, entries, n) ==
  << Bare(2, k) >> \o FlattenSeq([i \in 1 .. Len(entries) |-> ItemLines(2 + n, entries[i])])

SectionLines(s, n) ==
  IF s.kind = "scalar" THEN << Pair(2, s.key, s.value) >>
  ELSE ListLines(s.key, s.entries, n)

File(p, n) ==
  << Bare(0, "rivid") >> \o FlattenSeq([i \in 1 .. Len(p) |-> SectionLines(p[i], n)])

\* What the policy means: a map from keys to scalars and lists of maps.
EntryMeans(e) ==
  IF e[1][1] = None THEN e[1][2]
  ELSE [k \in { e[i][1] : i \in 1 .. Len(e) } |->
          e[CHOOSE i \in 1 .. Len(e) : e[i][1] = k][2]]

Meaning(p) ==
  [k \in { p[i].key : i \in 1 .. Len(p) } |->
     LET s == p[CHOOSE i \in 1 .. Len(p) : p[i].key = k]
     IN  IF s.kind = "scalar" THEN s.value
         ELSE [i \in 1 .. Len(s.entries) |-> EntryMeans(s.entries[i])]]

-----------------------------------------------------------------------------
Init ==
  /\ policy \in Policies
  /\ \E n \in ListIndents : lines = File(policy, n)
  /\ heap = << EmptyMap >>
  /\ stack = << [indent |-> -1, obj |-> Root, lastKey |-> None] >>

\* Mutant: a line at the indent of the top frame stays inside it.
Unwound_Strict(s, indent) ==
  LET keep(i) == i = 1 \/ s[i].indent <= indent
  IN  SubSeq(s, 1, CHOOSE i \in 1 .. Len(s) :
        keep(i) /\ \A j \in i + 1 .. Len(s) : ~keep(j))

\* The frames that enclose a line with this indent.
Unwound(s, indent) ==
  LET keep(i) == i = 1 \/ s[i].indent < indent
  IN  SubSeq(s, 1, CHOOSE i \in 1 .. Len(s) :
        keep(i) /\ \A j \in i + 1 .. Len(s) : ~keep(j))

Enclosing == Unwound(stack, Head(lines).indent)
Parent    == Enclosing[Len(Enclosing)].obj

\* `parent[key] = value`, on a map or (as a property nobody reads) a list.
Assign(h, a, k, v) == [h EXCEPT ![a].at = Put(@, k, v)]

NoteKey(s, k) == [s EXCEPT ![Len(s)].lastKey = k]

Took(kind) ==
  /\ lines # << >>
  /\ Head(lines).kind = kind
  /\ lines' = Tail(lines)
  /\ UNCHANGED policy

\* `key:` opens a map.
ReadBare ==
  /\ Took("bare")
  /\ LET k == Head(lines).key
         a == Len(heap) + 1
     IN  /\ heap' = Append(Assign(heap, Parent, k, Ref(a)), EmptyMap)
         /\ stack' = Append(NoteKey(Enclosing, k),
                            [indent |-> Head(lines).indent, obj |-> a, lastKey |-> None])

ReadPair ==
  /\ Took("pair")
  /\ heap' = Assign(heap, Parent, Head(lines).key, Scalar(Head(lines).value))
  /\ stack' = NoteKey(Enclosing, Head(lines).key)

\* A list item belongs to the last key of the innermost frame that has one.
HasHolder == \E i \in 1 .. Len(Enclosing) : Enclosing[i].lastKey # None
Holder ==
  Enclosing[CHOOSE i \in 1 .. Len(Enclosing) :
    /\ Enclosing[i].lastKey # None
    /\ \A j \in i + 1 .. Len(Enclosing) : Enclosing[j].lastKey = None]

Held == heap[Holder.obj].at[Holder.lastKey]
HoldsList == Held.kind = "ref" /\ heap[Held.to].kind = "list"

\* The heap in which the holder's key is a list, and the list's address: the
\* placeholder map of `key:` is replaced by a new list, anything else
\* becomes the first element of one.
Listed ==
  IF HoldsList THEN [heap |-> heap, list |-> Held.to]
  ELSE LET a == Len(heap) + 1
           first == IF Held.kind = "ref" /\ IsEmpty(heap[Held.to])
                      THEN << >> ELSE << Held >>
       IN  [heap |-> Append(Assign(heap, Holder.obj, Holder.lastKey, Ref(a)),
                            [kind |-> "list", at |-> first]),
            list |-> a]

Push(h, a, v) == [h EXCEPT ![a].at = Append(@, v)]

ReadItem ==
  /\ Took("item")
  /\ heap' = IF HasHolder THEN Push(Listed.heap, Listed.list, Scalar(Head(lines).value))
             ELSE heap
  /\ stack' = Enclosing

\* `- key: value` makes a map of its own, open for the keys that follow.
ReadEntry ==
  /\ Took("entry")
  /\ IF HasHolder
       THEN LET h == Listed.heap
                a == Len(h) + 1
                item == [kind |-> "map",
                         at |-> Put(<< >>, Head(lines).key, Scalar(Head(lines).value))]
            IN  /\ heap' = Append(Push(h, Listed.list, Ref(a)), item)
                /\ stack' = Append(Enclosing,
                              [indent |-> Head(lines).indent + 2, obj |-> a, lastKey |-> None])
       ELSE heap' = heap /\ stack' = Enclosing

\* The whole text is read: the parser returns its root.
Finish == lines = << >> /\ UNCHANGED vars

Next == ReadBare \/ ReadPair \/ ReadItem \/ ReadEntry \/ Finish

Spec == Init /\ [][Next]_vars

-----------------------------------------------------------------------------
(* Properties.                                                             *)

\* What analyze() sees of a value: lists and maps two levels deep.
Leaf(v) == IF v.kind = "scalar" THEN v.value
           ELSE [k \in DOMAIN heap[v.to].at |-> heap[v.to].at[k].value]

Seen(v) == IF v.kind = "scalar" THEN v.value
           ELSE [k \in DOMAIN heap[v.to].at |-> Leaf(heap[v.to].at[k])]

Read ==
  LET r == heap[heap[Root].at["rivid"].to].at
  IN  [k \in DOMAIN r |-> Seen(r[k])]

\* When the file is read, the policy is what the file states: every key in
\* its place, every list with its entries in order, and every entry with all
\* its keys ("A project policy file declares intentional conventions so they
\* are never flagged", cli/check.mjs:11-21).
ReadsBack == lines = << >> => Read = Meaning(policy)

=============================================================================
