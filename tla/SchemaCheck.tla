---------------------------- MODULE SchemaCheck ----------------------------
(***************************************************************************)
(* `rivid check`: runCheck, loadPolicy, extractAll and analyze of          *)
(* cli/check.mjs.  A run loads the policy, extracts the identifier columns *)
(* of each schema file in the order of the directory walk, analyses them,  *)
(* reports on stdout and exits.  A file may go or become unreadable after  *)
(* the walk has listed it.                                                 *)
(*                                                                         *)
(* A file is [kind, decls].  A declaration is a line of the form of a      *)
(* column: [table, column, inside, named, types, pk, ref, inline].         *)
(*   inside  the extractor's pattern for tables takes the line in: an SQL  *)
(*           statement ends with `);` and has no other semicolon           *)
(*   named   the name ends as an identifier's (in Drizzle the property's;  *)
(*           in Prisma, @db.Uuid or @db.Char will do)                      *)
(*   types   the storages that the line mentions, anywhere                 *)
(*   pk      the line itself says that it is the primary key               *)
(*   ref     the [table, column] that the schema has it reference, or      *)
(*           NoRef                                                         *)
(*   inline  the line itself says so, with table and column (in Prisma,    *)
(*           with @relation)                                               *)
(***************************************************************************)
EXTENDS Integers, SequencesExt

CONSTANTS
  Options,      \* Arguments that start with two hyphens.
  Missing,      \* Paths that do not exist.
  Trees,        \* Trees of schema files: sequences, in walk order.
  Stores,       \* Policy files: [at, policy, parses], policy a record
                \* [database, public_ids, idempotency, events, allow].
  Public,       \* Columns named like a public id.
  Idempotency,  \* Columns named like an idempotency key.
  Events,       \* Tables named like event tables.
  Unset,        \* A policy that does not say.
  EmptyMap,     \* What an `allow:` without entries is read as.
  NoRef         \* A column that references nothing.

Kinds == {"sql", "prisma", "drizzle"}

VARIABLES
  args,         \* The arguments after `check`.
  github,       \* Is GITHUB_ACTIONS set?
  tree,         \* The files under the scan root.
  stored,       \* The policy file, at "root", "parent" or "nowhere".
  policy,       \* The policy that was loaded, Unset before.
  todo,         \* Files not yet extracted.
  seen,         \* Files that could be read, in order.
  cols,         \* Columns extracted so far.
  found,        \* The findings.
  printed,      \* Stdout, a sequence of [form, tells].
  exit          \* The exit code, or Running.

vars == << args, github, tree, stored, policy, todo, seen, cols, found, printed, exit >>
given == << args, github, tree, stored >>

strict == "--strict" \in ToSet(args)
json   == "--json" \in ToSet(args)
paths  == SelectSeq(args, LAMBDA a : a \notin Options)
NoRoot == paths # << >> /\ Head(paths) \in Missing

Running  == -1
NoPolicy == [database |-> Unset, public_ids |-> Unset, idempotency |-> Unset,
             events |-> Unset, allow |-> Unset]

-----------------------------------------------------------------------------
(* Extraction.                                                             *)

\* The storages an extractor knows, the first it looks for first.
SQL_TYPES    == << "uuid", "bytea(16)", "char(36)", "varchar(36)", "char(26)", "varchar(26)",
                   "text", "bigint" >>
PrismaTypes  == << "uuid", "char(26)", "char(36)", "text", "bytea(16)", "bigint" >>
DrizzleTypes == << "uuid", "bytea(16)", "text", "char(26)", "varchar(26)", "char(36)",
                   "varchar(36)", "char(?)", "varchar(?)" >>

Known == [sql |-> SQL_TYPES, prisma |-> PrismaTypes, drizzle |-> DrizzleTypes]

\* A line is an identifier column if it says so and mentions a known storage.
IsColumn(kind, d) ==
  d.inside /\ (d.named \/ d.pk) /\ d.types \cap ToSet(Known[kind]) # {}

Rep(kind, d) ==
  LET at == { i \in DOMAIN Known[kind] : Known[kind][i] \in d.types }
  IN  Known[kind][CHOOSE i \in at : \A j \in at : i <= j]

Column(d, rep, ref) ==
  [table |-> d.table, column |-> d.column, rep |-> rep, pk |-> d.pk, ref |-> ref]

\* A key or a reference that is a line of its own, or a reference without its
\* column, is lost.
extractSql(d) == Column(d, Rep("sql", d), IF d.inline THEN d.ref ELSE NoRef)

\* A reference is one of the field's own name, in no table.
extractPrisma(d) ==
  Column(d, Rep("prisma", d),
         IF d.inline THEN [table |-> Unset, column |-> d.column] ELSE NoRef)

extractDrizzleTs(d) == Column(d, Rep("drizzle", d), NoRef)

Extract(kind, d) ==
  CASE kind = "sql" -> extractSql(d)
    [] kind = "prisma" -> extractPrisma(d)
    [] kind = "drizzle" -> extractDrizzleTs(d)

\* The lines of a file that become columns, and the columns.
ColumnLines(file) ==
  FoldLeft(LAMBDA lines, d : IF IsColumn(file.kind, d) THEN Append(lines, d) ELSE lines,
           << >>, file.decls)

Extracted(file) ==
  [i \in 1 .. Len(ColumnLines(file)) |-> Extract(file.kind, ColumnLines(file)[i])]

\* A tree is a sequence of files, a file one of lines, and no column is the
\* mark for none.
SchemaCheckAssumption ==
  \A t \in Trees :
    /\ t \in Seq(ToSet(t))
    /\ \A file \in ToSet(t) :
         /\ file.kind \in Kinds
         /\ file.decls \in Seq(ToSet(file.decls))
         /\ NoRef \notin ToSet(Extracted(file))

-----------------------------------------------------------------------------
(* analyze, on the columns cs and a policy p.                              *)

UUIDLIKE(rep) == rep \in {"uuid", "char(36)", "varchar(36)"}
TEXTLIKE(rep) == rep \in {"text", "char(36)", "char(26)", "char(?)",
                          "varchar(36)", "varchar(26)", "varchar(?)"}

Default(v, d) == IF v = Unset THEN d ELSE v

classify(c, p) ==
  CASE c.column \in Public -> Default(p.public_ids, "ulid")
    [] c.column \in Idempotency -> Default(p.idempotency, "random128")
    [] c.column \notin Public \cup Idempotency /\ c.table \in Events /\ p.events # Unset -> p.events
    [] OTHER -> p.database

allowed(c, p) ==
  p.allow # Unset /\ \E a \in p.allow : a.table = c.table /\ a.column \in {c.column, "*"}

Finding(rule, severity, c) == [rule |-> rule, severity |-> severity, column |-> c]

\* Rules 1 to 3, on one column.
ColumnFindings(c, p) ==
  LET family == classify(c, p) IN
  (IF family = "uuidv7" /\ TEXTLIKE(c.rep)
     THEN { Finding("uuid-as-text", IF c.rep = "text" THEN "error" ELSE "warning", c) } ELSE {})
  \cup (IF c.rep = "text" THEN { Finding("unbounded-text-id", "warning", c) } ELSE {})
  \cup (IF family = "ulid" /\ UUIDLIKE(c.rep) /\ p.database = "ulid"
          THEN { Finding("ulid-as-uuid", "warning", c) } ELSE {})

Rules1to3(cs, p) ==
  UNION { ColumnFindings(cs[i], p) : i \in { j \in 1 .. Len(cs) : ~allowed(cs[j], p) } }

\* byKey: of two columns of one name the later one stays.
byKey(cs, ref) ==
  LET at == { j \in 1 .. Len(cs) : cs[j].table = ref.table /\ cs[j].column = ref.column }
  IN  IF at = {} THEN NoRef ELSE cs[CHOOSE j \in at : \A k \in at : k <= j]

\* Mutant: only the referencing column may be allowed.
Rule4_TargetIgnored(cs, p) ==
  { Finding("fk-mismatch", "error", cs[i]) : i \in { j \in 1 .. Len(cs) :
      /\ cs[j].ref # NoRef /\ ~allowed(cs[j], p)
      /\ LET target == byKey(cs, cs[j].ref)
         IN  target # NoRef /\ target.rep # cs[j].rep } }

\* Mutant: one pass, which knows only the columns already seen.
Rule4_SeenOnly(cs, p) ==
  { Finding("fk-mismatch", "error", cs[i]) : i \in { j \in 1 .. Len(cs) :
      /\ cs[j].ref # NoRef /\ ~allowed(cs[j], p)
      /\ LET target == byKey(SubSeq(cs, 1, j - 1), cs[j].ref)
         IN  target # NoRef /\ ~allowed(target, p) /\ target.rep # cs[j].rep } }

Rule4(cs, p) ==
  { Finding("fk-mismatch", "error", cs[i]) : i \in { j \in 1 .. Len(cs) :
      /\ cs[j].ref # NoRef /\ ~allowed(cs[j], p)
      /\ LET target == byKey(cs, cs[j].ref)
         IN  target # NoRef /\ ~allowed(target, p) /\ target.rep # cs[j].rep } }

Bucket(rep) ==
  CASE UUIDLIKE(rep) -> "uuid-like" [] TEXTLIKE(rep) /\ ~UUIDLIKE(rep) -> "text-like" [] OTHER -> rep

DriftKeys(cs, p) ==
  { j \in 1 .. Len(cs) : cs[j].pk /\ ~allowed(cs[j], p) /\ classify(cs[j], p) = p.database }

\* pkReps: a table's last key column decides.
Rule5(cs, p) ==
  LET keys == DriftKeys(cs, p)
      last == { j \in keys : \A k \in keys : cs[k].table = cs[j].table => k <= j }
  IN  IF p.database # Unset /\ Cardinality({ Bucket(cs[j].rep) : j \in last }) > 1
        THEN { Finding("pk-drift", "warning", NoRef) } ELSE {}

analyze(cs, p) == Rules1to3(cs, p) \cup Rule4(cs, p) \cup Rule5(cs, p)

-----------------------------------------------------------------------------
(* runCheck.                                                               *)

Unstarted ==
  /\ policy = Unset
  /\ todo = << >> /\ seen = << >> /\ cols = << >>
  /\ found = {} /\ printed = << >>
  /\ exit = Running

\* The arguments are the caller's.  A path that does not exist holds nothing.
Init ==
  /\ github \in BOOLEAN
  /\ tree \in Trees /\ stored \in Stores
  /\ NoRoot => tree = << >> /\ stored.at # "root"
  /\ Unstarted

\* What the variables are while no check is run.
NoCheck == github = FALSE /\ tree = << >> /\ stored = Unset /\ Unstarted

Started == policy # Unset

\* loadPolicy looks in the scan root.  A file that does not parse, or a scan
\* root that is not there, ends the run.
LoadPolicy ==
  /\ exit = Running /\ ~Started
  /\ IF NoRoot \/ (stored.at = "root" /\ ~stored.parses)
       THEN exit' = 2 /\ UNCHANGED << policy, todo >>
       ELSE /\ policy' = IF stored.at = "root" THEN stored.policy ELSE NoPolicy
            /\ todo' = tree
            /\ UNCHANGED exit
  /\ UNCHANGED << given, seen, cols, found, printed >>

ExtractFile ==
  /\ todo # << >>
  /\ cols' = cols \o Extracted(Head(todo))
  /\ seen' = Append(seen, Head(todo))
  /\ todo' = Tail(todo)
  /\ UNCHANGED << given, policy, found, printed, exit >>

\* readFileSync throws, and the file is passed over.
SkipFile ==
  /\ todo # << >>
  /\ todo' = Tail(todo)
  /\ UNCHANGED << given, policy, seen, cols, found, printed, exit >>

\* `allow:` without entries is read as an empty map, whose `map` is no
\* function: the rejection ends node with code 1.
Crashes == policy.allow = EmptyMap

Severe(f) == f.severity = "error" \/ strict

Printed(form, fs) == [form |-> form, tells |-> fs]

\* The report, and the annotations for GitHub beside a report in text.
Report(fs) ==
  IF json THEN << Printed("json", fs) >>
  ELSE << Printed("text", fs) >> \o (IF github THEN << Printed("annotations", fs) >> ELSE << >>)

Analyze ==
  /\ exit = Running /\ Started /\ todo = << >>
  /\ IF Crashes THEN exit' = 1 /\ UNCHANGED << found, printed >>
     ELSE /\ found' = analyze(cols, policy)
          /\ printed' = Report(found')
          /\ exit' = IF \E f \in found' : Severe(f) THEN 1 ELSE 0
  /\ UNCHANGED << given, policy, todo, seen, cols >>

runCheck == LoadPolicy \/ ExtractFile \/ SkipFile \/ Analyze

-----------------------------------------------------------------------------
(* Properties.                                                             *)

Analyzed == exit # Running /\ Started /\ ~Crashes

\* The columns that the policy does not allow.
Reportable(cs, p) ==
  FoldLeft(LAMBDA kept, c : IF allowed(c, p) THEN kept ELSE Append(kept, c), << >>, cs)

\* "Intentional conventions ... are never flagged" (cli/check.mjs:10-11): a
\* column the policy allows changes nothing, whether it would be reported
\* itself, is referenced by another one, or takes part in the comparison of
\* primary keys.  The report is the one of the schema without it.
AllowedAsAbsent ==
  Analyzed => found = analyze(Reportable(cols, policy), policy)

\* The columns of the files that could be read, in the order of the walk.
Readable == FlattenSeq([i \in 1 .. Len(seen) |-> Extracted(seen[i])])

\* Position k holds the last column that ref names.
LastNamed(cs, ref, k) ==
  /\ cs[k].table = ref.table /\ cs[k].column = ref.column
  /\ \A j \in k + 1 .. Len(cs) : ~(cs[j].table = ref.table /\ cs[j].column = ref.column)

\* An identifier column of an SQL file whose own line references a column
\* stored in another way fails the run unless one of the two is allowed:
\* whichever files they are in, whichever comes first, whatever other files
\* cannot be read.  Of several declarations of the column that is referenced,
\* the last one counts.
SqlMismatchFails ==
  Analyzed =>
    \A i \in 1 .. Len(seen) : seen[i].kind = "sql" =>
      \A c \in ToSet(seen[i].decls), k \in 1 .. Len(Readable) :
        /\ IsColumn("sql", c) /\ c.inline /\ c.ref # NoRef
        /\ LastNamed(Readable, c.ref, k)
        /\ Readable[k].rep # Rep("sql", c)
        /\ ~allowed(c, policy) /\ ~allowed(Readable[k], policy)
        => exit = 1

=============================================================================
