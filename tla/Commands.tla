------------------------------ MODULE Commands ------------------------------
(* What `rivid` is called with, and the schemas and policies it finds:     *)
(* trees of up to two files with a column or two each.                     *)
EXTENDS Applications

Generations ==
  { << c >> \o options : c \in {"ulid", "uuidv7"}, options \in
      { << >>, << "--json" >>, << "--count" >>, << "--count", "x" >>, << "--count", "--json" >>,
        << "--count", "" >>, << "--monotonic", "--json" >>, << "-h", "--count", "9" >>,
        << "--count", "2", "--count", "1" >>, << "--monotonic" >> }
      \cup { << "--count", n >> \o more : n \in {"0", "1", "2", "3", "9"},
              more \in { << >>, << "--json" >>, << "--monotonic" >>, << "--json", "--monotonic" >> } } }

OfIds ==
  { << c >> \o ids : c \in {"decode", "validate"}, ids \in
      { << >>, << "" >>, << "A" >>, << "x" >>, << "A", "B" >>, << "x", "A" >>, << "A", "x" >>,
        << "x", "A", "" >>, << "A", "--help" >> } }

Checks == { << "check" >>, << "check", "sub", "--strict", "--json" >>, << "check", "nowhere" >> }

Others == { << >>, << "bytes16" >>, << "benchmark", "--quick" >>, << "version" >>, << "help" >>,
            << "--help" >>, << "-h" >>, << "help", "-h" >>, << "ulids" >> }

AllArgvs == Generations \cup OfIds \cup Checks \cup Others

\* Words: numbers, and others.  Number("") is 0.
Words == UNION { { v[i] : i \in 1 .. Len(v) } : v \in AllArgvs }

Numbers == [w \in Words |->
              CASE w = "" -> 0 [] w = "0" -> 0 [] w = "1" -> 1 [] w = "2" -> 2
                [] w = "3" -> 3 [] w = "9" -> 9 [] OTHER -> -1]

-----------------------------------------------------------------------------
UserId == [table |-> "users", column |-> "id"]

Line(t, c, types, pk, ref) ==
  [table |-> t, column |-> c, inside |-> TRUE, named |-> TRUE, types |-> types,
   pk |-> pk, ref |-> ref, inline |-> ref # NoRef]

Key(t, type) == Line(t, "id", {type}, TRUE, NoRef)
Reference(type, pk) == Line("orders", "user_id", {type}, pk, UserId)

Keys == { Key(t, type) : t \in {"users", "events"}, type \in {"uuid", "text"} }
References == { Reference(type, pk) : type \in {"uuid", "text"}, pk \in BOOLEAN }
Named == { Line("users", c, {"uuid"}, FALSE, NoRef) : c \in {"public_id", "idempotency_key"} }

\* Lines of which an extractor loses something: the key or the reference is a
\* line of its own, the name is no identifier's, the table is not closed as
\* expected, the line mentions no storage, or two.
Lossy ==
  { [Key("users", "text") EXCEPT !.pk = FALSE],
    [Reference("text", FALSE) EXCEPT !.inline = FALSE],
    [Reference("text", FALSE) EXCEPT !.column = "owner", !.named = FALSE],
    [Reference("text", FALSE) EXCEPT !.inside = FALSE],
    [Reference("text", FALSE) EXCEPT !.types = {}],
    [Reference("text", FALSE) EXCEPT !.types = {"varchar(36)", "text"}] }

One(kinds, decls) == [kind : kinds, decls : [1 .. 1 -> decls]]

\* A table that is declared twice, as by a migration.
Twice == { [kind |-> "sql", decls |-> << Key("users", "uuid"), Key("users", "text") >>] }

SchemaFiles == One({"sql"}, Keys \cup References \cup Named \cup Lossy) \cup Twice
           \cup One({"prisma"}, Keys \cup { Reference("text", FALSE) })
           \cup One({"drizzle"}, { Key("users", "varchar(?)"), Key("events", "uuid") })

SmallTrees == UNION { [1 .. k -> SchemaFiles] : k \in 0 .. 2 }

Allow(t, c) == [table |-> t, column |-> c]
Allows == { Unset, {Allow("users", "*")}, {Allow("orders", "user_id")},
            {Allow("users", "id"), Allow("events", "id")} }

Written == { [database |-> d, public_ids |-> u, idempotency |-> i, events |-> e, allow |-> a] :
               d \in {Unset, "uuidv7", "ulid"}, u \in {Unset, "uuidv7"}, i \in {Unset},
               e \in {Unset, "ulid"}, a \in Allows }

Nothing == [database |-> Unset, public_ids |-> Unset, idempotency |-> Unset,
            events |-> Unset, allow |-> Unset]

At(place, p, ok) == [at |-> place, policy |-> p, parses |-> ok]
Example == [Nothing EXCEPT !.database = "uuidv7"]

AllStores == { At("root", p, TRUE) : p \in Written }
               \cup { At("root", [Nothing EXCEPT !.allow = EmptyMap], TRUE),
                      At("root", Nothing, FALSE), At("parent", Example, TRUE),
                      At("nowhere", Nothing, TRUE) }

=============================================================================
