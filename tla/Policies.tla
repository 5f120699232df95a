------------------------------ MODULE Policies ------------------------------
(* Policies a project may write into .rivid.yml (cli/check.mjs, 10-21), in  *)
(* the form of PolicyFile: up to two or three sections, each a scalar or a *)
(* list of up to two entries.                                              *)
EXTENDS Integers

ScalarSections ==
  { [kind |-> "scalar", key |-> k, value |-> v] :
      k \in {"database", "events"}, v \in {"uuidv7", "ulid"} }

Distinct(p) == \A i, j \in DOMAIN p : p[i].key = p[j].key => i = j

PoliciesOf(Sections, size) ==
  { p \in UNION { [1 .. n -> Sections] : n \in 1 .. size } : Distinct(p) }

\* Entries with one key, or none.
Tables == { << "table", t >> : t \in {"users", "orders"} }
OneKey == { << e >> : e \in Tables \cup { << "none", "users" >> } }
Single == { << e >> : e \in OneKey } \cup (OneKey \X OneKey)

OneKeyPolicies ==
  PoliciesOf(ScalarSections \cup
    { [kind |-> "list", key |-> k, entries |-> es] : k \in {"allow", "extra"}, es \in Single }, 2)

\* The entries of the documented policy: a table and a column.
TwoKeys == << << "table", "users" >>, << "column", "id" >> >>

DocumentedPolicies ==
  PoliciesOf(ScalarSections \cup
    { [kind |-> "list", key |-> "allow", entries |-> es] :
        es \in { << TwoKeys >>, << TwoKeys, << << "table", "orders" >> >> >> } }, 3)

=============================================================================
