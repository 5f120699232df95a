---------------------------- MODULE StrictStream ----------------------------
(***************************************************************************)
(* What a monotonic generator promises its callers, whatever its clock     *)
(* does: a stream of identifiers, each larger than every one before it     *)
(* (crates/core/src/monotonic.rs, lines 3-6: "strictly increasing values   *)
(* for successive calls").                                                 *)
(***************************************************************************)
EXTENDS Integers, Sequences

CONSTANT Values    \* What an identifier may be.

VARIABLE issued    \* The identifiers returned so far, in order.

Init == issued = << >>

Issue(id) ==
  /\ \A i \in 1 .. Len(issued) : issued[i] < id
  /\ issued' = Append(issued, id)

Next == \E id \in Values : Issue(id)

Spec == Init /\ [][Next]_issued

=============================================================================
