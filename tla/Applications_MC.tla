-------------------------- MODULE Applications_MC --------------------------
(***************************************************************************)
(* An instance of Applications for TLC.  The command line and its schemas  *)
(* are those of Commands, with counts up to three and a JSON text that     *)
(* holds two identifiers.  The page has four clicks, a build two sources,  *)
(* two edits of each and three builds, a package two versions, one with a  *)
(* file less, and two runs.                                                *)
(***************************************************************************)
EXTENDS Commands

CONSTANTS
  a, b,            \* Callers of the Prisma extension,
  r1, r2, r3       \* and their rows.

(* Requests with one row, two, one that has a key, the same one twice, a   *)
(* single object where an array is expected, and of a model left alone.    *)

Request(model, isArray, data) == [model |-> model, isArray |-> isArray, data |-> data]

AllRequests ==
  { Request("User", TRUE, << r1 >>), Request("User", TRUE, << r1, r2 >>),
    Request("User", TRUE, << r3, r2 >>), Request("User", TRUE, << r2, r2 >>),
    Request("User", FALSE, << r1 >>), Request("Post", TRUE, << r1, r3 >>) }

TwoContents == << {"module", "snippet"}, {"module"} >>

=============================================================================
