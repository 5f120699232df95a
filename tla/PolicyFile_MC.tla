--------------------------- MODULE PolicyFile_MC ---------------------------
(* PolicyFile on the policies of Policies.                                 *)
EXTENDS PolicyFile, Policies

=============================================================================
