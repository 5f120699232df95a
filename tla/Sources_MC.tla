----------------------------- MODULE Sources_MC -----------------------------
(***************************************************************************)
(* An instance of Sources for TLC: what the threads do with the override,  *)
(* and two threads that generate.  The fixtures are seeded twins over five *)
(* milliseconds and three random parts, called three times each with       *)
(* timestamps that repeat and decrease.  Batches of up to two identifiers  *)
(* of two bytes are asked for: none, as many as fit, too many; buffers of  *)
(* no bytes, of a half identifier too much, of two.                        *)
(***************************************************************************)
EXTENDS Sources

CONSTANTS writer, reader   \* The threads.

(* Programs for the override: one embedder sets, replaces and clears it    *)
(* while the other thread reads; it is set twice and never cleared; both   *)
(* threads set it, see each other's values, and do not clear it.           *)

Set(ms) == [op |-> "set", ms |-> ms]
Clear   == [op |-> "clear"]
NowMs   == [op |-> "now"]

OneWriter == [t \in {writer, reader} |->
  IF t = writer THEN << NowMs, Set(7), NowMs, Set(9), NowMs, Clear, NowMs >>
                ELSE << NowMs, NowMs >>]
OnlySets == [t \in {writer, reader} |->
  IF t = writer THEN << Set(7), NowMs, Set(9) >> ELSE << NowMs, NowMs, NowMs >>]
TwoWriters == [t \in {writer, reader} |->
  IF t = writer THEN << Set(7), NowMs, NowMs >> ELSE << NowMs, Set(9), NowMs >>]

AllPrograms == {OneWriter, OnlySets, TwoWriters}

=============================================================================
