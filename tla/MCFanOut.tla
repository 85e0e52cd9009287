------------------------------ MODULE MCFanOut ------------------------------
(***************************************************************************)
(* Constants for model checking FanOut.                                     *)
(***************************************************************************)
EXTENDS FanOutTopic, TLC

\* A predicate that refuses what hooks send and tells a producer's messages
\* apart by their number: the first matches, the second makes it panic.
MCPredResult(p, m) ==
    CASE m[1] \in Subs -> "false"
      [] m[2] = 1      -> "true"
      [] m[2] = 2      -> "panic"
      [] OTHER         -> "false"

\* Interchangeable connections, producers and administrators (safety only).
SymSubs == Permutations(Subs) \cup Permutations(Producers)
SymSubsAdmins == Permutations(Subs) \cup Permutations(Admins)
=============================================================================
