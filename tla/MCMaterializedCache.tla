------------------------- MODULE MCMaterializedCache -------------------------
(***************************************************************************)
(* Model checking MaterializedCache.                                       *)
(*                                                                         *)
(* CacheWriters: two portfolios, the hooks and four write requests: for a  *)
(* trade to be allocated, moved to a portfolio with a history and taken    *)
(* back.  Two hooks, which such a move needs, and which can queue at       *)
(* regenWriteMu.  One day.  Nothing is left to do once the writes are      *)
(* spent, so the run may stop.                                             *)
(* CacheDays: one portfolio, two days and four writes, for the trade to be *)
(* moved to an earlier day.  Fair.                                         *)
(* CacheReaders: one portfolio, two days, two writes, so that one can fall *)
(* between the queries the other one caused, a hook and a loop that        *)
(* contend for the lock, and a clock with two readings.                    *)
(* CacheGap: three days, so that one can pass without a row.               *)
(***************************************************************************)
EXTENDS MaterializedCache, FiniteSets, TLC

\* Nothing distinguishes two portfolios or two goroutines of a kind.  Not for liveness.
Symmetry == Permutations(Portfolios) \cup Permutations(Hooks)

\* Bound: after the third write the tables hold two facts, after the fourth one.
FewFacts == writes <= 2 \/ Cardinality(source) + writes <= 5

\* Bound: they always do.
TwoFacts == Cardinality(source) <= 2
=============================================================================
