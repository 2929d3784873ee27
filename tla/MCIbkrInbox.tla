----------------------------- MODULE MCIbkrInbox -----------------------------
(***************************************************************************)
(* Model checking IbkrInbox: one trade with a fee, so that it has two      *)
(* transactions and two allocation rows, two portfolios for them to move   *)
(* between, two rounds so that a transaction of the first can be left over *)
(* in the second, and two requests in flight, so that what one has read    *)
(* can be overtaken by what the other writes.                              *)
(***************************************************************************)
EXTENDS IbkrInbox, TLC

\* Bound: two requests overlap in the first round, one meets the second.
FewAtOnce == \A t \in Trades : round[t] + Cardinality(requests) <= 3

PortfolioSymmetry == Permutations(Portfolios)
=============================================================================
