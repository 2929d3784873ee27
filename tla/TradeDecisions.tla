--------------------------- MODULE TradeDecisions ---------------------------
(***************************************************************************)
(* What a user of the inbox may rely on, without rows, uuids of imports,   *)
(* requests in flight or foreign keys.  There is one decision per trade,   *)
(* and the parts it was divided into are those of the decision in force:   *)
(* deciding again replaces all of them, taking the decision back removes   *)
(* all of them, and nothing else adds any.  A trade that is ignored stays  *)
(* so until its row is deleted.  Parts can be moved and removed one by     *)
(* one, and the last takes the decision with it.  What the foreign keys    *)
(* delete behind the inbox's back may cost a trade its decision for good.  *)
(***************************************************************************)

CONSTANTS Trades, Portfolios, Ids

VARIABLES
  decision,  \* trade -> what was decided about it
  parts      \* trade -> the parts that portfolios hold of it

vars == <<decision, parts>>

Parts == [id : Ids, portfolio : Portfolios]

Init ==
  /\ decision = [t \in Trades |-> "absent"]
  /\ parts    = [t \in Trades |-> {}]

\* Only a trade that has no row arrives: one that was decided about does not come back.
Arrive(T) ==
  /\ \A t \in T : decision[t] = "absent"
  /\ decision' = [t \in Trades |-> IF t \in T THEN "pending" ELSE decision[t]]
  /\ UNCHANGED parts

Settle(t, d, held) ==
  /\ decision' = [decision EXCEPT ![t] = d]
  /\ parts'    = [parts EXCEPT ![t] = held]

Decide(t, new) ==
  /\ decision[t] \in {"pending", "processed"}
  /\ new # {}
  /\ \A q \in new, old \in parts[t] : q.id # old.id
  /\ Settle(t, "processed", new)

TakeBack(t) == decision[t] = "processed" /\ Settle(t, "pending", {})

Ignore(t) == decision[t] = "pending" /\ Settle(t, "ignored", {})

Forget(t) == decision[t] \in {"pending", "ignored"} /\ Settle(t, "absent", {})

Lose(t) == decision[t] = "processed" /\ Settle(t, "lost", {})

Remove(t, q) ==
  LET rest == parts[t] \ {q} IN
  Settle(t, IF rest = {} THEN "pending" ELSE decision[t], rest)

Move(t, q, p) ==
  /\ parts' = [parts EXCEPT ![t] = (@ \ {q}) \cup {[id |-> q.id, portfolio |-> p]}]
  /\ UNCHANGED decision

\* A portfolio takes its parts with it.  A trade that has no other part is lost.
Close(p, lost) ==
  /\ \A t \in lost : decision[t] = "processed"
  /\ \A t \in Trades \ lost : decision[t] = "processed" => \E q \in parts[t] : q.portfolio # p
  /\ decision' = [t \in Trades |-> IF t \in lost THEN "lost" ELSE decision[t]]
  /\ parts'    = [t \in Trades |-> IF t \in lost THEN {} ELSE {q \in parts[t] : q.portfolio # p}]

Next ==
  \/ \E T \in SUBSET Trades : Arrive(T)
  \/ \E t \in Trades :
       \/ \E new \in SUBSET Parts : Decide(t, new)
       \/ TakeBack(t)
       \/ Ignore(t)
       \/ Forget(t)
       \/ Lose(t)
       \/ \E q \in parts[t] : Remove(t, q) \/ \E p \in Portfolios : Move(t, q, p)
  \/ \E p \in Portfolios, lost \in SUBSET Trades : Close(p, lost)

Spec == Init /\ [][Next]_vars
=============================================================================
