---------------------------- MODULE RegenRequests ----------------------------
(***************************************************************************)
(* What a reader may expect of background regeneration, without saying how *)
(* it is done.  A request stays pending until an attempt that starts no    *)
(* later than it has succeeded, or until the service gives up, which it    *)
(* may do only when its latest attempt failed.  This is the comment above  *)
(* triggerBackgroundRegeneration: an earlier request gets a follow-up job, *)
(* a later one is dropped because the job already covers it.               *)
(***************************************************************************)
EXTENDS Integers

CONSTANTS Portfolios, LastDate

VARIABLES
  pending,   \* portfolio -> the dates asked for and not settled
  outcome,   \* portfolio -> what is known of the latest attempt
  from       \* portfolio -> where that attempt started, when outcome is "done"

vars == <<pending, outcome, from>>

Dates == 0..LastDate

Init ==
  /\ pending = [p \in Portfolios |-> {}]
  /\ outcome = [p \in Portfolios |-> "none"]
  /\ from    = [p \in Portfolios |-> 0]

Request(ps, d) ==
  /\ pending' = [p \in Portfolios |-> IF p \in ps THEN pending[p] \cup {d} ELSE pending[p]]
  /\ UNCHANGED <<outcome, from>>

AttemptDone(p, d) ==
  /\ outcome[p] = "none" /\ pending[p] # {}
  /\ outcome' = [outcome EXCEPT ![p] = "done"]
  /\ from'    = [from EXCEPT ![p] = d]
  /\ UNCHANGED pending

AttemptFailed(p) ==
  /\ outcome[p] = "none" /\ pending[p] # {}
  /\ outcome' = [outcome EXCEPT ![p] = "failed"]
  /\ UNCHANGED <<pending, from>>

TryAgain(p) ==
  /\ outcome[p] # "none"
  /\ outcome' = [outcome EXCEPT ![p] = "none"]
  /\ from'    = [from EXCEPT ![p] = 0]
  /\ UNCHANGED pending

\* Every pending request of p is settled at once.
Settle(p) ==
  /\ \/ outcome[p] = "failed"
     \/ outcome[p] = "done" /\ \A d \in pending[p] : from[p] <= d
  /\ pending' = [pending EXCEPT ![p] = {}]
  /\ outcome' = [outcome EXCEPT ![p] = "none"]
  /\ from'    = [from EXCEPT ![p] = 0]

Next ==
  \/ \E ps \in SUBSET Portfolios, d \in Dates : Request(ps, d)
  \/ \E p \in Portfolios : \/ \E d \in Dates : AttemptDone(p, d)
                           \/ AttemptFailed(p)
                           \/ TryAgain(p)
                           \/ Settle(p)

Spec == Init /\ [][Next]_vars
=============================================================================
