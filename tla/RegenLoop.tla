------------------------------ MODULE RegenLoop ------------------------------
(***************************************************************************)
(* The read path's background regeneration of the materialized history:    *)
(* triggerBackgroundRegeneration and runRegenLoop of MaterializedService.  *)
(*                                                                         *)
(* A reader whose cache is stale asks for portfolios to be regenerated     *)
(* from a date.  regenInFlight, guarded by regenMu, holds one entry per    *)
(* portfolio that has a loop goroutine: the earliest date asked for since  *)
(* the goroutine was started.  A request that finds an entry only lowers   *)
(* it, or is dropped; a request that finds none starts a goroutine.  The   *)
(* goroutine regenerates from the date it read, without regenMu, and then  *)
(* looks at the entry again.                                               *)
(*                                                                         *)
(* Here an attempt to regenerate is one step that succeeds or fails;       *)
(* module MaterializedCache says what happens inside it.                   *)
(***************************************************************************)
EXTENDS Integers, FiniteSets

CONSTANTS
  Portfolios,       \* portfolio identifiers
  NoPortfolio,      \* what a goroutine that is not running works on
  Loops,            \* identities of loop goroutines
  LastDate,         \* bound: calendar days are 0..LastDate
  maxRegenRetries   \* materialized_service.go: const maxRegenRetries = 3

ASSUME RegenLoopAssumption ==
  /\ LastDate \in Nat
  /\ maxRegenRetries \in Nat \ {0}
  /\ NoPortfolio \notin Portfolios

VARIABLES
  regenInFlight,    \* portfolio -> the date its entry holds, NoDate when it has none
  loop,             \* goroutine -> its program counter and local variables
  asked             \* history: the dates asked for since the portfolio's entry was made

loopVars == <<regenInFlight, loop, asked>>

Dates  == 0..LastDate
NoDate == LastDate + 1

\* "head": about to read the entry.  "regen": inside RegenerateMaterializedTable.
\* "check": about to compare the entry with startDate.  "abort": out of retries,
\* about to remove the entry.
LoopStates == [pc        : {"idle", "head", "regen", "check", "abort"},
               portfolio : Portfolios \cup {NoPortfolio},
               startDate : Dates,
               failures  : 0..maxRegenRetries]

IdleLoop   == [pc |-> "idle", portfolio |-> NoPortfolio, startDate |-> 0, failures |-> 0]
NewLoop(p) == [pc |-> "head", portfolio |-> p, startDate |-> 0, failures |-> 0]

Running(g) == loop[g].pc # "idle"

LoopInit ==
  /\ regenInFlight = [p \in Portfolios |-> NoDate]
  /\ loop  = [g \in Loops |-> IdleLoop]
  /\ asked = [p \in Portfolios |-> {}]

------------------------------------------------------------------------------
(* triggerBackgroundRegeneration(portfolioIDs, startDate)                  *)

NeverLowers(existing, d) == existing
Merge(existing, d)       == IF d < existing THEN d ELSE existing

StartsAlways(ps) == ps
HasNoEntry(ps)   == {p \in ps : regenInFlight[p] = NoDate}

\* The loop over portfolioIDs runs under regenMu; spawn gives a goroutine of its own
\* to every portfolio that had no entry.
Trigger(ps, d) ==
  LET toStart == HasNoEntry(ps) IN
  \E spawn \in [toStart -> {g \in Loops : ~Running(g)}] :
    /\ \A p, q \in toStart : spawn[p] = spawn[q] => p = q
    /\ regenInFlight' = [p \in Portfolios |->
                           IF p \in ps THEN Merge(regenInFlight[p], d) ELSE regenInFlight[p]]
    /\ loop' = [g \in Loops |-> IF \E p \in toStart : spawn[p] = g
                                THEN NewLoop(CHOOSE p \in toStart : spawn[p] = g)
                                ELSE loop[g]]
    /\ asked' = [p \in Portfolios |-> IF p \in ps THEN asked[p] \cup {d} ELSE asked[p]]

------------------------------------------------------------------------------
(* runRegenLoop(portfolioID)                                               *)

\* The goroutine returns after removing its portfolio's entry, in one critical section.
RemoveEntryAndReturn(g) ==
  LET p == loop[g].portfolio IN
  /\ regenInFlight' = [regenInFlight EXCEPT ![p] = NoDate]
  /\ asked' = [asked EXCEPT ![p] = {}]
  /\ loop'  = [loop EXCEPT ![g] = IdleLoop]

\* The head of the for loop: read the start date, or return when there is no entry.
ReadEntry(g) ==
  LET entry == regenInFlight[loop[g].portfolio] IN
  /\ loop[g].pc = "head"
  /\ loop' = [loop EXCEPT ![g] = IF entry = NoDate
                                 THEN IdleLoop
                                 ELSE [@ EXCEPT !.pc = "regen", !.startDate = entry]]
  /\ UNCHANGED <<regenInFlight, asked>>

AttemptSucceeds(g) ==
  /\ loop[g].pc = "regen"
  /\ loop' = [loop EXCEPT ![g].failures = 0, ![g].pc = "check"]
  /\ UNCHANGED <<regenInFlight, asked>>

AbortsOneLate(g) ==
  LET failures == loop[g].failures + 1 IN
  /\ loop[g].pc = "regen"
  /\ loop' = [loop EXCEPT ![g].failures = failures,
                          ![g].pc = IF failures > maxRegenRetries THEN "abort" ELSE "check"]
  /\ UNCHANGED <<regenInFlight, asked>>

AttemptFails(g) ==
  LET failures == loop[g].failures + 1 IN
  /\ loop[g].pc = "regen"
  /\ loop' = [loop EXCEPT ![g].failures = failures,
                          ![g].pc = IF failures >= maxRegenRetries THEN "abort" ELSE "check"]
  /\ UNCHANGED <<regenInFlight, asked>>

AbortLeavesEntry(g) ==
  /\ loop[g].pc = "abort"
  /\ loop' = [loop EXCEPT ![g] = IdleLoop]
  /\ UNCHANGED <<regenInFlight, asked>>

Abort(g) ==
  /\ loop[g].pc = "abort"
  /\ RemoveEntryAndReturn(g)

\* A missing entry reads as the zero time, which is before every date.
AskedEarlier(g) ==
  LET current == regenInFlight[loop[g].portfolio] IN
  current < loop[g].startDate \/ current = NoDate

ReturnAlways(g) ==
  /\ loop[g].pc = "check"
  /\ RemoveEntryAndReturn(g)

Return(g) ==
  /\ loop[g].pc = "check"
  /\ ~AskedEarlier(g)
  /\ RemoveEntryAndReturn(g)

AgainOnAnyOutcome(g) ==
  /\ loop[g].pc = "check"
  /\ AskedEarlier(g) \/ loop[g].failures > 0
  /\ loop' = [loop EXCEPT ![g].pc = "head"]
  /\ UNCHANGED <<regenInFlight, asked>>

GoAround(g) ==
  /\ loop[g].pc = "check"
  /\ AskedEarlier(g)
  /\ loop' = [loop EXCEPT ![g].pc = "head"]
  /\ UNCHANGED <<regenInFlight, asked>>

LoopStep(g) ==
  \/ ReadEntry(g)
  \/ AttemptSucceeds(g)
  \/ AttemptFails(g)
  \/ Abort(g)
  \/ Return(g)
  \/ GoAround(g)

LoopNext ==
  \/ \E ps \in (SUBSET Portfolios) \ {{}}, d \in Dates : Trigger(ps, d)
  \/ \E g \in Loops : LoopStep(g)

LoopSpec == LoopInit /\ [][LoopNext]_loopVars

\* A goroutine that can run does: the Go scheduler runs it, a mutex it waits for is
\* released after a few map operations, and a statement on the database returns.
\* Requests come from readers and are not fair.
FairLoopSpec == LoopSpec /\ \A g \in Loops : WF_loopVars(LoopStep(g))

------------------------------------------------------------------------------
(* Properties                                                              *)

LoopTypeOK ==
  /\ regenInFlight \in [Portfolios -> Dates \cup {NoDate}]
  /\ loop  \in [Loops -> LoopStates]
  /\ asked \in [Portfolios -> SUBSET Dates]

\* regenInFlight prevents duplicate jobs: two goroutines never work on one portfolio.
OneLoopPerPortfolio ==
  \A g, h \in Loops :
    g # h /\ Running(g) /\ Running(h) => loop[g].portfolio # loop[h].portfolio

\* An entry exists exactly while a goroutine serves it.  An entry left behind would
\* make every later request for the portfolio wait for a job that does not exist.
EntryMeansLoop ==
  \A p \in Portfolios :
    regenInFlight[p] # NoDate <=> \E g \in Loops : Running(g) /\ loop[g].portfolio = p

\* The entry is the earliest date asked for since it was made, so no request that was
\* merged into it is forgotten however the requests and the goroutine interleave.
EntryIsEarliestAsked ==
  \A p \in Portfolios :
    /\ regenInFlight[p] = NoDate => asked[p] = {}
    /\ regenInFlight[p] # NoDate => /\ regenInFlight[p] \in asked[p]
                                    /\ \A d \in asked[p] : regenInFlight[p] <= d

\* A goroutine goes around only for an earlier date: attempts on behalf of one entry
\* start at strictly decreasing dates, so the loop cannot spin.
AttemptsGoBackInTime ==
  [][\A g \in Loops :
       (loop[g].pc = "check" /\ loop'[g].pc = "head")
         => regenInFlight[loop[g].portfolio] < loop[g].startDate]_loopVars

\* Every entry is eventually removed: no portfolio is locked out of regeneration.
EntriesDrain ==
  \A p \in Portfolios : regenInFlight[p] # NoDate ~> regenInFlight[p] = NoDate

\* The goroutine of portfolio p, when it has one.
Serves(g, p)  == Running(g) /\ loop[g].portfolio = p
Attempted(p)  == \E g \in Loops : Serves(g, p) /\ loop[g].pc \in {"check", "abort"}
OfAttempt(p)  == loop[CHOOSE g \in Loops : Serves(g, p) /\ loop[g].pc \in {"check", "abort"}]

\* What is known of the latest attempt for p, and where it started when it succeeded.
Outcome(p) == IF ~Attempted(p) THEN "none" ELSE IF OfAttempt(p).failures > 0 THEN "failed" ELSE "done"
From(p)    == IF Outcome(p) = "done" THEN OfAttempt(p).startDate ELSE 0

\* The loop implements the contract the comments give a reader.
Requests == INSTANCE RegenRequests WITH
  pending <- asked,
  outcome <- [p \in Portfolios |-> Outcome(p)],
  from    <- [p \in Portfolios |-> From(p)]

MeetsRequestContract == Requests!Spec

\* The comment on maxRegenRetries: the number of consecutive failures before
\* runRegenLoop gives up.  A goroutine whose attempt failed ends only after that many.
GivesUpOnlyAfterMaxRetries ==
  [][\A g \in Loops :
       (Running(g) /\ loop'[g].pc = "idle" /\ loop[g].failures > 0)
         => loop[g].failures = maxRegenRetries]_loopVars
=============================================================================
