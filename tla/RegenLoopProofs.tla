--------------------------- MODULE RegenLoopProofs ---------------------------
(***************************************************************************)
(* Theorems about RegenLoop, for any portfolios, any number of goroutines, *)
(* any horizon and any retry limit.                                        *)
(*                                                                         *)
(* The inductive invariant adds four facts to the ones the runs check:     *)
(* a running goroutine works on a portfolio, it has not used up its        *)
(* retries unless it is aborting, it aborts only after a failure, and the  *)
(* date it regenerates from is no earlier than the entry, which only ever  *)
(* goes down while it runs.                                                *)
(***************************************************************************)
EXTENDS RegenLoop, TLAPS

LoopFacts ==
  \A g \in Loops :
    /\ Running(g) => loop[g].portfolio \in Portfolios
    /\ loop[g].pc \in {"head", "regen", "check"} => loop[g].failures < maxRegenRetries
    /\ loop[g].pc \in {"regen", "check", "abort"}
         => regenInFlight[loop[g].portfolio] <= loop[g].startDate
    /\ loop[g].pc = "abort" => loop[g].failures > 0

LoopInv ==
  /\ LoopTypeOK
  /\ OneLoopPerPortfolio
  /\ EntryMeansLoop
  /\ EntryIsEarliestAsked
  /\ LoopFacts

\* A service that has just been created satisfies the invariant.
LEMMA LoopInvInit == LoopInit => LoopInv
<1> SUFFICES ASSUME LoopInit PROVE LoopInv
  OBVIOUS
<1> USE RegenLoopAssumption DEF LoopInit, IdleLoop, Running, Dates, NoDate
<1>1. LoopTypeOK
  BY DEF LoopTypeOK, LoopStates
<1>2. OneLoopPerPortfolio /\ EntryMeansLoop /\ EntryIsEarliestAsked /\ LoopFacts
  BY DEF OneLoopPerPortfolio, EntryMeansLoop, EntryIsEarliestAsked, LoopFacts
<1>3. QED
  BY <1>1, <1>2 DEF LoopInv

\* A request keeps the invariant: it makes an entry and starts a goroutine for the
\* portfolios that had neither, and lowers the entries of the others.
LEMMA TriggerKeepsInv ==
  ASSUME LoopInv, NEW ps \in SUBSET Portfolios, NEW d \in Dates, Trigger(ps, d)
  PROVE  LoopInv'
<1> DEFINE toStart == {p \in ps : regenInFlight[p] = NoDate}
<1> USE RegenLoopAssumption DEF Dates, NoDate
<1>1. PICK spawn \in [toStart -> {g \in Loops : ~Running(g)}] :
        /\ \A p, q \in toStart : spawn[p] = spawn[q] => p = q
        /\ regenInFlight' = [p \in Portfolios |->
              IF p \in ps THEN Merge(regenInFlight[p], d) ELSE regenInFlight[p]]
        /\ loop' = [g \in Loops |-> IF \E p \in toStart : spawn[p] = g
                                    THEN NewLoop(CHOOSE p \in toStart : spawn[p] = g)
                                    ELSE loop[g]]
        /\ asked' = [p \in Portfolios |-> IF p \in ps THEN asked[p] \cup {d} ELSE asked[p]]
  BY DEF Trigger, HasNoEntry
<1> HIDE DEF toStart
<1>2. /\ toStart \subseteq ps
      /\ \A p \in ps : p \in toStart <=> regenInFlight[p] = NoDate
  BY DEF toStart
<1>3. \A p \in toStart : /\ spawn[p] \in Loops /\ ~Running(spawn[p])
                         /\ loop'[spawn[p]] = NewLoop(p)
  <2> TAKE p \in toStart
  <2>1. spawn[p] \in Loops /\ ~Running(spawn[p])
    BY <1>1
  <2>2. (CHOOSE q \in toStart : spawn[q] = spawn[p]) = p
    BY <1>1
  <2>3. QED
    BY <2>1, <2>2, <1>1
<1>4. \A g \in Loops : \/ \E p \in toStart : spawn[p] = g /\ loop'[g] = NewLoop(p)
                       \/ (\A p \in toStart : spawn[p] # g) /\ loop'[g] = loop[g]
  BY <1>1, <1>3
<1>5. LoopTypeOK
  BY DEF LoopInv
<1>6. \A p \in Portfolios : /\ p \in ps => /\ asked'[p] = asked[p] \cup {d}
                                           /\ regenInFlight'[p] \in Dates
                                           /\ regenInFlight'[p] <= regenInFlight[p]
                                           /\ regenInFlight'[p] <= d
                                           /\ regenInFlight'[p] \in {regenInFlight[p], d}
                            /\ p \notin ps => /\ asked'[p] = asked[p]
                                              /\ regenInFlight'[p] = regenInFlight[p]
  BY <1>1, <1>5 DEF LoopTypeOK, Merge
<1>7. LoopTypeOK'
  <2>1. regenInFlight' \in [Portfolios -> Dates \cup {NoDate}]
    BY <1>1, <1>5 DEF LoopTypeOK, Merge
  <2>2. ASSUME NEW g \in Loops PROVE loop'[g] \in LoopStates
    <3>1. \A p \in Portfolios : NewLoop(p) \in LoopStates
      BY DEF LoopStates, NewLoop
    <3>2. loop[g] \in LoopStates
      BY <1>5 DEF LoopTypeOK
    <3>3. QED
      BY <3>1, <3>2, <1>2, <1>4
  <2>3. loop' \in [Loops -> LoopStates]
    BY <1>1, <2>2
  <2>4. asked' \in [Portfolios -> SUBSET Dates]
    BY <1>1, <1>5 DEF LoopTypeOK
  <2>5. QED
    BY <2>1, <2>3, <2>4 DEF LoopTypeOK
<1>8. OneLoopPerPortfolio'
  <2> SUFFICES ASSUME NEW g \in Loops, NEW h \in Loops, g # h, Running(g)', Running(h)'
               PROVE  loop'[g].portfolio # loop'[h].portfolio
    BY DEF OneLoopPerPortfolio
  <2>1. \A x \in Loops, p \in toStart : Running(x) => loop[x].portfolio # p
    BY <1>2 DEF LoopInv, EntryMeansLoop
  <2>2. CASE \E p \in toStart : spawn[p] = g
    BY <2>2, <2>1, <1>4, <1>1 DEF NewLoop, Running
  <2>3. CASE \E p \in toStart : spawn[p] = h
    BY <2>3, <2>1, <1>4, <1>1 DEF NewLoop, Running
  <2>4. CASE (\A p \in toStart : spawn[p] # g) /\ (\A p \in toStart : spawn[p] # h)
    BY <2>4, <1>4 DEF LoopInv, OneLoopPerPortfolio, Running
  <2>5. QED
    BY <2>2, <2>3, <2>4
<1>9. EntryMeansLoop'
  <2> SUFFICES ASSUME NEW p \in Portfolios
               PROVE  regenInFlight'[p] # NoDate
                        <=> \E g \in Loops : Running(g)' /\ loop'[g].portfolio = p
    BY DEF EntryMeansLoop
  <2>1. CASE p \in toStart
    <3> DEFINE g == spawn[p]
    <3>1. g \in Loops /\ loop'[g] = NewLoop(p)
      BY <2>1, <1>3
    <3> HIDE DEF g
    <3>4. Running(g)' /\ loop'[g].portfolio = p
      BY <3>1 DEF NewLoop, Running
    <3>2. regenInFlight'[p] # NoDate
      BY <2>1, <1>2, <1>6
    <3>3. QED
      BY <3>1, <3>2, <3>4
  <2>2. CASE p \notin toStart
    <3>1. regenInFlight'[p] # NoDate <=> regenInFlight[p] # NoDate
      BY <2>2, <1>2, <1>6
    <3>2. ASSUME NEW g \in Loops
          PROVE  (Running(g)' /\ loop'[g].portfolio = p)
                   <=> (Running(g) /\ loop[g].portfolio = p)
      <4>1. CASE \E q \in toStart : spawn[q] = g /\ loop'[g] = NewLoop(q)
        <5>1. ~Running(g)
          BY <4>1, <1>3
        <5>2. loop'[g].portfolio # p
          BY <4>1, <2>2 DEF NewLoop
        <5>3. QED
          BY <5>1, <5>2
      <4>2. CASE loop'[g] = loop[g]
        BY <4>2 DEF Running
      <4>3. QED
        BY <4>1, <4>2, <1>4
    <3>3. QED
      BY <3>1, <3>2 DEF LoopInv, EntryMeansLoop
  <2>3. QED
    BY <2>1, <2>2
<1>10. EntryIsEarliestAsked'
  <2> SUFFICES ASSUME NEW p \in Portfolios
               PROVE  /\ regenInFlight'[p] = NoDate => asked'[p] = {}
                      /\ regenInFlight'[p] # NoDate
                           => /\ regenInFlight'[p] \in asked'[p]
                              /\ \A e \in asked'[p] : regenInFlight'[p] <= e
    BY DEF EntryIsEarliestAsked
  <2>1. CASE p \notin ps
    BY <2>1, <1>6 DEF LoopInv, EntryIsEarliestAsked
  <2>2. CASE p \in ps
    <3>1. regenInFlight[p] \in Dates \cup {NoDate} /\ asked[p] \subseteq Dates
      BY <1>5 DEF LoopTypeOK
    <3>2. regenInFlight'[p] \in asked'[p]
      BY <2>2, <3>1, <1>6 DEF LoopInv, EntryIsEarliestAsked
    <3>3. \A e \in asked'[p] : regenInFlight'[p] <= e
      BY <2>2, <3>1, <1>6 DEF LoopInv, EntryIsEarliestAsked
    <3>4. QED
      BY <2>2, <3>2, <3>3, <1>6
  <2>3. QED
    BY <2>1, <2>2
<1>11. LoopFacts'
  <2> SUFFICES ASSUME NEW g \in Loops
               PROVE  /\ Running(g)' => loop'[g].portfolio \in Portfolios
                      /\ loop'[g].pc \in {"head", "regen", "check"}
                           => loop'[g].failures < maxRegenRetries
                      /\ loop'[g].pc \in {"regen", "check", "abort"}
                           => regenInFlight'[loop'[g].portfolio] <= loop'[g].startDate
                      /\ loop'[g].pc = "abort" => loop'[g].failures > 0
    BY DEF LoopFacts
  <2>1. CASE \E p \in toStart : spawn[p] = g /\ loop'[g] = NewLoop(p)
    BY <2>1, <1>2 DEF NewLoop, Running
  <2>2. CASE loop'[g] = loop[g]
    <3>1. Running(g) => loop[g].portfolio \in Portfolios
      BY DEF LoopInv, LoopFacts
    <3>2. \A p \in Portfolios : regenInFlight'[p] <= regenInFlight[p]
      BY <1>6, <1>5 DEF LoopTypeOK
    <3>3. \A p \in Portfolios : regenInFlight[p] \in Int /\ regenInFlight'[p] \in Int
      BY <1>5, <1>7 DEF LoopTypeOK
    <3>4. loop[g].startDate \in Int
      BY <1>5 DEF LoopTypeOK, LoopStates
    <3>5. loop[g].pc \in {"regen", "check", "abort"}
            => regenInFlight'[loop[g].portfolio] <= loop[g].startDate
      BY <3>1, <3>2, <3>3, <3>4 DEF LoopInv, LoopFacts, Running
    <3>6. QED
      BY <2>2, <3>1, <3>5 DEF LoopInv, LoopFacts, Running
  <2>3. QED
    BY <2>1, <2>2, <1>4
<1>12. QED
  BY <1>7, <1>8, <1>9, <1>10, <1>11 DEF LoopInv

\* A step of a running goroutine that leaves the entries alone keeps the invariant when
\* its new local state satisfies the facts about one goroutine.
LEMMA LocalStepKeepsInv ==
  ASSUME LoopInv, NEW g \in Loops, NEW s \in LoopStates, Running(g),
         loop' = [loop EXCEPT ![g] = s], UNCHANGED <<regenInFlight, asked>>,
         s.pc # "idle", s.portfolio = loop[g].portfolio,
         s.pc \in {"head", "regen", "check"} => s.failures < maxRegenRetries,
         s.pc \in {"regen", "check", "abort"} => regenInFlight[s.portfolio] <= s.startDate,
         s.pc = "abort" => s.failures > 0
  PROVE  LoopInv'
<1>1. loop \in [Loops -> LoopStates]
  BY DEF LoopInv, LoopTypeOK
<1>2. loop'[g] = s /\ \A h \in Loops : h # g => loop'[h] = loop[h]
  BY <1>1
<1>3. \A h \in Loops : /\ Running(h)' <=> Running(h)
                       /\ loop'[h].portfolio = loop[h].portfolio
  BY <1>2 DEF Running
<1>4. LoopTypeOK'
  BY <1>1 DEF LoopInv, LoopTypeOK
<1>5. OneLoopPerPortfolio'
  BY <1>3 DEF LoopInv, OneLoopPerPortfolio
<1>6. EntryMeansLoop'
  BY <1>3 DEF LoopInv, EntryMeansLoop
<1>7. EntryIsEarliestAsked'
  BY DEF LoopInv, EntryIsEarliestAsked
<1>8. LoopFacts'
  BY <1>2, <1>3 DEF LoopInv, LoopFacts
<1>9. QED
  BY <1>4, <1>5, <1>6, <1>7, <1>8 DEF LoopInv

\* Removing the entry and returning, in one critical section, keeps the invariant.
LEMMA RemoveEntryKeepsInv ==
  ASSUME LoopInv, NEW g \in Loops, Running(g), RemoveEntryAndReturn(g)
  PROVE  LoopInv'
<1> DEFINE p == loop[g].portfolio
<1> USE RegenLoopAssumption
<1>1. p \in Portfolios
  BY DEF LoopInv, LoopFacts
<1>2. LoopTypeOK
  BY DEF LoopInv
<1>3. /\ regenInFlight'[p] = NoDate /\ asked'[p] = {}
      /\ \A q \in Portfolios : q # p => /\ regenInFlight'[q] = regenInFlight[q]
                                        /\ asked'[q] = asked[q]
  BY <1>1, <1>2 DEF RemoveEntryAndReturn, LoopTypeOK
<1>4. loop'[g] = IdleLoop /\ \A h \in Loops : h # g => loop'[h] = loop[h]
  BY <1>2 DEF RemoveEntryAndReturn, LoopTypeOK
<1>5. ~Running(g)' /\ \A h \in Loops : h # g => (Running(h)' <=> Running(h))
  BY <1>4 DEF IdleLoop, Running
<1>6. \A h \in Loops : Running(h)' => h # g /\ Running(h) /\ loop'[h].portfolio # p
  BY <1>4, <1>5 DEF LoopInv, OneLoopPerPortfolio
<1>7. LoopTypeOK'
  <2>1. regenInFlight' \in [Portfolios -> Dates \cup {NoDate}] /\ asked' \in [Portfolios -> SUBSET Dates]
    BY <1>1, <1>2 DEF RemoveEntryAndReturn, LoopTypeOK
  <2>2. IdleLoop \in LoopStates
    BY DEF IdleLoop, LoopStates, Dates
  <2>3. loop' \in [Loops -> LoopStates]
    BY <1>2, <2>2 DEF RemoveEntryAndReturn, LoopTypeOK
  <2>4. QED
    BY <2>1, <2>3 DEF LoopTypeOK
<1>8. OneLoopPerPortfolio'
  BY <1>4, <1>6 DEF LoopInv, OneLoopPerPortfolio
<1>9. EntryMeansLoop'
  <2> SUFFICES ASSUME NEW q \in Portfolios
               PROVE  regenInFlight'[q] # NoDate
                        <=> \E h \in Loops : Running(h)' /\ loop'[h].portfolio = q
    BY DEF EntryMeansLoop, NoDate
  <2>1. CASE q = p
    BY <2>1, <1>3, <1>6
  <2>2. CASE q # p
    <3>1. regenInFlight'[q] = regenInFlight[q]
      BY <2>2, <1>3
    <3>2. \A h \in Loops : Running(h)' /\ loop'[h].portfolio = q
                             <=> Running(h) /\ loop[h].portfolio = q
      BY <2>2, <1>4, <1>5
    <3>3. QED
      BY <3>1, <3>2 DEF LoopInv, EntryMeansLoop
  <2>3. QED
    BY <2>1, <2>2
<1>10. EntryIsEarliestAsked'
  <2>1. \A q \in Portfolios : \/ regenInFlight'[q] = NoDate /\ asked'[q] = {}
                              \/ regenInFlight'[q] = regenInFlight[q] /\ asked'[q] = asked[q]
    BY <1>3
  <2>2. QED
    BY <2>1 DEF LoopInv, EntryIsEarliestAsked, NoDate
<1>11. LoopFacts'
  <2> SUFFICES ASSUME NEW h \in Loops
               PROVE  /\ Running(h)' => loop'[h].portfolio \in Portfolios
                      /\ loop'[h].pc \in {"head", "regen", "check"}
                           => loop'[h].failures < maxRegenRetries
                      /\ loop'[h].pc \in {"regen", "check", "abort"}
                           => regenInFlight'[loop'[h].portfolio] <= loop'[h].startDate
                      /\ loop'[h].pc = "abort" => loop'[h].failures > 0
    BY DEF LoopFacts
  <2>1. CASE h = g
    BY <2>1, <1>4 DEF IdleLoop, Running
  <2>2. CASE h # g /\ ~Running(h)
    BY <2>2, <1>4 DEF Running
  <2>3. CASE h # g /\ Running(h)
    <3>1. /\ loop'[h] = loop[h] /\ loop[h].portfolio \in Portfolios
          /\ loop[h].portfolio # p
      BY <2>3, <1>4, <1>6, <1>5 DEF LoopInv, LoopFacts
    <3>2. regenInFlight'[loop[h].portfolio] = regenInFlight[loop[h].portfolio]
      BY <3>1, <1>3
    <3>3. QED
      BY <3>1, <3>2 DEF LoopInv, LoopFacts, Running
  <2>4. QED
    BY <2>1, <2>2, <2>3
<1>12. QED
  BY <1>7, <1>8, <1>9, <1>10, <1>11 DEF LoopInv

\* Every step of a goroutine keeps the invariant.
LEMMA LoopStepKeepsInv ==
  ASSUME LoopInv, NEW g \in Loops, LoopStep(g)
  PROVE  LoopInv'
<1> USE RegenLoopAssumption
<1> DEFINE l == loop[g]
           entry == regenInFlight[l.portfolio]
<1>1. l \in LoopStates /\ Running(g)
  BY DEF LoopInv, LoopTypeOK, LoopStep, ReadEntry, AttemptSucceeds, AttemptFails, Abort,
         Return, GoAround, Running
<1>2. /\ l.portfolio \in Portfolios
      /\ entry # NoDate /\ entry \in Dates
  <2>1. l.portfolio \in Portfolios
    BY <1>1 DEF LoopInv, LoopFacts
  <2>2. entry # NoDate
    BY <1>1, <2>1 DEF LoopInv, EntryMeansLoop
  <2>3. entry \in Dates \cup {NoDate}
    BY <2>1 DEF LoopInv, LoopTypeOK
  <2>4. QED
    BY <2>1, <2>2, <2>3
<1>3. /\ l.pc \in {"head", "regen", "check"} => l.failures < maxRegenRetries
      /\ l.pc \in {"regen", "check", "abort"} => entry <= l.startDate
  BY <1>1 DEF LoopInv, LoopFacts
<1>4. CASE ReadEntry(g)
  <2> DEFINE s == [l EXCEPT !.pc = "regen", !.startDate = entry]
  <2>1. /\ s \in LoopStates /\ s.pc = "regen" /\ s.portfolio = l.portfolio
        /\ s.failures = l.failures /\ s.startDate = entry
    BY <1>1, <1>2 DEF LoopStates
  <2>2. l.pc = "head" /\ loop' = [loop EXCEPT ![g] = s] /\ UNCHANGED <<regenInFlight, asked>>
    BY <1>4, <1>2 DEF ReadEntry
  <2>3. entry <= entry
    BY <1>2 DEF Dates
  <2> HIDE DEF s
  <2>4. QED
    BY <2>1, <2>2, <2>3, <1>1, <1>3, LocalStepKeepsInv
<1>5. CASE AttemptSucceeds(g)
  <2> DEFINE s == [l EXCEPT !.failures = 0, !.pc = "check"]
  <2>0. 0 \in 0..maxRegenRetries
    OBVIOUS
  <2>1. s \in LoopStates
    BY <1>1, <2>0 DEF LoopStates
  <2>5. /\ s.pc = "check" /\ s.portfolio = l.portfolio
        /\ s.failures = 0 /\ s.startDate = l.startDate
    BY <1>1 DEF LoopStates
  <2>2. l.pc = "regen" /\ loop' = [loop EXCEPT ![g] = s] /\ UNCHANGED <<regenInFlight, asked>>
    BY <1>5 DEF AttemptSucceeds
  <2>3. 0 < maxRegenRetries
    OBVIOUS
  <2> HIDE DEF s
  <2>4. QED
    BY <2>1, <2>2, <2>3, <2>5, <1>1, <1>3, LocalStepKeepsInv
<1>6. CASE AttemptFails(g)
  <2> DEFINE f == l.failures + 1
             s == [l EXCEPT !.failures = f,
                            !.pc = IF f >= maxRegenRetries THEN "abort" ELSE "check"]
  <2>1. l.pc = "regen" /\ loop' = [loop EXCEPT ![g] = s] /\ UNCHANGED <<regenInFlight, asked>>
    BY <1>6 DEF AttemptFails
  <2>2. f \in 0..maxRegenRetries /\ f > 0
    BY <1>1, <1>3, <2>1 DEF LoopStates
  <2> HIDE DEF f
  <2>5. /\ s.pc = IF f >= maxRegenRetries THEN "abort" ELSE "check"
        /\ s.portfolio = l.portfolio /\ s.startDate = l.startDate /\ s.failures = f
    BY <1>1 DEF LoopStates
  <2>6. s \in LoopStates
    <3>1. (IF f >= maxRegenRetries THEN "abort" ELSE "check") \in {"check", "abort"}
      OBVIOUS
    <3>2. QED
      BY <1>1, <2>2, <3>1 DEF LoopStates
  <2>3. /\ s \in LoopStates /\ s.pc \in {"check", "abort"} /\ s.portfolio = l.portfolio
        /\ s.pc = "check" => s.failures < maxRegenRetries
        /\ s.failures > 0
        /\ s.startDate = l.startDate
    BY <2>2, <2>5, <2>6
  <2> HIDE DEF s
  <2>4. QED
    BY <2>1, <2>3, <1>1, <1>3, LocalStepKeepsInv
<1>7. CASE Abort(g)
  BY <1>1, <1>7, RemoveEntryKeepsInv DEF Abort
<1>8. CASE Return(g)
  BY <1>1, <1>8, RemoveEntryKeepsInv DEF Return
<1>9. CASE GoAround(g)
  <2> DEFINE s == [l EXCEPT !.pc = "head"]
  <2>1. /\ s \in LoopStates /\ s.pc = "head" /\ s.portfolio = l.portfolio
        /\ s.failures = l.failures
    BY <1>1 DEF LoopStates
  <2>2. l.pc = "check" /\ loop' = [loop EXCEPT ![g] = s] /\ UNCHANGED <<regenInFlight, asked>>
    BY <1>9 DEF GoAround
  <2> HIDE DEF s
  <2>3. QED
    BY <2>1, <2>2, <1>1, <1>3, LocalStepKeepsInv
<1>10. QED
  BY <1>4, <1>5, <1>6, <1>7, <1>8, <1>9 DEF LoopStep

\* The invariant is inductive.
LEMMA LoopInvStep == LoopInv /\ [LoopNext]_loopVars => LoopInv'
<1> SUFFICES ASSUME LoopInv, [LoopNext]_loopVars PROVE LoopInv'
  OBVIOUS
<1>1. CASE UNCHANGED loopVars
  BY <1>1 DEF LoopInv, LoopTypeOK, OneLoopPerPortfolio, EntryMeansLoop, EntryIsEarliestAsked,
              LoopFacts, Running, loopVars
<1>2. ASSUME NEW ps \in (SUBSET Portfolios) \ {{}}, NEW d \in Dates, Trigger(ps, d)
      PROVE  LoopInv'
  BY <1>2, TriggerKeepsInv
<1>3. ASSUME NEW g \in Loops, LoopStep(g)
      PROVE  LoopInv'
  BY <1>3, LoopStepKeepsInv
<1>4. QED
  BY <1>1, <1>2, <1>3 DEF LoopNext

\* The parts that make the loop protocol correct hold together, and only together: that a
\* goroutine's entry is there when it looks needs all of them.
THEOREM LoopInvariance == LoopSpec => []LoopInv
  BY LoopInvInit, LoopInvStep, PTL DEF LoopSpec

\* Every variable of the loop protocol keeps its type.
THEOREM LoopTypeCorrect == LoopSpec => []LoopTypeOK
<1>1. LoopInv => LoopTypeOK
  BY DEF LoopInv
<1>2. QED
  BY <1>1, LoopInvariance, PTL

\* regenInFlight keeps two goroutines off one portfolio.
THEOREM NoDuplicateJobs == LoopSpec => []OneLoopPerPortfolio
<1>1. LoopInv => OneLoopPerPortfolio
  BY DEF LoopInv
<1>2. QED
  BY <1>1, LoopInvariance, PTL

\* An entry of regenInFlight exists exactly while a goroutine serves it.
THEOREM NoOrphanEntry == LoopSpec => []EntryMeansLoop
<1>1. LoopInv => EntryMeansLoop
  BY DEF LoopInv
<1>2. QED
  BY <1>1, LoopInvariance, PTL

\* The entry is the earliest date asked for since it was made.
THEOREM NoForgottenRequest == LoopSpec => []EntryIsEarliestAsked
<1>1. LoopInv => EntryIsEarliestAsked
  BY DEF LoopInv
<1>2. QED
  BY <1>1, LoopInvariance, PTL

\* A goroutine goes around only to start at an earlier date.
THEOREM AttemptsDescend == LoopSpec => AttemptsGoBackInTime
<1> DEFINE A == \A g \in Loops :
                  (loop[g].pc = "check" /\ loop'[g].pc = "head")
                    => regenInFlight[loop[g].portfolio] < loop[g].startDate
<1>1. LoopInv /\ [LoopNext]_loopVars => [A]_loopVars
  <2> SUFFICES ASSUME LoopInv, LoopNext, NEW g \in Loops,
                      loop[g].pc = "check", loop'[g].pc = "head"
               PROVE  regenInFlight[loop[g].portfolio] < loop[g].startDate
    BY DEF loopVars
  <2>1. loop \in [Loops -> LoopStates]
    BY DEF LoopInv, LoopTypeOK
  <2>2. /\ loop[g].portfolio \in Portfolios
        /\ regenInFlight[loop[g].portfolio] # NoDate
    BY DEF LoopInv, LoopFacts, EntryMeansLoop, Running
  <2>3. CASE \E ps \in (SUBSET Portfolios) \ {{}}, d \in Dates : Trigger(ps, d)
    <3>1. PICK ps \in SUBSET Portfolios, d \in Dates : Trigger(ps, d)
      BY <2>3
    <3>2. loop'[g] = loop[g]
      BY <3>1 DEF Trigger, Running
    <3>3. QED
      BY <3>2
  <2>4. ASSUME NEW h \in Loops, LoopStep(h)
        PROVE  h = g /\ GoAround(g)
    <3>1. h = g
      BY <2>1, <2>4 DEF LoopStep, ReadEntry, AttemptSucceeds, AttemptFails, Abort, Return,
                        GoAround, RemoveEntryAndReturn
    <3>2. ~ReadEntry(g) /\ ~AttemptSucceeds(g) /\ ~AttemptFails(g) /\ ~Abort(g)
      BY DEF ReadEntry, AttemptSucceeds, AttemptFails, Abort
    <3>3. ~Return(g)
      BY <2>1 DEF Return, RemoveEntryAndReturn, IdleLoop
    <3>4. QED
      BY <2>4, <3>1, <3>2, <3>3 DEF LoopStep
  <2>5. QED
    BY <2>2, <2>3, <2>4 DEF LoopNext, GoAround, AskedEarlier
<1>2. QED
  BY <1>1, LoopInvariance, PTL DEF LoopSpec, AttemptsGoBackInTime

------------------------------------------------------------------------------
(* The loop implements the contract of module RegenRequests                *)

\* What the contract sees of a portfolio is the state of the goroutine that serves it.
SeesLoop(p) ==
  /\ \A g \in Loops : Serves(g, p) =>
       /\ Outcome(p) = IF loop[g].pc \in {"check", "abort"}
                       THEN IF loop[g].failures > 0 THEN "failed" ELSE "done"
                       ELSE "none"
       /\ From(p) = IF loop[g].pc \in {"check", "abort"} /\ ~(loop[g].failures > 0)
                    THEN loop[g].startDate ELSE 0
  /\ (\A g \in Loops : ~Serves(g, p)) => Outcome(p) = "none" /\ From(p) = 0

SeesLoops == \A p \in Portfolios : SeesLoop(p)

\* It sees that in every state of the invariant.
LEMMA ContractSeesLoops == LoopInv => SeesLoops
<1> SUFFICES ASSUME LoopInv, NEW p \in Portfolios PROVE SeesLoop(p)
  BY DEF SeesLoops
<1>1. \A g, h \in Loops : Serves(g, p) /\ Serves(h, p) => g = h
  BY DEF LoopInv, OneLoopPerPortfolio, Serves
<1>2. ASSUME NEW g \in Loops, Serves(g, p)
      PROVE  /\ Outcome(p) = IF loop[g].pc \in {"check", "abort"}
                             THEN IF loop[g].failures > 0 THEN "failed" ELSE "done"
                             ELSE "none"
             /\ From(p) = IF loop[g].pc \in {"check", "abort"} /\ ~(loop[g].failures > 0)
                          THEN loop[g].startDate ELSE 0
  <2>1. CASE loop[g].pc \in {"check", "abort"}
    <3>1. Attempted(p)
      BY <1>2, <2>1 DEF Attempted
    <3>2. (CHOOSE x \in Loops : Serves(x, p) /\ loop[x].pc \in {"check", "abort"}) = g
      BY <1>1, <1>2, <2>1
    <3>3. OfAttempt(p) = loop[g]
      BY <3>2 DEF OfAttempt
    <3>4. QED
      BY <2>1, <3>1, <3>3 DEF Outcome, From
  <2>2. CASE loop[g].pc \notin {"check", "abort"}
    <3>1. ~Attempted(p)
      BY <1>1, <1>2, <2>2 DEF Attempted
    <3>2. QED
      BY <2>2, <3>1 DEF Outcome, From
  <2>3. QED
    BY <2>1, <2>2
<1>3. ASSUME \A g \in Loops : ~Serves(g, p)
      PROVE  Outcome(p) = "none" /\ From(p) = 0
  BY <1>3 DEF Attempted, Outcome, From
<1>4. QED
  BY <1>2, <1>3 DEF SeesLoop

\* A step that leaves the goroutine of p alone, or one whose attempt has not ended, shows
\* nothing new of p.
LEMMA OutcomeKept ==
  ASSUME LoopInv, LoopInv', NEW p \in Portfolios,
         \A g \in Loops : Serves(g, p)' =>
           \/ Serves(g, p) /\ loop'[g] = loop[g]
           \/ loop'[g].pc \in {"head", "regen"} /\ Outcome(p) = "none",
         \A g \in Loops : Serves(g, p) => Serves(g, p)' \/ Outcome(p) = "none"
  PROVE  Outcome(p)' = Outcome(p) /\ From(p)' = From(p)
<1>1. Outcome(p) = "none" => From(p) = 0
  BY DEF From
<1>2. SeesLoop(p)
  BY ContractSeesLoops DEF SeesLoops
<1>3. SeesLoop(p)'
  <2>1. LoopInv' => SeesLoops'
    BY ContractSeesLoops, PTL
  <2>2. QED
    BY <2>1 DEF SeesLoops
<1>4. CASE \E g \in Loops : Serves(g, p)'
  BY <1>1, <1>2, <1>3, <1>4 DEF SeesLoop
<1>5. CASE \A g \in Loops : ~Serves(g, p)'
  BY <1>1, <1>2, <1>3, <1>5 DEF SeesLoop
<1>6. QED
  BY <1>4, <1>5

\* A service that has just been created shows nothing.
LEMMA ContractInit == LoopInit => Requests!Init
<1> SUFFICES ASSUME LoopInit PROVE Requests!Init
  OBVIOUS
<1>1. \A p \in Portfolios : Outcome(p) = "none" /\ From(p) = 0
  BY DEF LoopInit, IdleLoop, Outcome, From, Attempted, Serves, Running
<1>2. QED
  BY <1>1 DEF Requests!Init, LoopInit

\* A step of a goroutine shows nothing new of the portfolios it does not serve.
LEMMA OthersKept ==
  ASSUME LoopInv, LoopInv', NEW g \in Loops, Running(g),
         \A x \in Loops \ {g} : loop'[x] = loop[x],
         Running(g)' => loop'[g].portfolio = loop[g].portfolio
  PROVE  \A q \in Portfolios \ {loop[g].portfolio} : Outcome(q)' = Outcome(q) /\ From(q)' = From(q)
<1> TAKE q \in Portfolios \ {loop[g].portfolio}
<1>1. \A x \in Loops : Serves(x, q)' => Serves(x, q) /\ loop'[x] = loop[x]
  BY DEF Serves, Running
<1>2. \A x \in Loops : Serves(x, q) => Serves(x, q)'
  BY DEF Serves, Running
<1>3. QED
  BY <1>1, <1>2, OutcomeKept

\* A request maps to a request.
LEMMA TriggerIsRequest ==
  ASSUME LoopInv, LoopInv', NEW ps \in SUBSET Portfolios, NEW d \in Dates, Trigger(ps, d)
  PROVE  Requests!Next
<1>1. \A g \in Loops : loop'[g] = loop[g] \/
        (~Running(g) /\ \E p \in ps : regenInFlight[p] = NoDate /\ loop'[g] = NewLoop(p))
  <2>1. PICK spawn \in [HasNoEntry(ps) -> {g \in Loops : ~Running(g)}] :
          /\ \A p, q \in HasNoEntry(ps) : spawn[p] = spawn[q] => p = q
          /\ loop' = [g \in Loops |-> IF \E p \in HasNoEntry(ps) : spawn[p] = g
                                      THEN NewLoop(CHOOSE p \in HasNoEntry(ps) : spawn[p] = g)
                                      ELSE loop[g]]
    BY DEF Trigger
  <2>2. \A p \in HasNoEntry(ps) : p \in ps /\ regenInFlight[p] = NoDate
    BY DEF HasNoEntry
  <2>3. QED
    BY <2>1, <2>2
<1>2. ASSUME NEW q \in Portfolios
      PROVE  Outcome(q)' = Outcome(q) /\ From(q)' = From(q)
  <2>1. \A g \in Loops : Serves(g, q) => Serves(g, q)' /\ loop'[g] = loop[g]
    BY <1>1 DEF Serves, Running
  <2>2. ASSUME NEW g \in Loops, Serves(g, q)', ~Serves(g, q)
        PROVE  loop'[g].pc = "head" /\ Outcome(q) = "none"
    <3>1. PICK p \in ps : regenInFlight[p] = NoDate /\ loop'[g] = NewLoop(p)
      BY <1>1, <2>2 DEF Serves, Running
    <3>2. p = q /\ loop'[g].pc = "head"
      BY <2>2, <3>1 DEF Serves, NewLoop
    <3>3. \A x \in Loops : ~Serves(x, q)
      BY <3>1, <3>2 DEF LoopInv, EntryMeansLoop, Serves
    <3>4. QED
      BY <3>2, <3>3, ContractSeesLoops DEF SeesLoops, SeesLoop
  <2>3. QED
    BY <2>1, <2>2, OutcomeKept
<1>3. Requests!Request(ps, d)
  <2>1. asked' = [p \in Portfolios |-> IF p \in ps THEN asked[p] \cup {d} ELSE asked[p]]
    BY DEF Trigger
  <2>2. QED
    BY <1>2, <2>1 DEF Requests!Request
<1>4. QED
  BY <1>3 DEF Requests!Next, Requests!Dates, Dates

\* A goroutine changes its own locals only, and stays with its portfolio.
LEMMA GoroutineStep ==
  ASSUME LoopInv, NEW g \in Loops, LoopStep(g)
  PROVE  /\ \A x \in Loops \ {g} : loop'[x] = loop[x]
         /\ Running(g)' => loop'[g].portfolio = loop[g].portfolio
<1> USE DEF LoopInv, LoopTypeOK, LoopStates, IdleLoop, Running
<1>1. CASE ReadEntry(g)
  BY <1>1 DEF ReadEntry
<1>2. CASE AttemptSucceeds(g)
  BY <1>2 DEF AttemptSucceeds
<1>3. CASE AttemptFails(g)
  BY <1>3 DEF AttemptFails
<1>4. CASE RemoveEntryAndReturn(g)
  BY <1>4 DEF RemoveEntryAndReturn
<1>5. CASE GoAround(g)
  BY <1>5 DEF GoAround
<1>6. QED
  BY <1>1, <1>2, <1>3, <1>4, <1>5 DEF LoopStep, Abort, Return

\* Every step of a goroutine maps to a step of the contract or to none: the end of an attempt
\* to its outcome, going around to trying again, returning to settling.
LEMMA LoopStepIsContractStep ==
  ASSUME LoopInv, LoopInv', NEW g \in Loops, LoopStep(g),
         NEW p \in Portfolios, loop[g].portfolio = p
  PROVE  Requests!Next \/ UNCHANGED Requests!vars
<1> DEFINE l == loop[g]
           entry == regenInFlight[p]
<1> USE RegenLoopAssumption
<1>1. l \in LoopStates /\ Running(g) /\ loop \in [Loops -> LoopStates]
  BY DEF LoopInv, LoopTypeOK, LoopStep, ReadEntry, AttemptSucceeds, AttemptFails, Abort,
         Return, GoAround, Running
<1>2. /\ p \in Portfolios /\ Serves(g, p) /\ entry \in Dates
      /\ asked[p] # {} /\ asked[p] \subseteq Dates /\ \A d \in asked[p] : entry <= d
  <2>1. p \in Portfolios /\ Serves(g, p)
    BY <1>1 DEF LoopInv, LoopFacts, Serves
  <2>2. entry # NoDate
    BY <1>1, <2>1 DEF LoopInv, EntryMeansLoop
  <2>3. entry \in Dates /\ asked[p] \subseteq Dates
    BY <2>1, <2>2 DEF LoopInv, LoopTypeOK
  <2>4. QED
    BY <2>1, <2>2, <2>3 DEF LoopInv, EntryIsEarliestAsked
<1>3. /\ \A x \in Loops \ {g} : loop'[x] = loop[x]
      /\ Running(g)' => loop'[g].portfolio = p
  BY <1>1, GoroutineStep
<1>4. \A q \in Portfolios \ {p} : Outcome(q)' = Outcome(q) /\ From(q)' = From(q)
  BY <1>1, <1>3, OthersKept
<1>5. SeesLoop(p) /\ SeesLoop(p)'
  <2>1. LoopInv' => SeesLoops'
    BY ContractSeesLoops, PTL
  <2>2. QED
    BY <1>2, <2>1, ContractSeesLoops DEF SeesLoops
<1>6. l.startDate \in Dates /\ l.failures \in Nat
  BY <1>1 DEF LoopStates
<1>7. CASE ReadEntry(g)
  <2>1. l.pc = "head" /\ loop'[g].pc \in {"idle", "regen"} /\ UNCHANGED asked
    BY <1>1, <1>7 DEF ReadEntry, LoopStates, IdleLoop
  <2>2. Outcome(p) = "none" /\ From(p) = 0
    BY <1>2, <1>5, <2>1 DEF SeesLoop
  <2>3. Outcome(p)' = "none" /\ From(p)' = 0
    <3>1. CASE Serves(g, p)'
      BY <1>5, <2>1, <3>1 DEF SeesLoop
    <3>2. CASE ~Serves(g, p)'
      <4>1. \A x \in Loops : ~Serves(x, p)'
        BY <1>2, <1>3, <3>2 DEF LoopInv, OneLoopPerPortfolio, Serves, Running
      <4>2. QED
        BY <1>5, <4>1 DEF SeesLoop
    <3>3. QED
      BY <3>1, <3>2
  <2>4. QED
    BY <1>4, <2>1, <2>2, <2>3 DEF Requests!vars
<1>8. CASE AttemptSucceeds(g)
  <2>1. /\ l.pc = "regen" /\ loop'[g].pc = "check" /\ loop'[g].failures = 0
        /\ loop'[g].startDate = l.startDate /\ loop'[g].portfolio = l.portfolio /\ UNCHANGED asked
    BY <1>1, <1>8 DEF AttemptSucceeds, LoopStates
  <2>2. Outcome(p) = "none"
    BY <1>2, <1>5, <2>1 DEF SeesLoop
  <2>3. Outcome(p)' = "done" /\ From(p)' = l.startDate
    <3>1. Serves(g, p)'
      BY <1>2, <2>1 DEF Serves, Running
    <3>2. QED
      BY <1>5, <2>1, <3>1 DEF SeesLoop
  <2>4. Requests!AttemptDone(p, l.startDate)
    BY <1>2, <1>4, <2>1, <2>2, <2>3 DEF Requests!AttemptDone
  <2>5. QED
    BY <1>2, <1>6, <2>4 DEF Requests!Next, Requests!Dates, Dates
<1>9. CASE AttemptFails(g)
  <2>1. /\ l.pc = "regen" /\ loop'[g].pc \in {"check", "abort"} /\ loop'[g].failures = l.failures + 1
        /\ loop'[g].portfolio = l.portfolio /\ UNCHANGED asked
    BY <1>1, <1>9 DEF AttemptFails, LoopStates
  <2>2. Outcome(p) = "none" /\ From(p) = 0
    BY <1>2, <1>5, <2>1 DEF SeesLoop
  <2>3. Outcome(p)' = "failed" /\ From(p)' = 0
    <3>1. Serves(g, p)'
      BY <1>2, <2>1 DEF Serves, Running
    <3>2. loop'[g].failures > 0
      BY <1>6, <2>1
    <3>3. QED
      BY <1>5, <2>1, <3>1, <3>2 DEF SeesLoop
  <2>4. Requests!AttemptFailed(p)
    BY <1>2, <1>4, <2>1, <2>2, <2>3 DEF Requests!AttemptFailed
  <2>5. QED
    BY <1>2, <2>4 DEF Requests!Next
<1>10. ASSUME RemoveEntryAndReturn(g), Outcome(p) \in {"failed", "done"},
              Outcome(p) = "done" => From(p) <= entry /\ From(p) \in Dates
       PROVE  Requests!Next
  <2>1. loop'[g].pc = "idle" /\ asked' = [asked EXCEPT ![p] = {}]
    BY <1>1, <1>10 DEF RemoveEntryAndReturn, IdleLoop
  <2>2. Outcome(p)' = "none" /\ From(p)' = 0
    <3>1. \A x \in Loops : ~Serves(x, p)'
      BY <1>2, <1>3, <2>1 DEF LoopInv, OneLoopPerPortfolio, Serves, Running
    <3>2. QED
      BY <1>5, <3>1 DEF SeesLoop
  <2>3. Outcome(p) = "done" => \A d \in asked[p] : From(p) <= d
    BY <1>2, <1>10 DEF Dates
  <2>4. Requests!Settle(p)
    BY <1>2, <1>4, <1>10, <2>1, <2>2, <2>3 DEF Requests!Settle
  <2>5. QED
    BY <1>2, <2>4 DEF Requests!Next
<1>11. CASE Abort(g)
  <2>1. l.pc = "abort" /\ l.failures > 0 /\ RemoveEntryAndReturn(g)
    BY <1>11 DEF Abort, LoopInv, LoopFacts
  <2>2. Outcome(p) = "failed"
    BY <1>2, <1>5, <2>1 DEF SeesLoop
  <2>3. QED
    BY <1>10, <2>1, <2>2
<1>12. CASE Return(g)
  <2>1. l.pc = "check" /\ l.startDate <= entry /\ RemoveEntryAndReturn(g)
    BY <1>2, <1>6, <1>12 DEF Return, AskedEarlier, Dates
  <2>2. CASE l.failures > 0
    <3>1. Outcome(p) = "failed"
      BY <1>2, <1>5, <2>1, <2>2 DEF SeesLoop
    <3>2. QED
      BY <1>10, <2>1, <3>1
  <2>3. CASE ~(l.failures > 0)
    <3>1. Outcome(p) = "done" /\ From(p) = l.startDate
      BY <1>2, <1>5, <2>1, <2>3 DEF SeesLoop
    <3>2. QED
      BY <1>6, <1>10, <2>1, <3>1
  <2>4. QED
    BY <2>2, <2>3
<1>13. CASE GoAround(g)
  <2>1. /\ l.pc = "check" /\ loop'[g].pc = "head" /\ loop'[g].portfolio = l.portfolio
        /\ UNCHANGED asked
    BY <1>1, <1>13 DEF GoAround, LoopStates
  <2>2. Outcome(p) # "none"
    BY <1>2, <1>5, <2>1 DEF SeesLoop
  <2>3. Outcome(p)' = "none" /\ From(p)' = 0
    <3>1. Serves(g, p)'
      BY <1>2, <2>1 DEF Serves, Running
    <3>2. QED
      BY <1>5, <2>1, <3>1 DEF SeesLoop
  <2>4. Requests!TryAgain(p)
    BY <1>2, <1>4, <2>1, <2>2, <2>3 DEF Requests!TryAgain
  <2>5. QED
    BY <1>2, <2>4 DEF Requests!Next
<1>14. QED
  BY <1>7, <1>8, <1>9, <1>11, <1>12, <1>13 DEF LoopStep

\* Every step of the protocol maps to a step of the contract or to none.
LEMMA ContractStep ==
  LoopInv /\ LoopInv' /\ [LoopNext]_loopVars => [Requests!Next]_(Requests!vars)
<1> SUFFICES ASSUME LoopInv, LoopInv', [LoopNext]_loopVars
             PROVE  Requests!Next \/ UNCHANGED Requests!vars
  OBVIOUS
<1>1. CASE UNCHANGED loopVars
  BY <1>1 DEF loopVars, Requests!vars, Outcome, From, Attempted, OfAttempt, Serves, Running
<1>2. ASSUME NEW ps \in (SUBSET Portfolios) \ {{}}, NEW d \in Dates, Trigger(ps, d)
      PROVE  Requests!Next
  BY <1>2, TriggerIsRequest
<1>3. ASSUME NEW g \in Loops, LoopStep(g)
      PROVE  Requests!Next \/ UNCHANGED Requests!vars
  <2>1. loop[g].portfolio \in Portfolios
    BY <1>3 DEF LoopInv, LoopFacts, LoopStep, ReadEntry, AttemptSucceeds, AttemptFails, Abort,
                Return, GoAround, Running
  <2>2. QED
    BY <1>3, <2>1, LoopStepIsContractStep
<1>4. QED
  BY <1>1, <1>2, <1>3 DEF LoopNext

\* The loop protocol implements the contract of the comments: no request is forgotten unless
\* an attempt that covers it succeeded or the latest attempt failed.
THEOREM LoopImplementsContract == LoopSpec => MeetsRequestContract
<1>1. LoopInit => Requests!Init
  BY ContractInit
<1>2. LoopInv /\ LoopInv' /\ [LoopNext]_loopVars => [Requests!Next]_(Requests!vars)
  BY ContractStep
<1>3. QED
  BY <1>1, <1>2, LoopInvariance, PTL DEF LoopSpec, MeetsRequestContract, Requests!Spec
=============================================================================
