--------------------------- MODULE RunSuites_proofs ---------------------------
(***************************************************************************)
(* Proofs about the orchestrator, for every set of calls: any number of     *)
(* suites and checks, any flags, predicates, phases and outcomes; and about *)
(* the passes of the two-pass workflow over one subject.                    *)
(***************************************************************************)
EXTENDS TwoPass, SequenceTheorems, FiniteSetTheorems, WellFoundedInduction, TLAPS

-----------------------------------------------------------------------------
(* Types *)

\* The arguments of a call have the shape Call declares.
LEMMA CallShape ==
  ASSUME NEW cl \in Call
  PROVE  /\ cl.suites \in Seq(Suite)
         /\ cl.subject \in SUBSET SubjectType
         /\ cl.phases \in Optional(SUBSET SuitePhase)
BY DEF Call

\* A namespaced id is a sequence of segments.
LEMMA ComputeIdType ==
  ASSUME NEW phase \in Optional(SuitePhase), NEW suiteId \in Seq(Segment),
         NEW checkId \in Seq(Segment)
  PROVE  computeId(phase, suiteId, checkId) \in Seq(Segment)
<1> DEFINE phaseSeg == IF phase = None THEN <<"unknown">> ELSE phase
           n        == Len(suiteId)
           prefixed == Len(checkId) > n /\ SubSeq(checkId, 1, n) = suiteId
           local    == IF prefixed THEN SubSeq(checkId, n + 1, Len(checkId)) ELSE checkId
<1>1. phaseSeg \in Seq(Segment)
  <2>1. SuitePhase \subseteq Segment /\ "unknown" \in Segment
    BY SegmentAssumption
  <2>2. \A x \in Segment : <<x>> \in Seq(Segment)
    OBVIOUS
  <2>3. phase = None \/ \E x \in SuitePhase : phase = <<x>>
    BY DEF Optional
  <2> QED
    BY <2>1, <2>2, <2>3
<1>2. local \in Seq(Segment)
  <2>1. n \in Nat /\ Len(checkId) \in Nat
    OBVIOUS
  <2>2. CASE prefixed
    <3>1. n + 1 \in 1..(Len(checkId) + 1)
      BY <2>1, <2>2
    <3>2. SubSeq(checkId, n + 1, Len(checkId)) \in Seq(Segment)
      BY <2>1, <3>1
    <3> QED
      BY <2>2, <3>2
  <2>3. CASE ~prefixed
    BY <2>3
  <2> QED
    BY <2>2, <2>3
<1>3. computeId(phase, suiteId, checkId) =
        IF phaseSeg = suiteId THEN phaseSeg \o local ELSE phaseSeg \o suiteId \o local
  BY DEF computeId
<1> HIDE DEF phaseSeg, local
<1>4. phaseSeg \o local \in Seq(Segment)
  BY <1>1, <1>2
<1>5. phaseSeg \o suiteId \o local \in Seq(Segment)
  BY <1>1, <1>2
<1> QED
  BY <1>3, <1>4, <1>5

OutcomeRecord == [status : {"success", "failure", "skipped"},
                  why : {"check", "threw", "declined", "notRun"},
                  haltedBy : Id \cup {None}]

LEMMA RowType ==
  ASSUME NEW at \in Position, NEW st \in Suite, NEW id \in Id, NEW o \in OutcomeRecord,
         NEW fatal \in BOOLEAN, NEW halts \in BOOLEAN
  PROVE  buildResult(at, st, id, o, fatal, halts) \in Row
<1>1. computeId(st.phase, st.id, id) \in Seq(Segment)
  <2>1. st.phase \in Optional(SuitePhase) /\ st.id \in Seq(Segment) /\ id \in Seq(Segment)
    BY DEF Suite, Id
  <2> QED
    BY <2>1, ComputeIdType
<1>2. st.id \in Id
  BY DEF Suite
<1> QED
  BY <1>1, <1>2 DEF buildResult, Row, OutcomeRecord

\* The outcomes of the loop are outcome records.
LEMMA OutcomeTypes ==
  /\ Outcome \subseteq OutcomeRecord
  /\ Declined \in OutcomeRecord
  /\ buildCheckErrorOutcome \in OutcomeRecord
  /\ \A id \in Id : NotRunAfter(id) \in OutcomeRecord
BY DEF Outcome, OutcomeRecord, Ran, Declined, buildCheckErrorOutcome, NotRunAfter

LEMMA AppliesIdType ==
  ASSUME NEW id \in Id
  PROVE  appliesId(id) \in Id
<1>1. id \in Seq(Segment)
  BY DEF Id
<1>2. Append(id, "applies") \in Seq(Segment) /\ Len(Append(id, "applies")) = Len(id) + 1
  <2>1. "applies" \in Segment
    BY SegmentAssumption
  <2> QED
    BY <1>1, <2>1, AppendProperties
<1>3. Len(Append(id, "applies")) # 0
  BY <1>1, <1>2
<1> QED
  BY <1>2, <1>3 DEF appliesId, Id, None

\* Recording one more answer of a predicate.
LEMMA AppliesAppended ==
  ASSUME TypeOK, NEW answer \in Answer, applies' = Append(applies, answer)
  PROVE  applies' \in Seq(Answer) /\ Len(applies') = Len(applies) + 1
<1>1. applies \in Seq(Answer)
  BY DEF TypeOK
<1> QED
  BY <1>1, AppendProperties

\* The current suite and the current check are those of the call.
LEMMA Current ==
  ASSUME TypeOK
  PROVE  /\ s <= Len(call.suites) => suite \in Suite /\ suite.id \in Id /\ suite.checks \in Seq(Check)
         /\ s <= Len(call.suites) /\ c <= Len(suite.checks) =>
              /\ check \in Check /\ check.id \in Id
              /\ check.fatal \in BOOLEAN /\ check.halts \in BOOLEAN
<1>1. call.suites \in Seq(Suite)
  BY CallShape DEF TypeOK
<1>2. s \in Nat \ {0} /\ c \in Nat \ {0}
  BY <1>1 DEF TypeOK
<1>3. ASSUME s <= Len(call.suites) PROVE suite \in Suite
  BY <1>1, <1>2, <1>3 DEF suite
<1>4. ASSUME s <= Len(call.suites) PROVE suite.id \in Id /\ suite.checks \in Seq(Check)
  BY <1>3, <1>4 DEF Suite
<1>5. ASSUME s <= Len(call.suites), c <= Len(suite.checks) PROVE check \in Check
  BY <1>2, <1>4, <1>5 DEF check
<1> QED
  BY <1>3, <1>4, <1>5 DEF Check

-----------------------------------------------------------------------------
(* Type correctness *)

LEMMA TypeInit == Init => TypeOK
<1> SUFFICES ASSUME Init PROVE TypeOK
  OBVIOUS
<1>1. call.suites \in Seq(Suite)
  BY CallShape, CallsAssumption DEF Init
<1> QED
  BY <1>1, CallsAssumption DEF Init, TypeOK, None

LEMMA TypeStep == TypeOK /\ [Next]_vars => TypeOK'
<1> SUFFICES ASSUME TypeOK, [Next]_vars PROVE TypeOK'
  OBVIOUS
<1>0. call.suites \in Seq(Suite) /\ Len(call.suites) \in Nat
  BY CallShape DEF TypeOK
<1>1. CASE PhaseExcluded
  <2>1. applies' \in Seq(Answer) /\ Len(applies') = Len(applies) + 1
    BY <1>1, AppliesAppended DEF PhaseExcluded, NextSuite, Answer
  <2> QED
    BY <1>0, <1>1, <2>1 DEF TypeOK, PhaseExcluded, AtSuite, NextSuite
<1>2. CASE AppliesThrew
  <2>1. s <= Len(call.suites) /\ suite \in Suite /\ suite.id \in Id
    BY <1>2, Current DEF AppliesThrew, Evaluated, AtSuite
  <2>2. appliesId(suite.id) \in Id
    BY <2>1, AppliesIdType
  <2>3. <<s, 0>> \in Position
    BY <1>0 DEF Position, TypeOK
  <2>4. \A b \in BOOLEAN : buildResult(<<s, 0>>, suite, appliesId(suite.id),
                                       buildCheckErrorOutcome, b, TRUE) \in Row
    BY <2>1, <2>2, <2>3, OutcomeTypes, RowType
  <2>5. couldFail(suite, call.subject) \in BOOLEAN
    BY DEF couldFail
  <2>6. results' \in Seq(Row)
    <3>1. results' = Append(results, buildResult(<<s, 0>>, suite, appliesId(suite.id),
                       buildCheckErrorOutcome, couldFail(suite, call.subject), TRUE))
      BY <1>2 DEF AppliesThrew
    <3> QED
      BY <2>4, <2>5, <3>1, AppendProperties DEF TypeOK
  <2>7. haltedBy' \in Id \cup {None}
    BY <1>2, <2>2 DEF AppliesThrew, TypeOK
  <2>8. applies' \in Seq(Answer) /\ Len(applies') = Len(applies) + 1
    BY <1>2, AppliesAppended DEF AppliesThrew, NextSuite, Answer
  <2>9. pc = "suite" /\ pc' = pc /\ s' = s + 1 /\ c' = c /\ call' = call
    BY <1>2 DEF AppliesThrew, NextSuite, Evaluated, AtSuite
  <2> QED
    BY <1>0, <2>1, <2>6, <2>7, <2>8, <2>9 DEF TypeOK
<1>3. CASE AppliesDeclined
  <2>1. s <= Len(call.suites) /\ suite \in Suite /\ suite.id \in Id
    BY <1>3, Current DEF AppliesDeclined, Evaluated, AtSuite
  <2>2. appliesId(suite.id) \in Id
    BY <2>1, AppliesIdType
  <2>3. <<s, 0>> \in Position
    BY <1>0 DEF Position, TypeOK
  <2>4. buildResult(<<s, 0>>, suite, appliesId(suite.id), Declined, FALSE, TRUE) \in Row
    BY <2>1, <2>2, <2>3, OutcomeTypes, RowType
  <2>5. results' \in Seq(Row)
    BY <1>3, <2>4, AppendProperties DEF AppliesDeclined, TypeOK
  <2>6. applies' \in Seq(Answer) /\ Len(applies') = Len(applies) + 1
    BY <1>3, AppliesAppended DEF AppliesDeclined, NextSuite, Answer
  <2>7. pc = "suite" /\ pc' = pc /\ s' = s + 1 /\ c' = c /\ call' = call /\ haltedBy' = haltedBy
    BY <1>3 DEF AppliesDeclined, NextSuite, Evaluated, AtSuite
  <2> QED
    BY <1>0, <2>1, <2>5, <2>6, <2>7 DEF TypeOK
<1>4. CASE EnterSuite
  <2>1. s <= Len(call.suites) /\ suite.checks \in Seq(Check) /\ pc = "suite"
    BY <1>4, Current DEF EnterSuite, Evaluated, AtSuite
  <2>2. suite' = suite
    BY <1>4 DEF EnterSuite, suite
  <2>3. applies' \in Seq(Answer) /\ Len(applies') = Len(applies) + 1
    BY <1>4, AppliesAppended DEF EnterSuite, Answer
  <2> QED
    BY <1>0, <1>4, <2>1, <2>2, <2>3 DEF TypeOK, EnterSuite
<1>5. CASE NotForSubject
  <2>1. suite.checks \in Seq(Check) /\ s <= Len(call.suites) /\ suite' = suite
    BY <1>5, Current DEF NotForSubject, AtCheck, TypeOK, suite
  <2> QED
    BY <1>0, <1>5, <2>1 DEF TypeOK, NotForSubject, AtCheck
<1>6. CASE ListNotRun
  <2>1. /\ s <= Len(call.suites) /\ suite \in Suite /\ suite' = suite
        /\ suite.checks \in Seq(Check)
        /\ check.id \in Id /\ check.fatal \in BOOLEAN /\ check.halts \in BOOLEAN
    BY <1>6, Current DEF ListNotRun, AtCheck, TypeOK, suite
  <2>2. <<s, c>> \in Position
    BY <1>0 DEF Position, TypeOK
  <2>3. haltedBy \in Id
    BY <1>6 DEF ListNotRun, TypeOK
  <2>4. buildResult(<<s, c>>, suite, check.id, NotRunAfter(haltedBy),
                    check.fatal, check.halts) \in Row
    BY <2>1, <2>2, <2>3, OutcomeTypes, RowType
  <2>5. results' \in Seq(Row)
    BY <1>6, <2>4, AppendProperties DEF ListNotRun, TypeOK
  <2> QED
    BY <1>0, <1>6, <2>1, <2>5 DEF TypeOK, ListNotRun, AtCheck
<1>7. CASE StartCheck
  <2>1. suite.checks \in Seq(Check) /\ s <= Len(call.suites) /\ suite' = suite
    BY <1>7, Current DEF StartCheck, AtCheck, TypeOK, suite
  <2> QED
    BY <1>0, <1>7, <2>1 DEF TypeOK, StartCheck, AtCheck
<1>8. ASSUME NEW outcome \in Outcome, SettleCheck(outcome) PROVE TypeOK'
  <2>1. /\ s <= Len(call.suites) /\ suite \in Suite /\ suite' = suite
        /\ suite.checks \in Seq(Check)
        /\ check.id \in Id /\ check.fatal \in BOOLEAN /\ check.halts \in BOOLEAN
    BY <1>8, Current DEF SettleCheck, TypeOK, suite
  <2>2. <<s, c>> \in Position
    BY <1>0 DEF Position, TypeOK
  <2>3. buildResult(<<s, c>>, suite, check.id, outcome, check.fatal, check.halts) \in Row
    BY <2>1, <2>2, OutcomeTypes, RowType
  <2>4. results' \in Seq(Row)
    BY <1>8, <2>3, AppendProperties DEF SettleCheck, TypeOK
  <2>5. haltedBy' \in Id \cup {None}
    BY <1>8, <2>1 DEF SettleCheck, TypeOK
  <2> QED
    BY <1>0, <1>8, <2>1, <2>4, <2>5 DEF TypeOK, SettleCheck
<1>9. CASE LeaveSuite
  BY <1>0, <1>9 DEF TypeOK, LeaveSuite
<1>10. CASE Return
  BY <1>0, <1>10 DEF TypeOK, Return
<1>11. CASE UNCHANGED vars
  BY <1>11 DEF TypeOK, vars, suite
<1> QED
  BY <1>1, <1>2, <1>3, <1>4, <1>5, <1>6, <1>7, <1>8, <1>9, <1>10, <1>11
     DEF Next, Step, Returned

\* Initially and after every step the loop variables stay within the call.
THEOREM TypeCorrect == Spec => []TypeOK
BY TypeInit, TypeStep, PTL DEF Spec

-----------------------------------------------------------------------------
(* A halt is final *)

\* HaltIsFinal alone is not inductive: that later rows are "not run" rows
\* follows from haltedBy, so the invariant ties haltedBy to the halting row.
HaltInv ==
  /\ \A i \in Rows : HaltingRow(results[i]) => haltedBy = results[i].check
  /\ haltedBy # None => \E i \in Rows : HaltingRow(results[i])
  /\ pc = "execute" => haltedBy = None
  /\ HaltIsFinal

\* The report after one more row.
LEMMA RowAppended ==
  ASSUME TypeOK, NEW r \in Row, results' = Append(results, r)
  PROVE  /\ Len(results) \in Nat
         /\ Rows' = Rows \cup {Len(results) + 1}
         /\ Len(results) + 1 \notin Rows
         /\ results'[Len(results) + 1] = r
         /\ \A i \in Rows : i \in 1..Len(results) /\ i < Len(results) + 1
                             /\ results'[i] = results[i] /\ results[i] \in Row
<1>1. results \in Seq(Row)
  BY DEF TypeOK
<1>2. Len(results) \in Nat /\ Len(results') = Len(results) + 1
  BY <1>1, AppendProperties
<1>3. results'[Len(results) + 1] = r
  BY <1>1, AppendProperties
<1>4. \A i \in 1..Len(results) : results'[i] = results[i] /\ results[i] \in Row
  BY <1>1, AppendProperties
<1> QED
  BY <1>2, <1>3, <1>4 DEF Rows

\* No row, and a check is awaited only when nothing has halted.
LEMMA HaltNoRow ==
  ASSUME HaltInv, results' = results, haltedBy' = haltedBy,
         pc' = "execute" => haltedBy = None
  PROVE  HaltInv'
BY DEF HaltInv, Rows, HaltIsFinal

\* A row appended while nothing has halted; it halts exactly if it says so.
LEMMA HaltRowRunning ==
  ASSUME TypeOK, HaltInv, haltedBy = None, NEW r \in Row, results' = Append(results, r),
         haltedBy' = IF HaltingRow(r) THEN r.check ELSE None, pc' # "execute"
  PROVE  HaltInv'
<1>1. \A i \in Rows : ~HaltingRow(results[i])
  <2>1. \A i \in Rows : results[i].check \in Id
    BY RowAppended DEF Row
  <2> QED
    BY <2>1 DEF HaltInv, Id
<1>2. \A i \in Rows' : HaltingRow(results'[i]) => i = Len(results) + 1 /\ results'[i] = r
  BY <1>1, RowAppended
<1>3. r.check # None
  BY DEF Row, Id
<1>4. (\A i \in Rows : HaltingRow(results[i]) => haltedBy = results[i].check)'
  BY <1>2
<1>5. (haltedBy # None => \E i \in Rows : HaltingRow(results[i]))'
  BY <1>3, RowAppended
<1>6. HaltIsFinal'
  <2> SUFFICES ASSUME NEW i \in Rows', NEW j \in Rows', i < j, HaltingRow(results'[i])
               PROVE  FALSE
    BY DEF HaltIsFinal
  <2>1. i = Len(results) + 1
    BY <1>2
  <2> QED
    BY <2>1, RowAppended
<1> QED
  BY <1>4, <1>5, <1>6 DEF HaltInv

\* A row that halts nothing, and that a halted report may hold.
LEMMA HaltRowHarmless ==
  ASSUME TypeOK, HaltInv, NEW r \in Row, results' = Append(results, r),
         ~HaltingRow(r), haltedBy' = haltedBy, pc' # "execute",
         r.why = "declined" \/ (r.why = "notRun" /\ r.haltedBy = haltedBy)
  PROVE  HaltInv'
<1>1. \A i \in Rows' : HaltingRow(results'[i]) => i \in Rows /\ results'[i] = results[i]
  BY RowAppended
<1>2. (\A i \in Rows : HaltingRow(results[i]) => haltedBy = results[i].check)'
  BY <1>1 DEF HaltInv
<1>3. (haltedBy # None => \E i \in Rows : HaltingRow(results[i]))'
  BY RowAppended DEF HaltInv
<1>4. HaltIsFinal'
  <2> SUFFICES ASSUME NEW i \in Rows', NEW j \in Rows', i < j, HaltingRow(results'[i])
               PROVE  \/ results'[j].why = "notRun" /\ results'[j].haltedBy = results'[i].check
                      \/ results'[j].why = "declined"
    BY DEF HaltIsFinal
  <2>1. i \in Rows /\ results'[i] = results[i] /\ haltedBy = results[i].check
    BY <1>1 DEF HaltInv
  <2>2. CASE j \in Rows
    BY <2>1, <2>2, RowAppended DEF HaltInv, HaltIsFinal
  <2>3. CASE j = Len(results) + 1
    BY <2>1, <2>3, RowAppended
  <2> QED
    BY <2>2, <2>3, RowAppended
<1> QED
  BY <1>2, <1>3, <1>4 DEF HaltInv

\* A row appended by a step that keeps the types is a row.
LEMMA AppendedRow ==
  ASSUME TypeOK, TypeOK', NEW r, results' = Append(results, r)
  PROVE  r \in Row
<1>1. results \in Seq(Row) /\ results' \in Seq(Row)
  BY DEF TypeOK
<1>2. Len(results) \in Nat /\ Len(results') = Len(results) + 1 /\ results'[Len(results) + 1] = r
  BY <1>1
<1> QED
  BY <1>1, <1>2

\* The fields of a row built by the loop that the proofs need.
LEMMA BuiltRow ==
  ASSUME NEW at, NEW st, NEW id, NEW o, NEW fatal, NEW halts
  PROVE  LET r == buildResult(at, st, id, o, fatal, halts) IN
         /\ r.at = at /\ r.check = id /\ r.status = o.status /\ r.why = o.why
         /\ r.haltedBy = o.haltedBy /\ r.fatal = fatal /\ r.halts = halts
BY DEF buildResult

\* Every step keeps HaltInv.
LEMMA HaltStep == TypeOK /\ TypeOK' /\ HaltInv /\ [Next]_vars => HaltInv'
<1> SUFFICES ASSUME TypeOK, TypeOK', HaltInv, [Next]_vars PROVE HaltInv'
  OBVIOUS
<1>1. CASE PhaseExcluded
  BY <1>1, HaltNoRow DEF PhaseExcluded, AtSuite, NextSuite
<1>2. CASE AppliesThrew
  <2> DEFINE fatal == couldFail(suite, call.subject)
             r == buildResult(<<s, 0>>, suite, appliesId(suite.id), buildCheckErrorOutcome, fatal, TRUE)
  <2>1. results' = Append(results, r) /\ haltedBy = None /\ pc' # "execute"
        /\ haltedBy' = IF fatal THEN appliesId(suite.id) ELSE haltedBy
    BY <1>2 DEF AppliesThrew, NextSuite, Evaluated, AtSuite
  <2>2. r \in Row
    BY <2>1, AppendedRow
  <2>3. HaltingRow(r) = fatal /\ r.check = appliesId(suite.id)
    <3>1. r.status = "failure" /\ r.fatal = fatal /\ r.halts /\ r.check = appliesId(suite.id)
      BY DEF buildResult, buildCheckErrorOutcome
    <3>2. fatal \in BOOLEAN
      BY DEF couldFail
    <3> QED
      BY <3>1, <3>2 DEF HaltingRow, FatalFailureRow
  <2> HIDE DEF r, fatal
  <2> QED
    BY <2>1, <2>2, <2>3, HaltRowRunning
<1>3. CASE AppliesDeclined
  <2> DEFINE r == buildResult(<<s, 0>>, suite, appliesId(suite.id), Declined, FALSE, TRUE)
  <2>1. haltedBy' = haltedBy /\ pc' # "execute"
    BY <1>3 DEF AppliesDeclined, NextSuite, Evaluated, AtSuite
  <2>2. results' = Append(results, r) \/ results' = results
    BY <1>3 DEF AppliesDeclined
  <2>3. ~HaltingRow(r) /\ r.why = "declined"
    BY DEF buildResult, HaltingRow, FatalFailureRow, Declined
  <2> HIDE DEF r
  <2>4. CASE results' = Append(results, r)
    BY <2>1, <2>3, <2>4, AppendedRow, HaltRowHarmless
  <2> QED
    BY <2>1, <2>2, <2>4, HaltNoRow
<1>4. CASE EnterSuite
  BY <1>4, HaltNoRow DEF EnterSuite
<1>5. CASE NotForSubject
  BY <1>5, HaltNoRow DEF NotForSubject, AtCheck
<1>6. CASE ListNotRun
  <2> DEFINE r == buildResult(<<s, c>>, suite, check.id, NotRunAfter(haltedBy), check.fatal, check.halts)
  <2>1. results' = Append(results, r) /\ haltedBy' = haltedBy /\ pc' # "execute"
    BY <1>6 DEF ListNotRun, AtCheck
  <2>2. ~HaltingRow(r) /\ r.why = "notRun" /\ r.haltedBy = haltedBy
    BY BuiltRow DEF HaltingRow, FatalFailureRow, NotRunAfter
  <2> HIDE DEF r
  <2> QED
    BY <2>1, <2>2, AppendedRow, HaltRowHarmless
<1>7. CASE StartCheck
  BY <1>7, HaltNoRow DEF StartCheck
<1>8. ASSUME NEW outcome \in Outcome, SettleCheck(outcome) PROVE HaltInv'
  <2> DEFINE r == buildResult(<<s, c>>, suite, check.id, outcome, check.fatal, check.halts)
  <2>1. results' = Append(results, r) /\ haltedBy = None /\ pc' # "execute"
    BY <1>8 DEF SettleCheck, HaltInv
  <2>2. r \in Row
    BY <2>1, AppendedRow
  <2>3. r.check = check.id /\ r.status = outcome.status /\ r.fatal = check.fatal /\ r.halts = check.halts
    BY BuiltRow
  <2>4. haltedBy' = IF HaltingRow(r) THEN r.check ELSE None
    BY <1>8, <2>1, <2>3 DEF SettleCheck, haltsOnFailure, HaltingRow, FatalFailureRow
  <2> HIDE DEF r
  <2> QED
    BY <2>1, <2>2, <2>4, HaltRowRunning
<1>9. CASE LeaveSuite
  BY <1>9, HaltNoRow DEF LeaveSuite
<1>10. CASE Return
  BY <1>10, HaltNoRow DEF Return
<1>11. CASE UNCHANGED vars
  BY <1>11, HaltNoRow DEF vars, HaltInv
<1> QED
  BY <1>1, <1>2, <1>3, <1>4, <1>5, <1>6, <1>7, <1>8, <1>9, <1>10, <1>11 DEF Next, Step, Returned

LEMMA HaltInit == Init => HaltInv
BY DEF Init, HaltInv, HaltIsFinal, Rows, None

LEMMA HaltInvariant == Spec => [](TypeOK /\ HaltInv)
<1>1. Init => HaltInv
  BY HaltInit
<1>2. TypeOK /\ TypeOK' /\ HaltInv /\ [Next]_vars => HaltInv'
  BY HaltStep
<1> QED
  BY <1>1, <1>2, TypeCorrect, PTL DEF Spec

\* run-suites.ts: once a halting check has failed no later check executes, for
\* every list of suites and whatever predicates and checks answer or throw.
THEOREM HaltFinal == Spec => []HaltIsFinal
<1>1. HaltInv => HaltIsFinal
  BY DEF HaltInv
<1> QED
  BY <1>1, HaltInvariant, PTL

-----------------------------------------------------------------------------
(* Verified means checked *)

\* The check at <<si, ci>> must run: its suite is in the requested phases and
\* did not decline, and the check is fatal and applies to the subject.
Required(si, ci) ==
  /\ suiteRunsInPhases(call.suites[si], call.phases)
  /\ applies[si] # "no"
  /\ call.suites[si].checks[ci].fatal
  /\ checkAppliesTo(call.suites[si].checks[ci], call.subject)

\* The loop has left the check at <<si, ci>> behind.
Behind(si, ci) == si < s \/ (si = s /\ pc \in {"check", "execute"} /\ ci < c)

PassedAt(si, ci) ==
  \E i \in Rows : results[i].at = <<si, ci>> /\ results[i].why = "check" /\ results[i].status # "failure"

\* The induction is over the loop's position: as long as the report holds no
\* fatal failure, every required check left behind has run and not failed.
CheckedInv ==
  \/ hasFatalFailures(results)
  \/ \A si \in 1..Len(call.suites) : \A ci \in 1..Len(call.suites[si].checks) :
       Behind(si, ci) /\ Required(si, ci) => PassedAt(si, ci)

\* A fatal failure stays in the report, and one more row adds at most its own.
LEMMA FatalAppended ==
  ASSUME TypeOK, NEW r \in Row, results' = Append(results, r)
  PROVE  hasFatalFailures(results)' <=> hasFatalFailures(results) \/ FatalFailureRow(r)
BY RowAppended DEF hasFatalFailures, Rows

\* So does the row of a check that ran.
LEMMA PassedStays ==
  ASSUME TypeOK, NEW si, NEW ci, PassedAt(si, ci),
         results' = results \/ (\E r \in Row : results' = Append(results, r))
  PROVE  PassedAt(si, ci)'
<1>1. CASE results' = results
  BY <1>1 DEF PassedAt, Rows
<1>2. ASSUME NEW r \in Row, results' = Append(results, r) PROVE PassedAt(si, ci)'
  BY <1>2, RowAppended DEF PassedAt
<1> QED
  BY <1>1, <1>2

\* A halted report holds a fatal failure.
LEMMA HaltedIsFatal ==
  ASSUME HaltInv, haltedBy # None
  PROVE  hasFatalFailures(results)
BY DEF HaltInv, HaltingRow, hasFatalFailures, Rows

\* What is behind the loop after a step that goes on to the next suite.
LEMMA BehindNextSuite ==
  ASSUME TypeOK, TypeOK', s' = s + 1, pc' \notin {"check", "execute"}, call' = call,
         NEW si \in 1..Len(call.suites), NEW ci, Behind(si, ci)'
  PROVE  si = s \/ Behind(si, ci)
<1>1. s \in Nat /\ si \in Nat
  BY CallShape DEF TypeOK
<1> QED
  BY <1>1 DEF Behind

LEMMA CheckedStep == TypeOK /\ TypeOK' /\ HaltInv /\ CheckedInv /\ [Next]_vars => CheckedInv'
<1> SUFFICES ASSUME TypeOK, TypeOK', HaltInv, CheckedInv, [Next]_vars,
                    ~hasFatalFailures(results)',
                    NEW si \in 1..Len(call'.suites), NEW ci \in 1..Len(call'.suites[si].checks),
                    Behind(si, ci)', Required(si, ci)'
             PROVE  PassedAt(si, ci)'
  BY DEF CheckedInv
<1>0. call' = call
  BY DEF Next, Step, Returned, vars, PhaseExcluded, AppliesThrew, AppliesDeclined, NextSuite,
         EnterSuite, NotForSubject, ListNotRun, StartCheck, SettleCheck, LeaveSuite, Return
<1>a. /\ si \in 1..Len(call.suites) /\ ci \in 1..Len(call.suites[si].checks)
      /\ call.suites \in Seq(Suite) /\ call.suites[si].checks \in Seq(Check)
      /\ s \in Nat /\ c \in Nat /\ si \in Nat /\ ci \in Nat
  <2>1. call.suites \in Seq(Suite) /\ s \in Nat /\ c \in Nat
    BY CallShape DEF TypeOK
  <2>2. si \in 1..Len(call.suites) /\ ci \in 1..Len(call.suites[si].checks)
    BY <1>0
  <2>3. call.suites[si].checks \in Seq(Check)
    <3>1. call.suites[si] \in Suite
      BY <2>1, <2>2, ElementOfSeq
    <3> QED
      BY <3>1 DEF Suite
  <2> QED
    BY <2>1, <2>2, <2>3
\* What is already known of the checks behind the loop before the step.
<1>b. ASSUME results' = results \/ (\E r \in Row : results' = Append(results, r)),
             applies'[si] = applies[si], Behind(si, ci)
      PROVE  PassedAt(si, ci)'
  <2>1. ~hasFatalFailures(results)
    BY <1>b, FatalAppended DEF hasFatalFailures
  <2>2. Required(si, ci)
    BY <1>0, <1>b DEF Required
  <2>3. PassedAt(si, ci)
    BY <1>a, <1>b, <2>1, <2>2 DEF CheckedInv
  <2> QED
    BY <1>b, <2>3, PassedStays
\* Recording the answer of suite s leaves the earlier answers alone.
<1>c. ASSUME NEW answer \in Answer, applies' = Append(applies, answer), pc = "suite"
      PROVE  applies'[s] = answer /\ (si < s => applies'[si] = applies[si])
  <2>1. applies \in Seq(Answer) /\ Len(applies) = s - 1
    BY <1>c DEF TypeOK
  <2> QED
    BY <1>a, <1>c, <2>1, AppendProperties
\* A suite left without entering its checks.
<1>d. ASSUME NEW answer \in Answer, NextSuite(answer), AtSuite,
             results' = results \/ (\E r \in Row : results' = Append(results, r)),
             si = s => FALSE
      PROVE  PassedAt(si, ci)'
  <2>1. pc = "suite" /\ pc' = "suite" /\ s' = s + 1 /\ applies' = Append(applies, answer)
    BY <1>d DEF NextSuite, AtSuite
  <2>2. Behind(si, ci)
    BY <1>0, <1>a, <1>d, <2>1, BehindNextSuite
  <2>3. si < s
    BY <2>1, <2>2, <1>a DEF Behind
  <2>4. applies'[si] = applies[si]
    BY <1>c, <2>1, <2>3
  <2> QED
    BY <1>b, <1>d, <2>2, <2>4
<1>1. CASE PhaseExcluded
  <2>1. si = s => FALSE
    BY <1>0, <1>1 DEF PhaseExcluded, Required, suite
  <2> QED
    BY <1>1, <1>d, <2>1 DEF PhaseExcluded, Answer
<1>2. CASE AppliesThrew
  <2> DEFINE r == buildResult(<<s, 0>>, suite, appliesId(suite.id), buildCheckErrorOutcome,
                              couldFail(suite, call.subject), TRUE)
  <2>1. results' = Append(results, r) /\ NextSuite("threw") /\ AtSuite
    BY <1>2 DEF AppliesThrew, Evaluated
  <2>2. r \in Row
    BY <2>1, AppendedRow
  <2>3. FatalFailureRow(r) = couldFail(suite, call.subject)
    <3>1. r.status = "failure" /\ r.fatal = couldFail(suite, call.subject)
      BY DEF buildResult, buildCheckErrorOutcome
    <3>2. couldFail(suite, call.subject) \in BOOLEAN
      BY DEF couldFail
    <3> QED
      BY <3>1, <3>2 DEF FatalFailureRow
  <2> HIDE DEF r
  <2>4. ~couldFail(suite, call.subject)
    BY <2>1, <2>2, <2>3, FatalAppended
  <2>5. si = s => FALSE
    BY <1>0, <1>a, <2>4 DEF Required, couldFail, suite
  <2> QED
    BY <1>d, <2>1, <2>2, <2>5 DEF Answer
<1>3. CASE AppliesDeclined
  <2> DEFINE r == buildResult(<<s, 0>>, suite, appliesId(suite.id), Declined, FALSE, TRUE)
  <2>1. (results' = Append(results, r) \/ results' = results) /\ NextSuite("no") /\ AtSuite
    BY <1>3 DEF AppliesDeclined, Evaluated
  <2> HIDE DEF r
  <2>2. results' = results \/ (\E x \in Row : results' = Append(results, x))
    BY <2>1, AppendedRow
  <2>3. applies'[s] = "no"
    BY <1>c, <2>1 DEF NextSuite, AtSuite, Answer
  <2>4. si = s => FALSE
    BY <2>3 DEF Required
  <2> QED
    BY <1>d, <2>1, <2>2, <2>4 DEF Answer
<1>4. CASE EnterSuite
  <2>1. pc = "suite" /\ pc' = "check" /\ s' = s /\ c' = 1 /\ results' = results
    BY <1>4 DEF EnterSuite, Evaluated, AtSuite
  <2>2. si < s
    BY <1>a, <2>1 DEF Behind
  <2>3. applies'[si] = applies[si]
    <3>1. PICK answer \in Answer : applies' = Append(applies, answer)
      BY <1>4 DEF EnterSuite, Answer
    <3> QED
      BY <1>c, <2>1, <2>2, <3>1
  <2> QED
    BY <1>b, <2>1, <2>2, <2>3 DEF Behind
<1>5. CASE NotForSubject
  <2>1. /\ pc = "check" /\ pc' = pc /\ s' = s /\ c' = c + 1
        /\ results' = results /\ applies' = applies
    BY <1>5 DEF NotForSubject, AtCheck
  <2>2. ~(si = s /\ ci = c)
    BY <1>0, <1>5 DEF NotForSubject, Required, check, suite
  <2>3. Behind(si, ci)
    BY <1>a, <2>1, <2>2 DEF Behind
  <2> QED
    BY <1>b, <2>1, <2>3
<1>6. CASE ListNotRun
  <2> DEFINE r == buildResult(<<s, c>>, suite, check.id, NotRunAfter(haltedBy), check.fatal, check.halts)
  <2>1. results' = Append(results, r) /\ haltedBy # None
    BY <1>6 DEF ListNotRun
  <2> HIDE DEF r
  <2> QED
    BY <2>1, AppendedRow, FatalAppended, HaltedIsFatal
<1>7. CASE StartCheck
  <2>1. /\ pc = "check" /\ pc' = "execute" /\ s' = s /\ c' = c
        /\ results' = results /\ applies' = applies
    BY <1>7 DEF StartCheck, AtCheck
  <2>2. Behind(si, ci)
    BY <2>1 DEF Behind
  <2> QED
    BY <1>b, <2>1, <2>2
<1>8. ASSUME NEW outcome \in Outcome, SettleCheck(outcome) PROVE PassedAt(si, ci)'
  <2> DEFINE r == buildResult(<<s, c>>, suite, check.id, outcome, check.fatal, check.halts)
  <2>1. /\ results' = Append(results, r) /\ applies' = applies
        /\ pc = "execute" /\ pc' = "check" /\ s' = s /\ c' = c + 1
    BY <1>8 DEF SettleCheck
  <2>2. r \in Row
    BY <2>1, AppendedRow
  <2>3. r.at = <<s, c>> /\ r.status = outcome.status /\ r.why = outcome.why /\ r.fatal = check.fatal
    BY BuiltRow
  <2> HIDE DEF r
  <2>4. CASE si = s /\ ci = c
    <3>1. r.fatal
      BY <1>0, <2>3, <2>4 DEF Required, check, suite
    <3>2. r.status # "failure"
      BY <2>1, <2>2, <3>1, FatalAppended DEF FatalFailureRow
    <3>3. r.why = "check"
      BY <2>3, <3>2 DEF Outcome, Ran, buildCheckErrorOutcome
    <3> QED
      BY <2>1, <2>2, <2>3, <2>4, <3>2, <3>3, RowAppended DEF PassedAt
  <2>5. CASE ~(si = s /\ ci = c)
    <3>1. Behind(si, ci)
      BY <1>a, <2>1, <2>5 DEF Behind
    <3> QED
      BY <1>b, <2>1, <2>2, <3>1
  <2> QED
    BY <2>4, <2>5
<1>9. CASE LeaveSuite
  <2>1. /\ pc = "check" /\ pc' = "suite" /\ s' = s + 1 /\ c > Len(suite.checks)
        /\ results' = results /\ applies' = applies
    BY <1>9 DEF LeaveSuite
  <2>2. si = s \/ Behind(si, ci)
    BY <1>0, <1>a, <2>1, BehindNextSuite
  <2>3. si = s => ci < c
    BY <1>a, <2>1 DEF suite
  <2>4. Behind(si, ci)
    BY <2>1, <2>2, <2>3 DEF Behind
  <2> QED
    BY <1>b, <2>1, <2>4
<1>10. CASE Return
  <2>1. /\ pc = "suite" /\ pc' = "done" /\ s' = s
        /\ results' = results /\ applies' = applies
    BY <1>10 DEF Return
  <2>2. Behind(si, ci)
    BY <2>1 DEF Behind
  <2> QED
    BY <1>b, <2>1, <2>2
<1>11. CASE UNCHANGED vars
  BY <1>11, <1>b DEF vars, Behind
<1> QED
  BY <1>1, <1>2, <1>3, <1>4, <1>5, <1>6, <1>7, <1>8, <1>9, <1>10, <1>11 DEF Next, Step, Returned

\* "A suite that could have failed the subject must not silently pass": a
\* report without a fatal failure means that every required check ran.
THEOREM VerifiedChecked == Spec => []VerifiedMeansChecked
<1>1. Init => CheckedInv
  <2> SUFFICES ASSUME Init, NEW si \in 1..Len(call.suites), NEW ci, Behind(si, ci) PROVE FALSE
    BY DEF CheckedInv
  <2>1. call.suites \in Seq(Suite)
    BY CallShape, CallsAssumption DEF Init
  <2> QED
    BY <2>1 DEF Init, Behind
<1>2. TypeOK /\ TypeOK' /\ HaltInv /\ CheckedInv /\ [Next]_vars => CheckedInv'
  BY CheckedStep
<1>3. TypeOK /\ CheckedInv /\ (pc = "done" => s > Len(call.suites)) => VerifiedMeansChecked
  <2> SUFFICES ASSUME TypeOK, CheckedInv, s > Len(call.suites), ~hasFatalFailures(results),
                      NEW si \in 1..Len(call.suites), NEW ci \in 1..Len(call.suites[si].checks),
                      Required(si, ci)
               PROVE  PassedAt(si, ci)
    BY DEF VerifiedMeansChecked, Required, PassedAt
  <2>1. Behind(si, ci)
    BY CallShape DEF TypeOK, Behind
  <2> QED
    BY <2>1 DEF CheckedInv
<1>4. Init => (pc = "done" => s > Len(call.suites))
  BY DEF Init
<1>5. (pc = "done" => s > Len(call.suites)) /\ [Next]_vars => (pc = "done" => s > Len(call.suites))'
  BY DEF Next, Step, Returned, vars, PhaseExcluded, AppliesThrew, AppliesDeclined, NextSuite, AtSuite,
         Evaluated, EnterSuite, NotForSubject, ListNotRun, AtCheck, StartCheck, SettleCheck, LeaveSuite, Return
<1> QED
  BY <1>1, <1>2, <1>3, <1>4, <1>5, HaltInvariant, PTL DEF Spec

-----------------------------------------------------------------------------
(* The report is complete *)

Checks(si) == call.suites[si].checks

\* Inside a suite: it was entered for one of two reasons, and a check that is
\* awaited is one for this subject.
EnteredInv ==
  /\ pc \in {"check", "execute"} =>
       applies[s] = "yes" \/ (applies[s] = "threw" /\ HaltedBefore(s))
  /\ pc = "execute" => checkAppliesTo(check, call.subject)

\* The report lists, in order, exactly the positions behind the loop that a
\* complete report lists.
ReportInv ==
  /\ \A i \in Rows : \E si \in 1..Len(call.suites) : \E ci \in 0..Len(Checks(si)) :
       results[i].at = <<si, ci>> /\ Behind(si, ci) /\ Listed(si, ci)
  /\ \A si \in 1..Len(call.suites) : \A ci \in 0..Len(Checks(si)) :
       Behind(si, ci) /\ Listed(si, ci) => \E i \in Rows : results[i].at = <<si, ci>>
  /\ \A i, j \in Rows : i < j => Precedes(results[i].at, results[j].at)
  /\ EnteredInv

\* A row about a later suite does not change which suites come after a halt.
LEMMA HaltedBeforeSame ==
  ASSUME TypeOK, NEW si \in Nat, si <= s,
         \/ results' = results
         \/ \E r \in Row : results' = Append(results, r) /\ r.at[1] = s
  PROVE  HaltedBefore(si)' <=> HaltedBefore(si)
<1>1. CASE results' = results
  BY <1>1 DEF HaltedBefore, Rows
<1>2. ASSUME NEW r \in Row, results' = Append(results, r), r.at[1] = s
      PROVE  HaltedBefore(si)' <=> HaltedBefore(si)
  <2>1. s \in Nat
    BY CallShape DEF TypeOK
  <2>2. \A i \in Rows' : i \in Rows \/ i = Len(results) + 1
    BY <1>2, RowAppended
  <2>3. results'[Len(results) + 1] = r /\ ~(s < si)
    BY <1>2, <2>1, RowAppended
  <2>4. \A i \in Rows : i \in Rows' /\ results'[i] = results[i]
    BY <1>2, RowAppended
  <2> QED
    BY <1>2, <2>2, <2>3, <2>4 DEF HaltedBefore
<1> QED
  BY <1>1, <1>2

\* What is listed stays listed, as long as the answer of its suite is kept.
LEMMA ListedSame ==
  ASSUME TypeOK, call' = call, NEW si \in Nat, si <= s, NEW ci, applies'[si] = applies[si],
         \/ results' = results
         \/ \E r \in Row : results' = Append(results, r) /\ r.at[1] = s
  PROVE  Listed(si, ci)' <=> Listed(si, ci)
<1>1. HaltedBefore(si)' <=> HaltedBefore(si)
  BY HaltedBeforeSame
<1> QED
  BY <1>1 DEF Listed

LEMMA BehindBefore ==
  ASSUME TypeOK, NEW si \in Nat, NEW ci, Behind(si, ci)
  PROVE  si <= s
<1>1. s \in Nat
  BY CallShape DEF TypeOK
<1> QED
  BY <1>1 DEF Behind

\* A step that adds no row leaves no listed position behind.
LEMMA ReportNoRow ==
  ASSUME TypeOK, ReportInv, call' = call, results' = results, EnteredInv',
         \A si \in 1..Len(call.suites) : \A ci \in 0..Len(Checks(si)) :
           Behind(si, ci) => Behind(si, ci)' /\ applies'[si] = applies[si],
         \A si \in 1..Len(call.suites) : \A ci \in 0..Len(Checks(si)) :
           Behind(si, ci)' /\ Listed(si, ci)' => Behind(si, ci)
  PROVE  ReportInv'
<1>1. ASSUME NEW si \in 1..Len(call.suites), NEW ci \in 0..Len(Checks(si)), Behind(si, ci)
      PROVE  Listed(si, ci)' <=> Listed(si, ci)
  <2>1. si \in Nat /\ applies'[si] = applies[si]
    BY <1>1
  <2>2. si <= s
    BY <1>1, <2>1, BehindBefore
  <2> QED
    BY <2>1, <2>2, ListedSame
<1>2. Rows' = Rows /\ \A si : Checks(si)' = Checks(si)
  BY DEF Rows, Checks
<1>3. ASSUME NEW i \in Rows
      PROVE  \E si \in 1..Len(call.suites) : \E ci \in 0..Len(Checks(si)) :
               results[i].at = <<si, ci>> /\ Behind(si, ci)' /\ Listed(si, ci)'
  <2>1. PICK si \in 1..Len(call.suites) : \E ci \in 0..Len(Checks(si)) :
          results[i].at = <<si, ci>> /\ Behind(si, ci) /\ Listed(si, ci)
    BY DEF ReportInv
  <2>2. PICK ci \in 0..Len(Checks(si)) :
          results[i].at = <<si, ci>> /\ Behind(si, ci) /\ Listed(si, ci)
    BY <2>1
  <2>3. Behind(si, ci)' /\ Listed(si, ci)'
    BY <1>1, <2>2
  <2> QED
    BY <2>2, <2>3
<1>4. ASSUME NEW si \in 1..Len(call.suites), NEW ci \in 0..Len(Checks(si)),
             Behind(si, ci)', Listed(si, ci)'
      PROVE  \E i \in Rows : results[i].at = <<si, ci>>
  <2>1. Behind(si, ci)
    BY <1>4
  <2>2. Listed(si, ci)
    BY <1>1, <1>4, <2>1
  <2> QED
    BY <2>1, <2>2 DEF ReportInv
<1>5. \A i, j \in Rows : i < j => Precedes(results[i].at, results[j].at)
  BY DEF ReportInv
<1> QED
  BY <1>2, <1>3, <1>4, <1>5 DEF ReportInv

\* A step that adds a row leaves exactly its position behind.
LEMMA ReportRow ==
  ASSUME TypeOK, ReportInv, call' = call, EnteredInv',
         NEW r \in Row, results' = Append(results, r), 
         NEW z \in 1..Len(call.suites), NEW k \in 0..Len(Checks(z)), r.at = <<z, k>>,
         z = s, pc = "suite" \/ k = c,
         Behind(z, k)', Listed(z, k)',
         \A si \in 1..Len(call.suites) : \A ci \in 0..Len(Checks(si)) :
           Behind(si, ci) => Behind(si, ci)' /\ applies'[si] = applies[si],
         \A si \in 1..Len(call.suites) : \A ci \in 0..Len(Checks(si)) :
           Behind(si, ci)' /\ Listed(si, ci)' => Behind(si, ci) \/ (si = z /\ ci = k)
  PROVE  ReportInv'
<1> DEFINE n == Len(results) + 1
<1>0. r.at[1] = z /\ r.at[2] = k /\ r.at[1] = s
  OBVIOUS
<1>1. ASSUME NEW si \in 1..Len(call.suites), NEW ci \in 0..Len(Checks(si)), Behind(si, ci)
      PROVE  Listed(si, ci)' <=> Listed(si, ci)
  <2>1. si \in Nat /\ applies'[si] = applies[si]
    BY <1>1
  <2>2. si <= s
    BY <1>1, <2>1, BehindBefore
  <2> QED
    BY <1>0, <2>1, <2>2, ListedSame
<1>2. /\ Rows' = Rows \cup {n} /\ n \notin Rows /\ results'[n] = r
      /\ \A i \in Rows : i < n /\ ~(n < i) /\ results'[i] = results[i]
  <2>1. \A i \in Rows : i \in Nat /\ n \in Nat
    BY RowAppended
  <2> QED
    BY <2>1, RowAppended
<1>3. \A si : Checks(si)' = Checks(si)
  BY DEF Checks
<1>4. ASSUME NEW i \in Rows
      PROVE  /\ \E si \in 1..Len(call.suites) : \E ci \in 0..Len(Checks(si)) :
                  results[i].at = <<si, ci>> /\ Behind(si, ci)' /\ Listed(si, ci)'
             /\ Precedes(results[i].at, r.at)
  <2>1. PICK si \in 1..Len(call.suites) : \E ci \in 0..Len(Checks(si)) :
          results[i].at = <<si, ci>> /\ Behind(si, ci) /\ Listed(si, ci)
    BY DEF ReportInv
  <2>2. PICK ci \in 0..Len(Checks(si)) :
          results[i].at = <<si, ci>> /\ Behind(si, ci) /\ Listed(si, ci)
    BY <2>1
  <2>3. Behind(si, ci)' /\ Listed(si, ci)'
    BY <1>1, <2>2
  <2>4. si < z \/ (si = z /\ ci < k)
    BY <2>2 DEF Behind
  <2>5. Precedes(results[i].at, r.at)
    BY <1>0, <2>2, <2>4 DEF Precedes
  <2> QED
    BY <2>2, <2>3, <2>5
<1>5. ASSUME NEW i \in Rows'
      PROVE  \E si \in 1..Len(call.suites) : \E ci \in 0..Len(Checks(si)) :
               results'[i].at = <<si, ci>> /\ Behind(si, ci)' /\ Listed(si, ci)'
  <2>1. CASE i \in Rows
    BY <1>2, <1>4, <2>1
  <2>2. CASE i = n
    <3>1. results'[i].at = <<z, k>>
      BY <1>2, <2>2
    <3> QED
      BY <3>1
  <2> QED
    BY <1>2, <2>1, <2>2
<1>10. (\A i \in Rows : \E si \in 1..Len(call.suites) : \E ci \in 0..Len(Checks(si)) :
          results[i].at = <<si, ci>> /\ Behind(si, ci) /\ Listed(si, ci))'
  BY <1>3, <1>5
<1>6. ASSUME NEW si \in 1..Len(call.suites), NEW ci \in 0..Len(Checks(si)),
             Behind(si, ci)', Listed(si, ci)'
      PROVE  \E i \in Rows' : results'[i].at = <<si, ci>>
  <2>1. CASE Behind(si, ci)
    <3>1. Listed(si, ci)
      BY <1>1, <1>6, <2>1
    <3>2. PICK i \in Rows : results[i].at = <<si, ci>>
      BY <2>1, <3>1 DEF ReportInv
    <3> QED
      BY <1>2, <3>2
  <2>2. CASE si = z /\ ci = k
    BY <1>2, <2>2
  <2> QED
    BY <1>6, <2>1, <2>2
<1>7. ASSUME NEW i \in Rows', NEW j \in Rows', i < j
      PROVE  Precedes(results'[i].at, results'[j].at)
  <2>1. i \in Rows
    <3>1. n \in Nat /\ \A m \in Rows : m \in Nat /\ m < n
      BY RowAppended
    <3>2. i = n => ~(i < j)
      BY <1>2, <3>1
    <3> QED
      BY <1>2, <1>7, <3>2
  <2>2. CASE j \in Rows
    BY <1>2, <1>7, <2>1, <2>2 DEF ReportInv
  <2>3. CASE j = n
    BY <1>2, <1>4, <2>1, <2>3
  <2> QED
    BY <1>2, <2>2, <2>3
<1>8. (\A si \in 1..Len(call.suites) : \A ci \in 0..Len(Checks(si)) :
         Behind(si, ci) /\ Listed(si, ci) => \E i \in Rows : results[i].at = <<si, ci>>)'
  BY <1>3, <1>6
<1>9. (\A i, j \in Rows : i < j => Precedes(results[i].at, results[j].at))'
  BY <1>7
<1> HIDE DEF n
<1> QED
  BY <1>8, <1>9, <1>10 DEF ReportInv

\* Between suites, "after a halt" and "haltedBy is set" are the same.
LEMMA HaltedHere ==
  ASSUME TypeOK, HaltInv, ReportInv, pc = "suite"
  PROVE  HaltedBefore(s) <=> haltedBy # None
<1>1. \A i \in Rows : results[i].at[1] < s
  BY DEF ReportInv, Behind
<1>2. ASSUME NEW i \in Rows, HaltingRow(results[i]) PROVE haltedBy # None
  <2>1. results[i] \in Row
    BY DEF TypeOK, Rows
  <2>2. results[i].check \in Id /\ haltedBy = results[i].check
    BY <1>2, <2>1 DEF HaltInv, Row
  <2> QED
    BY <2>2 DEF Id
<1> QED
  BY <1>1, <1>2 DEF HaltInv, HaltedBefore

\* Recording the answer of suite s keeps the answers of the suites before it.
LEMMA AnswersKept ==
  ASSUME TypeOK, pc = "suite", NEW answer \in Answer, applies' = Append(applies, answer),
         NEW z \in Nat, z = s
  PROVE  applies'[z] = answer /\ \A si \in Nat \ {0} : si < z => applies'[si] = applies[si]
<1>1. applies \in Seq(Answer) /\ Len(applies) = z - 1 /\ z \in Nat \ {0}
  BY CallShape DEF TypeOK
<1> QED
  BY <1>1, AppendProperties

\* A suite is left without entering it: what it lists is what is appended.
LEMMA ReportNextSuite ==
  ASSUME TypeOK, TypeOK', ReportInv, AtSuite, NEW answer \in Answer, NextSuite(answer),
         NEW z \in Nat, z = s,
         \A ci \in 0..Len(Checks(z)) : ci # 0 => ~Listed(z, ci)',
         \/ results' = results /\ ~Listed(z, 0)'
         \/ /\ Listed(z, 0)'
            /\ \E r : results' = Append(results, r) /\ r.at = <<z, 0>>
  PROVE  ReportInv'
<1>1. /\ pc = "suite" /\ pc' = "suite" /\ s' = z + 1 /\ call' = call
      /\ applies' = Append(applies, answer) /\ z \in 1..Len(call.suites)
      /\ call.suites \in Seq(Suite)
  BY CallShape DEF AtSuite, NextSuite, TypeOK
<1>2. EnteredInv'
  BY <1>1 DEF EnteredInv
<1>3. ASSUME NEW si \in 1..Len(call.suites), NEW ci \in 0..Len(Checks(si)), Behind(si, ci)
      PROVE  Behind(si, ci)' /\ applies'[si] = applies[si]
  <2>1. si < z /\ si \in Nat \ {0}
    BY <1>1, <1>3 DEF Behind
  <2>2. applies'[z] = answer /\ \A q \in Nat \ {0} : q < z => applies'[q] = applies[q]
    BY <1>1, AnswersKept
  <2>3. Behind(si, ci)'
    BY <1>1, <2>1 DEF Behind
  <2> QED
    BY <2>1, <2>2, <2>3
<1>4. \A si \in 1..Len(call.suites) : \A ci \in 0..Len(Checks(si)) :
        Behind(si, ci)' => Behind(si, ci) \/ si = z
  BY <1>1 DEF Behind
<1>5. CASE results' = results /\ ~Listed(z, 0)'
  <2>1. \A si \in 1..Len(call.suites) : \A ci \in 0..Len(Checks(si)) :
          Behind(si, ci)' /\ Listed(si, ci)' => Behind(si, ci)
    BY <1>4, <1>5
  <2> QED
    BY <1>1, <1>2, <1>3, <1>5, <2>1, ReportNoRow
<1>6. ASSUME Listed(z, 0)', NEW r, results' = Append(results, r), r.at = <<z, 0>>
      PROVE  ReportInv'
  <2>1. r \in Row
    BY <1>6, AppendedRow
  <2> DEFINE k == 0
  <2>2. k \in 0..Len(Checks(z)) /\ Behind(z, k)'
    <3>1. Len(Checks(z)) \in Nat
      BY <1>1 DEF Checks, Suite
    <3> QED
      BY <1>1, <3>1 DEF Behind
  <2>3. \A si \in 1..Len(call.suites) : \A ci \in 0..Len(Checks(si)) :
          Behind(si, ci)' /\ Listed(si, ci)' => Behind(si, ci) \/ (si = z /\ ci = k)
    BY <1>4
  <2>4. r.at = <<z, k>> /\ Listed(z, k)'
    BY <1>6
  <2> HIDE DEF k
  <2> QED
    BY <1>1, <1>2, <1>3, <1>6, <2>1, <2>2, <2>3, <2>4, ReportRow
<1> QED
  BY <1>5, <1>6

\* A check of the current suite is passed over, or given its row.
LEMMA ReportNextCheck ==
  ASSUME TypeOK, TypeOK', ReportInv, call' = call, s' = s, applies' = applies,
         pc \in {"check", "execute"}, pc' = "check", c' = c + 1, s <= Len(call.suites),
         c <= Len(suite.checks),
         \/ ~checkAppliesTo(check, call.subject) /\ results' = results
         \/ /\ checkAppliesTo(check, call.subject)
            /\ \E r : results' = Append(results, r) /\ r.at = <<s, c>>
  PROVE  ReportInv'
<1>1. PICK z \in 1..Len(call.suites) : z = s
  BY CallShape DEF TypeOK
<1>2. PICK k \in 0..Len(Checks(z)) : k = c /\ k # 0 /\ k \in 1..Len(Checks(z))
  <2>1. Len(Checks(z)) = Len(suite.checks) /\ Len(suite.checks) \in Nat
    BY <1>1, Current DEF Checks, suite
  <2>2. c \in Nat \ {0}
    BY DEF TypeOK
  <2> QED
    BY <2>1, <2>2
<1>3. check = call.suites[z].checks[k] /\ \/ applies[z] = "yes"
                                          \/ applies[z] = "threw" /\ HaltedBefore(z)
  BY <1>1, <1>2 DEF ReportInv, EnteredInv, check, suite
<1>4. HaltedBefore(z)' <=> HaltedBefore(z)
  <2>1. results' = results \/ \E r \in Row : results' = Append(results, r) /\ r.at[1] = s
    BY AppendedRow
  <2> QED
    BY <1>1, <2>1, HaltedBeforeSame
<1>5. Listed(z, k)' <=> checkAppliesTo(check, call.subject)
  BY <1>2, <1>3, <1>4 DEF Listed
<1>6. EnteredInv'
  <2>1. (pc \in {"check", "execute"} =>
           applies[s] = "yes" \/ (applies[s] = "threw" /\ HaltedBefore(s)))'
    <3>1. s' = z
      BY <1>1
    <3> QED
      BY <1>1, <1>3, <1>4, <3>1 DEF HaltedBefore
  <2> QED
    BY <2>1 DEF EnteredInv
<1>7. \A si \in 1..Len(call.suites) : \A ci \in 0..Len(Checks(si)) :
        Behind(si, ci) => Behind(si, ci)' /\ applies'[si] = applies[si]
  BY <1>1, <1>2 DEF Behind
<1>8. \A si \in 1..Len(call.suites) : \A ci \in 0..Len(Checks(si)) :
        Behind(si, ci)' => Behind(si, ci) \/ (si = z /\ ci = k)
  BY <1>1, <1>2 DEF Behind
<1>9. CASE ~checkAppliesTo(check, call.subject) /\ results' = results
  <2>1. \A si \in 1..Len(call.suites) : \A ci \in 0..Len(Checks(si)) :
          Behind(si, ci)' /\ Listed(si, ci)' => Behind(si, ci)
    BY <1>5, <1>8, <1>9
  <2> QED
    BY <1>6, <1>7, <1>9, <2>1, ReportNoRow
<1>10. ASSUME checkAppliesTo(check, call.subject), NEW r, results' = Append(results, r), r.at = <<s, c>>
       PROVE  ReportInv'
  <2>1. r \in Row /\ r.at = <<z, k>>
    BY <1>1, <1>2, <1>10, AppendedRow
  <2>2. Behind(z, k)' /\ Listed(z, k)'
    BY <1>1, <1>2, <1>5, <1>10 DEF Behind
  <2>3. \A si \in 1..Len(call.suites) : \A ci \in 0..Len(Checks(si)) :
          Behind(si, ci)' /\ Listed(si, ci)' => Behind(si, ci) \/ (si = z /\ ci = k)
    BY <1>8
  <2> QED
    BY <1>1, <1>2, <1>6, <1>7, <1>10, <2>1, <2>2, <2>3, ReportRow
<1> QED
  BY <1>9, <1>10

LEMMA ReportStep == TypeOK /\ TypeOK' /\ HaltInv /\ ReportInv /\ [Next]_vars => ReportInv'
<1> SUFFICES ASSUME TypeOK, TypeOK', HaltInv, ReportInv, [Next]_vars PROVE ReportInv'
  OBVIOUS
<1>0. PICK z \in Nat : z = s
  BY CallShape DEF TypeOK
<1>a. ASSUME AtSuite, NEW answer \in Answer, NextSuite(answer)
      PROVE  /\ applies'[z] = answer /\ call' = call /\ pc = "suite"
             /\ suite = call.suites[z] /\ z \in 1..Len(call.suites)
  <2>1. pc = "suite" /\ applies' = Append(applies, answer) /\ call' = call
    BY <1>a DEF AtSuite, NextSuite
  <2>2. applies'[z] = answer
    BY <1>0, <2>1, AnswersKept
  <2>3. z \in 1..Len(call.suites)
    BY <1>0, <1>a, CallShape DEF AtSuite, TypeOK
  <2> QED
    BY <1>0, <2>1, <2>2, <2>3 DEF suite
<1>1. CASE PhaseExcluded
  <2>1. AtSuite /\ NextSuite("excluded") /\ "excluded" \in Answer /\ results' = results
    BY <1>1 DEF PhaseExcluded, Answer
  <2>2. \A ci : ~Listed(z, ci)'
    BY <1>a, <2>1 DEF Listed
  <2> DEFINE answer == "excluded"
  <2>3. answer \in Answer /\ NextSuite(answer)
    BY <2>1
  <2> HIDE DEF answer
  <2> QED
    BY <1>0, <2>1, <2>2, <2>3, ReportNextSuite
<1>2. CASE AppliesThrew
  <2> DEFINE answer == "threw"
  <2> DEFINE r == buildResult(<<s, 0>>, suite, appliesId(suite.id), buildCheckErrorOutcome,
                              couldFail(suite, call.subject), TRUE)
  <2>1. /\ AtSuite /\ NextSuite(answer) /\ answer \in Answer /\ haltedBy = None
        /\ results' = Append(results, r)
    BY <1>2 DEF AppliesThrew, Evaluated, Answer
  <2>a. r.at = <<s, 0>>
    BY DEF buildResult
  <2> HIDE DEF r
  <2>2. r.at = <<z, 0>> /\ r.at[1] = s
    BY <1>0, <2>a
  <2>3. applies'[z] = answer /\ pc = "suite"
    BY <1>a, <2>1
  <2>4. ~HaltedBefore(z)
    BY <1>0, <2>1, <2>3, HaltedHere DEF HaltedBefore
  <2>5. ~HaltedBefore(z)'
    <3>1. r \in Row
      BY <2>1, AppendedRow
    <3> QED
      BY <1>0, <2>1, <2>2, <2>4, <3>1, HaltedBeforeSame
  <2>6. Listed(z, 0)' /\ \A ci \in 0..Len(Checks(z)) : ci # 0 => ~Listed(z, ci)'
    BY <2>3, <2>5 DEF Listed
  <2> HIDE DEF answer
  <2> QED
    BY <1>0, <2>1, <2>2, <2>6, ReportNextSuite
<1>3. CASE AppliesDeclined
  <2> DEFINE answer == "no"
  <2> DEFINE r == buildResult(<<s, 0>>, suite, appliesId(suite.id), Declined, FALSE, TRUE)
  <2>1. /\ AtSuite /\ NextSuite(answer) /\ answer \in Answer
        /\ results' = IF suite.id \in call.explicitSuiteIds THEN Append(results, r) ELSE results
    BY <1>3 DEF AppliesDeclined, Evaluated, Answer
  <2>a. r.at = <<s, 0>>
    BY DEF buildResult
  <2> HIDE DEF r
  <2>2. r.at = <<z, 0>>
    BY <1>0, <2>a
  <2>3. applies'[z] = answer /\ call' = call /\ suite = call.suites[z]
    BY <1>a, <2>1
  <2>4. \A ci \in 0..Len(Checks(z)) : ci # 0 => ~Listed(z, ci)'
    BY <2>3 DEF Listed
  <2>5. Listed(z, 0)' <=> suite.id \in call.explicitSuiteIds
    BY <2>3 DEF Listed
  <2> HIDE DEF answer
  <2>6. \/ results' = results /\ ~Listed(z, 0)'
        \/ Listed(z, 0)' /\ \E row : results' = Append(results, row) /\ row.at = <<z, 0>>
    BY <2>1, <2>2, <2>5
  <2> QED
    BY <1>0, <2>1, <2>4, <2>6, ReportNextSuite
<1>4. CASE EnterSuite
  <2>1. /\ pc = "suite" /\ pc' = "check" /\ s' = s /\ c' = 1 /\ call' = call
        /\ results' = results /\ AtSuite
    BY <1>4 DEF EnterSuite, Evaluated, AtSuite
  <2>2. PICK answer \in {"yes", "threw"} :
          /\ applies' = Append(applies, answer)
          /\ answer = "threw" => haltedBy # None
    BY <1>4 DEF EnterSuite
  <2>3. applies'[z] = answer /\ \A si \in Nat \ {0} : si < z => applies'[si] = applies[si]
    BY <1>0, <2>1, <2>2, AnswersKept DEF Answer
  <2>4. answer = "threw" => HaltedBefore(z)
    BY <1>0, <2>1, <2>2, HaltedHere DEF HaltedBefore
  <2>5. HaltedBefore(z)' <=> HaltedBefore(z)
    BY <1>0, <2>1, HaltedBeforeSame
  <2>6. EnteredInv'
    <3>1. s' = z
      BY <1>0, <2>1
    <3>2. (applies[s] = "yes" \/ (applies[s] = "threw" /\ HaltedBefore(s)))'
      BY <2>2, <2>3, <2>4, <2>5, <3>1 DEF HaltedBefore
    <3> QED
      BY <2>1, <3>2 DEF EnteredInv
  <2>7. \A si \in 1..Len(call.suites) : \A ci \in 0..Len(Checks(si)) :
          Behind(si, ci) => Behind(si, ci)' /\ applies'[si] = applies[si]
    <3> TAKE si \in 1..Len(call.suites)
    <3> TAKE ci \in 0..Len(Checks(si))
    <3>1. Behind(si, ci) => si < z
      BY <1>0, <2>1 DEF Behind
    <3>2. si < z => Behind(si, ci)'
      BY <1>0, <2>1 DEF Behind
    <3> QED
      BY <2>3, <3>1, <3>2
  <2>8. \A si \in 1..Len(call.suites) : \A ci \in 0..Len(Checks(si)) :
          Behind(si, ci)' /\ Listed(si, ci)' => Behind(si, ci)
    <3> TAKE si \in 1..Len(call.suites)
    <3> TAKE ci \in 0..Len(Checks(si))
    <3>1. Behind(si, ci)' => si < z \/ (si = z /\ ci = 0)
      BY <1>0, <2>1 DEF Behind
    <3>2. ~Listed(z, 0)'
      BY <2>2, <2>3, <2>4, <2>5 DEF Listed
    <3>3. si < z => Behind(si, ci)
      BY <1>0 DEF Behind
    <3> QED
      BY <3>1, <3>2, <3>3
  <2> QED
    BY <2>1, <2>6, <2>7, <2>8, ReportNoRow
<1>b. pc \in {"check", "execute"} => s <= Len(call.suites)
  BY DEF TypeOK
<1>5. CASE NotForSubject
  BY <1>5, <1>b, ReportNextCheck DEF NotForSubject, AtCheck
<1>6. CASE ListNotRun
  <2> DEFINE r == buildResult(<<s, c>>, suite, check.id, NotRunAfter(haltedBy), check.fatal, check.halts)
  <2>1. results' = Append(results, r)
    BY <1>6 DEF ListNotRun
  <2>2. r.at = <<s, c>>
    BY BuiltRow
  <2> HIDE DEF r
  <2> QED
    BY <1>6, <1>b, <2>1, <2>2, ReportNextCheck DEF ListNotRun, AtCheck
<1>7. CASE StartCheck
  <2>1. /\ pc = "check" /\ pc' = "execute" /\ s' = s /\ c' = c /\ call' = call
        /\ results' = results /\ applies' = applies /\ checkAppliesTo(check, call.subject)
    BY <1>7 DEF StartCheck, AtCheck
  <2>2. EnteredInv'
    BY <2>1 DEF ReportInv, EnteredInv, HaltedBefore, Rows, check, suite
  <2>3. \A si, ci : Behind(si, ci)' <=> Behind(si, ci)
    BY <2>1 DEF Behind
  <2> QED
    BY <2>1, <2>2, <2>3, ReportNoRow
<1>8. ASSUME NEW outcome \in Outcome, SettleCheck(outcome) PROVE ReportInv'
  <2> DEFINE r == buildResult(<<s, c>>, suite, check.id, outcome, check.fatal, check.halts)
  <2>1. results' = Append(results, r) /\ pc = "execute"
    BY <1>8 DEF SettleCheck
  <2>2. r.at = <<s, c>>
    BY BuiltRow
  <2> HIDE DEF r
  <2>3. c <= Len(suite.checks) /\ checkAppliesTo(check, call.subject)
    BY <2>1 DEF TypeOK, ReportInv, EnteredInv
  <2> QED
    BY <1>8, <1>b, <2>1, <2>2, <2>3, ReportNextCheck DEF SettleCheck
<1>9. CASE LeaveSuite
  <2>1. /\ pc = "check" /\ pc' = "suite" /\ s' = z + 1 /\ c > Len(suite.checks) /\ call' = call
        /\ results' = results /\ applies' = applies
    BY <1>0, <1>9 DEF LeaveSuite
  <2>2. EnteredInv'
    BY <2>1 DEF EnteredInv
  <2>3. \A si \in 1..Len(call.suites) : \A ci \in 0..Len(Checks(si)) :
          Behind(si, ci) => Behind(si, ci)'
    BY <1>0, <2>1 DEF Behind
  <2>4. Checks(z) = suite.checks /\ suite.checks \in Seq(Check) /\ c \in Nat
    BY <1>0, <1>b, <2>1, Current DEF Checks, suite, TypeOK
  <2>5. \A si \in 1..Len(call.suites) : \A ci \in 0..Len(Checks(si)) :
          Behind(si, ci)' => Behind(si, ci)
    <3> TAKE si \in 1..Len(call.suites)
    <3> TAKE ci \in 0..Len(Checks(si))
    <3>1. Behind(si, ci)' => si < z \/ si = z
      BY <1>0, <2>1 DEF Behind
    <3>2. si = z => ci < c
      BY <2>1, <2>4
    <3> QED
      BY <1>0, <2>1, <3>1, <3>2 DEF Behind
  <2> QED
    BY <2>1, <2>2, <2>3, <2>5, ReportNoRow
<1>10. CASE Return
  <2>1. /\ pc = "suite" /\ pc' = "done" /\ s' = s /\ call' = call
        /\ results' = results /\ applies' = applies
    BY <1>10 DEF Return
  <2>2. EnteredInv'
    BY <2>1 DEF EnteredInv
  <2>3. \A si, ci : Behind(si, ci)' <=> Behind(si, ci)
    BY <2>1 DEF Behind
  <2> QED
    BY <2>1, <2>2, <2>3, ReportNoRow
<1>11. CASE UNCHANGED vars
  <2>1. EnteredInv'
    BY <1>11 DEF vars, ReportInv, EnteredInv, HaltedBefore, Rows, check, suite
  <2>2. \A si, ci : Behind(si, ci)' <=> Behind(si, ci)
    BY <1>11 DEF vars, Behind
  <2> QED
    BY <1>11, <2>1, <2>2, ReportNoRow DEF vars
<1> QED
  BY <1>1, <1>2, <1>3, <1>4, <1>5, <1>6, <1>7, <1>8, <1>9, <1>10, <1>11 DEF Next, Step, Returned

\* A finished call has left every suite behind.
LEMMA DoneInvariant == Spec => [](pc = "done" => s > Len(call.suites))
<1>1. Init => (pc = "done" => s > Len(call.suites))
  BY DEF Init
<1>2. (pc = "done" => s > Len(call.suites)) /\ [Next]_vars => (pc = "done" => s > Len(call.suites))'
  BY DEF Next, Step, Returned, vars, PhaseExcluded, AppliesThrew, AppliesDeclined, NextSuite, AtSuite,
         Evaluated, EnterSuite, NotForSubject, ListNotRun, AtCheck, StartCheck, SettleCheck, LeaveSuite, Return
<1> QED
  BY <1>1, <1>2, PTL DEF Spec

LEMMA ReportInvariant == Spec => []ReportInv
<1>1. Init => ReportInv
  <2> SUFFICES ASSUME Init PROVE ReportInv
    OBVIOUS
  <2>1. Rows = {} /\ EnteredInv
    BY DEF Init, Rows, EnteredInv
  <2>2. \A si \in 1..Len(call.suites) : \A ci : ~Behind(si, ci)
    BY CallShape, CallsAssumption DEF Init, Behind
  <2> QED
    BY <2>1, <2>2 DEF ReportInv
<1>2. TypeOK /\ TypeOK' /\ HaltInv /\ ReportInv /\ [Next]_vars => ReportInv'
  BY ReportStep
<1> QED
  BY <1>1, <1>2, HaltInvariant, PTL DEF Spec

\* The returned report has one row for every check that applies, run or halted, of
\* every suite that was not excluded and did not decline, and they are in order.
THEOREM Complete == Spec => []ReportComplete
<1>1. ASSUME TypeOK, ReportInv, pc = "done", s > Len(call.suites)
      PROVE  /\ {results[i].at : i \in Rows} =
                  {p \in UNION {{si} \X (0..Len(call.suites[si].checks)) : si \in 1..Len(call.suites)} :
                     Listed(p[1], p[2])}
             /\ \A i, j \in Rows : i < j => Precedes(results[i].at, results[j].at)
  <2> DEFINE places == UNION {{si} \X (0..Len(call.suites[si].checks)) : si \in 1..Len(call.suites)}
  <2>1. \A si \in 1..Len(call.suites) : \A ci : Behind(si, ci)
    BY <1>1, CallShape DEF TypeOK, Behind
  <2>2. ASSUME NEW i \in Rows
        PROVE  results[i].at \in places /\ Listed(results[i].at[1], results[i].at[2])
    <3>1. PICK si \in 1..Len(call.suites) : \E ci \in 0..Len(Checks(si)) :
            results[i].at = <<si, ci>> /\ Listed(si, ci)
      BY <1>1 DEF ReportInv
    <3>2. PICK ci \in 0..Len(Checks(si)) : results[i].at = <<si, ci>> /\ Listed(si, ci)
      BY <3>1
    <3>3. <<si, ci>> \in {si} \X (0..Len(call.suites[si].checks))
      BY DEF Checks
    <3> QED
      BY <3>2, <3>3
  <2>3. ASSUME NEW p \in places, Listed(p[1], p[2])
        PROVE  p \in {results[i].at : i \in Rows}
    <3>1. PICK si \in 1..Len(call.suites) : p \in {si} \X (0..Len(call.suites[si].checks))
      OBVIOUS
    <3>2. PICK ci \in 0..Len(Checks(si)) : p = <<si, ci>>
      BY <3>1 DEF Checks
    <3>3. \E i \in Rows : results[i].at = <<si, ci>>
      BY <1>1, <2>1, <2>3, <3>2 DEF ReportInv
    <3> QED
      BY <3>2, <3>3
  <2>4. \A i, j \in Rows : i < j => Precedes(results[i].at, results[j].at)
    BY <1>1 DEF ReportInv
  <2> HIDE DEF places
  <2>5. {results[i].at : i \in Rows} = {p \in places : Listed(p[1], p[2])}
    BY <2>2, <2>3
  <2> QED
    BY <2>4, <2>5 DEF places
<1>2. TypeOK /\ ReportInv /\ (pc = "done" => s > Len(call.suites)) => ReportComplete
  BY <1>1 DEF ReportComplete
<1> QED
  BY <1>2, HaltInvariant, DoneInvariant, ReportInvariant, PTL

-----------------------------------------------------------------------------
(* The summaries account for the report *)

\* The least of some row indices is one of them.
LEMMA LeastIsOne ==
  ASSUME NEW P \in SUBSET Nat, P # {}
  PROVE  Least(P) \in P /\ \A j \in P : Least(P) <= j
<1>1. IsWellFoundedOn(OpToRel(<, Nat), Nat)
  BY NatLessThanWellFounded
<1>2. \E x \in P : \A y \in P : ~(<<y, x>> \in OpToRel(<, Nat))
  BY <1>1, WFMin
<1>3. ASSUME NEW x \in Nat, NEW y \in Nat, y < x
      PROVE  <<y, x>> \in OpToRel(<, Nat)
  <2> DEFINE r == <<y, x>>
  <2>1. r \in Nat \X Nat /\ r[1] < r[2]
    BY <1>3
  <2> HIDE DEF r
  <2>2. r \in {ss \in Nat \X Nat : ss[1] < ss[2]}
    BY <2>1
  <2>3. r \in OpToRel(<, Nat)
    BY <2>2, Zenon DEF OpToRel
  <2> QED
    BY <2>3 DEF r
<1>4. \A x, y \in P : y < x => <<y, x>> \in OpToRel(<, Nat)
  BY <1>3
<1>5. \E x \in P : \A y \in P : ~(y < x)
  BY <1>2, <1>4
<1>6. \E x \in P : \A y \in P : x <= y
  BY <1>5
<1> QED
  BY <1>6 DEF Least

\* A namespaced id is never empty: it begins with the phase.
LEMMA ComputeIdFull ==
  ASSUME NEW phase \in Optional(SuitePhase), NEW suiteId \in Seq(Segment),
         NEW checkId \in Seq(Segment)
  PROVE  computeId(phase, suiteId, checkId) # None
<1> DEFINE phaseSeg == IF phase = None THEN <<"unknown">> ELSE phase
           n        == Len(suiteId)
           prefixed == Len(checkId) > n /\ SubSeq(checkId, 1, n) = suiteId
           local    == IF prefixed THEN SubSeq(checkId, n + 1, Len(checkId)) ELSE checkId
<1>1. phaseSeg \in Seq(Segment) /\ Len(phaseSeg) = 1
  <2>1. SuitePhase \subseteq Segment /\ "unknown" \in Segment
    BY SegmentAssumption
  <2>2. \A x \in Segment : <<x>> \in Seq(Segment) /\ Len(<<x>>) = 1
    OBVIOUS
  <2>3. phase = None \/ \E x \in SuitePhase : phase = <<x>>
    BY DEF Optional
  <2> QED
    BY <2>1, <2>2, <2>3
<1>2. local \in Seq(Segment)
  <2>1. n \in Nat /\ Len(checkId) \in Nat
    OBVIOUS
  <2>2. CASE prefixed
    <3>1. n + 1 \in 1..(Len(checkId) + 1)
      BY <2>1, <2>2
    <3>2. SubSeq(checkId, n + 1, Len(checkId)) \in Seq(Segment)
      BY <2>1, <3>1
    <3> QED
      BY <2>2, <3>2
  <2>3. CASE ~prefixed
    BY <2>3
  <2> QED
    BY <2>2, <2>3
<1>3. computeId(phase, suiteId, checkId) =
        IF phaseSeg = suiteId THEN phaseSeg \o local ELSE phaseSeg \o suiteId \o local
  BY DEF computeId
<1> HIDE DEF phaseSeg, local
<1>4. Len(phaseSeg \o local) = 1 + Len(local)
  <2>1. Len(phaseSeg \o local) = Len(phaseSeg) + Len(local)
    BY <1>1, <1>2, ConcatProperties
  <2> QED
    BY <1>1, <2>1
<1>5. Len(phaseSeg \o suiteId \o local) = 1 + Len(suiteId) + Len(local)
  <2>1. /\ phaseSeg \o suiteId \in Seq(Segment)
        /\ Len(phaseSeg \o suiteId) = Len(phaseSeg) + Len(suiteId)
    BY <1>1, ConcatProperties
  <2>2. Len((phaseSeg \o suiteId) \o local) = Len(phaseSeg \o suiteId) + Len(local)
    BY <1>2, <2>1, ConcatProperties
  <2> QED
    BY <1>1, <2>1, <2>2
<1>6. Len(local) \in Nat /\ Len(suiteId) \in Nat /\ Len(None) = 0
  BY <1>2 DEF None
<1>7. Len(computeId(phase, suiteId, checkId)) > 0
  BY <1>3, <1>4, <1>5, <1>6
<1> QED
  BY <1>6, <1>7

\* A row that says "not run" comes after the halting row it blames.
SaysWhy(i) ==
  /\ results[i].id # None
  /\ results[i].why = "notRun" =>
       /\ results[i].status = "skipped"
       /\ \E h \in Rows : /\ h < i
                          /\ HaltingRow(results[h])
                          /\ results[h].check = results[i].haltedBy

WhyInv == \A i \in Rows : SaysWhy(i)

\* Another row keeps what the rows before it say.
LEMMA WhyAppended ==
  ASSUME TypeOK, WhyInv, NEW r \in Row, results' = Append(results, r), r.id # None,
         r.why = "notRun" =>
           /\ r.status = "skipped"
           /\ \E h \in Rows : HaltingRow(results[h]) /\ results[h].check = r.haltedBy
  PROVE  WhyInv'
<1> DEFINE last == Len(results) + 1
<1>1. /\ Rows' = Rows \cup {last} /\ last \notin Rows /\ results'[last] = r
      /\ \A i \in Rows : i < last /\ results'[i] = results[i]
  BY RowAppended
<1> HIDE DEF last
<1>2. ASSUME NEW i \in Rows
      PROVE  SaysWhy(i)'
  <2> PICK z : z = i
    OBVIOUS
  <2>1. SaysWhy(z)
    BY DEF WhyInv
  <2>2. SaysWhy(z)'
    BY <1>1, <2>1 DEF SaysWhy
  <2> QED
    BY <1>1, <2>1 DEF SaysWhy
<1>3. PICK z : z = last
  OBVIOUS
<1>4. SaysWhy(z)'
  <2>1. results'[z].id # None
    BY <1>1, <1>3
  <2>2. ASSUME results'[z].why = "notRun"
        PROVE  /\ results'[z].status = "skipped"
               /\ \E h \in Rows' : /\ h < z
                                   /\ HaltingRow(results'[h])
                                   /\ results'[h].check = results'[z].haltedBy
    <3>1. r.why = "notRun" /\ results'[z] = r
      BY <1>1, <1>3, <2>2
    <3>2. PICK h \in Rows : HaltingRow(results[h]) /\ results[h].check = r.haltedBy
      BY <3>1
    <3>3. h \in Rows' /\ h < z /\ results'[h] = results[h]
      BY <1>1, <1>3
    <3> QED
      BY <3>1, <3>2, <3>3
  <2> QED
    BY <2>1, <2>2 DEF SaysWhy
<1>5. Rows' = Rows \cup {z}
  BY <1>1, <1>3
<1> QED
  BY <1>2, <1>4, <1>5 DEF WhyInv

LEMMA BuiltId ==
  ASSUME TypeOK, s <= Len(call.suites), NEW at, NEW checkId \in Seq(Segment), NEW o,
         NEW fatal, NEW halts
  PROVE  buildResult(at, suite, checkId, o, fatal, halts).id # None
<1>1. suite.phase \in Optional(SuitePhase) /\ suite.id \in Seq(Segment)
  BY Current DEF Suite, Id
<1>2. computeId(suite.phase, suite.id, checkId) # None
  BY <1>1, ComputeIdFull
<1> QED
  BY <1>2 DEF buildResult

\* Every step keeps WhyInv.
LEMMA WhyStep == TypeOK /\ TypeOK' /\ HaltInv /\ WhyInv /\ [Next]_vars => WhyInv'
<1> SUFFICES ASSUME TypeOK, TypeOK', HaltInv, WhyInv, [Next]_vars PROVE WhyInv'
  OBVIOUS
<1>0. ASSUME results' = results PROVE WhyInv'
  BY <1>0 DEF WhyInv, SaysWhy, Rows
<1>1. CASE AppliesThrew
  <2> DEFINE r == buildResult(<<s, 0>>, suite, appliesId(suite.id), buildCheckErrorOutcome,
                              couldFail(suite, call.subject), TRUE)
  <2>1. results' = Append(results, r) /\ s <= Len(call.suites)
    BY <1>1 DEF AppliesThrew, Evaluated, AtSuite
  <2>2. appliesId(suite.id) \in Seq(Segment)
    BY <2>1, Current, AppliesIdType DEF Suite, Id
  <2>3. r.id # None /\ r.why # "notRun"
    <3>1. r.id # None
      BY <2>1, <2>2, BuiltId
    <3>2. r.why = buildCheckErrorOutcome.why
      BY DEF buildResult
    <3> QED
      BY <3>1, <3>2 DEF buildCheckErrorOutcome
  <2> HIDE DEF r
  <2>4. r \in Row
    BY <2>1, AppendedRow
  <2> QED
    BY <2>1, <2>3, <2>4, WhyAppended
<1>2. CASE AppliesDeclined
  <2> DEFINE r == buildResult(<<s, 0>>, suite, appliesId(suite.id), Declined, FALSE, TRUE)
  <2>1. s <= Len(call.suites) /\ (results' = results \/ results' = Append(results, r))
    BY <1>2 DEF AppliesDeclined, Evaluated, AtSuite
  <2>2. appliesId(suite.id) \in Seq(Segment)
    BY <2>1, Current, AppliesIdType DEF Suite, Id
  <2>3. r.id # None /\ r.why # "notRun"
    <3>1. r.id # None
      BY <2>1, <2>2, BuiltId
    <3>2. r.why = Declined.why
      BY DEF buildResult
    <3> QED
      BY <3>1, <3>2 DEF Declined
  <2> HIDE DEF r
  <2>4. results' = Append(results, r) => r \in Row
    BY AppendedRow
  <2> QED
    BY <1>0, <2>1, <2>3, <2>4, WhyAppended
<1>3. CASE ListNotRun
  <2> DEFINE r == buildResult(<<s, c>>, suite, check.id, NotRunAfter(haltedBy),
                              check.fatal, check.halts)
  <2>1. results' = Append(results, r) /\ s <= Len(call.suites) /\ haltedBy # None
        /\ check.id \in Seq(Segment)
    BY <1>3, Current DEF ListNotRun, AtCheck, TypeOK, Check, Id
  <2>2. r.id # None /\ r.status = "skipped" /\ r.haltedBy = haltedBy
    BY <2>1, BuiltId, BuiltRow DEF NotRunAfter
  <2> HIDE DEF r
  <2>3. r \in Row
    BY <2>1, AppendedRow
  <2>4. \E h \in Rows : HaltingRow(results[h]) /\ results[h].check = r.haltedBy
    BY <2>1, <2>2 DEF HaltInv
  <2> QED
    BY <2>1, <2>2, <2>3, <2>4, WhyAppended
<1>4. ASSUME NEW outcome \in Outcome, SettleCheck(outcome)
      PROVE  WhyInv'
  <2> DEFINE r == buildResult(<<s, c>>, suite, check.id, outcome, check.fatal, check.halts)
  <2>1. results' = Append(results, r) /\ s <= Len(call.suites) /\ check.id \in Seq(Segment)
    BY <1>4, Current DEF SettleCheck, TypeOK, Check, Id
  <2>2. r.id # None /\ r.why = outcome.why
    BY <2>1, BuiltId, BuiltRow
  <2>3. outcome.why # "notRun"
    BY DEF Outcome, Ran, buildCheckErrorOutcome
  <2> HIDE DEF r
  <2>4. r \in Row
    BY <2>1, AppendedRow
  <2> QED
    BY <2>1, <2>2, <2>3, <2>4, WhyAppended
<1>5. CASE PhaseExcluded \/ EnterSuite \/ NotForSubject \/ StartCheck \/ LeaveSuite \/ Return
           \/ UNCHANGED vars
  BY <1>0, <1>5 DEF PhaseExcluded, EnterSuite, NotForSubject, StartCheck, LeaveSuite, Return, vars
<1> QED
  BY <1>1, <1>2, <1>3, <1>4, <1>5 DEF Next, Step, Returned

LEMMA WhyInvariant == Spec => [](TypeOK /\ WhyInv)
<1>1. Init => WhyInv
  BY DEF Init, WhyInv, Rows
<1>2. TypeOK /\ TypeOK' /\ HaltInv /\ WhyInv /\ [Next]_vars => WhyInv'
  BY WhyStep
<1> QED
  BY <1>1, <1>2, HaltInvariant, PTL DEF Spec

\* The rows of a suite, sorted into the four heaps of its tally.
Heap(I, status) == {i \in I : results[i].status = status}
NotRuns(I)      == {i \in I : results[i].why = "notRun"}
Skips(I)        == {i \in I : results[i].status = "skipped" /\ results[i].why # "notRun"}

\* Every row is counted once.
LEMMA HeapsCount ==
  ASSUME TypeOK, WhyInv, NEW I \in SUBSET Rows
  PROVE  /\ Cardinality(Heap(I, "success")) \in Nat
         /\ Cardinality(Heap(I, "failure")) \in Nat
         /\ Cardinality(Skips(I)) \in Nat
         /\ Cardinality(NotRuns(I)) \in Nat
         /\ Cardinality(I) = Cardinality(Heap(I, "success")) + Cardinality(Heap(I, "failure"))
                               + Cardinality(Skips(I)) + Cardinality(NotRuns(I))
         /\ Cardinality(NotRuns(I)) = Cardinality(I) => NotRuns(I) = I
<1> DEFINE S == Heap(I, "success")
           F == Heap(I, "failure")
           K == Skips(I)
           N == NotRuns(I)
<1>1. IsFiniteSet(I)
  <2>1. Len(results) \in Nat
    BY DEF TypeOK
  <2>2. IsFiniteSet(1..Len(results))
    BY <2>1, FS_Interval
  <2> QED
    BY <2>2, FS_Subset DEF Rows
<1>2. S \in SUBSET I /\ F \in SUBSET I /\ K \in SUBSET I /\ N \in SUBSET I
  BY DEF Heap, Skips, NotRuns
<1>3. \A i \in I : results[i].status \in {"success", "failure", "skipped"}
  <2>1. \A i \in 1..Len(results) : results[i] \in Row
    BY DEF TypeOK
  <2> QED
    BY <2>1 DEF Rows, Row
<1>4. \A i \in I : results[i].why = "notRun" => results[i].status = "skipped"
  BY DEF WhyInv, SaysWhy
<1>5. I = ((S \cup F) \cup K) \cup N
  BY <1>3 DEF Heap, Skips, NotRuns
<1>6. S \cap F = {} /\ (S \cup F) \cap K = {} /\ ((S \cup F) \cup K) \cap N = {}
  BY <1>4 DEF Heap, Skips, NotRuns
<1> HIDE DEF S, F, K, N
<1>7. IsFiniteSet(S) /\ IsFiniteSet(F) /\ IsFiniteSet(K) /\ IsFiniteSet(N)
  BY <1>1, <1>2, FS_Subset
<1>8. /\ Cardinality(S) \in Nat /\ Cardinality(F) \in Nat
      /\ Cardinality(K) \in Nat /\ Cardinality(N) \in Nat
  BY <1>7, FS_CardinalityType
<1>9. Cardinality({}) = 0
  BY FS_EmptySet
<1>10. IsFiniteSet(S \cup F) /\ Cardinality(S \cup F) = Cardinality(S) + Cardinality(F)
  <2>1. /\ IsFiniteSet(S \cup F)
        /\ Cardinality(S \cup F) = Cardinality(S) + Cardinality(F) - Cardinality(S \cap F)
    BY <1>7, FS_Union
  <2>2. Cardinality(S \cap F) = 0
    BY <1>6, <1>9
  <2> QED
    BY <1>8, <2>1, <2>2
<1>11. /\ IsFiniteSet((S \cup F) \cup K)
       /\ Cardinality((S \cup F) \cup K) = Cardinality(S) + Cardinality(F) + Cardinality(K)
  <2> DEFINE U == S \cup F
  <2>1. IsFiniteSet(U) /\ U \cap K = {} /\ Cardinality(U) = Cardinality(S) + Cardinality(F)
    BY <1>6, <1>10
  <2> HIDE DEF U
  <2>2. /\ IsFiniteSet(U \cup K)
        /\ Cardinality(U \cup K) = Cardinality(U) + Cardinality(K) - Cardinality(U \cap K)
    BY <1>7, <2>1, FS_Union
  <2>3. Cardinality(U \cap K) = 0
    BY <1>9, <2>1
  <2>4. IsFiniteSet(U \cup K)
        /\ Cardinality(U \cup K) = Cardinality(S) + Cardinality(F) + Cardinality(K)
    BY <1>8, <2>1, <2>2, <2>3
  <2> QED
    BY <2>4 DEF U
<1>12. Cardinality(I) = Cardinality(S) + Cardinality(F) + Cardinality(K) + Cardinality(N)
  <2> DEFINE U == (S \cup F) \cup K
  <2>1. IsFiniteSet(U) /\ U \cap N = {} /\ I = U \cup N
        /\ Cardinality(U) = Cardinality(S) + Cardinality(F) + Cardinality(K)
    BY <1>5, <1>6, <1>11
  <2> HIDE DEF U
  <2>2. Cardinality(U \cup N) = Cardinality(U) + Cardinality(N) - Cardinality(U \cap N)
    BY <1>7, <2>1, FS_Union
  <2>3. Cardinality(U \cap N) = 0
    BY <1>9, <2>1
  <2> QED
    BY <1>8, <2>1, <2>2, <2>3
<1>13. Cardinality(N) = Cardinality(I) => N = I
  BY <1>1, <1>2, FS_Subset
<1> QED
  BY <1>8, <1>12, <1>13 DEF S, F, K, N

\* The tally of a group of rows counts the four heaps.
LEMMA TallyOf ==
  ASSUME NEW I
  PROVE  LET t == tallySuite(results, I) IN
         /\ t.passed = Cardinality(Heap(I, "success"))
         /\ t.failed = Cardinality(Heap(I, "failure"))
         /\ t.skipped = Cardinality(Skips(I))
         /\ t.notRun = Cardinality(NotRuns(I))
         /\ t.haltedBy = IF NotRuns(I) = {} THEN None ELSE results[Least(NotRuns(I))].haltedBy
BY DEF tallySuite, Heap, Skips, NotRuns

\* The first rows of the suites carry the summaries.
LEMMA Firsts ==
  ASSUME TypeOK
  PROVE  /\ DOMAIN summaries \subseteq Rows
         /\ \A i \in Rows : \E k \in DOMAIN summaries :
              k <= i /\ results[k].suite = results[i].suite
         /\ \A k \in DOMAIN summaries :
              /\ k = Least(groupOf(results, results[k].suite))
              /\ summaries[k] = summarizeSuite(results[k].suite,
                                   derivePhase(call.suites, results[k].suite), results,
                                   groupOf(results, results[k].suite))
<1>1. DOMAIN summaries = {i \in Rows : i = Least(groupOf(results, results[i].suite))}
  BY DEF summaries, foldCheckResults, Rows
<1>2. \A k \in DOMAIN summaries :
        summaries[k] = summarizeSuite(results[k].suite,
                         derivePhase(call.suites, results[k].suite), results,
                         groupOf(results, results[k].suite))
  BY DEF summaries, foldCheckResults
<1>3. ASSUME NEW i \in Rows
      PROVE  \E k \in DOMAIN summaries : k <= i /\ results[k].suite = results[i].suite
  <2> DEFINE G == groupOf(results, results[i].suite)
  <2>1. G \in SUBSET Nat /\ i \in G /\ G \subseteq Rows
        /\ \A k \in G : results[k].suite = results[i].suite
    BY DEF groupOf, Rows
  <2> DEFINE k == Least(G)
  <2>2. k \in G /\ k <= i
    <3> HIDE DEF G
    <3> QED
      BY <2>1, LeastIsOne
  <2>3. results[k].suite = results[i].suite
    BY <2>1, <2>2
  <2>4. k = Least(groupOf(results, results[k].suite))
    BY <2>3
  <2> HIDE DEF k
  <2> QED
    BY <1>1, <2>1, <2>2, <2>3, <2>4
<1> QED
  BY <1>1, <1>2, <1>3

\* What a summary says of its group of rows.
LEMMA SummaryOf ==
  ASSUME NEW suiteId, NEW phase, NEW I
  PROVE  LET m == summarizeSuite(suiteId, phase, results, I)
             t == tallySuite(results, I)
             fatal == {i \in I : FatalFailureRow(results[i])}
         IN /\ m.suite = suiteId
            /\ m.verified <=> fatal = {}
            /\ m.counts.passed = t.passed /\ m.counts.failed = t.failed
            /\ m.counts.skipped = t.skipped + t.notRun
            /\ m.fatalFailureAt = IF fatal = {} THEN None ELSE results[Least(fatal)].id
            /\ m.message = formatMessage(t, pickAppliesSkipReason(results, I, phase, suiteId))
BY DEF summarizeSuite

LEMMA MessageOf ==
  ASSUME NEW t, NEW skip, formatMessage(t, skip).form = "not run"
  PROVE  /\ t.notRun = t.passed + t.failed + t.skipped + t.notRun
         /\ t.haltedBy # None
         /\ formatMessage(t, skip).blames = t.haltedBy
BY DEF formatMessage

LEMMA RowsNat == Rows \subseteq Nat
BY DEF Rows

\* A group whose summary reads "not run" is halted by a row before its first one.
LEMMA NotRunGroup ==
  ASSUME TypeOK, WhyInv, NEW I \in SUBSET Rows, NEW skip,
         formatMessage(tallySuite(results, I), skip).form = "not run"
  PROVE  \E h \in Rows : /\ h < Least(I) /\ HaltingRow(results[h])
                         /\ results[h].check = formatMessage(tallySuite(results, I), skip).blames
<1> DEFINE t == tallySuite(results, I)
<1>1. /\ t.notRun = t.passed + t.failed + t.skipped + t.notRun
      /\ t.haltedBy # None
      /\ formatMessage(t, skip).blames = t.haltedBy
  BY MessageOf
<1>2. /\ t.passed = Cardinality(Heap(I, "success"))
      /\ t.failed = Cardinality(Heap(I, "failure"))
      /\ t.skipped = Cardinality(Skips(I))
      /\ t.notRun = Cardinality(NotRuns(I))
      /\ t.haltedBy = IF NotRuns(I) = {} THEN None ELSE results[Least(NotRuns(I))].haltedBy
  BY TallyOf
<1> HIDE DEF t
<1>3. NotRuns(I) = I
  BY <1>1, <1>2, HeapsCount
<1>4. I # {} /\ t.haltedBy = results[Least(I)].haltedBy
  BY <1>1, <1>2, <1>3
<1>5. Least(I) \in I
  <2>1. Rows \subseteq Nat
    BY RowsNat
  <2>2. I \in SUBSET Nat
    BY <2>1
  <2> QED
    BY <1>4, <2>2, LeastIsOne
<1>6. results[Least(I)].why = "notRun" /\ Least(I) \in Rows
  BY <1>3, <1>5 DEF NotRuns
<1>7. \E h \in Rows : /\ h < Least(I) /\ HaltingRow(results[h])
                      /\ results[h].check = results[Least(I)].haltedBy
  BY <1>6 DEF WhyInv, SaysWhy
<1> QED
  BY <1>1, <1>4, <1>7 DEF t

\* The summaries name a fatal failure exactly when the verdict is lost, count every
\* row once, and read "not run" only under a halt of a suite listed before.
THEOREM Accounted == Spec => []SummariesAccountForReport
<1>1. ASSUME TypeOK, WhyInv
      PROVE  SummariesAccountForReport
  <2> DEFINE D == DOMAIN summaries
             Of(k) == groupOf(results, results[k].suite)
  <2>1. /\ D \subseteq Rows
        /\ \A i \in Rows : \E k \in D : k <= i /\ results[k].suite = results[i].suite
        /\ \A k \in D : /\ k = Least(Of(k))
                        /\ summaries[k] = summarizeSuite(results[k].suite,
                             derivePhase(call.suites, results[k].suite), results, Of(k))
    BY <1>1, Firsts
  <2>2. \A k \in Rows : Of(k) \in SUBSET Rows
    BY DEF groupOf, Rows
  <2>3. \A i, k \in Rows : results[k].suite = results[i].suite => i \in Of(k)
    BY DEF groupOf, Rows
  <2>s. ASSUME NEW k \in D
        PROVE  LET m     == summaries[k]
                   t     == tallySuite(results, Of(k))
                   fatal == {i \in Of(k) : FatalFailureRow(results[i])}
               IN /\ m.suite = results[k].suite
                  /\ m.verified <=> fatal = {}
                  /\ m.counts.passed = t.passed /\ m.counts.failed = t.failed
                  /\ m.counts.skipped = t.skipped + t.notRun
                  /\ m.fatalFailureAt = IF fatal = {} THEN None ELSE results[Least(fatal)].id
                  /\ m.message = formatMessage(t, pickAppliesSkipReason(results, Of(k),
                                   derivePhase(call.suites, results[k].suite), results[k].suite))
    <3> DEFINE phase == derivePhase(call.suites, results[k].suite)
               I     == Of(k)
               sid   == results[k].suite
    <3>1. summaries[k] = summarizeSuite(sid, phase, results, I)
      BY <2>1
    <3> HIDE DEF phase, I, sid
    <3>2. LET m     == summarizeSuite(sid, phase, results, I)
              t     == tallySuite(results, I)
              fatal == {i \in I : FatalFailureRow(results[i])}
          IN /\ m.suite = sid
             /\ m.verified <=> fatal = {}
             /\ m.counts.passed = t.passed /\ m.counts.failed = t.failed
             /\ m.counts.skipped = t.skipped + t.notRun
             /\ m.fatalFailureAt = IF fatal = {} THEN None ELSE results[Least(fatal)].id
             /\ m.message = formatMessage(t, pickAppliesSkipReason(results, I, phase, sid))
      BY SummaryOf
    <3> QED
      BY <3>1, <3>2 DEF phase, I, sid
  <2>4. \A k \in D : summaries[k].suite = results[k].suite
    BY <2>s
  <2>5. ASSUME NEW k \in D
        PROVE  LET fatal == {i \in Of(k) : FatalFailureRow(results[i])} IN
               /\ summaries[k].verified <=> fatal = {}
               /\ summaries[k].fatalFailureAt # None <=> fatal # {}
    <3> DEFINE fatal == {i \in Of(k) : FatalFailureRow(results[i])}
    <3>1. /\ summaries[k].verified <=> fatal = {}
          /\ summaries[k].fatalFailureAt = IF fatal = {} THEN None ELSE results[Least(fatal)].id
      BY <2>s
    <3>2. fatal \in SUBSET Rows
      BY <2>1, <2>2
    <3> HIDE DEF fatal
    <3>3. fatal # {} => Least(fatal) \in Rows
      <4>1. fatal \in SUBSET Nat
        BY <3>2 DEF Rows
      <4> QED
        BY <3>2, <4>1, LeastIsOne
    <3>4. fatal # {} => results[Least(fatal)].id # None
      BY <1>1, <3>3 DEF WhyInv, SaysWhy
    <3> QED
      BY <3>1, <3>4 DEF fatal
  <2>6. hasFatalFailures(results) <=> \E k \in D : summaries[k].fatalFailureAt # None
    <3>1. hasFatalFailures(results) <=> \E i \in Rows : FatalFailureRow(results[i])
      BY DEF hasFatalFailures, Rows
    <3>2. ASSUME NEW i \in Rows, FatalFailureRow(results[i])
          PROVE  \E k \in D : summaries[k].fatalFailureAt # None
      <4>1. PICK k \in D : results[k].suite = results[i].suite
        BY <2>1
      <4>2. i \in Of(k)
        BY <2>1, <2>3, <4>1
      <4> QED
        BY <2>5, <3>2, <4>2
    <3>3. ASSUME NEW k \in D, summaries[k].fatalFailureAt # None
          PROVE  \E i \in Rows : FatalFailureRow(results[i])
      <4>1. \E i \in Of(k) : FatalFailureRow(results[i])
        BY <2>5, <3>3
      <4> QED
        BY <2>1, <2>2, <4>1
    <3> QED
      BY <3>1, <3>2, <3>3
  <2>7. ASSUME NEW k \in D
        PROVE  summaries[k].counts.passed + summaries[k].counts.failed
                 + summaries[k].counts.skipped
               = Cardinality(groupOf(results, summaries[k].suite))
    <3> DEFINE I == Of(k)
               t == tallySuite(results, I)
    <3>1. /\ summaries[k].counts.passed = t.passed /\ summaries[k].counts.failed = t.failed
          /\ summaries[k].counts.skipped = t.skipped + t.notRun
      BY <2>s
    <3>2. groupOf(results, summaries[k].suite) = I
      BY <2>4
    <3>3. I \in SUBSET Rows
      BY <2>1, <2>2
    <3>4. /\ t.passed = Cardinality(Heap(I, "success"))
          /\ t.failed = Cardinality(Heap(I, "failure"))
          /\ t.skipped = Cardinality(Skips(I))
          /\ t.notRun = Cardinality(NotRuns(I))
      BY TallyOf
    <3> HIDE DEF I, t
    <3>5. /\ Cardinality(Heap(I, "success")) \in Nat
          /\ Cardinality(Heap(I, "failure")) \in Nat
          /\ Cardinality(Skips(I)) \in Nat
          /\ Cardinality(NotRuns(I)) \in Nat
          /\ Cardinality(I) = Cardinality(Heap(I, "success")) + Cardinality(Heap(I, "failure"))
                                + Cardinality(Skips(I)) + Cardinality(NotRuns(I))
      BY <1>1, <3>3, HeapsCount
    <3>6. summaries[k].counts.passed + summaries[k].counts.failed
            + summaries[k].counts.skipped = Cardinality(I)
      BY <3>1, <3>4, <3>5
    <3> QED
      BY <3>2, <3>6
  <2>8. {summaries[k].suite : k \in D} = {results[i].suite : i \in Rows}
    BY <2>1, <2>4
  <2>9. ASSUME NEW k \in D, summaries[k].message.form = "not run"
        PROVE  \E j \in D :
                 /\ j < k
                 /\ ~summaries[j].verified
                 /\ \E i \in Rows : /\ HaltingRow(results[i])
                                    /\ results[i].suite = summaries[j].suite
                                    /\ results[i].check = summaries[k].message.blames
    <3> DEFINE I == Of(k)
               skip == pickAppliesSkipReason(results, I,
                         derivePhase(call.suites, results[k].suite), results[k].suite)
    <3>1. summaries[k].message = formatMessage(tallySuite(results, I), skip)
      BY <2>s
    <3>2. I \in SUBSET Rows /\ k = Least(I)
      BY <2>1, <2>2
    <3> HIDE DEF I, skip
    <3>3. PICK h \in Rows : /\ h < k /\ HaltingRow(results[h])
                            /\ results[h].check = summaries[k].message.blames
      BY <1>1, <2>9, <3>1, <3>2, NotRunGroup
    <3>4. PICK j \in D : j <= h /\ results[j].suite = results[h].suite
      BY <2>1
    <3>5. h \in Of(j) /\ FatalFailureRow(results[h])
      BY <2>1, <2>3, <3>3, <3>4 DEF HaltingRow
    <3>6. ~summaries[j].verified
      BY <2>5, <3>5
    <3>7. j < k
      BY <2>1, <3>3, <3>4 DEF Rows
    <3> QED
      BY <2>4, <3>3, <3>4, <3>6, <3>7
  <2> HIDE DEF D
  <2> QED
    BY <2>6, <2>7, <2>8, <2>9 DEF SummariesAccountForReport, D
<1> QED
  BY <1>1, WhyInvariant, PTL

-----------------------------------------------------------------------------
(* The orchestrator implements SubjectVerdict *)

\* The verdict of the abstract specification, over a step that adds no row.
LEMMA SameVerdict ==
  ASSUME results' = results
  PROVE  hasFatalFailures(results)' = hasFatalFailures(results)
BY DEF hasFatalFailures

\* Every call of runSuites behaves as SubjectVerdict promises.
THEOREM Implements == Spec => ImplementsVerdict
<1>1. Init => Verdict!Init
  BY DEF Init, Verdict!Init, hasFatalFailures
<1>2. TypeOK /\ TypeOK' /\ HaltInv /\ [Next]_vars => [Verdict!Next]_Verdict!vvars
  <2> SUFFICES ASSUME TypeOK, TypeOK', HaltInv, [Next]_vars PROVE [Verdict!Next]_Verdict!vvars
    OBVIOUS
  <2> DEFINE F == hasFatalFailures(results)
  <2>0. F \in BOOLEAN
    BY DEF hasFatalFailures
  <2>a. ASSUME F' = F, haltedBy' = haltedBy,
               pc' = pc \/ (pc \in {"suite", "check"} /\ pc' \in {"suite", "check"})
        PROVE  UNCHANGED Verdict!vvars
    BY <2>a DEF Verdict!vvars
  <2>1. CASE PhaseExcluded
    BY <2>1, <2>a, SameVerdict DEF PhaseExcluded, NextSuite
  <2>2. CASE AppliesThrew
    <3> DEFINE fatal == couldFail(suite, call.subject)
               r == buildResult(<<s, 0>>, suite, appliesId(suite.id), buildCheckErrorOutcome, fatal, TRUE)
    <3>1. /\ results' = Append(results, r) /\ haltedBy = None /\ pc = "suite" /\ pc' = "suite"
          /\ haltedBy' = IF fatal THEN appliesId(suite.id) ELSE haltedBy
          /\ s <= Len(call.suites)
      BY <2>2 DEF AppliesThrew, NextSuite, Evaluated, AtSuite
    <3>2. r \in Row
      BY <3>1, AppendedRow
    <3>3. FatalFailureRow(r) = fatal /\ fatal \in BOOLEAN
      <4>1. r.status = "failure" /\ r.fatal = fatal
        BY DEF buildResult, buildCheckErrorOutcome
      <4>2. fatal \in BOOLEAN
        BY DEF couldFail
      <4> QED
        BY <4>1, <4>2 DEF FatalFailureRow
    <3>4. appliesId(suite.id) # None
      BY <3>1, Current, AppliesIdType DEF Id
    <3> HIDE DEF r, fatal, F
    <3>5. F' = (F \/ fatal)
      BY <3>1, <3>2, <3>3, FatalAppended DEF F, hasFatalFailures
    <3>6. CASE fatal
      <4>1. F' = TRUE /\ haltedBy' # None
        BY <3>1, <3>4, <3>5, <3>6
      <4>2. Verdict!Undecidable
        BY <3>1, <4>1 DEF Verdict!Undecidable, F
      <4> QED
        BY <4>2 DEF Verdict!Next
    <3>7. CASE ~fatal
      BY <2>0, <2>a, <3>1, <3>5, <3>7 DEF F
    <3> QED
      BY <3>6, <3>7
  <2>3. CASE AppliesDeclined
    <3> DEFINE r == buildResult(<<s, 0>>, suite, appliesId(suite.id), Declined, FALSE, TRUE)
    <3>1. (results' = Append(results, r) \/ results' = results) /\ haltedBy' = haltedBy /\ pc' = pc
      BY <2>3 DEF AppliesDeclined, NextSuite
    <3>2. ~FatalFailureRow(r)
      BY DEF buildResult, FatalFailureRow, Declined
    <3> HIDE DEF r
    <3>3. F' = F
      BY <2>0, <3>1, <3>2, AppendedRow, FatalAppended, SameVerdict DEF hasFatalFailures
    <3> QED
      BY <2>a, <3>1, <3>3
  <2>4. CASE EnterSuite
    BY <2>4, <2>a, SameVerdict DEF EnterSuite, Evaluated, AtSuite
  <2>5. CASE NotForSubject
    BY <2>5, <2>a, SameVerdict DEF NotForSubject
  <2>6. CASE ListNotRun
    <3> DEFINE r == buildResult(<<s, c>>, suite, check.id, NotRunAfter(haltedBy), check.fatal, check.halts)
    <3>1. results' = Append(results, r) /\ haltedBy' = haltedBy /\ pc' = pc
      BY <2>6 DEF ListNotRun
    <3>2. ~FatalFailureRow(r)
      BY DEF buildResult, FatalFailureRow, NotRunAfter
    <3> HIDE DEF r
    <3>3. F' = F
      BY <2>0, <3>1, <3>2, AppendedRow, FatalAppended DEF hasFatalFailures
    <3> QED
      BY <2>a, <3>1, <3>3
  <2>7. CASE StartCheck
    <3>1. F' = F /\ haltedBy' = haltedBy /\ haltedBy = None /\ pc = "check" /\ pc' = "execute"
      BY <2>7, SameVerdict DEF StartCheck, AtCheck
    <3>2. Verdict!Start
      BY <3>1 DEF Verdict!Start
    <3> QED
      BY <3>2 DEF Verdict!Next
  <2>8. ASSUME NEW outcome \in Outcome, SettleCheck(outcome) PROVE Verdict!Next
    <3> DEFINE r == buildResult(<<s, c>>, suite, check.id, outcome, check.fatal, check.halts)
               halting == haltsOnFailure(check) /\ outcome.status = "failure"
    <3>1. /\ results' = Append(results, r) /\ pc = "execute" /\ pc' = "check" /\ haltedBy = None
          /\ haltedBy' = IF halting THEN check.id ELSE haltedBy
      BY <2>8 DEF SettleCheck, HaltInv
    <3>2. r \in Row
      BY <3>1, AppendedRow
    <3>3. r.status = outcome.status /\ r.fatal = check.fatal
      BY BuiltRow
    <3>4. halting => FatalFailureRow(r)
      BY <3>3 DEF haltsOnFailure, FatalFailureRow
    <3> HIDE DEF r, halting, F
    <3>5. F' <=> F \/ FatalFailureRow(r)
      BY <3>1, <3>2, FatalAppended DEF F
    <3>6. CASE FatalFailureRow(r)
      <4>1. F' = TRUE
        BY <3>5, <3>6 DEF F, hasFatalFailures
      <4>2. Verdict!FatalFailure
        BY <3>1, <4>1 DEF Verdict!FatalFailure, F
      <4> QED
        BY <4>2 DEF Verdict!Next
    <3>7. CASE ~FatalFailureRow(r)
      <4>1. F' = F
        BY <3>5, <3>7 DEF F, hasFatalFailures
      <4>2. haltedBy' = haltedBy
        BY <3>1, <3>4, <3>7
      <4>3. Verdict!Harmless
        BY <3>1, <4>1, <4>2 DEF Verdict!Harmless, F
      <4> QED
        BY <4>3 DEF Verdict!Next
    <3> QED
      BY <3>6, <3>7
  <2>9. CASE LeaveSuite
    BY <2>9, <2>a, SameVerdict DEF LeaveSuite
  <2>10. CASE Return
    <3>1. F' = F /\ haltedBy' = haltedBy /\ pc = "suite" /\ pc' = "done"
      BY <2>10, SameVerdict DEF Return
    <3>2. Verdict!Return
      BY <3>1 DEF Verdict!Return
    <3> QED
      BY <3>2 DEF Verdict!Next
  <2>11. CASE UNCHANGED vars
    BY <2>11, <2>a, SameVerdict DEF vars
  <2> QED
    BY <2>1, <2>2, <2>3, <2>4, <2>5, <2>6, <2>7, <2>8, <2>9, <2>10, <2>11 DEF Next, Step, Returned
<1> QED
  BY <1>1, <1>2, HaltInvariant, PTL DEF Spec, ImplementsVerdict, Verdict!Spec

-----------------------------------------------------------------------------
(* The two-pass workflow *)

\* What the subject makes a suite's predicate answer.
answerOf(st) == IF st.predicate THEN world.applies[st.id] ELSE "yes"

\* The row at a position that the world, and nothing else, makes.
RowAt(r, si, ci) ==
  LET st == call.suites[si]
      ck == st.checks[ci]
  IN \/ /\ ci = 0 /\ answerOf(st) = "threw"
        /\ r = buildResult(<<si, 0>>, st, appliesId(st.id), buildCheckErrorOutcome,
                           couldFail(st, call.subject), TRUE)
     \/ /\ ci = 0 /\ answerOf(st) = "no" /\ st.id \in call.explicitSuiteIds
        /\ r = buildResult(<<si, 0>>, st, appliesId(st.id), Declined, FALSE, TRUE)
     \/ /\ ci > 0 /\ answerOf(st) = "yes" /\ checkAppliesTo(ck, call.subject)
        /\ r = buildResult(<<si, ci>>, st, ck.id, world.outcome[ck.id], ck.fatal, ck.halts)

\* The rows of a pass over these phases that nothing halts.
InWorld(r, phases) ==
  \E si \in 1..Len(call.suites) : \E ci \in 0..Len(call.suites[si].checks) :
    suiteRunsInPhases(call.suites[si], phases) /\ RowAt(r, si, ci)

NotRunRow(r) == r.why = "notRun" /\ r.status = "skipped"

\* What the loop has passed by.
PassedBy(si, ci) == si < s \/ (si = s /\ pc \in {"check", "execute"} /\ ci < c)

\* Under way: until a halt the report holds what the world makes of every
\* position passed by; after it, only rows about checks that are not run are added.
RowsMade ==
  \A i \in Rows : \/ InWorld(results[i], call.phases)
                  \/ haltedBy # None /\ NotRunRow(results[i])

NothingMissed ==
  haltedBy = None =>
    \A si \in 1..Len(call.suites) : \A ci \in 0..Len(call.suites[si].checks) : \A r :
      /\ PassedBy(si, ci)
      /\ suiteRunsInPhases(call.suites[si], call.phases)
      /\ RowAt(r, si, ci)
      => \E i \in Rows : results[i] = r

\* A suite is entered only in its phases and, before a halt, when it applies.
Entered ==
  /\ pc \in {"check", "execute"} =>
       /\ suiteRunsInPhases(suite, call.phases)
       /\ haltedBy = None => answerOf(suite) = "yes"
  /\ pc = "execute" => checkAppliesTo(check, call.subject)
  /\ pc = "done" => s > Len(call.suites)

PassInv == RowsMade /\ NothingMissed /\ Entered

\* A returned report: what it says beside the "not run" rows is what the world
\* makes of its phases, and without a halt it says all of that.
ReportOf(rows, phases) ==
  /\ \A i \in 1..Len(rows) : InWorld(rows[i], phases) \/ NotRunRow(rows[i])
  /\ (\A i \in 1..Len(rows) : ~HaltingRow(rows[i])) =>
       /\ \A i \in 1..Len(rows) : InWorld(rows[i], phases)
       /\ \A r : InWorld(r, phases) => \E i \in 1..Len(rows) : rows[i] = r

PhasesOf(k) == expandPhases(Requests[k])

ReportsInv ==
  /\ reports \in Seq(Seq(Row))
  /\ Len(reports) <= 3
  /\ Len(reports) < 3 => call.phases = PhasesOf(Len(reports) + 1)
  /\ \A k \in 1..Len(reports) : ReportOf(reports[k], PhasesOf(k))
  /\ world \in Worlds
  /\ \E cl \in Calls : call.suites = cl.suites

TInv == TypeOK /\ HaltInv /\ PassInv /\ ReportsInv

-----------------------------------------------------------------------------
(* One pass *)

\* What the world makes does not depend on how far the loop has come.
LEMMA WorldKept ==
  ASSUME call'.suites = call.suites, call'.subject = call.subject,
         call'.explicitSuiteIds = call.explicitSuiteIds, world' = world,
         NEW r, NEW phases
  PROVE  /\ InWorld(r, phases)' <=> InWorld(r, phases)
         /\ \A si, ci : RowAt(r, si, ci)' <=> RowAt(r, si, ci)
BY DEF InWorld, RowAt, answerOf

LEMMA SuiteShape ==
  ASSUME TypeOK, NEW si \in 1..Len(call.suites)
  PROVE  /\ call.suites[si] \in Suite
         /\ call.suites[si].phase \in Optional(SuitePhase)
         /\ call.suites[si].checks \in Seq(Check)
         /\ Len(call.suites[si].checks) \in Nat
<1>1. call.suites[si] \in Suite
  BY CallShape DEF TypeOK
<1> QED
  BY <1>1 DEF Suite

\* The passes leave the call and the world alone.
Same == call' = call /\ world' = world

LEMMA RowsMadeStays ==
  ASSUME RowsMade, Same, results' = results, haltedBy # None => haltedBy' # None
  PROVE  RowsMade'
<1> SUFFICES ASSUME NEW i \in Rows
             PROVE  InWorld(results[i], call.phases)' \/ (haltedBy' # None /\ NotRunRow(results[i]))
  BY DEF RowsMade, Rows, Same
<1>1. InWorld(results[i], call.phases) \/ (haltedBy # None /\ NotRunRow(results[i]))
  BY DEF RowsMade
<1> QED
  BY <1>1 DEF InWorld, RowAt, answerOf, Same

LEMMA RowsMadeAppend ==
  ASSUME TypeOK, RowsMade, Same, haltedBy # None => haltedBy' # None,
         NEW r \in Row, results' = Append(results, r),
         InWorld(r, call.phases) \/ (haltedBy' # None /\ NotRunRow(r))
  PROVE  RowsMade'
<1> SUFFICES ASSUME NEW i \in Rows'
             PROVE  (InWorld(results[i], call.phases) \/ (haltedBy # None /\ NotRunRow(results[i])))'
  BY DEF RowsMade
<1>1. CASE i \in Rows
  <2>1. results'[i] = results[i]
    BY <1>1, RowAppended
  <2>2. InWorld(results[i], call.phases) \/ (haltedBy # None /\ NotRunRow(results[i]))
    BY <1>1 DEF RowsMade
  <2> QED
    BY <2>1, <2>2 DEF InWorld, RowAt, answerOf, Same, NotRunRow
<1>2. CASE i = Len(results) + 1
  <2>1. results'[i] = r
    BY <1>2, RowAppended
  <2> QED
    BY <2>1 DEF InWorld, RowAt, answerOf, Same, NotRunRow
<1> QED
  BY <1>1, <1>2, RowAppended

\* A step misses nothing if the report has what is newly passed by.
LEMMA MissedNothing ==
  ASSUME NothingMissed, Same, haltedBy # None => haltedBy' # None,
         \A i \in Rows : i \in Rows' /\ results'[i] = results[i],
         \A si \in 1..Len(call.suites) : \A ci \in 0..Len(call.suites[si].checks) : \A r :
           /\ haltedBy' = None
           /\ PassedBy(si, ci)' /\ ~PassedBy(si, ci)
           /\ suiteRunsInPhases(call.suites[si], call.phases)
           /\ RowAt(r, si, ci)
           => \E i \in Rows' : results'[i] = r
  PROVE  NothingMissed'
<1> SUFFICES ASSUME haltedBy' = None,
                    NEW si \in 1..Len(call'.suites), NEW ci \in 0..Len(call'.suites[si].checks), NEW r,
                    PassedBy(si, ci)', suiteRunsInPhases(call'.suites[si], call'.phases), RowAt(r, si, ci)'
             PROVE  \E i \in Rows' : results'[i] = r
  BY DEF NothingMissed, Rows
<1>3. /\ si \in 1..Len(call.suites) /\ ci \in 0..Len(call.suites[si].checks)
      /\ suiteRunsInPhases(call.suites[si], call.phases)
  BY DEF Same
<1>4. RowAt(r, si, ci)
  BY DEF Same, RowAt, answerOf
<1>1. CASE PassedBy(si, ci)
  BY <1>1, <1>3, <1>4 DEF NothingMissed
<1>2. CASE ~PassedBy(si, ci)
  BY <1>2, <1>3, <1>4
<1> QED
  BY <1>1, <1>2

LEMMA Grown ==
  ASSUME TypeOK, results' = results \/ (\E r \in Row : results' = Append(results, r))
  PROVE  \A i \in Rows : i \in Rows' /\ results'[i] = results[i]
<1>1. CASE results' = results
  BY <1>1 DEF Rows
<1>2. ASSUME NEW r \in Row, results' = Append(results, r)
      PROVE  \A i \in Rows : i \in Rows' /\ results'[i] = results[i]
  BY <1>2, RowAppended
<1> QED
  BY <1>1, <1>2

\* A step that goes on to the next suite without entering one.
LEMMA NextSuitePasses ==
  ASSUME TypeOK, pc = "suite", pc' = pc, s' = s + 1, NEW si \in Nat, NEW ci, PassedBy(si, ci)'
  PROVE  si = s \/ PassedBy(si, ci)
<1>1. s \in Nat
  BY CallShape DEF TypeOK
<1> QED
  BY <1>1 DEF PassedBy

LEMMA ExcludedPasses ==
  ASSUME TypeOK, PassInv, PhaseExcluded, UNCHANGED world
  PROVE  PassInv'
<1>1. /\ Same /\ UNCHANGED <<pc, haltedBy, results>> /\ pc = "suite" /\ s' = s + 1
      /\ ~suiteRunsInPhases(suite, call.phases)
  BY DEF PhaseExcluded, AtSuite, NextSuite, Same
<1>2. RowsMade'
  BY <1>1, RowsMadeStays DEF PassInv
<1>3. NothingMissed'
  <2>1. \A i \in Rows : i \in Rows' /\ results'[i] = results[i]
    BY <1>1 DEF Rows
  <2>2. \A si \in 1..Len(call.suites) : \A ci : PassedBy(si, ci)' => si = s \/ PassedBy(si, ci)
    BY <1>1, NextSuitePasses
  <2> QED
    BY <1>1, <2>1, <2>2, MissedNothing DEF PassInv, suite
<1>4. Entered'
  BY <1>1 DEF Entered
<1> QED
  BY <1>2, <1>3, <1>4 DEF PassInv

LEMMA ThrewPasses ==
  ASSUME TypeOK, TypeOK', PassInv, AppliesThrew, world.applies[suite.id] = "threw", UNCHANGED world
  PROVE  PassInv'
<1> DEFINE r == buildResult(<<s, 0>>, suite, appliesId(suite.id), buildCheckErrorOutcome,
                            couldFail(suite, call.subject), TRUE)
<1>1. /\ Same /\ UNCHANGED pc /\ pc = "suite" /\ s' = s + 1 /\ s \in 1..Len(call.suites)
      /\ suiteRunsInPhases(suite, call.phases) /\ haltedBy = None
      /\ results' = Append(results, r)
  BY CallShape DEF AppliesThrew, Evaluated, AtSuite, NextSuite, Same, TypeOK
<1>2. answerOf(suite) = "threw"
  <2>1. "threw" \in evaluateApplies(suite)
    BY DEF AppliesThrew, Evaluated
  <2> QED
    BY <2>1 DEF evaluateApplies, answerOf
<1>3. r \in Row
  BY <1>1, AppendedRow
<1>4. RowAt(r, s, 0)
  BY <1>2 DEF RowAt, suite
<1>5. \A ci, q : RowAt(q, s, ci) => q = r
  BY <1>2 DEF RowAt, suite
<1>6. InWorld(r, call.phases)
  <2>1. 0 \in 0..Len(call.suites[s].checks)
    BY <1>1, SuiteShape
  <2> QED
    BY <1>1, <1>4, <2>1 DEF InWorld, suite
<1> HIDE DEF r
<1>7. RowsMade'
  BY <1>1, <1>3, <1>6, RowsMadeAppend DEF PassInv
<1>8. NothingMissed'
  <2>1. \A i \in Rows : i \in Rows' /\ results'[i] = results[i]
    BY <1>1, <1>3, Grown
  <2>2. \A si \in 1..Len(call.suites) : \A ci : PassedBy(si, ci)' => si = s \/ PassedBy(si, ci)
    BY <1>1, NextSuitePasses
  <2>3. \E i \in Rows' : results'[i] = r
    BY <1>1, <1>3, RowAppended
  <2> QED
    BY <1>1, <1>5, <2>1, <2>2, <2>3, MissedNothing DEF PassInv
<1>9. Entered'
  BY <1>1 DEF Entered
<1> QED
  BY <1>7, <1>8, <1>9 DEF PassInv

LEMMA DeclinedPasses ==
  ASSUME TypeOK, TypeOK', PassInv, AppliesDeclined, world.applies[suite.id] = "no", UNCHANGED world
  PROVE  PassInv'
<1> DEFINE r == buildResult(<<s, 0>>, suite, appliesId(suite.id), Declined, FALSE, TRUE)
<1>1. /\ Same /\ UNCHANGED <<pc, haltedBy>> /\ pc = "suite" /\ s' = s + 1 /\ s \in 1..Len(call.suites)
      /\ suiteRunsInPhases(suite, call.phases)
      /\ results' = IF suite.id \in call.explicitSuiteIds THEN Append(results, r) ELSE results
  BY CallShape DEF AppliesDeclined, Evaluated, AtSuite, NextSuite, Same, TypeOK
<1>2. answerOf(suite) = "no"
  <2>1. "no" \in evaluateApplies(suite)
    BY DEF AppliesDeclined, Evaluated
  <2> QED
    BY <2>1 DEF evaluateApplies, answerOf
<1>3. \A ci, q : RowAt(q, s, ci) => q = r /\ suite.id \in call.explicitSuiteIds
  BY <1>2 DEF RowAt, suite
<1>4. suite.id \in call.explicitSuiteIds => RowAt(r, s, 0)
  BY <1>2 DEF RowAt, suite
<1>5. 0 \in 0..Len(call.suites[s].checks)
  BY <1>1, SuiteShape
<1>6. \A si \in 1..Len(call.suites) : \A ci : PassedBy(si, ci)' => si = s \/ PassedBy(si, ci)
  BY <1>1, NextSuitePasses
<1> HIDE DEF r
<1>7. CASE suite.id \in call.explicitSuiteIds
  <2>1. r \in Row /\ results' = Append(results, r)
    BY <1>1, <1>7, AppendedRow
  <2>2. InWorld(r, call.phases)
    BY <1>1, <1>4, <1>5, <1>7 DEF InWorld, suite
  <2>3. RowsMade'
    BY <1>1, <2>1, <2>2, RowsMadeAppend DEF PassInv
  <2>4. \A i \in Rows : i \in Rows' /\ results'[i] = results[i]
    BY <2>1, Grown
  <2>5. \E i \in Rows' : results'[i] = r
    BY <2>1, RowAppended
  <2>6. NothingMissed'
    <3>1. Same /\ UNCHANGED haltedBy
      BY <1>1
    <3>2. \A ci, q : RowAt(q, s, ci) => q = r
      BY <1>3
    <3> QED
      BY <1>6, <2>4, <2>5, <3>1, <3>2, MissedNothing DEF PassInv
  <2> QED
    BY <1>1, <2>3, <2>6 DEF PassInv, Entered
<1>8. CASE suite.id \notin call.explicitSuiteIds
  <2>1. results' = results
    BY <1>1, <1>8
  <2>2. RowsMade'
    BY <1>1, <2>1, RowsMadeStays DEF PassInv
  <2>3. NothingMissed'
    <3>1. \A i \in Rows : i \in Rows' /\ results'[i] = results[i]
      BY <2>1 DEF Rows
    <3>2. \A ci, q : ~RowAt(q, s, ci)
      BY <1>3, <1>8
    <3> QED
      BY <1>1, <1>6, <3>1, <3>2, MissedNothing DEF PassInv
  <2> QED
    BY <1>1, <2>2, <2>3 DEF PassInv, Entered
<1> QED
  BY <1>7, <1>8

\* A suite has been entered: its answer is the world's.
LEMMA EnteredPasses ==
  ASSUME TypeOK, TypeOK', PassInv, EnterSuite, UNCHANGED world,
         suite.predicate => applies'[s] = world.applies[suite.id]
  PROVE  PassInv'
<1>1. /\ Same /\ UNCHANGED <<haltedBy, results, s>> /\ pc = "suite" /\ pc' = "check" /\ c' = 1
      /\ s \in 1..Len(call.suites) /\ s \in Nat /\ suiteRunsInPhases(suite, call.phases)
  BY CallShape DEF EnterSuite, Evaluated, AtSuite, Same, TypeOK
<1>2. ASSUME haltedBy = None PROVE answerOf(suite) = "yes"
  <2>1. applies' = Append(applies, "yes")
    BY <1>2 DEF EnterSuite
  <2>2. applies \in Seq(Answer) /\ Len(applies) = s - 1
    BY <1>1 DEF TypeOK
  <2>3. applies'[Len(applies) + 1] = "yes"
    BY <2>1, <2>2
  <2>4. applies'[s] = "yes"
    BY <1>1, <2>2, <2>3
  <2> QED
    BY <2>4 DEF answerOf
<1>3. RowsMade'
  BY <1>1, RowsMadeStays DEF PassInv
<1>4. NothingMissed'
  <2>1. \A i \in Rows : i \in Rows' /\ results'[i] = results[i]
    BY <1>1 DEF Rows
  <2>2. ASSUME NEW si \in 1..Len(call.suites), NEW ci \in 0..Len(call.suites[si].checks), NEW r,
               haltedBy' = None, PassedBy(si, ci)', ~PassedBy(si, ci), RowAt(r, si, ci)
        PROVE  FALSE
    <3>1. si = s /\ ci = 0
      BY <1>1, <2>2 DEF PassedBy
    <3>2. answerOf(call.suites[si]) = "yes"
      BY <1>1, <1>2, <2>2, <3>1 DEF suite
    <3> QED
      BY <2>2, <3>1, <3>2 DEF RowAt
  <2> QED
    BY <1>1, <2>1, <2>2, MissedNothing DEF PassInv
<1>5. Entered'
  BY <1>1, <1>2 DEF Entered, suite, Same, answerOf
<1> QED
  BY <1>3, <1>4, <1>5 DEF PassInv

\* What is newly passed by when the loop moves to the next check.
LEMMA NextCheckPasses ==
  ASSUME TypeOK, pc \in {"check", "execute"}, pc' = "check", s' = s, c' = c + 1,
         NEW si \in 1..Len(call.suites), NEW ci \in 0..Len(call.suites[si].checks),
         PassedBy(si, ci)', ~PassedBy(si, ci)
  PROVE  si = s /\ ci = c
<1>1. s \in Nat /\ c \in Nat /\ si \in Nat /\ ci \in Nat
  BY CallShape, SuiteShape DEF TypeOK
<1> QED
  BY <1>1 DEF PassedBy

LEMMA StillEntered ==
  ASSUME PassInv, Same, UNCHANGED s, pc \in {"check", "execute"}, pc' \in {"check", "execute"},
         pc' = "execute" => UNCHANGED c /\ checkAppliesTo(check, call.subject),
         haltedBy # None => haltedBy' # None
  PROVE  Entered'
BY DEF PassInv, Entered, suite, check, Same, answerOf

LEMMA NotForSubjectPasses ==
  ASSUME TypeOK, PassInv, NotForSubject, UNCHANGED world
  PROVE  PassInv'
<1>1. /\ Same /\ UNCHANGED <<haltedBy, results, s>> /\ pc = "check" /\ pc' = "check" /\ c' = c + 1
      /\ ~checkAppliesTo(call.suites[s].checks[c], call.subject)
  BY DEF NotForSubject, AtCheck, Same, check, suite
<1>2. RowsMade'
  BY <1>1, RowsMadeStays DEF PassInv
<1>3. NothingMissed'
  <2>1. \A i \in Rows : i \in Rows' /\ results'[i] = results[i]
    BY <1>1 DEF Rows
  <2>2. ASSUME NEW si \in 1..Len(call.suites), NEW ci \in 0..Len(call.suites[si].checks), NEW r,
               PassedBy(si, ci)', ~PassedBy(si, ci), RowAt(r, si, ci)
        PROVE  FALSE
    <3>1. si = s /\ ci = c
      BY <1>1, <2>2, NextCheckPasses
    <3>2. c # 0
      BY DEF TypeOK
    <3>3. RowAt(r, s, c)
      BY <2>2, <3>1
    <3>4. checkAppliesTo(call.suites[s].checks[c], call.subject)
      BY <3>2, <3>3 DEF RowAt
    <3> QED
      BY <1>1, <3>4
  <2> QED
    BY <1>1, <2>1, <2>2, MissedNothing DEF PassInv
<1> QED
  BY <1>1, <1>2, <1>3, StillEntered DEF PassInv

LEMMA NotRunPasses ==
  ASSUME TypeOK, TypeOK', PassInv, ListNotRun, UNCHANGED world
  PROVE  PassInv'
<1> DEFINE r == buildResult(<<s, c>>, suite, check.id, NotRunAfter(haltedBy), check.fatal, check.halts)
<1>1. /\ Same /\ UNCHANGED <<haltedBy, s>> /\ pc = "check" /\ pc' = "check"
      /\ haltedBy # None /\ results' = Append(results, r)
  BY DEF ListNotRun, AtCheck, Same
<1>2. NotRunRow(r)
  BY BuiltRow DEF NotRunRow, NotRunAfter
<1> HIDE DEF r
<1>3. r \in Row
  BY <1>1, AppendedRow
<1>4. RowsMade'
  BY <1>1, <1>2, <1>3, RowsMadeAppend DEF PassInv
<1>5. NothingMissed'
  BY <1>1 DEF NothingMissed
<1> QED
  BY <1>1, <1>4, <1>5, StillEntered DEF PassInv

LEMMA StartPasses ==
  ASSUME TypeOK, PassInv, StartCheck, UNCHANGED world
  PROVE  PassInv'
<1>1. /\ Same /\ UNCHANGED <<haltedBy, results, s, c>> /\ pc = "check" /\ pc' = "execute"
      /\ checkAppliesTo(check, call.subject)
  BY DEF StartCheck, AtCheck, Same
<1>2. RowsMade'
  BY <1>1, RowsMadeStays DEF PassInv
<1>3. NothingMissed'
  <2>1. \A i \in Rows : i \in Rows' /\ results'[i] = results[i]
    BY <1>1 DEF Rows
  <2>2. \A si, ci : PassedBy(si, ci)' => PassedBy(si, ci)
    BY <1>1 DEF PassedBy
  <2> QED
    BY <1>1, <2>1, <2>2, MissedNothing DEF PassInv
<1> QED
  BY <1>1, <1>2, <1>3, StillEntered DEF PassInv

LEMMA SettledPasses ==
  ASSUME TypeOK, TypeOK', HaltInv, PassInv, SettleCheck(world.outcome[check.id]), UNCHANGED world
  PROVE  PassInv'
<1> DEFINE o == world.outcome[check.id]
<1> DEFINE r == buildResult(<<s, c>>, suite, check.id, o, check.fatal, check.halts)
<1>1. /\ Same /\ UNCHANGED s /\ pc = "execute" /\ pc' = "check" /\ c' = c + 1 /\ haltedBy = None
      /\ results' = Append(results, r)
      /\ s \in 1..Len(call.suites) /\ c \in 0..Len(call.suites[s].checks) /\ c > 0
  BY CallShape, SuiteShape DEF SettleCheck, Same, HaltInv, TypeOK, suite
<1>2. /\ suiteRunsInPhases(call.suites[s], call.phases) /\ answerOf(call.suites[s]) = "yes"
      /\ checkAppliesTo(call.suites[s].checks[c], call.subject)
  BY <1>1 DEF PassInv, Entered, suite, check
<1>3. RowAt(r, s, c) /\ \A q : RowAt(q, s, c) => q = r
  BY <1>1, <1>2 DEF RowAt, check, suite
<1> HIDE DEF r, o
<1>4. r \in Row
  BY <1>1, AppendedRow
<1>5. InWorld(r, call.phases)
  BY <1>1, <1>2, <1>3 DEF InWorld
<1>6. RowsMade'
  BY <1>1, <1>4, <1>5, RowsMadeAppend DEF PassInv
<1>7. NothingMissed'
  <2>1. \A i \in Rows : i \in Rows' /\ results'[i] = results[i]
    BY <1>1, <1>4, Grown
  <2>2. \A si \in 1..Len(call.suites) : \A ci \in 0..Len(call.suites[si].checks) :
          PassedBy(si, ci)' /\ ~PassedBy(si, ci) => si = s /\ ci = c
    BY <1>1, NextCheckPasses
  <2>3. \E i \in Rows' : results'[i] = r
    BY <1>1, <1>4, RowAppended
  <2> QED
    BY <1>1, <1>3, <2>1, <2>2, <2>3, MissedNothing DEF PassInv
<1> QED
  BY <1>1, <1>6, <1>7, StillEntered DEF PassInv

LEMMA LeftPasses ==
  ASSUME TypeOK, PassInv, LeaveSuite, UNCHANGED world
  PROVE  PassInv'
<1>1. /\ Same /\ UNCHANGED <<haltedBy, results>> /\ pc = "check" /\ pc' = "suite" /\ s' = s + 1
      /\ c > Len(call.suites[s].checks) /\ s \in Nat /\ c \in Nat
  BY CallShape DEF LeaveSuite, Same, TypeOK, suite
<1>2. RowsMade'
  BY <1>1, RowsMadeStays DEF PassInv
<1>3. NothingMissed'
  <2>1. \A i \in Rows : i \in Rows' /\ results'[i] = results[i]
    BY <1>1 DEF Rows
  <2>2. ASSUME NEW si \in 1..Len(call.suites), NEW ci \in 0..Len(call.suites[si].checks),
               PassedBy(si, ci)'
        PROVE  PassedBy(si, ci)
    <3>1. si < s \/ si = s
      BY <1>1, <2>2 DEF PassedBy
    <3>2. si = s => ci < c
      BY <1>1, SuiteShape
    <3> QED
      BY <1>1, <3>1, <3>2 DEF PassedBy
  <2> QED
    BY <1>1, <2>1, <2>2, MissedNothing DEF PassInv
<1>4. Entered'
  BY <1>1 DEF Entered
<1> QED
  BY <1>2, <1>3, <1>4 DEF PassInv

LEMMA ReturnedPasses ==
  ASSUME TypeOK, PassInv, Return, UNCHANGED world
  PROVE  PassInv'
<1>1. /\ Same /\ UNCHANGED <<haltedBy, results, s>> /\ pc = "suite" /\ pc' = "done"
      /\ s > Len(call.suites)
  BY DEF Return, Same
<1>2. RowsMade'
  BY <1>1, RowsMadeStays DEF PassInv
<1>3. NothingMissed'
  <2>1. \A i \in Rows : i \in Rows' /\ results'[i] = results[i]
    BY <1>1 DEF Rows
  <2>2. \A si, ci : PassedBy(si, ci)' => PassedBy(si, ci)
    BY <1>1 DEF PassedBy
  <2> QED
    BY <1>1, <2>1, <2>2, MissedNothing DEF PassInv
<1>4. Entered'
  BY <1>1 DEF Entered, Same
<1> QED
  BY <1>2, <1>3, <1>4 DEF PassInv

LEMMA PassStepKeeps ==
  ASSUME TypeOK, TypeOK', HaltInv, PassInv, PassStep
  PROVE  PassInv'
<1>1. UNCHANGED world
  BY DEF PassStep
<1>2. CASE PhaseExcluded
  BY <1>1, <1>2, ExcludedPasses
<1>3. CASE AppliesThrew /\ world.applies[suite.id] = "threw"
  BY <1>1, <1>3, ThrewPasses
<1>4. CASE AppliesDeclined /\ world.applies[suite.id] = "no"
  BY <1>1, <1>4, DeclinedPasses
<1>5. CASE EnterSuite /\ (suite.predicate => applies'[s] = world.applies[suite.id])
  BY <1>1, <1>5, EnteredPasses
<1>6. CASE NotForSubject
  BY <1>1, <1>6, NotForSubjectPasses
<1>7. CASE ListNotRun
  BY <1>1, <1>7, NotRunPasses
<1>8. CASE StartCheck
  BY <1>1, <1>8, StartPasses
<1>9. CASE SettleCheck(world.outcome[check.id])
  BY <1>1, <1>9, SettledPasses
<1>10. CASE LeaveSuite
  BY <1>1, <1>10, LeftPasses
<1>11. CASE Return
  BY <1>1, <1>11, ReturnedPasses
<1> QED
  BY <1>2, <1>3, <1>4, <1>5, <1>6, <1>7, <1>8, <1>9, <1>10, <1>11 DEF PassStep

\* A step of a pass is a step of the loop: the world's outcomes are outcomes.
LEMMA PassIsLoop ==
  ASSUME TypeOK, ReportsInv, PassStep
  PROVE  [Next]_vars
<1>1. ASSUME SettleCheck(world.outcome[check.id])
      PROVE  world.outcome[check.id] \in Outcome
  <2>1. s \in 1..Len(call.suites) /\ c \in 1..Len(call.suites[s].checks)
    BY <1>1, CallShape, SuiteShape DEF SettleCheck, TypeOK, suite
  <2>2. PICK cl \in Calls : call.suites = cl.suites
    BY DEF ReportsInv
  <2>3. \A i \in 1..Len(cl.suites) : \A j \in 1..Len(cl.suites[i].checks) :
          world.outcome[cl.suites[i].checks[j].id] \in Outcome
    BY WorldsAssumption DEF ReportsInv
  <2> QED
    BY <2>1, <2>2, <2>3 DEF check, suite
<1> QED
  BY <1>1 DEF PassStep, Next, Step

\* The pass has returned: its report is that of its phases.
LEMMA PassReports ==
  ASSUME TypeOK, HaltInv, PassInv, pc = "done"
  PROVE  ReportOf(results, call.phases)
<1>1. \A i \in Rows : InWorld(results[i], call.phases) \/ NotRunRow(results[i])
  BY DEF PassInv, RowsMade
<1>2. ASSUME \A i \in Rows : ~HaltingRow(results[i])
      PROVE  /\ \A i \in Rows : InWorld(results[i], call.phases)
             /\ \A r : InWorld(r, call.phases) => \E i \in Rows : results[i] = r
  <2>1. haltedBy = None
    BY <1>2 DEF HaltInv
  <2>2. \A i \in Rows : InWorld(results[i], call.phases)
    BY <2>1 DEF PassInv, RowsMade
  <2>3. ASSUME NEW r, InWorld(r, call.phases)
        PROVE  \E i \in Rows : results[i] = r
    <3>1. PICK si \in 1..Len(call.suites) : \E ci \in 0..Len(call.suites[si].checks) :
            suiteRunsInPhases(call.suites[si], call.phases) /\ RowAt(r, si, ci)
      BY <2>3 DEF InWorld
    <3>2. PICK ci \in 0..Len(call.suites[si].checks) :
            suiteRunsInPhases(call.suites[si], call.phases) /\ RowAt(r, si, ci)
      BY <3>1
    <3>3. PassedBy(si, ci)
      <4>1. s > Len(call.suites)
        BY DEF PassInv, Entered
      <4>2. s \in Nat /\ Len(call.suites) \in Nat
        BY CallShape DEF TypeOK
      <4> QED
        BY <4>1, <4>2 DEF PassedBy
    <3> QED
      BY <2>1, <3>2, <3>3 DEF PassInv, NothingMissed
  <2> QED
    BY <2>2, <2>3
<1> QED
  BY <1>1, <1>2 DEF ReportOf, Rows

-----------------------------------------------------------------------------
(* The three passes *)

LEMMA ReportKept ==
  ASSUME call'.suites = call.suites, call'.subject = call.subject,
         call'.explicitSuiteIds = call.explicitSuiteIds, world' = world,
         NEW rows, NEW phases, ReportOf(rows, phases)
  PROVE  ReportOf(rows, phases)'
<1>1. \A r : InWorld(r, phases)' <=> InWorld(r, phases)
  BY WorldKept
<1> QED
  BY <1>1 DEF ReportOf

\* The phases of each pass.
LEMMA ThePhases ==
  /\ PhasesOf(1) = None
  /\ PhasesOf(2) = <<{"cryptographic", "trust"}>>
  /\ PhasesOf(3) = <<{"semantic", "recognition"}>>
  /\ \A k \in 1..3 : PhasesOf(k) \in Optional(SUBSET SuitePhase)
<1>1. PhasesOf(1) = None
  BY DEF PhasesOf, Requests, expandPhases, None
<1>2. PhasesOf(2) = <<{"cryptographic", "trust"}>>
  BY DEF PhasesOf, Requests, expandPhases, None
<1>3. PhasesOf(3) = <<{"semantic", "recognition"}>>
  BY DEF PhasesOf, Requests, expandPhases, None
<1>4. \A P \in SUBSET SuitePhase : <<P>> \in Optional(SUBSET SuitePhase)
  BY DEF Optional
<1>5. {"cryptographic", "trust"} \in SUBSET SuitePhase /\ {"semantic", "recognition"} \in SUBSET SuitePhase
  BY DEF SuitePhase
<1>6. None \in Optional(SUBSET SuitePhase)
  BY DEF Optional
<1>7. \A k \in 1..3 : k = 1 \/ k = 2 \/ k = 3
  OBVIOUS
<1> QED
  BY <1>1, <1>2, <1>3, <1>4, <1>5, <1>6, <1>7

\* A call that starts has passed nothing by.
Fresh ==
  /\ call \in Call
  /\ pc = "suite" /\ s = 1 /\ c = 1
  /\ applies = <<>> /\ haltedBy = None /\ results = <<>>

LEMMA FreshPass == Fresh => TypeOK /\ HaltInv /\ PassInv
<1> SUFFICES ASSUME Fresh PROVE TypeOK /\ HaltInv /\ PassInv
  OBVIOUS
<1> USE DEF Fresh
<1>1. call.suites \in Seq(Suite)
  BY CallShape
<1>2. TypeOK
  BY <1>1 DEF TypeOK
<1>3. Rows = {}
  BY DEF Rows
<1>4. HaltInv
  BY <1>3 DEF HaltInv, HaltIsFinal
<1>5. \A si \in 1..Len(call.suites) : \A ci : ~PassedBy(si, ci)
  BY DEF PassedBy
<1> QED
  BY <1>2, <1>3, <1>4, <1>5 DEF PassInv, RowsMade, NothingMissed, Entered

\* A caller that waits disturbs nothing.
LEMMA Waiting ==
  ASSUME TypeOK, HaltInv, PassInv, UNCHANGED <<vars, world>>
  PROVE  (TypeOK /\ HaltInv /\ PassInv)'
<1>1. /\ [Next]_vars /\ Same
      /\ UNCHANGED <<pc, s, c, haltedBy, results>>
  BY DEF vars, Same
<1>2. TypeOK'
  BY <1>1, TypeStep
<1>3. HaltInv'
  BY <1>1, <1>2, HaltStep
<1>4. RowsMade'
  BY <1>1, RowsMadeStays DEF PassInv
<1>5. NothingMissed'
  <2>1. \A i \in Rows : i \in Rows' /\ results'[i] = results[i]
    BY <1>1 DEF Rows
  <2>2. \A si, ci : PassedBy(si, ci)' => PassedBy(si, ci)
    BY <1>1 DEF PassedBy
  <2> QED
    BY <1>1, <2>1, <2>2, MissedNothing DEF PassInv
<1>6. Entered'
  BY <1>1 DEF PassInv, Entered, suite, check, answerOf, Same
<1> QED
  BY <1>2, <1>3, <1>4, <1>5, <1>6 DEF PassInv

LEMMA TInitInv == TInit => TInv
<1> SUFFICES ASSUME TInit PROVE TInv
  OBVIOUS
<1>1. call \in Calls /\ call \in Call
  BY CallsAssumption DEF TInit, Init
<1>2. TypeOK /\ HaltInv /\ PassInv
  BY <1>1, FreshPass DEF TInit, Init, Fresh
<1>3. call.phases = PhasesOf(1) /\ reports = <<>> /\ world \in Worlds
  BY DEF TInit, PhasesOf
<1>4. ReportsInv
  BY <1>1, <1>3 DEF ReportsInv
<1> QED
  BY <1>2, <1>4 DEF TInv

LEMMA PassStepInv ==
  ASSUME TInv, PassStep
  PROVE  TInv'
<1>1. TypeOK /\ HaltInv /\ PassInv /\ ReportsInv
  BY DEF TInv
<1>2. [Next]_vars
  BY <1>1, PassIsLoop
<1>3. TypeOK'
  BY <1>1, <1>2, TypeStep
<1>4. HaltInv'
  BY <1>1, <1>2, <1>3, HaltStep
<1>5. PassInv'
  BY <1>1, <1>3, PassStepKeeps
<1>6. call' = call /\ UNCHANGED <<world, reports>>
  BY DEF PassStep, PhaseExcluded, AppliesThrew, AppliesDeclined, NextSuite, EnterSuite,
         NotForSubject, ListNotRun, StartCheck, SettleCheck, LeaveSuite, Return
<1>7. \A k \in 1..Len(reports) : ReportOf(reports[k], PhasesOf(k))'
  <2>1. ASSUME NEW k \in 1..Len(reports)
        PROVE  ReportOf(reports[k], PhasesOf(k))'
    <3> DEFINE rows == reports[k]
    <3>1. ReportOf(reports[k], PhasesOf(k))
      BY <1>1 DEF ReportsInv
    <3>2. \A q, P : ReportOf(q, P) => ReportOf(q, P)'
      BY <1>6, ReportKept
    <3> QED
      BY <1>6, <3>1, <3>2 DEF PhasesOf
  <2> QED
    BY <2>1
<1>8. ReportsInv'
  BY <1>1, <1>6, <1>7 DEF ReportsInv, PhasesOf
<1> QED
  BY <1>3, <1>4, <1>5, <1>8 DEF TInv

LEMMA NextPassInv ==
  ASSUME TInv, NextPass
  PROVE  TInv'
<1> DEFINE n == Len(reports)
<1> DEFINE Ready == /\ (TypeOK /\ HaltInv /\ PassInv)'
                    /\ Len(reports') < 3 => call'.phases = PhasesOf(Len(reports') + 1)
                    /\ call'.suites = call.suites /\ call'.subject = call.subject
                    /\ call'.explicitSuiteIds = call.explicitSuiteIds
<1>1. TypeOK /\ HaltInv /\ PassInv /\ ReportsInv
  BY DEF TInv
<1>2. /\ reports \in Seq(Seq(Row)) /\ results \in Seq(Row) /\ n \in Nat /\ n < 3 /\ pc = "done"
      /\ reports' = Append(reports, results) /\ UNCHANGED world
      /\ call \in Call /\ call.phases = PhasesOf(n + 1)
  BY <1>1 DEF NextPass, ReportsInv, TypeOK, Requests
<1>3. /\ reports' \in Seq(Seq(Row)) /\ Len(reports') = n + 1
      /\ \A k \in 1..n : reports'[k] = reports[k]
      /\ reports'[n + 1] = results
  BY <1>2, AppendProperties
<1>4. ASSUME n + 1 < 3 PROVE Ready
  <2>1. /\ call' = [call EXCEPT !.phases = PhasesOf(n + 2)]
        /\ pc' = "suite" /\ s' = 1 /\ c' = 1 /\ applies' = <<>> /\ haltedBy' = None /\ results' = <<>>
    <3>1. Len(reports') < Len(Requests) /\ Len(reports') + 1 = n + 2
      BY <1>2, <1>3, <1>4 DEF Requests
    <3> QED
      BY <3>1 DEF NextPass, PhasesOf
  <2>2. PhasesOf(n + 2) \in Optional(SUBSET SuitePhase)
    BY <1>2, <1>4, ThePhases
  <2>3. call' \in Call /\ call'.phases = PhasesOf(n + 2)
        /\ call'.suites = call.suites /\ call'.subject = call.subject
        /\ call'.explicitSuiteIds = call.explicitSuiteIds
    BY <1>2, <2>1, <2>2 DEF Call
  <2>4. Fresh'
    BY <2>1, <2>3 DEF Fresh
  <2>5. (TypeOK /\ HaltInv /\ PassInv)'
    BY <2>4, FreshPass, PTL
  <2> QED
    BY <1>3, <2>3, <2>5
<1>5. ASSUME n + 1 = 3 PROVE Ready
  <2>1. UNCHANGED vars
    <3>1. ~(Len(reports') < Len(Requests))
      BY <1>3, <1>5 DEF Requests
    <3> QED
      BY <3>1 DEF NextPass
  <2>2. (TypeOK /\ HaltInv /\ PassInv)'
    BY <1>1, <1>2, <2>1, Waiting
  <2> QED
    BY <1>3, <1>5, <2>1, <2>2 DEF vars
<1>6. Ready
  BY <1>2, <1>4, <1>5
<1>7. \A k \in 1..(n + 1) : ReportOf(reports'[k], PhasesOf(k))
  <2>1. ASSUME NEW k \in 1..n PROVE ReportOf(reports'[k], PhasesOf(k))
    BY <1>1, <1>3 DEF ReportsInv
  <2>2. ReportOf(reports'[n + 1], PhasesOf(n + 1))
    BY <1>1, <1>2, <1>3, PassReports
  <2> QED
    BY <1>2, <2>1, <2>2
<1>8. \A k \in 1..Len(reports') : ReportOf(reports[k], PhasesOf(k))'
  <2>1. \A q, P : ReportOf(q, P) => ReportOf(q, P)'
    BY <1>2, <1>6, ReportKept
  <2> QED
    BY <1>3, <1>7, <2>1 DEF PhasesOf
<1>9. ReportsInv'
  BY <1>1, <1>2, <1>3, <1>6, <1>8 DEF ReportsInv, PhasesOf
<1> QED
  BY <1>6, <1>9 DEF TInv

LEMMA TInvInvariant == TSpec => []TInv
<1>1. TInv /\ [TNext]_tvars => TInv'
  <2> SUFFICES ASSUME TInv, [TNext]_tvars PROVE TInv'
    OBVIOUS
  <2>1. CASE PassStep
    BY <2>1, PassStepInv
  <2>2. CASE NextPass
    BY <2>2, NextPassInv
  <2>3. CASE UNCHANGED tvars
    <3>1. UNCHANGED <<vars, world>> /\ UNCHANGED <<call, world, reports>>
      BY <2>3 DEF tvars, vars
    <3>2. (TypeOK /\ HaltInv /\ PassInv)'
      BY <3>1, Waiting DEF TInv
    <3>3. \A q, P : ReportOf(q, P) => ReportOf(q, P)'
      BY <3>1, ReportKept
    <3>4. ReportsInv'
      BY <3>1, <3>3 DEF TInv, ReportsInv, PhasesOf
    <3> QED
      BY <3>2, <3>4 DEF TInv
  <2> QED
    BY <2>1, <2>2, <2>3 DEF TNext, AllReturned
<1> QED
  BY <1>1, TInitInv, PTL DEF TSpec

-----------------------------------------------------------------------------
(* The verdict of the split *)

\* Every suite runs in a partial pass, and what runs in one runs in the full pass.
LEMMA Split ==
  ASSUME TypeOK, NEW r
  PROVE  InWorld(r, PhasesOf(1)) <=> InWorld(r, PhasesOf(2)) \/ InWorld(r, PhasesOf(3))
<1>1. ASSUME NEW si \in 1..Len(call.suites)
      PROVE  /\ suiteRunsInPhases(call.suites[si], PhasesOf(1))
             /\ \/ suiteRunsInPhases(call.suites[si], PhasesOf(2))
                \/ suiteRunsInPhases(call.suites[si], PhasesOf(3))
  <2> DEFINE st == call.suites[si]
  <2>1. st.phase = None \/ st.phase[1] \in SuitePhase
    BY SuiteShape DEF Optional
  <2> HIDE DEF st
  <2>2. suiteRunsInPhases(st, PhasesOf(1))
    BY ThePhases DEF suiteRunsInPhases
  <2>3. suiteRunsInPhases(st, PhasesOf(2)) \/ suiteRunsInPhases(st, PhasesOf(3))
    BY <2>1, ThePhases DEF suiteRunsInPhases, SuitePhase
  <2> QED
    BY <2>2, <2>3 DEF st
<1> QED
  BY <1>1 DEF InWorld

\* A report has a fatal failure exactly if the world makes one in its phases.
LEMMA FatalReport ==
  ASSUME NEW rows, NEW phases, ReportOf(rows, phases)
  PROVE  hasFatalFailures(rows) <=> \E r : InWorld(r, phases) /\ FatalFailureRow(r)
<1>1. ASSUME NEW i \in 1..Len(rows), FatalFailureRow(rows[i])
      PROVE  InWorld(rows[i], phases)
  BY <1>1 DEF ReportOf, NotRunRow, FatalFailureRow
<1>2. ASSUME ~hasFatalFailures(rows)
      PROVE  \A r : InWorld(r, phases) => ~FatalFailureRow(r)
  <2>1. \A i \in 1..Len(rows) : ~FatalFailureRow(rows[i]) /\ ~HaltingRow(rows[i])
    BY <1>2 DEF hasFatalFailures, HaltingRow
  <2> QED
    BY <2>1 DEF ReportOf
<1> QED
  BY <1>1, <1>2 DEF hasFatalFailures

\* types/check.ts, the two-pass workflow: whatever suites are queued, tagged or
\* not, and whatever the subject makes them find, splitting the work into a
\* cryptographic and a semantic pass changes no verdict, and loses or adds no
\* row of a full pass that nothing halted.
THEOREM TwoPassesAgree == TSpec => []TwoPassVerdict
<1>1. TInv => TwoPassVerdict
  <2> SUFFICES ASSUME TInv, AllDone
               PROVE  /\ ~hasFatalFailures(full) <=> ~hasFatalFailures(crypto) /\ ~hasFatalFailures(semantic)
                      /\ (\A i \in 1..Len(full) : ~HaltingRow(full[i])) =>
                           RowSet(full) = RowSet(crypto) \cup RowSet(semantic)
    BY DEF TwoPassVerdict
  <2>1. TypeOK /\ Len(reports) = 3
    BY DEF TInv, AllDone, Requests
  <2>2. ReportOf(full, PhasesOf(1)) /\ ReportOf(crypto, PhasesOf(2)) /\ ReportOf(semantic, PhasesOf(3))
    BY <2>1 DEF TInv, ReportsInv, full, crypto, semantic
  <2>3. \A r : InWorld(r, PhasesOf(1)) <=> InWorld(r, PhasesOf(2)) \/ InWorld(r, PhasesOf(3))
    BY <2>1, Split
  <2>4. ~hasFatalFailures(full) <=> ~hasFatalFailures(crypto) /\ ~hasFatalFailures(semantic)
    BY <2>2, <2>3, FatalReport
  <2>5. ASSUME \A i \in 1..Len(full) : ~HaltingRow(full[i])
        PROVE  RowSet(full) = RowSet(crypto) \cup RowSet(semantic)
    <3>1. \A r : InWorld(r, PhasesOf(1)) <=> r \in RowSet(full)
      BY <2>2, <2>5 DEF ReportOf, RowSet
    <3>2. \A r : InWorld(r, PhasesOf(1)) => ~HaltingRow(r)
      BY <2>5, <3>1 DEF RowSet
    <3>3. ASSUME NEW k \in {2, 3}, NEW rows, ReportOf(rows, PhasesOf(k))
          PROVE  \A r : InWorld(r, PhasesOf(k)) <=> r \in RowSet(rows)
      <4>1. \A i \in 1..Len(rows) : ~HaltingRow(rows[i])
        <5>1. \A i \in 1..Len(rows) : HaltingRow(rows[i]) => InWorld(rows[i], PhasesOf(k))
          BY <3>3 DEF ReportOf, NotRunRow, HaltingRow, FatalFailureRow
        <5> QED
          BY <2>3, <3>2, <5>1
      <4> QED
        BY <3>3, <4>1 DEF ReportOf, RowSet
    <3>4. \A r : InWorld(r, PhasesOf(2)) <=> r \in RowSet(crypto)
      BY <2>2, <3>3
    <3>5. \A r : InWorld(r, PhasesOf(3)) <=> r \in RowSet(semantic)
      BY <2>2, <3>3
    <3> QED
      BY <2>3, <3>1, <3>4, <3>5
  <2> QED
    BY <2>4, <2>5
<1> QED
  BY <1>1, TInvInvariant, PTL

=============================================================================
