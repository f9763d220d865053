------------------------------ MODULE RunSuites ------------------------------
(***************************************************************************)
(* The suite orchestrator, src/run-suites.ts: one call of runSuites on one *)
(* subject.  It walks the suites in order, filters them by phase and by    *)
(* their `applies` predicate, executes the checks that apply to the        *)
(* subject, and appends one row per check to a flat report.  The first     *)
(* failure of a halting check stops execution for the rest of the call.    *)
(*                                                                         *)
(* A check's execute and a suite's applies are code of the caller or of    *)
(* another component: their answers are chosen nondeterministically here.  *)
(***************************************************************************)
EXTENDS FoldResults

CONSTANT Calls   \* the calls of runSuites a behaviour may start with

Call == [suites : Seq(Suite), subject : SUBSET SubjectType,
         phases : Optional(SUBSET SuitePhase), explicitSuiteIds : SUBSET Id]

ASSUME CallsAssumption == Calls \subseteq Call

VARIABLES
  call,      \* the arguments: suites, subject, options
  pc,        \* "suite" | "check" | "execute" (awaiting execute) | "done"
  s,         \* index of the current suite
  c,         \* index of the current check of that suite
  applies,   \* what evaluateApplies answered for each suite passed so far
  haltedBy,  \* id of the first halting failure, None before it
  results    \* the report

vars == <<call, pc, s, c, applies, haltedBy, results>>

-----------------------------------------------------------------------------
(* Helpers of the orchestrator *)

\* Fault: a phase filter drops untagged suites too.
UntaggedExcluded(st, phases) ==
  phases # None => st.phase # None /\ st.phase[1] \in phases[1]

suiteRunsInPhases(st, phases) ==
  phases # None /\ st.phase # None => st.phase[1] \in phases[1]

haltsOnFailure(check) == check.fatal /\ check.halts

\* What evaluateApplies may answer: a suite without a predicate applies.
evaluateApplies(suite) == IF suite.predicate THEN {"yes", "no", "threw"} ELSE {"yes"}

\* Fault: a fatal check that opted out of halting is overlooked.
CouldHalt(suite, subject) ==
  \E i \in 1..Len(suite.checks) :
    haltsOnFailure(suite.checks[i]) /\ checkAppliesTo(suite.checks[i], subject)

\* A suite that could have failed this subject.
couldFail(suite, subject) ==
  \E i \in 1..Len(suite.checks) :
    suite.checks[i].fatal /\ checkAppliesTo(suite.checks[i], subject)

buildResult(at, suite, checkId, outcome, fatal, halts) ==
  [at |-> at, id |-> computeId(suite.phase, suite.id, checkId), suite |-> suite.id,
   check |-> checkId, status |-> outcome.status, why |-> outcome.why,
   haltedBy |-> outcome.haltedBy, fatal |-> fatal, halts |-> halts]

-----------------------------------------------------------------------------
(* The loop *)

suite == call.suites[s]
check == suite.checks[c]

Init ==
  /\ call \in Calls
  /\ pc = "suite"
  /\ s = 1
  /\ c = 1
  /\ applies = <<>>
  /\ haltedBy = None
  /\ results = <<>>

AtSuite == pc = "suite" /\ s <= Len(call.suites)

\* continue: the suite is left without entering its checks.
NextSuite(answer) ==
  /\ applies' = Append(applies, answer)
  /\ s' = s + 1
  /\ UNCHANGED <<call, pc, c>>

PhaseExcluded ==
  /\ AtSuite
  /\ ~suiteRunsInPhases(suite, call.phases)
  /\ NextSuite("excluded")
  /\ UNCHANGED <<haltedBy, results>>

Evaluated(answer) ==
  /\ AtSuite
  /\ suiteRunsInPhases(suite, call.phases)
  /\ answer \in evaluateApplies(suite)

\* A throw is reported once, before any halt; it halts when the suite could
\* have failed the subject, whatever `halts` its checks set.
AppliesThrew ==
  /\ Evaluated("threw")
  /\ haltedBy = None
  /\ LET fatal == couldFail(suite, call.subject)
         id    == appliesId(suite.id)
     IN /\ results' = Append(results, buildResult(<<s, 0>>, suite, id,
                                        buildCheckErrorOutcome, fatal, TRUE))
        /\ haltedBy' = IF fatal THEN id ELSE haltedBy
  /\ NextSuite("threw")

AppliesDeclined ==
  /\ Evaluated("no")
  /\ results' = IF suite.id \in call.explicitSuiteIds
                THEN Append(results, buildResult(<<s, 0>>, suite, appliesId(suite.id),
                                                 Declined, FALSE, TRUE))
                ELSE results
  /\ NextSuite("no")
  /\ UNCHANGED haltedBy

\* Fault: the check index is not reset when a suite is entered.
EnterSuiteKeepsIndex ==
  /\ \/ Evaluated("yes") /\ applies' = Append(applies, "yes")
     \/ Evaluated("threw") /\ haltedBy # None /\ applies' = Append(applies, "threw")
  /\ pc' = "check"
  /\ UNCHANGED <<call, s, c, haltedBy, results>>

\* A throw after a halt enters the suite, whose checks are then listed as not run.
EnterSuite ==
  /\ \/ Evaluated("yes") /\ applies' = Append(applies, "yes")
     \/ Evaluated("threw") /\ haltedBy # None /\ applies' = Append(applies, "threw")
  /\ pc' = "check"
  /\ c' = 1
  /\ UNCHANGED <<call, s, haltedBy, results>>

AtCheck == pc = "check" /\ c <= Len(suite.checks)

\* Fault: the loop does not move past a check that does not apply.
NotForSubjectStays ==
  /\ AtCheck
  /\ ~checkAppliesTo(check, call.subject)
  /\ UNCHANGED vars

NotForSubject ==
  /\ AtCheck
  /\ ~checkAppliesTo(check, call.subject)
  /\ c' = c + 1
  /\ UNCHANGED <<call, pc, s, applies, haltedBy, results>>

\* Fault: a check halted by an earlier failure leaves no row.
ListNotRunSilent ==
  /\ AtCheck
  /\ checkAppliesTo(check, call.subject)
  /\ haltedBy # None
  /\ c' = c + 1
  /\ UNCHANGED <<call, pc, s, applies, haltedBy, results>>

ListNotRun ==
  /\ AtCheck
  /\ checkAppliesTo(check, call.subject)
  /\ haltedBy # None
  /\ results' = Append(results, buildResult(<<s, c>>, suite, check.id,
                                  NotRunAfter(haltedBy), check.fatal, check.halts))
  /\ c' = c + 1
  /\ UNCHANGED <<call, pc, s, applies, haltedBy>>

\* Fault: a check is started although the subject has been halted.
StartCheckAnyway ==
  /\ AtCheck
  /\ checkAppliesTo(check, call.subject)
  /\ pc' = "execute"
  /\ UNCHANGED <<call, s, c, applies, haltedBy, results>>

\* check.execute is called and awaited.
StartCheck ==
  /\ AtCheck
  /\ checkAppliesTo(check, call.subject)
  /\ haltedBy = None
  /\ pc' = "execute"
  /\ UNCHANGED <<call, s, c, applies, haltedBy, results>>

\* The awaited promise settles; a rejection becomes a CHECK_ERROR failure.
SettleCheck(outcome) ==
  /\ pc = "execute"
  /\ results' = Append(results, buildResult(<<s, c>>, suite, check.id, outcome,
                                  check.fatal, check.halts))
  /\ haltedBy' = IF haltsOnFailure(check) /\ outcome.status = "failure"
                 THEN check.id ELSE haltedBy
  /\ pc' = "check"
  /\ c' = c + 1
  /\ UNCHANGED <<call, s, applies>>

\* Fault: a halt only lasts until the end of its suite.
LeaveSuiteForgetsHalt ==
  /\ pc = "check"
  /\ c > Len(suite.checks)
  /\ pc' = "suite"
  /\ s' = s + 1
  /\ haltedBy' = None
  /\ UNCHANGED <<call, c, applies, results>>

LeaveSuite ==
  /\ pc = "check"
  /\ c > Len(suite.checks)
  /\ pc' = "suite"
  /\ s' = s + 1
  /\ UNCHANGED <<call, c, applies, haltedBy, results>>

Return ==
  /\ pc = "suite"
  /\ s > Len(call.suites)
  /\ pc' = "done"
  /\ UNCHANGED <<call, s, c, applies, haltedBy, results>>

\* The call has returned; only here may the orchestrator stand still.
Returned == pc = "done" /\ UNCHANGED vars

Step ==
  \/ PhaseExcluded
  \/ AppliesThrew
  \/ AppliesDeclined
  \/ EnterSuite
  \/ NotForSubject
  \/ ListNotRun
  \/ StartCheck
  \/ \E outcome \in Outcome : SettleCheck(outcome)
  \/ LeaveSuite
  \/ Return

Next == Step \/ Returned

Spec == Init /\ [][Next]_vars

\* Each await of the loop is on a promise that settles: the built-in checks
\* reach the network only through a GET with a deadline.
FairSpec == Spec /\ WF_vars(Step)

-----------------------------------------------------------------------------
(* Types *)

Answer == {"excluded", "yes", "no", "threw"}

\* The loop variables stay within the call, and every row is well formed.
TypeOK ==
  /\ call \in Call
  /\ pc \in {"suite", "check", "execute", "done"}
  /\ s \in 1..(Len(call.suites) + 1)
  /\ c \in Nat \ {0}
  /\ pc \in {"check", "execute"} => s <= Len(call.suites)
  /\ pc = "check" => c <= Len(suite.checks) + 1
  /\ pc = "execute" => c <= Len(suite.checks)
  /\ applies \in Seq(Answer)
  /\ Len(applies) = IF pc \in {"check", "execute"} THEN s ELSE s - 1
  /\ haltedBy \in Id \cup {None}
  /\ results \in Seq(Row)

-----------------------------------------------------------------------------
(* What the orchestrator promises *)

Rows == 1..Len(results)

\* verifier.ts: the subject is verified when no row is a fatal failure.
hasFatalFailures(rows) == \E i \in 1..Len(rows) : FatalFailureRow(rows[i])

HaltingRow(row) == FatalFailureRow(row) /\ row.halts

\* The header of run-suites.ts: after the first halting failure no later
\* check executes, in the same suite or any later one.  Every row after it is
\* a "not run" row naming that very check, or the note that an explicitly
\* queued suite declined.
HaltIsFinal ==
  \A i, j \in Rows :
    i < j /\ HaltingRow(results[i]) =>
      \/ results[j].why = "notRun" /\ results[j].haltedBy = results[i].check
      \/ results[j].why = "declined"

\* "A suite that could have failed the subject must not silently pass": when
\* a returned report has no fatal failure, every fatal check that applies to
\* the subject, of every suite in the requested phases whose predicate did not
\* decline, was executed and did not fail.
VerifiedMeansChecked ==
  pc = "done" /\ ~hasFatalFailures(results) =>
    \A si \in 1..Len(call.suites) :
      \A ci \in 1..Len(call.suites[si].checks) :
        LET st == call.suites[si]
            ck == st.checks[ci]
        IN /\ suiteRunsInPhases(st, call.phases)
           /\ applies[si] # "no"
           /\ ck.fatal
           /\ checkAppliesTo(ck, call.subject)
           => \E i \in Rows : /\ results[i].at = <<si, ci>>
                              /\ results[i].why = "check"
                              /\ results[i].status # "failure"

\* The positions a complete report lists.
HaltedBefore(si) == \E i \in Rows : HaltingRow(results[i]) /\ results[i].at[1] < si

Listed(si, ci) ==
  LET st == call.suites[si] IN
  IF ci = 0
  THEN \/ applies[si] = "threw" /\ ~HaltedBefore(si)
       \/ applies[si] = "no" /\ st.id \in call.explicitSuiteIds
  ELSE /\ checkAppliesTo(st.checks[ci], call.subject)
       /\ \/ applies[si] = "yes"
          \/ applies[si] = "threw" /\ HaltedBefore(si)

Precedes(p, q) == p[1] < q[1] \/ (p[1] = q[1] /\ p[2] < q[2])

\* The report is complete and in order: a returned report has exactly one row
\* for every check that applies, of every suite that was not excluded and did
\* not decline, whether the check ran or was halted; the row about a predicate
\* replaces the suite's checks exactly when it should.
ReportComplete ==
  pc = "done" =>
    /\ {results[i].at : i \in Rows} =
         {p \in UNION {{si} \X (0..Len(call.suites[si].checks)) : si \in 1..Len(call.suites)} :
            Listed(p[1], p[2])}
    /\ \A i, j \in Rows : i < j => Precedes(results[i].at, results[j].at)

summaries == foldCheckResults(results, call.suites)

\* docs/api/verification-results.md: the top-level verdict is false exactly
\* when some summary names a fatal failure, and the counts of the summaries
\* account for every row of the report, once.  A summary that reads "<suite>
\* not run: <check> failed" blames a check that halted the subject in a suite
\* listed before it, whose own summary is not verified: halting in the middle
\* of a suite never reads as "not run".
SummariesAccountForReport ==
  pc = "done" =>
    /\ hasFatalFailures(results) <=> \E k \in DOMAIN summaries : summaries[k].fatalFailureAt # None
    /\ \A k \in DOMAIN summaries :
         LET n == summaries[k].counts IN
         n.passed + n.failed + n.skipped = Cardinality(groupOf(results, summaries[k].suite))
    /\ {summaries[k].suite : k \in DOMAIN summaries} = {results[i].suite : i \in Rows}
    /\ \A k \in DOMAIN summaries :
         summaries[k].message.form = "not run" =>
           \E j \in DOMAIN summaries :
             /\ j < k
             /\ ~summaries[j].verified
             /\ \E i \in Rows : /\ HaltingRow(results[i])
                                /\ results[i].suite = summaries[j].suite
                                /\ results[i].check = summaries[k].message.blames

\* "runSuites always resolves": a call returns, whatever throws on the way.
AlwaysResolves == <>(pc = "done")

\* The promise of a single subject's verdict, as an abstract specification.
Verdict == INSTANCE SubjectVerdict WITH
  phase    <- IF pc = "done" THEN "returned" ELSE IF pc = "execute" THEN "running" ELSE "deciding",
  verified <- ~hasFatalFailures(results),
  halted   <- haltedBy # None

\* Every behaviour of the loop is one of SubjectVerdict: the verdict is lost
\* only to a fatal failure, never regained, and nothing runs once halted.
ImplementsVerdict == Verdict!Spec

=============================================================================
