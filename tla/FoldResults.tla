----------------------------- MODULE FoldResults -----------------------------
(***************************************************************************)
(* src/fold-results.ts: the pure summary of a report.  Rows are grouped by  *)
(* suite id in first-seen order and each group is reduced to one summary.   *)
(* The wording of a summary's message is abstracted to which of the three   *)
(* forms it takes and which check it blames; timing is left out.            *)
(***************************************************************************)
EXTENDS CheckTypes, FiniteSets

\* The namespaced id of a row or a summary: the suite's own prefix is stripped
\* from the check id, and a phase equal to the suite id is not repeated.
computeId(phase, suiteId, checkId) ==
  LET phaseSeg == IF phase = None THEN <<"unknown">> ELSE phase
      n        == Len(suiteId)
      prefixed == Len(checkId) > n /\ SubSeq(checkId, 1, n) = suiteId
      local    == IF prefixed THEN SubSeq(checkId, n + 1, Len(checkId)) ELSE checkId
  IN IF phaseSeg = suiteId THEN phaseSeg \o local ELSE phaseSeg \o suiteId \o local

appliesId(suiteId) == Append(suiteId, "applies")

\* The least element of a set of row indices.
Least(I) == CHOOSE i \in I : \A j \in I : i <= j

\* The phase of the last suite with this id: a Map keeps the last one set.
derivePhase(suites, suiteId) ==
  LET I == {k \in 1..Len(suites) : suites[k].id = suiteId} IN
  IF I = {} THEN None ELSE suites[CHOOSE k \in I : \A j \in I : j <= k].phase

\* The rows of one suite, as a set of indices into the report.
groupOf(checks, suiteId) == {i \in 1..Len(checks) : checks[i].suite = suiteId}

\* Fault: rows of halted checks are tallied nowhere.
TallyWithoutNotRun(checks, I) ==
  LET count(P(_)) == Cardinality({i \in I : P(checks[i])}) IN
  [passed   |-> count(LAMBDA r : r.status = "success"),
   failed   |-> count(LAMBDA r : r.status = "failure"),
   skipped  |-> count(LAMBDA r : r.status = "skipped" /\ r.why # "notRun"),
   notRun   |-> 0,
   haltedBy |-> None]

tallySuite(checks, I) ==
  LET count(P(_)) == Cardinality({i \in I : P(checks[i])})
      halted      == {i \in I : checks[i].why = "notRun"}
  IN [passed   |-> count(LAMBDA r : r.status = "success"),
      failed   |-> count(LAMBDA r : r.status = "failure"),
      skipped  |-> count(LAMBDA r : r.status = "skipped" /\ r.why # "notRun"),
      notRun   |-> Cardinality(halted),
      haltedBy |-> IF halted = {} THEN None ELSE checks[Least(halted)].haltedBy]

deriveStatus(counts) ==
  CASE counts.failed > 0 /\ counts.passed > 0 -> "mixed"
    [] counts.failed > 0 /\ counts.passed = 0 -> "failure"
    [] counts.failed = 0 /\ counts.passed > 0 -> "success"
    [] OTHER                                  -> "skipped"

\* Whether the suite's only row is the note that its predicate declined.
pickAppliesSkipReason(checks, I, phase, suiteId) ==
  \E i \in I : /\ I = {i}
               /\ checks[i].status = "skipped"
               /\ checks[i].id = computeId(phase, suiteId, appliesId(suiteId))

formatMessage(tally, appliesSkip) ==
  LET total == tally.passed + tally.failed + tally.skipped + tally.notRun IN
  IF appliesSkip THEN [form |-> "not applicable", blames |-> None]
  ELSE IF tally.notRun = total /\ tally.haltedBy # None
       THEN [form |-> "not run", blames |-> tally.haltedBy]
       ELSE [form |-> "counted", blames |-> None]

summarizeSuite(suiteId, phase, checks, I) ==
  LET tally  == tallySuite(checks, I)
      counts == [passed |-> tally.passed, failed |-> tally.failed,
                 skipped |-> tally.skipped + tally.notRun]
      fatal  == {i \in I : FatalFailureRow(checks[i])}
  IN [id             |-> computeId(phase, suiteId, <<>>),
      suite          |-> suiteId,
      status         |-> deriveStatus(counts),
      verified       |-> fatal = {},
      counts         |-> counts,
      fatalFailureAt |-> IF fatal = {} THEN None ELSE checks[Least(fatal)].id,
      message        |-> formatMessage(tally, pickAppliesSkipReason(checks, I, phase, suiteId))]

\* The summaries, each under the index of its suite's first row: the order of
\* these indices is the order of the code's array.
foldCheckResults(checks, suites) ==
  LET firsts == {i \in 1..Len(checks) : i = Least(groupOf(checks, checks[i].suite))} IN
  [i \in firsts |->
     summarizeSuite(checks[i].suite, derivePhase(suites, checks[i].suite), checks,
                    groupOf(checks, checks[i].suite))]

=============================================================================
