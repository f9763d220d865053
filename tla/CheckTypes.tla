----------------------------- MODULE CheckTypes ------------------------------
(***************************************************************************)
(* The vocabulary of src/types/check.ts: suites, checks, outcomes and the   *)
(* rows of a report.  Ids are sequences of dot-separated segments, so       *)
(* "core.proof-exists" is <<"core", "proof-exists">>.  An optional value is *)
(* the empty sequence when absent, a sequence of length one otherwise.      *)
(***************************************************************************)
EXTENDS Naturals, Sequences

CONSTANT Segment   \* the segments ids are made of

None        == <<>>
Optional(S) == {None} \cup {<<x>> : x \in S}

SubjectType == {"verifiableCredential", "verifiablePresentation"}
SuitePhase  == {"cryptographic", "trust", "recognition", "semantic"}
Id          == Seq(Segment) \ {None}

\* Phases are segments of row ids, as are the two words the code itself adds.
ASSUME SegmentAssumption == SuitePhase \cup {"applies", "unknown"} \subseteq Segment

\* An absent `fatal` is FALSE and an absent `halts` is TRUE: the code tests
\* fatal === true and halts !== false.
Check == [id : Id, appliesTo : SUBSET SubjectType, fatal : BOOLEAN, halts : BOOLEAN]
Suite == [id : Id, phase : Optional(SuitePhase), predicate : BOOLEAN, checks : Seq(Check)]

(* A row of the report.  `check` is the id the check was declared with, `at`  *)
(* its position <<suite, check>> in the call (check 0 for the row about the   *)
(* suite's predicate).  `why` tells where the outcome comes from:             *)
(*   "check"    the check's own outcome                                       *)
(*   "threw"    execute or applies threw: a CHECK_ERROR problem               *)
(*   "declined" the predicate of an explicitly queued suite returned false    *)
(*   "notRun"   NOT_RUN_AFTER_FATAL, with `haltedBy` naming the failed check  *)
Position == (Nat \ {0}) \X Nat

Row == [at : Position, id : Seq(Segment), suite : Id, check : Id,
        status : {"success", "failure", "skipped"},
        why : {"check", "threw", "declined", "notRun"},
        haltedBy : Id \cup {None}, fatal : BOOLEAN, halts : BOOLEAN]

Ran(status)            == [status |-> status, why |-> "check", haltedBy |-> None]
buildCheckErrorOutcome == [status |-> "failure", why |-> "threw", haltedBy |-> None]
Declined               == [status |-> "skipped", why |-> "declined", haltedBy |-> None]
NotRunAfter(id)        == [status |-> "skipped", why |-> "notRun", haltedBy |-> id]

\* What awaiting a check's execute may yield.
Outcome == {Ran("success"), Ran("failure"), Ran("skipped"), buildCheckErrorOutcome}

FatalFailureRow(row) == row.fatal /\ row.status = "failure"

\* The phases a request stands for: the semantic ones need what recognition makes.
expandPhases(requested) ==
  IF requested # None /\ "semantic" \in requested[1]
  THEN <<requested[1] \cup {"recognition"}>>
  ELSE requested

checkAppliesTo(check, subject) ==
  check.appliesTo = {} \/ check.appliesTo \cap subject # {}

=============================================================================
