------------------------------- MODULE TwoPass -------------------------------
(***************************************************************************)
(* The two-pass workflow of src/types/check.ts (SuitePhase) on one subject: *)
(* a full pass, a cryptographic and trust pass, and a semantic pass, each a *)
(* call of runSuites on the same suites with the phases that verifier.ts    *)
(* hands it.  The three passes meet the same credential: what a predicate   *)
(* answers and what a check finds is fixed in advance by `world`.           *)
(***************************************************************************)
EXTENDS RunSuites

CONSTANT Worlds   \* records [applies : suite id -> answer, outcome : check id -> Outcome]

\* A world answers for every suite and every check of every call.
ASSUME WorldsAssumption ==
  \A w \in Worlds, cl \in Calls : \A i \in 1..Len(cl.suites) :
    /\ w.applies[cl.suites[i].id] \in {"yes", "no", "threw"}
    /\ \A j \in 1..Len(cl.suites[i].checks) : w.outcome[cl.suites[i].checks[j].id] \in Outcome

VARIABLES
  world,    \* what the subject makes predicates and checks answer
  reports   \* the reports of the passes that have returned

tvars == <<vars, world, reports>>

-----------------------------------------------------------------------------

\* The `phases` a caller requests in each pass.
Requests == <<None, <<{"cryptographic", "trust"}>>, <<{"semantic"}>> >>

TInit ==
  /\ Init
  /\ call.phases = expandPhases(Requests[1])
  /\ world \in Worlds
  /\ reports = <<>>

\* A step of the current pass, with the answers the world fixes.
PassStep ==
  /\ \/ PhaseExcluded
     \/ AppliesThrew /\ world.applies[suite.id] = "threw"
     \/ AppliesDeclined /\ world.applies[suite.id] = "no"
     \/ EnterSuite /\ (suite.predicate => applies'[s] = world.applies[suite.id])
     \/ NotForSubject
     \/ ListNotRun
     \/ StartCheck
     \/ SettleCheck(world.outcome[check.id])
     \/ LeaveSuite
     \/ Return
  /\ UNCHANGED <<world, reports>>

\* The pass has returned its report and the caller starts the next one.
NextPass ==
  /\ pc = "done"
  /\ Len(reports) < Len(Requests)
  /\ reports' = Append(reports, results)
  /\ IF Len(reports') < Len(Requests)
     THEN /\ call' = [call EXCEPT !.phases = expandPhases(Requests[Len(reports') + 1])]
          /\ pc' = "suite" /\ s' = 1 /\ c' = 1
          /\ applies' = <<>> /\ haltedBy' = None /\ results' = <<>>
     ELSE UNCHANGED vars
  /\ UNCHANGED world

AllReturned == Len(reports) = Len(Requests) /\ UNCHANGED tvars

TNext == PassStep \/ NextPass \/ AllReturned

TSpec == TInit /\ [][TNext]_tvars

-----------------------------------------------------------------------------

full     == reports[1]
crypto   == reports[2]
semantic == reports[3]

AllDone == Len(reports) = Len(Requests)

RowSet(rows) == {rows[i] : i \in 1..Len(rows)}

\* The verdicts of the two partial passes together are the verdict of the full
\* pass: nothing fatal is lost by splitting the work, whichever phase a suite
\* is tagged with and whether or not it is tagged at all.  Unless the full pass
\* was halted, the partial passes together produce exactly its rows.
TwoPassVerdict ==
  AllDone =>
    /\ ~hasFatalFailures(full) <=> ~hasFatalFailures(crypto) /\ ~hasFatalFailures(semantic)
    /\ (\A i \in 1..Len(full) : ~HaltingRow(full[i])) =>
         RowSet(full) = RowSet(crypto) \cup RowSet(semantic)

=============================================================================
