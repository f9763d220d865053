--------------------------- MODULE ProofSet_proofs ---------------------------
(***************************************************************************)
(* Proofs about the proof suite, for any number of verifications under way, *)
(* any documents, any order of checks, and services that answer in any      *)
(* order and as they like.                                                  *)
(***************************************************************************)
EXTENDS ProofSet, SequenceTheorems, WellFoundedInduction, TLAPS

-----------------------------------------------------------------------------
(* How the answers about a document's proofs combine, for any number of proofs *)

\* The first of some positions is one of them.
LEMMA FirstIsOne ==
  ASSUME NEW P \in SUBSET Nat, P # {}
  PROVE  first(P) \in P
<1>1. IsWellFoundedOn(OpToRel(<, Nat), Nat)
  BY NatLessThanWellFounded
<1>2. \E x \in P : \A y \in P : ~(<<y, x>> \in OpToRel(<, Nat))
  BY <1>1, WFMin
<1>3. ASSUME NEW x \in Nat, NEW y \in Nat, y < x
      PROVE  <<y, x>> \in OpToRel(<, Nat)
  <2> DEFINE r == <<y, x>>
  <2>1. r \in Nat \X Nat /\ r[1] < r[2]
    BY <1>3
  <2> HIDE DEF r
  <2>2. r \in {ss \in Nat \X Nat : ss[1] < ss[2]}
    BY <2>1
  <2>3. r \in OpToRel(<, Nat)
    BY <2>2, Zenon DEF OpToRel
  <2> QED
    BY <2>3 DEF r
<1>4. \A x, y \in P : y < x => <<y, x>> \in OpToRel(<, Nat)
  BY <1>3
<1>5. \E x \in P : \A y \in P : ~(y < x)
  BY <1>2, <1>4
<1>6. \E x \in P : \A y \in P : x <= y
  BY <1>5
<1> QED
  BY <1>6 DEF first

\* The three groups, and those of a kind, are positions of the results.
LEMMA Groups ==
  ASSUME NEW results
  PROVE  /\ unchecked(results) \subseteq DOMAIN results
         /\ failing(results) \subseteq DOMAIN results
         /\ verifiedButRejected(results) \subseteq DOMAIN results
         /\ \A kind : ofKind(results, kind) \subseteq DOMAIN results
BY DEF unchecked, failing, verifiedButRejected, rejected, ofKind

\* What a set of verdicts combines to, one case at a time: the problems of the
\* failing proofs, else a verdict of the set, else what was left unchecked.
LEMMA Combined ==
  ASSUME NEW results
  PROVE  LET R == combineProofOutcomes(results) IN
         /\ failing(results) # {} => R = RejectedWith(problemsOf(results, failing(results)))
         /\ failing(results) = {} =>
              \/ /\ ofKind(results, "threw") # {}
                 /\ R = results[first(ofKind(results, "threw"))]
              \/ /\ ofKind(results, "threw") = {} /\ verifiedButRejected(results) # {}
                 /\ R = results[first(verifiedButRejected(results))]
              \/ /\ ofKind(results, "threw") = {} /\ ofKind(results, "verified") # {}
                 /\ R = results[first(ofKind(results, "verified"))]
              \/ R = Result("no-service")
              \/ R = RejectedWith(problemsOf(results, unchecked(results)))
BY Zenon DEF combineProofOutcomes

\* What the callers take for a good proof: verified, or rejected for something else.
Passes(result) ==
  result.kind = "verified" \/ (result.kind = "rejected" /\ result.proofVerified)

\* Some proof verified, and every other one verified too or is not supported.
Proven(results) ==
  /\ \E p \in DOMAIN results : Passes(results[p])
  /\ \A p \in DOMAIN results : Passes(results[p]) \/ isUnsupportedProof(results[p])

\* A document's verdict stands for verified proofs only when its proofs are:
\* no order of the answers and no mixture of them makes up for a bad proof.
LEMMA VerdictSound ==
  ASSUME NEW D \in SUBSET Nat, NEW results, DOMAIN results = D,
         \A p \in D : results[p].kind \in {"verified", "rejected", "no-service", "threw"},
         Passes(dispatchProofSetVerification(results))
  PROVE  Proven(results)
<1> DEFINE R == combineProofOutcomes(results)
<1>1. DOMAIN results = D /\ D \in SUBSET Nat
  OBVIOUS
<1>2. CASE D = {0}
  BY <1>1, <1>2 DEF dispatchProofSetVerification, Proven
<1>3. CASE D # {0}
  <2>1. Passes(R)
    BY <1>1, <1>3 DEF dispatchProofSetVerification
  <2>2. /\ \A P : ~Passes(RejectedWith(P))
        /\ ~Passes(Result("no-service"))
    BY DEF Passes, RejectedWith, Result
  <2>3. failing(results) = {}
    BY <2>1, <2>2, Combined
  <2>4. ASSUME ofKind(results, "threw") # {}
        PROVE  ~Passes(results[first(ofKind(results, "threw"))])
    <3>1. first(ofKind(results, "threw")) \in ofKind(results, "threw")
      BY <1>1, <2>4, FirstIsOne, Groups
    <3> QED
      BY <3>1 DEF ofKind, Passes
  <2>5. /\ ofKind(results, "threw") = {}
        /\ verifiedButRejected(results) # {} \/ ofKind(results, "verified") # {}
    BY <2>1, <2>2, <2>3, <2>4, Combined
  <2>6. ASSUME NEW p \in D
        PROVE  Passes(results[p]) \/ isUnsupportedProof(results[p])
    <3>1. results[p].kind \in {"verified", "rejected", "no-service", "threw"}
      OBVIOUS
    <3>2. results[p].kind # "threw"
      BY <1>1, <2>5 DEF ofKind
    <3>3. CASE results[p].kind = "rejected" /\ ~isUnsupportedProof(results[p])
      <4>1. p \in rejected(results)
        BY <1>1, <3>3 DEF rejected, unchecked
      <4>2. results[p].proofVerified
        BY <2>3, <4>1 DEF failing
      <4> QED
        BY <3>3, <4>2 DEF Passes
    <3> QED
      BY <3>1, <3>2, <3>3 DEF Passes, isUnsupportedProof
  <2>7. \E p \in D : Passes(results[p])
    <3>1. CASE verifiedButRejected(results) # {}
      <4>1. PICK p \in verifiedButRejected(results) : TRUE
        BY <3>1
      <4>2. p \in D /\ results[p].kind = "rejected" /\ results[p].proofVerified
        BY <1>1, <4>1 DEF verifiedButRejected, failing, rejected
      <4> QED
        BY <4>2 DEF Passes
    <3>2. CASE ofKind(results, "verified") # {}
      BY <1>1, <3>2 DEF ofKind, Passes
    <3> QED
      BY <2>5, <3>1, <3>2
  <2> QED
    BY <1>1, <2>6, <2>7 DEF Proven
<1> QED
  BY <1>2, <1>3

-----------------------------------------------------------------------------
(* The dispatch *)

\* Sets of positions of a document's proofs.
Positions == SUBSET Nat

LEMMA PositionedType ==
  ASSUME NEW document \in Document
  PROVE  positioned(document) \in Positions
BY DEF Document, positioned, proofEntries, Positions

LEMMA ProblemsType ==
  ASSUME NEW D \in Positions, NEW results \in [D -> DispatchResult], NEW P \in SUBSET D
  PROVE  problemsOf(results, P) \in SUBSET Problem
<1>1. ASSUME NEW p \in P
      PROVE  problemsOfProof(p, results[p]) \in SUBSET Problem
  <2>1. results[p] \in DispatchResult /\ p \in Nat
    BY DEF Positions
  <2>2. CASE results[p].kind = "rejected"
    <3>1. problemsOfProof(p, results[p]) = {[x EXCEPT !.about = p] : x \in results[p].problems}
      BY <2>2 DEF problemsOfProof
    <3>2. \A x \in Problem : [x EXCEPT !.about = p] \in Problem
      BY <2>1 DEF Problem
    <3> QED
      BY <2>1, <3>1, <3>2 DEF DispatchResult
  <2>3. CASE results[p].kind = "no-service"
    <3>1. problemsOfProof(p, results[p]) = {[about |-> p, type |-> "PROOF_UNSUPPORTED"]}
      BY <2>3 DEF problemsOfProof
    <3> QED
      BY <2>1, <3>1 DEF Problem, ProblemType
  <2>4. CASE results[p].kind \notin {"rejected", "no-service"}
    <3>1. problemsOfProof(p, results[p]) = {}
      BY <2>4 DEF problemsOfProof
    <3> QED
      BY <3>1
  <2> QED
    BY <2>2, <2>3, <2>4
<1> QED
  BY <1>1 DEF problemsOf

\* The problems of a document's verdict are problems.
LEMMA DispatchedType ==
  ASSUME NEW D \in Positions, NEW results \in [D -> DispatchResult]
  PROVE  dispatchProofSetVerification(results).problems \in SUBSET Problem
<1> DEFINE R == combineProofOutcomes(results)
<1>1. DOMAIN results = D /\ D \in SUBSET Nat
  BY DEF Positions
<1>2. CASE D = {0}
  BY <1>1, <1>2 DEF dispatchProofSetVerification, DispatchResult
<1>3. CASE D # {0}
  <2>1. dispatchProofSetVerification(results) = R
    BY <1>1, <1>3 DEF dispatchProofSetVerification
  <2>2. \A P \in SUBSET D : P # {} => results[first(P)] \in DispatchResult
    BY <1>1, FirstIsOne
  <2>3. \A P \in SUBSET D : RejectedWith(problemsOf(results, P)).problems \in SUBSET Problem
    BY ProblemsType DEF RejectedWith
  <2>4. Result("no-service").problems = {}
    BY DEF Result
  <2>5. \A x \in DispatchResult : x.problems \in SUBSET Problem
    BY DEF DispatchResult
  <2>6. /\ failing(results) \in SUBSET D /\ unchecked(results) \in SUBSET D
        /\ ofKind(results, "threw") \in SUBSET D /\ verifiedButRejected(results) \in SUBSET D
        /\ ofKind(results, "verified") \in SUBSET D
    BY <1>1, Groups
  <2>7. CASE failing(results) # {}
    BY <2>1, <2>3, <2>6, <2>7, Combined
  <2>8. CASE failing(results) = {}
    <3>1. \/ R \in DispatchResult
          \/ R = Result("no-service")
          \/ R = RejectedWith(problemsOf(results, unchecked(results)))
      BY <2>2, <2>6, <2>8, Combined
    <3> QED
      BY <2>1, <2>3, <2>4, <2>5, <2>6, <3>1
  <2> QED
    BY <2>7, <2>8
<1> QED
  BY <1>2, <1>3

\* A document's verdict stands for verified proofs only when its proofs are.
LEMMA DispatchSound ==
  ASSUME NEW D \in Positions, NEW results \in [D -> DispatchResult],
         ProofOk(dispatchProofSetVerification(results))
  PROVE  Proven(results)
<1>1. DOMAIN results = D /\ D \in SUBSET Nat
  BY DEF Positions
<1>2. \A p \in D : results[p].kind \in {"verified", "rejected", "no-service", "threw"}
  BY DEF DispatchResult
<1>3. Passes(dispatchProofSetVerification(results))
  BY DEF ProofOk, Passes
<1> QED
  BY <1>1, <1>2, <1>3, VerdictSound

-----------------------------------------------------------------------------
(* The inductive invariant *)

Verdict  == DispatchResult \cup {Pending}
Results  == UNION {[D -> Verdict] : D \in Positions}
Record   == [context : Context, run : Nat, results : Results]

Made == 1..Len(dispatches)

\* The dispatch d was made by context k in its run r.
Of(d, k, r) == d \in Made /\ dispatches[d].context = k /\ dispatches[d].run = r

Complete(d) == \A p \in DOMAIN dispatches[d].results : dispatches[d].results[p] # Pending

\* The memo holds a dispatch of the run under way, and no other dispatch is of
\* that run.
MemoInv ==
  /\ \A k \in Context : memo[k] # 0 => run[k] # 0 /\ Of(memo[k], k, run[k])
  /\ \A k \in Context : \A d \in Made :
       dispatches[d].context = k =>
         /\ dispatches[d].run <= run[k]
         /\ dispatches[d].run = run[k] /\ run[k] # 0 => d = memo[k]

\* What a check awaits is a dispatch of the run under way; a signature has begun one.
AwaitInv ==
  \A k \in Context :
    awaiting[k] # 0 =>
      /\ Of(awaiting[k], k, run[k])
      /\ check(k) = "signature" => run[k] # 0

\* No run has two dispatches.
OneDispatch ==
  \A d, e \in Made :
    /\ dispatches[d].context = dispatches[e].context
    /\ dispatches[d].run = dispatches[e].run
    /\ dispatches[d].run # 0
    => d = e

\* An outcome was read off a complete dispatch of its run, and says what it says.
OutcomeOk(k, o) ==
  /\ o.dispatch # 0 => Of(o.dispatch, k, o.run) /\ Complete(o.dispatch)
  /\ o.check = "signature" /\ o.status = "success" =>
       o.dispatch # 0 /\ o.run # 0 /\ Proven(resultsOf(o))
  /\ o.check = "unsupported" /\ documentHasProof(plan[k].document) =>
       /\ o.dispatch # 0
       /\ o.problems = problemsOf(resultsOf(o), unchecked(resultsOf(o)) \ {0})

OutcomeInv == \A k \in Context : \A i \in 1..Len(outcomes[k]) : OutcomeOk(k, outcomes[k][i])

Inv ==
  /\ TypeOK
  /\ dispatches \in Seq(Record)
  /\ MemoInv
  /\ AwaitInv
  /\ OneDispatch
  /\ OutcomeInv

\* The state of every context and dispatch, for the leaves below.
LEMMA Typed ==
  ASSUME Inv
  PROVE  /\ plan \in [Context -> Plan] /\ at \in [Context -> Nat \ {0}]
         /\ awaiting \in [Context -> Nat] /\ run \in [Context -> Nat] /\ memo \in [Context -> Nat]
         /\ outcomes \in [Context -> Seq(CheckOutcome)]
         /\ dispatches \in Seq(Record) /\ Len(dispatches) \in Nat
         /\ \A k \in Context : awaiting[k] <= Len(dispatches) /\ memo[k] <= Len(dispatches)
         /\ \A k \in Context : /\ plan[k].document \in Document
                               /\ plan[k].checks \in Seq({"signature", "unsupported"})
<1>1. Len(dispatches) \in Nat
  BY DEF Inv
<1> QED
  BY <1>1 DEF Inv, TypeOK, Plan

\* A dispatch's results give a verdict on each dispatched position.
LEMMA ResultsTyped ==
  ASSUME Inv, NEW d \in Made
  PROVE  /\ dispatches[d] \in Record
         /\ positioned(plan[dispatches[d].context].document) \in Positions
         /\ dispatches[d].results \in [positioned(plan[dispatches[d].context].document) -> Verdict]
<1> DEFINE D == positioned(plan[dispatches[d].context].document)
<1>1. dispatches[d] \in Record
  BY Typed, ElementOfSeq DEF Made
<1>2. dispatches[d].results \in Results /\ dispatches[d].context \in Context
  BY <1>1 DEF Record
<1>3. DOMAIN dispatches[d].results = D
  BY DEF Inv, TypeOK, Dispatch, Made
<1>4. D \in Positions
  BY <1>2, Typed, PositionedType
<1>5. dispatches[d].results \in [D -> Verdict]
  BY <1>2, <1>3 DEF Results
<1> QED
  BY <1>1, <1>4, <1>5

\* What a complete dispatch says stays said, whatever is dispatched later.
LEMMA OutcomeStays ==
  ASSUME NEW k \in Context, NEW o \in CheckOutcome, OutcomeOk(k, o), plan' = plan,
         \A d \in Made : /\ d \in Made'
                         /\ dispatches'[d].context = dispatches[d].context
                         /\ dispatches'[d].run = dispatches[d].run
                         /\ Complete(d) => dispatches'[d] = dispatches[d]
  PROVE  OutcomeOk(k, o)'
<1>1. ASSUME o.dispatch # 0
      PROVE  /\ Of(o.dispatch, k, o.run)' /\ Complete(o.dispatch)'
             /\ resultsOf(o)' = resultsOf(o)
  <2>1. Of(o.dispatch, k, o.run) /\ Complete(o.dispatch)
    BY <1>1 DEF OutcomeOk
  <2>2. o.dispatch \in Made /\ dispatches'[o.dispatch] = dispatches[o.dispatch]
    BY <2>1 DEF Of
  <2>3. Complete(o.dispatch)' /\ resultsOf(o)' = resultsOf(o)
    BY <2>1, <2>2 DEF Complete, resultsOf
  <2>4. Of(o.dispatch, k, o.run)'
    BY <2>1, <2>2 DEF Of
  <2> QED
    BY <2>3, <2>4
<1>2. /\ Proven(resultsOf(o)) /\ o.dispatch # 0 => Proven(resultsOf(o)')
      /\ o.dispatch # 0 => problemsOf(resultsOf(o)', unchecked(resultsOf(o)') \ {0})
                             = problemsOf(resultsOf(o), unchecked(resultsOf(o)) \ {0})
  BY <1>1
<1> QED
  BY <1>1, <1>2 DEF OutcomeOk

LEMMA OutcomesStay ==
  ASSUME Inv, UNCHANGED <<plan, outcomes>>,
         \A d \in Made : /\ d \in Made'
                         /\ dispatches'[d].context = dispatches[d].context
                         /\ dispatches'[d].run = dispatches[d].run
                         /\ Complete(d) => dispatches'[d] = dispatches[d]
  PROVE  OutcomeInv'
<1> SUFFICES ASSUME NEW k \in Context, NEW i \in 1..Len(outcomes[k])
             PROVE  OutcomeOk(k, outcomes[k][i])'
  BY DEF OutcomeInv
<1>1. PICK o \in CheckOutcome : outcomes[k][i] = o /\ OutcomeOk(k, o)
  BY Typed, ElementOfSeq DEF Inv, OutcomeInv
<1>2. OutcomeOk(k, o)'
  BY <1>1, OutcomeStays
<1> QED
  BY <1>1, <1>2 DEF OutcomeOk, resultsOf

\* A check concludes: the next one is up, or the rest are skipped.
LEMMA ConcludeStep ==
  ASSUME Inv, NEW k \in Context, at[k] <= Len(plan[k].checks),
         NEW status \in {"success", "failure", "skipped"}, NEW problems \in SUBSET Problem,
         NEW d \in Nat, Conclude(k, status, problems, d), UNCHANGED <<plan, run, memo, dispatches>>,
         OutcomeOk(k, [check |-> check(k), status |-> status, problems |-> problems,
                       dispatch |-> d, run |-> run[k]])
  PROVE  Inv'
<1> DEFINE o == [check |-> check(k), status |-> status, problems |-> problems,
                 dispatch |-> d, run |-> run[k]]
<1>1. o \in CheckOutcome
  <2>1. check(k) \in {"signature", "unsupported"}
    BY Typed, ElementOfSeq DEF check
  <2> QED
    BY <2>1, Typed DEF CheckOutcome
<1>2. outcomes' = [outcomes EXCEPT ![k] = Append(outcomes[k], o)]
  BY DEF Conclude
<1> HIDE DEF o
<1>3. outcomes[k] \in Seq(CheckOutcome) /\ Append(outcomes[k], o) \in Seq(CheckOutcome)
  BY <1>1, Typed, AppendProperties
<1>4. outcomes' \in [Context -> Seq(CheckOutcome)]
  BY <1>2, <1>3, Typed
<1>5. at' \in [Context -> Nat \ {0}] /\ \A j \in Context : at'[j] <= Len(plan[j].checks) + 1
  <2>1. Len(plan[k].checks) \in Nat
    BY Typed
  <2>2. at' = [at EXCEPT ![k] = IF check(k) = "signature" /\ status = "failure"
                                THEN Len(plan[k].checks) + 1 ELSE at[k] + 1]
    BY DEF Conclude
  <2>3. at'[k] \in Nat \ {0} /\ at'[k] <= Len(plan[k].checks) + 1
    BY <2>1, <2>2, Typed
  <2>4. \A j \in Context : j # k => at'[j] = at[j]
    BY <2>2, Typed
  <2> QED
    BY <2>2, <2>3, <2>4, Typed DEF Inv, TypeOK
<1>6. awaiting' = [awaiting EXCEPT ![k] = 0]
  BY DEF Conclude
<1>7. TypeOK'
  <2>1. awaiting' \in [Context -> 0..Len(dispatches)]
    BY <1>6, Typed DEF Inv, TypeOK
  <2>2. \A j \in Context : awaiting'[j] # 0 => at'[j] <= Len(plan[j].checks)
    <3>1. \A j \in Context : awaiting'[j] # 0 => j # k /\ awaiting[j] # 0
      BY <1>6, Typed
    <3>2. \A j \in Context : j # k => at'[j] = at[j]
      BY Typed DEF Conclude
    <3> QED
      BY <3>1, <3>2 DEF Inv, TypeOK
  <2>3. \A e \in 1..Len(dispatches) : Dispatch(dispatches[e])'
    BY DEF Inv, TypeOK, Dispatch
  <2> QED
    BY <1>4, <1>5, <2>1, <2>2, <2>3 DEF Inv, TypeOK
<1>8. MemoInv' /\ OneDispatch'
  BY DEF Inv, MemoInv, OneDispatch, Made, Of
<1>9. AwaitInv'
  <2> SUFFICES ASSUME NEW j \in Context, awaiting'[j] # 0
               PROVE  Of(awaiting[j], j, run[j])' /\ (check(j)' = "signature" => run'[j] # 0)
    BY DEF AwaitInv
  <2>1. j # k /\ awaiting'[j] = awaiting[j]
    BY <1>6, Typed
  <2>2. check(j)' = check(j)
    BY <2>1, Typed DEF check, Conclude
  <2> QED
    BY <2>1, <2>2 DEF Inv, AwaitInv, Of, Made
<1>10. OutcomeInv'
  <2>1. \A j \in Context : \A x \in CheckOutcome : OutcomeOk(j, x) => OutcomeOk(j, x)'
    BY DEF OutcomeOk, Of, Made, Complete, resultsOf
  <2> SUFFICES ASSUME NEW j \in Context, NEW i \in 1..Len(outcomes'[j])
               PROVE  OutcomeOk(j, outcomes[j][i])'
    BY DEF OutcomeInv
  <2>0. ASSUME NEW x \in CheckOutcome, outcomes'[j][i] = x, OutcomeOk(j, x)
        PROVE  OutcomeOk(j, outcomes[j][i])'
    <3>1. OutcomeOk(j, x)'
      BY <2>0, <2>1
    <3> QED
      BY <2>0, <3>1 DEF OutcomeOk, resultsOf
  <2> SUFFICES \E x \in CheckOutcome : outcomes'[j][i] = x /\ OutcomeOk(j, x)
    BY <2>0
  <2>2. CASE j # k
    <3>1. outcomes'[j] = outcomes[j] /\ outcomes[j] \in Seq(CheckOutcome)
      BY <1>2, <2>2, Typed
    <3> QED
      BY <3>1, ElementOfSeq DEF Inv, OutcomeInv
  <2>3. CASE j = k
    <3>1. outcomes'[k] = Append(outcomes[k], o)
      BY <1>2, Typed
    <3>2. CASE i = Len(outcomes[k]) + 1
      <4>1. outcomes'[k][i] = o
        BY <1>1, <1>3, <3>1, <3>2, AppendProperties
      <4> QED
        BY <1>1, <2>3, <4>1 DEF o
    <3>3. CASE i # Len(outcomes[k]) + 1
      <4>1. i \in 1..Len(outcomes[k]) /\ outcomes'[k][i] = outcomes[k][i]
        BY <1>1, <1>3, <2>3, <3>1, <3>3, AppendProperties
      <4> QED
        BY <1>3, <2>3, <4>1, ElementOfSeq DEF Inv, OutcomeInv
    <3> QED
      BY <3>2, <3>3
  <2> QED
    BY <2>2, <2>3
<1>11. dispatches' \in Seq(Record)
  BY Typed
<1> QED
  BY <1>7, <1>8, <1>9, <1>10, <1>11 DEF Inv

\* If the run r of context k has a dispatch, it is m; k has begun no later run.
DispatchOfRun(k, m, r) ==
  /\ m # 0 => r # 0 /\ Of(m, k, r)
  /\ \A d \in Made :
       dispatches[d].context = k =>
         /\ dispatches[d].run <= r
         /\ dispatches[d].run = r /\ r # 0 => d = m

\* A check comes to await a dispatch: the one of its run, or a new one.
LEMMA VerifyStep ==
  ASSUME Inv, NEW k \in Context, NEW m \in Nat, NEW r \in Nat,
         at[k] <= Len(plan[k].checks), verifyProofSet(k, m, r),
         run' = [run EXCEPT ![k] = r], UNCHANGED <<plan, at, outcomes>>,
         check(k) = "signature" => r # 0,
         DispatchOfRun(k, m, r)
  PROVE  Inv'
<1> DEFINE n   == Len(dispatches) + 1
           new == [context |-> k, run |-> r,
                   results |-> [p \in positioned(plan[k].document) |-> Pending]]
<1>a. /\ m # 0 => r # 0 /\ Of(m, k, r)
      /\ \A d \in Made : dispatches[d].context = k =>
           dispatches[d].run <= r /\ (dispatches[d].run = r /\ r # 0 => d = m)
  BY DEF DispatchOfRun
<1>0. Len(dispatches) \in Nat /\ run' \in [Context -> Nat] /\ run'[k] = r
  BY Typed
<1>1. new \in Record /\ new.context = k /\ new.run = r /\ Dispatch(new)
  <2>1. positioned(plan[k].document) \in Positions
    BY Typed, PositionedType
  <2>2. new.results \in [positioned(plan[k].document) -> Verdict]
    BY DEF Verdict
  <2>3. new.results \in Results
    BY <2>1, <2>2 DEF Results
  <2> QED
    BY <2>2, <2>3 DEF Record, Dispatch, Verdict
\* The dispatches there were are still there, and one may be new.
<1>2. /\ dispatches' \in Seq(Record) /\ Len(dispatches') \in {Len(dispatches), n}
      /\ \A d \in Made : d \in Made' /\ dispatches'[d] = dispatches[d]
      /\ \A d \in Made' : d \in Made \/ d = n
  <2>1. CASE dispatches' = dispatches
    BY <1>0, <2>1, Typed DEF Made
  <2>2. CASE dispatches' = Append(dispatches, new)
    BY <1>0, <1>1, <2>2, Typed, AppendProperties DEF Made
  <2> QED
    BY <2>1, <2>2 DEF verifyProofSet
\* What is awaited is of this run, and the only one of it.
<1>3. /\ awaiting' = [awaiting EXCEPT ![k] = awaiting'[k]] /\ awaiting'[k] \in Nat
      /\ Of(awaiting[k], k, r)'
      /\ memo' = [memo EXCEPT ![k] = memo'[k]] /\ memo'[k] = (IF r = 0 THEN m ELSE awaiting'[k])
      /\ n \in Made' => awaiting'[k] = n /\ dispatches'[n] = new
      /\ n \in Made' /\ r # 0 => m = 0
  <2>1. CASE pending(k, m, r) # 0
    <3>1. pending(k, m, r) = m /\ r # 0
      BY <2>1 DEF pending
    <3>2. /\ awaiting' = [awaiting EXCEPT ![k] = m] /\ memo' = [memo EXCEPT ![k] = m]
          /\ dispatches' = dispatches
      BY <2>1, <3>1 DEF verifyProofSet
    <3>3. n \notin Made'
      BY <1>0, <3>2 DEF Made
    <3> QED
      BY <1>a, <2>1, <3>1, <3>2, <3>3, Typed DEF Of, Made
  <2>2. CASE pending(k, m, r) = 0
    <3>1. /\ awaiting' = [awaiting EXCEPT ![k] = n]
          /\ dispatches' = Append(dispatches, new)
          /\ memo' = [memo EXCEPT ![k] = IF r = 0 THEN m ELSE n]
      BY <2>2 DEF verifyProofSet
    <3>2. Len(dispatches') = n /\ dispatches'[n] = new
      BY <1>0, <1>1, <3>1, Typed, AppendProperties
    <3>3. r # 0 => m = 0
      BY <2>2 DEF pending
    <3> QED
      BY <1>0, <1>1, <3>1, <3>2, <3>3, Typed DEF Of, Made
  <2> QED
    BY <2>1, <2>2
<1> HIDE DEF new
<1>4. ASSUME NEW j \in Context, j # k
      PROVE  awaiting'[j] = awaiting[j] /\ memo'[j] = memo[j] /\ run'[j] = run[j]
  BY <1>3, <1>4, Typed
<1>5. TypeOK'
  <2>1. ASSUME NEW j \in Context
        PROVE  awaiting'[j] \in 0..Len(dispatches') /\ memo'[j] \in 0..Len(dispatches')
    <3>1. CASE j = k
      <4>1. m \in 0..Len(dispatches')
        BY <1>a, <1>0, <1>2 DEF Of, Made
      <4>2. awaiting'[k] \in 0..Len(dispatches')
        BY <1>3 DEF Of, Made
      <4> QED
        BY <1>3, <3>1, <4>1, <4>2
    <3>2. CASE j # k
      BY <1>0, <1>2, <1>4, <3>2, Typed
    <3> QED
      BY <3>1, <3>2
  <2>2. awaiting' \in [Context -> 0..Len(dispatches')] /\ memo' \in [Context -> 0..Len(dispatches')]
    BY <1>3, <2>1, Typed
  <2>3. ASSUME NEW d \in Made'
        PROVE  Dispatch(dispatches[d])'
    <3>1. CASE d \in Made
      <4>1. dispatches'[d] = dispatches[d] /\ Dispatch(dispatches[d])
        BY <1>2, <3>1 DEF Inv, TypeOK, Made
      <4> QED
        BY <4>1 DEF Dispatch
    <3>2. CASE d = n
      <4>1. dispatches'[d] = new /\ Dispatch(new)
        BY <1>1, <1>3, <2>3, <3>2
      <4> QED
        BY <4>1 DEF Dispatch
    <3> QED
      BY <1>2, <2>3, <3>1, <3>2
  <2>4. \A j \in Context : awaiting'[j] # 0 => at[j] <= Len(plan[j].checks)
    BY <1>3, Typed DEF Inv, TypeOK
  <2> QED
    BY <1>0, <2>2, <2>3, <2>4 DEF Inv, TypeOK, Made
<1>6. MemoInv'
  <2>1. ASSUME NEW j \in Context, memo'[j] # 0
        PROVE  run'[j] # 0 /\ Of(memo[j], j, run[j])'
    <3>1. CASE j = k
      <4>1. r # 0
        BY <1>a, <1>3, <2>1, <3>1
      <4> QED
        BY <1>0, <1>3, <3>1, <4>1
    <3>2. CASE j # k
      BY <1>2, <1>4, <2>1, <3>2 DEF Inv, MemoInv, Of
    <3> QED
      BY <3>1, <3>2
  <2>2. ASSUME NEW j \in Context, NEW d \in Made', dispatches'[d].context = j
        PROVE  /\ dispatches'[d].run <= run'[j]
               /\ dispatches'[d].run = run'[j] /\ run'[j] # 0 => d = memo'[j]
    <3>1. CASE j = k /\ d \in Made
      <4>1. /\ dispatches[d].context = k /\ dispatches'[d] = dispatches[d]
        BY <1>2, <2>2, <3>1
      <4>2. dispatches[d].run <= r /\ (dispatches[d].run = r /\ r # 0 => d = m)
        BY <1>a, <3>1, <4>1
      <4>3. CASE n \in Made' /\ r # 0 /\ dispatches[d].run = r
        <5>1. d = m /\ m = 0
          BY <1>3, <4>2, <4>3
        <5> QED
          BY <1>0, <3>1, <5>1 DEF Made
      <4>4. CASE n \notin Made' /\ r # 0 /\ dispatches[d].run = r
        <5>1. d = m /\ m # 0
          BY <1>0, <3>1, <4>2, <4>4 DEF Made
        <5>2. awaiting'[k] \in Made
          BY <1>2, <1>3, <4>4 DEF Of
        <5>3. dispatches[awaiting'[k]].context = k /\ dispatches[awaiting'[k]].run = r
          BY <1>2, <1>3, <5>2 DEF Of
        <5>4. awaiting'[k] = m
          BY <1>a, <4>4, <5>2, <5>3
        <5> QED
          BY <1>0, <1>3, <3>1, <4>1, <4>2, <4>4, <5>1, <5>4
      <4>5. CASE ~(r # 0 /\ dispatches[d].run = r)
        BY <1>0, <3>1, <4>1, <4>2, <4>5
      <4> QED
        BY <4>3, <4>4, <4>5
    <3>2. CASE j = k /\ d = n
      BY <1>0, <1>1, <1>3, <2>2, <3>2, Typed
    <3>3. CASE j # k /\ d \in Made
      BY <1>2, <1>4, <2>2, <3>3 DEF Inv, MemoInv
    <3>4. CASE j # k /\ d = n
      BY <1>1, <1>3, <2>2, <3>4
    <3> QED
      BY <1>2, <2>2, <3>1, <3>2, <3>3, <3>4
  <2> QED
    BY <2>1, <2>2 DEF MemoInv
<1>7. AwaitInv'
  <2> SUFFICES ASSUME NEW j \in Context, awaiting'[j] # 0
               PROVE  Of(awaiting[j], j, run[j])' /\ (check(j) = "signature" => run'[j] # 0)
    BY DEF AwaitInv, check
  <2>1. CASE j = k
    BY <1>0, <1>3, <2>1
  <2>2. CASE j # k
    BY <1>2, <1>4, <2>2 DEF Inv, AwaitInv, Of
  <2> QED
    BY <2>1, <2>2
<1>8. OneDispatch'
  <2> SUFFICES ASSUME NEW d \in Made', NEW e \in Made', d # e,
                      dispatches'[d].context = dispatches'[e].context,
                      dispatches'[d].run = dispatches'[e].run, dispatches'[d].run # 0
               PROVE  FALSE
    BY DEF OneDispatch
  <2>1. CASE d \in Made /\ e \in Made
    BY <1>2, <2>1 DEF Inv, OneDispatch
  <2>2. ASSUME NEW x \in Made, n \in Made', dispatches[x].context = k, dispatches[x].run = r, r # 0
        PROVE  FALSE
    <3>1. x = m /\ m = 0
      BY <1>a, <1>3, <2>2
    <3> QED
      BY <1>0, <2>2, <3>1 DEF Made
  <2>3. CASE d = n /\ e \in Made
    BY <1>1, <1>2, <1>3, <2>2, <2>3
  <2>4. CASE e = n /\ d \in Made
    BY <1>1, <1>2, <1>3, <2>2, <2>4
  <2> QED
    BY <1>2, <2>1, <2>3, <2>4
<1>9. OutcomeInv'
  BY <1>2, OutcomesStay
<1> QED
  BY <1>2, <1>5, <1>6, <1>7, <1>8, <1>9 DEF Inv

\* A late answer completes a dispatch; nothing that was complete changes.
LEMMA SettleStep ==
  ASSUME Inv, NEW d \in Made, NEW p \in DOMAIN dispatches[d].results, NEW result \in DispatchResult,
         Settle(d, p, result)
  PROVE  Inv'
<1> DEFINE D   == positioned(plan[dispatches[d].context].document)
           set == [dispatches[d] EXCEPT !.results[p] = result]
<1>1. /\ dispatches[d] \in Record /\ D \in Positions
      /\ dispatches[d].results \in [D -> Verdict] /\ p \in D
  BY ResultsTyped
<1>2. dispatches' = [dispatches EXCEPT ![d] = set]
  BY DEF Settle
<1>3. /\ set \in Record /\ set.context = dispatches[d].context /\ set.run = dispatches[d].run
      /\ set.results \in [D -> Verdict]
  <2>1. [dispatches[d].results EXCEPT ![p] = result] \in [D -> Verdict]
    BY <1>1 DEF Verdict
  <2>2. set = [dispatches[d] EXCEPT !.results = [dispatches[d].results EXCEPT ![p] = result]]
    OBVIOUS
  <2>3. [dispatches[d].results EXCEPT ![p] = result] \in Results
    BY <1>1, <2>1 DEF Results
  <2> HIDE DEF set
  <2> QED
    BY <1>1, <2>1, <2>2, <2>3 DEF Record
<1>4. ~Complete(d)
  BY DEF Settle, Complete
<1> HIDE DEF set
<1>5. /\ dispatches' \in Seq(Record) /\ Len(dispatches') = Len(dispatches) /\ Made' = Made
      /\ dispatches'[d] = set
      /\ \A e \in Made : e # d => dispatches'[e] = dispatches[e]
  BY <1>2, <1>3, Typed, ExceptSeq DEF Made
<1>6. \A e \in Made : /\ dispatches'[e].context = dispatches[e].context
                      /\ dispatches'[e].run = dispatches[e].run
                      /\ Complete(e) => dispatches'[e] = dispatches[e]
  BY <1>3, <1>4, <1>5
<1>7. UNCHANGED <<plan, at, awaiting, run, memo, outcomes>>
  BY DEF Settle
<1>8. TypeOK'
  <2>1. ASSUME NEW e \in Made
        PROVE  Dispatch(dispatches[e])'
    <3>1. CASE e = d
      <4>1. /\ dispatches'[e].context = dispatches[d].context /\ dispatches'[e].run = dispatches[d].run
            /\ dispatches'[e].results \in [D -> Verdict]
        BY <1>3, <1>5, <3>1
      <4>2. dispatches[d].context \in Context /\ dispatches[d].run \in Nat
        BY <1>1 DEF Record
      <4> QED
        BY <1>7, <4>1, <4>2 DEF Dispatch, Verdict
    <3>2. CASE e # d
      <4>1. dispatches'[e] = dispatches[e] /\ Dispatch(dispatches[e])
        BY <1>5, <3>2 DEF Inv, TypeOK, Made
      <4> QED
        BY <1>7, <4>1 DEF Dispatch
    <3> QED
      BY <3>1, <3>2
  <2> QED
    BY <1>5, <1>7, <2>1 DEF Inv, TypeOK, Made
<1>9. MemoInv' /\ AwaitInv'
  BY <1>5, <1>6, <1>7 DEF Inv, MemoInv, AwaitInv, Of, check
<1>10. OneDispatch'
  BY <1>5, <1>6 DEF Inv, OneDispatch
<1>11. OutcomeInv'
  BY <1>5, <1>6, <1>7, OutcomesStay
<1> QED
  BY <1>5, <1>8, <1>9, <1>10, <1>11 DEF Inv

\* What a check reads once it resumes: a complete dispatch, so one of verdicts.
LEMMA Awaited ==
  ASSUME Inv, NEW k \in Context, Settled(k)
  PROVE  /\ awaiting[k] \in Made /\ Of(awaiting[k], k, run[k]) /\ Complete(awaiting[k])
         /\ at[k] <= Len(plan[k].checks)
         /\ positioned(plan[k].document) \in Positions
         /\ awaited(k) \in [positioned(plan[k].document) -> DispatchResult]
<1>1. awaiting[k] \in Made /\ Of(awaiting[k], k, run[k])
  BY DEF Settled, Inv, AwaitInv, Of
<1>2. Complete(awaiting[k])
  BY DEF Settled, Complete
<1>3. at[k] <= Len(plan[k].checks)
  BY DEF Settled, Inv, TypeOK
<1>4. /\ positioned(plan[k].document) \in Positions
      /\ awaited(k) \in [positioned(plan[k].document) -> Verdict]
  BY <1>1, ResultsTyped DEF Of, awaited
<1>5. \A p \in DOMAIN awaited(k) : awaited(k)[p] # Pending
  BY <1>2 DEF Complete, awaited
<1>6. awaited(k) \in [positioned(plan[k].document) -> DispatchResult]
  BY <1>4, <1>5 DEF Verdict
<1> QED
  BY <1>1, <1>2, <1>3, <1>4, <1>6

LEMMA InvStep ==
  ASSUME Inv, [Next]_vars
  PROVE  Inv'
<1>0. ASSUME UNCHANGED vars
      PROVE  Inv'
  <2>1. UNCHANGED <<plan, at, awaiting, run, memo, dispatches, outcomes>> /\ Made' = Made
    BY <1>0 DEF vars, Made
  <2>2. TypeOK' /\ dispatches' \in Seq(Record)
    BY <2>1 DEF Inv, TypeOK, Dispatch
  <2>3. MemoInv' /\ AwaitInv' /\ OneDispatch'
    BY <2>1 DEF Inv, MemoInv, AwaitInv, OneDispatch, Of, check
  <2>4. OutcomeInv'
    BY <2>1, OutcomesStay
  <2> QED
    BY <2>2, <2>3, <2>4 DEF Inv
<1>1. ASSUME NEW k \in Context, SignatureWithoutProof(k)
      PROVE  Inv'
  <2> DEFINE status == IF plan[k].document.type = "verifiablePresentation" /\ plan[k].unsigned
                       THEN "skipped" ELSE "failure"
  <2>1. /\ check(k) = "signature" /\ at[k] <= Len(plan[k].checks)
        /\ Conclude(k, status, {}, 0) /\ UNCHANGED <<plan, run, memo, dispatches>>
    BY <1>1 DEF SignatureWithoutProof, Begins
  <2>2. status \in {"skipped", "failure"}
    OBVIOUS
  <2> HIDE DEF status
  <2>3. OutcomeOk(k, [check |-> check(k), status |-> status, problems |-> {},
                      dispatch |-> 0, run |-> run[k]])
    BY <2>1, <2>2 DEF OutcomeOk
  <2> QED
    BY <2>1, <2>2, <2>3, ConcludeStep
<1>2. ASSUME NEW k \in Context, Signature(k)
      PROVE  Inv'
  <2>1. /\ at[k] <= Len(plan[k].checks) /\ verifyProofSet(k, 0, run[k] + 1)
        /\ run' = [run EXCEPT ![k] = run[k] + 1] /\ UNCHANGED <<plan, at, outcomes>>
    BY <1>2 DEF Signature, Begins
  <2>2. run[k] \in Nat /\ run[k] + 1 \in Nat /\ run[k] + 1 # 0
    BY Typed
  <2>3. ASSUME NEW d \in Made, dispatches[d].context = k
        PROVE  dispatches[d].run <= run[k] + 1 /\ dispatches[d].run # run[k] + 1
    <3>1. dispatches[d].run \in Nat
      BY ResultsTyped DEF Record
    <3>2. dispatches[d].run <= run[k]
      BY <2>3 DEF Inv, MemoInv
    <3> QED
      BY <2>2, <3>1, <3>2
  <2> DEFINE r == run[k] + 1
  <2>4. r \in Nat /\ r # 0 /\ 0 \in Nat /\ DispatchOfRun(k, 0, r)
    BY <2>2, <2>3 DEF DispatchOfRun
  <2>5. verifyProofSet(k, 0, r) /\ run' = [run EXCEPT ![k] = r]
    BY <2>1
  <2> HIDE DEF r
  <2> QED
    BY <2>1, <2>4, <2>5, VerifyStep
<1>3. ASSUME NEW k \in Context, UnsupportedWithoutProof(k)
      PROVE  Inv'
  <2>1. /\ check(k) = "unsupported" /\ at[k] <= Len(plan[k].checks)
        /\ ~documentHasProof(plan[k].document)
        /\ Conclude(k, "skipped", {}, 0) /\ UNCHANGED <<plan, run, memo, dispatches>>
    BY <1>3 DEF UnsupportedWithoutProof, Begins
  <2>2. OutcomeOk(k, [check |-> check(k), status |-> "skipped", problems |-> {},
                      dispatch |-> 0, run |-> run[k]])
    BY <2>1 DEF OutcomeOk
  <2> QED
    BY <2>1, <2>2, ConcludeStep
<1>4. ASSUME NEW k \in Context, Unsupported(k)
      PROVE  Inv'
  <2>1. /\ at[k] <= Len(plan[k].checks) /\ verifyProofSet(k, memo[k], run[k])
        /\ check(k) = "unsupported" /\ run' = run /\ UNCHANGED <<plan, at, outcomes>>
    BY <1>4 DEF Unsupported, Begins
  <2>2. run' = [run EXCEPT ![k] = run[k]] /\ run[k] \in Nat /\ memo[k] \in Nat
    BY <2>1, Typed
  <2>3. DispatchOfRun(k, memo[k], run[k])
    BY DEF Inv, MemoInv, DispatchOfRun
  <2> QED
    BY <2>1, <2>2, <2>3, VerifyStep
<1>5. ASSUME NEW k \in Context, SignatureSettles(k)
      PROVE  Inv'
  <2> DEFINE dispatched == dispatchProofSetVerification(awaited(k))
             o(status, problems) == [check |-> check(k), status |-> status, problems |-> problems,
                                     dispatch |-> awaiting[k], run |-> run[k]]
  <2>1. Settled(k) /\ check(k) = "signature" /\ UNCHANGED <<plan, run, memo, dispatches>>
    BY <1>5 DEF SignatureSettles
  <2>2. awaiting[k] # 0 /\ run[k] # 0 /\ awaiting[k] \in Nat
    BY <2>1, Typed DEF Settled, Inv, AwaitInv
  <2>3. CASE ProofOk(dispatched)
    <3>1. Conclude(k, "success", {}, awaiting[k])
      BY <1>5, <2>3 DEF SignatureSettles, ProofOk
    <3>2. Proven(awaited(k))
      BY <2>1, <2>3, Awaited, DispatchSound
    <3>3. OutcomeOk(k, o("success", {}))
      BY <2>1, <2>2, <3>2, Awaited DEF OutcomeOk, resultsOf, awaited
    <3> QED
      BY <2>1, <2>2, <3>1, <3>3, Awaited, ConcludeStep
  <2>4. CASE ~ProofOk(dispatched)
    <3>1. Conclude(k, "failure", dispatched.problems, awaiting[k])
      BY <1>5, <2>4 DEF SignatureSettles, ProofOk
    <3>2. dispatched.problems \in SUBSET Problem
      BY <2>1, Awaited, DispatchedType
    <3>3. OutcomeOk(k, o("failure", dispatched.problems))
      BY <2>1, <2>2, Awaited DEF OutcomeOk, resultsOf, awaited
    <3> QED
      BY <2>1, <2>2, <3>1, <3>2, <3>3, Awaited, ConcludeStep
  <2> QED
    BY <2>3, <2>4
<1>6. ASSUME NEW k \in Context, UnsupportedSettles(k)
      PROVE  Inv'
  <2> DEFINE problems == problemsOf(awaited(k), unchecked(awaited(k)) \ {0})
             status   == IF problems # {} THEN "failure" ELSE "success"
  <2>1. /\ Settled(k) /\ check(k) = "unsupported" /\ UNCHANGED <<plan, run, memo, dispatches>>
        /\ Conclude(k, status, problems, awaiting[k])
    BY <1>6 DEF UnsupportedSettles
  <2>2. awaiting[k] # 0 /\ awaiting[k] \in Nat
    BY <2>1, Typed DEF Settled
  <2>3. problems \in SUBSET Problem
    <3>1. unchecked(awaited(k)) \ {0} \in SUBSET positioned(plan[k].document)
      BY <2>1, Awaited, Groups
    <3> QED
      BY <2>1, <3>1, Awaited, ProblemsType
  <2>4. status \in {"failure", "success"}
    OBVIOUS
  <2>5. problems = problemsOf(awaited(k), unchecked(awaited(k)) \ {0})
    OBVIOUS
  <2> HIDE DEF status, problems
  <2>6. OutcomeOk(k, [check |-> check(k), status |-> status, problems |-> problems,
                      dispatch |-> awaiting[k], run |-> run[k]])
    BY <2>1, <2>2, <2>5, Awaited DEF OutcomeOk, resultsOf, awaited
  <2> QED
    BY <2>1, <2>2, <2>3, <2>4, <2>6, Awaited, ConcludeStep
<1>7. ASSUME Answers
      PROVE  Inv'
  <2>1. PICK d \in 1..Len(dispatches) :
          \E p \in DOMAIN dispatches[d].results :
            \E result \in plan[dispatches[d].context].answers : Settle(d, p, result)
    BY <1>7 DEF Answers
  <2>2. dispatches[d].context \in Context /\ d \in Made
    BY ResultsTyped DEF Record, Made
  <2>3. plan[dispatches[d].context].answers \subseteq DispatchResult
    BY <2>2, Typed DEF Plan
  <2> QED
    BY <2>1, <2>2, <2>3, SettleStep
<1> QED
  BY <1>0, <1>1, <1>2, <1>3, <1>4, <1>5, <1>6, <1>7 DEF Next, Advance, AllFinished

LEMMA Invariant == Spec => []Inv
<1>1. Init => Inv
  <2> SUFFICES ASSUME Init PROVE Inv
    OBVIOUS
  <2>1. plan \in [Context -> Plan]
    BY PlansAssumption DEF Init
  <2>2. dispatches = <<>> /\ Len(dispatches) = 0 /\ Made = {} /\ dispatches \in Seq(Record)
    BY DEF Init, Made
  <2>3. \A k \in Context : Len(plan[k].checks) \in Nat
    BY <2>1 DEF Plan
  <2>4. TypeOK
    BY <2>1, <2>2, <2>3 DEF Init, TypeOK
  <2>5. MemoInv /\ AwaitInv /\ OneDispatch
    BY <2>2 DEF Init, MemoInv, AwaitInv, OneDispatch
  <2>6. OutcomeInv
    BY DEF Init, OutcomeInv
  <2> QED
    BY <2>2, <2>4, <2>5, <2>6 DEF Inv
<1>2. Inv /\ [Next]_vars => Inv'
  BY InvStep
<1> QED
  BY <1>1, <1>2, PTL DEF Spec

-----------------------------------------------------------------------------
(* The theorems *)

\* Every context is at a check of its plan and awaits a dispatch that exists;
\* every dispatch has a verdict or a pending one on each dispatched proof.
THEOREM TypeCorrect == Spec => []TypeOK
<1>1. Inv => TypeOK
  BY DEF Inv
<1> QED
  BY <1>1, Invariant, PTL

\* A signature check that passed read a complete verdict, in which some proof
\* verified and none was found bad.
THEOREM SignatureTrue == Spec => []SignatureSound
<1>1. Inv => SignatureSound
  <2> SUFFICES ASSUME Inv, NEW k \in Context, NEW i \in 1..Len(outcomes[k]),
                      outcomes[k][i].check = "signature", outcomes[k][i].status = "success"
               PROVE  LET results == resultsOf(outcomes[k][i]) IN
                      /\ outcomes[k][i].dispatch # 0
                      /\ \E p \in DOMAIN results : ProofOk(results[p])
                      /\ \A p \in DOMAIN results :
                           ProofOk(results[p]) \/ isUnsupportedProof(results[p])
    BY DEF SignatureSound, Outcomes
  <2>1. outcomes[k][i].dispatch # 0 /\ Proven(resultsOf(outcomes[k][i]))
    BY DEF Inv, OutcomeInv, OutcomeOk
  <2> QED
    BY <2>1 DEF Proven, Passes, ProofOk
<1> QED
  BY <1>1, Invariant, PTL

\* Both checks of a run read the one dispatch that this context made in it.
THEOREM RunsApart == Spec => []VerdictOfThisRun
<1>1. Inv => VerdictOfThisRun
  <2> SUFFICES ASSUME Inv PROVE VerdictOfThisRun
    OBVIOUS
  <2>1. \A k \in Context : \A o \in Outcomes(k) : OutcomeOk(k, o)
    BY DEF Inv, OutcomeInv, Outcomes
  <2> QED
    BY <2>1 DEF Inv, VerdictOfThisRun, OutcomeOk, Of, OneDispatch, Made
<1> QED
  BY <1>1, Invariant, PTL

\* After both checks of a run, each proof of a set verified or is named by a
\* problem of the second check.
THEOREM NothingUnmentioned == Spec => []UncheckedProofsReported
<1>1. Inv => UncheckedProofsReported
  <2> SUFFICES ASSUME Inv, NEW k \in Context, NEW o \in Outcomes(k), NEW w \in Outcomes(k),
                      o.check = "signature", o.status = "success",
                      w.check = "unsupported", w.run = o.run,
                      NEW p \in proofEntries(plan[k].document), p \in DOMAIN resultsOf(o),
                      ~ProofOk(resultsOf(o)[p])
               PROVE  \E problem \in w.problems : problem.about = p
    BY DEF UncheckedProofsReported
  <2>1. OutcomeOk(k, o) /\ OutcomeOk(k, w)
    BY DEF Inv, OutcomeInv, Outcomes
  <2>2. documentHasProof(plan[k].document)
    BY DEF documentHasProof
  <2>3. w.dispatch = o.dispatch
    BY <2>1, <2>2 DEF OutcomeOk, Of, Inv, OneDispatch
  <2>4. resultsOf(w) = resultsOf(o)
    BY <2>3 DEF resultsOf
  <2>5. isUnsupportedProof(resultsOf(o)[p])
    BY <2>1 DEF OutcomeOk, Proven, Passes, ProofOk
  <2>6. p \in unchecked(resultsOf(w)) \ {0}
    <3>1. p # 0
      BY Typed DEF proofEntries
    <3> QED
      BY <2>4, <2>5, <3>1 DEF unchecked
  <2>7. \E problem \in problemsOfProof(p, resultsOf(w)[p]) : problem.about = p
    <3> DEFINE result == resultsOf(w)[p]
    <3>0. isUnsupportedProof(result)
      BY <2>4, <2>5
    <3>1. result \in DispatchResult
      <4>1. o.dispatch \in Made /\ Complete(o.dispatch)
        BY <2>1 DEF OutcomeOk, Of
      <4>2. dispatches[o.dispatch].results[p] \in Verdict
        BY <4>1, ResultsTyped DEF resultsOf
      <4> QED
        BY <2>4, <4>1, <4>2 DEF Complete, resultsOf, Verdict
    <3> HIDE DEF result
    <3>2. CASE result.kind = "no-service"
      <4>1. problemsOfProof(p, result) = {[about |-> p, type |-> "PROOF_UNSUPPORTED"]}
        BY <3>2 DEF problemsOfProof
      <4> QED
        BY <4>1 DEF result
    <3>3. CASE result.kind = "rejected" /\ result.problems # {}
      <4>1. problemsOfProof(p, result) = {[x EXCEPT !.about = p] : x \in result.problems}
        BY <3>3 DEF problemsOfProof
      <4>2. PICK x \in result.problems : TRUE
        BY <3>3
      <4>3. x \in Problem
        BY <3>1, <4>2 DEF DispatchResult
      <4>4. [x EXCEPT !.about = p].about = p
        BY <4>3 DEF Problem
      <4> QED
        BY <4>1, <4>2, <4>4 DEF result
    <3> QED
      BY <3>0, <3>2, <3>3 DEF isUnsupportedProof
  <2>8. problemsOfProof(p, resultsOf(w)[p]) \subseteq w.problems
    <3>1. w.problems = problemsOf(resultsOf(w), unchecked(resultsOf(w)) \ {0})
      BY <2>1, <2>2 DEF OutcomeOk
    <3> QED
      BY <2>6, <3>1 DEF problemsOf
  <2> QED
    BY <2>7, <2>8
<1> QED
  BY <1>1, Invariant, PTL

=============================================================================
