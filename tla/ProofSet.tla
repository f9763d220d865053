------------------------------- MODULE ProofSet ------------------------------
(***************************************************************************)
(* The proof suite, src/suites/proof/: the checks proof.signature and       *)
(* proof.unsupported-proofs on concurrent verifications, and the memo they  *)
(* share, which lets the second check read the verdict the first obtained.  *)
(*                                                                          *)
(* A verification has a context of its own and executes its checks one      *)
(* after the other; a caller that queues the proof suite again makes them   *)
(* execute twice on one context.  Several verifications may be handed the   *)
(* same document.  The crypto services are external: they answer in any     *)
(* order, and twice asked about the same proof may answer differently.      *)
(***************************************************************************)
EXTENDS CryptoDispatch

CONSTANTS
  Context,   \* the contexts of the verifications under way
  Plans      \* what they may be asked together

\* What one verification is asked, and what its crypto services may come to on
\* a proof.
Plan == [document : Document, unsigned : BOOLEAN, checks : Seq({"signature", "unsupported"}),
         answers : SUBSET DispatchResult]

ASSUME PlansAssumption == Plans \subseteq [Context -> Plan]

VARIABLES
  plan,         \* what each context is asked
  at,           \* index of the check each context is at
  awaiting,     \* index of the dispatch that check awaits, 0 when none
  run,          \* how many proof runs each context has begun
  memo,         \* verifiedProofs: the dispatch of the current run, 0 when none
  dispatches,   \* every dispatch made, oldest first
  outcomes      \* the outcomes of each context's checks

vars == <<plan, at, awaiting, run, memo, dispatches, outcomes>>

Pending == Result("pending")

Init ==
  /\ plan \in Plans
  /\ at = [k \in Context |-> 1]
  /\ awaiting = [k \in Context |-> 0]
  /\ run = [k \in Context |-> 0]
  /\ memo = [k \in Context |-> 0]
  /\ dispatches = <<>>
  /\ outcomes = [k \in Context |-> <<>>]

-----------------------------------------------------------------------------
(* The memo *)

\* Fault: the memo is keyed by the document alone.
PendingOfDocument(k, m, r) ==
  LET D == {d \in 1..Len(dispatches) : plan[dispatches[d].context].document = plan[k].document} IN
  IF r = 0 \/ D = {} THEN 0 ELSE first(D)

\* The verdict the current run already asked for: none outside a run.
pending(k, m, r) == IF r = 0 THEN 0 ELSE m

\* Fault: the dispatch is not remembered.
VerifyProofSetUnshared(k, m, r) ==
  /\ awaiting' = [awaiting EXCEPT ![k] = Len(dispatches) + 1]
  /\ dispatches' = Append(dispatches, [context |-> k, run |-> r,
                     results |-> [p \in positioned(plan[k].document) |-> Pending]])
  /\ memo' = [memo EXCEPT ![k] = m]

\* Fault: the dispatch is awaited before it has been made.
VerifyProofSetUndispatched(k, m, r) ==
  /\ awaiting' = [awaiting EXCEPT ![k] = Len(dispatches) + 1]
  /\ memo' = [memo EXCEPT ![k] = m]
  /\ UNCHANGED dispatches

\* The check awaits the run's dispatch, which it makes if the run has none yet.
verifyProofSet(k, m, r) ==
  IF pending(k, m, r) # 0
  THEN /\ awaiting' = [awaiting EXCEPT ![k] = pending(k, m, r)]
       /\ memo' = [memo EXCEPT ![k] = m]
       /\ UNCHANGED dispatches
  ELSE /\ awaiting' = [awaiting EXCEPT ![k] = Len(dispatches) + 1]
       /\ dispatches' = Append(dispatches, [context |-> k, run |-> r,
                          results |-> [p \in positioned(plan[k].document) |-> Pending]])
       /\ memo' = [memo EXCEPT ![k] = IF r = 0 THEN m ELSE Len(dispatches) + 1]

-----------------------------------------------------------------------------
(* The checks *)

check(k) == plan[k].checks[at[k]]

\* The orchestrator moves to the next check; a failed signature halts the rest.
Conclude(k, status, problems, d) ==
  /\ outcomes' = [outcomes EXCEPT ![k] = Append(@, [check |-> check(k), status |-> status,
                    problems |-> problems, dispatch |-> d, run |-> run'[k]])]
  /\ at' = [at EXCEPT ![k] = IF check(k) = "signature" /\ status = "failure"
                             THEN Len(plan[k].checks) + 1 ELSE @ + 1]
  /\ awaiting' = [awaiting EXCEPT ![k] = 0]

Begins(k, name) ==
  /\ awaiting[k] = 0
  /\ at[k] <= Len(plan[k].checks)
  /\ check(k) = name

\* proof.signature on a document without a proof: only a presentation may be
\* unsigned, and only when the caller says so.
SignatureWithoutProof(k) ==
  /\ Begins(k, "signature")
  /\ ~documentHasProof(plan[k].document)
  /\ UNCHANGED run
  /\ Conclude(k, IF plan[k].document.type = "verifiablePresentation" /\ plan[k].unsigned
                 THEN "skipped" ELSE "failure", {}, 0)
  /\ UNCHANGED <<plan, memo, dispatches>>

\* proof.signature begins a run (beginProofRun) and asks for the verdict.
Signature(k) ==
  /\ Begins(k, "signature")
  /\ documentHasProof(plan[k].document)
  /\ run' = [run EXCEPT ![k] = @ + 1]
  /\ verifyProofSet(k, 0, run[k] + 1)
  /\ UNCHANGED <<plan, at, outcomes>>

UnsupportedWithoutProof(k) ==
  /\ Begins(k, "unsupported")
  /\ ~documentHasProof(plan[k].document)
  /\ UNCHANGED run
  /\ Conclude(k, "skipped", {}, 0)
  /\ UNCHANGED <<plan, memo, dispatches>>

Unsupported(k) ==
  /\ Begins(k, "unsupported")
  /\ documentHasProof(plan[k].document)
  /\ verifyProofSet(k, memo[k], run[k])
  /\ UNCHANGED <<plan, at, run, outcomes>>

\* A crypto service answers, or none takes the proof.
Settle(d, p, result) ==
  /\ dispatches[d].results[p] = Pending
  /\ dispatches' = [dispatches EXCEPT ![d].results[p] = result]
  /\ UNCHANGED <<plan, at, awaiting, run, memo, outcomes>>

\* The awaited dispatch of context k, once every proof of it has settled.
Settled(k) ==
  /\ awaiting[k] # 0
  /\ \A p \in DOMAIN dispatches[awaiting[k]].results :
       dispatches[awaiting[k]].results[p] # Pending

awaited(k) == dispatches[awaiting[k]].results

SignatureSettles(k) ==
  /\ Settled(k)
  /\ check(k) = "signature"
  /\ UNCHANGED run
  /\ LET dispatched == dispatchProofSetVerification(awaited(k)) IN
     IF \/ dispatched.kind = "verified"
        \/ dispatched.kind = "rejected" /\ dispatched.proofVerified
     THEN Conclude(k, "success", {}, awaiting[k])
     ELSE Conclude(k, "failure", dispatched.problems, awaiting[k])
  /\ UNCHANGED <<plan, memo, dispatches>>

\* Fault: the check goes on waiting until every proof has been checked.
UnsupportedWaits(k) ==
  /\ Settled(k)
  /\ check(k) = "unsupported"
  /\ UNCHANGED run
  /\ IF unchecked(awaited(k)) = {}
     THEN Conclude(k, "success", {}, awaiting[k])
     ELSE UNCHANGED <<outcomes, at, awaiting>>
  /\ UNCHANGED <<plan, memo, dispatches>>

\* The per-proof outcomes are empty unless the document carries a proof set.
UnsupportedSettles(k) ==
  /\ Settled(k)
  /\ check(k) = "unsupported"
  /\ UNCHANGED run
  /\ LET problems == problemsOf(awaited(k), unchecked(awaited(k)) \ {0}) IN
     Conclude(k, IF problems # {} THEN "failure" ELSE "success", problems, awaiting[k])
  /\ UNCHANGED <<plan, memo, dispatches>>

Finished(k) == at[k] > Len(plan[k].checks)
AllFinished == (\A k \in Context : Finished(k)) /\ UNCHANGED vars

Advance(k) ==
  \/ SignatureWithoutProof(k)
  \/ Signature(k)
  \/ UnsupportedWithoutProof(k)
  \/ Unsupported(k)
  \/ SignatureSettles(k)
  \/ UnsupportedSettles(k)

Answers ==
  \E d \in 1..Len(dispatches) : \E p \in DOMAIN dispatches[d].results :
    \E result \in plan[dispatches[d].context].answers : Settle(d, p, result)

Next ==
  \/ \E k \in Context : Advance(k)
  \/ Answers
  \/ AllFinished

Spec == Init /\ [][Next]_vars

\* The event loop resumes every settled await, and a crypto service answers:
\* what it loads from the network is fetched under a deadline.
FairSpec ==
  /\ Spec
  /\ \A k \in Context : WF_vars(Advance(k))
  /\ WF_vars(Answers)

-----------------------------------------------------------------------------
(* Types *)

CheckOutcome ==
  [check : {"signature", "unsupported"}, status : {"success", "failure", "skipped"},
   problems : SUBSET Problem, dispatch : Nat, run : Nat]

Dispatch(d) ==
  /\ d.context \in Context
  /\ d.run \in Nat
  /\ DOMAIN d.results = positioned(plan[d.context].document)
  /\ \A p \in DOMAIN d.results : d.results[p] \in DispatchResult \cup {Pending}

\* Every context is at a check of its plan, and awaits a dispatch that exists.
TypeOK ==
  /\ plan \in [Context -> Plan]
  /\ at \in [Context -> Nat \ {0}]
  /\ awaiting \in [Context -> 0..Len(dispatches)]
  /\ run \in [Context -> Nat]
  /\ memo \in [Context -> 0..Len(dispatches)]
  /\ \A d \in 1..Len(dispatches) : Dispatch(dispatches[d])
  /\ outcomes \in [Context -> Seq(CheckOutcome)]
  /\ \A k \in Context : at[k] <= Len(plan[k].checks) + 1
  /\ \A k \in Context : awaiting[k] # 0 => at[k] <= Len(plan[k].checks)

-----------------------------------------------------------------------------
(* What the proof suite promises *)

\* The proof itself verified, whatever else the service rejected.
ProofOk(result) ==
  \/ result.kind = "verified"
  \/ result.kind = "rejected" /\ result.proofVerified

Outcomes(k) == {outcomes[k][i] : i \in 1..Len(outcomes[k])}
resultsOf(o) == dispatches[o.dispatch].results

\* "Every proof a registered suite can check must verify": the signature check
\* passes only on a settled verdict in which some proof verified and no proof
\* was found bad or threw, however late and in whatever order they answered.
SignatureSound ==
  \A k \in Context : \A o \in Outcomes(k) :
    o.check = "signature" /\ o.status = "success" =>
      /\ o.dispatch # 0
      /\ \E p \in DOMAIN resultsOf(o) : ProofOk(resultsOf(o)[p])
      /\ \A p \in DOMAIN resultsOf(o) :
           ProofOk(resultsOf(o)[p]) \/ isUnsupportedProof(resultsOf(o)[p])

\* "A verdict never outlives one run on a context": what a check of a run
\* reads was dispatched by this context (so under its challenge, domain and
\* clock) and in this very run.  "Each document is verified once per run": no
\* run asks the crypto services twice, so its two checks cannot be given
\* different answers.
VerdictOfThisRun ==
  /\ \A k \in Context : \A o \in Outcomes(k) :
       o.dispatch # 0 => /\ dispatches[o.dispatch].context = k
                         /\ dispatches[o.dispatch].run = o.run
  /\ \A d, e \in 1..Len(dispatches) :
       /\ dispatches[d].context = dispatches[e].context
       /\ dispatches[d].run = dispatches[e].run
       /\ dispatches[d].run # 0
       => d = e

\* No proof of a set goes unmentioned: once both checks of a run are through,
\* each proof object of the document verified or is named by a warning.
UncheckedProofsReported ==
  \A k \in Context : \A o, w \in Outcomes(k) :
    /\ o.check = "signature" /\ o.status = "success"
    /\ w.check = "unsupported" /\ w.run = o.run
    => \A p \in proofEntries(plan[k].document) :
         \/ p \notin DOMAIN resultsOf(o)
         \/ ProofOk(resultsOf(o)[p])
         \/ \E problem \in w.problems : problem.about = p

\* Every verification gets through its checks.
ChecksSettle == \A k \in Context : <>Finished(k)

=============================================================================
