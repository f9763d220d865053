--------------------------- MODULE CryptoDispatch ----------------------------
(***************************************************************************)
(* src/crypto-dispatch.ts: how the verdicts of a document's proofs become   *)
(* one verdict.  A problem is its type and the position of the proof its    *)
(* detail names (0 when the detail names none); labels and wording are      *)
(* left out.                                                                *)
(***************************************************************************)
EXTENDS Naturals, Sequences, FiniteSets

\* The problem types the dispatch tells apart.
ProblemType == {"PROOF_UNSUPPORTED", "OTHER"}
Problem     == [about : Nat, type : ProblemType]

\* A document: an array may hold entries that are not proof objects; a `proof`
\* that is not an array is one entry or none.
Document == [type : {"verifiableCredential", "verifiablePresentation"},
             array : BOOLEAN, entries : Seq({"proof", "other"})]

DispatchResult ==
  [kind : {"verified", "rejected", "no-service", "threw"},
   problems : SUBSET Problem, proofVerified : BOOLEAN]

Result(kind)                   == [kind |-> kind, problems |-> {}, proofVerified |-> FALSE]
Rejected(types, proofVerified) ==
  [kind |-> "rejected", problems |-> [about : {0}, type : types], proofVerified |-> proofVerified]

\* What dispatching one document to the crypto services may come to: no service
\* takes it, the one that does verifies or rejects it, or something throws.
dispatchProofVerification ==
  {Result("verified"), Result("no-service"), Result("threw")}
    \cup {Rejected(types, pv) : types \in SUBSET ProblemType, pv \in BOOLEAN}

proofEntries(document)     == {i \in 1..Len(document.entries) : document.entries[i] = "proof"}
documentHasProof(document) == proofEntries(document) # {}

\* Fault: a proof set is handed to the service as it is.
PositionedNever(document) == {0}

\* The proofs that are dispatched one at a time, by their position in the array;
\* {0} when the document is dispatched as it is.
positioned(document) ==
  IF document.array /\ \E i, j \in proofEntries(document) : i # j
  THEN proofEntries(document) ELSE {0}

isUnsupportedProof(result) ==
  \/ result.kind = "no-service"
  \/ /\ result.kind = "rejected"
     /\ result.problems # {}
     /\ \A p \in result.problems : p.type = "PROOF_UNSUPPORTED"

problemsOfProof(position, result) ==
  CASE result.kind = "rejected"   -> {[p EXCEPT !.about = position] : p \in result.problems}
    [] result.kind = "no-service" -> {[about |-> position, type |-> "PROOF_UNSUPPORTED"]}
    [] OTHER                      -> {}

\* The three groups a proof set's outcomes are sorted into, as positions.
unchecked(results) == {p \in DOMAIN results : isUnsupportedProof(results[p])}
rejected(results)  == {p \in DOMAIN results : results[p].kind = "rejected"} \ unchecked(results)
failing(results)   == {p \in rejected(results) : ~results[p].proofVerified}
verifiedButRejected(results) == rejected(results) \ failing(results)

ofKind(results, kind) == {p \in DOMAIN results : results[p].kind = kind}
first(P)              == CHOOSE p \in P : \A q \in P : p <= q

problemsOf(results, P) == UNION {problemsOfProof(p, results[p]) : p \in P}

RejectedWith(problems) ==
  [kind |-> "rejected", problems |-> problems, proofVerified |-> FALSE]

\* Fault: a verified proof settles the set, as in jsonld-signatures.
AnyVerifiedProof(results) ==
  IF ofKind(results, "verified") # {} THEN results[first(ofKind(results, "verified"))]
  ELSE IF verifiedButRejected(results) # {} THEN results[first(verifiedButRejected(results))]
  ELSE RejectedWith(problemsOf(results, failing(results) \cup unchecked(results)))

combineProofOutcomes(results) ==
  CASE failing(results) # {} ->
         RejectedWith(problemsOf(results, failing(results)))
    [] failing(results) = {} /\ ofKind(results, "threw") # {} ->
         results[first(ofKind(results, "threw"))]
    [] /\ failing(results) = {}
       /\ ofKind(results, "threw") = {}
       /\ verifiedButRejected(results) # {} ->
         results[first(verifiedButRejected(results))]
    [] /\ failing(results) = {}
       /\ ofKind(results, "threw") = {}
       /\ verifiedButRejected(results) = {}
       /\ ofKind(results, "verified") # {} ->
         results[first(ofKind(results, "verified"))]
    [] OTHER ->
         IF \A p \in unchecked(results) : results[p].kind = "no-service"
         THEN Result("no-service")
         ELSE RejectedWith(problemsOf(results, unchecked(results)))

\* The document's verdict: its single dispatch as it is, a proof set combined.
dispatchProofSetVerification(results) ==
  IF DOMAIN results = {0} THEN results[0] ELSE combineProofOutcomes(results)

=============================================================================
