---------------------- MODULE DataIntegrityCrypto_proofs ----------------------
(***************************************************************************)
(* Proofs about the default crypto service, for any document it may be      *)
(* asked about, any number of proofs, whatever goes wrong for each of them, *)
(* and any time that passes while they are verified.                        *)
(***************************************************************************)
EXTENDS DataIntegrityCrypto, FiniteSetTheorems, WellFoundedInduction, TLAPS

-----------------------------------------------------------------------------
(* How the answers about a document's proofs combine, for any number of proofs *)

\* The first of some positions is one of them.
LEMMA FirstIsOne ==
  ASSUME NEW P \in SUBSET Nat, P # {}
  PROVE  first(P) \in P
<1>1. IsWellFoundedOn(OpToRel(<, Nat), Nat)
  BY NatLessThanWellFounded
<1>2. \E x \in P : \A y \in P : ~(<<y, x>> \in OpToRel(<, Nat))
  BY <1>1, WFMin
<1>3. ASSUME NEW x \in Nat, NEW y \in Nat, y < x
      PROVE  <<y, x>> \in OpToRel(<, Nat)
  <2> DEFINE r == <<y, x>>
  <2>1. r \in Nat \X Nat /\ r[1] < r[2]
    BY <1>3
  <2> HIDE DEF r
  <2>2. r \in {ss \in Nat \X Nat : ss[1] < ss[2]}
    BY <2>1
  <2>3. r \in OpToRel(<, Nat)
    BY <2>2, Zenon DEF OpToRel
  <2> QED
    BY <2>3 DEF r
<1>4. \A x, y \in P : y < x => <<y, x>> \in OpToRel(<, Nat)
  BY <1>3
<1>5. \E x \in P : \A y \in P : ~(y < x)
  BY <1>2, <1>4
<1>6. \E x \in P : \A y \in P : x <= y
  BY <1>5
<1> QED
  BY <1>6 DEF first

\* The three groups, and those of a kind, are positions of the results.
LEMMA Groups ==
  ASSUME NEW results
  PROVE  /\ unchecked(results) \subseteq DOMAIN results
         /\ failing(results) \subseteq DOMAIN results
         /\ verifiedButRejected(results) \subseteq DOMAIN results
         /\ \A kind : ofKind(results, kind) \subseteq DOMAIN results
BY DEF unchecked, failing, verifiedButRejected, rejected, ofKind

\* What a set of verdicts combines to, one case at a time: the problems of the
\* failing proofs, else a verdict of the set, else what was left unchecked.
LEMMA Combined ==
  ASSUME NEW results
  PROVE  LET R == combineProofOutcomes(results) IN
         /\ failing(results) # {} => R = RejectedWith(problemsOf(results, failing(results)))
         /\ failing(results) = {} =>
              \/ /\ ofKind(results, "threw") # {}
                 /\ R = results[first(ofKind(results, "threw"))]
              \/ /\ ofKind(results, "threw") = {} /\ verifiedButRejected(results) # {}
                 /\ R = results[first(verifiedButRejected(results))]
              \/ /\ ofKind(results, "threw") = {} /\ ofKind(results, "verified") # {}
                 /\ R = results[first(ofKind(results, "verified"))]
              \/ R = Result("no-service")
              \/ R = RejectedWith(problemsOf(results, unchecked(results)))
BY Zenon DEF combineProofOutcomes

\* What the callers take for a good proof: verified, or rejected for something else.
Passes(result) ==
  result.kind = "verified" \/ (result.kind = "rejected" /\ result.proofVerified)

\* Some proof verified, and every other one verified too or is not supported.
Proven(results) ==
  /\ \E p \in DOMAIN results : Passes(results[p])
  /\ \A p \in DOMAIN results : Passes(results[p]) \/ isUnsupportedProof(results[p])

\* A document's verdict stands for verified proofs only when its proofs are:
\* no order of the answers and no mixture of them makes up for a bad proof.
LEMMA VerdictSound ==
  ASSUME NEW D \in SUBSET Nat, NEW results, DOMAIN results = D,
         \A p \in D : results[p].kind \in {"verified", "rejected", "no-service", "threw"},
         Passes(dispatchProofSetVerification(results))
  PROVE  Proven(results)
<1> DEFINE R == combineProofOutcomes(results)
<1>1. DOMAIN results = D /\ D \in SUBSET Nat
  OBVIOUS
<1>2. CASE D = {0}
  BY <1>1, <1>2 DEF dispatchProofSetVerification, Proven
<1>3. CASE D # {0}
  <2>1. Passes(R)
    BY <1>1, <1>3 DEF dispatchProofSetVerification
  <2>2. /\ \A P : ~Passes(RejectedWith(P))
        /\ ~Passes(Result("no-service"))
    BY DEF Passes, RejectedWith, Result
  <2>3. failing(results) = {}
    BY <2>1, <2>2, Combined
  <2>4. ASSUME ofKind(results, "threw") # {}
        PROVE  ~Passes(results[first(ofKind(results, "threw"))])
    <3>1. first(ofKind(results, "threw")) \in ofKind(results, "threw")
      BY <1>1, <2>4, FirstIsOne, Groups
    <3> QED
      BY <3>1 DEF ofKind, Passes
  <2>5. /\ ofKind(results, "threw") = {}
        /\ verifiedButRejected(results) # {} \/ ofKind(results, "verified") # {}
    BY <2>1, <2>2, <2>3, <2>4, Combined
  <2>6. ASSUME NEW p \in D
        PROVE  Passes(results[p]) \/ isUnsupportedProof(results[p])
    <3>1. results[p].kind \in {"verified", "rejected", "no-service", "threw"}
      OBVIOUS
    <3>2. results[p].kind # "threw"
      BY <1>1, <2>5 DEF ofKind
    <3>3. CASE results[p].kind = "rejected" /\ ~isUnsupportedProof(results[p])
      <4>1. p \in rejected(results)
        BY <1>1, <3>3 DEF rejected, unchecked
      <4>2. results[p].proofVerified
        BY <2>3, <4>1 DEF failing
      <4> QED
        BY <3>3, <4>2 DEF Passes
    <3> QED
      BY <3>1, <3>2, <3>3 DEF Passes, isUnsupportedProof
  <2>7. \E p \in D : Passes(results[p])
    <3>1. CASE verifiedButRejected(results) # {}
      <4>1. PICK p \in verifiedButRejected(results) : TRUE
        BY <3>1
      <4>2. p \in D /\ results[p].kind = "rejected" /\ results[p].proofVerified
        BY <1>1, <4>1 DEF verifiedButRejected, failing, rejected
      <4> QED
        BY <4>2 DEF Passes
    <3>2. CASE ofKind(results, "verified") # {}
      BY <1>1, <3>2 DEF ofKind, Passes
    <3> QED
      BY <2>5, <3>1, <3>2
  <2> QED
    BY <1>1, <2>6, <2>7 DEF Proven
<1> QED
  BY <1>2, <1>3

-----------------------------------------------------------------------------
(* What the service is asked, of a subject s and the proof at q.  Every *)
(* document that is dispatched has one proof.                           *)

credential(s) == s.type = "verifiableCredential"

\* The proof in the document dispatched for a position.
proofIndex(s, position) == IF position = 0 THEN first(proofEntries(s)) ELSE position

termOf(s, q) ==
  IF ~credential(s) /\ (s.expects # {} \/ isAuthenticationPurpose(s.proofs[q].purpose))
  THEN "authentication" ELSE "assertionMethod"

expectsOf(s) == IF credential(s) THEN {} ELSE s.expects

\* A supported suite checks the proof for the purpose of the call.
isChecked(s, q) == s.proofs[q].suite = "supported" /\ s.proofs[q].purpose = termOf(s, q)

\* Nothing is wrong with the proof, given what went wrong when it was looked at.
isGood(s, q, trouble) ==
  /\ isChecked(s, q)
  /\ s.proofs[q].fault = "none" /\ trouble = "none"
  /\ s.proofs[q].lacks \cap expectsOf(s) = {}

DateType == {"CREDENTIAL_EXPIRED", "CREDENTIAL_NOT_YET_VALID"}

TroubleType == {"none", "did-unresolved", "did-invalid", "context", "http", "http-issuer", "throws"}

AnswerProblem == [about : {0}, type : AnswerType, why : Why \cup {""}]

-----------------------------------------------------------------------------
(* The inductive invariant *)

\* A problem alleges what is the case: of a subject s, its proof at q and what
\* went wrong for it.
Blamed(s, x, q, trouble) ==
  LET proof == s.proofs[q] IN
  /\ x.type = "INVALID_SIGNATURE" =>
       \/ proof.fault = "forged" \/ trouble \in {"context", "did-invalid"}
       \/ proof.suite = "unloadable"
  /\ x.type = "VERIFICATION_METHOD_ERROR" => proof.fault = "method"
  /\ x.type = "ISSUER_PROOF_MISMATCH" => proof.fault = "controller"
  /\ x.type = "PROOF_PURPOSE_MISMATCH" => proof.lacks \cap s.expects # {}
  /\ x.type = "PROOF_UNSUPPORTED" /\ x.why = "suite" => proof.suite # "supported"
  /\ x.type = "PROOF_UNSUPPORTED" /\ x.why = "purpose" => proof.suite = "supported"

\* What an answer says at the instant n of the call: it passes only a good proof, leaves
\* unchecked only what it cannot check, and mentions dates only of a good proof
\* on a credential whose dates are wrong.
AnswerFact(s, n, a, q, trouble) ==
  /\ a.kind \in {"verified", "rejected"}
  /\ a.kind = "rejected" => a.problems # {}
  /\ a.kind = "verified" => a.problems = {}
  /\ a.problems \subseteq AnswerProblem
  /\ \A x \in a.problems : Blamed(s, x, q, trouble)
  /\ Passes(a) => isGood(s, q, trouble)
  /\ isUnsupportedProof(a) => ~isChecked(s, q)
  /\ (\E x \in a.problems : x.type \in DateType)
       <=> Passes(a) /\ credential(s) /\ datesAt(s, n) # "valid"
  /\ a.proofVerified => a.kind = "rejected" /\ \A x \in a.problems : x.type \in DateType

\* Every settled answer is right about its proof, and troubles are of proofs.
AnswersInv ==
  \A p \in positioned(subject) :
    answers[p] = Pending
      \/ AnswerFact(subject, now, answers[p], proofIndex(subject, p), troubles[proofIndex(subject, p)])

Verdict == dispatchProofSetVerification(answers)

\* The outcome of proof.signature was read off answers that had all settled.
SignatureInv ==
  /\ signature.status \in {"", "success", "failure"}
  /\ signature.status # "" => \A p \in positioned(subject) : answers[p] # Pending
  /\ signature.status = "success" => Passes(Verdict)
  /\ signature.status = "failure" => ~Passes(Verdict) /\ signature.problems = Verdict.problems
  /\ signature.status # "failure" => signature.problems = {}

ValidityInv ==
  /\ validity \in {"", "success", "failure"}
  /\ validity # "" =>
       /\ isCredential /\ signature.status = "success"
       /\ validity = "success" <=> datesAt(subject, now) = "valid"

Inv ==
  /\ subject \in Subjects /\ clock \in Time /\ now \in 0..clock
  /\ DOMAIN troubles = DOMAIN subject.proofs
  /\ DOMAIN answers = positioned(subject)
  /\ answers = [p \in positioned(subject) |-> answers[p]]
  /\ AnswersInv
  /\ SignatureInv
  /\ ValidityInv

-----------------------------------------------------------------------------
(* The documents and what may go wrong *)

LEMMA SubjectTyped ==
  ASSUME subject \in Subjects
  PROVE  /\ subject.type \in {"verifiableCredential", "verifiablePresentation"}
         /\ subject.proofs \in Seq(Proof) /\ Len(subject.entries) \in Nat
         /\ Len(subject.proofs) = Len(subject.entries)
         /\ subject.entries \in Seq({"proof", "other"})
         /\ subject.expects \in {{}, {"challenge"}, {"challenge", "domain"}}
         /\ subject.array \in BOOLEAN
         /\ proofEntries(subject) # {}
         /\ ~subject.array => Len(subject.entries) <= 1
         /\ credential(subject) => subject.expects = {}
BY SubjectsAssumption DEF Subject, documentHasProof, credential

\* Each position stands for one proof of the document, and no two for the same.
LEMMA OneProofEach ==
  ASSUME subject \in Subjects, NEW p \in positioned(subject)
  PROVE  LET q == proofIndex(subject, p) IN
         /\ q \in proofEntries(subject) /\ q \in 1..Len(subject.proofs)
         /\ subject.proofs[q] \in Proof
         /\ proofsAt(p) = {q}
         /\ \A r \in positioned(subject) : proofIndex(subject, r) = q => r = p
<1> DEFINE E == proofEntries(subject)
<1>1. E \subseteq 1..Len(subject.proofs) /\ E \in SUBSET Nat /\ E # {}
  BY SubjectTyped DEF proofEntries
<1>2. \A q \in E : subject.proofs[q] \in Proof
  BY <1>1, SubjectTyped
<1>3. CASE subject.array /\ \E i, j \in E : i # j
  <2>1. positioned(subject) = E /\ 0 \notin E
    BY <1>1, <1>3 DEF positioned
  <2>2. \A r \in E : proofIndex(subject, r) = r
    BY <2>1 DEF proofIndex
  <2>3. p \in E /\ proofIndex(subject, p) = p /\ proofsAt(p) = {p}
    BY <2>1, <2>2 DEF proofsAt
  <2> HIDE DEF E
  <2> QED
    BY <1>1, <1>2, <2>1, <2>2, <2>3 DEF E
<1>4. CASE ~(subject.array /\ \E i, j \in E : i # j)
  <2>1. positioned(subject) = {0} /\ p = 0
    BY <1>4 DEF positioned
  <2>2. \A i, j \in E : i = j
    <3>1. CASE subject.array
      BY <1>4, <3>1
    <3>2. CASE ~subject.array
      BY <3>2, SubjectTyped DEF proofEntries
    <3> QED
      BY <3>1, <3>2
  <2>3. proofIndex(subject, 0) = first(E) /\ first(E) \in E
    BY <1>1, FirstIsOne DEF proofIndex
  <2>4. E = {first(E)}
    BY <2>2, <2>3
  <2>5. proofsAt(0) = E
    BY DEF proofsAt
  <2> QED
    BY <1>1, <1>2, <2>1, <2>3, <2>4, <2>5
<1> QED
  BY <1>3, <1>4

LEMMA PositionsTyped ==
  ASSUME subject \in Subjects
  PROVE  positioned(subject) \in SUBSET Nat
<1>1. proofEntries(subject) \in SUBSET Nat
  BY SubjectTyped DEF proofEntries
<1> QED
  BY <1>1 DEF positioned

\* Every proof of the document has a position.
LEMMA PositionOf ==
  ASSUME subject \in Subjects, NEW q \in proofEntries(subject)
  PROVE  \E p \in positioned(subject) : proofIndex(subject, p) = q
<1> DEFINE E == proofEntries(subject)
<1>1. E \in SUBSET Nat /\ 0 \notin E
  BY SubjectTyped DEF proofEntries
<1>2. CASE positioned(subject) = E
  BY <1>1, <1>2 DEF proofIndex
<1>3. CASE positioned(subject) = {0}
  <2>1. proofsAt(0) = E
    BY DEF proofsAt
  <2>2. proofsAt(0) = {proofIndex(subject, 0)}
    BY <1>3, OneProofEach
  <2> QED
    BY <1>3, <2>1, <2>2
<1> QED
  BY <1>2, <1>3 DEF positioned

LEMMA TroubleTyped == Trouble \subseteq TroubleType
<1>1. \A reply : fetchDidWebDocument(reply) \in {"notFound", "loaded", "internalError"}
  BY Zenon DEF fetchDidWebDocument
<1>2. \A reply : didWebvhLog(reply) \in {{"loaded", "other"}, {"notFound"}, {"internalError"}}
  BY Zenon DEF didWebvhLog
<1>3. ASSUME NEW method \in DidMethod, NEW reply \in Reply
      PROVE  resolveDid(method, reply) \subseteq {"loaded", "notFound", "internalError", "other"}
  <2>1. CASE method = "web"
    <3>1. resolveDid(method, reply) = {fetchDidWebDocument(reply)}
      BY <2>1 DEF resolveDid
    <3> QED
      BY <1>1, <3>1
  <2>2. CASE method = "webvh"
    <3>1. resolveDid(method, reply) = didWebvhLog(reply)
      BY <2>2 DEF resolveDid
    <3> QED
      BY <1>2, <3>1
  <2>3. CASE method = "key"
    <3>1. resolveDid(method, reply) = {"loaded"}
      BY <2>3 DEF resolveDid
    <3> QED
      BY <3>1
  <2> QED
    BY <2>1, <2>2, <2>3 DEF DidMethod
<1>4. \A outcome \in {"loaded", "notFound", "internalError", "other"} :
        fromDid[outcome] \in TroubleType
  BY DEF fromDid, TroubleType
<1> DEFINE did == UNION {{fromDid[outcome] : outcome \in resolveDid(method, reply)} :
                           method \in DidMethod, reply \in Reply}
<1>5. did \subseteq TroubleType
  BY <1>3, <1>4
<1> DEFINE remote ==
             {IF loadRemoteDocument(reply) = "loaded" THEN "none" ELSE "context" : reply \in Reply}
<1>6. remote \subseteq TroubleType
  BY DEF TroubleType
<1>7. {"http", "http-issuer", "throws"} \subseteq TroubleType
  BY DEF TroubleType
<1>8. Trouble = did \cup remote \cup {"http", "http-issuer", "throws"}
  BY DEF Trouble
<1> HIDE DEF did, remote
<1> QED
  BY <1>5, <1>6, <1>7, <1>8

\* The purpose a document with the one proof q is verified for.
LEMMA PurposeIs ==
  ASSUME NEW q
  PROVE  purposeFor({q}) = [term |-> termOf(subject, q), expects |-> expectsOf(subject)]
<1>1. CASE isCredential
  BY <1>1 DEF purposeFor, isCredential, credential, termOf, expectsOf
<1>2. CASE ~isCredential
  <2>1. purposeFor({q}) = getPresentationPurpose({q})
    BY <1>2 DEF purposeFor
  <2>2. CASE subject.expects # {}
    <3>1. getPresentationPurpose({q}) = [term |-> "authentication", expects |-> subject.expects]
      BY <2>2, Zenon DEF getPresentationPurpose
    <3> QED
      BY <1>2, <2>1, <2>2, <3>1 DEF isCredential, credential, termOf, expectsOf
  <2>3. CASE subject.expects = {} /\ isAuthenticationPurpose(subject.proofs[q].purpose)
    <3>1. \E p \in {q} : isAuthenticationPurpose(subject.proofs[p].purpose)
      BY <2>3
    <3>2. getPresentationPurpose({q}) = [term |-> "authentication", expects |-> {}]
      BY <2>3, <3>1, Zenon DEF getPresentationPurpose
    <3> QED
      BY <1>2, <2>1, <2>3, <3>2 DEF isCredential, credential, termOf, expectsOf
  <2>4. CASE subject.expects = {} /\ ~isAuthenticationPurpose(subject.proofs[q].purpose)
    <3>1. ~(\E p \in {q} : isAuthenticationPurpose(subject.proofs[p].purpose))
      BY <2>4
    <3>2. getPresentationPurpose({q}) = [term |-> "assertionMethod", expects |-> {}]
      BY <2>4, <3>1, Zenon DEF getPresentationPurpose
    <3> QED
      BY <1>2, <2>1, <2>4, <3>2 DEF isCredential, credential, termOf, expectsOf
  <2> QED
    BY <2>2, <2>3, <2>4
<1> QED
  BY <1>1, <1>2

-----------------------------------------------------------------------------
(* What the library reports of one proof *)

\* What may be found wrong with a proof that is checked.
Wrongs == (TroubleType \cup Fault \cup {"challenge", "domain"}) \ {"none"}

\* A kind of error is there for what the proof lacks, or what went wrong for it.
hasCause(s, q, trouble, kind) ==
  \/ kind = trouble
  \/ kind = s.proofs[q].fault
  \/ kind \in {"challenge", "domain"} /\ s.proofs[q].lacks \cap s.expects # {}

LEMMA WrongWith ==
  ASSUME NEW q, NEW t \in TroubleType, NEW trouble, trouble[q] = t,
         subject.proofs[q] \in Proof
  PROVE  LET kind == wrongWith(q, purposeFor({q}), trouble)
             proof == subject.proofs[q]
         IN \/ /\ kind = "none" /\ t = "none" /\ proof.fault = "none"
               /\ proof.lacks \cap expectsOf(subject) = {}
            \/ kind \in Wrongs /\ hasCause(subject, q, t, kind)
<1> DEFINE kind   == wrongWith(q, purposeFor({q}), trouble)
           proof  == subject.proofs[q]
           misses == proof.lacks \cap expectsOf(subject)
<1>1. purposeFor({q}).expects = expectsOf(subject)
  <2>1. purposeFor({q}) = [term |-> termOf(subject, q), expects |-> expectsOf(subject)]
    BY PurposeIs
  <2> QED
    BY <2>1
<1>2. proof.fault \in Fault /\ proof.lacks \in SUBSET {"challenge", "domain"}
  BY DEF Proof
<1>3. misses \subseteq proof.lacks \cap subject.expects
  BY DEF expectsOf
<1>4. CASE t # "none"
  <2>1. kind = t
    BY <1>4, Zenon DEF wrongWith
  <2> HIDE DEF kind
  <2> QED
    BY <1>4, <2>1 DEF Wrongs, hasCause, kind
<1>5. CASE t = "none" /\ proof.fault # "none"
  <2>1. kind = proof.fault
    BY <1>5, Zenon DEF wrongWith
  <2> HIDE DEF kind
  <2> QED
    BY <1>2, <1>5, <2>1 DEF Wrongs, hasCause, kind
<1>6. CASE t = "none" /\ proof.fault = "none" /\ misses # {}
  <2>1. kind = IF "challenge" \in misses THEN "challenge" ELSE "domain"
    BY <1>1, <1>6, Zenon DEF wrongWith
  <2> HIDE DEF kind
  <2>2. kind \in {"challenge", "domain"} /\ proof.lacks \cap subject.expects # {}
    BY <1>3, <1>6, <2>1
  <2> QED
    BY <2>2 DEF Wrongs, TroubleType, Fault, hasCause, kind
<1>7. CASE t = "none" /\ proof.fault = "none" /\ misses = {}
  <2>1. kind = "none"
    BY <1>1, <1>7, Zenon DEF wrongWith
  <2> HIDE DEF kind
  <2> QED
    BY <1>7, <2>1 DEF kind
<1> QED
  BY <1>4, <1>5, <1>6, <1>7

\* The library's error about a document with one proof.
LEMMA LibrarySays ==
  ASSUME NEW q, NEW t \in TroubleType, NEW trouble, trouble[q] = t, subject.proofs[q] \in Proof
  PROVE  LET errors == libraryErrors({q}, trouble) IN
         \/ errors = NoMatch /\ ~isChecked(subject, q)
         \/ errors = <<Sub("context")>> /\ subject.proofs[q].suite = "unloadable"
         \/ errors = <<>> /\ isGood(subject, q, t)
         \/ \E kind \in Wrongs : /\ hasCause(subject, q, t, kind)
                                 /\ errors = [p \in {q} |-> Sub(kind)]
                                 /\ isChecked(subject, q)
<1> DEFINE proof  == subject.proofs[q]
           errors == libraryErrors({q}, trouble)
           kind   == wrongWith(q, purposeFor({q}), trouble)
           M      == matched({q}, purposeFor({q}))
           unloadable == \E p \in ofPurpose({q}, purposeFor({q})) :
                            subject.proofs[p].suite = "unloadable"
<1>1. purposeFor({q}).term = termOf(subject, q)
  <2>1. purposeFor({q}) = [term |-> termOf(subject, q), expects |-> expectsOf(subject)]
    BY PurposeIs
  <2> QED
    BY <2>1
<1>2. ofPurpose({q}, purposeFor({q})) = IF proof.purpose = termOf(subject, q) THEN {q} ELSE {}
  BY <1>1 DEF ofPurpose
<1>3. M = IF isChecked(subject, q) THEN {q} ELSE {}
  BY <1>2 DEF matched, isChecked
<1>4. unloadable <=> proof.purpose = termOf(subject, q) /\ proof.suite = "unloadable"
  BY <1>2
<1>5. /\ unloadable => errors = <<Sub("context")>>
      /\ ~unloadable /\ M = {} => errors = NoMatch
      /\ ~unloadable /\ M # {} /\ (\E p \in M : wrongWith(p, purposeFor({q}), trouble) = "none") =>
           errors = <<>>
      /\ ~unloadable /\ M # {} /\ ~(\E p \in M : wrongWith(p, purposeFor({q}), trouble) = "none") =>
           errors = [p \in M |-> Sub(wrongWith(p, purposeFor({q}), trouble))]
  BY Zenon DEF libraryErrors
<1> HIDE DEF errors, unloadable, M
<1>6. CASE unloadable
  BY <1>4, <1>5, <1>6 DEF errors
<1>7. CASE ~unloadable /\ M = {}
  BY <1>3, <1>5, <1>7 DEF errors
<1>8. CASE ~unloadable /\ M # {}
  <2>1. M = {q} /\ isChecked(subject, q)
    BY <1>3, <1>8
  <2>2. CASE kind = "none"
    <3>1. errors = <<>>
      BY <1>5, <1>8, <2>1, <2>2
    <3>2. isGood(subject, q, t)
      <4>1. "none" \notin Wrongs
        BY DEF Wrongs
      <4> HIDE DEF kind
      <4> QED
        BY <2>1, <2>2, <4>1, WrongWith DEF isGood, kind
    <3> QED
      BY <3>1, <3>2 DEF errors
  <2>3. CASE kind # "none"
    <3>1. errors = [p \in {q} |-> Sub(wrongWith(p, purposeFor({q}), trouble))]
      BY <1>5, <1>8, <2>1, <2>3
    <3>2. errors = [p \in {q} |-> Sub(kind)]
      BY <3>1
    <3>3. kind \in Wrongs /\ hasCause(subject, q, t, kind)
      BY <2>3, WrongWith
    <3> HIDE DEF kind
    <3> QED
      BY <2>1, <3>2, <3>3 DEF errors
  <2> QED
    BY <2>2, <2>3
<1> QED
  BY <1>6, <1>7, <1>8

-----------------------------------------------------------------------------
(* How the error is classified *)

LEMMA FirstIs ==
  ASSUME NEW P \in SUBSET Nat, NEW i \in P, \A j \in P : i <= j
  PROVE  first(P) = i
<1>1. first(P) \in P /\ \A j \in P : first(P) <= j
  BY DEF first
<1> DEFINE n == first(P)
<1> HIDE DEF n
<1>2. n \in Nat /\ i \in Nat /\ n <= i /\ i <= n
  BY <1>1 DEF n
<1>3. n = i
  BY <1>2
<1> QED
  BY <1>3 DEF n

\* The first rule that holds decides.
LEMMA RuleDecides ==
  ASSUME NEW errors, NEW forCredential \in BOOLEAN, NEW n \in 1..8,
         rules(errors, forCredential)[n].holds,
         \A j \in 1..(n - 1) : ~rules(errors, forCredential)[j].holds
  PROVE  classifySignatureError(errors, forCredential) = rules(errors, forCredential)[n].problems
<1> DEFINE R == rules(errors, forCredential)
           P == {i \in DOMAIN R : R[i].holds}
<1>1. DOMAIN R = 1..8
  BY DEF rules
<1> HIDE DEF R
<1>2. P \in SUBSET Nat /\ n \in P /\ \A j \in P : n <= j
  BY <1>1 DEF R
<1>3. first(P) = n
  BY <1>2, FirstIs
<1>4. classifySignatureError(errors, forCredential) = R[first(P)].problems
  BY DEF classifySignatureError, R
<1> QED
  BY <1>3, <1>4 DEF R

\* The rules, of an error with a single cause.
LEMMA RulesOfOne ==
  ASSUME NEW at, NEW kind \in Wrongs, NEW forCredential \in BOOLEAN,
         NEW errors, errors = [p \in {at} |-> Sub(kind)]
  PROVE  LET R == rules(errors, forCredential) IN
         /\ R[1].holds <=> kind = "jsonld"
         /\ R[1].problems = {"PARSING_ERROR"}
         /\ R[2].holds <=> kind \in {"http", "http-issuer"}
         /\ R[2].problems \in {{"HTTP_ERROR"}, {"DID_WEB_UNRESOLVED"}}
         /\ R[3].holds <=> kind = "did-unresolved"
         /\ R[3].problems = {"DID_WEB_UNRESOLVED"}
         /\ R[4].holds <=> kind = "controller"
         /\ R[4].problems = {"ISSUER_PROOF_MISMATCH"}
         /\ R[5].holds <=> kind = "no-driver"
         /\ R[5].problems = {"VERIFICATION_METHOD_UNRESOLVED"}
         /\ R[6].holds <=> kind = "method"
         /\ kind = "method" => R[6].problems = {"VERIFICATION_METHOD_ERROR"}
         /\ R[7].holds <=> kind \in {"challenge", "domain"}
         /\ R[7].problems = {"PROOF_PURPOSE_MISMATCH"}
         /\ R[8].holds
         /\ R[8].problems = {"INVALID_SIGNATURE"}
<1> DEFINE kinds == {errors[i].kind : i \in DOMAIN errors}
           https == {i \in DOMAIN errors : isHttp(errors[i])}
           R     == rules(errors, forCredential)
<1>1. DOMAIN errors = {at} /\ errors[at] = Sub(kind)
  OBVIOUS
<1>2. Sub(kind).kind = kind /\ (Sub(kind).wrapped <=> kind \in {"controller", "challenge", "domain"})
  BY DEF Sub
<1>3. kinds = {kind}
  BY <1>1, <1>2
<1>4. (https # {}) <=> kind \in {"http", "http-issuer"}
  BY <1>1, <1>2 DEF isHttp
<1>5. (\E i \in DOMAIN errors : isJsonLd(errors[i])) <=> kind = "jsonld"
  BY <1>1, <1>2 DEF isJsonLd
<1> DEFINE Rule(holds, problems) == [holds |-> holds, problems |-> problems]
           ofIssuer == https # {} /\ errors[first(https)].kind = "http-issuer"
<1>6. R = << Rule(\E i \in DOMAIN errors : isJsonLd(errors[i]), {"PARSING_ERROR"}),
             Rule(https # {}, IF forCredential /\ ofIssuer THEN {"DID_WEB_UNRESOLVED"}
                              ELSE {"HTTP_ERROR"}),
             Rule("did-unresolved" \in kinds, {"DID_WEB_UNRESOLVED"}),
             Rule("controller" \in kinds, {"ISSUER_PROOF_MISMATCH"}),
             Rule("no-driver" \in kinds, {"VERIFICATION_METHOD_UNRESOLVED"}),
             Rule("method" \in kinds,
                  {"VERIFICATION_METHOD_ERROR"}
                    \cup IF kinds # {"method"} THEN {"INVALID_SIGNATURE"} ELSE {}),
             Rule({"challenge", "domain"} \cap kinds # {}, {"PROOF_PURPOSE_MISMATCH"}),
             Rule(TRUE, {"INVALID_SIGNATURE"}) >>
  BY DEF rules
<1> HIDE DEF kinds, https, R, ofIssuer
<1>7. R[1].holds <=> kind = "jsonld"
  BY <1>5, <1>6
<1>8. R[2].holds <=> kind \in {"http", "http-issuer"}
  BY <1>4, <1>6
<1>9. R[2].problems \in {{"HTTP_ERROR"}, {"DID_WEB_UNRESOLVED"}}
  BY <1>6
<1>10. /\ R[3].holds <=> kind = "did-unresolved"
       /\ R[4].holds <=> kind = "controller"
       /\ R[5].holds <=> kind = "no-driver"
       /\ R[6].holds <=> kind = "method"
       /\ R[7].holds <=> kind \in {"challenge", "domain"}
       /\ R[8].holds
  BY <1>3, <1>6
<1>11. /\ R[1].problems = {"PARSING_ERROR"} /\ R[3].problems = {"DID_WEB_UNRESOLVED"}
       /\ R[4].problems = {"ISSUER_PROOF_MISMATCH"}
       /\ R[5].problems = {"VERIFICATION_METHOD_UNRESOLVED"}
       /\ R[7].problems = {"PROOF_PURPOSE_MISMATCH"} /\ R[8].problems = {"INVALID_SIGNATURE"}
  BY <1>6
<1>12. kind = "method" => R[6].problems = {"VERIFICATION_METHOD_ERROR"}
  BY <1>3, <1>6
<1> QED
  BY <1>7, <1>8, <1>9, <1>10, <1>11, <1>12 DEF R

\* The problem an error with a single cause is classified as names that cause.
Names(type, kind) ==
  /\ type \in AnswerType \ ({"PROOF_UNSUPPORTED"} \cup DateType)
  /\ type = "INVALID_SIGNATURE" => kind \in {"forged", "context", "did-invalid", "throws"}
  /\ type = "VERIFICATION_METHOD_ERROR" => kind = "method"
  /\ type = "ISSUER_PROOF_MISMATCH" => kind = "controller"
  /\ type = "PROOF_PURPOSE_MISMATCH" => kind \in {"challenge", "domain"}

LEMMA ClassifiedOne ==
  ASSUME NEW at, NEW kind \in Wrongs, NEW forCredential \in BOOLEAN,
         NEW errors, errors = [p \in {at} |-> Sub(kind)]
  PROVE  \E type : /\ classifySignatureError(errors, forCredential) = {type}
                   /\ Names(type, kind)
<1> DEFINE R == rules(errors, forCredential)
           C == classifySignatureError(errors, forCredential)
<1>1. /\ R[1].holds <=> kind = "jsonld"
      /\ R[1].problems = {"PARSING_ERROR"}
      /\ R[2].holds <=> kind \in {"http", "http-issuer"}
      /\ R[2].problems \in {{"HTTP_ERROR"}, {"DID_WEB_UNRESOLVED"}}
      /\ R[3].holds <=> kind = "did-unresolved"
      /\ R[3].problems = {"DID_WEB_UNRESOLVED"}
      /\ R[4].holds <=> kind = "controller"
      /\ R[4].problems = {"ISSUER_PROOF_MISMATCH"}
      /\ R[5].holds <=> kind = "no-driver"
      /\ R[5].problems = {"VERIFICATION_METHOD_UNRESOLVED"}
      /\ R[6].holds <=> kind = "method"
      /\ kind = "method" => R[6].problems = {"VERIFICATION_METHOD_ERROR"}
      /\ R[7].holds <=> kind \in {"challenge", "domain"}
      /\ R[7].problems = {"PROOF_PURPOSE_MISMATCH"}
      /\ R[8].holds
      /\ R[8].problems = {"INVALID_SIGNATURE"}
  BY RulesOfOne
<1>2. ASSUME NEW n \in 1..8, R[n].holds, \A j \in 1..(n - 1) : ~R[j].holds
      PROVE  C = R[n].problems
  BY <1>2, RuleDecides
<1> HIDE DEF R, C
<1>3. CASE kind = "jsonld"
  <2>1. C = {"PARSING_ERROR"}
    BY <1>1, <1>2, <1>3
  <2> QED
    BY <1>3, <2>1 DEF Names, AnswerType, DateType, C
<1>4. CASE kind \in {"http", "http-issuer"}
  <2>1. C = R[2].problems
    <3>1. \A j \in 1..(2 - 1) : ~R[j].holds
      BY <1>1, <1>4
    <3> QED
      BY <1>1, <1>2, <1>4, <3>1
  <2>2. CASE C = {"HTTP_ERROR"}
    BY <1>4, <2>2 DEF Names, AnswerType, DateType, C
  <2>3. CASE C = {"DID_WEB_UNRESOLVED"}
    BY <1>4, <2>3 DEF Names, AnswerType, DateType, C
  <2> QED
    BY <1>1, <2>1, <2>2, <2>3
<1>5. CASE kind = "did-unresolved"
  <2>1. C = {"DID_WEB_UNRESOLVED"}
    <3>1. \A j \in 1..(3 - 1) : ~R[j].holds
      BY <1>1, <1>5
    <3> QED
      BY <1>1, <1>2, <1>5, <3>1
  <2> QED
    BY <1>5, <2>1 DEF Names, AnswerType, DateType, C
<1>6. CASE kind = "controller"
  <2>1. C = {"ISSUER_PROOF_MISMATCH"}
    <3>1. \A j \in 1..(4 - 1) : ~R[j].holds
      BY <1>1, <1>6
    <3> QED
      BY <1>1, <1>2, <1>6, <3>1
  <2> QED
    BY <1>6, <2>1 DEF Names, AnswerType, DateType, C
<1>7. CASE kind = "no-driver"
  <2>1. C = {"VERIFICATION_METHOD_UNRESOLVED"}
    <3>1. \A j \in 1..(5 - 1) : ~R[j].holds
      BY <1>1, <1>7
    <3> QED
      BY <1>1, <1>2, <1>7, <3>1
  <2> QED
    BY <1>7, <2>1 DEF Names, AnswerType, DateType, C
<1>8. CASE kind = "method"
  <2>1. C = {"VERIFICATION_METHOD_ERROR"}
    <3>1. \A j \in 1..(6 - 1) : ~R[j].holds
      BY <1>1, <1>8
    <3> QED
      BY <1>1, <1>2, <1>8, <3>1
  <2> QED
    BY <1>8, <2>1 DEF Names, AnswerType, DateType, C
<1>9. CASE kind \in {"challenge", "domain"}
  <2>1. C = {"PROOF_PURPOSE_MISMATCH"}
    <3>1. \A j \in 1..(7 - 1) : ~R[j].holds
      BY <1>1, <1>9
    <3> QED
      BY <1>1, <1>2, <1>9, <3>1
  <2> QED
    BY <1>9, <2>1 DEF Names, AnswerType, DateType, C
<1>10. CASE kind \in {"forged", "context", "did-invalid", "throws"}
  <2>1. C = {"INVALID_SIGNATURE"}
    <3>1. \A j \in 1..(8 - 1) : ~R[j].holds
      BY <1>1, <1>10
    <3> QED
      BY <1>1, <1>2, <3>1
  <2> QED
    BY <1>10, <2>1 DEF Names, AnswerType, DateType, C
<1> QED
  BY <1>3, <1>4, <1>5, <1>6, <1>7, <1>8, <1>9, <1>10 DEF Wrongs, TroubleType, Fault

-----------------------------------------------------------------------------
(* What the service answers *)

LEMMA DatesSay ==
  ASSUME NEW s, NEW t
  PROVE  datesAt(s, t) \in {"valid", "expired", "not-yet-valid"}
BY Zenon DEF datesAt

\* One problem about the document.
LEMMA ClassifiedIs ==
  ASSUME NEW type \in AnswerType
  PROVE  LET x == [about |-> 0, type |-> type, why |-> ""] IN
         Classified({type}) = {x} /\ x \in AnswerProblem /\ x.type = type
<1> DEFINE x == [about |-> 0, type |-> type, why |-> ""]
<1>1. x \in Classified({type}) /\ x \in AnswerProblem /\ x.type = type
  BY DEF Classified, AnswerProblem
<1>2. ASSUME NEW y \in Classified({type})
      PROVE  y = x
  <2>1. y \in [about : {0}, type : {type}, why : {""}]
    BY DEF Classified
  <2>2. y.about = 0 /\ y.type = type /\ y.why = ""
    BY <2>1
  <2> QED
    BY <2>1, <2>2
<1> QED
  BY <1>1, <1>2

\* A refusal for one problem that says nothing of dates or of unchecked proofs.
LEMMA RefusalTrue ==
  ASSUME NEW s, NEW n, NEW q, NEW t, NEW type \in AnswerType \ ({"PROOF_UNSUPPORTED"} \cup DateType),
         \A x \in AnswerProblem : x.type = type => Blamed(s, x, q, t)
  PROVE  AnswerFact(s, n, Refused(Classified({type}), FALSE), q, t)
<1> DEFINE x == [about |-> 0, type |-> type, why |-> ""]
           a == Refused(Classified({type}), FALSE)
<1>1. Classified({type}) = {x} /\ x \in AnswerProblem /\ x.type = type
  BY ClassifiedIs
<1> HIDE DEF x
<1>2. a.kind = "rejected" /\ a.problems = {x} /\ a.proofVerified = FALSE
  BY <1>1 DEF Refused
<1> HIDE DEF a
<1>3. ~Passes(a) /\ ~isUnsupportedProof(a)
  BY <1>1, <1>2 DEF Passes, isUnsupportedProof
<1> QED
  BY <1>1, <1>2, <1>3 DEF AnswerFact, a

LEMMA NoMatchTrue ==
  ASSUME NEW q, NEW t, NEW n, NEW asked \in anySuiteMatches({q}), q \in Nat,
         subject.proofs[q] \in Proof, ~isChecked(subject, q)
  PROVE  AnswerFact(subject, n, Refused({unsupportedProofProblem({q}, asked)}, FALSE), q, t)
<1> DEFINE x    == unsupportedProofProblem({q}, asked)
           a    == Refused({x}, FALSE)
           only == first({q})
           why  == CASE Cardinality({q}) > 1 \/ asked = "threw" -> "general"
                     [] Cardinality({q}) = 1 /\ asked = "none"  -> "suite"
                     [] Cardinality({q}) = 1 /\ asked = "match"
                        /\ subject.proofs[only].purpose # purposeFor({q}).term -> "purpose"
                     [] OTHER -> "general"
           suite == subject.proofs[q].suite
<1>1. only = q
  BY FirstIs
<1>2. suite \in {"supported", "unsupported", "unloadable"}
  BY DEF Proof
<1>3. /\ asked = "none" => suite = "unsupported"
      /\ asked = "match" => suite = "supported"
      /\ asked \in {"none", "match", "threw"}
  <2>1. CASE suite = "supported"
    <3>1. anySuiteMatches({q}) = {"match"}
      BY <1>1, <2>1 DEF anySuiteMatches
    <3> QED
      BY <2>1, <3>1
  <2>2. CASE suite = "unsupported"
    <3>1. anySuiteMatches({q}) = {"none", "threw"}
      BY <1>1, <2>2 DEF anySuiteMatches
    <3> QED
      BY <2>2, <3>1
  <2>3. CASE suite = "unloadable"
    <3>1. anySuiteMatches({q}) = {"threw"}
      BY <1>1, <2>3 DEF anySuiteMatches
    <3> QED
      BY <3>1
  <2> QED
    BY <1>2, <2>1, <2>2, <2>3
<1>4. Cardinality({q}) = 1
  BY FS_Singleton
<1>5. why \in Why /\ (why = "suite" => asked = "none") /\ (why = "purpose" => asked = "match")
  <2>1. CASE asked = "threw"
    <3>1. why = "general"
      BY <2>1, Zenon
    <3> HIDE DEF why
    <3> QED
      BY <3>1 DEF Why
  <2>2. CASE asked = "none"
    <3>1. why \in {"general", "suite"}
      BY <2>2, Zenon
    <3> HIDE DEF why
    <3> QED
      BY <2>2, <3>1 DEF Why
  <2>3. CASE asked = "match"
    <3>1. why \in {"general", "purpose"}
      BY <2>3, Zenon
    <3> HIDE DEF why
    <3> QED
      BY <2>3, <3>1 DEF Why
  <2> HIDE DEF why
  <2> QED
    BY <1>3, <2>1, <2>2, <2>3
<1>6. x = [about |-> 0, type |-> "PROOF_UNSUPPORTED", why |-> why]
  BY DEF unsupportedProofProblem
<1> HIDE DEF why, x
<1>7. x \in AnswerProblem /\ x.type = "PROOF_UNSUPPORTED" /\ x.why = why
  BY <1>5, <1>6 DEF AnswerProblem, AnswerType
<1>8. Blamed(subject, x, q, t)
  BY <1>3, <1>5, <1>7 DEF Blamed
<1>9. a.kind = "rejected" /\ a.problems = {x} /\ a.proofVerified = FALSE
  BY DEF Refused
<1> HIDE DEF a
<1>10. ~Passes(a)
  BY <1>9 DEF Passes
<1> QED
  BY <1>7, <1>8, <1>9, <1>10 DEF AnswerFact, DateType, a, x

\* A good proof is answered for with "verified", or with what is wrong with the dates.
LEMMA GoodTrue ==
  ASSUME NEW s, NEW n, NEW q, NEW t, isGood(s, q, t)
  PROVE  LET dates == IF credential(s) THEN datesAt(s, n) ELSE "valid" IN
         /\ dates = "valid" => AnswerFact(s, n, Result("verified"), q, t)
         /\ dates # "valid" =>
              AnswerFact(s, n, Refused(Classified({dateRejectionProblem(dates)}), TRUE), q, t)
<1> DEFINE dates == IF credential(s) THEN datesAt(s, n) ELSE "valid"
<1>1. ASSUME dates = "valid"
      PROVE  AnswerFact(s, n, Result("verified"), q, t)
  <2> DEFINE a == Result("verified")
  <2>1. a.kind = "verified" /\ a.problems = {} /\ a.proofVerified = FALSE
    BY DEF Result
  <2> HIDE DEF a
  <2>2. Passes(a) /\ ~isUnsupportedProof(a)
    BY <2>1 DEF Passes, isUnsupportedProof
  <2> QED
    BY <1>1, <2>1, <2>2 DEF AnswerFact, a
<1>2. ASSUME dates # "valid"
      PROVE  AnswerFact(s, n, Refused(Classified({dateRejectionProblem(dates)}), TRUE), q, t)
  <2> DEFINE type == dateRejectionProblem(dates)
             x == [about |-> 0, type |-> type, why |-> ""]
             a == Refused(Classified({type}), TRUE)
  <2>1. type \in DateType
    BY DEF dateRejectionProblem, DateType
  <2> HIDE DEF type
  <2>2. Classified({type}) = {x} /\ x \in AnswerProblem /\ x.type = type
    <3>1. type \in AnswerType
      BY <2>1 DEF DateType, AnswerType
    <3> QED
      BY <3>1, ClassifiedIs
  <2> HIDE DEF x
  <2>3. a.kind = "rejected" /\ a.problems = {x} /\ a.proofVerified = TRUE
    BY <2>2 DEF Refused
  <2> HIDE DEF a
  <2>4. Passes(a) /\ ~isUnsupportedProof(a)
    BY <2>1, <2>2, <2>3 DEF Passes, isUnsupportedProof, DateType
  <2>5. Blamed(s, x, q, t)
    BY <2>1, <2>2 DEF Blamed, DateType
  <2>6. credential(s) /\ datesAt(s, n) # "valid"
    BY <1>2
  <2>7. AnswerFact(s, n, a, q, t)
    BY <2>1, <2>2, <2>3, <2>4, <2>5, <2>6 DEF AnswerFact
  <2> QED
    BY <2>7 DEF a, type
<1> QED
  BY <1>1, <1>2

\* Whatever the service answers about a document with one proof is so.
LEMMA AnswerTrue ==
  ASSUME NEW q \in Nat, NEW t \in TroubleType, NEW trouble, trouble[q] = t,
         NEW asked \in anySuiteMatches({q}), subject.proofs[q] \in Proof,
         subject \in Subjects
  PROVE  AnswerFact(subject, now, serviceAnswer({q}, trouble, asked), q, t)
<1> DEFINE errors == libraryErrors({q}, trouble)
           a      == serviceAnswer({q}, trouble, asked)
           dates  == IF isCredential THEN datesAt(subject, now) ELSE "valid"
           thrown == \E p \in {q} : trouble[p] = "throws"
           Fact(b) == AnswerFact(subject, now, b, q, t)
<1>1. /\ thrown => a = Refused(Classified({"PROOF_VERIFICATION_ERROR"}), FALSE)
      /\ ~thrown /\ isJsigsNoMatch(errors) =>
           a = Refused({unsupportedProofProblem({q}, asked)}, FALSE)
      /\ ~thrown /\ ~isJsigsNoMatch(errors) /\ errors = <<>> /\ dates = "valid" =>
           a = Result("verified")
      /\ ~thrown /\ ~isJsigsNoMatch(errors) /\ errors = <<>> /\ dates # "valid" =>
           a = Refused(Classified({dateRejectionProblem(dates)}), TRUE)
      /\ ~thrown /\ ~isJsigsNoMatch(errors) /\ errors # <<>> => a = rejection(errors)
  <2>1. ASSUME thrown
        PROVE  a = Refused(Classified({"PROOF_VERIFICATION_ERROR"}), FALSE)
    BY <2>1, Zenon DEF serviceAnswer
  <2>2. ASSUME ~thrown, isJsigsNoMatch(errors)
        PROVE  a = Refused({unsupportedProofProblem({q}, asked)}, FALSE)
    <3> HIDE DEF errors
    <3>1. errors # <<>>
      <4>1. DOMAIN NoMatch = {1}
        BY DEF NoMatch
      <4>2. DOMAIN <<>> = {}
        OBVIOUS
      <4> QED
        BY <2>2, <4>1, <4>2 DEF isJsigsNoMatch
    <3> QED
      BY <2>2, <3>1, Zenon DEF serviceAnswer, errors
  <2>3. ASSUME ~thrown, ~isJsigsNoMatch(errors), errors = <<>>, dates = "valid"
        PROVE  a = Result("verified")
    BY <2>3, Zenon DEF serviceAnswer, judgedAt
  <2>4. ASSUME ~thrown, ~isJsigsNoMatch(errors), errors = <<>>, dates # "valid"
        PROVE  a = Refused(Classified({dateRejectionProblem(dates)}), TRUE)
    BY <2>4, Zenon DEF serviceAnswer, judgedAt
  <2>5. ASSUME ~thrown, ~isJsigsNoMatch(errors), errors # <<>>
        PROVE  a = rejection(errors)
    BY <2>5, Zenon DEF serviceAnswer
  <2> QED
    BY <2>1, <2>2, <2>3, <2>4, <2>5
<1>2. thrown <=> t = "throws"
  OBVIOUS
<1>3. \/ errors = NoMatch /\ ~isChecked(subject, q)
      \/ errors = <<Sub("context")>> /\ subject.proofs[q].suite = "unloadable"
      \/ errors = <<>> /\ isGood(subject, q, t)
      \/ \E kind \in Wrongs : /\ hasCause(subject, q, t, kind)
                              /\ errors = [p \in {q} |-> Sub(kind)]
                              /\ isChecked(subject, q)
  BY LibrarySays
<1> HIDE DEF a, errors, thrown, dates
<1>4. CASE thrown
  <2> DEFINE type == "PROOF_VERIFICATION_ERROR"
  <2>1. \A x \in AnswerProblem : x.type = type => Blamed(subject, x, q, t)
    BY DEF Blamed
  <2>2. type \in AnswerType \ ({"PROOF_UNSUPPORTED"} \cup DateType)
    BY DEF AnswerType, DateType
  <2>3. a = Refused(Classified({type}), FALSE)
    BY <1>1, <1>4
  <2> HIDE DEF type
  <2>4. AnswerFact(subject, now, Refused(Classified({type}), FALSE), q, t)
    BY <2>1, <2>2, RefusalTrue
  <2> QED
    BY <2>3, <2>4 DEF a
<1>5. CASE ~thrown /\ errors = NoMatch /\ ~isChecked(subject, q)
  <2>1. a = Refused({unsupportedProofProblem({q}, asked)}, FALSE)
    BY <1>1, <1>5 DEF isJsigsNoMatch
  <2> QED
    BY <1>5, <2>1, NoMatchTrue DEF a
<1>6. CASE ~thrown /\ errors = <<>> /\ isGood(subject, q, t)
  <2>1. ~isJsigsNoMatch(errors)
    BY <1>6 DEF isJsigsNoMatch, NoMatch
  <2>2. dates = IF credential(subject) THEN datesAt(subject, now) ELSE "valid"
    BY DEF dates, isCredential, credential
  <2>3. CASE dates = "valid"
    BY <1>1, <1>6, <2>1, <2>2, <2>3, GoodTrue DEF a
  <2>4. CASE dates # "valid"
    <3>1. a = Refused(Classified({dateRejectionProblem(dates)}), TRUE)
      BY <1>1, <1>6, <2>1, <2>4
    <3>2. AnswerFact(subject, now, Refused(Classified({dateRejectionProblem(dates)}), TRUE), q, t)
      BY <1>6, <2>2, <2>4, GoodTrue
    <3> QED
      BY <3>1, <3>2 DEF a
  <2> QED
    BY <2>3, <2>4
\* A single cause, at the proof or before it could be reached.
<1>7. ASSUME ~thrown, NEW at, NEW kind \in Wrongs, errors = [p \in {at} |-> Sub(kind)],
             \/ hasCause(subject, q, t, kind)
             \/ kind = "context" /\ subject.proofs[q].suite = "unloadable"
      PROVE  Fact(a)
  <2>1. ~isJsigsNoMatch(errors) /\ errors # <<>>
    <3>1. at \in DOMAIN errors /\ errors[at].kind = kind /\ kind # "no-match"
      BY <1>7 DEF Sub, Wrongs, TroubleType, Fault
    <3>2. NoMatch[1].kind = "no-match" /\ DOMAIN NoMatch = {1}
      BY DEF NoMatch, Sub
    <3>3. errors # <<>>
      BY <3>1
    <3>4. errors # NoMatch
      BY <3>1, <3>2
    <3> QED
      BY <3>3, <3>4 DEF isJsigsNoMatch
  <2>2. a = Refused(Classified(classifySignatureError(errors, isCredential)), FALSE)
    BY <1>1, <1>7, <2>1 DEF rejection
  <2>3. PICK type : /\ classifySignatureError(errors, isCredential) = {type}
                    /\ Names(type, kind)
    <3>1. isCredential \in BOOLEAN
      BY DEF isCredential
    <3> QED
      BY <1>7, <3>1, ClassifiedOne
  <2>4. ASSUME NEW x \in AnswerProblem, x.type = type
        PROVE  Blamed(subject, x, q, t)
    <3>1. subject.proofs[q].fault \in Fault
      BY DEF Proof
    <3>2. type = "INVALID_SIGNATURE" =>
            \/ subject.proofs[q].fault = "forged" \/ t \in {"context", "did-invalid"}
            \/ subject.proofs[q].suite = "unloadable"
      BY <1>2, <1>7, <2>3, <3>1 DEF Names, hasCause, TroubleType, Fault
    <3>3. type = "VERIFICATION_METHOD_ERROR" => subject.proofs[q].fault = "method"
      BY <1>7, <2>3 DEF Names, hasCause, TroubleType
    <3>4. type = "ISSUER_PROOF_MISMATCH" => subject.proofs[q].fault = "controller"
      BY <1>7, <2>3 DEF Names, hasCause, TroubleType
    <3>5. type = "PROOF_PURPOSE_MISMATCH" =>
            subject.proofs[q].lacks \cap subject.expects # {}
      BY <1>7, <2>3, <3>1 DEF Names, hasCause, TroubleType, Fault
    <3>6. type # "PROOF_UNSUPPORTED"
      BY <2>3 DEF Names
    <3> QED
      BY <2>4, <3>2, <3>3, <3>4, <3>5, <3>6 DEF Blamed
  <2>5. type \in AnswerType \ ({"PROOF_UNSUPPORTED"} \cup DateType)
    BY <2>3 DEF Names
  <2> QED
    BY <2>2, <2>3, <2>4, <2>5, RefusalTrue
<1>8. CASE ~thrown /\ errors = <<Sub("context")>> /\ subject.proofs[q].suite = "unloadable"
  <2>1. <<Sub("context")>> = [p \in {1} |-> Sub("context")]
    OBVIOUS
  <2>2. "context" \in Wrongs
    BY DEF Wrongs, TroubleType
  <2> QED
    BY <1>7, <1>8, <2>1, <2>2 DEF a
<1>9. CASE ~thrown /\ \E kind \in Wrongs : /\ hasCause(subject, q, t, kind)
                                           /\ errors = [p \in {q} |-> Sub(kind)]
  BY <1>7, <1>9 DEF a
<1> QED
  BY <1>3, <1>4, <1>5, <1>6, <1>8, <1>9 DEF a

-----------------------------------------------------------------------------
(* The steps *)

LEMMA InvInit == Init => Inv
<1> SUFFICES ASSUME Init PROVE Inv
  OBVIOUS
<1>1. now \in 0..clock /\ clock \in Time
  <2>1. clock \in 0..MaxTime /\ now = clock
    BY DEF Init, Time
  <2>2. now \in 0..clock
    BY <2>1, MaxTimeAssumption
  <2> QED
    BY <2>1, <2>2 DEF Time
<1>2. DOMAIN answers = positioned(subject) /\ \A p \in positioned(subject) : answers[p] = Pending
  BY DEF Init
<1>3. answers = [p \in positioned(subject) |-> answers[p]]
  BY DEF Init
<1> QED
  BY <1>1, <1>2, <1>3 DEF Init, Inv, AnswersInv, SignatureInv, ValidityInv

LEMMA TickStep ==
  ASSUME Inv, Tick
  PROVE  Inv'
<1>1. UNCHANGED <<subject, now, troubles, answers, signature, validity>> /\ clock' = clock + 1
      /\ clock < MaxTime
  BY DEF Tick
<1>2. clock' \in Time /\ now' \in 0..clock'
  <2>1. clock \in Nat /\ now \in Nat /\ now <= clock
    BY MaxTimeAssumption DEF Inv, Time
  <2> QED
    BY <1>1, <2>1, MaxTimeAssumption DEF Time
<1>3. AnswersInv' /\ SignatureInv' /\ ValidityInv'
  BY <1>1 DEF Inv, AnswersInv, SignatureInv, ValidityInv, Verdict, isCredential
<1> QED
  BY <1>1, <1>2, <1>3 DEF Inv

LEMMA AnswerStep ==
  ASSUME Inv, NEW position \in DOMAIN answers, Answer(position)
  PROVE  Inv'
<1> DEFINE q == proofIndex(subject, position)
<1>1. /\ position \in positioned(subject) /\ answers[position] = Pending /\ subject \in Subjects
      /\ UNCHANGED <<subject, clock, now, signature, validity>>
  BY DEF Inv, Answer
<1>2. /\ q \in 1..Len(subject.proofs) /\ subject.proofs[q] \in Proof /\ proofsAt(position) = {q}
      /\ \A r \in positioned(subject) : proofIndex(subject, r) = q => r = position
  BY <1>1, OneProofEach
<1>3. q \in Nat /\ q \in DOMAIN subject.proofs
  BY <1>1, <1>2, SubjectTyped
<1> HIDE DEF q
<1>4. PICK trouble \in [{q} -> Trouble] : \E asked \in anySuiteMatches({q}) :
        /\ answers' = [answers EXCEPT ![position] = serviceAnswer({q}, trouble, asked)]
        /\ troubles' = [p \in DOMAIN troubles |->
                          IF p \in DOMAIN trouble THEN trouble[p] ELSE troubles[p]]
  BY <1>2 DEF Answer
<1>5. PICK asked \in anySuiteMatches({q}) :
        answers' = [answers EXCEPT ![position] = serviceAnswer({q}, trouble, asked)]
  BY <1>4
<1> DEFINE t == trouble[q]
           a == serviceAnswer({q}, trouble, asked)
<1>6. t \in TroubleType
  BY TroubleTyped
<1> HIDE DEF t
<1>7. AnswerFact(subject, now, a, q, t)
  BY <1>1, <1>2, <1>3, <1>6, AnswerTrue DEF t
<1> HIDE DEF a
<1>8. troubles'[q] = t /\ \A p \in DOMAIN troubles : p # q => troubles'[p] = troubles[p]
  BY <1>3, <1>4 DEF Inv, t
<1>9. /\ answers'[position] = a
      /\ \A r \in positioned(subject) : r # position => answers'[r] = answers[r]
      /\ DOMAIN answers' = positioned(subject)
      /\ answers' = [p \in positioned(subject) |-> answers'[p]]
  BY <1>1, <1>5 DEF Inv, a
<1>10. ASSUME NEW r \in positioned(subject)
       PROVE  \/ answers'[r] = Pending
              \/ AnswerFact(subject, now, answers'[r], proofIndex(subject, r),
                            troubles'[proofIndex(subject, r)])
  <2>1. CASE r = position
    BY <1>7, <1>8, <1>9, <2>1 DEF q
  <2>2. CASE r # position
    <3>1. proofIndex(subject, r) # q
      BY <1>2, <2>2
    <3>2. proofIndex(subject, r) \in DOMAIN troubles
      <4>1. proofIndex(subject, r) \in 1..Len(subject.proofs)
        BY <1>1, OneProofEach
      <4> QED
        BY <1>1, <4>1, SubjectTyped DEF Inv
    <3>3. troubles'[proofIndex(subject, r)] = troubles[proofIndex(subject, r)]
      BY <1>8, <3>1, <3>2
    <3>4. answers'[r] = answers[r]
      BY <1>9, <2>2
    <3> QED
      BY <3>3, <3>4 DEF Inv, AnswersInv
  <2> QED
    BY <2>1, <2>2
<1>11. AnswersInv'
  BY <1>1, <1>10 DEF AnswersInv
<1>12. signature.status = "" /\ validity = ""
  BY <1>1 DEF Inv, SignatureInv, ValidityInv
<1>13. SignatureInv' /\ ValidityInv'
  BY <1>1, <1>12 DEF Inv, SignatureInv, ValidityInv
<1>14. DOMAIN troubles' = DOMAIN subject.proofs
  BY <1>4 DEF Inv
<1> QED
  BY <1>1, <1>9, <1>11, <1>13, <1>14 DEF Inv

LEMMA SettlesStep ==
  ASSUME Inv, SignatureSettles
  PROVE  Inv'
<1>1. /\ UNCHANGED <<subject, clock, now, troubles, answers, validity>> /\ signature.status = ""
      /\ \A p \in DOMAIN answers : answers[p] # Pending
      /\ signature' = [status   |-> IF Passes(Verdict) THEN "success" ELSE "failure",
                       problems |-> IF Passes(Verdict) THEN {} ELSE Verdict.problems]
  BY DEF SignatureSettles, Passes, Verdict
<1>2. Verdict' = Verdict
  BY <1>1 DEF Verdict
<1>3. SignatureInv'
  <2>1. CASE Passes(Verdict)
    <3>1. signature'.status = "success" /\ signature'.problems = {}
      BY <1>1, <2>1
    <3> QED
      BY <1>1, <1>2, <2>1, <3>1 DEF SignatureInv, Inv
  <2>2. CASE ~Passes(Verdict)
    <3>1. signature'.status = "failure" /\ signature'.problems = Verdict.problems
      BY <1>1, <2>2
    <3> QED
      BY <1>1, <1>2, <2>2, <3>1 DEF SignatureInv, Inv
  <2> QED
    BY <2>1, <2>2
<1>4. validity = ""
  BY <1>1 DEF Inv, ValidityInv
<1>5. AnswersInv' /\ ValidityInv'
  BY <1>1, <1>4 DEF Inv, AnswersInv, ValidityInv
<1> QED
  BY <1>1, <1>3, <1>5 DEF Inv

LEMMA ValidityStep ==
  ASSUME Inv, validityPeriodCheck
  PROVE  Inv'
<1>1. /\ UNCHANGED <<subject, clock, now, troubles, answers, signature>>
      /\ isCredential /\ signature.status = "success"
      /\ validity' = IF datesAt(subject, now) = "valid" THEN "success" ELSE "failure"
  BY DEF validityPeriodCheck
<1>2. ValidityInv'
  BY <1>1 DEF ValidityInv, isCredential
<1>3. AnswersInv' /\ SignatureInv'
  BY <1>1 DEF Inv, AnswersInv, SignatureInv, Verdict
<1> QED
  BY <1>1, <1>2, <1>3 DEF Inv

LEMMA InvStep == Inv /\ [Next]_vars => Inv'
<1> SUFFICES ASSUME Inv, [Next]_vars PROVE Inv'
  OBVIOUS
<1>1. CASE UNCHANGED vars
  BY <1>1 DEF vars, Inv, AnswersInv, SignatureInv, ValidityInv, Verdict, isCredential
<1> QED
  BY <1>1, TickStep, AnswerStep, SettlesStep, ValidityStep DEF Next, Done

LEMMA Invariant == Spec => []Inv
BY InvInit, InvStep, PTL DEF Spec

-----------------------------------------------------------------------------
(* The theorems *)

\* A settled answer rejects for a reason, and calls the proof verified only when
\* nothing but the dates is wrong.
THEOREM TypeCorrect == Spec => []TypeOK
<1>1. Inv => TypeOK
  <2> SUFFICES ASSUME Inv PROVE TypeOK
    OBVIOUS
  <2>1. ASSUME NEW p \in DOMAIN answers
        PROVE  LET a == answers[p] IN
               /\ a.kind = "rejected" => a.problems # {}
               /\ \A x \in a.problems : x.type \in AnswerType
               /\ a.proofVerified => a.kind = "rejected" /\ \A x \in a.problems : x.type \in DateType
    <3>1. CASE answers[p] = Pending
      BY <3>1 DEF Pending, Result
    <3>2. CASE answers[p] # Pending
      <4>1. AnswerFact(subject, now, answers[p], proofIndex(subject, p),
                       troubles[proofIndex(subject, p)])
        BY <3>2 DEF Inv, AnswersInv
      <4> QED
        BY <4>1 DEF AnswerFact, AnswerProblem
    <3> QED
      BY <3>1, <3>2
  <2>2. validity # "" => signature.status = "success"
    BY DEF Inv, ValidityInv
  <2> QED
    BY <2>1, <2>2 DEF TypeOK, Inv, SignatureInv, ValidityInv, DateType
<1> QED
  BY <1>1, Invariant, PTL

\* Once proof.signature has an outcome, what each answer says is so.
LEMMA Answered ==
  ASSUME Inv, signature.status # ""
  PROVE  /\ DOMAIN answers = positioned(subject) /\ positioned(subject) \in SUBSET Nat
         /\ \A p \in positioned(subject) :
              /\ AnswerFact(subject, now, answers[p], proofIndex(subject, p),
                            troubles[proofIndex(subject, p)])
              /\ answers[p].kind \in {"verified", "rejected"}
<1>1. subject \in Subjects
  BY DEF Inv
<1>2. positioned(subject) \in SUBSET Nat
  BY <1>1, PositionsTyped
<1>3. \A p \in positioned(subject) :
        AnswerFact(subject, now, answers[p], proofIndex(subject, p), troubles[proofIndex(subject, p)])
  BY DEF Inv, AnswersInv, SignatureInv
<1> QED
  BY <1>2, <1>3 DEF Inv, AnswerFact

\* A passed proof.signature stands for good proofs only.
LEMMA PassedProven ==
  ASSUME Inv, signature.status = "success"
  PROVE  Proven(answers)
<1>1. Passes(dispatchProofSetVerification(answers))
  BY DEF Inv, SignatureInv, Verdict
<1>2. /\ DOMAIN answers = positioned(subject) /\ positioned(subject) \in SUBSET Nat
      /\ \A p \in positioned(subject) :
           answers[p].kind \in {"verified", "rejected", "no-service", "threw"}
  BY Answered
<1> QED
  BY <1>1, <1>2, VerdictSound

\* Every problem of a failed proof.signature is one that an answer reported, of the
\* proof it names.
LEMMA ProblemReported ==
  ASSUME Inv, NEW x \in signature.problems
  PROVE  /\ x.about \in positioned(subject)
         /\ \E y \in answers[x.about].problems : y.type = x.type /\ y.why = x.why
<1> DEFINE D == positioned(subject)
           R == combineProofOutcomes(answers)
<1>1. signature.status = "failure"
  BY DEF Inv, SignatureInv
<1>2. x \in Verdict.problems /\ ~Passes(Verdict)
  BY <1>1 DEF Inv, SignatureInv
<1>3. /\ DOMAIN answers = D /\ D \in SUBSET Nat
      /\ \A p \in D : /\ answers[p].kind \in {"verified", "rejected"}
                      /\ answers[p].problems \subseteq AnswerProblem
                      /\ answers[p].kind = "verified" => answers[p].problems = {}
  BY <1>1, Answered DEF AnswerFact
<1>4. CASE D = {0}
  <2>1. Verdict = answers[0]
    BY <1>3, <1>4 DEF Verdict, dispatchProofSetVerification
  <2>2. x \in answers[0].problems /\ x \in AnswerProblem
    BY <1>2, <1>3, <1>4, <2>1
  <2>3. x.about = 0
    BY <2>2 DEF AnswerProblem
  <2> QED
    BY <1>4, <2>2, <2>3
<1>5. CASE D # {0}
  <2>1. Verdict = R
    BY <1>3, <1>5 DEF Verdict, dispatchProofSetVerification
  <2>2. ASSUME NEW P \in SUBSET D, x \in problemsOf(answers, P)
        PROVE  /\ x.about \in D
               /\ \E y \in answers[x.about].problems : y.type = x.type /\ y.why = x.why
    <3>1. PICK p \in P : x \in problemsOfProof(p, answers[p])
      BY <2>2 DEF problemsOf
    <3>2. CASE answers[p].kind = "rejected"
      <4>1. problemsOfProof(p, answers[p]) = {[z EXCEPT !.about = p] : z \in answers[p].problems}
        BY <3>2, Zenon DEF problemsOfProof
      <4>2. PICK z \in answers[p].problems : x = [z EXCEPT !.about = p]
        BY <3>1, <4>1
      <4>3. z \in AnswerProblem
        BY <1>3, <4>2
      <4>4. x.about = p /\ x.type = z.type /\ x.why = z.why
        BY <4>2, <4>3 DEF AnswerProblem
      <4> QED
        BY <4>4
    <3>3. CASE answers[p].kind = "verified"
      <4>1. problemsOfProof(p, answers[p]) = {}
        BY <3>3 DEF problemsOfProof
      <4> QED
        BY <3>1, <4>1
    <3> QED
      BY <1>3, <3>2, <3>3
  <2>3. /\ failing(answers) \in SUBSET D /\ unchecked(answers) \in SUBSET D
        /\ ofKind(answers, "threw") = {} /\ verifiedButRejected(answers) \in SUBSET D
        /\ ofKind(answers, "verified") \in SUBSET D
    <3>1. ofKind(answers, "threw") = {}
      BY <1>3 DEF ofKind
    <3> QED
      BY <1>3, <3>1, Groups
  <2>4. ASSUME verifiedButRejected(answers) # {}
        PROVE  Passes(answers[first(verifiedButRejected(answers))])
    <3>1. first(verifiedButRejected(answers)) \in verifiedButRejected(answers)
      BY <1>3, <2>3, <2>4, FirstIsOne
    <3> QED
      BY <3>1 DEF verifiedButRejected, failing, rejected, Passes
  <2>5. ASSUME ofKind(answers, "verified") # {}
        PROVE  Passes(answers[first(ofKind(answers, "verified"))])
    <3>1. first(ofKind(answers, "verified")) \in ofKind(answers, "verified")
      BY <1>3, <2>3, <2>5, FirstIsOne
    <3> QED
      BY <3>1 DEF ofKind, Passes
  <2>6. \/ R = RejectedWith(problemsOf(answers, failing(answers)))
        \/ R = Result("no-service")
        \/ R = RejectedWith(problemsOf(answers, unchecked(answers)))
    BY <1>2, <2>1, <2>3, <2>4, <2>5, Combined
  <2>7. R # Result("no-service")
    BY <1>2, <2>1 DEF Result
  <2>8. x \in problemsOf(answers, failing(answers)) \/ x \in problemsOf(answers, unchecked(answers))
    BY <1>2, <2>1, <2>6, <2>7 DEF RejectedWith
  <2> QED
    BY <2>2, <2>3, <2>8
<1> QED
  BY <1>4, <1>5

\* No problem that a failed proof.signature reports is untrue of the proof it names.
THEOREM BlameTrue == Spec => []BlameIsTrue
<1>1. Inv => BlameIsTrue
  <2> SUFFICES ASSUME Inv, NEW x \in signature.problems
               PROVE  LET proof == proofOf(x.about)
                          trouble == troubleOf(x.about)
                      IN  CASE x.type = "INVALID_SIGNATURE" ->
                                 proof.fault = "forged" \/ trouble \in {"context", "did-invalid"}
                                 \/ proof.suite = "unloadable"
                            [] x.type = "VERIFICATION_METHOD_ERROR" -> proof.fault = "method"
                            [] x.type = "ISSUER_PROOF_MISMATCH"     -> proof.fault = "controller"
                            [] x.type = "PROOF_PURPOSE_MISMATCH"    ->
                                 proof.lacks \cap subject.expects # {}
                            [] x.type = "PROOF_UNSUPPORTED" /\ x.why = "suite"   ->
                                 proof.suite # "supported"
                            [] x.type = "PROOF_UNSUPPORTED" /\ x.why = "purpose" ->
                                 proof.suite = "supported"
                            [] OTHER -> TRUE
    BY DEF BlameIsTrue
  <2> DEFINE q       == proofIndex(subject, x.about)
             proof   == proofOf(x.about)
             trouble == troubleOf(x.about)
  <2>1. proof = subject.proofs[q] /\ trouble = troubles[q]
    BY DEF proofOf, troubleOf, proofIndex
  <2>2. signature.status # ""
    BY DEF Inv, SignatureInv
  <2>3. PICK y \in answers[x.about].problems : y.type = x.type /\ y.why = x.why
    BY ProblemReported
  <2>4. Blamed(subject, y, q, troubles[q])
    BY <2>2, <2>3, ProblemReported, Answered DEF AnswerFact
  <2> HIDE DEF q, proof, trouble
  <2>5. /\ x.type = "INVALID_SIGNATURE" =>
             \/ proof.fault = "forged" \/ trouble \in {"context", "did-invalid"}
             \/ proof.suite = "unloadable"
        /\ x.type = "VERIFICATION_METHOD_ERROR" => proof.fault = "method"
        /\ x.type = "ISSUER_PROOF_MISMATCH" => proof.fault = "controller"
        /\ x.type = "PROOF_PURPOSE_MISMATCH" => proof.lacks \cap subject.expects # {}
        /\ x.type = "PROOF_UNSUPPORTED" /\ x.why = "suite" => proof.suite # "supported"
        /\ x.type = "PROOF_UNSUPPORTED" /\ x.why = "purpose" => proof.suite = "supported"
    BY <2>1, <2>3, <2>4 DEF Blamed
  <2> QED
    BY <2>5, Zenon DEF proof, trouble
<1> QED
  BY <1>1, Invariant, PTL

\* A document passes only if some proof was checked, every checkable proof of it is
\* sound, and a challenge that was asked for is bound by every authentication proof.
THEOREM PassedBound == Spec => []PassedMeansBound
<1>1. Inv => PassedMeansBound
  <2> SUFFICES ASSUME Inv, signature.status = "success" PROVE PassedMeansBound
    BY DEF PassedMeansBound
  <2> DEFINE purposes == CASE isCredential -> {"assertionMethod"}
                           [] ~isCredential /\ subject.expects # {} -> {"authentication"}
                           [] OTHER -> {"assertionMethod", "authentication"}
             P == {p \in proofEntries(subject) : /\ subject.proofs[p].suite = "supported"
                                                 /\ subject.proofs[p].purpose \in purposes}
  <2>1. Proven(answers) /\ subject \in Subjects
    BY PassedProven DEF Inv
  <2>2. \A p \in positioned(subject) :
          LET q == proofIndex(subject, p) IN
          /\ Passes(answers[p]) => isGood(subject, q, troubles[q])
          /\ isUnsupportedProof(answers[p]) => ~isChecked(subject, q)
          /\ q \in proofEntries(subject)
    BY <2>1, Answered, OneProofEach DEF AnswerFact
  \* A supported proof for a purpose of the call is checked, and only such a proof.
  <2>3. ASSUME NEW q \in proofEntries(subject)
        PROVE  isChecked(subject, q) <=> q \in P
    <3>1. CASE isCredential
      <4>1. purposes = {"assertionMethod"}
        BY <3>1, Zenon
      <4> HIDE DEF purposes
      <4> QED
        BY <3>1, <4>1 DEF isChecked, termOf, isCredential, credential
    <3>2. CASE ~isCredential /\ subject.expects # {}
      <4>1. purposes = {"authentication"}
        BY <3>2, Zenon
      <4> HIDE DEF purposes
      <4> QED
        BY <3>2, <4>1 DEF isChecked, termOf, isCredential, credential
    <3>3. CASE ~isCredential /\ subject.expects = {}
      <4>1. purposes = {"assertionMethod", "authentication"}
        BY <3>3, Zenon
      <4> HIDE DEF purposes
      <4> QED
        BY <3>3, <4>1 DEF isChecked, termOf, isCredential, credential, isAuthenticationPurpose
    <3> QED
      BY <3>1, <3>2, <3>3
  <2> HIDE DEF purposes, P
  \* Every proof has a position.
  <2>4. ASSUME NEW q \in P
        PROVE  \E p \in positioned(subject) : proofIndex(subject, p) = q
    <3>1. q \in proofEntries(subject)
      BY DEF P
    <3> QED
      BY <2>1, <3>1, PositionOf
  <2>5. P # {}
    <3>1. PICK p \in DOMAIN answers : Passes(answers[p])
      BY <2>1 DEF Proven
    <3>2. p \in positioned(subject)
      BY DEF Inv
    <3> QED
      BY <2>2, <2>3, <3>1, <3>2 DEF isGood
  <2>6. ASSUME NEW q \in P
        PROVE  Sound(q) /\ subject.proofs[q].lacks \cap subject.expects = {}
    <3>1. PICK p \in positioned(subject) : proofIndex(subject, p) = q
      BY <2>4
    <3>2. isChecked(subject, q)
      BY <2>2, <2>3, <3>1
    <3>3. Passes(answers[p]) \/ isUnsupportedProof(answers[p])
      BY <2>1, <3>1 DEF Proven, Inv
    <3>4. isGood(subject, q, troubles[q])
      BY <2>2, <3>1, <3>2, <3>3
    <3>5. expectsOf(subject) = subject.expects
      BY <2>1, SubjectTyped DEF expectsOf
    <3> QED
      BY <3>4, <3>5 DEF isGood, Sound
  <2> QED
    BY <2>5, <2>6, Zenon DEF PassedMeansBound, P, purposes
<1> QED
  BY <1>1, Invariant, PTL

\* proof.validity-period and the service judge a credential's dates at one instant,
\* however much time passes between them.
THEOREM DatesAlike == Spec => []DatesJudgedAlike
<1>1. Inv => DatesJudgedAlike
  <2> SUFFICES ASSUME Inv, validity # ""
               PROVE  (validity = "success")
                        <=> \A p \in DOMAIN answers :
                              \A x \in answers[p].problems : x.type \notin DateType
    BY DEF DatesJudgedAlike, DateType
  <2>1. /\ isCredential /\ signature.status = "success"
        /\ validity = "success" <=> datesAt(subject, now) = "valid"
    BY DEF Inv, ValidityInv
  <2>2. DOMAIN answers = positioned(subject)
    BY DEF Inv
  <2>3. \A p \in positioned(subject) :
          (\E x \in answers[p].problems : x.type \in DateType)
            <=> Passes(answers[p]) /\ datesAt(subject, now) # "valid"
    BY <2>1, Answered DEF AnswerFact, isCredential, credential
  <2>4. PICK p \in DOMAIN answers : Passes(answers[p])
    BY <2>1, PassedProven DEF Proven
  <2> QED
    BY <2>1, <2>2, <2>3, <2>4
<1> QED
  BY <1>1, Invariant, PTL

=============================================================================
