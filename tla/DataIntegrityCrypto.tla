------------------------- MODULE DataIntegrityCrypto --------------------------
(***************************************************************************)
(* src/services/data-integrity-crypto.ts: the default crypto service, asked *)
(* for one document's proofs by the dispatch of CryptoDispatch, and what    *)
(* proof.signature and proof.validity-period then say of the document.      *)
(*                                                                          *)
(* The library below the service, `@interop/vc`, is external.  It skips a   *)
(* proof made for another purpose or with an unsupported suite, calls a set *)
(* verified when one of its proofs is, judges a credential's dates only     *)
(* then, and puts what failed into one aggregate error.                     *)
(***************************************************************************)
EXTENDS CryptoDispatch, DocumentLoader

CONSTANTS
  Subjects,     \* the documents that may be verified, and how they are asked about
  MaxTime       \* bound on the clock

Time == 0..MaxTime

Purpose == {"assertionMethod", "authentication", "authenticationMethod", "other"}

\* What keeps a proof from backing its document, whoever looks.
Fault == {"none", "forged", "jsonld", "controller", "no-driver", "method"}

\* What a verification makes of a document it could not load.
fromDid == [loaded |-> "none", notFound |-> "did-unresolved", internalError |-> "did-unresolved",
            other |-> "did-invalid"]

\* What may also go wrong when a proof is looked at: loading the key's document or
\* a context, an HTTP error of a loader the caller supplies, or the service itself.
Trouble ==
  (UNION {{fromDid[outcome] : outcome \in resolveDid(method, reply)} :
            method \in DidMethod, reply \in Reply})
  \cup {IF loadRemoteDocument(reply) = "loaded" THEN "none" ELSE "context" : reply \in Reply}
  \cup {"http", "http-issuer", "throws"}

\* A proof; `lacks` is what of an expected challenge and domain it does not carry.
Proof == [purpose : Purpose, suite : {"supported", "unsupported", "unloadable"},
          fault : Fault, lacks : SUBSET {"challenge", "domain"}]

\* A date that may be absent.
OptionalDate == {x \in Seq(Nat) : Len(x) <= 1}

Subject ==
  [type : {"verifiableCredential", "verifiablePresentation"}, array : BOOLEAN,
   entries : Seq({"proof", "other"}), proofs : Seq(Proof),
   expects : {{}, {"challenge"}, {"challenge", "domain"}},
   start : OptionalDate, end : OptionalDate]

ASSUME MaxTimeAssumption == MaxTime \in Nat

\* A challenge is asked of presentations only.
ASSUME SubjectsAssumption ==
  \A s \in Subjects :
    /\ s \in Subject /\ Len(s.proofs) = Len(s.entries)
    /\ documentHasProof(s)
    /\ ~s.array => Len(s.entries) <= 1
    /\ s.type = "verifiableCredential" => s.expects = {}

VARIABLES
  subject,    \* the document being verified
  clock,      \* the verifier's clock
  now,        \* the instant the call began
  troubles,   \* what went wrong for each proof that was looked at
  answers,    \* the service's answer on each dispatched document, once it has settled
  signature,  \* the outcome of proof.signature: [status, problems], "" while it runs
  validity    \* the outcome of proof.validity-period, "" while it has not run

vars == <<subject, clock, now, troubles, answers, signature, validity>>

isCredential == subject.type = "verifiableCredential"

-----------------------------------------------------------------------------
(* The errors of the library: an aggregate of sub-errors, each of them bare or *)
(* in a wrapper, or a plain error about the dates.  An aggregate is a function *)
(* on the positions of the proofs that were looked at.                         *)

Sub(kind) == [kind |-> kind, wrapped |-> kind \in {"controller", "challenge", "domain"}]

NoMatch         == <<Sub("no-match")>>
isJsigsNoMatch(errors) == errors = NoMatch

isHttp(e)   == ~e.wrapped /\ e.kind \in {"http", "http-issuer"}
isJsonLd(e) == ~e.wrapped /\ e.kind = "jsonld"

\* The rules in their order, the first that holds decides.  Each names the
\* problems it reports.
rules(errors, credential) ==
  LET kinds == {errors[i].kind : i \in DOMAIN errors}
      https == {i \in DOMAIN errors : isHttp(errors[i])}
      ofIssuer == https # {} /\ errors[first(https)].kind = "http-issuer"
      Rule(holds, problems) == [holds |-> holds, problems |-> problems]
  IN  << Rule(\E i \in DOMAIN errors : isJsonLd(errors[i]), {"PARSING_ERROR"}),
         Rule(https # {},
              IF credential /\ ofIssuer THEN {"DID_WEB_UNRESOLVED"}
              ELSE {"HTTP_ERROR"}),
         Rule("did-unresolved" \in kinds, {"DID_WEB_UNRESOLVED"}),
         Rule("controller" \in kinds, {"ISSUER_PROOF_MISMATCH"}),
         Rule("no-driver" \in kinds, {"VERIFICATION_METHOD_UNRESOLVED"}),
         Rule("method" \in kinds,
              {"VERIFICATION_METHOD_ERROR"}
                \cup IF kinds # {"method"} THEN {"INVALID_SIGNATURE"} ELSE {}),
         Rule({"challenge", "domain"} \cap kinds # {}, {"PROOF_PURPOSE_MISMATCH"}),
         Rule(TRUE, {"INVALID_SIGNATURE"}) >>

classifySignatureError(errors, credential) ==
  LET R == rules(errors, credential) IN R[first({i \in DOMAIN R : R[i].holds})].problems

dateRejectionProblem(dates) ==
  IF dates = "expired" THEN "CREDENTIAL_EXPIRED" ELSE "CREDENTIAL_NOT_YET_VALID"

\* Fault: the service reads the clock when it has an answer.
JudgedAtAnswer == clock

\* The instant dates are judged at.
judgedAt == now

\* How the dates stand at an instant; the end is looked at first.
datesAt(s, t) ==
  CASE s.end # <<>> /\ t > s.end[1] -> "expired"
    [] s.start # <<>> /\ t < s.start[1] -> "not-yet-valid"
    [] OTHER -> "valid"

-----------------------------------------------------------------------------
(* The proof purpose *)

isAuthenticationPurpose(purpose) == purpose \in {"authentication", "authenticationMethod"}

\* Fault: a presentation whose proofs are for another purpose opts out of the
\* challenge.
PurposeOfProofs(P) ==
  IF \E p \in P : isAuthenticationPurpose(subject.proofs[p].purpose)
  THEN [term |-> "authentication", expects |-> subject.expects]
  ELSE [term |-> "assertionMethod", expects |-> {}]

\* A challenge decides the purpose; without one the proofs do.
getPresentationPurpose(P) ==
  CASE subject.expects # {} -> [term |-> "authentication", expects |-> subject.expects]
    [] subject.expects = {} /\ \E p \in P : isAuthenticationPurpose(subject.proofs[p].purpose) ->
         [term |-> "authentication", expects |-> {}]
    [] OTHER -> [term |-> "assertionMethod", expects |-> {}]

purposeFor(P) ==
  IF isCredential THEN [term |-> "assertionMethod", expects |-> {}] ELSE getPresentationPurpose(P)

-----------------------------------------------------------------------------
(* The library, asked to verify the document with the proofs P. *)

ofPurpose(P, purpose) == {p \in P : subject.proofs[p].purpose = purpose.term}
matched(P, purpose)   == {p \in ofPurpose(P, purpose) : subject.proofs[p].suite = "supported"}

\* What is found wrong with a proof, "none" when nothing is: the network and the
\* key first, then its signature, then its purpose.
wrongWith(p, purpose, trouble) ==
  LET proof  == subject.proofs[p]
      misses == proof.lacks \cap purpose.expects
  IN  CASE trouble[p] # "none" -> trouble[p]
        [] trouble[p] = "none" /\ proof.fault # "none" -> proof.fault
        [] trouble[p] = "none" /\ proof.fault = "none" /\ misses # {} ->
             IF "challenge" \in misses THEN "challenge" ELSE "domain"
        [] OTHER -> "none"

\* The library's aggregate, <<>> when the proofs verify.
libraryErrors(P, trouble) ==
  LET purpose  == purposeFor(P)
      M        == matched(P, purpose)
      Wrong(p) == wrongWith(p, purpose, trouble)
      unloadable == \E p \in ofPurpose(P, purpose) : subject.proofs[p].suite = "unloadable"
  IN  CASE unloadable               -> <<Sub("context")>>
        [] ~unloadable /\ M = {}    -> NoMatch
        [] ~unloadable /\ \E p \in M : Wrong(p) = "none" -> <<>>
        [] OTHER                    -> [p \in M |-> Sub(Wrong(p))]

-----------------------------------------------------------------------------
(* The service *)

Why == {"suite", "purpose", "general"}

\* Why no proof was checked: the suites are asked again, and may throw (`asked`
\* is what they say).  With several proofs nothing is said.
unsupportedProofProblem(P, asked) ==
  LET only == first(P)
      why == CASE Cardinality(P) > 1 \/ asked = "threw" -> "general"
               [] Cardinality(P) = 1 /\ asked = "none"  -> "suite"
               [] Cardinality(P) = 1 /\ asked = "match"
                  /\ subject.proofs[only].purpose # purposeFor(P).term -> "purpose"
               [] OTHER -> "general"
  IN  [about |-> 0, type |-> "PROOF_UNSUPPORTED", why |-> why]

\* What asking the suites about the proofs P may bring.
anySuiteMatches(P) ==
  CASE subject.proofs[first(P)].suite = "supported"   -> {"match"}
    [] subject.proofs[first(P)].suite = "unsupported" -> {"none", "threw"}
    [] OTHER -> {"threw"}

Refused(problems, proofVerified) ==
  [kind |-> "rejected", problems |-> problems, proofVerified |-> proofVerified]

Classified(types) == [about : {0}, type : types, why : {""}]

\* Fault: every rejection by the library is taken to follow a verified proof.
RejectionOfVerified(errors) ==
  Refused(Classified(classifySignatureError(errors, isCredential)), TRUE)

rejection(errors) == Refused(Classified(classifySignatureError(errors, isCredential)), FALSE)

\* verifyCredential and verifyPresentation: the dates are a credential's only.
serviceAnswer(P, trouble, asked) ==
  LET errors == libraryErrors(P, trouble)
      dates  == IF isCredential THEN datesAt(subject, judgedAt) ELSE "valid"
  IN  CASE \E p \in P : trouble[p] = "throws" ->
             Refused(Classified({"PROOF_VERIFICATION_ERROR"}), FALSE)
        [] (\A p \in P : trouble[p] # "throws") /\ isJsigsNoMatch(errors) ->
             Refused({unsupportedProofProblem(P, asked)}, FALSE)
        [] (\A p \in P : trouble[p] # "throws") /\ errors = <<>> /\ dates = "valid" ->
             Result("verified")
        [] (\A p \in P : trouble[p] # "throws") /\ errors = <<>> /\ dates # "valid" ->
             Refused(Classified({dateRejectionProblem(dates)}), TRUE)
        [] OTHER -> rejection(errors)

-----------------------------------------------------------------------------

\* The proofs in the document dispatched for a position: one, or all of them.
proofsAt(position) == IF position = 0 THEN proofEntries(subject) ELSE {position}

Pending == Result("pending")

\* The call begins: its instant is read once.
Init ==
  /\ subject \in Subjects
  /\ clock \in Time
  /\ now = clock
  /\ troubles = [p \in DOMAIN subject.proofs |-> "none"]
  /\ answers = [p \in positioned(subject) |-> Pending]
  /\ signature = [status |-> "", problems |-> {}]
  /\ validity = ""

Tick ==
  /\ clock < MaxTime
  /\ validity = ""
  /\ clock' = clock + 1
  /\ UNCHANGED <<subject, now, troubles, answers, signature, validity>>

\* The service answers on one of the dispatched documents.
Answer(position) ==
  /\ answers[position] = Pending
  /\ \E trouble \in [proofsAt(position) -> Trouble], asked \in anySuiteMatches(proofsAt(position)) :
       /\ answers' = [answers EXCEPT ![position] =
                        serviceAnswer(proofsAt(position), trouble, asked)]
       /\ troubles' = [p \in DOMAIN troubles |->
                         IF p \in DOMAIN trouble THEN trouble[p] ELSE troubles[p]]
  /\ UNCHANGED <<subject, clock, now, signature, validity>>

\* proof.signature, once every dispatched document has its answer.
SignatureSettles ==
  /\ signature.status = ""
  /\ \A p \in DOMAIN answers : answers[p] # Pending
  /\ LET verdict == dispatchProofSetVerification(answers)
         passes  == \/ verdict.kind = "verified"
                    \/ verdict.kind = "rejected" /\ verdict.proofVerified
     IN  signature' = [status   |-> IF passes THEN "success" ELSE "failure",
                       problems |-> IF passes THEN {} ELSE verdict.problems]
  /\ UNCHANGED <<subject, clock, now, troubles, answers, validity>>

\* proof.validity-period: on credentials, unless the signature halted the run.
validityPeriodCheck ==
  /\ isCredential
  /\ signature.status = "success"
  /\ validity = ""
  /\ validity' = IF datesAt(subject, now) = "valid" THEN "success" ELSE "failure"
  /\ UNCHANGED <<subject, clock, now, troubles, answers, signature>>

Settled == signature.status = "failure" \/ validity # "" \/ (signature.status # "" /\ ~isCredential)

Done == Settled /\ UNCHANGED vars

Next ==
  \/ Tick
  \/ \E position \in DOMAIN answers : Answer(position)
  \/ SignatureSettles
  \/ validityPeriodCheck
  \/ Done

Spec == Init /\ [][Next]_vars

-----------------------------------------------------------------------------

AnswerType == {"PROOF_UNSUPPORTED", "PARSING_ERROR", "HTTP_ERROR", "DID_WEB_UNRESOLVED",
               "ISSUER_PROOF_MISMATCH", "VERIFICATION_METHOD_UNRESOLVED",
               "VERIFICATION_METHOD_ERROR", "PROOF_PURPOSE_MISMATCH", "INVALID_SIGNATURE",
               "PROOF_VERIFICATION_ERROR", "CREDENTIAL_EXPIRED", "CREDENTIAL_NOT_YET_VALID"}

\* A rejection names its reasons, and only a verified proof is called so.
TypeOK ==
  /\ clock \in Time /\ now \in 0..clock
  /\ \A p \in DOMAIN answers :
       LET a == answers[p] IN
       /\ a.kind = "rejected" => a.problems # {}
       /\ \A x \in a.problems : x.type \in AnswerType
       /\ a.proofVerified => a.kind = "rejected"
                             /\ \A x \in a.problems : x.type \in {"CREDENTIAL_EXPIRED",
                                                                  "CREDENTIAL_NOT_YET_VALID"}
  /\ signature.status \in {"", "success", "failure"}
  /\ validity \in {"", "success", "failure"}
  /\ validity # "" => signature.status = "success"

-----------------------------------------------------------------------------
(* What a reader of the verdict may rely on *)

proofOf(position) == subject.proofs[IF position = 0 THEN first(proofEntries(subject)) ELSE position]
troubleOf(position) == troubles[IF position = 0 THEN first(proofEntries(subject)) ELSE position]

\* Whatever a failed proof.signature reports is true of the very proof it names,
\* in a set of proofs that fail each for its own reason: forgery is alleged only
\* of a signature that does not match, or for want of a context or a valid DID log,
\* never because a did:web document could not be fetched; a suite is called unsupported, a purpose unexpected, an issuer
\* mismatched and a challenge missed only when they are.
BlameIsTrue ==
  \A x \in signature.problems :
    LET proof == proofOf(x.about)
        trouble == troubleOf(x.about)
    IN  CASE x.type = "INVALID_SIGNATURE" ->
               proof.fault = "forged" \/ trouble \in {"context", "did-invalid"}
               \/ proof.suite = "unloadable"
          [] x.type = "VERIFICATION_METHOD_ERROR" -> proof.fault = "method"
          [] x.type = "ISSUER_PROOF_MISMATCH"     -> proof.fault = "controller"
          [] x.type = "PROOF_PURPOSE_MISMATCH"    -> proof.lacks \cap subject.expects # {}
          [] x.type = "PROOF_UNSUPPORTED" /\ x.why = "suite"   -> proof.suite # "supported"
          [] x.type = "PROOF_UNSUPPORTED" /\ x.why = "purpose" -> proof.suite = "supported"
          [] OTHER -> TRUE

Sound(p) == subject.proofs[p].fault = "none" /\ troubles[p] = "none"

\* The challenge and the purpose a caller asked for cannot be evaded: a document
\* passes only if some proof was checked, every proof that a supported suite can
\* check for a purpose the call is about is sound, and a presentation asked for
\* with a challenge carries an authentication proof bound to it, whatever
\* purposes its proofs state and however many of them there are.
PassedMeansBound ==
  signature.status = "success" =>
    LET purposes == CASE isCredential -> {"assertionMethod"}
                      [] ~isCredential /\ subject.expects # {} -> {"authentication"}
                      [] OTHER -> {"assertionMethod", "authentication"}
        P == {p \in proofEntries(subject) : /\ subject.proofs[p].suite = "supported"
                                            /\ subject.proofs[p].purpose \in purposes}
    IN  /\ P # {}
        /\ \A p \in P : Sound(p) /\ subject.proofs[p].lacks \cap subject.expects = {}

\* One instant, two judges: an expired credential with a good proof passes
\* proof.signature only because proof.validity-period is there to fail it, so the
\* two agree on its dates however much time passes between them.
DatesJudgedAlike ==
  validity # "" =>
    (validity = "success"
       <=> \A p \in DOMAIN answers :
             \A x \in answers[p].problems :
               x.type \notin {"CREDENTIAL_EXPIRED", "CREDENTIAL_NOT_YET_VALID"})

=============================================================================
