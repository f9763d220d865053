------------------------------- MODULE Verifier -------------------------------
(***************************************************************************)
(* src/verifier.ts: a verifyPresentation or verifyCredential call.  A       *)
(* presentation is verified, then each of its credentials in turn by a      *)
(* nested verifyCredential; the registry suite of a credential may verify a *)
(* recognition credential by another nested call.  The calls under way are  *)
(* a stack: each awaits the one above it.                                   *)
(*                                                                          *)
(* What a suite's checks do is RunSuites' subject.  Here a suite has one    *)
(* outcome: "success", "skipped", "warning" (it failed without being        *)
(* fatal), "failed" (fatal, not halting) or "halted".  The warnings of the  *)
(* proof and status suites change nothing here and count as success.        *)
(***************************************************************************)
EXTENDS CheckTypes, SequencesExt

CONSTANTS
  Call,      \* the calls a caller may make
  Config,    \* what a verifier may be constructed with
  Name       \* the ids of suites and of credentials

(* A call is [kind, doc, options, additional, challenge, unsigned]: the        *)
(* document, the options, the additional suites, how the challenge and domain  *)
(* go together, and whether an unsigned presentation is accepted.              *)
(* A credential is [id, parses]; a presentation [parses, signed, credentials]. *)
(* Options are optional where the code falls back on the constructor's: an    *)
(* absent option is None, an empty list of registries is <<<< >>>>.           *)
Registry == {"list", "recognition"}   \* "list": one that is not vc-recognition

Options == [phases     : Optional(SUBSET SuitePhase),
            registries : {x \in Seq(Seq(Registry)) : Len(x) <= 1},
            timing     : Optional(BOOLEAN)]

ASSUME ConfigAssumption == Config \subseteq Options

\* The code's own suites, and the credential of a recognition registry, have names.
ASSUME NameAssumption == {"core", "recognition", "proof", "registry", "status"} \subseteq Name

Credential   == [id : Name, parses : BOOLEAN]
Presentation == [parses : BOOLEAN, signed : BOOLEAN, credentials : Seq(Credential)]

SuiteOutcome == {"success", "skipped", "warning", "failed", "halted"}

\* A suite that a caller adds may be any, a built-in one included.
AddedSuite == [id : Name, phase : Optional(SuitePhase), subjects : SUBSET SubjectType,
               outcomes : SUBSET SuiteOutcome]

CallOf(kinds, documents) ==
  [kind : kinds, doc : documents, options : Options, additional : Seq(AddedSuite),
   challenge : {"none", "given", "empty", "domain-only"}, unsigned : BOOLEAN]

ASSUME CallAssumption ==
  Call \subseteq CallOf({"presentation"}, Presentation) \cup CallOf({"credential"}, Credential)

VARIABLES
  config,    \* the constructor's options
  stack,     \* the calls under way, the running one last
  cached,    \* the recognition credential in the cache: "none", or whether the
             \* verification that let it in ran a proof check ("proven", "unproven")
  returned,  \* the result of the caller's call, <<>> until then
  asked      \* history: some nested call consulted a registry

vars == <<config, stack, cached, returned, asked>>

-----------------------------------------------------------------------------
(* Suites *)

MkSuite(id, phase, subjects, outcomes) ==
  [id |-> id, phase |-> phase, subjects |-> subjects, outcomes |-> outcomes]

coreSuite        == MkSuite("core", <<"cryptographic">>, SubjectType, {"success", "halted"})
recognitionSuite == MkSuite("recognition", <<"recognition">>, {"verifiableCredential"},
                            {"success", "skipped", "warning"})
proofSuite       == MkSuite("proof", <<"cryptographic">>, SubjectType,
                            {"success", "failed", "halted"})
registrySuite    == MkSuite("registry", <<"trust">>, {"verifiableCredential"}, {})
statusSuite      == MkSuite("status", <<"cryptographic">>, {"verifiableCredential"},
                            {"success", "skipped", "failed"})

defaultSuites == <<coreSuite, recognitionSuite, proofSuite, registrySuite, statusSuite>>

presentationSuites == <<coreSuite, proofSuite>>

-----------------------------------------------------------------------------
(* Calls *)

\* A call at its beginning.
Frame(call) ==
  [call |-> call, s |-> 0, rows |-> {}, r |-> 1, held |-> "none", recognizedBy |-> "none",
   results |-> <<>>]

\* A nested verifyCredential.
Nested(kind, doc, options, additional) ==
  Frame([kind |-> kind, doc |-> doc, options |-> options, additional |-> additional,
         challenge |-> "none", unsigned |-> FALSE])

orElse(option, default) == IF option # None THEN option ELSE default

requestedPhases(f) == orElse(f.call.options.phases, config.phases)
registries(f)      == orElse(orElse(f.call.options.registries, config.registries), << <<>> >>)[1]
timing(f)          == orElse(orElse(f.call.options.timing, config.timing), <<FALSE>>)[1]

suitesOf(f) ==
  (IF f.call.kind = "presentation" THEN presentationSuites ELSE defaultSuites) \o f.call.additional

subjectOf(f) ==
  IF f.call.kind = "presentation" THEN "verifiablePresentation" ELSE "verifiableCredential"

hasFatalFailures(rows) == \E row \in rows : row[2] \in {"failed", "halted"}

proofOutcomes(f) == {row[2] : row \in {x \in f.rows : suitesOf(f)[x[1]] = proofSuite}}

\* A result; `proof` and `recognizedBy` abstract its rows. `rejected` (before any
\* suite ran) is history.
Result(f, verified, partial) ==
  [doc |-> f.call.doc, verified |-> verified, partial |-> partial, timing |-> timing(f),
   rejected |-> f.s = 0, proof |-> proofOutcomes(f),
   recognizedBy |-> f.recognizedBy, results |-> f.results]

Init ==
  /\ config \in Config
  /\ cached = "none"
  /\ returned = None
  /\ asked = FALSE
  /\ \E call \in Call : stack = <<Frame(call)>>

top == Last(stack)

current == suitesOf(top)[top.s]

Running == stack # <<>> /\ top.s \in 1..Len(suitesOf(top))

Update(f) == stack' = Front(stack) \o <<f>>

Push(f) == stack' = Append(stack, f)

\* A recognition credential that verifies is cached and held by its lookup; one
\* that does not leaves its registry unchecked.
Recognized(parent, result) ==
  IF result.verified
  THEN LET how == IF result.proof = {"success"} THEN "proven" ELSE "unproven" IN
       /\ cached' = how
       /\ stack' = SubSeq(stack, 1, Len(stack) - 2) \o <<[parent EXCEPT !.held = how]>>
  ELSE /\ UNCHANGED cached
       /\ stack' = SubSeq(stack, 1, Len(stack) - 2) \o <<[parent EXCEPT !.r = @ + 1]>>

\* The running call returns to the caller, or to the call that awaits it.
Deliver(result) ==
  IF Len(stack) = 1
  THEN stack' = <<>> /\ returned' = <<result>> /\ UNCHANGED cached
  ELSE LET parent == stack[Len(stack) - 1] IN
       /\ IF top.call.kind = "recognition"
          THEN Recognized(parent, result)
          ELSE /\ stack' = SubSeq(stack, 1, Len(stack) - 2)
                             \o <<[parent EXCEPT !.results = Append(@, result)]>>
               /\ UNCHANGED cached
       /\ UNCHANGED returned

-----------------------------------------------------------------------------
(* The steps of a call *)

\* The envelope does not parse: a failure, whatever phases were requested.
ParseFails ==
  /\ stack # <<>> /\ top.s = 0
  /\ ~top.call.doc.parses
  /\ Deliver(Result(top, FALSE, FALSE))
  /\ UNCHANGED <<config, asked>>

\* An empty challenge, or a domain without a challenge.
invalidChallengeOptions(call) ==
  call.kind = "presentation" /\ call.challenge \in {"empty", "domain-only"}

OptionsRejected ==
  /\ stack # <<>> /\ top.s = 0
  /\ top.call.doc.parses
  /\ invalidChallengeOptions(top.call)
  /\ Deliver(Result(top, FALSE, FALSE))
  /\ UNCHANGED <<config, asked>>

Begin ==
  /\ stack # <<>> /\ top.s = 0
  /\ top.call.doc.parses
  /\ ~invalidChallengeOptions(top.call)
  /\ Update([top EXCEPT !.s = 1])
  /\ UNCHANGED <<config, cached, returned, asked>>

inPhases(suite, requested) ==
  requested # None /\ suite.phase # None => suite.phase[1] \in expandPhases(requested)[1]

suiteRuns == inPhases(current, requestedPhases(top)) /\ subjectOf(top) \in current.subjects

\* A suite outside the phases, or none of whose checks is for the subject.
PassOver ==
  /\ Running
  /\ ~suiteRuns
  /\ Update([top EXCEPT !.s = @ + 1])
  /\ UNCHANGED <<config, cached, returned, asked>>

isHalted(f) == \E row \in f.rows : row[2] = "halted"

ListNotRun ==
  /\ Running
  /\ suiteRuns
  /\ isHalted(top)
  /\ Update([top EXCEPT !.s = @ + 1, !.rows = @ \cup {<<top.s, "not-run">>}])
  /\ UNCHANGED <<config, cached, returned, asked>>

\* proof.signature needs a proof of a presentation unless the caller waived it,
\* and the validity period is not checked on one.
outcomesOf(f, suite) ==
  IF f.call.kind = "presentation" /\ suite = proofSuite
  THEN IF f.call.doc.signed THEN {"success", "halted"}
       ELSE IF f.call.unsigned THEN {"skipped"} ELSE {"halted"}
  ELSE suite.outcomes

RunSuite(outcome) ==
  /\ Running
  /\ suiteRuns /\ ~isHalted(top)
  /\ Update([top EXCEPT !.s = @ + 1, !.rows = @ \cup {<<top.s, outcome>>}])
  /\ UNCHANGED <<config, cached, returned, asked>>

AtRegistry == Running /\ suiteRuns /\ ~isHalted(top) /\ current = registrySuite

RegistryRow(f, outcome) ==
  [f EXCEPT !.s = @ + 1, !.r = 1, !.held = "none", !.rows = @ \cup {<<f.s, outcome>>}]

\* No registries, or none that listed the issuer.
RegistriesExhausted ==
  /\ AtRegistry
  /\ top.r > Len(registries(top))
  /\ Update(RegistryRow(top, IF registries(top) = <<>> THEN "skipped" ELSE "warning"))
  /\ UNCHANGED <<config, cached, returned, asked>>

AtRegistryOf(type) ==
  AtRegistry /\ top.r <= Len(registries(top)) /\ registries(top)[top.r] = type

\* A registry answers, from the recognition credential it holds if it is one; or
\* it leaves the issuer unchecked; or its handler throws.
RegistryAnswers(answer) ==
  /\ AtRegistryOf("list") \/ (AtRegistryOf("recognition") /\ top.held # "none")
  /\ Update(CASE answer = "found" -> [RegistryRow(top, "success") EXCEPT !.recognizedBy = top.held]
              [] answer = "other" -> [top EXCEPT !.r = @ + 1, !.held = "none"]
              [] OTHER            -> RegistryRow(top, "warning"))
  /\ asked' = TRUE
  /\ UNCHANGED <<config, cached, returned>>

RecognitionCached ==
  /\ AtRegistryOf("recognition") /\ top.held = "none"
  /\ cached # "none"
  /\ Update([top EXCEPT !.held = cached])
  /\ asked' = TRUE
  /\ UNCHANGED <<config, cached, returned>>

\* It is not in the cache, or expired there, and is not fetched or not accepted.
RecognitionUnavailable ==
  /\ AtRegistryOf("recognition") /\ top.held = "none"
  /\ Update([top EXCEPT !.r = @ + 1])
  /\ asked' = TRUE
  /\ UNCHANGED <<config, cached, returned>>

\* Fault: the recognition credential is verified against the same registries.
VerifyRecognitionInherits(credential) ==
  /\ AtRegistryOf("recognition") /\ top.held = "none"
  /\ Push(Nested("recognition", credential,
                 [phases |-> None, registries |-> None, timing |-> None], <<>>))
  /\ asked' = TRUE
  /\ UNCHANGED <<config, cached, returned>>

\* It is fetched, and verified without registries and with no other option.
VerifyRecognition(credential) ==
  /\ AtRegistryOf("recognition") /\ top.held = "none"
  /\ Push(Nested("recognition", credential,
                 [phases |-> None, registries |-> << <<>> >>, timing |-> None], <<>>))
  /\ asked' = TRUE
  /\ UNCHANGED <<config, cached, returned>>

SuitesDone == stack # <<>> /\ top.s > Len(suitesOf(top))

credentialsOf(f) == IF f.call.kind = "presentation" THEN f.call.doc.credentials ELSE <<>>

\* Fault: the nested call gets the options of the constructor.
VerifyEmbeddedDefaults ==
  /\ SuitesDone
  /\ Len(top.results) < Len(credentialsOf(top))
  /\ Push(Nested("credential", credentialsOf(top)[Len(top.results) + 1],
                 [phases |-> None, registries |-> None, timing |-> None], top.call.additional))
  /\ UNCHANGED <<config, cached, returned, asked>>

\* The next credential of the presentation, also when the presentation failed.
VerifyEmbedded ==
  /\ SuitesDone
  /\ Len(top.results) < Len(credentialsOf(top))
  /\ Push(Nested("credential", credentialsOf(top)[Len(top.results) + 1],
                [phases     |-> top.call.options.phases,
                 registries |-> top.call.options.registries,
                 timing     |-> <<timing(top)>>],
                top.call.additional))
  /\ UNCHANGED <<config, cached, returned, asked>>

\* Fault: one verified credential is enough.
AnyCredentialVerified(f) ==
  f.results = <<>> \/ \E i \in 1..Len(f.results) : f.results[i].verified

allCredentialsVerified(f) == \A i \in 1..Len(f.results) : f.results[i].verified

Return ==
  /\ SuitesDone
  /\ Len(top.results) = Len(credentialsOf(top))
  /\ Deliver(Result(top, ~hasFatalFailures(top.rows) /\ allCredentialsVerified(top),
                    requestedPhases(top) # None))
  /\ UNCHANGED <<config, asked>>

Step ==
  \/ ParseFails
  \/ OptionsRejected
  \/ Begin
  \/ PassOver
  \/ ListNotRun
  \/ \E outcome \in SuiteOutcome :
       Running /\ outcome \in outcomesOf(top, current) /\ RunSuite(outcome)
  \/ RegistriesExhausted
  \/ \E answer \in {"found", "other", "threw"} : RegistryAnswers(answer)
  \/ RecognitionCached
  \/ RecognitionUnavailable
  \/ \E parses \in BOOLEAN : VerifyRecognition([id |-> "recognition", parses |-> parses])
  \/ VerifyEmbedded
  \/ Return

Returned == stack = <<>> /\ UNCHANGED vars

Next == Step \/ Returned

Spec == Init /\ [][Next]_vars

-----------------------------------------------------------------------------
(* Types *)

FrameOk(f) ==
  /\ f.s \in 0..(Len(suitesOf(f)) + 1)
  /\ f.call.kind \in {"presentation", "credential", "recognition"}
  /\ f.held \in {"none", "proven", "unproven"}
  /\ \A row, other \in f.rows : row[1] = other[1] => row = other
  /\ Len(f.results) <= Len(credentialsOf(f))

\* Calls nest at most three deep: a presentation, one of its credentials, and the
\* recognition credential that is looked at for it; recognition never recurs,
\* whatever registries the verifier was constructed with.
TypeOK ==
  /\ cached \in {"none", "proven", "unproven"}
  /\ stack = <<>> <=> returned # None
  /\ Len(stack) <= 3
  /\ \A i \in 1..Len(stack) :
       /\ FrameOk(stack[i])
       /\ stack[i].call.kind = "presentation" => i = 1
       /\ stack[i].call.kind = "recognition" =>
            /\ i > 1 /\ stack[i - 1].call.kind = "credential"
            /\ suitesOf(stack[i - 1])[stack[i - 1].s] = registrySuite

-----------------------------------------------------------------------------
(* What a call promises *)

result == returned[1]
reported == [i \in 1..Len(result.results) |-> result.results[i].doc]

\* A credential result that says verified of a credential, over all phases.
Sound(r) == r.verified /\ ~r.partial => r.doc.parses /\ r.proof = {"success"}

\* A verified result that is not flagged as partial means that the document's
\* own proofs were verified (or that the caller waived them), and that every
\* credential of the presentation was, one result for each, in order.  And unless
\* the constructor's own phases leave proofs out, a registry vouches for an issuer
\* only on a recognition credential whose proof was verified, even if the call that
\* asks is itself restricted to a phase without proofs.
VerifiedMeansProven ==
  returned # None =>
    /\ IF "credentials" \in DOMAIN result.doc
       THEN result.verified /\ ~result.partial =>
              /\ result.proof = IF result.doc.signed THEN {"success"} ELSE {"skipped"}
              /\ reported = result.doc.credentials
              /\ \A i \in 1..Len(result.results) :
                   result.results[i].verified /\ ~result.results[i].partial /\ Sound(result.results[i])
       ELSE Sound(result)
    /\ (config.phases = None \/ "cryptographic" \in config.phases[1]) =>
         /\ result.recognizedBy # "unproven"
         /\ \A i \in 1..Len(result.results) : result.results[i].recognizedBy # "unproven"

\* The options of the call reach every credential of the presentation, over those
\* of the constructor: an embedded result has timing iff the call's has, is
\* partial iff the call's is (unless the credential does not parse), and "an empty
\* array [] explicitly disables the registry suite for this call": no nested call
\* asks a registry then, whatever the constructor's registries are.  A presentation
\* whose checks ran has a result for each of its credentials, also when it failed.
OptionsReachCredentials ==
  /\ returned # None =>
       \A i \in 1..Len(result.results) :
         LET r == result.results[i] IN
         /\ r.timing = result.timing
         /\ r.doc.parses => r.partial = result.partial
  /\ returned # None /\ "credentials" \in DOMAIN result.doc /\ ~result.rejected =>
       reported = result.doc.credentials
  /\ asked => \A i \in 1..Len(stack) :
       stack[i].call.kind # "recognition" => stack[i].call.options.registries # << <<>> >>

=============================================================================
