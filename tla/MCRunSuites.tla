----------------------------- MODULE MCRunSuites -----------------------------
(* A small instance of RunSuites: calls built from cut-down versions of the   *)
(* built-in suites and of suites a caller may add.                            *)
EXTENDS RunSuites

MCSegment == SuitePhase \cup {"applies", "unknown", "core", "vp-structure", "proof-exists",
  "profile", "proof", "signature", "validity-period", "openbadges", "schema", "obv3",
  "declared-schema", "custom", "first", "registry", "issuer", "status", "bitstring"}

VC   == "verifiableCredential"
VP   == "verifiablePresentation"
Both == {VC, VP}

MkCheck(id, appliesTo, fatal, halts) ==
  [id |-> id, appliesTo |-> appliesTo, fatal |-> fatal, halts |-> halts]
MkSuite(id, phase, predicate, checks) ==
  [id |-> id, phase |-> phase, predicate |-> predicate, checks |-> checks]

core == MkSuite(<<"core">>, <<"cryptographic">>, FALSE,
  <<MkCheck(<<"core", "vp-structure">>, {VP}, TRUE, TRUE),
    MkCheck(<<"core", "proof-exists">>, {VC}, TRUE, TRUE)>>)

recognition == MkSuite(<<"recognition">>, <<"recognition">>, FALSE,
  <<MkCheck(<<"recognition", "profile">>, {VC}, FALSE, TRUE)>>)

proof == MkSuite(<<"proof">>, <<"cryptographic">>, FALSE,
  <<MkCheck(<<"proof", "signature">>, Both, TRUE, TRUE),
    MkCheck(<<"proof", "validity-period">>, {VC}, TRUE, FALSE)>>)

\* A caller's suite with a predicate, whose fatal check is for credentials.
semantic == MkSuite(<<"openbadges", "schema">>, <<"semantic">>, TRUE,
  <<MkCheck(<<"obv3", "schema">>, {VC}, TRUE, FALSE),
    MkCheck(<<"obv3", "declared-schema">>, {}, FALSE, TRUE)>>)

\* A caller's untagged suite with a predicate and a halting check.
custom == MkSuite(<<"custom">>, None, TRUE,
  <<MkCheck(<<"custom", "first">>, {}, TRUE, TRUE)>>)

SuiteLists == {<<core, recognition, proof>>, <<core, semantic, custom>>,
               <<custom, proof, custom>>, <<proof, semantic, proof>>}

PhaseRequests == {None, <<{"cryptographic"}>>, <<{"semantic", "recognition"}>>}

MCCalls ==
  {[suites |-> l, subject |-> {t}, phases |-> p, explicitSuiteIds |-> e] :
     l \in SuiteLists, t \in Both, p \in PhaseRequests,
     e \in {{}, {semantic.id, custom.id}}}

=============================================================================
