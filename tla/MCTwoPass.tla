------------------------------ MODULE MCTwoPass ------------------------------
(* A small instance of TwoPass: one suite of every phase and an untagged one. *)
EXTENDS TwoPass

MCSegment == SuitePhase \cup {"applies", "unknown", "core", "vp-structure", "proof-exists",
  "profile", "proof", "signature", "validity-period", "openbadges", "schema", "obv3",
  "declared-schema", "custom", "first", "registry", "issuer", "status", "bitstring"}

VC == "verifiableCredential"

MkCheck(id, fatal, halts) == [id |-> id, appliesTo |-> {VC}, fatal |-> fatal, halts |-> halts]
MkSuite(id, phase, predicate, checks) ==
  [id |-> id, phase |-> phase, predicate |-> predicate, checks |-> checks]

coreSuite        == MkSuite(<<"core">>, <<"cryptographic">>, FALSE,
                      <<MkCheck(<<"core", "proof-exists">>, TRUE, TRUE)>>)
recognitionSuite == MkSuite(<<"recognition">>, <<"recognition">>, FALSE,
                      <<MkCheck(<<"recognition", "profile">>, FALSE, TRUE)>>)
registrySuite    == MkSuite(<<"registry">>, <<"trust">>, FALSE,
                      <<MkCheck(<<"registry", "issuer">>, FALSE, TRUE)>>)
statusSuite      == MkSuite(<<"status">>, <<"cryptographic">>, FALSE,
                      <<MkCheck(<<"status", "bitstring">>, TRUE, FALSE)>>)
schemaSuite      == MkSuite(<<"openbadges", "schema">>, <<"semantic">>, TRUE,
                      <<MkCheck(<<"obv3", "schema">>, TRUE, TRUE)>>)
customSuite      == MkSuite(<<"custom">>, None, TRUE,
                      <<MkCheck(<<"custom", "first">>, TRUE, TRUE)>>)

MCSuites == <<coreSuite, recognitionSuite, registrySuite, statusSuite, schemaSuite, customSuite>>

MCCalls == {[suites |-> MCSuites, subject |-> {VC}, phases |-> None,
             explicitSuiteIds |-> {schemaSuite.id, customSuite.id}]}

SuiteIds == {MCSuites[i].id : i \in 1..Len(MCSuites)}
CheckIds == UNION {{MCSuites[i].checks[j].id : j \in 1..Len(MCSuites[i].checks)} : i \in 1..Len(MCSuites)}

\* The recognition and registry checks cannot change a verdict: one outcome each.
MCWorlds ==
  {[applies |-> a, outcome |-> o] :
     a \in {f \in [SuiteIds -> {"yes", "no", "threw"}] :
              \A i \in SuiteIds \ {schemaSuite.id, customSuite.id} : f[i] = "yes"},
     o \in {f \in [CheckIds -> {Ran("success"), Ran("failure")}] :
              f[<<"registry", "issuer">>] = Ran("success")}}

=============================================================================
