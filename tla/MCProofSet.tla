------------------------------ MODULE MCProofSet -----------------------------
(* A small instance of ProofSet: every verification by itself, and two of one *)
(* proof set at once.                                                         *)
EXTENDS ProofSet, TLC

CONSTANTS k1, k2

Doc(type, array, entries) == [type |-> type, array |-> array, entries |-> entries]
VC == "verifiableCredential"
VP == "verifiablePresentation"

pair     == Doc(VC, TRUE, <<"proof", "proof">>)
ragged   == Doc(VP, TRUE, <<"proof", "other", "proof">>)
lone     == Doc(VC, TRUE, <<"other", "proof">>)
single   == Doc(VC, FALSE, <<"proof">>)
unsigned == Doc(VP, FALSE, <<>>)
bare     == Doc(VC, TRUE, <<"other">>)

sig   == "signature"
unsup == "unsupported"

Ask(document, accept, checks, answers) ==
  [document |-> document, unsigned |-> accept, checks |-> checks, answers |-> answers]

\* One verification, of every shape of document, with every answer; the other
\* context is idle.
Alone(asked) == (k1 :> asked) @@ (k2 :> Ask(bare, FALSE, <<>>, {}))

MCAlone ==
  {Alone(Ask(d, a, <<sig, unsup>>, dispatchProofVerification)) :
     d \in {pair, ragged, lone, single, unsigned, bare}, a \in BOOLEAN}
  \cup
  {Alone(Ask(d, FALSE, <<unsup, sig, unsup>>, dispatchProofVerification)) :
     d \in {pair, single, unsigned}}

FewAnswers == {Result("verified"), Result("no-service"), Rejected({"OTHER"}, FALSE)}

\* Two verifications of one document, one of which queues the suite twice.
MCShared ==
  {(k1 :> Ask(d, FALSE, c, FewAnswers)) @@ (k2 :> Ask(d, FALSE, <<sig, unsup>>, FewAnswers)) :
     d \in {pair, ragged}, c \in {<<sig, unsup, sig>>, <<sig, unsup>>}}

MCPlans == MCAlone \cup MCShared

=============================================================================
