------------------------- MODULE MCDataIntegrityCrypto ------------------------
(* A small instance of DataIntegrityCrypto: one proof of every kind, and pairs *)
(* of proofs that fail each for its own reason.                                *)
EXTENDS DataIntegrityCrypto, TLC

VC == "verifiableCredential"
VP == "verifiablePresentation"

Asked(type, proofs, expects, start, end) ==
  [type |-> type, array |-> Len(proofs) > 1, entries |-> [i \in DOMAIN proofs |-> "proof"],
   proofs |-> proofs, expects |-> expects, start |-> start, end |-> end]

P(purpose, suite, fault, lacks) ==
  [purpose |-> purpose, suite |-> suite, fault |-> fault, lacks |-> lacks]

\* Any one proof, on either kind of document.
One ==
  {Asked(VC, <<P(purpose, suite, fault, {})>>, {}, <<>>, <<>>) :
     purpose \in {"assertionMethod", "authentication"},
     suite \in {"supported", "unsupported", "unloadable"}, fault \in Fault}
  \cup
  {Asked(VP, <<P(purpose, suite, "none", lacks)>>, expects, <<>>, <<>>) :
     purpose \in Purpose, suite \in {"supported", "unsupported", "unloadable"},
     lacks \in SUBSET {"challenge", "domain"},
     expects \in {{}, {"challenge"}, {"challenge", "domain"}}}

\* Credentials that become valid, expire, or both while they are verified.
Dated ==
  {Asked(VC, proofs, {}, start, end) :
     proofs \in {<<P("assertionMethod", "supported", "none", {})>>,
                 <<P("assertionMethod", "supported", "none", {}),
                   P("assertionMethod", "unsupported", "none", {})>>},
     start \in {<<>>, <<1>>}, end \in {<<>>, <<0>>, <<1>>}}

Kinds ==
  {P("authentication", "supported", "none", {}), P("assertionMethod", "supported", "none", {}),
   P("authentication", "supported", "none", {"challenge"}),
   P("authentication", "supported", "forged", {}), P("authentication", "supported", "method", {}),
   P("authentication", "unsupported", "forged", {}),
   P("assertionMethod", "supported", "forged", {})}

Pairs ==
  {Asked(VP, <<x, y>>, expects, <<>>, <<>>) : x, y \in Kinds, expects \in {{}, {"challenge"}}}

\* An array with one proof and an entry that is none.
Ragged ==
  {[Asked(VP, <<x, x>>, {}, <<>>, <<>>) EXCEPT !.entries = <<"other", "proof">>] : x \in Kinds}

MCSubjects == One \cup Dated \cup Pairs \cup Ragged

=============================================================================
