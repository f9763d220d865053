------------------------------ MODULE MCVerifier ------------------------------
(* Small instances of Verifier: presentations of up to two credentials, one of *)
(* which may not parse, verified under every way of giving an option.          *)
EXTENDS Verifier

VC(id, parses) == [id |-> id, parses |-> parses]
VP(parses, signed, credentials) ==
  [parses |-> parses, signed |-> signed, credentials |-> credentials]

Opt(phases, regs, timed) == [phases |-> phases, registries |-> regs, timing |-> timed]

Semantic == MkSuite("openbadges", <<"semantic">>, {"verifiableCredential"}, {"success", "failed"})
Untagged == MkSuite("custom", None, SubjectType, {"success", "halted"})

MCOptions == {
  Opt(None, None, None),
  Opt(<<{"semantic"}>>, None, <<TRUE>>),
  Opt(<<{"trust"}>>, None, None),
  Opt(<<{"cryptographic", "trust"}>>, << <<>> >>, None),
  Opt(None, << <<>> >>, <<FALSE>>)}

MCDocuments == {
  VP(TRUE, TRUE, <<VC("a", TRUE), VC("c", TRUE)>>),
  VP(TRUE, FALSE, <<VC("b", FALSE), VC("a", TRUE)>>),
  VP(FALSE, FALSE, <<>>)}

MCCall ==
  [kind : {"presentation"}, doc : MCDocuments, options : MCOptions,
   additional : {<<Semantic>>, <<Untagged>>}, challenge : {"none", "domain-only"},
   unsigned : BOOLEAN]
  \cup
  [kind : {"credential"}, doc : {VC("a", TRUE), VC("b", FALSE)}, options : MCOptions,
   additional : {<<Untagged>>, <<proofSuite, registrySuite>>}, challenge : {"none"}, unsigned : {FALSE}]

MCConfig == {
  Opt(None, None, None),
  Opt(None, << <<"recognition", "list">> >>, <<FALSE>>),
  Opt(<<{"cryptographic", "trust"}>>, << <<"recognition">> >>, <<TRUE>>)}

=============================================================================
