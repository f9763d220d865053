------------------------- MODULE MCRegistryHandlers --------------------------
(* Small instances of RegistryHandlers: lists and recognition credentials, and *)
(* an OpenID Federation whose keys rotate.  An hour is two ticks.              *)
EXTENDS RegistryHandlers, TLC

CONSTANTS d1, d2, a, b, l1, l2, k1, k2

MkDoc(lists, issuer, until, maxAge, genuine) ==
  [lists |-> lists, issuer |-> issuer, until |-> until, maxAge |-> maxAge, genuine |-> genuine,
   jws |-> <<>>, jwks |-> <<>>]

\* An entity statement: its header, its signer and the keys it publishes.
MkJwt(doc, alg, kid, signer, jwks) ==
  [doc EXCEPT !.jws = <<[malformed |-> FALSE, crit |-> FALSE, typ |-> ENTITY_STATEMENT_TYP,
                         alg |-> alg, kid |-> kid, signer |-> signer]>>,
              !.jwks = jwks]

MkKey(k, kid, family) == [key |-> k, kid |-> kid, family |-> family, importable |-> TRUE]

Critical(doc) == [doc EXCEPT !.jws = <<[doc.jws[1] EXCEPT !.crit = TRUE]>>]

Reg(type, url, accepted) == [type |-> type, url |-> url, acceptedIssuers |-> accepted]

dcc  == Reg("dcc-legacy", "L", {})
rec  == Reg("vc-recognition", "R", {a})
oidf == Reg("oidf", "O", {})

\* Lists and recognition credentials on one cache, or a federation.
MCRegistry       == {dcc, rec, oidf}
MCConfigurations == {{dcc, rec}, {oidf}}

\* A key, and the key that replaces it under the same kid; beside the second
\* one, a key of another family and one the library cannot import.
Before == {MkKey(k1, <<1>>, "P-256")}
After  == {MkKey(k2, <<1>>, "P-256"), MkKey(k1, <<1>>, "other"),
           [MkKey(k1, <<2>>, "P-256") EXCEPT !.importable = FALSE]}

\* max-age zero, and a max-age beyond the hour; a recognition credential that
\* outlives the hour, one that does not, and a forged one; a federation whose
\* keys rotate, with a statement by the old key, one whose kid names no key, and
\* one with a critical extension.
MCPublished ==
  <<"list", "L">> :> {MkDoc({d1}, a, <<>>, <<0>>, TRUE), MkDoc({}, a, <<>>, <<3>>, TRUE)} @@
  <<"list", "R">> :> {MkDoc({d1}, a, <<5>>, <<>>, TRUE), MkDoc({}, a, <<1>>, <<>>, TRUE),
                      MkDoc({d1}, a, <<>>, <<>>, FALSE)} @@
  <<"ec", "O">> :> {MkJwt(MkDoc({}, a, <<2>>, <<>>, TRUE), "ES256", <<1>>, k1, <<Before>>),
                    MkJwt(MkDoc({}, a, <<4>>, <<1>>, TRUE), "ES256", <<1>>, k2, <<After>>)} @@
  <<"statement", "O">> :>
     {MkJwt(MkDoc({d1}, a, <<3>>, <<>>, TRUE), "ES256", <<1>>, k1, <<>>),
      MkJwt(MkDoc({d1}, a, <<2>>, <<>>, TRUE), "ES256", <<3>>, k2, <<>>),
      Critical(MkJwt(MkDoc({d1}, a, <<4>>, <<>>, TRUE), "ES256", <<1>>, k1, <<>>))}

\* Two configurations of one recognition URL that accept different issuers.
MCTwoIssuers     == {rec, Reg("vc-recognition", "R", {b})}
MCBoth           == {MCTwoIssuers}
MCOneUrl         ==
  <<"list", "R">> :> {MkDoc({d1}, a, <<2>>, <<>>, TRUE), MkDoc({d1}, b, <<>>, <<>>, TRUE)}

=============================================================================
