------------------------------ MODULE JwsVerify ------------------------------
(***************************************************************************)
(* src/services/registry-handlers/jws-verify.ts: a compact JWS against the  *)
(* keys of a JWK Set.  A JWS is its protected header and the key it was     *)
(* signed with; whatever cannot be decoded is `malformed`.                  *)
(***************************************************************************)
EXTENDS Naturals, Sequences

CONSTANTS
  Key,    \* key pairs
  Kid     \* key identifiers

\* A header or key member that may be absent.
Optional(S) == {x \in Seq(S) : Len(x) <= 1}

Alg == {"ES256", "EdDSA"}

Jws ==
  [malformed : BOOLEAN, crit : BOOLEAN, typ : {"entity-statement+jwt", "other"},
   alg : Alg \cup {"other"}, kid : Optional(Kid), signer : Key]

\* A published key: `family` is its kty and crv; `importable` when the key
\* library accepts its coordinates.
Jwk == [key : Key, kid : Optional(Kid), family : {"P-256", "Ed25519", "other"},
        importable : BOOLEAN]

isCompatible(jwk, alg) ==
  \/ alg = "ES256" /\ jwk.family = "P-256"
  \/ alg = "EdDSA" /\ jwk.family = "Ed25519"

\* A key the library cannot import throws, and is skipped.
verifyWithJwk(jwk, jws) == jwk.importable /\ jwk.key = jws.signer

\* The keys tried: those of the header's kid, or all when it names none.
candidates(jws, keys) ==
  LET compatible == {k \in keys : isCompatible(k, jws.alg)}
      byKid      == {k \in compatible : k.kid = jws.kid}
  IN  IF byKid # {} THEN byKid ELSE compatible

\* `jwks` is <<>> when the document carries no JWK Set.
verifyJws(jws, jwks, typ) ==
  /\ ~jws.malformed
  /\ ~jws.crit
  /\ jws.typ = typ
  /\ jws.alg \in Alg
  /\ jwks # <<>>
  /\ \E k \in candidates(jws, jwks[1]) : verifyWithJwk(k, jws)

=============================================================================
