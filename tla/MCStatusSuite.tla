---------------------------- MODULE MCStatusSuite ----------------------------
(* Small instances of StatusSuite: one credential at a time, its entries      *)
(* spread over two lists.                                                     *)
EXTENDS StatusSuite

CONSTANTS k1, u1, u2, i1, i2, none

E(kind, url, purpose) == [kind |-> kind, url |-> url, purpose |-> purpose]

revoke1  == E("checked", u1, "revocation")
suspend1 == E("checked", u1, "suspension")
suspend2 == E("checked", u2, "suspension")
refresh  == E("other-purpose", u2, "revocation")
legacy   == E("other-type", u2, "revocation")
nolist   == E("unlisted", u2, "revocation")
broken   == E("malformed", u2, "revocation")

MCEntries == {<<>>, <<legacy, refresh>>, <<revoke1, broken>>, <<nolist>>, <<revoke1, nolist>>,
              <<revoke1, suspend1>>,
              <<refresh, suspend2, revoke1>>}

MCList == [issuer : Issuer \cup {NoIssuer}, set : SUBSET Purpose]

\* Every credential once, and twice on one context those whose check may fail
\* while a list is still being verified, or that have none to verify.
MCPlan ==
  [issuer : {i1}, entries : MCEntries, runs : {1}]
  \cup [issuer : {i1}, entries : {<<revoke1, nolist>>, <<legacy, refresh>>}, runs : {2}]
  \cup [issuer : {NoIssuer}, entries : {<<revoke1, suspend1>>}, runs : {1}]

=============================================================================
