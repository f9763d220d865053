--------------------------- MODULE RegistryHandlers --------------------------
(***************************************************************************)
(* The bundled registry handlers, src/services/registry-handlers/: looking  *)
(* an issuer DID up in one dcc-legacy, vc-recognition or oidf registry.     *)
(* Several lookups run at once and share one cache; each suspends at every  *)
(* fetch and at the verification of a recognition credential, and time      *)
(* passes meanwhile.  What a location serves changes from fetch to fetch.   *)
(*                                                                          *)
(* A fetched document is reduced to what the handlers read of it:           *)
(*   lists    the DIDs it names (for an oidf endpoint, those with a         *)
(*            statement: any other DID gets a 404)                          *)
(*   issuer   who issued it: the issuer of a recognition credential, the    *)
(*            `iss` of an entity statement                                  *)
(*   until    validUntil or exp, <<>> when there is none                    *)
(*   maxAge   the max-age of the response, <<>> when there is none          *)
(*   genuine  well formed; for a recognition credential, with a proof that  *)
(*            verifies                                                      *)
(*   jws      an entity statement's header and signer, <<>> for a document  *)
(*            of another kind                                               *)
(*   jwks     the keys an entity configuration publishes, or <<>>           *)
(***************************************************************************)
EXTENDS InMemoryCache, JwsVerify, FiniteSets

CONSTANTS
  Lookup,           \* the lookups that may be under way
  Did, Entity,      \* issuer DIDs; issuers of documents
  Registry,         \* records [type, url, acceptedIssuers]
  Configurations,   \* the sets of registries the lookups may be configured with
  Published,        \* what each location may publish: a set of documents per location
  DEFAULT_TTL_MS,   \* one hour, in ticks of the clock
  MaxTime           \* bound on the clock

Time == 0..MaxTime

RegistryType == {"dcc-legacy", "vc-recognition", "oidf"}

\* A number that may be absent.
OptionalNat == {x \in Seq(Nat) : Len(x) <= 1}

Doc == [lists : SUBSET Did, issuer : Entity, until : OptionalNat, maxAge : OptionalNat,
        genuine : BOOLEAN, jws : Optional(Jws), jwks : Optional(SUBSET Jwk)]

Location == DOMAIN Published

ASSUME TtlAssumption == DEFAULT_TTL_MS \in Nat \ {0} /\ MaxTime \in Nat
ASSUME PublishedAssumption == \A loc \in Location : Published[loc] \subseteq Doc
ASSUME RegistryAssumption ==
  /\ \A r \in Registry : r.type \in RegistryType /\ r.acceptedIssuers \subseteq Entity
  /\ Configurations \subseteq SUBSET Registry

VARIABLES
  now,          \* the clock, read by the handlers and by the cache
  cache,        \* the shared cache
  configured,   \* the registries the lookups are configured with
  h             \* the lookups

vars == <<now, cache, configured, h>>

-----------------------------------------------------------------------------
(* cache-ttl.ts *)

resolveTtl(ttl) == IF ttl # <<>> /\ ttl[1] > 0 THEN ttl[1] ELSE DEFAULT_TTL_MS

ttlFromValidUntil(until, t) ==
  IF until # <<>> /\ until[1] - t > 0 THEN <<until[1] - t>> ELSE <<>>

lesser(a, b) == IF a <= b THEN a ELSE b

\* Fault: the hour is not enforced on a credential that states a validUntil.
TtlUntilValidUntil(until, t) == resolveTtl(ttlFromValidUntil(until, t))

recognitionTtl(until, t) == lesser(resolveTtl(ttlFromValidUntil(until, t)), DEFAULT_TTL_MS)

ttlBoundedByExp(maxAge, exp, t) == lesser(resolveTtl(maxAge), exp - t)

-----------------------------------------------------------------------------
(* Where documents live: a registry's own URL, or the fetch endpoint its       *)
(* entity configuration names; and the cache keys, which hold nothing else.    *)

ecLocation(r)        == <<"ec", r.url>>
statementLocation(r) == <<"statement", r.url>>
listLocation(r)      == <<"list", r.url>>

cacheKey(r, did, stage) ==
  CASE stage = "ec"        -> <<"oidf:ec", r.url>>
    [] stage = "statement" -> <<"oidf:lookup", r.url, did>>
    [] OTHER               -> <<r.type, r.url>>

location(r, stage) ==
  CASE stage = "ec"        -> ecLocation(r)
    [] stage = "statement" -> statementLocation(r)
    [] OTHER               -> listLocation(r)

\* Where the documents of every registry are looked for, something may be served.
ASSUME LocationAssumption ==
  \A r \in Registry :
    IF r.type = "oidf" THEN {ecLocation(r), statementLocation(r)} \subseteq Location
                       ELSE listLocation(r) \in Location

unexpired(doc, t) == doc.until # <<>> /\ doc.until[1] > t

ENTITY_STATEMENT_TYP == "entity-statement+jwt"

\* Self-signed: against the keys the configuration itself carries.
verifyEntityConfiguration(doc, t) ==
  /\ verifyJws(doc.jws[1], doc.jwks, ENTITY_STATEMENT_TYP)
  /\ doc.genuine
  /\ unexpired(doc, t)

verifySubordinateStatement(doc, ec, did, t) ==
  /\ verifyJws(doc.jws[1], ec.jwks, ENTITY_STATEMENT_TYP)
  /\ doc.issuer = ec.issuer
  /\ did \in doc.lists
  /\ unexpired(doc, t)

\* What the recursive verifyCredential says of a recognition credential, at the
\* instant that verification began.
credentialVerifies(doc, t) == doc.genuine /\ (doc.until # <<>> => t <= doc.until[1])

-----------------------------------------------------------------------------

NoDoc == <<>>

\* What a fetch may bring: NoDoc when it fails or its status is an error.
Serving(loc) == {NoDoc} \cup {<<d>> : d \in Published[loc]}

Init ==
  /\ now = 0
  /\ cache = emptyCache
  /\ configured \in Configurations
  /\ h = [l \in Lookup |-> [pc |-> "idle", registry |-> <<>>, did |-> <<>>, stage |-> "",
                            nowMs |-> 0, ec |-> NoDoc, doc |-> NoDoc, since |-> 0, status |-> ""]]

registry(l) == h[l].registry[1]
did(l)      == h[l].did[1]
key(l)      == cacheKey(registry(l), did(l), h[l].stage)

\* A handler is called; the oidf handler reads its clock here and only here.
Start(l, r, d) ==
  /\ h[l].pc = "idle"
  /\ r \in configured
  /\ h' = [h EXCEPT ![l] = [@ EXCEPT !.pc = "cache", !.registry = <<r>>, !.did = <<d>>,
                                     !.stage = IF r.type = "oidf" THEN "ec" ELSE "list",
                                     !.nowMs = now]]
  /\ UNCHANGED <<now, cache, configured>>

Answer(l, status) == h' = [h EXCEPT ![l] = [@ EXCEPT !.pc = "done", !.status = status]]

\* The handler has the document it decides with, obtained at time t.
Decide(l, doc, t) ==
  h' = [h EXCEPT ![l] = [@ EXCEPT !.pc = "done", !.doc = <<doc>>, !.since = t,
                                  !.status = IF did(l) \in doc.lists THEN "found" ELSE "not-found"]]

\* Fault: the entity configuration is not kept for the statement.
ToStatementForgets(l, doc) ==
  h' = [h EXCEPT ![l] = [@ EXCEPT !.pc = "cache", !.stage = "statement"]]

\* The entity configuration is in hand; the statement is looked up next.
ToStatement(l, doc) ==
  h' = [h EXCEPT ![l] = [@ EXCEPT !.pc = "cache", !.stage = "statement", !.ec = <<doc>>]]

\* Fault: a cached statement is trusted without being verified again.
UsableUnverified(l, doc) == TRUE

\* Whether a cached document is used: entity statements are verified again.
usable(l, doc) ==
  CASE h[l].stage = "ec"        -> verifyEntityConfiguration(doc, h[l].nowMs)
    [] h[l].stage = "statement" ->
         verifySubordinateStatement(doc, h[l].ec[1], did(l), h[l].nowMs)
    [] OTHER                    -> TRUE

CacheHit(l) ==
  /\ h[l].pc = "cache"
  /\ cacheGet(cache, key(l), now) # <<>>
  /\ LET value == cacheGet(cache, key(l), now)[1] IN
     /\ usable(l, value.doc)
     /\ IF h[l].stage = "ec" THEN ToStatement(l, value.doc) ELSE Decide(l, value.doc, value.at)
  /\ UNCHANGED <<now, cache, configured>>

\* Fault: a cached statement that no longer verifies is asked for again.
CacheMissRetries(l) ==
  /\ h[l].pc = "cache"
  /\ cacheGet(cache, key(l), now) # <<>> => ~usable(l, cacheGet(cache, key(l), now)[1].doc)
  /\ h' = IF cacheGet(cache, key(l), now) # <<>> THEN h ELSE [h EXCEPT ![l].pc = "fetch"]
  /\ cache' = cacheAfterGet(cache, key(l), now)
  /\ UNCHANGED <<now, configured>>

CacheMiss(l) ==
  /\ h[l].pc = "cache"
  /\ cacheGet(cache, key(l), now) # <<>> => ~usable(l, cacheGet(cache, key(l), now)[1].doc)
  /\ h' = [h EXCEPT ![l].pc = "fetch"]
  /\ cache' = cacheAfterGet(cache, key(l), now)
  /\ UNCHANGED <<now, configured>>

Store(l, doc, ttl) == cache' = cacheSet(cache, key(l), [doc |-> doc, at |-> now], ttl, now)

\* The response of a dcc-legacy list arrives.
DccFetched(l, response) ==
  /\ h[l].pc = "fetch"
  /\ registry(l).type = "dcc-legacy"
  /\ IF response # NoDoc /\ response[1].genuine
     THEN /\ Store(l, response[1], resolveTtl(response[1].maxAge))
          /\ Decide(l, response[1], now)
     ELSE Answer(l, "unchecked") /\ UNCHANGED cache
  /\ UNCHANGED <<now, configured>>

\* The recognition credential arrives; its verification starts if its issuer is
\* accepted.
RecognitionFetched(l, response) ==
  /\ h[l].pc = "fetch"
  /\ registry(l).type = "vc-recognition"
  /\ IF response # NoDoc /\ response[1].issuer \in registry(l).acceptedIssuers
     THEN h' = [h EXCEPT ![l] = [@ EXCEPT !.pc = "verify", !.doc = response, !.since = now]]
     ELSE Answer(l, "unchecked")
  /\ UNCHANGED <<now, cache, configured>>

\* The recursive verification returns; its verdict is the one of its beginning.
RecognitionVerified(l) ==
  /\ h[l].pc = "verify"
  /\ LET doc == h[l].doc[1] IN
     IF credentialVerifies(doc, h[l].since)
     THEN /\ Store(l, doc, recognitionTtl(doc.until, now))
          /\ Decide(l, doc, now)
     ELSE Answer(l, "unchecked") /\ UNCHANGED cache
  /\ UNCHANGED <<now, configured>>

EntityConfigurationFetched(l, response) ==
  /\ h[l].pc = "fetch"
  /\ h[l].stage = "ec"
  /\ IF response # NoDoc /\ verifyEntityConfiguration(response[1], h[l].nowMs)
     THEN LET doc == response[1] IN
          /\ Store(l, doc, ttlBoundedByExp(doc.maxAge, doc.until[1], h[l].nowMs))
          /\ ToStatement(l, doc)
     ELSE Answer(l, "unchecked") /\ UNCHANGED cache
  /\ UNCHANGED <<now, configured>>

\* The subordinate statement arrives, or a 404 that says there is none.
StatementFetched(l, response) ==
  /\ h[l].pc = "fetch"
  /\ h[l].stage = "statement"
  /\ IF response = NoDoc
     THEN Answer(l, "unchecked") /\ UNCHANGED cache
     ELSE LET doc == response[1] IN
          CASE did(l) \notin doc.lists ->
                 Answer(l, "not-found") /\ UNCHANGED cache
            [] verifySubordinateStatement(doc, h[l].ec[1], did(l), h[l].nowMs) ->
                 /\ Store(l, doc, ttlBoundedByExp(doc.maxAge, doc.until[1], h[l].nowMs))
                 /\ Decide(l, doc, now)
            [] OTHER -> Answer(l, "unchecked") /\ UNCHANGED cache
  /\ UNCHANGED <<now, configured>>

Tick ==
  /\ now < MaxTime
  /\ now' = now + 1
  /\ UNCHANGED <<cache, configured, h>>

\* What the fetch a lookup awaits may bring.
served(l) == IF h[l].pc = "fetch" THEN Serving(location(registry(l), h[l].stage)) ELSE {}

Advance(l) ==
  \/ CacheHit(l)
  \/ CacheMiss(l)
  \/ \E response \in served(l) :
       \/ DccFetched(l, response)
       \/ RecognitionFetched(l, response)
       \/ EntityConfigurationFetched(l, response)
       \/ StatementFetched(l, response)
  \/ RecognitionVerified(l)

Done == (\A l \in Lookup : h[l].pc = "done") /\ UNCHANGED vars

Next ==
  \/ \E l \in Lookup, r \in Registry, d \in Did : Start(l, r, d)
  \/ \E l \in Lookup : Advance(l)
  \/ Tick
  \/ Done

Spec == Init /\ [][Next]_vars

\* A fetch is answered or fails by its deadline, and so does a verification.
FairSpec == Spec /\ \A l \in Lookup : WF_vars(Advance(l))

-----------------------------------------------------------------------------
(* Types *)

Status == {"", "found", "not-found", "unchecked"}

LookupOk(x) ==
  /\ x.pc \in {"idle", "cache", "fetch", "verify", "done"}
  /\ x.pc # "idle" => x.registry[1] \in Registry /\ x.did[1] \in Did
  /\ x.nowMs \in Time /\ x.since \in Time
  /\ x.status \in Status
  /\ x.pc = "done" <=> x.status # ""
  /\ x.stage = "statement" => x.ec # NoDoc /\ x.ec[1] \in Doc
  /\ x.pc = "verify" => x.doc # NoDoc /\ x.registry[1].type = "vc-recognition"
  /\ x.status = "found" => x.doc # NoDoc

\* A lookup holds what the step it is at reads; only documents are cached.
TypeOK ==
  /\ now \in Time
  /\ configured \in Configurations
  /\ \A k \in DOMAIN cache : cache[k].value.doc \in Doc /\ cache[k].value.at \in Time
  /\ \A l \in Lookup : LookupOk(h[l])

-----------------------------------------------------------------------------
(* What the handlers promise *)

typeOf(l) == registry(l).type

\* How long a document may be answered from once it has been accepted.
lifetime(l) ==
  IF typeOf(l) = "vc-recognition" THEN DEFAULT_TTL_MS ELSE resolveTtl(h[l].doc[1].maxAge)

\* "Registry caching is bounded": an answer rests on a document that was
\* fetched and verified no longer before the lookup than the document's
\* lifetime allows, an hour for a recognition credential whatever its
\* validUntil, so that its revocation is noticed.  The cache keeps an entry whose
\* time to live is not positive for ever: no handler ever hands it one, however
\* long its fetches took.
AnswersAreFresh ==
  /\ \A l \in Lookup :
       h[l].pc = "done" /\ h[l].doc # NoDoc /\ h[l].status # "unchecked" =>
         h[l].since + lifetime(l) >= h[l].nowMs
  /\ \A k \in DOMAIN cache : cache[k].expiresAt # <<>>

\* A key a document's signature may be laid to: published, of the header's
\* algorithm, and not passed over for another key that bears the header's kid.
Accountable(doc, keys) ==
  \E k \in keys :
    /\ k.key = doc.jws[1].signer
    /\ isCompatible(k, doc.jws[1].alg)
    /\ k.kid = doc.jws[1].kid
       \/ ~ \E other \in keys : other.kid = doc.jws[1].kid /\ isCompatible(other, doc.jws[1].alg)

\* An oidf "found" rests on a configuration and a statement of the same entity,
\* both unexpired when the lookup began, neither with a critical extension, the
\* statement about this DID, and both signed by a key which that very
\* configuration publishes, whichever of the two came from the cache and
\* although keys rotate, also under an unchanged kid, between lookups.
OidfFoundVerified ==
  \A l \in Lookup :
    h[l].status = "found" /\ typeOf(l) = "oidf" =>
      LET ec  == h[l].ec[1]
          doc == h[l].doc[1]
      IN  /\ did(l) \in doc.lists /\ doc.issuer = ec.issuer
          /\ \A x \in {ec, doc} : /\ x.until # <<>> /\ x.until[1] > h[l].nowMs
                                  /\ ~x.jws[1].crit
                                  /\ Accountable(x, ec.jwks[1])

\* A lookup that has been started answers.
LookupsAnswer == \A l \in Lookup : h[l].pc = "cache" ~> h[l].pc = "done"

\* types/registry.ts: the recognition credential is "verified (proof + issuer
\* match against acceptedIssuers)": a registry answers only from a credential
\* of an issuer it accepts.
AcceptedIssuersEnforced ==
  \A l \in Lookup :
    /\ h[l].status \in {"found", "not-found"}
    /\ typeOf(l) = "vc-recognition"
    => h[l].doc[1].issuer \in registry(l).acceptedIssuers

=============================================================================
