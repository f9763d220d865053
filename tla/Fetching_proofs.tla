---------------------------- MODULE Fetching_proofs ----------------------------
(***************************************************************************)
(* Proofs about what is fetched: the registry handlers, for any number of   *)
(* concurrent lookups, registries and DIDs, whatever each location          *)
(* publishes and however long the fetches take; and the HTTP GET service    *)
(* that fetches, for any number of concurrent requests and any URLs,        *)
(* configurations and limits.                                               *)
(***************************************************************************)
EXTENDS RegistryHandlers, HttpGet, SequenceTheorems, TLAPS

-----------------------------------------------------------------------------
(* The registry handlers: the inductive invariant *)

Locals == [pc : {"idle", "cache", "fetch", "verify", "done"}, registry : Optional(Registry),
           did : Optional(Did), stage : {"", "ec", "statement", "list"}, nowMs : Time,
           ec : Optional(Doc), doc : Optional(Doc), since : Time, status : Status]

Entry == [value : [doc : Doc, at : Time], expiresAt : Seq(Nat)]

\* How long a document may be answered from: under a cache key, and to a lookup.
life(k, doc) == IF k[1] = "vc-recognition" THEN DEFAULT_TTL_MS ELSE resolveTtl(doc.maxAge)

lifeFor(r, doc) == IF r.type = "vc-recognition" THEN DEFAULT_TTL_MS ELSE resolveTtl(doc.maxAge)

\* An entry expires, and no later than its document's life after it was stored.
EntryInv(k, e, t) ==
  /\ e \in Entry
  /\ e.value.at <= t
  /\ Len(e.expiresAt) = 1
  /\ e.expiresAt[1] <= e.value.at + life(k, e.value.doc)

\* The stages of a lookup are those of its registry, and it goes on to the
\* statement only with a verified configuration in hand.
StageInv(x) ==
  /\ Len(x.registry) = 1 /\ Len(x.did) = 1
  /\ x.registry[1].type = "oidf" <=> x.stage \in {"ec", "statement"}
  /\ x.registry[1].type # "oidf" <=> x.stage = "list"
  /\ x.stage = "statement" => x.ec # NoDoc /\ verifyEntityConfiguration(x.ec[1], x.nowMs)
  /\ x.pc = "verify" => x.doc # NoDoc /\ x.registry[1].type = "vc-recognition"

\* What a finished lookup answered from was fresh, and for an oidf registry verified.
AnswerInv(x) ==
  /\ x.doc # NoDoc /\ x.status # "unchecked" =>
       x.since + lifeFor(x.registry[1], x.doc[1]) >= x.nowMs
  /\ x.status = "found" => x.doc # NoDoc
  /\ x.status = "found" /\ x.registry[1].type = "oidf" =>
       /\ x.stage = "statement"
       /\ verifySubordinateStatement(x.doc[1], x.ec[1], x.did[1], x.nowMs)

LookupInv(x, t) ==
  /\ x.nowMs <= t
  /\ x.pc = "done" <=> x.status # ""
  /\ x.pc = "idle" => x.stage = ""
  /\ x.pc \in {"idle", "cache", "fetch"} => x.doc = NoDoc
  /\ x.pc # "idle" => StageInv(x)
  /\ x.pc = "done" => AnswerInv(x)

Types ==
  /\ now \in Time
  /\ configured \in Configurations
  /\ h \in [Lookup -> Locals]

CacheInv   == \A k \in DOMAIN cache : EntryInv(k, cache[k], now)
LookupsInv == \A l \in Lookup : LookupInv(h[l], now)

Inv == Types /\ CacheInv /\ LookupsInv

-----------------------------------------------------------------------------
(* Times to live *)

LEMMA TtlBounds ==
  ASSUME NEW ttl \in OptionalNat
  PROVE  resolveTtl(ttl) \in Nat \ {0}
BY TtlAssumption DEF resolveTtl, OptionalNat

\* A recognition credential is kept for some time, and for an hour at most.
LEMMA RecognitionTtlBounds ==
  ASSUME NEW until \in OptionalNat, NEW t \in Nat
  PROVE  recognitionTtl(until, t) \in Nat \ {0} /\ recognitionTtl(until, t) <= DEFAULT_TTL_MS
<1>1. ttlFromValidUntil(until, t) \in OptionalNat
  BY DEF ttlFromValidUntil, OptionalNat
<1>2. resolveTtl(ttlFromValidUntil(until, t)) \in Nat \ {0}
  BY <1>1, TtlBounds
<1> QED
  BY <1>2, TtlAssumption DEF recognitionTtl, lesser

\* A document that has not expired is kept for some time, at most its max-age.
LEMMA BoundedByExp ==
  ASSUME NEW maxAge \in OptionalNat, NEW exp \in Nat, NEW t \in Nat, exp > t
  PROVE  ttlBoundedByExp(maxAge, exp, t) \in Nat \ {0} /\ ttlBoundedByExp(maxAge, exp, t) <= resolveTtl(maxAge)
<1>1. resolveTtl(maxAge) \in Nat \ {0}
  BY TtlBounds
<1> QED
  BY <1>1 DEF ttlBoundedByExp, lesser

LEMMA Unexpired ==
  ASSUME NEW doc \in Doc, NEW t, unexpired(doc, t)
  PROVE  doc.until # <<>> /\ doc.until[1] \in Nat /\ doc.until[1] > t
BY DEF unexpired, Doc, OptionalNat

-----------------------------------------------------------------------------
(* The signature of an entity statement *)

\* A JWS that verifies is signed with a key that was published for it, and has
\* no critical extension.
LEMMA VerifiedIsSigned ==
  ASSUME NEW doc, NEW jwks, NEW typ, verifyJws(doc.jws[1], jwks, typ)
  PROVE  ~doc.jws[1].crit /\ Accountable(doc, jwks[1])
<1> DEFINE jws == doc.jws[1]
<1> DEFINE compatible == {k \in jwks[1] : isCompatible(k, jws.alg)}
<1> DEFINE byKid == {k \in compatible : k.kid = jws.kid}
<1>1. PICK k \in candidates(jws, jwks[1]) : verifyWithJwk(k, jws)
  BY DEF verifyJws
<1>2. k.key = jws.signer
  BY <1>1 DEF verifyWithJwk
<1>3. CASE byKid # {}
  <2>1. k \in byKid
    BY <1>1, <1>3 DEF candidates
  <2> QED
    BY <1>2, <2>1 DEF Accountable, verifyJws
<1>4. CASE byKid = {}
  <2>1. k \in compatible
    BY <1>1, <1>4 DEF candidates
  <2>2. ~ \E other \in jwks[1] : other.kid = jws.kid /\ isCompatible(other, jws.alg)
    BY <1>4
  <2> QED
    BY <1>2, <2>1, <2>2 DEF Accountable, verifyJws
<1> QED
  BY <1>3, <1>4

-----------------------------------------------------------------------------
(* The cache *)

LEMMA Hit ==
  ASSUME NEW k, NEW t, cacheGet(cache, k, t) # <<>>
  PROVE  /\ k \in DOMAIN cache
         /\ cacheGet(cache, k, t)[1] = cache[k].value
         /\ cache[k].expiresAt # <<>> => ~(t > cache[k].expiresAt[1])
<1>1. k \in DOMAIN cache /\ ~isExpired(cache, k, t)
  BY DEF cacheGet
<1>2. cacheGet(cache, k, t) = <<cache[k].value>>
  BY <1>1 DEF cacheGet
<1> QED
  BY <1>1, <1>2 DEF isExpired

LEMMA GetRemoves ==
  ASSUME NEW key_, NEW t, NEW k \in DOMAIN cacheAfterGet(cache, key_, t)
  PROVE  k \in DOMAIN cache /\ cacheAfterGet(cache, key_, t)[k] = cache[k]
BY DEF cacheAfterGet

LEMMA SetAdds ==
  ASSUME NEW key_, NEW value, NEW ttl \in Nat \ {0}, NEW t \in Nat,
         NEW k \in DOMAIN cacheSet(cache, key_, value, ttl, t)
  PROVE  \/ /\ k = key_
            /\ cacheSet(cache, key_, value, ttl, t)[k] = [value |-> value, expiresAt |-> <<t + ttl>>]
         \/ k \in DOMAIN cache /\ cacheSet(cache, key_, value, ttl, t)[k] = cache[k]
BY DEF cacheSet

\* A document stored for a time within its life keeps the cache in order.
LEMMA StoreKeeps ==
  ASSUME Inv, NEW l \in Lookup, NEW doc \in Doc, NEW ttl \in Nat \ {0},
         ttl <= life(key(l), doc), Store(l, doc, ttl), now' = now
  PROVE  CacheInv'
<1> SUFFICES ASSUME NEW k \in DOMAIN cache'
             PROVE  EntryInv(k, cache'[k], now)
  BY DEF CacheInv
<1>1. now \in Time /\ now \in Nat
  BY TtlAssumption DEF Inv, Types, Time
<1> DEFINE value == [doc |-> doc, at |-> now]
<1>2. cache' = cacheSet(cache, key(l), value, ttl, now)
  BY DEF Store
<1> HIDE DEF value
<1>3. CASE k = key(l) /\ cache'[k] = [value |-> value, expiresAt |-> <<now + ttl>>]
  <2>1. life(k, doc) \in Nat
    BY TtlBounds, TtlAssumption DEF life, Doc
  <2>2. value \in [doc : Doc, at : Time] /\ value.doc = doc /\ value.at = now
    BY <1>1 DEF value
  <2>3. cache'[k].value = value /\ cache'[k].expiresAt = <<now + ttl>>
    BY <1>3
  <2>4. cache'[k] \in Entry
    BY <1>1, <1>3, <2>2 DEF Entry
  <2> QED
    BY <1>1, <1>3, <2>1, <2>2, <2>3, <2>4 DEF EntryInv
<1>4. CASE k \in DOMAIN cache /\ cache'[k] = cache[k]
  BY <1>4 DEF Inv, CacheInv
<1> QED
  BY <1>1, <1>2, <1>3, <1>4, SetAdds

-----------------------------------------------------------------------------
(* The steps *)

\* What a lookup holds, and what a stage says of its registry.
LEMMA Holds ==
  ASSUME Inv, NEW l \in Lookup
  PROVE  /\ now \in Nat /\ now \in Time
         /\ h \in [Lookup -> Locals] /\ h[l] \in Locals /\ LookupInv(h[l], now)
         /\ h[l].nowMs \in Nat /\ h[l].nowMs <= now
         /\ h[l].pc # "idle" =>
              /\ StageInv(h[l])
              /\ registry(l) \in Registry /\ did(l) \in Did
<1>1. now \in Nat /\ now \in Time /\ h \in [Lookup -> Locals] /\ LookupInv(h[l], now)
  BY TtlAssumption DEF Inv, Types, LookupsInv, Time
<1>2. h[l] \in Locals
  BY <1>1
<1> DEFINE x == h[l]
<1>3. x.nowMs \in Nat /\ x.nowMs <= now
  <2>1. x.nowMs \in Time
    BY <1>2 DEF Locals
  <2>2. x.nowMs <= now
    BY <1>1 DEF LookupInv
  <2> QED
    BY <2>1, <2>2, TtlAssumption DEF Time
<1>4. ASSUME h[l].pc # "idle"
      PROVE  StageInv(h[l]) /\ registry(l) \in Registry /\ did(l) \in Did
  <2>1. StageInv(x)
    BY <1>1, <1>4 DEF LookupInv
  <2>2. x.registry \in Seq(Registry) /\ x.did \in Seq(Did)
    BY <1>2 DEF Locals, Optional
  <2>3. Len(x.registry) = 1 /\ Len(x.did) = 1
    BY <2>1 DEF StageInv
  <2>4. x.registry[1] \in Registry /\ x.did[1] \in Did
    BY <2>2, <2>3
  <2> QED
    BY <2>1, <2>4 DEF registry, did
<1> QED
  BY <1>1, <1>2, <1>3, <1>4

\* A step of one lookup: it is enough that its new state and the cache are in order.
LEMMA LocalStep ==
  ASSUME Inv, NEW l \in Lookup, NEW y \in Locals, h' = [h EXCEPT ![l] = y],
         UNCHANGED <<now, configured>>, LookupInv(y, now), CacheInv'
  PROVE  Inv'
<1>1. /\ h' \in [Lookup -> Locals]
      /\ \A m \in Lookup : h'[m] = IF m = l THEN y ELSE h[m]
  BY DEF Inv, Types
<1>2. LookupsInv'
  BY <1>1 DEF Inv, LookupsInv
<1> QED
  BY <1>1, <1>2 DEF Inv, Types

LEMMA CacheKept ==
  ASSUME Inv, now' = now, \A k \in DOMAIN cache' : k \in DOMAIN cache /\ cache'[k] = cache[k]
  PROVE  CacheInv'
BY DEF Inv, CacheInv

\* A lookup that gives up, or that is told that there is no statement.
LEMMA AnswerStep ==
  ASSUME Inv, NEW l \in Lookup, h[l].pc = "fetch" \/ h[l].pc = "verify",
         NEW status \in {"unchecked", "not-found"},
         status = "not-found" => h[l].doc = NoDoc,
         Answer(l, status), UNCHANGED <<now, cache, configured>>
  PROVE  Inv'
<1> DEFINE x == h[l]
<1> DEFINE y == [x EXCEPT !.pc = "done", !.status = status]
<1>1. x \in Locals /\ LookupInv(x, now) /\ StageInv(x)
  BY Holds
<1>2. y \in Locals
  BY <1>1 DEF Locals, Status
<1>3. /\ y.pc = "done" /\ y.status = status /\ y.doc = x.doc /\ y.ec = x.ec /\ y.did = x.did
      /\ y.registry = x.registry /\ y.stage = x.stage /\ y.nowMs = x.nowMs
  BY <1>1 DEF Locals
<1>4. h' = [h EXCEPT ![l] = y]
  BY DEF Answer
<1>5. status = "not-found" => x.doc = NoDoc
  OBVIOUS
<1> HIDE DEF x, y
<1>6. StageInv(y)
  BY <1>1, <1>3 DEF StageInv
<1>7. AnswerInv(y)
  BY <1>3, <1>5 DEF AnswerInv
<1>8. LookupInv(y, now)
  BY <1>1, <1>3, <1>6, <1>7 DEF LookupInv
<1>9. CacheInv'
  BY CacheKept
<1> QED
  BY <1>2, <1>4, <1>8, <1>9, LocalStep

\* A lookup that decides with a document obtained at time t.
LEMMA DecideStep ==
  ASSUME Inv, NEW l \in Lookup, h[l].pc # "idle", NEW doc \in Doc, NEW t \in Time,
         Decide(l, doc, t), UNCHANGED <<now, configured>>, CacheInv',
         t + lifeFor(registry(l), doc) >= h[l].nowMs,
         registry(l).type = "oidf" =>
           /\ h[l].stage = "statement"
           /\ verifySubordinateStatement(doc, h[l].ec[1], did(l), h[l].nowMs)
  PROVE  Inv'
<1> DEFINE x == h[l]
<1> DEFINE status == IF did(l) \in doc.lists THEN "found" ELSE "not-found"
<1> DEFINE y == [x EXCEPT !.pc = "done", !.doc = <<doc>>, !.since = t, !.status = status]
<1>1. x \in Locals /\ LookupInv(x, now) /\ StageInv(x)
  BY Holds
<1>2. status \in Status /\ status # ""
  BY DEF Status
<1>3. <<doc>> \in Optional(Doc) /\ <<doc>> # NoDoc /\ <<doc>>[1] = doc
  BY DEF Optional, NoDoc
<1>4. h' = [h EXCEPT ![l] = y]
  BY DEF Decide
<1> HIDE DEF status
<1>5. y \in Locals
  BY <1>1, <1>2, <1>3 DEF Locals
<1>6. /\ y.pc = "done" /\ y.status = status /\ y.doc = <<doc>> /\ y.since = t /\ y.ec = x.ec
      /\ y.did = x.did /\ y.registry = x.registry /\ y.stage = x.stage /\ y.nowMs = x.nowMs
  BY <1>1 DEF Locals
<1>7. y.doc[1] = doc /\ y.doc # NoDoc
  BY <1>3, <1>6
<1>8. /\ t + lifeFor(x.registry[1], doc) >= x.nowMs
      /\ x.registry[1].type = "oidf" =>
           /\ x.stage = "statement"
           /\ verifySubordinateStatement(doc, x.ec[1], x.did[1], x.nowMs)
  BY DEF registry, did
<1> HIDE DEF x, y
<1>9. StageInv(y)
  BY <1>1, <1>6 DEF StageInv
<1>10. AnswerInv(y)
  BY <1>6, <1>7, <1>8 DEF AnswerInv
<1>11. LookupInv(y, now)
  BY <1>1, <1>2, <1>6, <1>9, <1>10 DEF LookupInv
<1> QED
  BY <1>4, <1>5, <1>11, LocalStep

\* A lookup that goes on to the statement with a verified configuration.
LEMMA ToStatementStep ==
  ASSUME Inv, NEW l \in Lookup, h[l].pc \in {"cache", "fetch"}, h[l].stage = "ec", NEW doc \in Doc,
         verifyEntityConfiguration(doc, h[l].nowMs),
         ToStatement(l, doc), UNCHANGED <<now, configured>>, CacheInv'
  PROVE  Inv'
<1> DEFINE x == h[l]
<1> DEFINE y == [x EXCEPT !.pc = "cache", !.stage = "statement", !.ec = <<doc>>]
<1>1. x \in Locals /\ LookupInv(x, now) /\ StageInv(x)
  BY Holds
<1>2. <<doc>> \in Optional(Doc) /\ <<doc>> # NoDoc /\ <<doc>>[1] = doc
  BY DEF Optional, NoDoc
<1>3. h' = [h EXCEPT ![l] = y]
  BY DEF ToStatement
<1>4. y \in Locals
  BY <1>1, <1>2 DEF Locals
<1>5. /\ y.pc = "cache" /\ y.status = x.status /\ y.doc = x.doc /\ y.ec = <<doc>>
      /\ y.did = x.did /\ y.registry = x.registry /\ y.stage = "statement" /\ y.nowMs = x.nowMs
  BY <1>1 DEF Locals
<1>6. x.pc \in {"cache", "fetch"} /\ x.stage = "ec" /\ verifyEntityConfiguration(doc, x.nowMs)
  OBVIOUS
<1> HIDE DEF x, y
<1>7. StageInv(y)
  BY <1>1, <1>2, <1>5, <1>6 DEF StageInv
<1>8. LookupInv(y, now)
  BY <1>1, <1>5, <1>6, <1>7 DEF LookupInv
<1> QED
  BY <1>3, <1>4, <1>8, LocalStep

LEMMA StartStep ==
  ASSUME Inv, NEW l \in Lookup, NEW r \in Registry, NEW d \in Did, Start(l, r, d)
  PROVE  Inv'
<1> DEFINE x == h[l]
<1> DEFINE stage == IF r.type = "oidf" THEN "ec" ELSE "list"
<1> DEFINE y == [x EXCEPT !.pc = "cache", !.registry = <<r>>, !.did = <<d>>, !.stage = stage, !.nowMs = now]
<1>1. x \in Locals /\ LookupInv(x, now) /\ now \in Time /\ now \in Nat /\ x.pc = "idle"
  BY Holds DEF Start
<1>2. /\ <<r>> \in Optional(Registry) /\ Len(<<r>>) = 1 /\ <<r>>[1] = r
      /\ <<d>> \in Optional(Did) /\ Len(<<d>>) = 1
  BY DEF Optional
<1>3. stage \in {"ec", "list"} /\ (stage = "ec" <=> r.type = "oidf")
  OBVIOUS
<1>4. h' = [h EXCEPT ![l] = y]
  BY DEF Start
<1> HIDE DEF stage
<1>5. y \in Locals
  BY <1>1, <1>2, <1>3 DEF Locals
<1>6. /\ y.pc = "cache" /\ y.status = x.status /\ y.registry = <<r>> /\ y.did = <<d>>
      /\ y.stage = stage /\ y.nowMs = now /\ y.doc = x.doc
  BY <1>1 DEF Locals
<1> HIDE DEF x, y
<1>7. StageInv(y)
  BY <1>2, <1>3, <1>6 DEF StageInv
<1>8. LookupInv(y, now)
  <2>1. x.status = "" /\ x.doc = NoDoc
    BY <1>1 DEF LookupInv
  <2>2. y.nowMs <= now
    BY <1>1, <1>6
  <2> QED
    BY <1>6, <1>7, <2>1, <2>2 DEF LookupInv
<1>9. CacheInv' /\ UNCHANGED <<now, configured>>
  BY CacheKept DEF Start
<1> QED
  BY <1>4, <1>5, <1>8, <1>9, LocalStep

LEMMA MissStep ==
  ASSUME Inv, NEW l \in Lookup, CacheMiss(l)
  PROVE  Inv'
<1> DEFINE x == h[l]
<1> DEFINE y == [x EXCEPT !.pc = "fetch"]
<1>1. x \in Locals /\ LookupInv(x, now) /\ x.pc = "cache" /\ StageInv(x)
  BY Holds DEF CacheMiss
<1>2. h' = [h EXCEPT ![l] = y]
  BY DEF CacheMiss
<1>3. y \in Locals
  BY <1>1 DEF Locals
<1>4. /\ y.pc = "fetch" /\ y.status = x.status /\ y.doc = x.doc /\ y.ec = x.ec
      /\ y.did = x.did /\ y.registry = x.registry /\ y.stage = x.stage /\ y.nowMs = x.nowMs
  BY <1>1 DEF Locals
<1> HIDE DEF x, y
<1>5. StageInv(y)
  BY <1>1, <1>4 DEF StageInv
<1>6. LookupInv(y, now)
  BY <1>1, <1>4, <1>5 DEF LookupInv
<1>7. CacheInv' /\ UNCHANGED <<now, configured>>
  BY CacheKept, GetRemoves DEF CacheMiss
<1> QED
  BY <1>2, <1>3, <1>6, <1>7, LocalStep

\* The first component of a cache key tells recognition credentials apart.
LEMMA KeyLife ==
  ASSUME Inv, NEW l \in Lookup, h[l].pc # "idle", NEW doc
  PROVE  life(key(l), doc) = lifeFor(registry(l), doc)
<1>1. StageInv(h[l])
  BY Holds
<1>2. CASE h[l].stage = "ec"
  <2>1. key(l) = <<"oidf:ec", registry(l).url>>
    BY <1>2, Zenon DEF key, cacheKey
  <2> QED
    BY <1>1, <1>2, <2>1 DEF StageInv, registry, life, lifeFor
<1>3. CASE h[l].stage = "statement"
  <2>1. h[l].stage # "ec"
    BY <1>3
  <2>2. key(l) = <<"oidf:lookup", registry(l).url, did(l)>>
    BY <1>3, <2>1, Zenon DEF key, cacheKey
  <2> QED
    BY <1>1, <1>3, <2>2 DEF StageInv, registry, life, lifeFor
<1>4. CASE h[l].stage \notin {"ec", "statement"}
  <2>1. h[l].stage # "ec" /\ h[l].stage # "statement"
    BY <1>4
  <2>2. key(l) = <<registry(l).type, registry(l).url>>
    BY <2>1, Zenon DEF key, cacheKey
  <2> QED
    BY <2>2 DEF life, lifeFor
<1> QED
  BY <1>2, <1>3, <1>4

LEMMA LifeType ==
  ASSUME NEW r, NEW doc \in Doc
  PROVE  lifeFor(r, doc) \in Nat \ {0}
BY TtlBounds, TtlAssumption DEF lifeFor, Doc

\* What a cached document is verified for again before it is used.
LEMMA Usable ==
  ASSUME NEW l, NEW doc, usable(l, doc)
  PROVE  /\ h[l].stage = "ec" => verifyEntityConfiguration(doc, h[l].nowMs)
         /\ h[l].stage = "statement" => verifySubordinateStatement(doc, h[l].ec[1], did(l), h[l].nowMs)
<1>1. CASE h[l].stage = "ec"
  <2>1. h[l].stage # "statement"
    BY <1>1
  <2> QED
    BY <1>1, <2>1, Zenon DEF usable
<1>2. CASE h[l].stage = "statement"
  <2>1. h[l].stage # "ec"
    BY <1>2
  <2> QED
    BY <1>2, <2>1, Zenon DEF usable
<1> QED
  BY <1>1, <1>2

LEMMA HitStep ==
  ASSUME Inv, NEW l \in Lookup, CacheHit(l)
  PROVE  Inv'
<1> DEFINE k == key(l)
<1> DEFINE e == cache[k]
<1>1. h[l].pc = "cache" /\ UNCHANGED <<now, cache, configured>> /\ cacheGet(cache, k, now) # <<>>
  BY DEF CacheHit
<1>2. StageInv(h[l]) /\ now \in Nat /\ h[l].nowMs \in Nat /\ h[l].nowMs <= now
  BY <1>1, Holds
<1>3. /\ k \in DOMAIN cache /\ cacheGet(cache, k, now)[1] = e.value
      /\ e.expiresAt # <<>> => ~(now > e.expiresAt[1])
  BY <1>1, Hit
<1>4. EntryInv(k, e, now)
  BY <1>3 DEF Inv, CacheInv
<1>5. /\ usable(l, e.value.doc)
      /\ IF h[l].stage = "ec" THEN ToStatement(l, e.value.doc) ELSE Decide(l, e.value.doc, e.value.at)
  BY <1>3 DEF CacheHit
<1>6. CacheInv'
  BY <1>1, CacheKept
<1>7. lifeFor(registry(l), e.value.doc) = life(k, e.value.doc)
  BY <1>1, KeyLife
<1> HIDE DEF k, e
<1>8. e.value.doc \in Doc /\ e.value.at \in Time /\ e.value.at \in Nat
  BY <1>4, TtlAssumption DEF EntryInv, Entry, Time
<1>9. e.value.at + lifeFor(registry(l), e.value.doc) >= h[l].nowMs
  <2>1. e.expiresAt[1] \in Nat /\ now <= e.expiresAt[1]
    BY <1>2, <1>3, <1>4 DEF EntryInv, Entry
  <2>2. lifeFor(registry(l), e.value.doc) \in Nat
    BY <1>8, LifeType
  <2> QED
    BY <1>2, <1>4, <1>7, <1>8, <2>1, <2>2 DEF EntryInv
<1>10. CASE h[l].stage = "ec"
  BY <1>1, <1>5, <1>6, <1>8, <1>10, Usable, ToStatementStep
<1>11. CASE h[l].stage # "ec"
  <2>1. registry(l).type = "oidf" => h[l].stage = "statement"
    BY <1>2, <1>11 DEF StageInv, registry
  <2> QED
    BY <1>1, <1>5, <1>6, <1>8, <1>9, <1>11, <2>1, Usable, DecideStep
<1> QED
  BY <1>10, <1>11

\* An optional that is there.
LEMMA Present ==
  ASSUME NEW S, NEW s \in Optional(S), s # NoDoc
  PROVE  s[1] \in S
BY DEF Optional, NoDoc

\* What a fetch brings is a document.
LEMMA Served ==
  ASSUME Inv, NEW l \in Lookup, NEW response \in served(l)
  PROVE  h[l].pc = "fetch" /\ (response # NoDoc => response[1] \in Doc)
<1>1. h[l].pc = "fetch" /\ response \in Serving(location(registry(l), h[l].stage))
  BY DEF served
<1>2. StageInv(h[l]) /\ registry(l) \in Registry
  BY <1>1, Holds
<1>3. location(registry(l), h[l].stage) \in Location
  <2>1. CASE h[l].stage = "ec"
    <3>1. location(registry(l), h[l].stage) = ecLocation(registry(l))
      BY <2>1, Zenon DEF location
    <3>2. registry(l).type = "oidf"
      BY <1>2, <2>1 DEF StageInv, registry
    <3> QED
      BY <1>2, <3>1, <3>2, LocationAssumption
  <2>2. CASE h[l].stage = "statement"
    <3>1. h[l].stage # "ec"
      BY <2>2
    <3>2. location(registry(l), h[l].stage) = statementLocation(registry(l))
      BY <2>2, <3>1, Zenon DEF location
    <3>3. registry(l).type = "oidf"
      BY <1>2, <2>2 DEF StageInv, registry
    <3> QED
      BY <1>2, <3>2, <3>3, LocationAssumption
  <2>3. CASE h[l].stage \notin {"ec", "statement"}
    <3>1. h[l].stage # "ec" /\ h[l].stage # "statement"
      BY <2>3
    <3>2. location(registry(l), h[l].stage) = listLocation(registry(l))
      BY <3>1, Zenon DEF location
    <3>3. registry(l).type # "oidf"
      BY <1>2, <2>3 DEF StageInv, registry
    <3> QED
      BY <1>2, <3>2, <3>3, LocationAssumption
  <2> QED
    BY <2>1, <2>2, <2>3
<1> DEFINE loc == location(registry(l), h[l].stage)
<1> HIDE DEF loc
<1>4. loc \in Location /\ response \in Serving(loc)
  BY <1>1, <1>3 DEF loc
<1>5. ASSUME response # NoDoc
      PROVE  response[1] \in Doc
  <2>1. PICK d \in Published[loc] : response = <<d>>
    BY <1>4, <1>5 DEF Serving
  <2> QED
    BY <1>4, <2>1, PublishedAssumption
<1> QED
  BY <1>1, <1>5

\* A lookup that stores what it fetched or verified just now and decides with it.
LEMMA StoreAndDecide ==
  ASSUME Inv, NEW l \in Lookup, h[l].pc # "idle", NEW doc \in Doc, NEW ttl \in Nat \ {0},
         ttl <= lifeFor(registry(l), doc), Store(l, doc, ttl), Decide(l, doc, now),
         UNCHANGED <<now, configured>>,
         registry(l).type = "oidf" =>
           /\ h[l].stage = "statement"
           /\ verifySubordinateStatement(doc, h[l].ec[1], did(l), h[l].nowMs)
  PROVE  Inv'
<1>1. CacheInv'
  BY KeyLife, StoreKeeps
<1>2. now \in Time /\ now \in Nat /\ h[l].nowMs \in Nat /\ h[l].nowMs <= now
  BY Holds
<1>3. lifeFor(registry(l), doc) \in Nat
  BY LifeType
<1>4. now + lifeFor(registry(l), doc) >= h[l].nowMs
  BY <1>2, <1>3
<1> QED
  BY <1>1, <1>2, <1>4, DecideStep

LEMMA DccStep ==
  ASSUME Inv, NEW l \in Lookup, NEW response \in served(l), DccFetched(l, response)
  PROVE  Inv'
<1>1. /\ h[l].pc = "fetch" /\ h[l].pc # "idle" /\ registry(l).type = "dcc-legacy"
      /\ UNCHANGED <<now, configured>>
  BY DEF DccFetched
<1>2. CASE response # NoDoc /\ response[1].genuine
  <2> DEFINE doc == response[1]
  <2>1. doc \in Doc
    BY <1>2, Served
  <2>2. Store(l, doc, resolveTtl(doc.maxAge)) /\ Decide(l, doc, now)
    BY <1>2 DEF DccFetched
  <2>3. registry(l).type # "vc-recognition" /\ registry(l).type # "oidf"
    BY <1>1
  <2>4. resolveTtl(doc.maxAge) \in Nat \ {0} /\ resolveTtl(doc.maxAge) = lifeFor(registry(l), doc)
    BY <2>1, <2>3, LifeType DEF lifeFor
  <2> DEFINE ttl == resolveTtl(doc.maxAge)
  <2> HIDE DEF doc, ttl
  <2>5. ttl \in Nat \ {0} /\ ttl <= lifeFor(registry(l), doc) /\ Store(l, doc, ttl)
    BY <2>2, <2>4 DEF ttl
  <2> QED
    BY <1>1, <2>1, <2>2, <2>3, <2>5, StoreAndDecide
<1>3. CASE ~(response # NoDoc /\ response[1].genuine)
  <2> DEFINE status == "unchecked"
  <2>1. Answer(l, status) /\ UNCHANGED <<now, cache, configured>>
    BY <1>1, <1>3 DEF DccFetched
  <2>2. status \in {"unchecked", "not-found"} /\ status # "not-found"
    OBVIOUS
  <2> HIDE DEF status
  <2> QED
    BY <1>1, <2>1, <2>2, AnswerStep
<1> QED
  BY <1>2, <1>3

LEMMA RecognitionFetchedStep ==
  ASSUME Inv, NEW l \in Lookup, NEW response \in served(l), RecognitionFetched(l, response)
  PROVE  Inv'
<1>1. /\ h[l].pc = "fetch" /\ h[l].pc # "idle" /\ registry(l).type = "vc-recognition"
      /\ UNCHANGED <<now, cache, configured>>
  BY DEF RecognitionFetched
<1>2. CASE response # NoDoc /\ response[1].issuer \in registry(l).acceptedIssuers
  <2> DEFINE x == h[l]
  <2> DEFINE y == [x EXCEPT !.pc = "verify", !.doc = response, !.since = now]
  <2>1. x \in Locals /\ LookupInv(x, now) /\ StageInv(x) /\ now \in Time
    BY <1>1, Holds
  <2>2. response \in Optional(Doc)
    <3>1. PICK d \in Published[location(registry(l), x.stage)] : response = <<d>>
      BY <1>1, <1>2 DEF served, Serving
    <3>2. d \in Doc
      BY <1>2, <3>1, Served
    <3> QED
      BY <3>1, <3>2 DEF Optional
  <2>3. h' = [h EXCEPT ![l] = y]
    BY <1>2 DEF RecognitionFetched
  <2>4. y \in Locals
    BY <2>1, <2>2 DEF Locals
  <2>5. /\ y.pc = "verify" /\ y.status = x.status /\ y.doc = response /\ y.ec = x.ec
        /\ y.did = x.did /\ y.registry = x.registry /\ y.stage = x.stage /\ y.nowMs = x.nowMs
    BY <2>1 DEF Locals
  <2>6. x.pc = "fetch" /\ x.registry[1].type = "vc-recognition"
    BY <1>1 DEF registry
  <2> HIDE DEF x, y
  <2>7. StageInv(y)
    BY <1>2, <2>1, <2>5, <2>6 DEF StageInv
  <2>8. LookupInv(y, now)
    BY <2>1, <2>5, <2>6, <2>7 DEF LookupInv
  <2>9. CacheInv'
    BY <1>1, CacheKept
  <2> QED
    BY <1>1, <2>3, <2>4, <2>8, <2>9, LocalStep
<1>3. CASE ~(response # NoDoc /\ response[1].issuer \in registry(l).acceptedIssuers)
  <2> DEFINE status == "unchecked"
  <2>1. Answer(l, status)
    BY <1>3 DEF RecognitionFetched
  <2>2. status \in {"unchecked", "not-found"} /\ status # "not-found"
    OBVIOUS
  <2> HIDE DEF status
  <2> QED
    BY <1>1, <2>1, <2>2, AnswerStep
<1> QED
  BY <1>2, <1>3

LEMMA RecognitionVerifiedStep ==
  ASSUME Inv, NEW l \in Lookup, RecognitionVerified(l)
  PROVE  Inv'
<1> DEFINE doc == h[l].doc[1]
<1>1. h[l].pc = "verify" /\ h[l].pc # "idle" /\ UNCHANGED <<now, configured>>
  BY DEF RecognitionVerified
<1>2. /\ h[l] \in Locals /\ h[l].doc # NoDoc /\ registry(l).type = "vc-recognition"
      /\ now \in Nat
  BY <1>1, Holds DEF StageInv, registry
<1>3. doc \in Doc
  <2>1. h[l].doc \in Optional(Doc)
    BY <1>2 DEF Locals
  <2> QED
    BY <1>2, <2>1, Present
<1>4. CASE credentialVerifies(doc, h[l].since)
  <2> DEFINE ttl == recognitionTtl(doc.until, now)
  <2>1. Store(l, doc, ttl) /\ Decide(l, doc, now)
    BY <1>4 DEF RecognitionVerified
  <2>2. doc.until \in OptionalNat
    BY <1>3 DEF Doc
  <2>3. lifeFor(registry(l), doc) = DEFAULT_TTL_MS
    BY <1>2 DEF lifeFor
  <2>4. ttl \in Nat \ {0} /\ ttl <= lifeFor(registry(l), doc)
    BY <1>2, <2>2, <2>3, RecognitionTtlBounds
  <2>5. registry(l).type # "oidf"
    BY <1>2
  <2> HIDE DEF doc, ttl
  <2> QED
    BY <1>1, <1>3, <2>1, <2>4, <2>5, StoreAndDecide
<1>5. CASE ~credentialVerifies(doc, h[l].since)
  <2> DEFINE status == "unchecked"
  <2>1. Answer(l, status) /\ UNCHANGED <<now, cache, configured>>
    BY <1>1, <1>5 DEF RecognitionVerified
  <2>2. status \in {"unchecked", "not-found"} /\ status # "not-found"
    OBVIOUS
  <2> HIDE DEF status
  <2> QED
    BY <1>1, <2>1, <2>2, AnswerStep
<1> QED
  BY <1>4, <1>5

LEMMA ConfigurationStep ==
  ASSUME Inv, NEW l \in Lookup, NEW response \in served(l), EntityConfigurationFetched(l, response)
  PROVE  Inv'
<1>1. /\ h[l].pc = "fetch" /\ h[l].pc # "idle" /\ h[l].stage = "ec"
      /\ UNCHANGED <<now, configured>>
  BY DEF EntityConfigurationFetched
<1>2. CASE response # NoDoc /\ verifyEntityConfiguration(response[1], h[l].nowMs)
  <2> DEFINE doc == response[1]
  <2> DEFINE ttl == ttlBoundedByExp(doc.maxAge, doc.until[1], h[l].nowMs)
  <2>1. doc \in Doc
    BY <1>2, Served
  <2>2. verifyEntityConfiguration(doc, h[l].nowMs) /\ Store(l, doc, ttl) /\ ToStatement(l, doc)
    BY <1>2 DEF EntityConfigurationFetched
  <2> HIDE DEF doc
  <2>3. doc.until[1] \in Nat /\ doc.until[1] > h[l].nowMs /\ doc.maxAge \in OptionalNat
    BY <2>1, <2>2, Unexpired DEF verifyEntityConfiguration, Doc
  <2>4. h[l].nowMs \in Nat /\ registry(l).type = "oidf"
    BY <1>1, Holds DEF StageInv, registry
  <2>5. ttl \in Nat \ {0} /\ ttl <= resolveTtl(doc.maxAge)
    BY <2>3, <2>4, BoundedByExp
  <2> HIDE DEF ttl
  <2>6. life(key(l), doc) = resolveTtl(doc.maxAge)
    <3>1. registry(l).type # "vc-recognition"
      BY <2>4
    <3> QED
      BY <1>1, <3>1, KeyLife DEF lifeFor
  <2>7. CacheInv'
    BY <1>1, <2>1, <2>2, <2>5, <2>6, StoreKeeps
  <2> QED
    BY <1>1, <2>1, <2>2, <2>7, ToStatementStep
<1>3. CASE ~(response # NoDoc /\ verifyEntityConfiguration(response[1], h[l].nowMs))
  <2> DEFINE status == "unchecked"
  <2>1. Answer(l, status) /\ UNCHANGED <<now, cache, configured>>
    BY <1>1, <1>3 DEF EntityConfigurationFetched
  <2>2. status \in {"unchecked", "not-found"} /\ status # "not-found"
    OBVIOUS
  <2> HIDE DEF status
  <2> QED
    BY <1>1, <2>1, <2>2, AnswerStep
<1> QED
  BY <1>2, <1>3

LEMMA StatementStep ==
  ASSUME Inv, NEW l \in Lookup, NEW response \in served(l), StatementFetched(l, response)
  PROVE  Inv'
<1> DEFINE doc == response[1]
<1> DEFINE ttl == ttlBoundedByExp(doc.maxAge, doc.until[1], h[l].nowMs)
<1> DEFINE verified == verifySubordinateStatement(doc, h[l].ec[1], did(l), h[l].nowMs)
<1>1. /\ h[l].pc = "fetch" /\ h[l].pc # "idle" /\ h[l].stage = "statement"
      /\ UNCHANGED <<now, configured>>
  BY DEF StatementFetched
<1>2. ASSUME NEW status \in {"unchecked", "not-found"}, Answer(l, status), UNCHANGED cache
      PROVE  Inv'
  <2>1. h[l].doc = NoDoc
    BY <1>1, Holds DEF LookupInv
  <2> QED
    BY <1>1, <1>2, <2>1, AnswerStep
<1>3. CASE response = NoDoc
  <2>1. Answer(l, "unchecked") /\ UNCHANGED cache
    BY <1>3 DEF StatementFetched
  <2>2. PICK status \in {"unchecked", "not-found"} : status = "unchecked"
    OBVIOUS
  <2> QED
    BY <1>2, <2>1, <2>2
<1>4. CASE response # NoDoc /\ did(l) \notin doc.lists
  <2>0. ~verified
    BY <1>4 DEF verifySubordinateStatement
  <2>1. Answer(l, "not-found") /\ UNCHANGED cache
    BY <1>4, <2>0, Zenon DEF StatementFetched
  <2>2. PICK status \in {"unchecked", "not-found"} : status = "not-found"
    OBVIOUS
  <2> QED
    BY <1>2, <2>1, <2>2
<1>5. CASE response # NoDoc /\ did(l) \in doc.lists /\ verified
  <2>1. ~(did(l) \notin doc.lists)
    BY <1>5
  <2>2. Store(l, doc, ttl) /\ Decide(l, doc, now)
    BY <1>5, <2>1, Zenon DEF StatementFetched
  <2>3. doc \in Doc
    BY <1>5, Served
  <2>4. verifySubordinateStatement(doc, h[l].ec[1], did(l), h[l].nowMs)
    BY <1>5
  <2> HIDE DEF doc
  <2>5. doc.until[1] \in Nat /\ doc.until[1] > h[l].nowMs /\ doc.maxAge \in OptionalNat
    BY <2>3, <2>4, Unexpired DEF verifySubordinateStatement, Doc
  <2>6. h[l].nowMs \in Nat /\ registry(l).type = "oidf"
    BY <1>1, Holds DEF StageInv, registry
  <2>7. ttl \in Nat \ {0} /\ ttl <= resolveTtl(doc.maxAge)
    BY <2>5, <2>6, BoundedByExp
  <2>8. lifeFor(registry(l), doc) = resolveTtl(doc.maxAge)
    BY <2>6 DEF lifeFor
  <2> HIDE DEF ttl
  <2> QED
    BY <1>1, <2>2, <2>3, <2>4, <2>7, <2>8, StoreAndDecide
<1>6. CASE response # NoDoc /\ did(l) \in doc.lists /\ ~verified
  <2>1. ~(did(l) \notin doc.lists)
    BY <1>6
  <2>2. Answer(l, "unchecked") /\ UNCHANGED cache
    BY <1>6, <2>1, Zenon DEF StatementFetched
  <2>3. PICK status \in {"unchecked", "not-found"} : status = "unchecked"
    OBVIOUS
  <2> QED
    BY <1>2, <2>2, <2>3
<1> QED
  BY <1>3, <1>4, <1>5, <1>6

LEMMA TickStep ==
  ASSUME Inv, Tick
  PROVE  Inv'
<1>1. now \in Nat /\ now' = now + 1 /\ now' \in Time /\ UNCHANGED <<cache, configured, h>>
  BY TtlAssumption DEF Inv, Types, Time, Tick
<1>2. CacheInv'
  <2> SUFFICES ASSUME NEW k \in DOMAIN cache
               PROVE  EntryInv(k, cache[k], now + 1)
    BY <1>1 DEF CacheInv
  <2>1. EntryInv(k, cache[k], now)
    BY DEF Inv, CacheInv
  <2>2. cache[k].value.at \in Nat
    BY <2>1, TtlAssumption DEF EntryInv, Entry, Time
  <2> QED
    BY <1>1, <2>1, <2>2 DEF EntryInv
<1>3. LookupsInv'
  <2> SUFFICES ASSUME NEW l \in Lookup
               PROVE  LookupInv(h[l], now + 1)
    BY <1>1 DEF LookupsInv
  <2> DEFINE x == h[l]
  <2>1. LookupInv(x, now) /\ x.nowMs \in Nat /\ x.nowMs <= now
    BY Holds
  <2>2. x.nowMs <= now + 1
    BY <1>1, <2>1
  <2> HIDE DEF x
  <2>3. LookupInv(x, now + 1)
    BY <2>1, <2>2 DEF LookupInv
  <2> QED
    BY <2>3 DEF x
<1> QED
  BY <1>1, <1>2, <1>3 DEF Inv, Types

-----------------------------------------------------------------------------
(* The invariant *)

LEMMA InvInit ==
  ASSUME Init
  PROVE  Inv
<1> DEFINE x == [pc |-> "idle", registry |-> <<>>, did |-> <<>>, stage |-> "", nowMs |-> 0,
                 ec |-> NoDoc, doc |-> NoDoc, since |-> 0, status |-> ""]
<1>1. h = [l \in Lookup |-> x] /\ now = 0 /\ configured \in Configurations /\ cache = emptyCache
  BY DEF Init
<1>2. 0 \in Time
  BY TtlAssumption DEF Time
<1>3. x \in Locals
  BY <1>2 DEF Locals, Optional, NoDoc, Status
<1>4. x.pc = "idle" /\ x.stage = "" /\ x.doc = NoDoc /\ x.status = ""
  OBVIOUS
<1>5. x.nowMs = 0
  OBVIOUS
<1>6. now = 0
  BY DEF Init
<1> HIDE DEF x
<1>7. LookupInv(x, now)
  <2>1. 0 <= 0
    OBVIOUS
  <2>2. x.nowMs <= now
    BY <1>5, <1>6, <2>1, Zenon
  <2> QED
    BY <1>4, <2>2 DEF LookupInv
<1>8. LookupsInv
  BY <1>1, <1>7 DEF LookupsInv
<1>9. CacheInv
  BY <1>1 DEF CacheInv, emptyCache
<1> QED
  BY <1>1, <1>2, <1>3, <1>8, <1>9 DEF Inv, Types

LEMMA AdvanceStep ==
  ASSUME Inv, NEW l \in Lookup, Advance(l)
  PROVE  Inv'
<1>1. CASE CacheHit(l)
  BY <1>1, HitStep
<1>2. CASE CacheMiss(l)
  BY <1>2, MissStep
<1>3. ASSUME NEW response \in served(l),
             \/ DccFetched(l, response)
             \/ RecognitionFetched(l, response)
             \/ EntityConfigurationFetched(l, response)
             \/ StatementFetched(l, response)
      PROVE  Inv'
  BY <1>3, DccStep, RecognitionFetchedStep, ConfigurationStep, StatementStep
<1>4. CASE RecognitionVerified(l)
  BY <1>4, RecognitionVerifiedStep
<1> QED
  BY <1>1, <1>2, <1>3, <1>4 DEF Advance

LEMMA InvInvariant == Spec => []Inv
<1>1. Inv /\ [Next]_vars => Inv'
  <2> SUFFICES ASSUME Inv, [Next]_vars PROVE Inv'
    OBVIOUS
  <2>1. ASSUME NEW l \in Lookup, NEW r \in Registry, NEW d \in Did, Start(l, r, d)
        PROVE  Inv'
    BY <2>1, StartStep
  <2>2. ASSUME NEW l \in Lookup, Advance(l)
        PROVE  Inv'
    BY <2>2, AdvanceStep
  <2>3. CASE Tick
    BY <2>3, TickStep
  <2>4. CASE UNCHANGED vars
    BY <2>4 DEF vars, Inv, Types, CacheInv, LookupsInv
  <2> QED
    BY <2>1, <2>2, <2>3, <2>4 DEF Next, Done
<1> QED
  BY <1>1, InvInit, PTL DEF Spec

\* A lookup holds what the step it is at reads, and only documents are cached,
\* for any registries and whatever their locations serve.
THEOREM TypeCorrect == Spec => []TypeOK
<1>1. Inv => TypeOK
  <2> SUFFICES ASSUME Inv PROVE TypeOK
    OBVIOUS
  <2>1. \A k \in DOMAIN cache : cache[k].value.doc \in Doc /\ cache[k].value.at \in Time
    BY DEF Inv, CacheInv, EntryInv, Entry
  <2>2. ASSUME NEW l \in Lookup PROVE LookupOk(h[l])
    <3> DEFINE x == h[l]
    <3>1. x \in Locals /\ LookupInv(x, now)
      BY Holds
    <3>2. x.pc # "idle" => x.registry[1] \in Registry /\ x.did[1] \in Did
      BY Holds DEF registry, did
    <3>3. x.stage = "statement" => x.ec # NoDoc /\ x.ec[1] \in Doc
      <4>1. x.stage = "statement" => x.ec # NoDoc
        BY <3>1 DEF LookupInv, StageInv
      <4>2. x.ec \in Optional(Doc)
        BY <3>1 DEF Locals
      <4> QED
        BY <4>1, <4>2, Present
    <3>4. /\ x.pc \in {"idle", "cache", "fetch", "verify", "done"}
          /\ x.nowMs \in Time /\ x.since \in Time /\ x.status \in Status
      BY <3>1 DEF Locals
    <3>5. /\ x.pc = "done" <=> x.status # ""
          /\ x.pc = "verify" => x.doc # NoDoc /\ x.registry[1].type = "vc-recognition"
          /\ x.status = "found" => x.doc # NoDoc
      BY <3>1 DEF LookupInv, StageInv, AnswerInv
    <3> HIDE DEF x
    <3>6. LookupOk(x)
      BY <3>2, <3>3, <3>4, <3>5 DEF LookupOk
    <3> QED
      BY <3>6 DEF x
  <2> QED
    BY <2>1, <2>2 DEF Inv, Types, TypeOK
<1> QED
  BY <1>1, InvInvariant, PTL

\* cache-ttl.ts and the handlers: whatever a server's max-age or a credential's
\* validUntil, and however many lookups share the cache, an answer rests on a
\* document no older than its lifetime allows, and no entry is kept for ever.
THEOREM Fresh == Spec => []AnswersAreFresh
<1>1. Inv => AnswersAreFresh
  <2> SUFFICES ASSUME Inv PROVE AnswersAreFresh
    OBVIOUS
  <2>1. ASSUME NEW l \in Lookup, h[l].pc = "done", h[l].doc # NoDoc, h[l].status # "unchecked"
        PROVE  h[l].since + lifetime(l) >= h[l].nowMs
    <3>1. AnswerInv(h[l])
      BY <2>1, Holds DEF LookupInv
    <3>2. lifetime(l) = lifeFor(h[l].registry[1], h[l].doc[1])
      BY DEF lifetime, lifeFor, typeOf, registry
    <3> QED
      BY <2>1, <3>1, <3>2 DEF AnswerInv
  <2>2. ASSUME NEW k \in DOMAIN cache PROVE cache[k].expiresAt # <<>>
    BY DEF Inv, CacheInv, EntryInv, Entry
  <2> QED
    BY <2>1, <2>2 DEF AnswersAreFresh
<1> QED
  BY <1>1, InvInvariant, PTL

\* oidf-handler.ts: a DID is found in a federation only through a configuration
\* and a statement of one entity, both unexpired and signed by a key that this
\* configuration publishes, whatever is cached and whatever keys are published.
THEOREM OidfVerified == Spec => []OidfFoundVerified
<1>1. Inv => OidfFoundVerified
  <2> SUFFICES ASSUME Inv, NEW l \in Lookup, h[l].status = "found", typeOf(l) = "oidf"
               PROVE  LET ec  == h[l].ec[1]
                          doc == h[l].doc[1]
                      IN  /\ did(l) \in doc.lists /\ doc.issuer = ec.issuer
                          /\ \A x \in {ec, doc} : /\ x.until # <<>> /\ x.until[1] > h[l].nowMs
                                                  /\ ~x.jws[1].crit
                                                  /\ Accountable(x, ec.jwks[1])
    BY DEF OidfFoundVerified
  <2> DEFINE ec  == h[l].ec[1]
  <2> DEFINE doc == h[l].doc[1]
  <2>1. LookupInv(h[l], now)
    BY Holds
  <2>2. h[l].pc = "done" /\ h[l].pc # "idle"
    BY <2>1 DEF LookupInv
  <2>3. StageInv(h[l]) /\ AnswerInv(h[l])
    BY <2>1, <2>2 DEF LookupInv
  <2>4. /\ h[l].stage = "statement"
        /\ verifySubordinateStatement(doc, ec, did(l), h[l].nowMs)
    BY <2>3 DEF AnswerInv, typeOf, registry, did
  <2>5. verifyEntityConfiguration(ec, h[l].nowMs)
    BY <2>3, <2>4 DEF StageInv
  <2> HIDE DEF ec, doc
  <2>6. /\ ec.until # <<>> /\ ec.until[1] > h[l].nowMs
        /\ ~ec.jws[1].crit /\ Accountable(ec, ec.jwks[1])
    BY <2>5, VerifiedIsSigned DEF verifyEntityConfiguration, unexpired
  <2>7. /\ did(l) \in doc.lists /\ doc.issuer = ec.issuer
        /\ doc.until # <<>> /\ doc.until[1] > h[l].nowMs
        /\ ~doc.jws[1].crit /\ Accountable(doc, ec.jwks[1])
    BY <2>4, VerifiedIsSigned DEF verifySubordinateStatement, unexpired
  <2>8. ~ec.jws[1].crit /\ ~doc.jws[1].crit
    BY <2>6, <2>7
  <2>9. \A x \in {ec, doc} : x = ec \/ x = doc
    OBVIOUS
  <2>10. \A x \in {ec, doc} : /\ x.until # <<>> /\ x.until[1] > h[l].nowMs
                             /\ ~x.jws[1].crit
                             /\ Accountable(x, ec.jwks[1])
    BY <2>6, <2>7, <2>9
  <2> QED
    BY <2>7, <2>10 DEF ec, doc
<1> QED
  BY <1>1, InvInvariant, PTL

-----------------------------------------------------------------------------
(* The HTTP GET service.  The policy: the bit masks keep out every address     *)
(* that is not public.                                                         *)

Address4 == [1..4 -> Octet]
Address6 == [1..8 -> Group]

\* An octet under a mask that keeps all, none, or the first bits of it.
LEMMA OctetMasked ==
  ASSUME NEW o \in Octet
  PROVE  /\ (o \div 1) * 1 = o
         /\ (o \div 256) * 256 = 0
         /\ o >= 224 => (o \div 16) * 16 \in {224, 240}
         /\ o \in 64..127 => (o \div 64) * 64 = 64
         /\ o \in 16..31 => (o \div 16) * 16 = 16
<1> USE DEF Octet
<1>1. (o \div 1) * 1 = o
  OBVIOUS
<1>2. o \div 256 = 0
  OBVIOUS
<1>3. o >= 224 => o \div 16 \in {14, 15}
  OBVIOUS
<1>4. o \in 64..127 => o \div 64 = 1
  OBVIOUS
<1>5. o \in 16..31 => o \div 16 = 1
  OBVIOUS
<1> QED
  BY <1>1, <1>2, <1>3, <1>4, <1>5

\* How many bits of each octet a prefix keeps, for the prefixes of the list.
LEMMA Kept ==
  ASSUME NEW i \in 1..4, NEW p \in {4, 8, 10, 12, 16, 24, 32}
  PROVE  /\ keptBits(p, i) = 8 <=> p >= 8 * i
         /\ keptBits(p, i) = 0 <=> p <= 8 * (i - 1)
         /\ p = 4 => keptBits(p, 1) = 4
         /\ p = 10 => keptBits(p, 2) = 2
         /\ p = 12 => keptBits(p, 2) = 4
BY DEF keptBits

LEMMA Masked ==
  ASSUME NEW a \in Address4, NEW i \in 1..4, NEW p \in {4, 8, 10, 12, 16, 24, 32}
  PROVE  /\ p >= 8 * i                => masked(a, p)[i] = a[i]
         /\ p <= 8 * (i - 1)          => masked(a, p)[i] = 0
         /\ p = 4  /\ i = 1           => masked(a, p)[i] = (a[i] \div 16) * 16
         /\ p = 10 /\ i = 2           => masked(a, p)[i] = (a[i] \div 64) * 64
         /\ p = 12 /\ i = 2           => masked(a, p)[i] = (a[i] \div 16) * 16
<1> DEFINE low(k) == 2 ^ (8 - k)
<1>1. masked(a, p)[i] = (a[i] \div low(keptBits(p, i))) * low(keptBits(p, i))
  BY DEF masked
<1>2. a[i] \in Octet
  BY DEF Address4
<1>3. low(8) = 1 /\ low(0) = 256 /\ low(2) = 64 /\ low(4) = 16
  OBVIOUS
<1> HIDE DEF low
<1> QED
  BY <1>1, <1>2, <1>3, Kept, OctetMasked

\* An address agrees with a network under a mask when each octet does.
LEMMA InRange ==
  ASSUME NEW a \in Address4, NEW range \in IPV4_BLOCKED,
         \A i \in 1..4 : masked(a, range.prefix)[i] = masked(range.network, range.prefix)[i]
  PROVE  ~checkIpv4(a)
BY DEF checkIpv4, masked

\* The octets the list of refused addresses names, as an address begins.
LEMMA Begins ==
  ASSUME NEW a \in Address4
  PROVE  /\ \A x, low, high \in Octet :
              Between(a, <<x>>, low, high) => a[1] = x /\ a[2] \in low..high
         /\ \A x, y, low, high \in Octet :
              Between(a, <<x, y>>, low, high) => a[1] = x /\ a[2] = y /\ a[3] \in low..high
<1>1. \A i \in 1..4 : a[i] \in Octet
  BY DEF Address4
<1>2. /\ SubSeq(a, 1, 1)[1] = a[1]
      /\ SubSeq(a, 1, 2)[1] = a[1] /\ SubSeq(a, 1, 2)[2] = a[2]
  <2>1. \A i \in 1..1 : SubSeq(a, 1, 1)[i] = a[1 + i - 1]
    BY <1>1, SubSeqProperties
  <2>2. \A i \in 1..2 : SubSeq(a, 1, 2)[i] = a[1 + i - 1]
    BY <1>1, SubSeqProperties
  <2> QED
    BY <2>1, <2>2
<1>3. ASSUME NEW x \in Octet, NEW low \in Octet, NEW high \in Octet,
             Between(a, <<x>>, low, high)
      PROVE  a[1] = x /\ a[2] \in low..high
  <2>1. Len(<<x>>) = 1 /\ <<x>>[1] = x
    OBVIOUS
  <2>2. SubSeq(a, 1, 1) = <<x>> /\ a[1 + 1] \in low..high
    BY <1>3, <2>1 DEF Between
  <2>3. a[1] = <<x>>[1]
    BY <1>2, <2>2
  <2>4. a[2] \in low..high
    BY <2>2
  <2> QED
    BY <2>1, <2>3, <2>4
<1>4. ASSUME NEW x \in Octet, NEW y \in Octet, NEW low \in Octet, NEW high \in Octet,
             Between(a, <<x, y>>, low, high)
      PROVE  a[1] = x /\ a[2] = y /\ a[3] \in low..high
  <2>1. Len(<<x, y>>) = 2 /\ <<x, y>>[1] = x /\ <<x, y>>[2] = y
    OBVIOUS
  <2>2. SubSeq(a, 1, 2) = <<x, y>> /\ a[2 + 1] \in low..high
    BY <1>4, <2>1 DEF Between
  <2>3. a[1] = <<x, y>>[1] /\ a[2] = <<x, y>>[2]
    BY <1>2, <2>2
  <2>4. a[3] \in low..high
    BY <2>2
  <2> QED
    BY <2>1, <2>3, <2>4
<1> QED
  BY <1>3, <1>4

\* The first octets decide for a prefix of whole octets.
LEMMA WholeOctets ==
  ASSUME NEW a \in Address4, NEW n \in Address4, NEW p \in {8, 16, 24, 32},
         \A i \in 1..4 : p >= 8 * i => a[i] = n[i]
  PROVE  \A i \in 1..4 : masked(a, p)[i] = masked(n, p)[i]
<1> TAKE i \in 1..4
<1>1. CASE p >= 8 * i
  BY <1>1, Masked
<1>2. CASE p <= 8 * (i - 1)
  BY <1>2, Masked
<1> QED
  BY <1>1, <1>2

LEMMA Refused4 ==
  ASSUME NEW a \in Address4, NotPublic4(a)
  PROVE  ~checkIpv4(a)
<1> DEFINE range(x, y, z, w, p) == Cidr(<<x, y, z, w>>, p)
<1>1. /\ a[1] \in Octet /\ a[2] \in Octet /\ a[3] \in Octet /\ a[4] \in Octet
      /\ a[1] \in 0..255 /\ a[2] \in 0..255
  BY DEF Address4, Octet
<1>2. \A x, y, z, w \in Octet : <<x, y, z, w>> \in Address4
  BY DEF Address4
<1>0. \A x \in {0, 16, 31, 63, 64, 100, 127, 129, 168, 169, 172, 192, 224, 240, 254} : x \in Octet
  BY DEF Octet
<1>3. CASE a[1] \in {0, 10, 127}
  <2> DEFINE net == <<a[1], 0, 0, 0>>
  <2>1. Cidr(net, 8) \in IPV4_BLOCKED
    BY <1>3 DEF IPV4_BLOCKED
  <2>2. net \in Address4 /\ net[1] = a[1]
    BY <1>0, <1>1, <1>2
  <2>3. \A i \in 1..4 : masked(a, 8)[i] = masked(net, 8)[i]
    BY <2>2, WholeOctets
  <2> HIDE DEF net
  <2> QED
    BY <2>1, <2>3, InRange DEF Cidr
<1>4. CASE a[1] >= 224
  <2> DEFINE net(x) == <<x, 0, 0, 0>>
  <2> DEFINE x == (a[1] \div 16) * 16
  <2>1. x \in {224, 240}
    BY <1>1, <1>4, OctetMasked
  <2>2. Cidr(net(x), 4) \in IPV4_BLOCKED
    BY <2>1 DEF IPV4_BLOCKED
  <2>3. net(x) \in Address4 /\ net(x)[1] = x
    BY <1>0, <1>2, <2>1
  <2>4. (x \div 16) * 16 = x
    BY <2>1
  <2> HIDE DEF net
  <2>5. \A i \in 1..4 : masked(a, 4)[i] = masked(net(x), 4)[i]
    <3> TAKE i \in 1..4
    <3>1. CASE i = 1
      BY <3>1, <2>3, <2>4, Masked
    <3>2. CASE i > 1
      BY <3>2, <2>3, Masked
    <3> QED
      BY <3>1, <3>2
  <2> QED
    BY <2>2, <2>5, InRange DEF Cidr
<1>5. CASE Between(a, <<172>>, 16, 31)
  <2> DEFINE net == <<172, 16, 0, 0>>
  <2>1. Cidr(net, 12) \in IPV4_BLOCKED
    BY DEF IPV4_BLOCKED
  <2>2. net \in Address4 /\ net[1] = 172 /\ net[2] = 16
    BY <1>0, <1>2
  <2> HIDE DEF net
  <2>3. a[1] = 172 /\ a[2] \in 16..31
    BY <1>5, <1>0, Begins
  <2>4. (a[2] \div 16) * 16 = 16 /\ (net[2] \div 16) * 16 = 16
    BY <1>1, <2>2, <2>3, OctetMasked DEF Octet
  <2>5. \A i \in 1..4 : masked(a, 12)[i] = masked(net, 12)[i]
    <3> TAKE i \in 1..4
    <3> QED
      BY <2>2, <2>3, <2>4, Masked
  <2> QED
    BY <2>1, <2>5, InRange DEF Cidr
<1>6. CASE Between(a, <<100>>, 64, 127)
  <2> DEFINE net == <<100, 64, 0, 0>>
  <2>1. Cidr(net, 10) \in IPV4_BLOCKED
    BY DEF IPV4_BLOCKED
  <2>2. net \in Address4 /\ net[1] = 100 /\ net[2] = 64
    BY <1>0, <1>2
  <2> HIDE DEF net
  <2>3. a[1] = 100 /\ a[2] \in 64..127
    BY <1>6, <1>0, Begins
  <2>4. (a[2] \div 64) * 64 = 64 /\ (net[2] \div 64) * 64 = 64
    BY <1>1, <2>2, <2>3, OctetMasked DEF Octet
  <2>5. \A i \in 1..4 : masked(a, 10)[i] = masked(net, 10)[i]
    <3> TAKE i \in 1..4
    <3> QED
      BY <2>2, <2>3, <2>4, Masked
  <2> QED
    BY <2>1, <2>5, InRange DEF Cidr
<1>7. CASE \/ Between(a, <<192>>, 168, 168) \/ Between(a, <<169>>, 254, 254)
  <2> DEFINE net == <<a[1], a[2], 0, 0>>
  <2>1. \/ a[1] = 192 /\ a[2] = 168
        \/ a[1] = 169 /\ a[2] = 254
    BY <1>7, <1>0, Begins
  <2>2. Cidr(net, 16) \in IPV4_BLOCKED
    BY <2>1 DEF IPV4_BLOCKED
  <2>3. net \in Address4 /\ net[1] = a[1] /\ net[2] = a[2]
    BY <1>0, <1>1, <1>2
  <2> HIDE DEF net
  <2>4. \A i \in 1..4 : masked(a, 16)[i] = masked(net, 16)[i]
    BY <2>3, WholeOctets
  <2> QED
    BY <2>2, <2>4, InRange DEF Cidr
<1>8. CASE Between(a, <<192, 0>>, 0, 0)
  <2> DEFINE net == <<192, 0, 0, 0>>
  <2>1. a[1] = 192 /\ a[2] = 0 /\ a[3] = 0
    BY <1>8, <1>0, Begins
  <2>2. Cidr(net, 24) \in IPV4_BLOCKED
    BY DEF IPV4_BLOCKED
  <2>3. net \in Address4 /\ net[1] = 192 /\ net[2] = 0 /\ net[3] = 0
    BY <1>0, <1>2
  <2> HIDE DEF net
  <2>4. \A i \in 1..4 : masked(a, 24)[i] = masked(net, 24)[i]
    BY <2>1, <2>3, WholeOctets
  <2> QED
    BY <2>2, <2>4, InRange DEF Cidr
<1>9. CASE a = <<168, 63, 129, 16>>
  <2>1. Cidr(a, 32) \in IPV4_BLOCKED
    BY <1>9 DEF IPV4_BLOCKED
  <2> QED
    BY <2>1, InRange DEF Cidr
<1> QED
  BY <1>3, <1>4, <1>5, <1>6, <1>7, <1>8, <1>9 DEF NotPublic4

\* The two halves of a group are octets.
LEMMA Halves ==
  ASSUME NEW n \in Group
  PROVE  n \div 256 \in Octet /\ n % 256 \in Octet
<1>1. n \in Nat /\ n < 65536
  BY SMT DEF Group
<1>2. n \div 256 \in Nat /\ n \div 256 <= 255
  BY <1>1
<1>3. n % 256 \in 0..255
  BY <1>1
<1>4. n \div 256 \in 0..255
  BY <1>2
<1> QED
  BY <1>3, <1>4 DEF Octet

\* The octets two groups embed are octets.
LEMMA EmbeddedType ==
  ASSUME NEW high \in Group, NEW low \in Group
  PROVE  embedded(high, low) \in Address4
<1>1. \A x, y, z, w \in Octet : <<x, y, z, w>> \in Address4
  BY DEF Address4
<1> QED
  BY <1>1, Halves DEF embedded

\* The ranges of first groups that prefixes of 7, 8 and 10 bits stand for.
LEMMA Prefixed ==
  ASSUME NEW g \in Group
  PROVE  /\ g \in 64512..65023 => prefixed(g, 7) = 64512
         /\ g \in 65152..65279 => prefixed(g, 10) \in {65152, 65216}
         /\ g \in 65280..65535 => prefixed(g, 8) = 65280
<1>1. 2 ^ (16 - 7) = 512 /\ 2 ^ (16 - 10) = 64 /\ 2 ^ (16 - 8) = 256
  OBVIOUS
<1>2. /\ prefixed(g, 7) = (g \div 512) * 512
      /\ prefixed(g, 10) = (g \div 64) * 64
      /\ prefixed(g, 8) = (g \div 256) * 256
  BY <1>1 DEF prefixed
<1>3. ASSUME g \in 64512..65023
      PROVE  g \div 512 = 126
  BY <1>3
<1>4. ASSUME g \in 65152..65279
      PROVE  g \div 64 \in {1018, 1019}
  BY <1>4
<1>5. ASSUME g \in 65280..65535
      PROVE  g \div 256 = 255
  BY <1>5
<1> QED
  BY <1>2, <1>3, <1>4, <1>5

LEMMA Refused6 ==
  ASSUME NEW g \in Address6, NotPublic6(g)
  PROVE  ~checkIpv6(g)
<1>1. \A i \in 1..8 : g[i] \in Group
  BY DEF Address6
<1> DEFINE low    == \A i \in 1..5 : g[i] = 0 /\ g[6] \in {0, 65535}
           well   == g[1] = 100 /\ g[2] = 65435 /\ \A i \in 3..6 : g[i] = 0
           tunnel == g[1] = 8194
<1>2. /\ mapped(g) <=> low
      /\ (nat64(g) /\ \A i \in 3..6 : g[i] = 0) <=> well
  BY DEF mapped, nat64, zerosUpTo
<1>3. CASE low \/ well
  <2>1. LeadsTo(g) = <<embedded(g[7], g[8])>>
    BY <1>3 DEF LeadsTo
  <2>2. g[1] \in {0, 100} /\ ~(g[1] = 100 /\ g[2] = 65435 /\ g[3] = 1)
    BY <1>3
  <2>3. NotPublic4(embedded(g[7], g[8]))
    BY <2>1, <2>2 DEF NotPublic6
  <2>5. embedded(g[7], g[8]) \in Address4
    BY <1>1, EmbeddedType
  <2>4. ~checkIpv4(embedded(g[7], g[8]))
    BY <2>3, <2>5, Refused4
  <2> QED
    BY <1>2, <1>3, <2>4 DEF checkIpv6
<1>4. CASE ~low /\ ~well /\ tunnel
  <2>1. LeadsTo(g) = <<embedded(g[2], g[3])>>
    BY <1>4 DEF LeadsTo
  <2>2. NotPublic4(embedded(g[2], g[3]))
    BY <1>4, <2>1 DEF NotPublic6
  <2>4. embedded(g[2], g[3]) \in Address4
    BY <1>1, EmbeddedType
  <2>3. ~checkIpv4(embedded(g[2], g[3]))
    BY <2>2, <2>4, Refused4
  <2> QED
    BY <1>2, <1>4, <2>3 DEF checkIpv6
<1>5. CASE ~low /\ ~well /\ ~tunnel
  <2>1. LeadsTo(g) = <<>>
    BY <1>5 DEF LeadsTo
  <2>2. \/ g[1] \in 64512..65023 \/ g[1] \in 65152..65279 \/ g[1] \in 65280..65535
        \/ g[1] = 100 /\ g[2] = 65435 /\ g[3] = 1
    BY <2>1 DEF NotPublic6
  <2>3. g[1] \in Group
    BY <1>1
  <2>4. reserved6(g)
    BY <2>2, <2>3, Prefixed DEF reserved6, nat64
  <2> QED
    BY <1>2, <1>5, <2>4 DEF checkIpv6
<1> QED
  BY <1>3, <1>4, <1>5

\* The policy as the code computes it refuses whatever may not be asked for.
LEMMA PolicySound ==
  ASSUME NEW url \in ParsedUrl, NEW allowInsecure \in BOOLEAN, checkUrl(url, allowInsecure)
  PROVE  \/ allowInsecure /\ url.scheme \in {"https", "http"}
         \/ url.scheme = "https" /\ ~NotPublic(url.host)
<1>1. CASE allowInsecure
  BY <1>1 DEF checkUrl
<1>2. CASE ~allowInsecure
  <2>1. url.scheme = "https"
    BY <1>2 DEF checkUrl
  <2>2. \/ url.host.kind \in {"name", "localhost"}
        \/ url.host.kind = "v4" /\ url.host.at \in Address4
        \/ url.host.kind = "v6" /\ url.host.at \in Address6
    BY DEF ParsedUrl, Address4, Address6
  <2>3. CASE url.host.kind = "v4" /\ url.host.at \in Address4
    BY <1>2, <2>3, Refused4 DEF checkUrl, NotPublic
  <2>4. CASE url.host.kind = "v6" /\ url.host.at \in Address6
    BY <1>2, <2>4, Refused6 DEF checkUrl, NotPublic
  <2>5. CASE url.host.kind \in {"name", "localhost"}
    BY <1>2, <2>5 DEF checkUrl, NotPublic
  <2> QED
    BY <2>1, <2>2, <2>3, <2>4, <2>5
<1> QED
  BY <1>1, <1>2

\* A URL the service allows is one that may be asked for.
LEMMA AllowedReachable ==
  ASSUME network \in Networks, NEW url \in Url, assertAllowed(url)
  PROVE  Reachable(url)
<1>1. network.allowInsecure \in BOOLEAN /\ network.at[url] \in ParsedUrl
  BY NetworkAssumption
<1> QED
  BY <1>1, PolicySound DEF assertAllowed, Reachable

-----------------------------------------------------------------------------
(* The HTTP GET service: the inductive invariant *)

OptionalUrl == {<<>>} \cup {<<u>> : u \in Url}

RequestType ==
  [pc : {"idle", "hop", "sent", "reached", "read", "done", "failed", "timed-out"},
   current : OptionalUrl, reached : OptionalUrl,
   redirects : 0..MAX_REDIRECTS, total : 0..maxBytes,
   sent : Seq([url : Url, mode : {"follow", "manual"}])]

\* What is set by the time it is used.
Filled(x) ==
  /\ x.pc # "idle" => x.current # <<>>
  /\ x.pc = "sent" => x.sent # <<>> /\ x.sent[Len(x.sent)].url = x.current[1]
  /\ x.pc \in {"reached", "read", "done"} => x.reached # <<>>

\* Whatever was asked for had been judged, and only a browser was told to follow
\* by itself.
SentJudged(x) ==
  \A i \in 1..Len(x.sent) :
    assertAllowed(x.sent[i].url) /\ (x.sent[i].mode = "follow" => runtime = "browser")

\* The URL asked for is an allowed one while the one reached is yet to be judged,
\* and from then on the one reached is.
DeliveryJudged(x) ==
  /\ x.pc = "reached" => assertAllowed(x.current[1])
  /\ x.pc \in {"read", "done"} => assertAllowed(x.reached[1])

\* On Node every request but the first was paid for by a redirect, and a hop not
\* yet taken has been paid for already.
HopsCounted(x) ==
  runtime = "node" =>
    /\ Len(x.sent) <= x.redirects + 1
    /\ x.pc \in {"idle", "hop"} => Len(x.sent) <= x.redirects

RequestInv(x) == Filled(x) /\ SentJudged(x) /\ DeliveryJudged(x) /\ HopsCounted(x)

\* Only a browser sets the shared flag.
FlagInv == followsRedirects \in BOOLEAN /\ (followsRedirects => runtime = "browser")

HttpInv ==
  /\ runtime \in Runtime
  /\ network \in Networks
  /\ FlagInv
  /\ q \in [Request -> RequestType]
  /\ \A g \in Request : RequestInv(q[g])

\* A step of one request that leaves that request as it must be preserves the
\* invariant: the other requests share nothing with it but the flag.
LEMMA OneRequest ==
  ASSUME HttpInv, NEW g \in Request, NEW x \in RequestType, RequestInv(x),
         q' = [q EXCEPT ![g] = x], UNCHANGED <<runtime, network>>, FlagInv'
  PROVE  HttpInv'
<1>1. q' \in [Request -> RequestType]
  BY DEF HttpInv
<1>2. ASSUME NEW other \in Request
      PROVE  RequestInv(q[other])'
  <2>1. PICK y \in RequestType : q'[other] = y /\ RequestInv(y)
    BY DEF HttpInv
  <2>2. Filled(q[other])' /\ DeliveryJudged(q[other])' /\ HopsCounted(q[other])'
    BY <2>1 DEF RequestInv, Filled, DeliveryJudged, HopsCounted, assertAllowed
  <2>3. SentJudged(q[other])'
    BY <2>1 DEF RequestInv, SentJudged, assertAllowed
  <2> QED
    BY <2>2, <2>3 DEF RequestInv
<1>3. FlagInv' /\ runtime' \in Runtime /\ network' \in Networks
  BY DEF HttpInv
<1> QED
  BY <1>1, <1>2, <1>3 DEF HttpInv

\* A request with one more made of it, for a URL that has been judged.
LEMMA SendStep ==
  ASSUME NEW x \in RequestType, RequestInv(x), x.pc \in {"hop", "sent"},
         NEW mode \in {"follow", "manual"}, mode = "follow" => runtime = "browser",
         assertAllowed(x.current[1]), runtime = "node" => x.pc = "hop"
  PROVE  Send(x, mode) \in RequestType /\ RequestInv(Send(x, mode))
<1> DEFINE get == [url |-> x.current[1], mode |-> mode]
           y   == Send(x, mode)
<1>1. x.current # <<>> /\ x.current[1] \in Url
  <2>1. x.current # <<>>
    BY DEF RequestInv, Filled
  <2>2. \E u \in Url : x.current = <<u>>
    BY <2>1 DEF RequestType, OptionalUrl
  <2> QED
    BY <2>1, <2>2
<1>2. get \in [url : Url, mode : {"follow", "manual"}]
  BY <1>1
<1>3. x.sent \in Seq([url : Url, mode : {"follow", "manual"}])
  BY DEF RequestType
<1> HIDE DEF get
<1>4. /\ y.sent = Append(x.sent, get) /\ y.pc = "sent"
      /\ y.current = x.current /\ y.reached = x.reached
      /\ y.redirects = x.redirects /\ y.total = x.total
  BY DEF Send, RequestType, get
<1>5. y \in RequestType
  <2>1. Append(x.sent, get) \in Seq([url : Url, mode : {"follow", "manual"}])
    BY <1>2, <1>3, AppendProperties
  <2>2. y = [x EXCEPT !.pc = "sent", !.sent = Append(x.sent, get)]
    BY DEF Send, get
  <2> QED
    BY <2>1, <2>2 DEF RequestType
<1>6. /\ Len(y.sent) = Len(x.sent) + 1 /\ y.sent[Len(y.sent)] = get
      /\ \A i \in 1..Len(x.sent) : y.sent[i] = x.sent[i]
  BY <1>2, <1>3, <1>4
<1>7. Filled(y)
  BY <1>1, <1>4, <1>6 DEF Filled, get
<1>8. SentJudged(y)
  <2>1. get.url = x.current[1] /\ get.mode = mode
    BY DEF get
  <2> SUFFICES ASSUME NEW i \in 1..Len(y.sent)
               PROVE  /\ assertAllowed(y.sent[i].url)
                      /\ y.sent[i].mode = "follow" => runtime = "browser"
    BY DEF SentJudged
  <2>2. i \in 1..Len(x.sent) \/ i = Len(y.sent)
    BY <1>3, <1>6
  <2> QED
    BY <1>6, <2>1, <2>2 DEF RequestInv, SentJudged
<1>9. DeliveryJudged(y) /\ HopsCounted(y)
  BY <1>3, <1>4, <1>6 DEF RequestInv, DeliveryJudged, HopsCounted, RequestType
<1> HIDE DEF y
<1> QED
  BY <1>5, <1>7, <1>8, <1>9 DEF RequestInv, y

\* A request that has been called may fail or time out at any moment.
LEMMA Settle ==
  ASSUME HttpInv, NEW g \in Request, q[g].pc # "idle", NEW pc \in {"failed", "timed-out"},
         Goto(g, pc), UNCHANGED <<runtime, network, followsRedirects>>
  PROVE  HttpInv'
<1> DEFINE x == [q[g] EXCEPT !.pc = pc]
<1>1. q[g] \in RequestType /\ RequestInv(q[g])
  BY DEF HttpInv
<1>2. x \in RequestType /\ RequestInv(x)
  BY <1>1 DEF RequestType, RequestInv, Filled, SentJudged, DeliveryJudged, HopsCounted
<1>3. q' = [q EXCEPT ![g] = x]
  BY DEF Goto
<1>4. FlagInv'
  BY DEF HttpInv, FlagInv
<1> QED
  BY <1>2, <1>3, <1>4, OneRequest

\* The step of the invariant, one proof step per action.
LEMMA HttpInvStep ==
  ASSUME HttpInv, [HttpNext]_httpVars
  PROVE  HttpInv'
<1>0. ASSUME UNCHANGED httpVars
      PROVE  HttpInv'
  BY <1>0 DEF HttpInv, FlagInv, RequestInv, Filled, SentJudged, DeliveryJudged, HopsCounted,
              assertAllowed, httpVars
<1>1. ASSUME NEW g \in Request
      PROVE  q[g] \in RequestType /\ RequestInv(q[g])
  BY <1>1 DEF HttpInv
<1>f. ASSUME UNCHANGED <<runtime, followsRedirects>>
      PROVE  FlagInv'
  BY <1>f DEF HttpInv, FlagInv
<1>2. ASSUME NEW g \in Request, NEW url \in Url, Get(g, url)
      PROVE  HttpInv'
  <2> DEFINE x == [q[g] EXCEPT !.pc = "hop", !.current = <<url>>]
  <2>1. x \in RequestType
    BY <1>1 DEF RequestType, OptionalUrl
  <2>2. RequestInv(x)
    BY <1>1, <1>2 DEF Get, RequestType, RequestInv, Filled, SentJudged, DeliveryJudged, HopsCounted
  <2> QED
    BY <1>2, <1>f, <2>1, <2>2, OneRequest DEF Get
<1>3. ASSUME NEW g \in Request, HopRefused(g)
      PROVE  HttpInv'
  BY <1>3, Settle DEF HopRefused
<1>4. ASSUME NEW g \in Request, Fetch(g)
      PROVE  HttpInv'
  <2> DEFINE mode == IF followsRedirects THEN "follow" ELSE "manual"
             x    == Send(q[g], mode)
  <2>1. mode \in {"follow", "manual"} /\ (mode = "follow" => runtime = "browser")
    BY DEF HttpInv, FlagInv
  <2> HIDE DEF mode
  <2>2. x \in RequestType /\ RequestInv(x)
    BY <1>1, <1>4, <2>1, SendStep DEF Fetch
  <2>3. q' = [q EXCEPT ![g] = x] /\ UNCHANGED <<runtime, network, followsRedirects>>
    BY <1>4 DEF Fetch, mode
  <2> QED
    BY <1>f, <2>2, <2>3, OneRequest
<1>5. ASSUME NEW g \in Request, FetchFails(g)
      PROVE  HttpInv'
  BY <1>5, Settle DEF FetchFails
<1>6. ASSUME NEW g \in Request, OpaqueRedirect(g)
      PROVE  HttpInv'
  <2> DEFINE x == Send(q[g], "follow")
  <2>1. assertAllowed(q[g].current[1])
    <3>1. /\ q[g].pc = "sent" /\ q[g].sent # <<>>
          /\ q[g].sent[Len(q[g].sent)].url = q[g].current[1]
      BY <1>1, <1>6 DEF OpaqueRedirect, RequestInv, Filled
    <3>2. Len(q[g].sent) \in 1..Len(q[g].sent)
      BY <1>1, <3>1 DEF RequestType
    <3> QED
      BY <1>1, <3>1, <3>2 DEF RequestInv, SentJudged
  <2>2. runtime = "browser" /\ q[g].pc = "sent"
    BY <1>6 DEF OpaqueRedirect
  <2>3. x \in RequestType /\ RequestInv(x)
    BY <1>1, <2>1, <2>2, SendStep
  <2>4. /\ q' = [q EXCEPT ![g] = x] /\ UNCHANGED <<runtime, network>>
        /\ followsRedirects' = TRUE
    BY <1>6 DEF OpaqueRedirect
  <2>5. FlagInv'
    BY <2>2, <2>4 DEF FlagInv
  <2> QED
    BY <2>3, <2>4, <2>5, OneRequest
<1>7. ASSUME NEW g \in Request, NEW target \in {<<>>} \cup {<<u>> : u \in Url},
             Redirect(g, target)
      PROVE  HttpInv'
  <2> DEFINE hop == [q[g] EXCEPT !.pc = "hop", !.current = target, !.redirects = @ + 1]
  <2>1. /\ runtime = "node" /\ q[g].pc = "sent" /\ ~followsRedirects
        /\ UNCHANGED <<runtime, network, followsRedirects>>
    BY <1>7 DEF Redirect, HttpInv, FlagInv
  <2>2. CASE tooMany(q[g].redirects) \/ target = <<>>
    <3>1. Goto(g, "failed")
      BY <1>7, <2>1, <2>2 DEF Redirect, Goto
    <3> QED
      BY <2>1, <3>1, Settle
  <2>3. CASE ~tooMany(q[g].redirects) /\ target # <<>>
    <3>1. q' = [q EXCEPT ![g] = hop]
      BY <1>7, <2>1, <2>3 DEF Redirect
    <3>2. q[g].redirects + 1 \in 0..MAX_REDIRECTS
      BY <1>1, <2>3, LimitAssumption DEF RequestType, tooMany
    <3>3. hop \in RequestType
      BY <1>1, <1>7, <3>2 DEF RequestType, OptionalUrl
    <3>4. RequestInv(hop)
      BY <1>1, <2>1, <2>3 DEF RequestType, RequestInv, Filled, SentJudged, DeliveryJudged, HopsCounted
    <3> QED
      BY <1>f, <2>1, <3>1, <3>3, <3>4, OneRequest
  <2> QED
    BY <2>2, <2>3
<1>8. ASSUME NEW g \in Request, NEW url \in Url, Respond(g, url)
      PROVE  HttpInv'
  <2> DEFINE x == [q[g] EXCEPT !.pc = "reached", !.reached = <<url>>]
  <2>1. x \in RequestType
    BY <1>1 DEF RequestType, OptionalUrl
  <2>2. q[g].pc = "sent" /\ assertAllowed(q[g].current[1])
    <3>1. /\ q[g].pc = "sent" /\ q[g].sent # <<>>
          /\ q[g].sent[Len(q[g].sent)].url = q[g].current[1]
      BY <1>1, <1>8 DEF Respond, RequestInv, Filled
    <3>2. Len(q[g].sent) \in 1..Len(q[g].sent)
      BY <1>1, <3>1 DEF RequestType
    <3> QED
      BY <1>1, <3>1, <3>2 DEF RequestInv, SentJudged
  <2>3. RequestInv(x)
    BY <1>1, <2>2 DEF RequestType, RequestInv, Filled, SentJudged, DeliveryJudged, HopsCounted
  <2> QED
    BY <1>8, <1>f, <2>1, <2>3, OneRequest DEF Respond
<1>9. ASSUME NEW g \in Request, JudgeReached(g)
      PROVE  HttpInv'
  <2> DEFINE x == [q[g] EXCEPT !.pc = "read"]
  <2>1. q[g].pc = "reached" /\ UNCHANGED <<runtime, network, followsRedirects>>
    BY <1>9 DEF JudgeReached
  <2>2. CASE ~reachedAllowed(q[g])
    BY <1>9, <2>1, <2>2, Settle DEF JudgeReached
  <2>3. CASE reachedAllowed(q[g])
    <3>1. q' = [q EXCEPT ![g] = x]
      BY <1>9, <2>3 DEF JudgeReached, Goto
    <3>2. assertAllowed(q[g].reached[1])
      BY <1>1, <2>1, <2>3 DEF reachedAllowed, RequestInv, DeliveryJudged
    <3>3. x \in RequestType /\ RequestInv(x)
      BY <1>1, <2>1, <3>2 DEF RequestType, RequestInv, Filled, SentJudged, DeliveryJudged, HopsCounted
    <3> QED
      BY <1>f, <2>1, <3>1, <3>3, OneRequest
  <2> QED
    BY <2>2, <2>3
<1>10. ASSUME NEW g \in Request, NEW chunk \in 1..MaxChunk, ReadChunk(g, chunk)
       PROVE  HttpInv'
  <2> DEFINE x == [q[g] EXCEPT !.total = @ + chunk]
  <2>1. q[g].pc = "read" /\ UNCHANGED <<runtime, network, followsRedirects>>
    BY <1>10 DEF ReadChunk
  <2>2. CASE ~withinCap(q[g].total, chunk)
    <3>1. Goto(g, "failed")
      BY <1>10, <2>2 DEF ReadChunk, Goto
    <3> QED
      BY <2>1, <3>1, Settle
  <2>3. CASE withinCap(q[g].total, chunk)
    <3>1. q' = [q EXCEPT ![g] = x]
      BY <1>10, <2>3 DEF ReadChunk
    <3>2. q[g].total + chunk \in 0..maxBytes
      BY <1>1, <1>10, <2>3, LimitAssumption DEF RequestType, withinCap
    <3>3. x \in RequestType
      BY <1>1, <3>2 DEF RequestType
    <3>4. RequestInv(x)
      BY <1>1 DEF RequestType, RequestInv, Filled, SentJudged, DeliveryJudged, HopsCounted
    <3> QED
      BY <1>f, <2>1, <3>1, <3>3, <3>4, OneRequest
  <2> QED
    BY <2>2, <2>3
<1>11. ASSUME NEW g \in Request, ReadFails(g)
       PROVE  HttpInv'
  BY <1>11, Settle DEF ReadFails
<1>12. ASSUME NEW g \in Request, ReadDone(g)
       PROVE  HttpInv'
  <2> DEFINE x == [q[g] EXCEPT !.pc = "done"]
  <2>1. q[g].pc = "read" /\ UNCHANGED <<runtime, network, followsRedirects>>
    BY <1>12 DEF ReadDone
  <2>2. x \in RequestType /\ RequestInv(x)
    BY <1>1, <2>1 DEF RequestType, RequestInv, Filled, SentJudged, DeliveryJudged, HopsCounted
  <2> QED
    BY <1>12, <1>f, <2>1, <2>2, OneRequest DEF ReadDone, Goto
<1>13. ASSUME NEW g \in Request, Timeout(g)
       PROVE  HttpInv'
  BY <1>13, Settle DEF Timeout, Pending
<1> QED
  BY <1>0, <1>2, <1>3, <1>4, <1>5, <1>6, <1>7, <1>8, <1>9, <1>10, <1>11, <1>12, <1>13
     DEF HttpNext, AllSettled

LEMMA HttpInvInvariant == HttpSpec => []HttpInv
<1>1. HttpInit => HttpInv
  <2> SUFFICES ASSUME HttpInit PROVE HttpInv
    OBVIOUS
  <2>1. FlagInv
    BY DEF HttpInit, FlagInv
  <2> DEFINE x == [pc |-> "idle", current |-> <<>>, reached |-> <<>>, redirects |-> 0,
                   total |-> 0, sent |-> <<>>]
  <2>2. x \in RequestType
    BY LimitAssumption DEF RequestType, OptionalUrl
  <2>3. RequestInv(x)
    BY DEF RequestInv, Filled, SentJudged, DeliveryJudged, HopsCounted
  <2> QED
    BY <2>1, <2>2, <2>3 DEF HttpInit, HttpInv
<1>2. HttpInv /\ [HttpNext]_httpVars => HttpInv'
  BY HttpInvStep
<1> QED
  BY <1>1, <1>2, PTL DEF HttpSpec

-----------------------------------------------------------------------------
(* The HTTP GET service: the theorems *)

\* However many requests run, redirects are followed and chunks are read, the
\* redirect count and the bytes kept stay within their limits.
THEOREM HttpTypeCorrect == HttpSpec => []HttpTypeOK
<1>1. HttpInv => HttpTypeOK
  <2> SUFFICES ASSUME HttpInv, NEW g \in Request PROVE RequestOk(q[g])
    BY DEF HttpInv, FlagInv, HttpTypeOK
  <2>1. q[g] \in RequestType /\ Filled(q[g])
    BY DEF HttpInv, RequestInv
  <2>2. q[g].current # <<>> => q[g].current[1] \in Url
    BY <2>1 DEF RequestType, OptionalUrl
  <2> QED
    BY <2>1, <2>2 DEF RequestOk, RequestType, Filled
<1> QED
  BY <1>1, HttpInvInvariant, PTL

\* Whatever a redirect or a server does, every URL the service asks for is one
\* the policy is there to let through, and on Node every hop of a request is
\* among those asked for.
THEOREM HopsSound == HttpSpec => []HopsWithinPolicy
<1>1. HttpInv => HopsWithinPolicy
  <2> SUFFICES ASSUME HttpInv, NEW g \in Request
               PROVE  /\ \A i \in 1..Len(q[g].sent) :
                           /\ Reachable(q[g].sent[i].url)
                           /\ q[g].sent[i].mode = "follow" => runtime = "browser"
                      /\ runtime = "node" => Len(q[g].sent) <= MAX_REDIRECTS + 1
    BY DEF HopsWithinPolicy
  <2>1. q[g] \in RequestType /\ RequestInv(q[g]) /\ network \in Networks
    BY DEF HttpInv
  <2>2. ASSUME NEW i \in 1..Len(q[g].sent)
        PROVE  Reachable(q[g].sent[i].url) /\ (q[g].sent[i].mode = "follow" => runtime = "browser")
    <3>1. q[g].sent[i].url \in Url
      <4>1. q[g].sent \in Seq([url : Url, mode : {"follow", "manual"}])
        BY <2>1 DEF RequestType
      <4>2. q[g].sent[i] \in [url : Url, mode : {"follow", "manual"}]
        BY <4>1, ElementOfSeq
      <4> QED
        BY <4>2
    <3>2. assertAllowed(q[g].sent[i].url) /\ (q[g].sent[i].mode = "follow" => runtime = "browser")
      BY <2>1, <2>2 DEF RequestInv, SentJudged
    <3> QED
      BY <2>1, <3>1, <3>2, AllowedReachable
  <2>3. runtime = "node" => Len(q[g].sent) <= MAX_REDIRECTS + 1
    BY <2>1, LimitAssumption DEF RequestType, RequestInv, HopsCounted
  <2> QED
    BY <2>2, <2>3
<1> QED
  BY <1>1, HttpInvInvariant, PTL

\* A body is delivered only from a URL that may be asked for, also where the
\* runtime followed redirects out of sight, and never above the cap.
THEOREM DeliverySound == HttpSpec => []DeliveredWithinPolicy
<1>1. HttpInv => DeliveredWithinPolicy
  <2> SUFFICES ASSUME HttpInv, NEW g \in Request, q[g].pc = "done"
               PROVE  Reachable(q[g].reached[1]) /\ q[g].total <= maxBytes
    BY DEF DeliveredWithinPolicy
  <2>1. q[g] \in RequestType /\ RequestInv(q[g]) /\ network \in Networks
    BY DEF HttpInv
  <2>2. q[g].reached[1] \in Url
    BY <2>1 DEF RequestType, OptionalUrl, RequestInv, Filled
  <2>3. assertAllowed(q[g].reached[1])
    BY <2>1 DEF RequestInv, DeliveryJudged
  <2>4. q[g].total <= maxBytes
    BY <2>1, LimitAssumption DEF RequestType
  <2> QED
    BY <2>1, <2>2, <2>3, <2>4, AllowedReachable
<1> QED
  BY <1>1, HttpInvInvariant, PTL

=============================================================================
