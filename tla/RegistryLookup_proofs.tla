------------------------- MODULE RegistryLookup_proofs -------------------------
(***************************************************************************)
(* Proofs about the registry lookup, for any number of concurrent lookups,  *)
(* DIDs, lists of registries (which may repeat one) and times to live.      *)
(***************************************************************************)
EXTENDS RegistryLookup, SequenceTheorems, FiniteSetTheorems, FunctionTheorems, TLAPS

Status == {"found", "not-found", "unchecked"}
Answer == Registry \X Status

-----------------------------------------------------------------------------
(* The inductive invariant *)

Object == [found : BOOLEAN, matches : Seq(Registry), unchecked : Seq(Registry), about : Did,
           asked : Seq(Answer), at : Nat]

Locals == [pc : {"idle", "get", "walk", "returned", "edited", "threw"},
           did : Seq(Did), registries : Seq(Registry), options : Seq(Options), began : Nat,
           i : Nat, matches : Seq(Registry), unchecked : Seq(Registry), asked : Seq(Answer),
           result : Nat]

Entry == [value : Nat, expiresAt : Seq(Nat)]

\* What a walk leaves of its answers: the matches and the unchecked registries
\* are those that answered so, and only the configured ones were asked.
Recorded(asked, matches, unchecked, registries) ==
  /\ Gave(asked, "found", matches)
  /\ Gave(asked, "unchecked", unchecked)
  /\ \A i \in 1..Len(asked) : \E j \in 1..Len(registries) : registries[j] = asked[i][1]

\* Under way: without a match so far, every registry before the current one answered.
WalkInv(x) ==
  /\ Recorded(x.asked, x.matches, x.unchecked, x.registries)
  /\ x.matches = <<>> =>
       /\ x.i = Len(x.asked) + 1
       /\ Len(x.asked) <= Len(x.registries)
       /\ \A n \in 1..Len(x.asked) : x.asked[n][1] = x.registries[n]

\* A result nobody edited: without a match, each configured registry answered.
Sound(o, registries) ==
  /\ o.found <=> o.matches # <<>>
  /\ Recorded(o.asked, o.matches, o.unchecked, registries)
  /\ o.matches = <<>> =>
       /\ Len(o.asked) = Len(registries)
       /\ \A j \in 1..Len(registries) : \E n \in 1..Len(o.asked) : o.asked[n][1] = registries[j]

expiry(o) == o.at + resultTtl(o)

LookupInv(x, t, h) ==
  /\ x.pc # "idle" => /\ Len(x.did) = 1
                      /\ Len(x.options) = 1
                      /\ x.registries \in Lists
                      /\ x.began <= t
                      /\ x.i > 0
  /\ x.pc \in {"idle", "get"} => x.asked = <<>> /\ x.matches = <<>> /\ x.unchecked = <<>>
  /\ x.pc = "get" => x.i = 1
  /\ x.pc = "walk" => WalkInv(x)
  /\ x.pc = "returned" => /\ x.result \in 1..Len(h)
                          /\ h[x.result].about = x.did[1]
                          /\ Sound(h[x.result], x.registries)
                          /\ expiry(h[x.result]) >= x.began

EntryInv(k, e, h) ==
  /\ e \in Entry
  /\ e.value \in 1..Len(h)
  /\ e.expiresAt = <<expiry(h[e.value])>>
  /\ \E registries \in Lists : /\ k = registryCacheKey(h[e.value].about, registries)
                               /\ Sound(h[e.value], registries)

\* No two holders of a result hold the same object.
Apart ==
  /\ \A l \in Lookup, k \in DOMAIN cache : Returned(l) => cache[k].value # w[l].result
  /\ \A l, m \in Lookup : l # m /\ Returned(l) /\ Returned(m) => w[l].result # w[m].result

Types ==
  /\ now \in Nat
  /\ heap \in Seq(Object)
  /\ w \in [Lookup -> Locals]

LookupsInv == \A l \in Lookup : LookupInv(w[l], now, heap)
CacheInv   == \A k \in DOMAIN cache : EntryInv(k, cache[k], heap)

Inv == Types /\ LookupsInv /\ CacheInv /\ Apart

-----------------------------------------------------------------------------
(* Recording the answers of a walk *)

LEMMA UpTo ==
  ASSUME NEW n \in Nat
  PROVE  IsFiniteSet(1..n) /\ Cardinality(1..n) = n
<1>1. IsFiniteSet(1..n) /\ Cardinality(1..n) = IF 1 > n THEN 0 ELSE n - 1 + 1
  BY FS_Interval
<1> QED
  BY <1>1

LEMMA AnsweredFinite ==
  ASSUME NEW asked \in Seq(Answer), NEW status
  PROVE  /\ answeredBy(asked, status) \in SUBSET (1..Len(asked))
         /\ IsFiniteSet(answeredBy(asked, status))
         /\ Cardinality(answeredBy(asked, status)) \in Nat
         /\ Cardinality(answeredBy(asked, status)) <= Len(asked)
<1>1. answeredBy(asked, status) \in SUBSET (1..Len(asked))
  BY DEF answeredBy
<1>2. IsFiniteSet(1..Len(asked)) /\ Cardinality(1..Len(asked)) = Len(asked)
  BY UpTo
<1> QED
  BY <1>1, <1>2, FS_Subset, FS_CardinalityType

\* The rank of an answer among its like is an index of the list they fill.
LEMMA Ranked ==
  ASSUME NEW asked \in Seq(Answer), NEW status, NEW i \in answeredBy(asked, status)
  PROVE  Cardinality({j \in answeredBy(asked, status) : j <= i})
           \in 1..Cardinality(answeredBy(asked, status))
<1> DEFINE A == answeredBy(asked, status)
<1> DEFINE B == {j \in A : j <= i}
<1>1. A \in SUBSET (1..Len(asked)) /\ IsFiniteSet(A) /\ Cardinality(A) \in Nat
  BY AnsweredFinite
<1>2. i \in B /\ B \in SUBSET A
  BY <1>1
<1> HIDE DEF A, B
<1>3. IsFiniteSet(B) /\ Cardinality(B) <= Cardinality(A)
  BY <1>1, <1>2, FS_Subset
<1>4. Cardinality(B) \in Nat /\ Cardinality(B) # 0
  BY <1>2, <1>3, FS_CardinalityType, FS_EmptySet
<1>5. Cardinality(B) \in 1..Cardinality(A)
  BY <1>1, <1>3, <1>4
<1> QED
  BY <1>5 DEF A, B

\* One more answer goes to the end of its list and leaves the other list alone.
LEMMA GaveAppend ==
  ASSUME NEW asked \in Seq(Answer), NEW registries \in Seq(Registry), NEW status,
         Gave(asked, status, registries),
         NEW r \in Registry, NEW s \in Status
  PROVE  Gave(Append(asked, <<r, s>>), status,
              IF s = status THEN Append(registries, r) ELSE registries)
<1> DEFINE more == Append(asked, <<r, s>>)
<1> DEFINE A == answeredBy(asked, status)
<1> DEFINE B == answeredBy(more, status)
<1> DEFINE n == Len(asked) + 1
<1> DEFINE upto(S, i) == {j \in S : j <= i}
<1>1. /\ more \in Seq(Answer)
      /\ Len(more) = n
      /\ \A i \in 1..Len(asked) : more[i] = asked[i]
      /\ more[n] = <<r, s>>
  BY AppendProperties DEF Answer
<1>2. A \in SUBSET (1..Len(asked)) /\ IsFiniteSet(A) /\ Cardinality(A) \in Nat
  BY AnsweredFinite
<1>3. \A i \in A : asked[i][1] = more[i][1]
  BY <1>1, <1>2
<1>4. /\ Len(registries) = Cardinality(A)
      /\ \A i \in A : registries[Cardinality(upto(A, i))] = asked[i][1]
  BY DEF Gave
<1>5. \A i \in A : Cardinality(upto(A, i)) \in 1..Len(registries)
  BY <1>4, Ranked
<1>6. CASE s = status
  <2>1. B = A \cup {n}
    BY <1>1, <1>6 DEF answeredBy
  <2>2. n \notin A
    BY <1>2
  <2>3. Cardinality(B) = Cardinality(A) + 1
    BY <1>2, <2>1, <2>2, FS_AddElement
  <2>4. \A i \in A : upto(B, i) = upto(A, i)
    BY <1>2, <2>1
  <2>5. upto(B, n) = B
    BY <1>2, <2>1
  <2> DEFINE longer == Append(registries, r)
  <2>6. /\ Len(longer) = Len(registries) + 1
        /\ \A i \in 1..Len(registries) : longer[i] = registries[i]
        /\ longer[Len(registries) + 1] = r
    BY AppendProperties
  <2> HIDE DEF longer, more, A, B, n, upto
  <2>7. Len(longer) = Cardinality(B)
    BY <1>4, <2>3, <2>6
  <2>8. ASSUME NEW i \in B
        PROVE  longer[Cardinality(upto(B, i))] = more[i][1]
    <3>1. CASE i \in A
      BY <1>3, <1>4, <1>5, <2>4, <2>6, <3>1
    <3>2. CASE i = n
      BY <1>1, <1>4, <2>3, <2>5, <2>6, <3>2
    <3> QED
      BY <2>1, <3>1, <3>2
  <2> QED
    BY <1>6, <2>7, <2>8 DEF Gave, longer, more, B, upto
<1>7. CASE s # status
  <2>1. B = A
    BY <1>1, <1>7 DEF answeredBy
  <2> HIDE DEF more, A, B, n, upto
  <2>2. Len(registries) = Cardinality(B)
    BY <1>4, <2>1
  <2>3. \A i \in B : registries[Cardinality(upto(B, i))] = more[i][1]
    BY <1>3, <1>4, <2>1
  <2> QED
    BY <1>7, <2>2, <2>3 DEF Gave, more, B, upto
<1> QED
  BY <1>6, <1>7

LEMMA NothingGiven ==
  ASSUME NEW status
  PROVE  Gave(<<>>, status, <<>>)
BY FS_EmptySet DEF Gave, answeredBy

-----------------------------------------------------------------------------
(* The key of a result *)

LEMMA FibreFinite ==
  ASSUME NEW s \in Seq(Registry), NEW r
  PROVE  /\ {i \in 1..Len(s) : s[i] = r} \in SUBSET (1..Len(s))
         /\ IsFiniteSet({i \in 1..Len(s) : s[i] = r})
<1>1. IsFiniteSet(1..Len(s))
  BY FS_Interval
<1> QED
  BY <1>1, FS_Subset

\* A list that holds each registry as often as another holds it is no longer.
LEMMA NoLonger ==
  ASSUME NEW s \in Seq(Registry), NEW t \in Seq(Registry),
         \A i \in 1..Len(s) :
           Cardinality({n \in 1..Len(s) : s[n] = s[i]}) = Cardinality({n \in 1..Len(t) : t[n] = s[i]})
  PROVE  Len(s) <= Len(t)
<1> DEFINE at(q, r) == {n \in 1..Len(q) : q[n] = r}
<1> DEFINE pair(r) == CHOOSE f \in Bijection(at(s, r), at(t, r)) : TRUE
<1> DEFINE f == [i \in 1..Len(s) |-> pair(s[i])[i]]
<1>1. ASSUME NEW i \in 1..Len(s)
      PROVE  pair(s[i]) \in Bijection(at(s, s[i]), at(t, s[i]))
  <2>1. Cardinality(at(s, s[i])) = Cardinality(at(t, s[i]))
    OBVIOUS
  <2>2. IsFiniteSet(at(s, s[i])) /\ IsFiniteSet(at(t, s[i]))
    BY FibreFinite
  <2> HIDE DEF at
  <2>3. ExistsBijection(at(s, s[i]), at(t, s[i]))
    BY <2>1, <2>2, FS_SameCardinalityBij
  <2>4. Bijection(at(s, s[i]), at(t, s[i])) # {}
    BY <2>3, Fun_ExistsBij
  <2> QED
    BY <2>4
<1>2. \A i \in 1..Len(s) : i \in at(s, s[i])
  OBVIOUS
<1>3. \A r : at(t, r) \in SUBSET (1..Len(t)) /\ \A n \in at(t, r) : t[n] = r
  OBVIOUS
<1> HIDE DEF at, pair
<1>4. ASSUME NEW i \in 1..Len(s)
      PROVE  /\ pair(s[i]) \in [at(s, s[i]) -> at(t, s[i])]
             /\ \A m, n \in at(s, s[i]) : pair(s[i])[m] = pair(s[i])[n] => m = n
  BY <1>1, Fun_BijectionProperties
<1>5. ASSUME NEW i \in 1..Len(s)
      PROVE  f[i] \in 1..Len(t) /\ t[f[i]] = s[i]
  <2>1. f[i] = pair(s[i])[i]
    OBVIOUS
  <2>2. pair(s[i])[i] \in at(t, s[i])
    BY <1>2, <1>4
  <2> QED
    BY <1>3, <2>1, <2>2
<1>6. f \in [1..Len(s) -> 1..Len(t)]
  BY <1>5
<1>7. ASSUME NEW i \in 1..Len(s), NEW j \in 1..Len(s), f[i] = f[j]
      PROVE  i = j
  <2>1. s[i] = s[j]
    BY <1>5, <1>7
  <2>2. pair(s[i])[i] = pair(s[i])[j]
    BY <1>7, <2>1
  <2> QED
    BY <1>2, <1>4, <2>1, <2>2
<1> HIDE DEF f
<1>8. f \in Injection(1..Len(s), 1..Len(t))
  BY <1>6, <1>7 DEF Injection, IsInjective
<1>9. IsFiniteSet(1..Len(t)) /\ Cardinality(1..Len(s)) = Len(s) /\ Cardinality(1..Len(t)) = Len(t)
  BY UpTo
<1>10. Cardinality(1..Len(s)) <= Cardinality(1..Len(t))
  BY <1>8, <1>9, FS_Injection
<1> QED
  BY <1>9, <1>10

Alike(s, t) ==
  /\ Len(s) = Len(t)
  /\ \A i \in 1..Len(s) : \E j \in 1..Len(t) : t[j] = s[i]
  /\ \A j \in 1..Len(t) : \E i \in 1..Len(s) : s[i] = t[j]

\* Two lookups share a key only for one DID and for lists of the same registries.
LEMMA SameKey ==
  ASSUME NEW d, NEW e, NEW s \in Seq(Registry), NEW t \in Seq(Registry),
         registryCacheKey(d, s) = registryCacheKey(e, t)
  PROVE  d = e /\ Alike(s, t)
<1> DEFINE held(q) == {q[i] : i \in 1..Len(q)}
<1> DEFINE times(q, r) == Cardinality({i \in 1..Len(q) : q[i] = r})
<1> DEFINE bag(q) == [r \in held(q) |-> times(q, r)]
<1>1. <<d, bag(s)>> = <<e, bag(t)>>
  BY DEF registryCacheKey
<1>2. d = e /\ bag(s) = bag(t)
  BY <1>1
<1>3. DOMAIN bag(s) = held(s) /\ DOMAIN bag(t) = held(t)
  OBVIOUS
<1>4. held(s) = held(t)
  BY <1>2, <1>3
<1>5. \A r \in held(s) : times(s, r) = times(t, r)
  <2> TAKE r \in held(s)
  <2>1. bag(s)[r] = times(s, r)
    OBVIOUS
  <2>2. bag(t)[r] = times(t, r)
    BY <1>4
  <2> QED
    BY <1>2, <2>1, <2>2
<1>6. /\ \A i \in 1..Len(s) : s[i] \in held(s)
      /\ \A i \in 1..Len(t) : t[i] \in held(s)
  BY <1>4
<1>7. /\ \A i \in 1..Len(s) : times(s, s[i]) = times(t, s[i])
      /\ \A i \in 1..Len(t) : times(t, t[i]) = times(s, t[i])
  BY <1>5, <1>6
<1>8. Len(s) <= Len(t)
  BY <1>7, NoLonger
<1>13. Len(t) <= Len(s)
  BY <1>7, NoLonger
<1>9. Len(s) = Len(t)
  BY <1>8, <1>13
<1>10. \A x : x \in held(s) => \E i \in 1..Len(s) : s[i] = x
  OBVIOUS
<1>11. \A x : x \in held(t) => \E i \in 1..Len(t) : t[i] = x
  OBVIOUS
<1> HIDE DEF held, times
<1>12. /\ \A i \in 1..Len(s) : \E j \in 1..Len(t) : t[j] = s[i]
       /\ \A j \in 1..Len(t) : \E i \in 1..Len(s) : s[i] = t[j]
  BY <1>4, <1>6, <1>10, <1>11
<1> QED
  BY <1>2, <1>9, <1>12 DEF Alike

\* A result that is sound for a list of registries is so for all lists with its key.
LEMMA SoundForKey ==
  ASSUME NEW o \in Object, NEW s \in Seq(Registry), NEW t \in Seq(Registry),
         Alike(s, t), Sound(o, s)
  PROVE  Sound(o, t)
<1>1. /\ Len(s) = Len(t)
      /\ \A i \in 1..Len(s) : \E j \in 1..Len(t) : t[j] = s[i]
      /\ \A j \in 1..Len(t) : \E i \in 1..Len(s) : s[i] = t[j]
  BY DEF Alike
<1>2. Recorded(o.asked, o.matches, o.unchecked, t)
  BY <1>1 DEF Sound, Recorded
<1>3. o.matches = <<>> =>
        /\ Len(o.asked) = Len(t)
        /\ \A j \in 1..Len(t) : \E n \in 1..Len(o.asked) : o.asked[n][1] = t[j]
  <2> SUFFICES ASSUME o.matches = <<>>
               PROVE  /\ Len(o.asked) = Len(t)
                      /\ \A j \in 1..Len(t) : \E n \in 1..Len(o.asked) : o.asked[n][1] = t[j]
    OBVIOUS
  <2>1. Len(o.asked) = Len(s)
    BY DEF Sound
  <2>2. \A j \in 1..Len(s) : \E n \in 1..Len(o.asked) : o.asked[n][1] = s[j]
    BY DEF Sound
  <2> QED
    BY <1>1, <2>1, <2>2
<1> QED
  BY <1>2, <1>3 DEF Sound

-----------------------------------------------------------------------------
(* The cache *)

LEMMA Hit ==
  ASSUME NEW map, NEW k, NEW t \in Nat, NEW e \in Nat, cacheGet(map, k, t) # <<>>,
         map[k].expiresAt = <<e>>
  PROVE  k \in DOMAIN map /\ cacheGet(map, k, t)[1] = map[k].value /\ t <= e
<1>1. k \in DOMAIN map /\ ~isExpired(map, k, t)
  BY DEF cacheGet
<1>2. cacheGet(map, k, t) = <<map[k].value>>
  BY <1>1 DEF cacheGet
<1>3. ~(t > e)
  BY <1>1 DEF isExpired
<1> QED
  BY <1>1, <1>2, <1>3

LEMMA GetRemoves ==
  ASSUME NEW map, NEW key_, NEW t, NEW k \in DOMAIN cacheAfterGet(map, key_, t)
  PROVE  k \in DOMAIN map /\ cacheAfterGet(map, key_, t)[k] = map[k]
BY DEF cacheAfterGet

LEMMA SetAdds ==
  ASSUME NEW map, NEW key_, NEW value, NEW ttl \in Nat \ {0}, NEW t \in Nat,
         NEW k \in DOMAIN cacheSet(map, key_, value, ttl, t)
  PROVE  \/ /\ k = key_
            /\ cacheSet(map, key_, value, ttl, t)[k] = [value |-> value, expiresAt |-> <<t + ttl>>]
         \/ k \in DOMAIN map /\ cacheSet(map, key_, value, ttl, t)[k] = map[k]
BY DEF cacheSet

LEMMA TtlType ==
  ASSUME NEW o \in Object
  PROVE  resultTtl(o) \in Nat \ {0} /\ expiry(o) \in Nat
BY LookupAssumption DEF resultTtl, expiry, Object

-----------------------------------------------------------------------------
(* The steps *)

\* What holds of a lookup or an entry survives any change to other objects.
LEMMA LookupCarried ==
  ASSUME NEW x \in Locals, NEW t \in Nat, NEW u \in Nat, t <= u,
         NEW h \in Seq(Object), NEW g \in Seq(Object), Len(h) <= Len(g),
         LookupInv(x, t, h), x.pc = "returned" => g[x.result] = h[x.result]
  PROVE  LookupInv(x, u, g)
<1>1. x.began \in Nat
  BY DEF Locals
<1>2. x.began <= t => x.began <= u
  BY <1>1
<1>3. \A n : n \in 1..Len(h) => n \in 1..Len(g)
  OBVIOUS
<1> QED
  BY <1>2, <1>3 DEF LookupInv

LEMMA EntryCarried ==
  ASSUME NEW k, NEW e, NEW h \in Seq(Object), NEW g \in Seq(Object), Len(h) <= Len(g),
         EntryInv(k, e, h), g[e.value] = h[e.value]
  PROVE  EntryInv(k, e, g)
<1>1. \A n : n \in 1..Len(h) => n \in 1..Len(g)
  OBVIOUS
<1> QED
  BY <1>1 DEF EntryInv

\* A step of one lookup that hands out no result and stores none.
LEMMA LocalStep ==
  ASSUME Inv, NEW l \in Lookup, NEW y \in Locals, w' = [w EXCEPT ![l] = y],
         UNCHANGED <<now, heap>>,
         \A k \in DOMAIN cache' : k \in DOMAIN cache /\ cache'[k] = cache[k],
         LookupInv(y, now, heap), y.pc # "returned"
  PROVE  Inv'
<1> USE DEF Inv, Types
<1>1. w' \in [Lookup -> Locals]
  OBVIOUS
<1>2. \A m \in Lookup : w'[m] = IF m = l THEN y ELSE w[m]
  OBVIOUS
<1>3. LookupsInv'
  BY <1>2 DEF LookupsInv
<1>4. CacheInv'
  BY DEF CacheInv
<1>5. Apart'
  BY <1>2 DEF Apart, Returned
<1> QED
  BY <1>1, <1>3, <1>4, <1>5

LEMMA NamedType ==
  ASSUME NEW x \in Locals, NEW t, NEW h, LookupInv(x, t, h), x.pc # "idle"
  PROVE  /\ x.did[1] \in Did
         /\ x.options[1] \in [fresh : BOOLEAN, exhaustive : BOOLEAN]
         /\ x.registries \in Lists
         /\ x.registries \in Seq(Registry)
<1>1. Len(x.did) = 1 /\ Len(x.options) = 1 /\ x.registries \in Lists
  BY DEF LookupInv
<1> QED
  BY <1>1, LookupAssumption DEF Locals

LEMMA CallStep ==
  ASSUME Inv, NEW l \in Lookup, NEW did \in Did, NEW registries \in Lists,
         NEW options \in Options, Call(l, did, registries, options)
  PROVE  Inv'
<1> DEFINE x == w[l]
<1> DEFINE y == [x EXCEPT !.pc = IF options.fresh THEN "walk" ELSE "get",
                          !.did = <<did>>, !.registries = registries,
                          !.options = <<options>>, !.began = now, !.i = 1]
<1>1. x \in Locals /\ LookupInv(x, now, heap) /\ now \in Nat /\ x.pc = "idle"
  BY DEF Inv, Types, LookupsInv, Call
<1>2. x.asked = <<>> /\ x.matches = <<>> /\ x.unchecked = <<>>
  BY <1>1 DEF LookupInv
<1>3. registries \in Seq(Registry)
  BY LookupAssumption
<1>4. y \in Locals
  <2>1. <<did>> \in Seq(Did) /\ <<options>> \in Seq(Options)
    OBVIOUS
  <2>2. (IF options.fresh THEN "walk" ELSE "get") \in {"walk", "get"}
    OBVIOUS
  <2> QED
    BY <1>1, <1>3, <2>1, <2>2 DEF Locals
<1>5. /\ y.asked = <<>> /\ y.matches = <<>> /\ y.unchecked = <<>>
      /\ y.did = <<did>> /\ y.options = <<options>> /\ y.registries = registries
      /\ y.began = now /\ y.i = 1 /\ y.pc \in {"walk", "get"}
  BY <1>1, <1>2 DEF Locals
<1> HIDE DEF x, y
<1>6. Recorded(y.asked, y.matches, y.unchecked, y.registries)
  BY <1>5, NothingGiven DEF Recorded
<1>7. WalkInv(y)
  BY <1>3, <1>5, <1>6 DEF WalkInv
<1>8. LookupInv(y, now, heap)
  BY <1>1, <1>5, <1>7 DEF LookupInv
<1>9. w' = [w EXCEPT ![l] = y] /\ UNCHANGED <<now, heap, cache>>
  BY DEF Call, x, y
<1> QED
  BY <1>4, <1>5, <1>8, <1>9, LocalStep

LEMMA MissStep ==
  ASSUME Inv, NEW l \in Lookup, Miss(l)
  PROVE  Inv'
<1> DEFINE x == w[l]
<1> DEFINE y == [x EXCEPT !.pc = "walk"]
<1>1. x \in Locals /\ LookupInv(x, now, heap) /\ x.pc = "get"
  BY DEF Inv, Types, LookupsInv, Miss
<1>2. x.asked = <<>> /\ x.matches = <<>> /\ x.unchecked = <<>> /\ x.i = 1
  BY <1>1 DEF LookupInv
<1>3. y \in Locals
  BY <1>1 DEF Locals
<1>4. /\ y.asked = <<>> /\ y.matches = <<>> /\ y.unchecked = <<>> /\ y.i = 1 /\ y.pc = "walk"
      /\ y.did = x.did /\ y.options = x.options /\ y.registries = x.registries
      /\ y.began = x.began
  BY <1>1, <1>2 DEF Locals
<1>5. y.registries \in Seq(Registry)
  BY <1>3 DEF Locals
<1> HIDE DEF x, y
<1>6. Recorded(y.asked, y.matches, y.unchecked, y.registries)
  BY <1>4, NothingGiven DEF Recorded
<1>7. WalkInv(y)
  BY <1>4, <1>5, <1>6 DEF WalkInv
<1>8. LookupInv(y, now, heap)
  BY <1>1, <1>4, <1>7 DEF LookupInv
<1>9. w' = [w EXCEPT ![l] = y] /\ UNCHANGED <<now, heap>>
  BY DEF Miss, x, y
<1>10. \A k \in DOMAIN cache' : k \in DOMAIN cache /\ cache'[k] = cache[k]
  BY GetRemoves DEF Miss
<1> QED
  BY <1>3, <1>4, <1>8, <1>9, <1>10, LocalStep

LEMMA ThrowsStep ==
  ASSUME Inv, NEW l \in Lookup, HandlerThrows(l)
  PROVE  Inv'
<1> DEFINE x == w[l]
<1> DEFINE y == [x EXCEPT !.pc = "threw"]
<1>1. x \in Locals /\ LookupInv(x, now, heap) /\ x.pc = "walk"
  BY DEF Inv, Types, LookupsInv, HandlerThrows, Walking
<1>2. y \in Locals /\ y.pc = "threw"
  BY <1>1 DEF Locals
<1>3. LookupInv(y, now, heap)
  BY <1>1 DEF LookupInv, Locals
<1>4. w' = [w EXCEPT ![l] = y] /\ UNCHANGED <<now, heap, cache>>
  BY DEF HandlerThrows
<1> HIDE DEF x, y
<1> QED
  BY <1>2, <1>3, <1>4, LocalStep

LEMMA AnswersStep ==
  ASSUME Inv, NEW l \in Lookup, NEW status \in Status, HandlerAnswers(l, status)
  PROVE  Inv'
<1> DEFINE x == w[l]
<1> DEFINE r == x.registries[x.i]
<1> DEFINE matches == IF status = "found" THEN Append(x.matches, r) ELSE x.matches
<1> DEFINE unchecked == IF status = "unchecked" THEN Append(x.unchecked, r) ELSE x.unchecked
<1> DEFINE asked == Append(x.asked, <<r, status>>)
<1> DEFINE i == IF status = "found" /\ ~x.options[1].exhaustive
                THEN Len(x.registries) + 1 ELSE x.i + 1
<1> DEFINE y == [x EXCEPT !.matches = matches, !.unchecked = unchecked, !.asked = asked, !.i = i]
<1>1. x \in Locals /\ LookupInv(x, now, heap) /\ x.pc = "walk" /\ x.i <= Len(x.registries)
  BY DEF Inv, Types, LookupsInv, HandlerAnswers, Walking
<1>2. x.registries \in Seq(Registry) /\ x.i > 0 /\ WalkInv(x)
  BY <1>1 DEF LookupInv, Locals
<1>3. x.i \in 1..Len(x.registries) /\ r \in Registry
  BY <1>1, <1>2 DEF Locals
<1>4. w' = [w EXCEPT ![l] = y] /\ UNCHANGED <<now, heap, cache>>
  BY DEF HandlerAnswers
<1>5. /\ x.matches \in Seq(Registry) /\ x.unchecked \in Seq(Registry)
      /\ x.asked \in Seq(Answer) /\ x.i \in Nat
  BY <1>1 DEF Locals
<1>6. /\ matches \in Seq(Registry) /\ unchecked \in Seq(Registry) /\ i \in Nat /\ i > 0
      /\ status # "found" => matches = x.matches /\ i = x.i + 1
      /\ status = "found" => matches # <<>>
  <2>1. /\ Append(x.matches, r) \in Seq(Registry)
        /\ Append(x.unchecked, r) \in Seq(Registry)
        /\ Append(x.matches, r) # <<>>
    BY <1>3, <1>5, AppendProperties
  <2>2. Len(x.registries) \in Nat
    BY <1>2
  <2> HIDE DEF x, r
  <2>3. matches \in Seq(Registry) /\ unchecked \in Seq(Registry)
    BY <1>5, <2>1
  <2>4. i \in Nat /\ i > 0
    BY <1>5, <2>2
  <2> QED
    BY <2>1, <2>3, <2>4
<1>7. /\ asked \in Seq(Answer)
      /\ Len(asked) = Len(x.asked) + 1
      /\ \A n \in 1..Len(x.asked) : asked[n] = x.asked[n]
      /\ asked[Len(x.asked) + 1] = <<r, status>>
  BY <1>3, <1>5, AppendProperties DEF Answer
<1>8. Gave(asked, "found", matches) /\ Gave(asked, "unchecked", unchecked)
  <2>1. Gave(x.asked, "found", x.matches) /\ Gave(x.asked, "unchecked", x.unchecked)
    BY <1>2 DEF WalkInv, Recorded
  <2> DEFINE found == "found"
  <2> DEFINE open == "unchecked"
  <2> HIDE DEF x, r, found, open
  <2>2. Gave(asked, found, IF status = found THEN Append(x.matches, r) ELSE x.matches)
    BY <1>3, <1>5, <2>1, GaveAppend DEF found
  <2>3. Gave(asked, open, IF status = open THEN Append(x.unchecked, r) ELSE x.unchecked)
    BY <1>3, <1>5, <2>1, GaveAppend DEF open
  <2> QED
    BY <2>2, <2>3 DEF found, open
<1>9. y \in Locals
  BY <1>1, <1>6, <1>7 DEF Locals
<1>10. /\ y.asked = asked /\ y.matches = matches /\ y.unchecked = unchecked /\ y.i = i
       /\ y.pc = "walk" /\ y.did = x.did /\ y.options = x.options
       /\ y.registries = x.registries /\ y.began = x.began
  BY <1>1 DEF Locals
<1>11. /\ \A n \in 1..Len(x.asked) : \E j \in 1..Len(x.registries) : x.registries[j] = x.asked[n][1]
       /\ x.matches = <<>> =>
            /\ x.i = Len(x.asked) + 1
            /\ \A n \in 1..Len(x.asked) : x.asked[n][1] = x.registries[n]
  BY <1>2 DEF WalkInv, Recorded
<1>12. r = x.registries[x.i] /\ <<r, status>>[1] = r
  OBVIOUS
<1>13. \A n \in 1..Len(asked) : n \in 1..Len(x.asked) \/ n = Len(x.asked) + 1
  BY <1>5, <1>7
<1> HIDE DEF x, r, matches, unchecked, asked, i, y
<1>14. \A n \in 1..Len(asked) : \E j \in 1..Len(x.registries) : x.registries[j] = asked[n][1]
  <2> TAKE n \in 1..Len(asked)
  <2>1. CASE n \in 1..Len(x.asked)
    BY <1>7, <1>11, <2>1
  <2>2. CASE n = Len(x.asked) + 1
    <3>1. asked[n][1] = x.registries[x.i]
      BY <1>7, <1>12, <2>2
    <3> QED
      BY <1>3, <3>1
  <2> QED
    BY <1>13, <2>1, <2>2
<1>15. matches = <<>> =>
         /\ i = Len(asked) + 1
         /\ Len(asked) <= Len(x.registries)
         /\ \A n \in 1..Len(asked) : asked[n][1] = x.registries[n]
  <2> SUFFICES ASSUME matches = <<>>
               PROVE  /\ i = Len(asked) + 1
                      /\ Len(asked) <= Len(x.registries)
                      /\ \A n \in 1..Len(asked) : asked[n][1] = x.registries[n]
    OBVIOUS
  <2>1. x.matches = <<>> /\ i = x.i + 1
    BY <1>6
  <2>2. x.i = Len(x.asked) + 1 /\ \A n \in 1..Len(x.asked) : x.asked[n][1] = x.registries[n]
    BY <1>11, <2>1
  <2> QED
    BY <1>1, <1>7, <1>12, <1>13, <2>1, <2>2
<1>16. WalkInv(y)
  BY <1>8, <1>10, <1>14, <1>15 DEF WalkInv, Recorded
<1>17. LookupInv(y, now, heap)
  BY <1>1, <1>6, <1>10, <1>16 DEF LookupInv
<1> QED
  BY <1>4, <1>9, <1>10, <1>17, LocalStep

LEMMA KeyType ==
  ASSUME Inv, NEW l \in Lookup, w[l].pc # "idle", NEW k \in DOMAIN cache, k = key(l)
  PROVE  /\ heap[cache[k].value].about = w[l].did[1]
         /\ Sound(heap[cache[k].value], w[l].registries)
<1> DEFINE o == heap[cache[k].value]
<1>1. EntryInv(k, cache[k], heap) /\ heap \in Seq(Object)
  BY DEF Inv, CacheInv, Types
<1>2. o \in Object
  BY <1>1 DEF EntryInv
<1>3. PICK s \in Lists : k = registryCacheKey(o.about, s) /\ Sound(o, s)
  BY <1>1 DEF EntryInv
<1> DEFINE t == w[l].registries
<1> DEFINE d == w[l].did[1]
<1>4. s \in Seq(Registry) /\ t \in Seq(Registry)
  BY LookupAssumption, NamedType DEF Inv, Types, LookupsInv, Locals
<1>5. registryCacheKey(o.about, s) = registryCacheKey(d, t)
  BY <1>3 DEF key
<1> HIDE DEF o, t, d
<1>6. o.about = d /\ Alike(s, t)
  BY <1>4, <1>5, SameKey
<1>7. Sound(o, t)
  BY <1>2, <1>3, <1>4, <1>6, SoundForKey
<1> QED
  BY <1>6, <1>7 DEF o, t, d

\* A lookup is given a new object, and what else is new in the cache is another one.
LEMMA HandOut ==
  ASSUME Inv, NEW l \in Lookup, w[l].pc \in {"get", "walk"}, NEW n \in Nat,
         w' = [w EXCEPT ![l] = [w[l] EXCEPT !.pc = "returned", !.result = n]],
         now' = now,
         heap' \in Seq(Object), Len(heap) < n, n <= Len(heap'),
         \A m \in 1..Len(heap) : heap'[m] = heap[m],
         heap'[n].about = w[l].did[1],
         Sound(heap'[n], w[l].registries),
         expiry(heap'[n]) >= w[l].began,
         \A k \in DOMAIN cache' :
           \/ k \in DOMAIN cache /\ cache'[k] = cache[k]
           \/ /\ EntryInv(k, cache'[k], heap')
              /\ cache'[k].value > Len(heap) /\ cache'[k].value # n
  PROVE  Inv'
<1> DEFINE x == w[l]
<1> DEFINE y == [x EXCEPT !.pc = "returned", !.result = n]
<1>1. heap \in Seq(Object) /\ now \in Nat /\ w \in [Lookup -> Locals] /\ Len(heap) \in Nat
  BY DEF Inv, Types
<1>2. x \in Locals /\ LookupInv(x, now, heap)
  BY <1>1 DEF Inv, LookupsInv
<1>3. y \in Locals
  BY <1>2 DEF Locals
<1>4. /\ y.pc = "returned" /\ y.result = n /\ y.did = x.did /\ y.options = x.options
      /\ y.registries = x.registries /\ y.began = x.began /\ y.i = x.i
  BY <1>2 DEF Locals
<1>5. n \in 1..Len(heap') /\ Len(heap) <= Len(heap')
  BY <1>1
<1>6. /\ heap'[n].about = x.did[1]
      /\ Sound(heap'[n], x.registries)
      /\ expiry(heap'[n]) >= x.began
  OBVIOUS
<1>7. w' = [w EXCEPT ![l] = y] /\ x.pc \in {"get", "walk"}
  OBVIOUS
<1> HIDE DEF x, y
<1>8. LookupInv(y, now', heap')
  BY <1>2, <1>4, <1>5, <1>6, <1>7 DEF LookupInv
<1>9. /\ w' \in [Lookup -> Locals]
      /\ \A m \in Lookup : w'[m] = IF m = l THEN y ELSE w[m]
  BY <1>1, <1>3, <1>7
<1>10. LookupsInv'
  <2>1. ASSUME NEW m \in Lookup
        PROVE  LookupInv(w[m], now', heap')
    <3>1. w[m] \in Locals /\ LookupInv(w[m], now, heap)
      BY <1>1 DEF Inv, LookupsInv
    <3>2. w[m].pc = "returned" => heap'[w[m].result] = heap[w[m].result]
      BY <3>1 DEF LookupInv
    <3>3. LookupInv(w[m], now, heap')
      BY <1>1, <1>5, <3>1, <3>2, LookupCarried
    <3> QED
      BY <3>3
  <2> QED
    BY <1>8, <1>9, <2>1 DEF LookupsInv
<1>11. CacheInv'
  <2> SUFFICES ASSUME NEW k \in DOMAIN cache', k \in DOMAIN cache, cache'[k] = cache[k]
               PROVE  EntryInv(k, cache[k], heap')
    BY DEF CacheInv
  <2>1. EntryInv(k, cache[k], heap)
    BY DEF Inv, CacheInv
  <2>2. heap'[cache[k].value] = heap[cache[k].value]
    BY <2>1 DEF EntryInv
  <2> QED
    BY <1>1, <1>5, <2>1, <2>2, EntryCarried
<1>12. \A k \in DOMAIN cache : cache[k].value <= Len(heap)
  BY <1>1 DEF Inv, CacheInv, EntryInv
<1>13. \A m \in Lookup : w[m].pc = "returned" => w[m].result <= Len(heap)
  BY <1>1 DEF Inv, LookupsInv, LookupInv
<1>14. \A m \in Lookup : w[m].result \in Nat
  BY <1>1 DEF Locals
<1>15. Apart'
  <2>1. ASSUME NEW m \in Lookup, NEW k \in DOMAIN cache', Returned(m)'
        PROVE  cache'[k].value # w'[m].result
    <3>1. CASE k \in DOMAIN cache /\ cache'[k] = cache[k]
      <4>1. CASE m = l
        <5>1. cache'[k].value <= Len(heap) /\ w'[m].result = n
          BY <1>4, <1>9, <1>12, <3>1, <4>1
        <5>2. cache'[k].value \in Nat
          BY <3>1 DEF Inv, CacheInv, EntryInv, Entry
        <5> QED
          BY <1>1, <5>1, <5>2
      <4>2. CASE m # l
        BY <1>9, <2>1, <3>1, <4>2 DEF Inv, Apart, Returned
      <4> QED
        BY <4>1, <4>2
    <3>2. CASE /\ EntryInv(k, cache'[k], heap')
               /\ cache'[k].value > Len(heap) /\ cache'[k].value # n
      <4>1. cache'[k].value \in Nat
        BY <3>2 DEF EntryInv, Entry
      <4>2. m # l => w'[m].result <= Len(heap) /\ w'[m].result \in Nat
        BY <1>9, <1>13, <1>14, <2>1 DEF Returned
      <4>3. m = l => w'[m].result = n
        BY <1>4, <1>9
      <4> QED
        BY <1>1, <3>2, <4>1, <4>2, <4>3
    <3> QED
      BY <3>1, <3>2
  <2>2. ASSUME NEW m \in Lookup, NEW p \in Lookup, m # p, Returned(m)', Returned(p)'
        PROVE  w'[m].result # w'[p].result
    <3>1. \A q \in Lookup : q # l /\ Returned(q)' =>
            w'[q].result = w[q].result /\ Returned(q) /\ w[q].result # n
      BY <1>1, <1>9, <1>13, <1>14 DEF Returned
    <3>2. w'[l].result = n
      BY <1>4, <1>9
    <3> QED
      BY <2>2, <3>1, <3>2 DEF Inv, Apart
  <2> QED
    BY <2>1, <2>2 DEF Apart
<1> QED
  BY <1>1, <1>9, <1>10, <1>11, <1>15 DEF Inv, Types

LEMMA CachedStep ==
  ASSUME Inv, NEW l \in Lookup, ReturnCached(l)
  PROVE  Inv'
<1> DEFINE x == w[l]
<1> DEFINE k == key(l)
<1> DEFINE v == cache[k].value
<1> DEFINE n == Len(heap) + 1
<1>1. x \in Locals /\ LookupInv(x, now, heap) /\ x.pc = "get"
  BY DEF Inv, Types, LookupsInv, ReturnCached
<1>2. heap \in Seq(Object) /\ now \in Nat /\ n \in Nat
  BY DEF Inv, Types
<1>3. k \in DOMAIN cache
  BY DEF ReturnCached, cacheGet
<1>4. /\ v \in 1..Len(heap)
      /\ cache[k].expiresAt = <<expiry(heap[v])>>
  BY <1>3 DEF Inv, CacheInv, EntryInv
<1>5. heap[v] \in Object /\ expiry(heap[v]) \in Nat
  BY <1>2, <1>4, TtlType
<1>6. cacheGet(cache, k, now)[1] = v /\ now <= expiry(heap[v])
  <2>1. cacheGet(cache, k, now) # <<>>
    BY DEF ReturnCached
  <2> HIDE DEF k
  <2> QED
    BY <1>2, <1>4, <1>5, <2>1, Hit
<1>7. /\ heap' = Append(heap, heap[v])
      /\ w' = [w EXCEPT ![l] = [w[l] EXCEPT !.pc = "returned", !.result = n]]
      /\ UNCHANGED <<now, cache>>
  BY <1>6 DEF ReturnCached
<1>8. /\ heap[v].about = x.did[1]
      /\ Sound(heap[v], x.registries)
  BY <1>1, <1>3, KeyType
<1>9. /\ heap' \in Seq(Object)
      /\ Len(heap') = n
      /\ \A m \in 1..Len(heap) : heap'[m] = heap[m]
      /\ heap'[n] = heap[v]
  BY <1>2, <1>5, <1>7, AppendProperties
<1>10. x.began \in Nat /\ x.began <= now
  BY <1>1 DEF LookupInv, Locals
<1>11. Len(heap) < n /\ n <= Len(heap')
  BY <1>2, <1>9
<1> HIDE DEF k, v, n
<1>12. expiry(heap'[n]) >= w[l].began
  BY <1>2, <1>5, <1>6, <1>9, <1>10
<1> QED
  BY <1>1, <1>2, <1>7, <1>8, <1>9, <1>11, <1>12, HandOut

LEMMA FinishStep ==
  ASSUME Inv, NEW l \in Lookup, Finish(l)
  PROVE  Inv'
<1> DEFINE x == w[l]
<1> DEFINE o == newResult(x, x.did[1])
<1> DEFINE m == Len(heap) + 1
<1> DEFINE n == Len(heap) + 2
<1>1. x \in Locals /\ LookupInv(x, now, heap) /\ x.pc = "walk" /\ x.i > Len(x.registries)
  BY DEF Inv, Types, LookupsInv, Finish
<1>2. heap \in Seq(Object) /\ now \in Nat /\ n \in Nat /\ m \in Nat /\ Len(heap) \in Nat
  BY DEF Inv, Types
<1>3. x.did[1] \in Did /\ x.registries \in Lists /\ x.registries \in Seq(Registry)
  BY <1>1, NamedType
<1>4. /\ o.found = (x.matches # <<>>) /\ o.matches = x.matches /\ o.unchecked = x.unchecked
      /\ o.about = x.did[1] /\ o.asked = x.asked /\ o.at = now
  BY DEF newResult
<1>5. o \in Object
  BY <1>1, <1>2, <1>3 DEF newResult, Object, Locals
<1>6. WalkInv(x) /\ x.asked \in Seq(Answer) /\ x.i \in Nat /\ x.began <= now /\ x.began \in Nat
  BY <1>1 DEF LookupInv, Locals
<1>7. /\ heap' = heap \o <<o, o>>
      /\ cache' = cacheSet(cache, key(l), m, resultTtl(o), now)
      /\ w' = [w EXCEPT ![l] = [w[l] EXCEPT !.pc = "returned", !.result = n]]
      /\ now' = now
  BY DEF Finish
<1>8. /\ heap' \in Seq(Object)
      /\ Len(heap') = n
      /\ \A q \in 1..Len(heap) : heap'[q] = heap[q]
      /\ heap'[m] = o /\ heap'[n] = o
  <2> HIDE DEF o
  <2>1. <<o, o>> \in Seq(Object) /\ Len(<<o, o>>) = 2 /\ <<o, o>>[1] = o /\ <<o, o>>[2] = o
    BY <1>5
  <2> DEFINE two == <<o, o>>
  <2> HIDE DEF two
  <2>2. two \in Seq(Object) /\ Len(two) = 2 /\ two[1] = o /\ two[2] = o
    BY <2>1 DEF two
  <2>3. heap' = heap \o two
    BY <1>7 DEF two
  <2>4. heap \o two \in Seq(Object) /\ Len(heap \o two) = Len(heap) + Len(two)
    BY <1>2, <2>2, ConcatProperties
  <2>5. \A q \in 1..(Len(heap) + Len(two)) :
          (heap \o two)[q] = IF q <= Len(heap) THEN heap[q] ELSE two[q - Len(heap)]
    BY <1>2, <2>2, ConcatProperties
  <2>6. \A q \in 1..Len(heap) : heap'[q] = heap[q]
    BY <1>2, <2>2, <2>3, <2>5
  <2>7. heap'[m] = two[1]
    <3>1. m \in 1..(Len(heap) + Len(two)) /\ ~(m <= Len(heap)) /\ m - Len(heap) = 1
      BY <1>2, <2>2
    <3> HIDE DEF m
    <3> QED
      BY <2>3, <2>5, <3>1
  <2>8. heap'[n] = two[2]
    <3>1. n \in 1..(Len(heap) + Len(two)) /\ ~(n <= Len(heap)) /\ n - Len(heap) = 2
      BY <1>2, <2>2
    <3> HIDE DEF n
    <3> QED
      BY <2>3, <2>5, <3>1
  <2> QED
    BY <1>2, <2>2, <2>3, <2>4, <2>6, <2>7, <2>8
<1>9. key(l) = registryCacheKey(o.about, x.registries)
  BY <1>4 DEF key
<1> HIDE DEF o
<1>10. Sound(o, x.registries)
  <2>1. Recorded(o.asked, o.matches, o.unchecked, x.registries)
    BY <1>4, <1>6 DEF WalkInv
  <2>2. o.matches = <<>> =>
          /\ Len(o.asked) = Len(x.registries)
          /\ \A j \in 1..Len(x.registries) : \E q \in 1..Len(o.asked) : o.asked[q][1] = x.registries[j]
    <3> SUFFICES ASSUME x.matches = <<>>
                 PROVE  /\ Len(x.asked) = Len(x.registries)
                        /\ \A j \in 1..Len(x.registries) :
                             \E q \in 1..Len(x.asked) : x.asked[q][1] = x.registries[j]
      BY <1>4
    <3>1. /\ x.i = Len(x.asked) + 1
          /\ Len(x.asked) <= Len(x.registries)
          /\ \A q \in 1..Len(x.asked) : x.asked[q][1] = x.registries[q]
      BY <1>6 DEF WalkInv
    <3>2. Len(x.asked) = Len(x.registries)
      BY <1>1, <1>3, <1>6, <3>1
    <3> QED
      BY <3>1, <3>2
  <2> QED
    BY <1>4, <2>1, <2>2 DEF Sound
<1>11. resultTtl(o) \in Nat \ {0} /\ expiry(o) = now + resultTtl(o)
  BY <1>4, <1>5, TtlType DEF expiry
<1> DEFINE K == key(l)
<1>12. ASSUME NEW k \in DOMAIN cache', ~(k \in DOMAIN cache /\ cache'[k] = cache[k])
       PROVE  EntryInv(k, cache'[k], heap') /\ cache'[k].value > Len(heap) /\ cache'[k].value # n
  <2> DEFINE e == [value |-> m, expiresAt |-> <<expiry(o)>>]
  <2>1. k = K /\ cache'[k] = e
    <3>1. k \in DOMAIN cacheSet(cache, K, m, resultTtl(o), now)
      BY <1>7, <1>12
    <3> HIDE DEF K, m
    <3>2. \/ k = K /\ cacheSet(cache, K, m, resultTtl(o), now)[k]
                        = [value |-> m, expiresAt |-> <<now + resultTtl(o)>>]
          \/ k \in DOMAIN cache /\ cacheSet(cache, K, m, resultTtl(o), now)[k] = cache[k]
      BY <1>2, <1>11, <3>1, SetAdds
    <3> QED
      BY <1>7, <1>11, <1>12, <3>2 DEF K
  <2>2. expiry(o) \in Nat
    BY <1>5, TtlType
  <2>3. e \in Entry /\ e.value = m /\ e.expiresAt = <<expiry(o)>>
    BY <1>2, <2>2 DEF Entry
  <2>4. m \in 1..Len(heap') /\ m > Len(heap) /\ m # n
    BY <1>2, <1>8
  <2> HIDE DEF e, m, n, x, K
  <2>5. EntryInv(k, e, heap')
    BY <1>3, <1>8, <1>9, <1>10, <2>1, <2>3, <2>4 DEF EntryInv, K
  <2> QED
    BY <2>1, <2>3, <2>4, <2>5
<1>13. expiry(heap'[n]) >= w[l].began
  <2> HIDE DEF n
  <2> QED
    BY <1>2, <1>6, <1>8, <1>11
<1>14. Len(heap) < n /\ n <= Len(heap')
  BY <1>2, <1>8
<1>15. heap'[n].about = w[l].did[1] /\ Sound(heap'[n], w[l].registries)
  BY <1>4, <1>8, <1>10
<1> HIDE DEF n, m
<1> QED
  BY <1>1, <1>2, <1>7, <1>8, <1>12, <1>13, <1>14, <1>15, HandOut

LEMMA EditsStep ==
  ASSUME Inv, NEW l \in Lookup, CallerEdits(l)
  PROVE  Inv'
<1> DEFINE x == w[l]
<1> DEFINE y == [x EXCEPT !.pc = "edited"]
<1> DEFINE r == x.result
<1> DEFINE o == [heap[r] EXCEPT !.found = FALSE, !.matches = <<>>, !.unchecked = <<>>]
<1>1. x \in Locals /\ LookupInv(x, now, heap) /\ x.pc = "returned"
  BY DEF Inv, Types, LookupsInv, CallerEdits
<1>2. heap \in Seq(Object) /\ now \in Nat /\ w \in [Lookup -> Locals]
  BY DEF Inv, Types
<1>3. r \in 1..Len(heap)
  BY <1>1 DEF LookupInv
<1>4. o \in Object
  <2>1. heap[r] \in Object
    BY <1>2, <1>3
  <2>2. <<>> \in Seq(Registry)
    OBVIOUS
  <2> HIDE DEF r
  <2> QED
    BY <2>1, <2>2 DEF Object
<1>5. /\ heap' = [heap EXCEPT ![r] = o]
      /\ w' = [w EXCEPT ![l] = y]
      /\ UNCHANGED <<now, cache>>
  BY DEF CallerEdits
<1>6. y \in Locals /\ y.pc = "edited"
  BY <1>1 DEF Locals
<1>7. LookupInv(y, now, heap)
  BY <1>1 DEF LookupInv, Locals
<1> HIDE DEF x, y, o, r
<1>8. /\ heap' \in Seq(Object)
      /\ Len(heap') = Len(heap)
      /\ \A n \in 1..Len(heap) : n # r => heap'[n] = heap[n]
  BY <1>2, <1>3, <1>4, <1>5
<1>9. /\ w' \in [Lookup -> Locals]
      /\ \A m \in Lookup : w'[m] = IF m = l THEN y ELSE w[m]
  BY <1>2, <1>5, <1>6
<1>10. Len(heap) <= Len(heap')
  BY <1>2, <1>8
<1>11. ASSUME NEW z \in Locals, LookupInv(z, now, heap), z.pc = "returned" => z.result # r
       PROVE  LookupInv(z, now, heap')
  <2>1. z.pc = "returned" => heap'[z.result] = heap[z.result]
    BY <1>8, <1>11 DEF LookupInv
  <2> QED
    BY <1>2, <1>8, <1>10, <1>11, <2>1, LookupCarried
<1>12. LookupsInv'
  <2>1. LookupInv(y, now, heap')
    BY <1>6, <1>7, <1>11
  <2>2. ASSUME NEW m \in Lookup, m # l
        PROVE  LookupInv(w[m], now, heap')
    <3>1. w[m] \in Locals /\ LookupInv(w[m], now, heap)
      BY <1>2 DEF Inv, LookupsInv
    <3>2. w[m].pc = "returned" => w[m].result # r
      BY <1>1, <2>2 DEF Inv, Apart, Returned, x, r
    <3> QED
      BY <1>11, <3>1, <3>2
  <2> QED
    BY <1>5, <1>9, <2>1, <2>2 DEF LookupsInv
<1>13. CacheInv'
  <2> SUFFICES ASSUME NEW k \in DOMAIN cache
               PROVE  EntryInv(k, cache[k], heap')
    BY <1>5 DEF CacheInv
  <2>1. EntryInv(k, cache[k], heap)
    BY DEF Inv, CacheInv
  <2>2. cache[k].value # r
    BY <1>1 DEF Inv, Apart, Returned, x, r
  <2>3. heap'[cache[k].value] = heap[cache[k].value]
    BY <1>8, <2>1, <2>2 DEF EntryInv
  <2> QED
    BY <1>2, <1>8, <1>10, <2>1, <2>3, EntryCarried
<1>14. Apart'
  BY <1>5, <1>6, <1>9 DEF Inv, Apart, Returned
<1> QED
  BY <1>2, <1>5, <1>8, <1>9, <1>12, <1>13, <1>14 DEF Inv, Types

LEMMA TickStep ==
  ASSUME Inv, Tick
  PROVE  Inv'
<1>1. now \in Nat /\ now' = now + 1 /\ UNCHANGED <<heap, cache, w>>
  BY DEF Tick, Inv, Types
<1>2. LookupsInv'
  <2> SUFFICES ASSUME NEW m \in Lookup
               PROVE  LookupInv(w[m], now', heap)
    BY <1>1 DEF LookupsInv
  <2>1. w[m] \in Locals /\ LookupInv(w[m], now, heap) /\ heap \in Seq(Object)
    BY DEF Inv, Types, LookupsInv
  <2>2. now' \in Nat /\ now <= now' /\ Len(heap) <= Len(heap)
    BY <1>1, <2>1
  <2> DEFINE u == now'
  <2> HIDE DEF u
  <2>3. LookupInv(w[m], u, heap)
    BY <1>1, <2>1, <2>2, LookupCarried DEF u
  <2> QED
    BY <2>3 DEF u
<1>3. CacheInv' /\ Apart'
  BY <1>1 DEF Inv, CacheInv, Apart, Returned
<1> QED
  BY <1>1, <1>2, <1>3 DEF Inv, Types

LEMMA Invariant == Spec => []Inv
<1>1. Init => Inv
  <2> SUFFICES ASSUME Init PROVE Inv
    OBVIOUS
  <2>1. \A l \in Lookup : w[l] \in Locals
    BY DEF Init, Locals
  <2>2. Types
    BY <2>1 DEF Init, Types
  <2>3. LookupsInv
    BY DEF Init, LookupsInv, LookupInv
  <2>4. DOMAIN cache = {}
    BY DEF Init, emptyCache
  <2>5. CacheInv /\ Apart
    BY <2>4 DEF CacheInv, Apart, Init, Returned
  <2> QED
    BY <2>2, <2>3, <2>5 DEF Inv
<1>2. Inv /\ [Next]_vars => Inv'
  <2> SUFFICES ASSUME Inv, [Next]_vars PROVE Inv'
    OBVIOUS
  <2>1. CASE UNCHANGED vars
    BY <2>1 DEF Inv, Types, LookupsInv, CacheInv, Apart, Returned, vars
  <2>2. ASSUME NEW l \in Lookup, NEW did \in Did, NEW registries \in Lists,
               NEW options \in Options, Call(l, did, registries, options)
        PROVE  Inv'
    BY <2>2, CallStep
  <2>3. ASSUME NEW l \in Lookup, Advance(l)
        PROVE  Inv'
    <3>1. CASE ReturnCached(l)
      BY <3>1, CachedStep
    <3>2. CASE Miss(l)
      BY <3>2, MissStep
    <3>3. ASSUME NEW status \in Status, HandlerAnswers(l, status)
          PROVE  Inv'
      BY <3>3, AnswersStep
    <3>4. CASE HandlerThrows(l)
      BY <3>4, ThrowsStep
    <3>5. CASE Finish(l)
      BY <3>5, FinishStep
    <3> QED
      BY <2>3, <3>1, <3>2, <3>3, <3>4, <3>5 DEF Advance, Status
  <2>4. ASSUME NEW l \in Lookup, CallerEdits(l)
        PROVE  Inv'
    BY <2>4, EditsStep
  <2>5. CASE Tick
    BY <2>5, TickStep
  <2> QED
    BY <2>1, <2>2, <2>3, <2>4, <2>5 DEF Next, Idle
<1> QED
  BY <1>1, <1>2, PTL DEF Spec

-----------------------------------------------------------------------------
(* The theorems *)

\* Whatever lookups share the cache and whatever callers do to their results, a
\* lookup is given what the handlers of one walk said about its own DID and
\* registries, in an object of its own.
THEOREM HandlersSaid == Spec => []ResultIsWhatHandlersSaid
<1>1. Inv => ResultIsWhatHandlersSaid
  <2> SUFFICES ASSUME Inv, NEW l \in Lookup, Returned(l)
               PROVE  LET x == result(l) IN
                      /\ x.about = w[l].did[1]
                      /\ x.found <=> x.matches # <<>>
                      /\ Gave(x.asked, "found", x.matches)
                      /\ Gave(x.asked, "unchecked", x.unchecked)
                      /\ \A i \in 1..Len(x.asked) : \E j \in 1..Len(w[l].registries) :
                           w[l].registries[j] = x.asked[i][1]
                      /\ \A k \in DOMAIN cache : cache[k].value # w[l].result
    BY DEF ResultIsWhatHandlersSaid
  <2>1. result(l).about = w[l].did[1] /\ Sound(result(l), w[l].registries)
    BY DEF Inv, LookupsInv, LookupInv, Returned, result
  <2>2. \A k \in DOMAIN cache : cache[k].value # w[l].result
    BY DEF Inv, Apart
  <2> QED
    BY <2>1, <2>2 DEF Sound, Recorded
<1> QED
  BY <1>1, Invariant, PTL

\* No lookup is given a result that outlived its time: a minute for one that left
\* registries unchecked, an hour for a complete one, whichever walk it comes from.
THEOREM RetriedSoon == Spec => []OutageRetriedSoon
<1>1. Inv => OutageRetriedSoon
  BY DEF Inv, LookupsInv, LookupInv, Returned, result, OutageRetriedSoon, expiry, resultTtl
<1> QED
  BY <1>1, Invariant, PTL

\* A registry that left its answer open is on the list of unchecked ones, and a
\* list shorter than the answers leaves one that was not of its kind.
LEMMA Listed ==
  ASSUME NEW asked \in Seq(Answer), NEW status, NEW registries \in Seq(Registry),
         Gave(asked, status, registries)
  PROVE  /\ \A i \in 1..Len(asked) : asked[i][2] = status =>
              \E n \in 1..Len(registries) : registries[n] = asked[i][1]
         /\ Len(registries) < Len(asked) => \E i \in 1..Len(asked) : asked[i][2] # status
<1>1. ASSUME NEW i \in 1..Len(asked), asked[i][2] = status
      PROVE  \E n \in 1..Len(registries) : registries[n] = asked[i][1]
  <2>1. i \in answeredBy(asked, status)
    BY <1>1 DEF answeredBy
  <2> DEFINE n == Cardinality({j \in answeredBy(asked, status) : j <= i})
  <2>2. n \in 1..Len(registries)
    BY <2>1, Ranked DEF Gave
  <2>3. registries[n] = asked[i][1]
    BY <2>1 DEF Gave
  <2> QED
    BY <2>2, <2>3
<1>2. ASSUME \A i \in 1..Len(asked) : asked[i][2] = status
      PROVE  Len(registries) = Len(asked)
  <2>1. answeredBy(asked, status) = 1..Len(asked)
    BY <1>2 DEF answeredBy
  <2>2. Cardinality(1..Len(asked)) = Len(asked)
    BY UpTo
  <2> QED
    BY <2>1, <2>2 DEF Gave
<1> QED
  BY <1>1, <1>2

\* A lookup that makes the check say "not registered" rests on answers: some registry
\* said so, none lists the issuer, and each configured one said so or is named.
THEOREM NotRegistered == Spec => []NotRegisteredEstablished
<1>1. ASSUME Inv, NEW l \in Lookup, Returned(l),
             "ISSUER_NOT_REGISTERED" \in issuerRegistryCheck(result(l), w[l].registries)
      PROVE  LET asked == {result(l).asked[i] : i \in 1..Len(result(l).asked)} IN
             /\ \E a \in asked : a[2] = "not-found"
             /\ \A a \in asked : a[2] # "found"
             /\ \A j \in 1..Len(w[l].registries) :
                  <<w[l].registries[j], "not-found">> \in asked
                    \/ \E i \in 1..Len(result(l).unchecked) :
                         result(l).unchecked[i] = w[l].registries[j]
  <2> DEFINE o == result(l)
  <2> DEFINE registries == w[l].registries
  <2>1. Sound(o, registries) /\ o \in Object /\ registries \in Seq(Registry)
    BY <1>1 DEF Inv, Types, LookupsInv, LookupInv, Returned, result, Locals
  <2>2. ~o.found /\ Len(o.unchecked) < Len(registries)
    <3>1. /\ Len(o.unchecked) \in Nat /\ Len(registries) \in Nat
          /\ "ISSUER_NOT_REGISTERED" \in issuerRegistryCheck(o, registries)
      BY <1>1, <2>1 DEF Object
    <3> HIDE DEF o, registries
    <3>2. "ISSUER_NOT_REGISTERED" # "REGISTRY_UNCHECKED"
      OBVIOUS
    <3> QED
      BY <3>1, <3>2 DEF issuerRegistryCheck
  <2> HIDE DEF o, registries
  <2>3. o.asked \in Seq(Answer) /\ o.unchecked \in Seq(Registry)
    BY <2>1 DEF Object
  <2>4. /\ o.matches = <<>>
        /\ Gave(o.asked, "found", o.matches)
        /\ Gave(o.asked, "unchecked", o.unchecked)
        /\ Len(o.asked) = Len(registries)
        /\ \A j \in 1..Len(registries) : \E n \in 1..Len(o.asked) : o.asked[n][1] = registries[j]
    BY <2>1, <2>2 DEF Sound, Recorded
  <2>5. \A n \in 1..Len(o.asked) : o.asked[n][2] # "found"
    <3>1. Cardinality(answeredBy(o.asked, "found")) = 0
      BY <2>4 DEF Gave
    <3>2. IsFiniteSet(answeredBy(o.asked, "found"))
      BY <2>3, AnsweredFinite
    <3>3. answeredBy(o.asked, "found") = {}
      BY <3>1, <3>2, FS_EmptySet
    <3> QED
      BY <3>3 DEF answeredBy
  <2>6. /\ \A n \in 1..Len(o.asked) : o.asked[n][2] = "unchecked" =>
             \E i \in 1..Len(o.unchecked) : o.unchecked[i] = o.asked[n][1]
        /\ \E n \in 1..Len(o.asked) : o.asked[n][2] # "unchecked"
    <3> DEFINE open == "unchecked"
    <3>1. Gave(o.asked, open, o.unchecked)
      BY <2>4
    <3> HIDE DEF open
    <3>2. /\ \A n \in 1..Len(o.asked) : o.asked[n][2] = open =>
               \E i \in 1..Len(o.unchecked) : o.unchecked[i] = o.asked[n][1]
          /\ Len(o.unchecked) < Len(o.asked) => \E n \in 1..Len(o.asked) : o.asked[n][2] # open
      BY <2>3, <3>1, Listed
    <3> QED
      BY <2>2, <2>4, <3>2 DEF open
  <2>7. \A n \in 1..Len(o.asked) : /\ o.asked[n] = <<o.asked[n][1], o.asked[n][2]>>
                                   /\ o.asked[n][2] \in Status
    BY <2>3 DEF Answer
  <2>8. \A n \in 1..Len(o.asked) : o.asked[n][2] # "unchecked" => o.asked[n][2] = "not-found"
    BY <2>5, <2>7 DEF Status
  <2> DEFINE asked == {o.asked[i] : i \in 1..Len(o.asked)}
  <2>9. \E a \in asked : a[2] = "not-found"
    BY <2>6, <2>8
  <2>10. \A a \in asked : a[2] # "found"
    BY <2>5
  <2>11. ASSUME NEW j \in 1..Len(registries)
         PROVE  \/ <<registries[j], "not-found">> \in asked
                \/ \E i \in 1..Len(o.unchecked) : o.unchecked[i] = registries[j]
    <3>1. PICK n \in 1..Len(o.asked) : o.asked[n][1] = registries[j]
      BY <2>4
    <3>2. CASE o.asked[n][2] = "unchecked"
      BY <2>6, <3>1, <3>2
    <3>3. CASE o.asked[n][2] # "unchecked"
      <4>1. o.asked[n] = <<registries[j], "not-found">>
        BY <2>7, <2>8, <3>1, <3>3
      <4>2. o.asked[n] \in asked
        OBVIOUS
      <4> QED
        BY <4>1, <4>2
    <3> QED
      BY <3>2, <3>3
  <2> QED
    BY <2>9, <2>10, <2>11 DEF o, registries
<1>2. Inv => NotRegisteredEstablished
  BY <1>1 DEF NotRegisteredEstablished
<1> QED
  BY <1>2, Invariant, PTL

=============================================================================
