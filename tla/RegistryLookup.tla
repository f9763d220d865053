---------------------------- MODULE RegistryLookup ---------------------------
(***************************************************************************)
(* src/services/registry-lookup.ts: walking the configured registries for   *)
(* an issuer DID, and the cache of whole results in front of the walk; and  *)
(* the verdict src/suites/registry/ draws from a result.                    *)
(*                                                                          *)
(* Lookups run concurrently on one cache and suspend at every handler.      *)
(* Results are objects: the cache and a caller may hold the same one, and a *)
(* caller may change the one it was given.  The handlers are those of       *)
(* RegistryHandlers or a caller's own: they answer anything, or throw.      *)
(***************************************************************************)
EXTENDS InMemoryCache, FiniteSets

CONSTANTS
  Lookup,                  \* the lookups that may be under way
  Did,                     \* issuer DIDs
  Registry,                \* configured registries
  Lists,                   \* the lists of registries a lookup may be given
  Options,                 \* the options a lookup may be given
  DEFAULT_TTL_MS,          \* one hour, in ticks of the clock
  PARTIAL_RESULT_TTL_MS,   \* one minute, likewise
  MaxTime                  \* bound on the clock

ASSUME LookupAssumption ==
  /\ Lists \subseteq Seq(Registry)
  /\ Options \subseteq [fresh : BOOLEAN, exhaustive : BOOLEAN]
  /\ PARTIAL_RESULT_TTL_MS \in Nat \ {0}
  /\ DEFAULT_TTL_MS \in Nat
  /\ PARTIAL_RESULT_TTL_MS < DEFAULT_TTL_MS
  /\ MaxTime \in Nat

VARIABLES
  now,     \* the clock
  heap,    \* the result objects, in the order they were made
  cache,   \* the cache of results: a value is an index of heap
  w        \* the lookups

vars == <<now, heap, cache, w>>

-----------------------------------------------------------------------------

\* Fault: the registries are left out of the key.
KeyByDid(did, registries) == <<did>>

\* The DID and the registries with their multiplicities, whatever their order.
registryCacheKey(did, registries) ==
  <<did, [r \in {registries[i] : i \in 1..Len(registries)} |->
            Cardinality({i \in 1..Len(registries) : registries[i] = r})]>>

(* A result object.  The last three fields are history: the DID it is about,  *)
(* what each handler of the walk answered, and when the walk ended.           *)
newResult(x, did) ==
  [found |-> x.matches # <<>>, matches |-> x.matches, unchecked |-> x.unchecked,
   about |-> did, asked |-> x.asked, at |-> now]

\* Fault: a result with unchecked registries is kept as long as a complete one.
FullTtl(result) == DEFAULT_TTL_MS

resultTtl(result) ==
  IF result.unchecked # <<>> THEN PARTIAL_RESULT_TTL_MS ELSE DEFAULT_TTL_MS

Init ==
  /\ now = 0
  /\ heap = <<>>
  /\ cache = emptyCache
  /\ w = [l \in Lookup |-> [pc |-> "idle", did |-> <<>>, registries |-> <<>>, options |-> <<>>,
                            began |-> 0, i |-> 0, matches |-> <<>>, unchecked |-> <<>>,
                            asked |-> <<>>, result |-> 0]]

key(l) == registryCacheKey(w[l].did[1], w[l].registries)

\* lookupIssuers is called; a fresh lookup goes straight to the registries.
Call(l, did, registries, options) ==
  /\ w[l].pc = "idle"
  /\ w' = [w EXCEPT ![l] = [@ EXCEPT !.pc = IF options.fresh THEN "walk" ELSE "get",
                                     !.did = <<did>>, !.registries = registries,
                                     !.options = <<options>>, !.began = now, !.i = 1]]
  /\ UNCHANGED <<now, heap, cache>>

\* A hit: the caller is given a copy (klona).
ReturnCached(l) ==
  /\ w[l].pc = "get"
  /\ cacheGet(cache, key(l), now) # <<>>
  /\ heap' = Append(heap, heap[cacheGet(cache, key(l), now)[1]])
  /\ w' = [w EXCEPT ![l] = [@ EXCEPT !.pc = "returned", !.result = Len(heap) + 1]]
  /\ UNCHANGED <<now, cache>>

Miss(l) ==
  /\ w[l].pc = "get"
  /\ cacheGet(cache, key(l), now) = <<>>
  /\ cache' = cacheAfterGet(cache, key(l), now)
  /\ w' = [w EXCEPT ![l].pc = "walk"]
  /\ UNCHANGED <<now, heap>>

Walking(l) == w[l].pc = "walk" /\ w[l].i <= Len(w[l].registries)

\* The handler of the current registry answers; a match ends the walk unless
\* the lookup is exhaustive.
HandlerAnswers(l, status) ==
  /\ Walking(l)
  /\ LET x == w[l]
         r == x.registries[x.i]
     IN w' = [w EXCEPT ![l] = [x EXCEPT
          !.matches   = IF status = "found" THEN Append(x.matches, r) ELSE x.matches,
          !.unchecked = IF status = "unchecked" THEN Append(x.unchecked, r) ELSE x.unchecked,
          !.asked     = Append(x.asked, <<r, status>>),
          !.i         = IF status = "found" /\ ~x.options[1].exhaustive
                        THEN Len(x.registries) + 1 ELSE x.i + 1]]
  /\ UNCHANGED <<now, heap, cache>>

\* A handler's throw rejects the lookup; nothing is cached.
HandlerThrows(l) ==
  /\ Walking(l)
  /\ w' = [w EXCEPT ![l].pc = "threw"]
  /\ UNCHANGED <<now, heap, cache>>

\* Fault: the object that was cached is handed out.
FinishAlias(l) ==
  /\ w[l].pc = "walk"
  /\ w[l].i > Len(w[l].registries)
  /\ LET result == newResult(w[l], w[l].did[1]) IN
     /\ heap' = Append(heap, result)
     /\ cache' = cacheSet(cache, key(l), Len(heap) + 1, resultTtl(result), now)
  /\ w' = [w EXCEPT ![l] = [@ EXCEPT !.pc = "returned", !.result = Len(heap) + 1]]
  /\ UNCHANGED now

\* The walk is over: the result is cached and the caller given a copy of it.
Finish(l) ==
  /\ w[l].pc = "walk"
  /\ w[l].i > Len(w[l].registries)
  /\ LET result == newResult(w[l], w[l].did[1]) IN
     /\ heap' = heap \o <<result, result>>
     /\ cache' = cacheSet(cache, key(l), Len(heap) + 1, resultTtl(result), now)
  /\ w' = [w EXCEPT ![l] = [@ EXCEPT !.pc = "returned", !.result = Len(heap) + 2]]
  /\ UNCHANGED now

\* The caller edits the payload it was handed.
CallerEdits(l) ==
  /\ w[l].pc = "returned"
  /\ w' = [w EXCEPT ![l].pc = "edited"]
  /\ heap' = [heap EXCEPT ![w[l].result] = [@ EXCEPT !.found = FALSE, !.matches = <<>>,
                                                     !.unchecked = <<>>]]
  /\ UNCHANGED <<now, cache>>

Tick ==
  /\ now < MaxTime
  /\ now' = now + 1
  /\ UNCHANGED <<heap, cache, w>>

Advance(l) ==
  \/ ReturnCached(l)
  \/ Miss(l)
  \/ \E status \in {"found", "not-found", "unchecked"} : HandlerAnswers(l, status)
  \/ HandlerThrows(l)
  \/ Finish(l)

Settled(l) == w[l].pc \in {"returned", "edited", "threw"}

Idle == (\A l \in Lookup : Settled(l)) /\ UNCHANGED vars

Next ==
  \/ \E l \in Lookup, did \in Did, registries \in Lists, options \in Options :
       Call(l, did, registries, options)
  \/ \E l \in Lookup : Advance(l)
  \/ \E l \in Lookup : CallerEdits(l)
  \/ Tick
  \/ Idle

Spec == Init /\ [][Next]_vars

-----------------------------------------------------------------------------
(* registry.issuer: the problems the check reports for a result, {} for success *)

issuerRegistryCheck(result, registries) ==
  IF result.found THEN {}
  ELSE IF Len(result.unchecked) >= Len(registries)
       THEN {"REGISTRY_UNCHECKED"}
       ELSE {"ISSUER_NOT_REGISTERED"}
              \cup (IF result.unchecked # <<>> THEN {"REGISTRY_UNCHECKED"} ELSE {})

-----------------------------------------------------------------------------
(* What a lookup promises *)

result(l)   == heap[w[l].result]
Returned(l) == w[l].pc = "returned"

\* The registries are those that gave this answer, in the order they were asked.
answeredBy(asked, status) == {i \in 1..Len(asked) : asked[i][2] = status}

Gave(asked, status, registries) ==
  /\ Len(registries) = Cardinality(answeredBy(asked, status))
  /\ \A i \in answeredBy(asked, status) :
       registries[Cardinality({j \in answeredBy(asked, status) : j <= i})] = asked[i][1]

\* What a caller is given is what the handlers said about this DID and these
\* registries: neither another lookup's result under the same key nor a
\* caller's edit of its own result changes it, and it is never the very object
\* that the cache holds.
ResultIsWhatHandlersSaid ==
  \A l \in Lookup : Returned(l) =>
    LET x == result(l) IN
    /\ x.about = w[l].did[1]
    /\ x.found <=> x.matches # <<>>
    /\ Gave(x.asked, "found", x.matches)
    /\ Gave(x.asked, "unchecked", x.unchecked)
    /\ \A i \in 1..Len(x.asked) : \E j \in 1..Len(w[l].registries) :
         w[l].registries[j] = x.asked[i][1]
    /\ \A k \in DOMAIN cache : cache[k].value # w[l].result

\* "A transient outage is retried soon": a result that left registries
\* unchecked is given out for at most a minute after its walk, a complete one
\* for at most an hour.
OutageRetriedSoon ==
  \A l \in Lookup : Returned(l) =>
    result(l).at + (IF result(l).unchecked # <<>> THEN PARTIAL_RESULT_TTL_MS ELSE DEFAULT_TTL_MS)
      >= w[l].began

\* "Not registered" is claimed only when it was established: some registry
\* said so, none lists the issuer, and each one configured either said so or is
\* named as unchecked.
NotRegisteredEstablished ==
  \A l \in Lookup :
    /\ Returned(l)
    /\ "ISSUER_NOT_REGISTERED" \in issuerRegistryCheck(result(l), w[l].registries)
    => LET asked == {result(l).asked[i] : i \in 1..Len(result(l).asked)} IN
       /\ \E a \in asked : a[2] = "not-found"
       /\ \A a \in asked : a[2] # "found"
       /\ \A j \in 1..Len(w[l].registries) :
            <<w[l].registries[j], "not-found">> \in asked
              \/ \E i \in 1..Len(result(l).unchecked) :
                   result(l).unchecked[i] = w[l].registries[j]

=============================================================================
