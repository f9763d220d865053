---------------------------- MODULE InMemoryCache ----------------------------
(***************************************************************************)
(* src/services/cache-service/in-memory-cache-service.ts: a map with lazy   *)
(* expiry.  The map is a function whose domain is the keys present; an      *)
(* entry without an expiry time (the empty sequence) never leaves it.       *)
(***************************************************************************)
EXTENDS Integers, Sequences

emptyCache == [key \in {} |-> <<>>]

isExpired(map, key, now) == map[key].expiresAt # <<>> /\ now > map[key].expiresAt[1]

\* The value under the key, as an optional, and the map a get leaves behind.
cacheGet(map, key, now) ==
  IF key \in DOMAIN map /\ ~isExpired(map, key, now) THEN <<map[key].value>> ELSE <<>>

cacheAfterGet(map, key, now) ==
  IF key \in DOMAIN map /\ isExpired(map, key, now)
  THEN [k \in DOMAIN map \ {key} |-> map[k]]
  ELSE map

cacheSet(map, key, value, ttl, now) ==
  [k \in DOMAIN map \cup {key} |->
     IF k = key
     THEN [value |-> value, expiresAt |-> IF ttl > 0 THEN <<now + ttl>> ELSE <<>>]
     ELSE map[k]]

=============================================================================
