------------------------------ MODULE UrlPolicy ------------------------------
(***************************************************************************)
(* src/services/http-get-service/url-policy.ts: which URLs the built-in     *)
(* service may ask for.  A URL is what its parser leaves of it: a scheme    *)
(* and a host, which is a name, "localhost" (or a name under it), the four  *)
(* octets of an IPv4 literal or the eight groups of an IPv6 literal.        *)
(***************************************************************************)
EXTENDS Naturals, Sequences

Octet == 0..255
Group == 0..65535

\* A `v6` host is already expanded: the parser has validated the literal.
ParsedUrl ==
  [scheme : {"https", "http", "other"},
   host : [kind : {"name", "localhost"}, at : {<<>>}]
          \cup [kind : {"v4"}, at : [1..4 -> Octet]]
          \cup [kind : {"v6"}, at : [1..8 -> Group]]]

Cidr(network, prefix) == [network |-> network, prefix |-> prefix]

IPV4_BLOCKED ==
  {Cidr(<<0, 0, 0, 0>>, 8), Cidr(<<127, 0, 0, 0>>, 8), Cidr(<<10, 0, 0, 0>>, 8),
   Cidr(<<172, 16, 0, 0>>, 12), Cidr(<<192, 168, 0, 0>>, 16), Cidr(<<100, 64, 0, 0>>, 10),
   Cidr(<<168, 63, 129, 16>>, 32), Cidr(<<192, 0, 0, 0>>, 24), Cidr(<<169, 254, 0, 0>>, 16),
   Cidr(<<224, 0, 0, 0>>, 4), Cidr(<<240, 0, 0, 0>>, 4)}

\* The 32-bit mask of a prefix, octet by octet: the i-th octet keeps the bits of
\* the prefix that fall into it.
keptBits(prefix, i) ==
  IF prefix >= 8 * i THEN 8 ELSE IF prefix <= 8 * (i - 1) THEN 0 ELSE prefix - 8 * (i - 1)

masked(address, prefix) ==
  [i \in 1..4 |-> LET low == 2 ^ (8 - keptBits(prefix, i)) IN (address[i] \div low) * low]

checkIpv4(address) ==
  ~ \E range \in IPV4_BLOCKED : masked(address, range.prefix) = masked(range.network, range.prefix)

zerosUpTo(groups, end) == \A i \in 1..end : groups[i] = 0

\* Two groups as the four octets of the IPv4 address they embed.
embedded(high, low) == <<high \div 256, high % 256, low \div 256, low % 256>>

\* A group under a mask that keeps its first `bits` bits.
prefixed(group, bits) == (group \div 2 ^ (16 - bits)) * 2 ^ (16 - bits)

nat64(groups)  == groups[1] = 100 /\ groups[2] = 65435                         \* 64:ff9b
mapped(groups) == zerosUpTo(groups, 5) /\ groups[6] \in {0, 65535}

reserved6(groups) ==
  \/ nat64(groups) /\ groups[3] = 1
  \/ prefixed(groups[1], 7) = 64512                                      \* fc00::/7
  \/ prefixed(groups[1], 10) \in {65152, 65216}                          \* fe80, fec0 /10
  \/ prefixed(groups[1], 8) = 65280                                      \* ff00::/8

\* Fault: an IPv4 address embedded in an IPv6 one is not looked into.
Ipv6ByPrefix(groups) == ~zerosUpTo(groups, 7) /\ ~reserved6(groups)

\* The octets of an embedded IPv4 address are judged before any other prefix.
checkIpv6(groups) ==
  CASE mapped(groups) \/ (nat64(groups) /\ \A i \in 3..6 : groups[i] = 0) ->
         /\ ~(zerosUpTo(groups, 7) /\ groups[8] \in {0, 1})
         /\ checkIpv4(embedded(groups[7], groups[8]))
    [] groups[1] = 8194 ->                                               \* 2002::/16
         checkIpv4(embedded(groups[2], groups[3]))
    [] OTHER -> ~reserved6(groups)

checkUrl(url, allowInsecure) ==
  IF allowInsecure THEN url.scheme \in {"https", "http"}
  ELSE /\ url.scheme = "https"
       /\ CASE url.host.kind = "localhost" -> FALSE
            [] url.host.kind = "v4"        -> checkIpv4(url.host.at)
            [] url.host.kind = "v6"        -> checkIpv6(url.host.at)
            [] OTHER                       -> TRUE

-----------------------------------------------------------------------------
(* The addresses the policy is there to keep out, listed by their bounds: the  *)
(* blocks of RFC 6890 and the two metadata services the comments name.         *)

Between(address, prefix, low, high) ==
  SubSeq(address, 1, Len(prefix)) = prefix /\ address[Len(prefix) + 1] \in low..high

NotPublic4(a) ==
  \/ a[1] \in {0, 10, 127} \/ a[1] >= 224
  \/ Between(a, <<172>>, 16, 31)
  \/ Between(a, <<192>>, 168, 168)
  \/ Between(a, <<169>>, 254, 254)
  \/ Between(a, <<100>>, 64, 127)
  \/ Between(a, <<192, 0>>, 0, 0)
  \/ a = <<168, 63, 129, 16>>

\* The IPv4 address a packet to an IPv6 address ends up at, if any.
LeadsTo(g) ==
  CASE \A i \in 1..5 : g[i] = 0 /\ g[6] \in {0, 65535} -> <<embedded(g[7], g[8])>>
    [] g[1] = 100 /\ g[2] = 65435 /\ \A i \in 3..6 : g[i] = 0 -> <<embedded(g[7], g[8])>>
    [] g[1] = 8194 -> <<embedded(g[2], g[3])>>
    [] OTHER -> <<>>

NotPublic6(g) ==
  \/ LeadsTo(g) # <<>> /\ NotPublic4(LeadsTo(g)[1])
  \/ g[1] \in 64512..65023 \/ g[1] \in 65152..65279 \/ g[1] \in 65280..65535
  \/ g[1] = 100 /\ g[2] = 65435 /\ g[3] = 1

NotPublic(host) ==
  CASE host.kind = "v4" -> NotPublic4(host.at)
    [] host.kind = "v6" -> NotPublic6(host.at)
    [] OTHER            -> host.kind = "localhost"

=============================================================================
