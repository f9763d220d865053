------------------------------ MODULE MCHttpGet ------------------------------
(* A small instance of HttpGet: two requests, two URLs, two redirects and two *)
(* chunks.  The URLs are the addresses on either side of a bound of the       *)
(* policy, written in each form that embeds one.                              *)
EXTENDS HttpGet, TLC

CONSTANTS g1, g2, outside, inside

Https(kind, at) == [scheme |-> "https", host |-> [kind |-> kind, at |-> at]]
V4(a)           == Https("v4", a)
V6(g)           == Https("v6", g)
Name            == Https("name", <<>>)

Pair(x, y)  == (outside :> x) @@ (inside :> y)
Low(a)      == a[1] * 256 + a[2]
High(a)     == a[3] * 256 + a[4]
Mapped(a)   == V6(<<0, 0, 0, 0, 0, 65535, Low(a), High(a)>>)
Nat64(a)    == V6(<<100, 65435, 0, 0, 0, 0, Low(a), High(a)>>)
SixToFour(a) == V6(<<8194, Low(a), High(a), 0, 0, 0, 0, 1>>)

\* The address just outside a refused range and the nearest one inside it.
MCPairs ==
  {Pair(V4(<<172, 15, 255, 255>>), V4(<<172, 16, 0, 0>>)),
   Pair(V4(<<172, 32, 0, 0>>), V4(<<172, 31, 255, 255>>)),
   Pair(V4(<<100, 63, 255, 255>>), V4(<<100, 64, 0, 0>>)),
   Pair(V4(<<168, 63, 129, 17>>), V4(<<168, 63, 129, 16>>)),
   Pair(V4(<<192, 0, 1, 0>>), V4(<<192, 0, 0, 255>>)),
   Pair(V4(<<223, 255, 255, 255>>), V4(<<224, 0, 0, 0>>)),
   Pair(Mapped(<<172, 15, 255, 255>>), Mapped(<<10, 0, 0, 1>>)),
   Pair(Nat64(<<128, 0, 0, 1>>), Nat64(<<127, 0, 0, 1>>)),
   Pair(SixToFour(<<192, 169, 0, 1>>), SixToFour(<<192, 168, 0, 1>>)),
   Pair(Name, V6(<<0, 0, 0, 0, 0, 0, 0, 1>>)),
   Pair(V6(<<65024, 0, 0, 0, 0, 0, 0, 1>>), V6(<<65023, 0, 0, 0, 0, 0, 0, 1>>)),
   Pair(V6(<<65151, 0, 0, 0, 0, 0, 0, 1>>), V6(<<65152, 0, 0, 0, 0, 0, 0, 1>>)),
   Pair(V6(<<100, 65435, 2, 0, 0, 0, 0, 1>>), V6(<<100, 65435, 1, 0, 0, 0, 0, 1>>)),
   Pair(Name, Https("localhost", <<>>))}

MCNetworks ==
  [allowInsecure : {FALSE}, at : MCPairs]
    \cup {[allowInsecure |-> TRUE,
           at |-> Pair([Name EXCEPT !.scheme = "http"], [Name EXCEPT !.scheme = "other"])]}

=============================================================================
