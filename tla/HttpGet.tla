------------------------------- MODULE HttpGet -------------------------------
(***************************************************************************)
(* src/services/http-get-service/builtin-http-get-service.ts: GET requests  *)
(* under the URL policy, a redirect limit, a byte cap and a deadline.       *)
(* Requests run concurrently and share one flag: whether the runtime has    *)
(* been seen to hide redirects.                                             *)
(*                                                                          *)
(* The runtime decides what `redirect: 'manual'` does: Node returns each    *)
(* 3xx, a browser answers a redirect opaquely, React Native follows anyway. *)
(* Where the runtime follows by itself, only the URL reached is seen.       *)
(***************************************************************************)
EXTENDS UrlPolicy

CONSTANTS
  Request,         \* the GETs that may be under way
  Url,             \* the URLs in play
  Networks,        \* how the service may be configured and what its URLs parse to:
                   \* records [allowInsecure, at], with `at` a ParsedUrl per URL
  MAX_REDIRECTS,
  maxBytes,        \* the byte cap, in chunks
  MaxChunk         \* bound: the largest chunk a body is read in

ASSUME NetworkAssumption ==
  \A n \in Networks : n.allowInsecure \in BOOLEAN /\ n.at \in [Url -> ParsedUrl]
ASSUME LimitAssumption ==
  /\ MAX_REDIRECTS \in Nat
  /\ maxBytes \in Nat \ {0}
  /\ MaxChunk \in Nat \ {0}

Runtime == {"node", "browser", "react-native"}

VARIABLES
  runtime,           \* where the service runs
  network,           \* its configuration, and what the URLs are
  followsRedirects,  \* the shared flag
  q                  \* the requests

httpVars == <<runtime, network, followsRedirects, q>>

-----------------------------------------------------------------------------

\* `current` and `reached` are optional; `sent` (the requests made, with their
\* redirect mode) is history.
HttpInit ==
  /\ runtime \in Runtime
  /\ network \in Networks
  /\ followsRedirects = FALSE
  /\ q = [g \in Request |-> [pc |-> "idle", current |-> <<>>, reached |-> <<>>, redirects |-> 0,
                             total |-> 0, sent |-> <<>>]]

Goto(g, pc) == q' = [q EXCEPT ![g].pc = pc]

assertAllowed(url) == checkUrl(network.at[url], network.allowInsecure)

\* get(url) is called: the deadline starts.
Get(g, url) ==
  /\ q[g].pc = "idle"
  /\ q' = [q EXCEPT ![g] = [@ EXCEPT !.pc = "hop", !.current = <<url>>]]
  /\ UNCHANGED <<runtime, network, followsRedirects>>

HopRefused(g) ==
  /\ q[g].pc = "hop"
  /\ ~assertAllowed(q[g].current[1])
  /\ Goto(g, "failed")
  /\ UNCHANGED <<runtime, network, followsRedirects>>

Send(x, mode) == [x EXCEPT !.pc = "sent", !.sent = Append(@, [url |-> x.current[1], mode |-> mode])]

Fetch(g) ==
  /\ q[g].pc = "hop"
  /\ assertAllowed(q[g].current[1])
  /\ q' = [q EXCEPT ![g] = Send(@, IF followsRedirects THEN "follow" ELSE "manual")]
  /\ UNCHANGED <<runtime, network, followsRedirects>>

FetchFails(g) ==
  /\ q[g].pc = "sent"
  /\ Goto(g, "failed")
  /\ UNCHANGED <<runtime, network, followsRedirects>>

lastMode(g) == q[g].sent[Len(q[g].sent)].mode

\* A browser hides the redirect: the runtime is remembered, and the request is
\* made again for the browser to follow.
OpaqueRedirect(g) ==
  /\ q[g].pc = "sent"
  /\ runtime = "browser" /\ lastMode(g) = "manual"
  /\ followsRedirects' = TRUE
  /\ q' = [q EXCEPT ![g] = Send(@, "follow")]
  /\ UNCHANGED <<runtime, network>>

\* Fault: one redirect too many is followed.
OneTooMany(redirects) == redirects > MAX_REDIRECTS

tooMany(redirects) == redirects = MAX_REDIRECTS

\* A redirect the runtime shows; `location` is <<>> when it is not a URL.
Redirect(g, location) ==
  /\ q[g].pc = "sent"
  /\ runtime = "node"
  /\ q' = [q EXCEPT ![g] =
       IF followsRedirects THEN [@ EXCEPT !.pc = "reached", !.reached = q[g].current]
       ELSE IF tooMany(@.redirects) \/ location = <<>> THEN [@ EXCEPT !.pc = "failed"]
       ELSE [@ EXCEPT !.pc = "hop", !.current = location, !.redirects = q[g].redirects + 1]]
  /\ UNCHANGED <<runtime, network, followsRedirects>>

\* The final response, from the URL asked for unless the runtime followed.
Respond(g, url) ==
  /\ q[g].pc = "sent"
  /\ \/ url = q[g].current[1]
     \/ runtime = "react-native"
     \/ runtime = "browser" /\ lastMode(g) = "follow"
  /\ q' = [q EXCEPT ![g] = [@ EXCEPT !.pc = "reached", !.reached = <<url>>]]
  /\ UNCHANGED <<runtime, network, followsRedirects>>

\* Fault: the URL reached is not judged.
ReachedUnjudged(x) == TRUE

\* The URL reached is judged, before the body is read, if it is another one.
reachedAllowed(x) == x.reached = x.current \/ assertAllowed(x.reached[1])

JudgeReached(g) ==
  /\ q[g].pc = "reached"
  /\ Goto(g, IF reachedAllowed(q[g]) THEN "read" ELSE "failed")
  /\ UNCHANGED <<runtime, network, followsRedirects>>

withinCap(total, chunk) == total + chunk <= maxBytes

ReadChunk(g, chunk) ==
  /\ q[g].pc = "read"
  /\ q' = [q EXCEPT ![g] = IF withinCap(@.total, chunk)
                           THEN [@ EXCEPT !.total = q[g].total + chunk]
                           ELSE [@ EXCEPT !.pc = "failed"]]
  /\ UNCHANGED <<runtime, network, followsRedirects>>

\* The declared length is over the cap, or reading fails.
ReadFails(g) ==
  /\ q[g].pc = "read"
  /\ Goto(g, "failed")
  /\ UNCHANGED <<runtime, network, followsRedirects>>

ReadDone(g) ==
  /\ q[g].pc = "read"
  /\ Goto(g, "done")
  /\ UNCHANGED <<runtime, network, followsRedirects>>

Pending(g) == q[g].pc \in {"hop", "sent", "reached", "read"}

\* Fault: the deadline aborts without rejecting, and the runtime goes on reading.
TimeoutAbortsOnly(g) ==
  /\ Pending(g)
  /\ UNCHANGED httpVars

\* The deadline wins the race, whatever the request is waiting for.
Timeout(g) ==
  /\ Pending(g)
  /\ Goto(g, "timed-out")
  /\ UNCHANGED <<runtime, network, followsRedirects>>

Settled(g) == q[g].pc \in {"done", "failed", "timed-out"}

AllSettled == (\A g \in Request : Settled(g)) /\ UNCHANGED httpVars

HttpNext ==
  \/ \E g \in Request, url \in Url : Get(g, url)
  \/ \E g \in Request :
       \/ HopRefused(g)
       \/ Fetch(g)
       \/ FetchFails(g)
       \/ OpaqueRedirect(g)
       \/ \E location \in {<<>>} \cup {<<u>> : u \in Url} : Redirect(g, location)
       \/ \E url \in Url : Respond(g, url)
       \/ JudgeReached(g)
       \/ \E chunk \in 1..MaxChunk : ReadChunk(g, chunk)
       \/ ReadFails(g)
       \/ ReadDone(g)
       \/ Timeout(g)
  \/ AllSettled

HttpSpec == HttpInit /\ [][HttpNext]_httpVars

\* The timer fires; nothing is asked of the network.
HttpFairSpec == HttpSpec /\ \A g \in Request : WF_httpVars(Timeout(g))

-----------------------------------------------------------------------------
(* Types *)

RequestOk(x) ==
  /\ x.pc \in {"idle", "hop", "sent", "reached", "read", "done", "failed", "timed-out"}
  /\ x.pc # "idle" => x.current[1] \in Url
  /\ x.redirects \in 0..MAX_REDIRECTS
  /\ x.total \in 0..maxBytes
  /\ x.pc = "sent" => x.sent # <<>> /\ x.sent[Len(x.sent)].url = x.current[1]
  /\ x.pc \in {"reached", "read", "done"} => x.reached # <<>>

\* The redirect count and the bytes kept never pass their limits.
HttpTypeOK ==
  /\ runtime \in Runtime
  /\ network \in Networks
  /\ followsRedirects \in BOOLEAN
  /\ \A g \in Request : RequestOk(q[g])

-----------------------------------------------------------------------------
(* What the service promises *)

\* What may be asked for: HTTPS to a host that is not, and does not lead to, an
\* address kept out by the policy; or HTTP too, if the service is built insecure.
Reachable(url) ==
  \/ network.allowInsecure /\ network.at[url].scheme \in {"https", "http"}
  \/ network.at[url].scheme = "https" /\ ~NotPublic(network.at[url].host)

\* "On Node, every redirect hop is checked before it is requested, and at most
\* MAX_REDIRECTS are followed": no other request makes a server stop seeing the
\* hops of this one. Elsewhere every URL the service itself asks for is checked,
\* and whatever form an address is written in it is one that may be asked for.
HopsWithinPolicy ==
  \A g \in Request :
    /\ \A i \in 1..Len(q[g].sent) :
         /\ Reachable(q[g].sent[i].url)
         /\ q[g].sent[i].mode = "follow" => runtime = "browser"
    /\ runtime = "node" => Len(q[g].sent) <= MAX_REDIRECTS + 1

\* A body is delivered only from a URL that may be asked for, however it was
\* reached, and never above the cap.
DeliveredWithinPolicy ==
  \A g \in Request :
    q[g].pc = "done" => Reachable(q[g].reached[1]) /\ q[g].total <= maxBytes

\* "One deadline covers the whole request": a GET settles even if no server
\* ever answers and no runtime ever aborts.
GetSettles == \A g \in Request : Pending(g) ~> Settled(g)

=============================================================================
