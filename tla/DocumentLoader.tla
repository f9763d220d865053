--------------------------- MODULE DocumentLoader ----------------------------
(***************************************************************************)
(* What the signature library is given when it asks for a context or for   *)
(* the document of a DID, depending on what the HTTP GET service answers   *)
(* (src/src/util/document-loader-from-http-get.ts and                      *)
(* did-webvh-driver-with-http-get.ts).  An outcome is "loaded" or the name *)
(* of the error, with its code if it is a DIDResolutionError.              *)
(***************************************************************************)
EXTENDS Naturals

\* The service's answer; `json` says of a body that it parses.
Thrown == [kind |-> "thrown"]

Reply == {Thrown} \cup [kind : {"answer"}, status : {200, 404, 500}, json : BOOLEAN]

ok(reply) == reply.kind = "answer" /\ reply.status >= 200 /\ reply.status < 300

notFound(reply) == reply.kind = "answer" /\ reply.status = 404

\* The body of an answer read as JSON; a parsed body is taken as it is.
parsed(reply) == ok(reply) /\ reply.json

\* did:web: every failure is a DIDResolutionError.
fetchDidWebDocument(reply) ==
  CASE notFound(reply) -> "notFound"
    [] parsed(reply)   -> "loaded"
    [] OTHER           -> "internalError"

\* did:webvh: the log is lines of JSON, so that a body need not parse as one
\* value; what the driver makes of a body that is no valid log is its own code.
didWebvhLog(reply) ==
  CASE ok(reply)       -> {"loaded", "other"}
    [] notFound(reply) -> {"notFound"}
    [] OTHER           -> {"internalError"}

\* The drivers of the loader; did:key needs no request.
DidMethod == {"web", "webvh", "key"}

resolveDid(method, reply) ==
  CASE method = "web"   -> {fetchDidWebDocument(reply)}
    [] method = "webvh" -> didWebvhLog(reply)
    [] method = "key"   -> {"loaded"}

\* Any other document: every failure is a plain error that names the URL.
loadRemoteDocument(reply) ==
  IF parsed(reply) THEN "loaded" ELSE "NotFoundError"

=============================================================================
