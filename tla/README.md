# Verification of verifier-core

TLA+ models of `@interop/verifier-core`, a library that verifies W3C Verifiable
Credentials and Presentations: TLC configurations that model-check them, and
proofs that TLAPS checks. Paths such as `verifier.ts` are relative to
`src/src/`. Every definition that models code is listed in `PROJECT.json`
(`map`) with the lines it stands for.

## The system

A caller constructs a **verifier** (`verifier.ts`) with services and options and
calls `verifyCredential` or `verifyPresentation`. Each call parses the document,
builds a context, and hands a list of **suites** to the **orchestrator**
(`run-suites.ts`), which runs their checks one after the other and returns one
row per check; `fold-results.ts` summarises them per suite. A presentation's
credentials are then verified one by one through nested `verifyCredential`
calls.

| part | state it keeps | operations | who it talks to |
|---|---|---|---|
| orchestrator, folding | position in the suites, `haltedBy`, the rows | run, skip, list or halt a check | awaits the checks |
| verifier | constructor options | verify a credential, a presentation | orchestrator; itself, nested |
| crypto dispatch, proof suite | a memo of dispatched verdicts per context and document | `proof.signature`, `proof.unsupported-proofs` | crypto services |
| status suite | a record of proven status lists per context | `status.bitstring`, `status.list-issuer` | `checkStatus`, which calls back for each list |
| registry lookup | a cache of results | `lookupIssuers` | registry handlers |
| registry handlers | cached documents in the same cache | dcc-legacy, vc-recognition, oidf lookups | GET service; the verifier again |
| cache | a map with lazy expiry | get, set | |
| HTTP GET | a flag: the runtime hides redirects | get | the network |
| data-integrity service | none | verify a document with one proof or a set | signature library, which loads keys and contexts through the GET service |
| JWS verification | none | verify one entity statement | WebCrypto |
| URL policy | none | refuse a URL | |
| gate, core, recognition, Open Badges checks | none | one check of one document each | |

What is hard in this code: verifications run concurrently (one verifier serves
many calls) and share caches, memos and a flag, with an `await` between reading
and writing each; a check may throw or fail half way; proofs, lists and
registries answer in any order or not at all; documents expire while they are
being verified; the verifier is re-entered from inside a registry handler; the
reason of a failure is reconstructed from a library's aggregate error; the same
classes of documents are described twice, by schemas and by parsers; and
`verified` must never be claimed on the strength of something that did not run.
`PROJECT.json` lists each hazard at its line with the properties that would
catch it.

Correct means, per part:

* orchestrator: after a halting failure nothing runs; a pass means every fatal
  check ran; the report is complete and its summaries agree with it;
* proof suite: a good signature verdict rests on a verified proof and on no bad
  one, of this run and this context;
* data-integrity service: whatever a rejection reports is true of the proof it
  names, and a pass means a proof bound to what the caller asked for;
* status suite: success means every entry was read from a proven list;
* registries: answers are as fresh as promised, are about the issuer and the
  registries asked, and "not registered" is never a guess;
* checks of content: what a schema accepts its parser accepts, but for the
  dates on which their grammars differ, a credential is judged by its own type
  and version, and references resolve when the checks say so;
* GET: no request leaves the URL policy where hops can be seen, nothing over
  the cap is delivered, and every request settles;
* verifier: options reach every nested call, recursion is bounded, and the
  aggregate verdict covers every credential.

## Modules

| module | models | variables ↔ code |
|---|---|---|
| `CheckTypes` | `types/check.ts`, `expandPhases`, `checkAppliesTo` | (vocabulary) ids are sequences of segments; an optional value is a sequence of length 0 or 1 |
| `FoldResults` | `fold-results.ts` | (operators) `foldCheckResults` and its helpers |
| `RunSuites` | `run-suites.ts` | `s`, `c` the two loop indices; `haltedBy`, `results` as in the code; `applies` what each predicate answered (history); `pc = "execute"` is the `await` of a check |
| `SubjectVerdict` | nothing of the code: what one subject is promised | abstract specification, refined by `RunSuites` |
| `TwoPass` | the documented two-pass workflow, over `RunSuites` | `world` fixes what the credential makes checks answer, `reports` the finished passes |
| `CryptoDispatch` | `crypto-dispatch.ts` | (operators) which proofs are dispatched, how outcomes combine |
| `ProofSet` | `suites/proof/` | `memo` is `verifiedProofs`, `dispatches` every dispatch made, `run` counts `beginProofRun` |
| `StatusSuite` | `suites/status/` | `verifiedLists` is the record of `status-lists.ts`, `hooks` the calls of the hook given to `checkStatus` |
| `DocumentLoader` | `document-loader-from-http-get.ts`, `did-webvh-driver-with-http-get.ts` | (operators) what each answer of a GET is turned into |
| `DataIntegrityCrypto` | `data-integrity-crypto.ts`, `validity-period-check.ts`, over `CryptoDispatch` and `DocumentLoader` | `now` the instant of the call, `clock` the time it really is; `answers` the settled dispatches; `signature`, `validity` the outcomes of the two checks; `troubles` what the network did (history) |
| `InMemoryCache` | `in-memory-cache-service.ts` | (operators) the map as a function |
| `JwsVerify` | `jws-verify.ts` | (operators) header tests, key selection and its fallback |
| `RegistryHandlers` | `services/registry-handlers/`, over `JwsVerify` | `h` one record of locals per lookup, `cache`, `now` |
| `RegistryLookup` | `registry-lookup.ts`, `registry-cache-key.ts`, `issuer-registry-check.ts` | `heap` the result objects (so that aliasing can be expressed), `cache` from keys to objects, `w` the lookups' locals |
| `UrlPolicy` | `url-policy.ts` | (operators) schemes, names and address ranges |
| `HttpGet` | `builtin-http-get-service.ts`, over `UrlPolicy` | `followsRedirects` the shared flag, `q` the requests' locals, `runtime` where it runs |
| `Verifier` | `verifier.ts` | `stack` the calls under way, each awaiting the next and each with one row per position in its suites; `cached` the recognition credential in the cache |
| `JsonShape` | `json-shape.ts`, `vc-contexts.ts` | (operators) a JSON value is a record tagged with its kind |
| `ObVocabulary` | the keywords of JSON Schema and the combinators of Zod that the code uses | (operators) shapes and classes, and what conforms to them: `Instances` is the function which tells, of every value of a document and every class of a schema, whether the one is an instance of the other |
| `ObSchemaAchievement`, `ObSchemaAchievementV1p1`, `ObSchemaEndorsement`, `ObSchemaEndorsementV1p1` | the four vendored JSON schemas | (data) one class per definition of the schema, named with a prefix of its own (`BadgeV1_Profile`) where the schemas share a name |
| `ObParser` | `openbadges/schemas/` | (data and operators) the two Open Badges parsers |
| `StructureChecks` | `suites/core/` | (operators) the six checks |
| `ObSemanticChecks`, `ObSchemaChecks` | `openbadges/`, `openbadges/schema/` | (operators) recognition predicates, the four semantic checks; schema selection, validation and declared schemas |
| `CredentialChecks` | `schemas/`, the gate in front of the suites, and the order in which one call runs these checks | `pending` the checks still to run, `report` the outcomes, `profile` what a recognizer found |

`MC*` modules hold the small instances; a `*_proofs` module holds the theorems
about the module it is named after and their proofs. Those of `TwoPass` stand
in `RunSuites_proofs`, on which they rest, and those of `RegistryHandlers` and
of `HttpGet`, which fetches for them, in `Fetching_proofs`: the two have no name
in common.

One action is one step between two `await`s of the code, with everything that
code does in between. `\* Fault:` definitions are not used by the
specifications: each states a plausible bug in the definition after it and is
listed under `mutants`, to show that the properties would notice it.

The composition is by contract. `Verifier` takes suites by their outcome, which
is what `RunSuites` establishes of them; `RunSuites` takes checks as arbitrary
code that settles, which is what `ProofSet`, `StatusSuite` and `RegistryLookup`
establish of the built-in ones (`ChecksSettle`, `StatusSettles`; of a lookup,
whose walk only moves forward, the absence of deadlock), and what the checks of
`CredentialChecks` are by being functions; `ProofSet` takes the answers of a
service as free, which `DataIntegrityCrypto` refines for the built-in one; and
those take a GET as something that settles, which is `HttpGet`'s `GetSettles`.
Where the composition is by use, the modules say so: `HttpGet` asks `UrlPolicy`
for every hop, `RegistryHandlers` verifies statements with `JwsVerify`,
`DataIntegrityCrypto` answers `CryptoDispatch` and loads through
`DocumentLoader`, and `CredentialChecks` runs the content checks.

### Abstractions worth knowing

* Messages, titles and payloads are left out; a problem is its type (and, for a
  proof set, the proof it is about).
* Cryptography, JSON-LD and DID resolution are external: a proof's answer is
  chosen freely, and two questions about one proof may be answered differently.
  In `DataIntegrityCrypto` a proof has a fault, and the library below the
  service (which proofs it skips, which error it raises) is written out as the
  service expects it to be.
* JSON values are records tagged with their kind. A text is a model value or a
  literal the code compares with; what a pattern, a format, a URL or a date
  parser says of it is membership of a constant set. The code has three grammars
  of dates, and each is a set of its own, none assumed to be within another:
  `DateTime` (the core suite's `dateRegex`), `FormatDateTime` (`ajv-formats`, in
  the schemas) and `OffsetDateTime` (Zod, in the parsers). So are `Url`, what
  `new URL` takes, and `Iri`, what the parsers' pattern does.
* `oneOf` is `anyOf` in the schemas: the alternatives of each one exclude one
  another. Lists of violations, pointers and messages are reduced to there being
  some, and the normalized form that a parser returns is left out.
* Dates in `DataIntegrityCrypto` are natural numbers: a date that cannot be
  read is the core suite's to refuse.
* A fetched registry document is reduced to what its handler reads of it.
* A runtime without a readable body hands over the whole text and the cap is
  applied to it then (`response.text()`, on React Native); in `HttpGet` every body
  comes in chunks that are counted as they arrive. Both deliver the same bodies,
  and both may be stalled.
* There is one clock. The code has two: handlers read the context's time
  service and the in-memory cache reads `Date.now`. They agree unless a caller
  injects a clock of his own.
* `Verifier` abstracts the result cache of `RegistryLookup` away and takes the
  caching of a recognition credential as possible at any time.
* A URL is what its parser leaves of it, a scheme and a name or the octets or
  groups of an address. A runtime that follows redirects by itself may reach any
  URL.
* `Within` collects the values of a document and `Instances` is a recursive
  function over them. Documents are finite and without `undefined`
  (`IsJsonDocument`, assumed of the calls), so that there is exactly one.
* History (`asked`, `since`, `at`, `sent`, `known`, `applies`, ...) is named as
  such where it is declared; no guard reads it.

## Runs

Passing runs:

| run | instance | what it shows |
|---|---|---|
| `run_suites` | 4 lists of up to 3 suites, cut-down built-in and caller-made ones (with a predicate, untagged, queued twice, a fatal check that does not halt), both subjects, 3 phase requests, queued explicitly or not | halting, completeness, summaries, termination, and refinement of `SubjectVerdict` |
| `two_pass` | one suite of each phase and an untagged one, every combination of predicates and outcomes that can change the verdict | splitting the work by phase changes neither the verdict nor, unless the full pass was halted, the rows |
| `crypto_service` | one proof of every kind (purpose, suite, fault) on either kind of document, pairs of proofs that fail each for its own reason, credentials that become valid or expire meanwhile, an array with an entry that is no proof; each challenge and domain; every answer of the network | a rejection blames what is wrong, a pass is bound to the challenge, dates are judged at one instant |
| `proof_set` | 6 shapes of document (single, pair, with a non-object entry, unsigned, ...), checks in two orders, every answer of a service; two contexts on the same document, one queueing the suite twice | soundness of the signature verdict; verdicts are shared within a run only |
| `registry_handlers` | two lookups, two issuers, configured with a list and a recognition registry or with a federation; an hour is two ticks; documents with max-age 0, beyond the hour, expiring sooner or later, forged; keys that rotate under one kid, a kid that names no key, keys of another family or that cannot be imported, a critical header | freshness (no entry outlives its document, none stays for ever), federation answers that rest on a matching pair of statements, every lookup answers |
| `registry_lookup` | two lookups, two issuers, two registries in both orders and one alone; a minute is one tick, an hour two | results are not mixed up, aliased, or kept too long |
| `status_suite` | 7 lists of entries over two status lists; each proof outcome; lists of the credential's issuer, of another and of none; for two of them also a second run on the context, and for one a credential without an issuer | soundness of status, reporting of foreign issuers, only proven lists compared |
| `verifier` | presentations of up to two credentials (one may not parse), 5 ways of giving options × 3 constructors, added suites that are the caller's own or a second proof and registry suite | nesting, options, aggregation |
| `http_get` | two GETs, two redirects, two chunks, three runtimes; 14 pairs of an allowed and a refused URL on either side of a bound of the policy, in each form that embeds an IPv4 address, and a fifteenth under `allowInsecure` | policy, cap and deadline |
| `credential_checks` | a rich badge and endorsement of each data model version and a presentation, every document one edit away from one of them (a value of another kind, another text, a member missing or foreign, an array unwrapped, wrapped or empty), documents chosen for what they are, and every date of a document in each class of texts that the three grammars tell apart (42,312 states); recognizers and Open Badges suites varied | what the schema accepts the parser accepts, but for its own grammar of dates; references resolve, each credential is judged by its own type and version |

Why these bounds are enough to be interesting: the properties of the shared
structures speak of two parties at a time (one that wrote, one that reads), so
two lookups, contexts or GETs exhibit every conflict. Times to live matter only
by their order: an hour of two ticks leaves room for shorter, equal and longer
lifetimes and for a tick before and after expiry within `MaxTime`. Two
redirects separate "at the limit" from "below it". Two credentials and two
proofs separate "some" from "all", with a third entry that is no proof. A rule of
a schema or of a parser is about one member, so a document that satisfies every
rule and its neighbours at one edit reach each rule's edge; what takes two edits
at once is among the chosen documents. An address range is decided by its two
ends. The
named bounds are `MaxTime`, `MaxChunk`, the `runs` of a plan and the finite sets of each
configuration; no guard truncates a behaviour otherwise.

Runs that end in a counterexample, each against a statement of the
documentation (quoted in `PROJECT.json`, `findings`):

| run | statement that does not hold |
|---|---|
| `accepted_issuers` | a recognition credential's issuer is matched against the registry's own `acceptedIssuers`: not on a cache hit |
| `dangling_reference` | a reference check still fires when a nearby field is malformed: not when the field is one the shared tolerant parse reads |

Smaller disagreements, met while modelling, have no run of their own. About the
workflow and the registries:

* `types/check.ts:156` says that the union of the results of the two passes is
  the full pass; once a check halted the full one, it lists as not run what the
  semantic pass runs.
* `docs/architecture.md:544` says that `partial` is set whenever phases were
  passed; the early returns for a document that does not parse and for rejected
  options leave it unset.
* `types/registry.ts:129` says that an exhaustive lookup checks all registries;
  a cached result of a lookup that stopped at a match answers it
  (`registry-lookup.ts:97`).
* `types/registry.ts:110` says that matches are in configured order; the cache
  key sorts the registries, so a result cached for another order is given out.
* `types/registry.ts:40` says that a recognition credential's proof is verified;
  it is verified with the constructor's phases, which may leave that out
  (`verifier.ts:165`).
* `docs/architecture.md:344` says that it is cached until `validUntil` if sooner;
  one that expires during its verification is kept for an hour.
* `oidf-handler.ts:33` says that a statement is never cached past its `exp`; the
  clock is read once per lookup, so it is, by the time the fetches took. It is
  never used past it (`OidfFoundVerified`).
* The repository's `README.md:478` says that `INVALID_SIGNATURE` means a signature
  that does not match the content; a JSON-LD context that cannot be fetched
  (`document-loader-from-http-get.ts:108`) is classified so as well.
  `BlameIsTrue` allows for that case, and for a DID log that is not valid.

About the content checks:

* `recognizers.ts:16` calls the recognizers mutually exclusive; a credential of
  both types is taken by the first.
* A result or description that the schema allows as a single object is not read
  by the semantic checks, which are skipped with the reason that there is none.
* The schema's pattern accepts the context `context.json`, which recognition
  does not; its pattern for extension types is not anchored, so that a type
  which only contains `ext:` passes the schema and is reported as unknown.
* The parser of endorsements reads an `image` of the credential, which the schema
  of endorsements does not mention and lets be anything; one whose image is not
  a picture passes the schema and is not recognized.
* Dates are tested by three grammars. AJV takes a lower-case `t` and `z`, a space
  for the `T` and an offset without minutes, none of which Zod takes; Zod takes a
  time without seconds, which the other two do not; `dateRegex` takes a date
  without an offset. The comment at `structure-helpers.ts:120` says why the core
  suite and its library agree on what a valid date is; the schema check and the
  parsers do not agree with either. `fields-v3p0.ts:17` leaves strict validation of
  formats to the schema check, and yet an endorsement whose `awardedDate` is
  `2024-01-01t00:00:00z` passes the schema and is not recognized. `DatedForParser`
  is exactly that difference: `SchemaAcceptedIsRecognized` says that it decides
  whether an accepted credential is recognized, and that nothing else does.
* The schemas take any text for an `id`, where the parsers ask now for a URL, now
  for an IRI, and neither contains the other: `urn:` is a URL, and `http://[bad`
  is an IRI. `Plain` asks for both.
* The parsers accept a type that is a text or an array for `Image` and
  `IdentityObject`, where the schema wants the one text, and check the date that
  only the other version of the data model reads.

In `status_suite`, `MismatchReported` is about the first run on a context: a
list whose hook outlives its run is recorded in the run that follows.

### Fairness

JavaScript's event loop resumes every settled promise, so a step that is
enabled is eventually taken: weak fairness of the program's own steps, per
handler lookup, context, GET or call of `runSuites`. `RegistryLookup`,
`Verifier`, `DataIntegrityCrypto`, `TwoPass` and `CredentialChecks` check safety
only and state none. What is awaited settles because GETs have a deadline
(`Promise.race` with a timer), which is the only thing `HttpGet` assumes: weak
fairness of `Timeout`, none of the network. Crypto services and `checkStatus`
are external and assumed to answer, since what they load goes through the same
GET service. An injected GET service, registry handler or check that never
settles is outside these assumptions, as it is outside the code's. No caller is
assumed to call.

## Proofs

The `*_proofs` modules hold theorems for every value of the constants: any
number of suites, checks, proofs, entries, lookups, requests or nested calls,
where a run has two or three. What they assume of the constants is named beside
them and says that inputs have the shape the code's types give them
(`CallsAssumption`, `SegmentAssumption`, `PlansAssumption`, `PlanAssumption`,
`NetworkAssumption`, `LookupAssumption`, `ConfigAssumption`, `CallAssumption`,
`PublishedAssumption`, `RegistryAssumption`; `SubjectsAssumption`: a subject
handed to the data-integrity service has a proof; `LocationAssumption`: something
may be served where a registry's documents are looked for; `WorldsAssumption`: a
world answers every predicate and check of the calls made in it;
`NameAssumption`, `LimitAssumption`, `MaxTimeAssumption`, `TtlAssumption`: the
code's own names are names and its limits are numbers; of the registry cache,
that a minute is shorter than an hour; `TextsAssumption`: the empty text is no
URL, and an Open Badges context is not one of the two contexts of the data
model). No theorem has another hypothesis.

All of them have one shape: an inductive invariant, which TLC checked on the
instance of the component's run before it was proved, one lemma or step for each
action, and `PTL`. What follows says what the invariant adds and why the
property does not stand without it.

**`RunSuites_proofs`**

* `TypeCorrect`. `TypeOK` is inductive; the work is in lemmas on `computeId`, on
  rows and on appending to the report.
* `HaltFinal` (`HaltIsFinal`). That a later row is a "not run" row follows from
  `haltedBy`, not from the earlier row. `HaltInv` ties the two: every halting
  row's check *is* `haltedBy`, `haltedBy` is set only if such a row exists, and
  no check is awaited once it is set.
* `VerifiedChecked` (`VerifiedMeansChecked`). `CheckedInv` says of every check
  *behind* the loop position that, unless a fatal failure has been recorded, it
  was executed and did not fail if it is fatal, applies and its suite was
  entered; at `pc = "done"` every check is behind. A predicate that threw is
  covered because `couldFail` is exactly "the suite has such a check".
* `Complete` (`ReportComplete`). `ReportInv` is the property of the positions
  behind the loop, in both directions and in order. It needs why the suite at
  hand was entered (`EnteredInv`), and that a row about a later position changes
  nothing about which suites come after a halt (`HaltedBeforeSame`).
* `Accounted` (`SummariesAccountForReport`). `WhyInv`: a "not run" row comes after
  the halting row it blames. The rest is about the fold: its groups partition the
  rows (`HeapsCount`, by cardinality) and are ordered by their first rows.
* `Implements`. `Spec => Verdict!Spec`, the refinement of `SubjectVerdict`, by a
  step-by-step simulation under `TypeOK` and `HaltInv`.
* `TwoPassesAgree` (`TwoPassVerdict`), of the specification `TSpec` of `TwoPass`.
  `RowAt` says which row the world makes at a position, `InWorld` which rows it
  makes in some phases. `PassInv`: until a halt the report holds what the world
  makes of every position passed by (`RowsMade`, `NothingMissed`), and after it
  only "not run" rows are added. `ReportsInv` keeps that of every returned report
  (`ReportOf`), where the loop's own state is gone. A halted pass may have left a
  fatal row unmade, but it then holds a row that halted it, which is fatal and of
  some partial pass; `Split` says that every suite runs in the full pass exactly
  if it runs in one of the two, untagged suites and recognition included.

How the answers about a document's proofs combine is proved where it is used, at
the head of the next two modules: `VerdictSound` says that a document's verdict
passes only when some proof verified and no other one failed, in whatever order
the answers came.

**`ProofSet_proofs`**: `TypeCorrect`, `SignatureTrue` (`SignatureSound`),
`RunsApart` (`VerdictOfThisRun`), `NothingUnmentioned`
(`UncheckedProofsReported`). A check awaits across other contexts' steps, so the
invariant follows the dispatch from the memo (`MemoInv`: the memo holds the
dispatch of this context's run, and no other one is of it) to the check that
awaits it (`AwaitInv`) to the outcome (`OutcomeInv`: read off a complete dispatch
of its own run). `TypeOK` alone loses the link while a check awaits.

**`DataIntegrityCrypto_proofs`**: `TypeCorrect`, `BlameTrue` (`BlameIsTrue`),
`PassedBound` (`PassedMeansBound`), `DatesAlike` (`DatesJudgedAlike`).
`AnswersInv` states of every settled answer what is the case of the proof it is
about, at the instant `now` of the call, never at `clock`: problems are true, a
pass is a good proof, only a proof that cannot be checked is left unchecked, and
dates are mentioned exactly when they are wrong. That it holds of what the
classification makes of the library's errors is most of the module;
`SignatureInv` and `ValidityInv` carry it through the two checks.

**`StatusSuite_proofs`**: `TypeCorrect`, `StatusTrue` (`StatusSound`),
`OnlyProvenRead` (`ReadsProvenLists`), `MismatchSeen` (`MismatchReported`). The
record `verifiedLists` and the set of hooks are written by different actors:
`RecordInv` says that what is recorded was proven by *some* hook, which is all
that holds once a hook has outlived its run; `FirstRunInv` says that in the first
run the two agree exactly, which `MismatchReported` needs; `HooksInv` that
`checkStatus` asks once for each list of a run.

**`RegistryLookup_proofs`**: `HandlersSaid` (`ResultIsWhatHandlersSaid`),
`RetriedSoon` (`OutageRetriedSoon`), `NotRegistered`
(`NotRegisteredEstablished`). `Apart` says that no two lookups, and no lookup and
the cache, hold one object: that is what makes a caller's edits harmless, and it
is preserved only because a lookup hands out a copy both of what it found in the
cache and of what it put there. `EntryInv` says
that an entry expires when *its own* result does and was made for a list with
the same key; two lists with one key have the same registries, which is why the
order of the list does not matter to `NotRegisteredEstablished`.

**`Fetching_proofs`**, of `RegistryHandlers`: `TypeCorrect`, `Fresh` (`AnswersAreFresh`),
`OidfVerified` (`OidfFoundVerified`). `EntryInv` bounds the expiry of a cached
document by its life after the instant it was *stored*, for each kind of entry its
own: an hour at most for a recognition credential whatever its `validUntil`, the
server's or the statement's time for the others. `StageInv` says that a lookup goes on to the statement only
with a configuration that was verified at the instant the lookup read, whether it
came from the cache or the network; `AnswerInv` joins the two when the lookup
answers. `VerifiedIsSigned` is the lemma on `JwsVerify`: what it accepts was
signed by a compatible key of the set, and by one that bears the header's `kid`
if there is such a key.

Of `HttpGet`, in the same module: `HttpTypeCorrect`, `HopsSound` (`HopsWithinPolicy`),
`DeliverySound` (`DeliveredWithinPolicy`). `DeliveryJudged` says which URL of a
request has been judged at each place it may be interrupted, `HopsCounted` that
every hop was paid for by a redirect, and `FlagInv` that the shared flag is set
only in a browser, so that no request on Node is ever sent with redirects left to
the runtime. Lemmas prove of the policy that the masks it computes refuse every
address of the ranges that are not public, in each form that embeds an IPv4
address.

**`Verifier_proofs`**: `TypeCorrect`, `VerifiedProven` (`VerifiedMeansProven`),
`OptionsReach` (`OptionsReachCredentials`), for presentations of any length,
registries of any number and any added suites, which may include a second proof
or registry suite. Rows and results are read when a call returns, long after they
were written, so the invariant is about every call under way, not about the last:

* `RowsInv`: the proof suite has a row for each of its positions behind the loop,
  whenever the phases include it; a "not run" row has a halting one. A call
  without a fatal failure therefore verified its proofs (`ProofRows`).
* `Awaits(f, g)`: of two calls next to one another on the stack, `g` was made by
  `f` for the next of its credentials, with the options of `f`; or for a
  recognition credential, with no registries and the constructor's phases. A
  recognition call therefore asks no registry, and calls nest at most three deep
  (`Depth`).
* `FrameInv` and `EmbeddedInv`: the results a presentation has so far are those of
  its credentials in order, each sound and with the presentation's own timing and
  partiality.
* `Trusted`: what is cached, held or has vouched for an issuer was proven, unless
  the constructor's phases leave proofs out.

`AlwaysForward` is an action property of the same invariant, that the calls
cannot go round: a step begins a call, at most the third one under way, or moves
one on (`MovesOn`) in the order of its suites, the registries of the suite, the
recognition credential of the registry and its embedded credentials, all of them
finite. That some step is taken is fairness, and left to TLC in `ChecksSettle`
for the checks of one call.

**`CredentialChecks_proofs`**, for every document, list of recognizers and suite:
`TypeCorrect`, `ReferencesSound` (`ReferencesResolve`), `VersionSound`
(`JudgedByItsVersion`), `RecognitionSound` (`SchemaAcceptedIsRecognized`). The
properties speak of several rows of one report, written by checks that rely on
one another, so `IInv` keeps the checks ahead in the order of their stages and
complete (`Ahead`, `Whole`) and ties every row to what its check makes of the
document (`CoreReported`, `ObReported`, `Recognized`). Then `Judged` is inductive:
once an Open Badges check has run, the core checks have all passed and
recognition has said what it has to say.

* `VersionSound`. The schema of the other version refuses the document because
  the roots of the two versions require a different first context, and the selection
  reads the same entry. Each root requires the date of its version, in the schemas' grammar; in the core
  suite's it is because the core checks passed. That a
  declared schema fits exactly when it is the vendored one of that place goes
  through the list of known URLs.
* `ReferencesSound`. Ids may repeat. A level is looked up among the levels of the
  *last* description of the result's id which declares any, and that one is
  exhibited; two members with one text are one value because documents are JSON.
* `RecognitionSound` compares two descriptions of the same classes, some 1,500
  lines of class definitions in the models and many thousands in the code.
  1. Which values are instances of which classes is one recursive function, and so
     is which values are plain; nothing can be said of either before it is known
     to be a fixed point. `InstancesAre` and `PlainIs` show it without induction:
     to ask whether a value is an instance, given more instances, never makes it
     fewer (`Grows`), so the union of all sets of instances that justify
     themselves is a fixed point.
  2. Shape by shape: what conforms to a shape of a schema and is the member of a
     plain value conforms to the shape the parser has for it.
  3. Class by class, from those that hold no other (`Alignment`, `Image`) up to
     the subject of a badge: a plain instance of the schema's class is one of the
     parser's. The schemas' classes refer to each other in circles and the
     parser's do not, which is why no induction is needed. What the parser asks
     of a class is proved from the few members it reads (`ProfileLike`,
     `AchievementLike`), so that one argument serves all schemas.
  4. The four schemas are shown to be such (`BadgeClasses`, `EndorsementClasses`),
     and the roots, dates and subjects are joined. Of dates nothing carries over
     from one grammar to another: `DatedForParser` gives the parser what it asks,
     and a parser that took the document gives it back (`RecognizedIsDated`).
  5. The achievement types of the schemas are all known to the semantic checks
     (`VocabulariesAgree`).

The attempt to prove `RecognitionSound` changed what it says, where the small
instance had been too kind: an item of an array may be a language map as well as
a member may (`Plain`); an `image` that only the parser of endorsements reads has
to be left out; and the claim about achievement types holds of badges only, since
the subject of an endorsement is open and may carry an achievement no schema has
looked at. The instance now has documents of that kind (`Achieving`).

Only model-checked:

* all liveness (`AlwaysResolves`, `ChecksSettle`, `StatusSettles`,
  `LookupsAnswer`, `GetSettles`), which is outside what TLAPS proves. Every other
  property of a passing run is a theorem.
* what rests on induction over data: that `Instances` is the *only* fixed point,
  and that `Within` is finite. The theorems need neither.

## Not modelled

The signature libraries, WebCrypto, JSON-LD, the DID drivers and their cache, and
`checkStatus` are external: what the code relies on is written in the module that
calls them and marked as external in `map`. The same holds of AJV and Zod, whose
keywords are `ObVocabulary`. Left out:

* the trust suite, one check around a lookup the caller supplies: an arbitrary
  check to `RunSuites`;
* timing reports, which are two readings of the clock around a call;
* default services, the public wrappers and the flattening of results, which
  construct or rearrange and keep no state;
* messages, titles, pointers and normalized forms.

The list in `PROJECT.json` (`components`) gives the reason for each part.

## Plan

Models, in order:

1. A composition of `RegistryLookup` over `RegistryHandlers`, as the refinement
   of an abstract registry oracle with bounded staleness.
2. The roll-up of timings in `fold-results.ts`.
3. Calls of several verifiers that share a cache service, over `Verifier`.

Proofs, in order:

1. `ChecksSettle` and its like as safety, as `AlwaysForward` does for nested calls:
   a measure that every step decreases, which leaves only fairness to TLC.
2. The refinement of the registry oracle, once the composition above is written.
3. The converse of `RecognitionSound`: which documents the parsers accept that the
   schemas refuse, as a list that is complete.
