--------------------------- MODULE CredentialChecks --------------------------
(***************************************************************************)
(* The checks of a document's content in the order one call runs them: the *)
(* gate in front of the suites, the core suite, the recognition suite, and *)
(* the Open Badges suite the caller asked for.  What lies between them     *)
(* (proof, status, registry) does not read these outcomes and is left to   *)
(* the modules of those suites; how suites are scheduled and reported is   *)
(* RunSuites.                                                              *)
(***************************************************************************)
EXTENDS StructureChecks, ObParser, ObSchemaChecks, SequencesExt

CONSTANT Calls   \* the calls made: kind of subject, document, recognizers, suite

Recognizers == {"obv3p0.openbadge", "obv3p0.endorsement"}

\* Documents come from JSON, which is finite and has no value undefined.
ASSUME CallsAssumption ==
  \A c \in Calls :
    /\ c.kind \in {"verifiableCredential", "verifiablePresentation"}
    /\ IsJsonDocument(c.document)
    /\ c.recognizers \in Seq(Recognizers)
    /\ c.suite \in {"openbadges", "openbadges.semantic", "openbadges.schema"}

\* new URL() throws on the empty text; an Open Badges context is none of the two
\* contexts of the data model.
ASSUME TextsAssumption ==
  /\ "" \notin Url
  /\ {VC_CONTEXT_V1, VC_CONTEXT_V2} \cap ObPrefixed = {}

VARIABLES
  call,     \* the call: what it verifies, with which recognizers and suite
  pending,  \* the ids of the checks still to run, in order
  report,   \* the status of each check that ran, by its id
  profile   \* the profile a recognizer found, "none" if none did

vars == <<call, pending, report, profile>>

-----------------------------------------------------------------------------
(* The gate in front of every suite: the shape a document must have (schemas/) *)

ContextEntrySchema == Either(AnyText, Kind("object"))
ContextSchema      == Either(ContextEntrySchema, ArrayOf(ContextEntrySchema))
TypeSchema         == Either(AnyText, ArrayOf(AnyText))

IssuerSchema == Either(AnyText, A("Identified"))
HolderSchema == Either(AnyText, A("Identified"))

EnvelopeClasses == [Identified |-> Class({"id"}, [id |-> AnyText])]

EnvelopeCredentialSchema ==
  Class({"context", "type", "issuer", "credentialSubject"},
    [context |-> ContextSchema, type |-> TypeSchema, issuer |-> IssuerSchema,
     credentialSubject |-> Either(Kind("object"), ArrayOf(Kind("object")))])

PresentationSchema ==
  Class({"context", "type"},
    [context |-> ContextSchema, type |-> TypeSchema, holder |-> HolderSchema])

\* Enveloped documents are not supported, and are rejected by their type.
rejectEnveloped(input, envelopedType) ==
  isPlainObject(input) /\ envelopedType \in stringValues(At(input, "type"))

parseCredential(input) ==
  /\ ~rejectEnveloped(input, "EnvelopedVerifiableCredential")
  /\ ConformsToClass(input, EnvelopeCredentialSchema, EnvelopeClasses)

parsePresentation(input) ==
  /\ ~rejectEnveloped(input, "EnvelopedVerifiablePresentation")
  /\ ConformsToClass(input, PresentationSchema, EnvelopeClasses)

-----------------------------------------------------------------------------
(* One call *)

document     == call.document
IsCredential == call.kind = "verifiableCredential"

\* The core checks, each for one kind of subject, and recognition.
CoreSuite ==
  {"core.context-exists", "core.vc-context", "core.vc-structure",
   "core.vp-structure", "core.credential-id", "core.proof-exists"}

SubjectChecks(kind) ==
  IF kind = "verifiableCredential"
    THEN <<"core.context-exists", "core.vc-context", "core.vc-structure",
           "core.credential-id", "core.proof-exists", "recognition.profile">>
    ELSE <<"core.vp-structure">>

SemanticChecks ==
  <<"schema.obv3.result-ref", "schema.obv3.achieved-level",
    "schema.obv3.missing-result-status", "schema.obv3.unknown-achievement-type">>

SchemaChecks == <<"schema.obv3.json", "schema.obv3.declared">>

SuiteChecks(suite) ==
  CASE suite = "openbadges.semantic" -> SemanticChecks
    [] suite = "openbadges.schema"   -> SchemaChecks
    [] suite = "openbadges"          -> SemanticChecks \o SchemaChecks

\* The semantic suite is for badges, the others for endorsements as well.
SuiteApplies(suite) ==
  /\ IsCredential
  /\ IF suite = "openbadges.semantic"
       THEN isOpenBadgeCredential(document)
       ELSE getObType(document) # "none"

\* The checks that a call has ahead of it, after the gate.
Plan(c) == <<"parsing.envelope">> \o SubjectChecks(c.kind) \o SuiteChecks(c.suite)

\* Fault: the first failure of the core suite does not halt the call.
NeverHalts(id, status) == FALSE

\* Every check of the core suite is fatal, and no other check here is.
Halts(id, status) == status = "failure" /\ id \in CoreSuite

Init ==
  /\ call \in Calls
  /\ pending = Plan(call)
  /\ report = <<>>
  /\ profile = "none"

Report(id, status) ==
  /\ report' = report ++ Members({id}, status)
  /\ pending' = IF Halts(id, status) THEN <<>> ELSE Tail(pending)

parses ==
  IF IsCredential THEN parseCredential(document) ELSE parsePresentation(document)

\* The gate is passed without a row; refused there, a call runs no suite.
Gate ==
  /\ pending # <<>>
  /\ Head(pending) = "parsing.envelope"
  /\ \/ /\ parses
        /\ pending' = Tail(pending)
        /\ UNCHANGED report
     \/ /\ ~parses
        /\ report' = report ++ Members({"parsing.envelope"}, "failure")
        /\ pending' = <<>>
  /\ UNCHANGED <<call, profile>>

coreStatus(id) ==
  CASE id = "core.context-exists" -> Verdict(contextCheck(document))
    [] id = "core.vc-context"     -> Verdict(vcContextCheck(document))
    [] id = "core.vc-structure"   -> Verdict(vcStructureCheck(document))
    [] id = "core.vp-structure"   -> Verdict(vpStructureCheck(document))
    [] id = "core.credential-id"  -> Verdict(credentialIdCheck(document))
    [] id = "core.proof-exists"   -> Verdict(proofExistsCheck(document))

Core ==
  /\ pending # <<>>
  /\ Head(pending) \in CoreSuite
  /\ Report(Head(pending), coreStatus(Head(pending)))
  /\ UNCHANGED <<call, profile>>

RecognizerApplies(recognizer) ==
  IF recognizer = "obv3p0.openbadge"
    THEN isOpenBadgeCredential(document)
    ELSE isEndorsementCredential(document)

parse(recognizer) ==
  IF recognizer = "obv3p0.openbadge"
    THEN parseObv3p0OpenBadgeCredential(document)
    ELSE parseObv3p0EndorsementCredential(document)

\* The first recognizer that applies decides; the others are not asked.
First(applying) == {i \in applying : \A j \in applying : i <= j}

Recognize ==
  LET applying == {i \in DOMAIN call.recognizers : RecognizerApplies(call.recognizers[i])}
      id       == "recognition.profile"
  IN  /\ pending # <<>>
      /\ Head(pending) = id
      /\ \/ /\ applying = {}
            /\ Report(id, "skipped")
            /\ UNCHANGED profile
         \/ \E i \in First(applying) :
              /\ parse(call.recognizers[i])
              /\ Report(id, "success")
              /\ profile' = call.recognizers[i]
         \/ \E i \in First(applying) :
              /\ ~parse(call.recognizers[i])
              /\ Report(id, "failure")
              /\ UNCHANGED profile
      /\ UNCHANGED call

\* The id of the row that says so when a suite which was asked for declines.
appliesId(suite) ==
  CASE suite = "openbadges.semantic" -> "openbadges.semantic.applies"
    [] suite = "openbadges.schema"   -> "openbadges.schema.applies"
    [] suite = "openbadges"          -> "openbadges.applies"

\* The suite was asked for and does not apply: one row says so.
Decline ==
  /\ pending = SuiteChecks(call.suite)
  /\ ~SuiteApplies(call.suite)
  /\ report' = report ++ Members({appliesId(call.suite)}, "skipped")
  /\ pending' = <<>>
  /\ UNCHANGED <<call, profile>>

obStatus(id) ==
  CASE id = "schema.obv3.result-ref"               -> obv3ResultRefCheck(document)
    [] id = "schema.obv3.achieved-level"           -> obv3AchievedLevelCheck(document)
    [] id = "schema.obv3.missing-result-status"    -> obv3MissingResultStatusCheck(document)
    [] id = "schema.obv3.unknown-achievement-type" -> obv3UnknownAchievementTypeCheck(document)
    [] id = "schema.obv3.json"                     -> obv3SchemaCheck(document)
    [] id = "schema.obv3.declared"                 -> obv3DeclaredSchemaCheck(document)

OpenBadges ==
  /\ pending # <<>>
  /\ Head(pending) \in ToSet(SemanticChecks \o SchemaChecks)
  /\ SuiteApplies(call.suite)
  /\ Report(Head(pending), obStatus(Head(pending)))
  /\ UNCHANGED <<call, profile>>

Next == Gate \/ Core \/ Recognize \/ Decline \/ OpenBadges

Spec == Init /\ [][Next]_vars

----------------------------------------------------------------------------
(* Invariants.                                                             *)

CheckId ==
  {"parsing.envelope", "recognition.profile"}
    \cup CoreSuite \cup ToSet(SemanticChecks \o SchemaChecks)

Status(id) == IF id \in DOMAIN report THEN report[id] ELSE "none"

\* Every check has one outcome; after a failed check of the core suite none
\* follows, none runs on a document without a context and a type, and a profile
\* is known exactly when recognition succeeded.
TypeOK ==
  /\ pending \in Seq(CheckId)
  /\ \A id \in DOMAIN report : report[id] \in {"success", "failure", "skipped"}
  /\ ToSet(pending) \cap DOMAIN report = {}
  /\ (\E id \in DOMAIN report : id # "parsing.envelope") =>
       Has(document, "context") /\ Has(document, "type")
  /\ (\E id \in CoreSuite \cup {"parsing.envelope"} : Status(id) = "failure") => pending = <<>>
  /\ profile # "none" <=> Status("recognition.profile") = "success"

\* A document in expanded form, as far as the parser reads it: what it reads as
\* text is no language map, what it reads as an array is one, identifiers are
\* both URLs and IRIs, since the schemas take any text and the parsers ask now for
\* the one, now for the other, and types are arrays but where the schema wants
\* one text.
Unread     == {"proof", "termsOfUse", "credentialStatus", "credentialSchema", "evidence",
               "refreshService", "endorsement", "address", "otherIdentifier", "related"}
UrlNames   == {"id", "url", "targetUrl", "achievedLevel", "requiredLevel"}
ArrayNames == {"context", "identifier", "result", "alignment", "allowedValue",
               "rubricCriterionLevel"}

PlainMember(name, member) ==
  /\ name \in UrlNames => IsTextIn(member, Url \cap Iri)
  /\ name = "issuer" /\ IsText(member) => IsTextIn(member, Iri)
  /\ name = "email" => IsTextIn(member, Email)
  /\ name \in ArrayNames => member.kind = "array"
  /\ name = "resultDescription" => member.kind = "array" \/ isUrl(member)
  /\ IsLanguageMap(member, STRING) => name = "criteria"
  /\ IsText(At(member, "type")) => name = "image"
  /\ \A i \in DOMAIN Items(member) :
       /\ ~IsLanguageMap(Items(member)[i], STRING)
       /\ name = "context" => IsText(Items(member)[i])
       /\ IsText(At(Items(member)[i], "type")) => name = "identifier"

PlainHere(value, plain) ==
  /\ isPlainObject(value) =>
       \A n \in DOMAIN value.members \ Unread :
         LET member == value.members[n]
         IN  PlainMember(n, member) /\ member \in DOMAIN plain /\ plain[member]
  /\ value.kind = "array" =>
       \A i \in DOMAIN value.items : value.items[i] \in DOMAIN plain /\ plain[value.items[i]]

PlainIn(values) ==
  LET plain[v \in values] == PlainHere(v, plain) IN plain

Plain(value) == PlainIn(Within(value))[value]

ProfileOf(type) ==
  IF type = "OpenBadgeCredential" THEN "obv3p0.openbadge" ELSE "obv3p0.endorsement"

BothTypes == isOpenBadgeCredential(document) /\ isEndorsementCredential(document)

SubjectNamed ==
  LET subject == At(document, "credentialSubject")
  IN  Has(subject, "id") \/ Items(At(subject, "identifier")) # <<>>

\* The dates that the parser of the credential's type reads, of both versions,
\* are dates to its grammar, which is neither the schemas' nor the core suite's.
DatedForParser ==
  LET badge == hasType(document, "OpenBadgeCredential")
      read  == IF badge THEN Dates ELSE Dates \cup {"awardedDate"}
  IN  \A n \in read \cap DOMAIN document.members :
        IsTextIn(document.members[n], OffsetDateTime)

\* The parser and the vendored schema are two accounts of the same classes: a
\* credential in expanded form which passed its schema, and says whom it is about,
\* was also recognized, as what its schema is for, unless one of its dates lies
\* where the grammars of dates differ, and then it was not.  The vocabulary of
\* achievement types is kept twice as well: no type of an accepted badge is
\* reported as unknown, unless it only contains "ext:" without starting so
\* (obv3-schema-check.ts:61-121, classes-v3p0.ts:320-346,
\* endorsement-credential-v3p0.ts:85-88, known-achievement-types.ts:33-67,
\* achievement-credential.ts:1340-1372).
SchemaAcceptedIsRecognized ==
  Status("schema.obv3.json") = "success" =>
    /\ (/\ ~BothTypes
        /\ ProfileOf(getObType(document)) \in ToSet(call.recognizers)
        /\ Plain(document)
        /\ IF hasType(document, "OpenBadgeCredential")
             THEN SubjectNamed
             ELSE ~Has(document, "image"))
         => (profile = ProfileOf(getObType(document)) <=> DatedForParser)
    /\ (/\ hasType(document, "OpenBadgeCredential")
        /\ Status("schema.obv3.unknown-achievement-type") = "failure") =>
         IsTextIn(At(At(At(document, "credentialSubject"), "achievement"), "achievementType"),
                  Extension \ ExtPrefixed)

\* A credential is judged by its type and by the version that its first context
\* names: one that passed its schema has the date which starts its validity in
\* that version, a date to the schema and to the core suite, whose grammars are
\* two, and the schema of the other version would have refused it; one
\* that declares the schema it was validated against is told that this fits, and
\* one that declares the schema of another type or version is not
\* (select-schema.ts:61-99, obv3-declared-schema-check.ts:59-114,
\* known-schema-urls.ts:29-70).
JudgedByItsVersion ==
  LET v1     == firstContextEntry(At(document, "context")) = Text(VC_CONTEXT_V1)
      badge  == hasType(document, "OpenBadgeCredential")
      of(n)  == (IF badge THEN 1 ELSE 3) + n
      mine   == of(IF v1 THEN 1 ELSE 0)
      other  == VENDORED_OB_SCHEMAS[of(IF v1 THEN 0 ELSE 1)]
      stated == {i \in 1..4 : VENDORED_OB_SCHEMAS[i].id \in declaredSchemaIds(document)}
  IN  /\ Status("schema.obv3.json") = "success" =>
           /\ IsTextIn(At(document, IF v1 THEN "issuanceDate" ELSE "validFrom"),
                       DateTime \cap FormatDateTime)
           /\ ~ConformsToClass(document, other.root, other.defs)
      /\ Status("schema.obv3.declared") \in {"success", "failure"} =>
           /\ declaredSchemaIds(document) = {VENDORED_OB_SCHEMAS[mine].id}
                => Status("schema.obv3.declared") = "success"
           /\ ~(stated \subseteq {mine}) => Status("schema.obv3.declared") = "failure"

\* A badge whose reference checks succeeded hangs together: a result that
\* names a description names one of the achievement's, and the level it
\* achieved is a level of a description of that id
\* (result-ref-check.ts, achieved-level-check.ts).
ReferencesResolve ==
  (/\ Status("schema.obv3.result-ref") = "success"
   /\ Status("schema.obv3.achieved-level") = "success") =>
    LET subject      == At(document, "credentialSubject")
        results      == At(subject, "result").items
        descriptions == At(At(subject, "achievement"), "resultDescription").items
    IN  \A i \in DOMAIN results :
          LET named == {k \in DOMAIN descriptions :
                          At(descriptions[k], "id") = At(results[i], "resultDescription")}
          IN  IsText(At(results[i], "resultDescription")) =>
                /\ named # {}
                /\ IsText(At(results[i], "achievedLevel")) =>
                     \E k \in named :
                       \E j \in DOMAIN Items(At(descriptions[k], "rubricCriterionLevel")) :
                         At(Items(At(descriptions[k], "rubricCriterionLevel"))[j], "id")
                           = At(results[i], "achievedLevel")

\* "A per-rule observation that should still fire when one nearby field is
\* malformed" (openbadges-zod.ts:50): a result that names no description of
\* the achievement is reported whatever its neighbours look like.
DanglingReported ==
  LET subject == At(document, "credentialSubject")
      results == Items(At(subject, "result"))
  IN  (/\ "schema.obv3.result-ref" \in DOMAIN report
       /\ \E i \in DOMAIN results :
            /\ IsText(At(results[i], "resultDescription"))
            /\ At(results[i], "resultDescription").text
                 \notin knownIds(ResultDescriptions(subject)))
        => Status("schema.obv3.result-ref") = "failure"
=============================================================================
