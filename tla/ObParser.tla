------------------------------ MODULE ObParser -------------------------------
(***************************************************************************)
(* The Zod parsers the two Open Badges recognizers run (src/src/openbadges *)
(* /schemas/): one class for each object schema, passthrough, so that a    *)
(* member a schema does not name is kept whatever it holds; the refinements*)
(* Zod runs beside them; and the two parse functions.  A parser written    *)
(* for the same classes as the vendored JSON Schemas, by other hands.      *)
(***************************************************************************)
EXTENDS ObVocabulary

CONSTANTS
  Iri,             \* the texts of the form scheme:rest
  OffsetDateTime,  \* the texts of z.string().datetime({offset: true})
  Email            \* the texts with an "@"

IriString == TextIn(Iri)
UrlString == TextIn(Url)

\* A date, by a grammar of its own: neither AJV's nor the core suite's.
ZodDateTime == TextIn(OffsetDateTime)

\* One text of the set, alone or among others.
JsonLdTypeField(required) ==
  Either(TextIn(required), Array(AnyText, <<>>, <<required>>))

Obv3p0ContextArray ==
  Array(AnyText, <<{VC_CONTEXT_V1, VC_CONTEXT_V2}>>, <<ObPrefixed>>)

\* No single text is both types, so a credential's type is an array.
CredentialType(names) ==
  Array(AnyText, <<>>, <<{"VerifiableCredential"}, names>>)

ImageField      == Either(IriString, A("Image"))
ProfileRefField == Either(IriString, A("Profile"))

Obv3p0ImageSchema ==
  Class({"id", "type"},
    [id |-> IriString, type |-> JsonLdTypeField({"Image"}), caption |-> AnyText])

Obv3p0ProfileSchema ==
  Class({"id", "type"},
    Members({"name", "description"}, AnyText) ++
    [id |-> IriString, type |-> JsonLdTypeField({"Profile"}),
     url |-> UrlString, image |-> ImageField, email |-> TextIn(Email)])

Obv3p0AlignmentSchema ==
  Class({"type", "targetName", "targetUrl"},
    Members({"targetName", "targetCode", "targetDescription",
             "targetFramework", "targetType"}, AnyText) ++
    [type |-> JsonLdTypeField({"Alignment"}), targetUrl |-> UrlString])

Obv3p0RubricCriterionLevelSchema ==
  Class({"id", "type", "name"},
    Members({"name", "description", "level", "points"}, AnyText) ++
    [id |-> UrlString, type |-> JsonLdTypeField({"RubricCriterionLevel"}),
     alignment |-> ArrayOf(A("Alignment"))])

Obv3p0ResultDescriptionSchema ==
  Class({"id", "type", "name", "resultType"},
    Members({"name", "resultType", "requiredValue", "valueMax", "valueMin"}, AnyText) ++
    Members({"id", "requiredLevel"}, UrlString) ++
    [type |-> JsonLdTypeField({"ResultDescription"}),
     alignment |-> ArrayOf(A("Alignment")), allowedValue |-> ArrayOf(AnyText),
     rubricCriterionLevel |-> ArrayOf(A("RubricCriterionLevel"))])

\* Fault: a result without a status is malformed.
ResultNeedsStatus ==
  Class({"type", "status"},
    Members({"achievedLevel", "resultDescription"}, UrlString) ++
    Members({"status", "value"}, AnyText) ++
    [type |-> JsonLdTypeField({"Result"}), alignment |-> ArrayOf(A("Alignment"))])

Obv3p0ResultSchema ==
  Class({"type"},
    Members({"achievedLevel", "resultDescription"}, UrlString) ++
    Members({"status", "value"}, AnyText) ++
    [type |-> JsonLdTypeField({"Result"}), alignment |-> ArrayOf(A("Alignment"))])

Obv3p0CriteriaSchema == Class({}, [id |-> UrlString, narrative |-> AnyText])

Obv3p0AchievementSchema ==
  Class({"id", "type", "criteria", "description", "name"},
    Members({"description", "name"}, AnyText) ++
    [id |-> UrlString, type |-> JsonLdTypeField({"Achievement"}),
     criteria |-> A("Criteria"), alignment |-> ArrayOf(A("Alignment")),
     creator |-> ProfileRefField, image |-> ImageField,
     resultDescription |-> ArrayOf(A("ResultDescription"))])

Obv3p0IdentityObjectSchema == Class({"type"}, [type |-> JsonLdTypeField({"IdentityObject"})])

Obv3p0AchievementSubjectSchema ==
  Class({"type", "achievement"},
    [type |-> JsonLdTypeField({"AchievementSubject"}),
     achievement |-> A("Achievement"), id |-> UrlString,
     identifier |-> ArrayOf(A("IdentityObject")),
     result |-> ArrayOf(A("Result")), image |-> ImageField])

Obv3p0EndorsementSubjectSchema ==
  Class({"id", "type"},
    [id |-> IriString, type |-> JsonLdTypeField({"EndorsementSubject"}),
     endorsementComment |-> AnyText])

Dates == {"issuanceDate", "validFrom", "validUntil"}

Obv3p0OpenBadgeCredentialSchema ==
  Class({"context", "id", "type", "issuer", "credentialSubject"},
    Members(Dates, ZodDateTime) ++
    [context |-> Obv3p0ContextArray, id |-> IriString,
     type |-> CredentialType({"AchievementCredential", "OpenBadgeCredential"}),
     issuer |-> ProfileRefField, image |-> ImageField,
     credentialSubject |-> A("AchievementSubject")])

Obv3p0EndorsementCredentialSchema ==
  Class({"context", "id", "type", "name", "issuer", "credentialSubject"},
    Members(Dates \cup {"awardedDate"}, ZodDateTime) ++
    Members({"name", "description"}, AnyText) ++
    [context |-> Obv3p0ContextArray, id |-> IriString,
     type |-> CredentialType({"EndorsementCredential"}),
     issuer |-> ProfileRefField, image |-> ImageField,
     credentialSubject |-> A("EndorsementSubject")])

Classes ==
  [Image |-> Obv3p0ImageSchema, Profile |-> Obv3p0ProfileSchema,
   Alignment |-> Obv3p0AlignmentSchema,
   RubricCriterionLevel |-> Obv3p0RubricCriterionLevelSchema,
   ResultDescription |-> Obv3p0ResultDescriptionSchema, Result |-> Obv3p0ResultSchema,
   Criteria |-> Obv3p0CriteriaSchema, Achievement |-> Obv3p0AchievementSchema,
   IdentityObject |-> Obv3p0IdentityObjectSchema,
   AchievementSubject |-> Obv3p0AchievementSubjectSchema,
   EndorsementSubject |-> Obv3p0EndorsementSubjectSchema]

\* "Either id or at least one identifier": stricter than the JSON Schema.
Identified(subject) ==
  \/ IsText(At(subject, "id")) /\ At(subject, "id").text # ""
  \/ /\ At(subject, "identifier").kind = "array"
     /\ At(subject, "identifier").items # <<>>

\* The date that begins the validity, by the version of the first context.
StartDated(credential) ==
  LET version == vcVersionOf(At(credential, "context"))
  IN  /\ version = "v1" => Has(credential, "issuanceDate")
      /\ version = "v2" => Has(credential, "validFrom")

parseObv3p0OpenBadgeCredential(credential) ==
  /\ ConformsToClass(credential, Obv3p0OpenBadgeCredentialSchema, Classes)
  /\ StartDated(credential)
  /\ Identified(At(credential, "credentialSubject"))

parseObv3p0EndorsementCredential(credential) ==
  /\ ConformsToClass(credential, Obv3p0EndorsementCredentialSchema, Classes)
  /\ StartDated(credential)
=============================================================================
