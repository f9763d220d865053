----------------------- MODULE ObSchemaAchievementV1p1 ------------------------
(*******************************************************************************)
(* The Open Badges 3.0 AchievementCredential schema for the VC Data Model 1.1  *)
(* (src/src/openbadges/schema/json-schema/achievement-credential-v1p1.ts, spec *)
(* section E.2.1.34).  Most of its $defs are those of the 2.0 schema, member for*)
(* member: a profile's parentOrg and everything below it are 2.0 classes.      *)
(*******************************************************************************)
EXTENDS ObSchemaAchievement

EndorsementCredentialv1p1 ==
  Class(
    {"context", "type", "id", "name", "credentialSubject", "issuer",
     "issuanceDate"},
    Members({"id", "name", "description"}, String) ++
    Members({"awardedDate", "issuanceDate", "expirationDate"}, TextIn(FormatDateTime)) ++
    [context |-> ContextOf(VC_CONTEXT_V1),
     type |-> TypeOf(<<{"VerifiableCredential"}, {"EndorsementCredential"}>>),
     credentialSubject |-> A("EndorsementSubject"), issuer |-> A("Profilev1p1"),
     proof |-> OneOrMany(A("Proof")),
     credentialSchema |-> OneOrMany(A("CredentialSchema")),
     credentialStatus |-> A("CredentialStatus"),
     refreshService |-> A("RefreshService"),
     termsOfUse |-> OneOrMany(A("TermsOfUse")),
     evidence |-> OneOrMany(A("Evidence"))])

AchievementSubjectv1p1 ==
  Closed(
    {"type", "achievement"},
    Members({"id", "licenseNumber", "narrative", "role", "term"}, String) ++
    Members({"activityEndDate", "activityStartDate"}, TextIn(FormatDateTime)) ++
    [type |-> TypeIs("AchievementSubject"), creditsEarned |-> Kind("number"),
     achievement |-> A("Achievementv1p1"),
     identifier |-> OneOrMany(A("IdentityObject")), image |-> A("Image"),
     result |-> OneOrMany(A("Result")), source |-> A("Profilev1p1")])

Achievementv1p1 ==
  Class(
    {"id", "type", "criteria", "description", "name"},
    Members({"id", "description", "fieldOfStudy", "humanCode", "name",
             "specialization", "version"}, String) ++
    [type |-> TypeIs("Achievement"), alignment |-> OneOrMany(A("Alignment")),
     achievementType |-> TextIn(AchievementType \cup Extension),
     creator |-> A("Profilev1p1"), creditsAvailable |-> Kind("number"),
     criteria |-> A("Criteria"),
     endorsement |-> OneOrMany(A("EndorsementCredentialv1p1")),
     endorsementJwt |-> OneOrMany(Localized(Jwt)), image |-> A("Image"),
     inLanguage |-> Localized(Language),
     otherIdentifier |-> OneOrMany(A("IdentifierEntry")),
     related |-> OneOrMany(A("Related")),
     resultDescription |-> OneOrMany(A("ResultDescription")),
     tag |-> OneOrMany(String)])

Profilev1p1 ==
  Class(
    {"id", "type"},
    Members({"id", "name", "url", "phone", "description", "email", "official",
             "familyName", "givenName", "additionalName", "patronymicName",
             "honorificPrefix", "honorificSuffix", "familyNamePrefix"}, String) ++
    [type |-> TypeIs("Profile"),
     endorsement |-> OneOrMany(A("EndorsementCredentialv1p1")),
     endorsementJwt |-> OneOrMany(Localized(Jwt)), image |-> A("Image"),
     address |-> A("Address"),
     otherIdentifier |-> OneOrMany(A("IdentifierEntry")),
     parentOrg |-> A("Profile"), dateOfBirth |-> TextIn(Date)])

BadgeV1_Context               == Context
BadgeV1_TermsOfUse            == TermsOfUse
BadgeV1_CredentialStatus      == CredentialStatus
BadgeV1_Evidence              == Evidence
BadgeV1_Proof                 == Proof
BadgeV1_RefreshService        == RefreshService
BadgeV1_Image                 == Image
BadgeV1_EndorsementSubject    == EndorsementSubject
BadgeV1_IdentityObject        == IdentityObject
BadgeV1_Alignment             == Alignment
BadgeV1_Criteria              == Criteria
BadgeV1_IdentifierEntry       == IdentifierEntry
BadgeV1_ResultDescription     == ResultDescription
BadgeV1_RubricCriterionLevel  == RubricCriterionLevel
BadgeV1_Related               == Related
BadgeV1_Address               == Address
BadgeV1_GeoCoordinates        == GeoCoordinates
BadgeV1_Profile               == Profile
BadgeV1_EndorsementCredential == EndorsementCredential
BadgeV1_Result                == Result
BadgeV1_ProfileRef            == ProfileRef
BadgeV1_CredentialSchema      == CredentialSchema

BadgeV1_Root ==
  Class(
    {"context", "id", "type", "name", "credentialSubject", "issuer",
     "issuanceDate"},
    Members({"id", "name", "description"}, String) ++
    Members({"awardedDate", "issuanceDate", "expirationDate"}, TextIn(FormatDateTime)) ++
    [context |-> ContextOf(VC_CONTEXT_V1),
     type |-> TypeOf(<<{"VerifiableCredential"},
                       {"AchievementCredential", "OpenBadgeCredential"}>>),
     image |-> A("Image"), credentialSubject |-> A("AchievementSubjectv1p1"),
     endorsement |-> OneOrMany(A("EndorsementCredentialv1p1")),
     endorsementJwt |-> OneOrMany(Localized(Jwt)), issuer |-> A("Profilev1p1"),
     proof |-> OneOrMany(A("Proof")),
     credentialSchema |-> OneOrMany(A("CredentialSchema")),
     credentialStatus |-> A("CredentialStatus"),
     refreshService |-> A("RefreshService"),
     termsOfUse |-> OneOrMany(A("TermsOfUse")),
     evidence |-> OneOrMany(A("Evidence"))])

\* The classes by the name their $ref gives.
BadgeV1_Defs ==
  [TermsOfUse |-> BadgeV1_TermsOfUse, CredentialStatus |-> BadgeV1_CredentialStatus,
   Evidence |-> BadgeV1_Evidence,
   EndorsementCredentialv1p1 |-> EndorsementCredentialv1p1, Proof |-> BadgeV1_Proof,
   RefreshService |-> BadgeV1_RefreshService, Image |-> BadgeV1_Image,
   EndorsementSubject |-> BadgeV1_EndorsementSubject,
   AchievementSubjectv1p1 |-> AchievementSubjectv1p1,
   IdentityObject |-> BadgeV1_IdentityObject, Achievementv1p1 |-> Achievementv1p1,
   Alignment |-> BadgeV1_Alignment, Criteria |-> BadgeV1_Criteria,
   IdentifierEntry |-> BadgeV1_IdentifierEntry,
   ResultDescription |-> BadgeV1_ResultDescription,
   RubricCriterionLevel |-> BadgeV1_RubricCriterionLevel, Related |-> BadgeV1_Related,
   Profilev1p1 |-> Profilev1p1, Address |-> BadgeV1_Address,
   GeoCoordinates |-> BadgeV1_GeoCoordinates, Profile |-> BadgeV1_Profile,
   EndorsementCredential |-> BadgeV1_EndorsementCredential, Result |-> BadgeV1_Result,
   CredentialSchema |-> BadgeV1_CredentialSchema]
===============================================================================
