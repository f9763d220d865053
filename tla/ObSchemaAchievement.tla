------------------------- MODULE ObSchemaAchievement --------------------------
(*******************************************************************************)
(* The Open Badges 3.0 AchievementCredential schema for the VC Data Model 2.0  *)
(* (src/src/openbadges/schema/json-schema/achievement-credential.ts, spec      *)
(* section E.2.1.2): Root and one class for each of its $defs.                 *)
(*******************************************************************************)
EXTENDS ObVocabulary

IdentifierType ==
  {"name", "sourcedId", "systemId", "productId", "userName", "accountId",
   "emailAddress", "nationalIdentityNumber", "isbn", "issn", "lisSourcedId",
   "oneRosterSourcedId", "sisSourcedId", "ltiContextId", "ltiDeploymentId",
   "ltiToolId", "ltiPlatformId", "ltiUserId", "identifier"}

AchievementType ==
  {"Achievement", "ApprenticeshipCertificate", "Assessment", "Assignment",
   "AssociateDegree", "Award", "Badge", "BachelorDegree", "Certificate",
   "CertificateOfCompletion", "Certification", "CommunityService",
   "Competency", "Course", "CoCurricular", "Degree", "Diploma",
   "DoctoralDegree", "Fieldwork", "GeneralEducationDevelopment",
   "JourneymanCertificate", "LearningProgram", "License", "Membership",
   "ProfessionalDoctorate", "QualityAssuranceCredential", "MasterCertificate",
   "MasterDegree", "MicroCredential", "ResearchDoctorate",
   "SecondarySchoolDiploma"}

AlignmentType ==
  {"ceasn:Competency", "ceterms:Credential", "CFItem", "CFRubric",
   "CFRubricCriterion", "CFRubricCriterionLevel", "CTDL"}

ResultStatus ==
  {"Completed", "Enrolled", "Failed", "InProgress", "OnHold", "Provisional",
   "Withdrew"}

ResultType ==
  {"GradePointAverage", "LetterGrade", "Percent", "PerformanceLevel",
   "PredictedScore", "RawScore", "Result", "RubricCriterion",
   "RubricCriterionLevel", "RubricScore", "ScaledScore", "Status"}

Context == AnyContext

ProfileRef == Either(A("Profile"), String)

TermsOfUse ==
  Class(
    {"type"},
    Members({"id", "type"}, String))

CredentialStatus ==
  Class(
    {"type"},
    Members({"id", "type"}, String))

AchievementSubject ==
  Class(
    {"type", "achievement"},
    Members({"id", "licenseNumber", "narrative", "role", "term"}, String) ++
    Members({"activityEndDate", "activityStartDate"}, TextIn(FormatDateTime)) ++
    [type |-> TypeIs("AchievementSubject"), creditsEarned |-> Kind("number"),
     achievement |-> A("Achievement"),
     identifier |-> OneOrMany(A("IdentityObject")), image |-> A("Image"),
     result |-> OneOrMany(A("Result")), source |-> A("Profile")])

IdentityObject ==
  Closed(
    {"type", "hashed", "identityHash", "identityType"},
    Members({"identityHash", "salt"}, String) ++
    [type |-> Localized({"IdentityObject"}), hashed |-> Kind("boolean"),
     identityType |-> TextIn(IdentifierType \cup Extension)])

Evidence ==
  Class(
    {"type"},
    Members({"id", "narrative", "name", "description", "genre", "audience"}, String) ++
    [type |-> TypeIs("Evidence")])

EndorsementCredential ==
  Class(
    {"context", "type", "id", "name", "credentialSubject", "issuer",
     "validFrom"},
    Members({"id", "name", "description"}, String) ++
    Members({"awardedDate", "validFrom", "validUntil"}, TextIn(FormatDateTime)) ++
    [context |-> ContextOf(VC_CONTEXT_V2),
     type |-> TypeOf(<<{"VerifiableCredential"}, {"EndorsementCredential"}>>),
     credentialSubject |-> A("EndorsementSubject"), issuer |-> ProfileRef,
     proof |-> OneOrMany(A("Proof")),
     credentialSchema |-> OneOrMany(A("CredentialSchema")),
     credentialStatus |-> A("CredentialStatus"),
     refreshService |-> A("RefreshService"),
     termsOfUse |-> OneOrMany(A("TermsOfUse")),
     evidence |-> OneOrMany(A("Evidence"))])

Achievement ==
  Class(
    {"id", "type", "criteria", "description", "name"},
    Members({"id", "description", "fieldOfStudy", "humanCode", "name",
             "specialization", "version"}, String) ++
    [type |-> TypeIs("Achievement"), alignment |-> OneOrMany(A("Alignment")),
     achievementType |-> TextIn(AchievementType \cup Extension),
     creator |-> A("Profile"), creditsAvailable |-> Kind("number"),
     criteria |-> A("Criteria"),
     endorsement |-> OneOrMany(A("EndorsementCredential")),
     endorsementJwt |-> OneOrMany(Localized(Jwt)), image |-> A("Image"),
     inLanguage |-> Localized(Language),
     otherIdentifier |-> OneOrMany(A("IdentifierEntry")),
     related |-> OneOrMany(A("Related")),
     resultDescription |-> OneOrMany(A("ResultDescription")),
     tag |-> OneOrMany(String)])

Alignment ==
  Class(
    {"type", "targetName", "targetUrl"},
    Members({"targetCode", "targetDescription", "targetName",
             "targetFramework", "targetUrl"}, String) ++
    [type |-> TypeIs("Alignment"),
     targetType |-> TextIn(AlignmentType \cup Extension)])

Criteria ==
  Class(
    {},
    Members({"id", "narrative"}, String))

IdentifierEntry ==
  Closed(
    {"type", "identifier", "identifierType"},
    [type |-> Localized({"IdentifierEntry"}), identifier |-> String,
     identifierType |-> TextIn(IdentifierType \cup Extension)])

Proof ==
  Class(
    {"type"},
    Members({"type", "cryptosuite", "challenge", "domain", "nonce",
             "proofPurpose", "proofValue", "verificationMethod"}, String) ++
    [created |-> TextIn(FormatDateTime)])

RefreshService ==
  Class(
    {"id", "type"},
    Members({"id", "type"}, String))

Image ==
  Closed(
    {"id", "type"},
    Members({"id", "caption"}, String) ++
    [type |-> Localized({"Image"})])

EndorsementSubject ==
  Class(
    {"id", "type"},
    Members({"id", "endorsementComment"}, String) ++
    [type |-> TypeIs("EndorsementSubject")])

Result ==
  Class(
    {"type"},
    Members({"achievedLevel", "resultDescription", "value"}, String) ++
    [type |-> TypeIs("Result"), alignment |-> OneOrMany(A("Alignment")),
     status |-> TextIn(ResultStatus)])

ResultDescription ==
  Class(
    {"id", "type", "name", "resultType"},
    Members({"id", "name", "requiredLevel", "requiredValue", "valueMax",
             "valueMin"}, String) ++
    [type |-> TypeIs("ResultDescription"),
     alignment |-> OneOrMany(A("Alignment")),
     allowedValue |-> OneOrMany(String),
     resultType |-> TextIn(ResultType \cup Extension),
     rubricCriterionLevel |-> OneOrMany(A("RubricCriterionLevel"))])

RubricCriterionLevel ==
  Class(
    {"id", "type", "name"},
    Members({"id", "description", "level", "name", "points"}, String) ++
    [type |-> TypeIs("RubricCriterionLevel"),
     alignment |-> OneOrMany(A("Alignment"))])

Related ==
  Class(
    {"id", "type"},
    Members({"id", "version"}, String) ++
    [type |-> TypeIs("Related"), inLanguage |-> Localized(Language)])

Profile ==
  Class(
    {"id", "type"},
    Members({"id", "name", "url", "phone", "description", "email", "official",
             "familyName", "givenName", "additionalName", "patronymicName",
             "honorificPrefix", "honorificSuffix", "familyNamePrefix"}, String) ++
    [type |-> TypeIs("Profile"),
     endorsement |-> OneOrMany(A("EndorsementCredential")),
     endorsementJwt |-> OneOrMany(Localized(Jwt)), image |-> A("Image"),
     address |-> A("Address"),
     otherIdentifier |-> OneOrMany(A("IdentifierEntry")),
     parentOrg |-> A("Profile"), dateOfBirth |-> TextIn(Date)])

Address ==
  Class(
    {"type"},
    Members({"addressCountry", "addressCountryCode", "addressRegion",
             "addressLocality", "streetAddress", "postOfficeBoxNumber",
             "postalCode"}, String) ++
    [type |-> TypeIs("Address"), geo |-> A("GeoCoordinates")])

GeoCoordinates ==
  Class(
    {"type", "latitude", "longitude"},
    Members({"latitude", "longitude"}, Kind("number")) ++
    [type |-> Localized({"GeoCoordinates"})])

CredentialSchema ==
  Class(
    {"id", "type"},
    Members({"id", "type"}, String))

Badge_Root ==
  Class(
    {"context", "id", "type", "credentialSubject", "issuer", "validFrom"},
    Members({"id", "name", "description"}, String) ++
    Members({"awardedDate", "validFrom", "validUntil"}, TextIn(FormatDateTime)) ++
    [context |-> ContextOf(VC_CONTEXT_V2),
     type |-> TypeOf(<<{"VerifiableCredential"},
                       {"AchievementCredential", "OpenBadgeCredential"}>>),
     image |-> A("Image"), credentialSubject |-> A("AchievementSubject"),
     endorsement |-> OneOrMany(A("EndorsementCredential")),
     endorsementJwt |-> OneOrMany(Localized(Jwt)), issuer |-> ProfileRef,
     proof |-> OneOrMany(A("Proof")),
     credentialSchema |-> OneOrMany(A("CredentialSchema")),
     credentialStatus |-> A("CredentialStatus"),
     refreshService |-> A("RefreshService"),
     termsOfUse |-> OneOrMany(A("TermsOfUse")),
     evidence |-> OneOrMany(A("Evidence"))])

\* The classes by the name their $ref gives.
Badge_Defs ==
  [TermsOfUse |-> TermsOfUse, CredentialStatus |-> CredentialStatus,
   AchievementSubject |-> AchievementSubject,
   IdentityObject |-> IdentityObject, Evidence |-> Evidence,
   EndorsementCredential |-> EndorsementCredential,
   Achievement |-> Achievement, Alignment |-> Alignment, Criteria |-> Criteria,
   IdentifierEntry |-> IdentifierEntry, Proof |-> Proof,
   RefreshService |-> RefreshService, Image |-> Image,
   EndorsementSubject |-> EndorsementSubject, Result |-> Result,
   ResultDescription |-> ResultDescription,
   RubricCriterionLevel |-> RubricCriterionLevel, Related |-> Related,
   Profile |-> Profile, Address |-> Address, GeoCoordinates |-> GeoCoordinates,
   CredentialSchema |-> CredentialSchema]
===============================================================================
