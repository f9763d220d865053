-------------------------- MODULE ObSemanticChecks ---------------------------
(***************************************************************************)
(* Which credentials are Open Badges (src/src/openbadges/recognize.ts) and *)
(* the checks that a badge's cross-references hang together (result-ref,   *)
(* achieved-level, missing-result-status and unknown-achievement-type).    *)
(* An operator with a check's name is the status of its outcome.           *)
(***************************************************************************)
EXTENDS ObVocabulary

CONSTANTS
  ExtPrefixed,          \* the texts that start with "ext:"
  AdditionalKnownTypes  \* the achievement types a caller adds to the known ones

hasObv3Context(credential) ==
  stringValues(At(credential, "context")) \cap ObPrefixed # {}

hasType(credential, name) == name \in stringValues(At(credential, "type"))

isOpenBadgeCredential(credential) ==
  hasObv3Context(credential) /\ hasType(credential, "OpenBadgeCredential")

isEndorsementCredential(credential) ==
  hasObv3Context(credential) /\ hasType(credential, "EndorsementCredential")

----------------------------------------------------------------------------
(* The tolerant shapes the checks read (openbadges-zod.ts): nothing is     *)
(* required, but what is there must be of the kind it is read as, or no    *)
(* check reads anything.                                                   *)

RubricCriterionLevelShape == Class({}, [id |-> AnyText])

Obv3ResultDescriptionShape ==
  Class({}, [id |-> AnyText, resultType |-> AnyText,
             rubricCriterionLevel |-> ArrayOf(A("RubricCriterionLevel"))])

Obv3ResultShape ==
  Class({}, Members({"resultDescription", "achievedLevel", "status"}, AnyText))

Obv3AchievementShape ==
  Class({}, [resultDescription |-> ArrayOf(A("ResultDescription"))])

Obv3CredentialSubjectShape ==
  Class({}, [achievement |-> A("Achievement"), result |-> ArrayOf(A("Result"))])

Shapes ==
  [RubricCriterionLevel |-> RubricCriterionLevelShape,
   ResultDescription |-> Obv3ResultDescriptionShape,
   Result |-> Obv3ResultShape, Achievement |-> Obv3AchievementShape]

safeParse(subject) == ConformsToClass(subject, Obv3CredentialSubjectShape, Shapes)

Items(value) == IF value.kind = "array" THEN value.items ELSE <<>>
Results(subject) == Items(At(subject, "result"))
ResultDescriptions(subject) ==
  Items(At(At(subject, "achievement"), "resultDescription"))

TextAt(value, name) == IF IsText(At(value, name)) THEN {At(value, name).text} ELSE {}

Verdict(ok) == IF ok THEN "success" ELSE "failure"

----------------------------------------------------------------------------
knownIds(descriptions) ==
  UNION {TextAt(descriptions[i], "id") : i \in DOMAIN descriptions}

obv3ResultRefCheck(credential) ==
  LET subject == At(credential, "credentialSubject")
      results == Results(subject)
  IN  IF ~safeParse(subject) \/ results = <<>>
        THEN "skipped"
        ELSE Verdict(\A i \in DOMAIN results :
               TextAt(results[i], "resultDescription")
                 \subseteq knownIds(ResultDescriptions(subject)))

Levels(description) ==
  LET levels == Items(At(description, "rubricCriterionLevel"))
  IN  UNION {TextAt(levels[i], "id") : i \in DOMAIN levels}

\* Fault: the levels of all descriptions are pooled.
LevelsPooled(descriptions, id) ==
  UNION {Levels(descriptions[i]) : i \in DOMAIN descriptions}

\* The levels of a description id: those of the last description of that id
\* which declares any.
levelsByRdId(descriptions, id) ==
  LET Declares(i) == id \in TextAt(descriptions[i], "id") /\ Levels(descriptions[i]) # {}
      declaring   == {i \in DOMAIN descriptions : Declares(i)}
  IN  UNION {Levels(descriptions[i]) : i \in {j \in declaring : \A k \in declaring : k <= j}}

obv3AchievedLevelCheck(credential) ==
  LET subject      == At(credential, "credentialSubject")
      results      == Results(subject)
      descriptions == ResultDescriptions(subject)
  IN  IF ~safeParse(subject) \/ results = <<>> \/ descriptions = <<>>
        THEN "skipped"
        ELSE Verdict(\A i \in DOMAIN results :
               \A id \in TextAt(results[i], "resultDescription") :
                 TextAt(results[i], "achievedLevel")
                   \subseteq levelsByRdId(descriptions, id))

statusTypedRdIds(descriptions) ==
  LET typed == {i \in DOMAIN descriptions :
                  TextAt(descriptions[i], "resultType") = {"Status"}}
  IN  UNION {TextAt(descriptions[i], "id") : i \in typed}

obv3MissingResultStatusCheck(credential) ==
  LET subject      == At(credential, "credentialSubject")
      results      == Results(subject)
      descriptions == ResultDescriptions(subject)
      NeedsStatus(result) ==
        TextAt(result, "resultDescription") \cap statusTypedRdIds(descriptions) # {}
  IN  IF ~safeParse(subject) \/ results = <<>> \/ descriptions = <<>>
        THEN "skipped"
        ELSE Verdict(\A i \in DOMAIN results :
               NeedsStatus(results[i]) => TextAt(results[i], "status") \ {""} # {})

----------------------------------------------------------------------------
KNOWN_ACHIEVEMENT_TYPES ==
  {"Achievement", "ApprenticeshipCertificate", "Assessment", "Assignment",
   "AssociateDegree", "Award", "Badge", "BachelorDegree", "Certificate",
   "CertificateOfCompletion", "Certification", "CommunityService",
   "Competency", "Course", "CoCurricular", "Degree", "Diploma",
   "DoctoralDegree", "Fieldwork", "GeneralEducationDevelopment",
   "JourneymanCertificate", "LearningProgram", "License", "Membership",
   "ProfessionalDoctorate", "QualityAssuranceCredential", "MasterCertificate",
   "MasterDegree", "MicroCredential", "ResearchDoctorate",
   "SecondarySchoolDiploma"}

\* Values that are no texts are nobody's concern here.
evaluateAchievementType(value, knownTypes) ==
  stringValues(value) \subseteq knownTypes \cup ExtPrefixed

obv3UnknownAchievementTypeCheck(credential) ==
  LET subject == At(credential, "credentialSubject")
      type    == At(At(subject, "achievement"), "achievementType")
  IN  IF ~safeParse(subject) \/ type = Undefined
        THEN "skipped"
        ELSE Verdict(evaluateAchievementType(type,
                       KNOWN_ACHIEVEMENT_TYPES \cup AdditionalKnownTypes))
=============================================================================
