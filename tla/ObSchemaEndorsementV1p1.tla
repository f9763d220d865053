----------------------- MODULE ObSchemaEndorsementV1p1 ------------------------
(*******************************************************************************)
(* The Open Badges 3.0 EndorsementCredential schema for the VC Data Model 1.1  *)
(* (src/src/openbadges/schema/json-schema/endorsement-credential-v1p1.ts, spec *)
(* section E.2.1.36).  Its $defs are a part of those of the 1.1 badge schema.  *)
(*******************************************************************************)
EXTENDS ObSchemaAchievementV1p1

EndorsementV1_Context                   == Context
EndorsementV1_TermsOfUse                == TermsOfUse
EndorsementV1_CredentialStatus          == CredentialStatus
EndorsementV1_Evidence                  == Evidence
EndorsementV1_Proof                     == Proof
EndorsementV1_RefreshService            == RefreshService
EndorsementV1_EndorsementSubject        == EndorsementSubject
EndorsementV1_Profilev1p1               == Profilev1p1
EndorsementV1_IdentifierEntry           == IdentifierEntry
EndorsementV1_EndorsementCredentialv1p1 == EndorsementCredentialv1p1
EndorsementV1_Image                     == Image
EndorsementV1_Address                   == Address
EndorsementV1_GeoCoordinates            == GeoCoordinates
EndorsementV1_Profile                   == Profile
EndorsementV1_EndorsementCredential     == EndorsementCredential
EndorsementV1_ProfileRef                == ProfileRef
EndorsementV1_CredentialSchema          == CredentialSchema

EndorsementV1_Root == EndorsementCredentialv1p1

\* The classes by the name their $ref gives.
EndorsementV1_Defs ==
  [TermsOfUse |-> EndorsementV1_TermsOfUse, CredentialStatus |-> EndorsementV1_CredentialStatus,
   Evidence |-> EndorsementV1_Evidence, Proof |-> EndorsementV1_Proof,
   RefreshService |-> EndorsementV1_RefreshService,
   EndorsementSubject |-> EndorsementV1_EndorsementSubject, Profilev1p1 |-> EndorsementV1_Profilev1p1,
   IdentifierEntry |-> EndorsementV1_IdentifierEntry,
   EndorsementCredentialv1p1 |-> EndorsementV1_EndorsementCredentialv1p1,
   Image |-> EndorsementV1_Image,
   Address |-> EndorsementV1_Address, GeoCoordinates |-> EndorsementV1_GeoCoordinates,
   Profile |-> EndorsementV1_Profile,
   EndorsementCredential |-> EndorsementV1_EndorsementCredential,
   CredentialSchema |-> EndorsementV1_CredentialSchema]
===============================================================================
