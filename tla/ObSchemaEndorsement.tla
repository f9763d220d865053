------------------------- MODULE ObSchemaEndorsement --------------------------
(*******************************************************************************)
(* The Open Badges 3.0 EndorsementCredential schema for the VC Data Model 2.0  *)
(* (src/src/openbadges/schema/json-schema/endorsement-credential.ts, spec      *)
(* section E.2.1.7).  Its $defs are a part of those of the badge schema.       *)
(*******************************************************************************)
EXTENDS ObSchemaAchievement

Endorsement_Context               == Context
Endorsement_TermsOfUse            == TermsOfUse
Endorsement_CredentialStatus      == CredentialStatus
Endorsement_Evidence              == Evidence
Endorsement_ProfileRef            == ProfileRef
Endorsement_Proof                 == Proof
Endorsement_RefreshService        == RefreshService
Endorsement_EndorsementSubject    == EndorsementSubject
Endorsement_Profile               == Profile
Endorsement_EndorsementCredential == EndorsementCredential
Endorsement_IdentifierEntry       == IdentifierEntry
Endorsement_Image                 == Image
Endorsement_Address               == Address
Endorsement_GeoCoordinates        == GeoCoordinates
Endorsement_CredentialSchema      == CredentialSchema

Endorsement_Root == EndorsementCredential

\* The classes by the name their $ref gives.
Endorsement_Defs ==
  [TermsOfUse |-> Endorsement_TermsOfUse, CredentialStatus |-> Endorsement_CredentialStatus,
   Evidence |-> Endorsement_Evidence, Proof |-> Endorsement_Proof,
   RefreshService |-> Endorsement_RefreshService,
   EndorsementSubject |-> Endorsement_EndorsementSubject, Profile |-> Endorsement_Profile,
   EndorsementCredential |-> Endorsement_EndorsementCredential,
   IdentifierEntry |-> Endorsement_IdentifierEntry, Image |-> Endorsement_Image,
   Address |-> Endorsement_Address,
   GeoCoordinates |-> Endorsement_GeoCoordinates, CredentialSchema |-> Endorsement_CredentialSchema]
===============================================================================
