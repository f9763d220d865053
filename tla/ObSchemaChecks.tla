--------------------------- MODULE ObSchemaChecks ----------------------------
(***************************************************************************)
(* Which vendored schema a badge or an endorsement is validated against,   *)
(* the validation, and the report on the schemas it declares itself        *)
(* (src/src/openbadges/schema/).  A schema's URL is written without the    *)
(* directory all of them share.                                            *)
(***************************************************************************)
EXTENDS ObSemanticChecks, ObSchemaEndorsement, ObSchemaEndorsementV1p1

Vendored(id, obType, vcVersion, root, defs) ==
  [id |-> id, obType |-> obType, vcVersion |-> vcVersion, root |-> root, defs |-> defs]

VENDORED_OB_SCHEMAS ==
  <<Vendored("json/ob_v3p0_achievementcredential-jsonschema1.json",
             "OpenBadgeCredential", "v2", Badge_Root, Badge_Defs),
    Vendored("json/ob_v3p0_achievementcredentialv1p1-jsonschema1.json",
             "OpenBadgeCredential", "v1", BadgeV1_Root, BadgeV1_Defs),
    Vendored("json/ob_v3p0_endorsementcredential-jsonschema1.json",
             "EndorsementCredential", "v2", Endorsement_Root, Endorsement_Defs),
    Vendored("json/ob_v3p0_endorsementcredentialv1p1-jsonschema1.json",
             "EndorsementCredential", "v1", EndorsementV1_Root, EndorsementV1_Defs)>>

\* A credential of both types is a badge.
getObType(credential) ==
  IF isOpenBadgeCredential(credential) THEN "OpenBadgeCredential"
  ELSE IF isEndorsementCredential(credential) THEN "EndorsementCredential"
  ELSE "none"

vendoredSchemaFor(obType, vcVersion) ==
  LET vendored == VENDORED_OB_SCHEMAS
  IN  vendored[CHOOSE i \in DOMAIN vendored :
                 vendored[i].obType = obType /\ vendored[i].vcVersion = vcVersion]

vcVersion(credential) == vcVersionOf(At(credential, "context"))

Selects(credential) == getObType(credential) # "none" /\ vcVersion(credential) # "none"

selectObSchema(credential) ==
  vendoredSchemaFor(getObType(credential), vcVersion(credential))

obv3SchemaCheck(credential) ==
  LET vendored == selectObSchema(credential)
  IN  IF ~Selects(credential)
        THEN "skipped"
        ELSE Verdict(ConformsToClass(credential, vendored.root, vendored.defs))

----------------------------------------------------------------------------
Known(id, obType, accepts) == [id |-> id, obType |-> obType, accepts |-> accepts]

\* The schemas of IMS, each in two directories, and those embedded in the
\* specification, which are the vendored ones.
PublishedSchemas ==
  {Known("json/ob_v3p0_achievementcredential_schema.json",
         "OpenBadgeCredential", {"v2"}),
   Known("json/ob_v3p0_anyachievementcredential_schema.json",
         "OpenBadgeCredential", {"v1", "v2"}),
   Known("json/ob_v3p0_endorsementcredential_schema.json",
         "EndorsementCredential", {"v2"}),
   Known("json/ob_v3p0_anyendorsementcredential_schema.json",
         "EndorsementCredential", {"v1", "v2"}),
   Known("json-ld/ob_v3p0_achievementcredential_schema.json",
         "OpenBadgeCredential", {"v2"}),
   Known("json-ld/ob_v3p0_anyachievementcredential_schema.json",
         "OpenBadgeCredential", {"v1", "v2"}),
   Known("json-ld/ob_v3p0_endorsementcredential_schema.json",
         "EndorsementCredential", {"v2"}),
   Known("json-ld/ob_v3p0_anyendorsementcredential_schema.json",
         "EndorsementCredential", {"v1", "v2"})}

EmbeddedSchemas ==
  {Known("json/ob_v3p0_achievementcredential-jsonschema1.json",
         "OpenBadgeCredential", {"v2"}),
   Known("json/ob_v3p0_achievementcredentialv1p1-jsonschema1.json",
         "OpenBadgeCredential", {"v1"}),
   Known("json/ob_v3p0_endorsementcredential-jsonschema1.json",
         "EndorsementCredential", {"v2"}),
   Known("json/ob_v3p0_endorsementcredentialv1p1-jsonschema1.json",
         "EndorsementCredential", {"v1"})}

KNOWN_OB_SCHEMA_URLS == PublishedSchemas \cup EmbeddedSchemas

\* Entries without a text for an id declare nothing.
declaredSchemaIds(credential) ==
  LET entries == asEntries(At(credential, "credentialSchema"))
  IN  UNION {TextAt(entries[i], "id") : i \in DOMAIN entries}

\* Fault: only the type of a declared schema is compared.
DeclaredTypeFits(id, obType, version) ==
  \E known \in KNOWN_OB_SCHEMA_URLS : known.id = id /\ known.obType = obType

\* Whether a declared URL is a known schema of the credential's type which
\* accepts its version: OB_DECLARED_SCHEMA_NOT_CHECKED or _MISMATCH if not.
DeclaredFits(id, obType, version) ==
  \E known \in KNOWN_OB_SCHEMA_URLS :
    known.id = id /\ known.obType = obType /\ version \in known.accepts

obv3DeclaredSchemaCheck(credential) ==
  LET declared == declaredSchemaIds(credential)
  IN  IF ~Selects(credential) \/ declared = {}
        THEN "skipped"
        ELSE Verdict(\A id \in declared :
               DeclaredFits(id, getObType(credential), vcVersion(credential)))
=============================================================================
