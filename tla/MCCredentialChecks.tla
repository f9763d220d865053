------------------------- MODULE MCCredentialChecks --------------------------
(* A small instance of CredentialChecks: a rich badge and a rich endorsement  *)
(* of each version of the data model and a presentation, every document that  *)
(* is one edit away from one of them, and documents chosen for what they are. *)
EXTENDS CredentialChecks, TLC

ObVersioned == "https://purl.imsglobal.org/spec/ob/v3p0/context-3.0.3.json"
ObPlain     == "https://purl.imsglobal.org/spec/ob/v3p0/context.json"
ObUnlisted  == "https://purl.imsglobal.org/spec/ob/v3p0/context-3.1.json"

Ids == {"urn:a", "urn:level", "urn:level2", "urn:rd", "urn:rd2", "urn:rd3"}

VendoredIds == {VENDORED_OB_SCHEMAS[i].id : i \in DOMAIN VENDORED_OB_SCHEMAS}
SchemaIds   == {known.id : known \in KNOWN_OB_SCHEMA_URLS} \cup {"json/unknown.json"}

Absolute == Ids \cup SchemaIds \cup {VC_CONTEXT_V1, VC_CONTEXT_V2, ObVersioned, ObPlain, ObUnlisted}

\* new URL() takes a scheme alone, the IRI pattern a host that is none.
MCUrl  == Absolute \cup {"urn:"}
MCIri  == Absolute \cup {"http://[bad"}

\* Dates by what the three grammars say of them: dateRegex takes either case and
\* no offset, ajv-formats a space as well, and Zod no seconds; the last two take
\* an offset without a colon.
MCDateTime       == {"now", "2024-01-01t00:00:00z", "2024-01-01T00:00:00"}
MCFormatDateTime == {"now", "2024-01-01t00:00:00z", "2024-01-01 00:00:00Z",
                     "2024-01-01T00:00:00+0200"}
MCOffsetDateTime == {"now", "2024-01-01T00:00:00+0200", "2024-01-01T00:00Z"}

MCObContext  == {ObVersioned, ObPlain}
MCObPrefixed == {ObVersioned, ObUnlisted}
MCExtension  == {"ext:x", "some-ext:x"}

Typed(type, f) == Obj(("type" :> Arr(<<Text(type)>>)) @@ f)
Named(type, f) == Typed(type, f @@ ("id" :> Text("urn:a")))
Linked(type)   == Obj([id |-> Text("urn:a"), type |-> Text(type)])
Signed         == Obj([type |-> Text("DataIntegrityProof")])
Texts(names)   == [n \in names |-> Text("any")]
One(x)         == Arr(<<x>>)

----------------------------------------------------------------------------
(* The rich documents.                                                     *)

Align == Typed("Alignment", Texts({"targetName", "targetCode"}) @@
  [targetUrl |-> Text("urn:a"), targetType |-> Text("CTDL")])

Pic == Obj([id |-> Text("urn:a"), type |-> Text("Image"), caption |-> Text("any")])

Level(id) == Typed("RubricCriterionLevel", [id |-> Text(id), name |-> Text("any")])

Description(id, type, levels) ==
  Typed("ResultDescription",
    [id |-> Text(id), name |-> Text("any"), resultType |-> Text(type)] @@
    (IF levels = <<>> THEN <<>>
     ELSE [rubricCriterionLevel |-> Arr([i \in DOMAIN levels |-> Level(levels[i])])]))

Outcome(f) == Typed("Result", [n \in DOMAIN f |-> Text(f[n])])

OtherId == Obj([type |-> Text("IdentifierEntry"), identifier |-> Text("any"),
                identifierType |-> Text("isbn")])

Place == Typed("Address", Texts({"addressCountry"}) @@
  [geo |-> Obj([type |-> Text("GeoCoordinates"), latitude |-> Number, longitude |-> Number])])

Issuer(f) == Named("Profile", f @@
  [name |-> Text("any"), url |-> Text("urn:a"), email |-> Text("a@b")])

Start(v1) == IF v1 THEN "issuanceDate" ELSE "validFrom"

Document(v1, type, subject, f) ==
  Obj(f @@ (Start(v1) :> Text("now")) @@
    [context |-> Arr(<<Text(IF v1 THEN VC_CONTEXT_V1 ELSE VC_CONTEXT_V2), Text(ObVersioned)>>),
     type |-> Arr(<<Text("VerifiableCredential"), Text(type)>>),
     id |-> Text("urn:a"), name |-> Text("any"), credentialSubject |-> subject,
     issuer |-> Issuer(<<>>), proof |-> Signed])

Endorses == Named("EndorsementSubject", [endorsementComment |-> Text("any")])

Endorsed(v1) ==
  Document(v1, "EndorsementCredential", Endorses,
    [awardedDate |-> Text("now"), description |-> Text("any"),
     issuer |-> Issuer([address |-> Place, otherIdentifier |-> One(OtherId),
                        dateOfBirth |-> Text("today"), endorsementJwt |-> One(Text("j.w.s")),
                        image |-> Pic]),
     proof |-> One(Obj([created |-> Text("now")] @@ Signed.members)),
     termsOfUse |-> Linked("Policy"), evidence |-> One(Named("Evidence", <<>>)),
     refreshService |-> Linked("Refresh")])

Holder == Obj([type |-> Text("IdentityObject"), hashed |-> Boolean,
               identityHash |-> Text("any"), identityType |-> Text("emailAddress")])

Achieves(f) == Named("Achievement", f @@
  [description |-> Text("any"), name |-> Text("any"), criteria |-> Obj([narrative |-> Text("any")])])

Earns(achievement, results) == Named("AchievementSubject",
  [achievement |-> achievement] @@ (IF results = <<>> THEN <<>> ELSE [result |-> Arr(results)]))

\* Three descriptions: one of levels, one of another level, one of a status.
Descriptions == Arr(<<Description("urn:rd", "RubricCriterionLevel", <<"urn:level">>),
                      Description("urn:rd2", "RubricCriterionLevel", <<"urn:level2">>),
                      Description("urn:rd3", "Status", <<>>)>>)

Graded == <<Outcome([resultDescription |-> "urn:rd", achievedLevel |-> "urn:level"]),
            Outcome([resultDescription |-> "urn:rd3", status |-> "Completed"]),
            Outcome([value |-> "any"])>>

Awarded(v1) ==
  Document(v1, "OpenBadgeCredential",
    Obj([identifier |-> One(Holder), narrative |-> Text("any"), creditsEarned |-> Number] @@
      Earns(Achieves([achievementType |-> Text("Course"), resultDescription |-> Descriptions,
                      alignment |-> One(Align), creator |-> Issuer(<<>>), image |-> Pic,
                      inLanguage |-> Text("en"), tag |-> One(Text("any")),
                      related |-> One(Named("Related", <<>>))]), Graded).members),
    [endorsement |-> One(Document(v1, "EndorsementCredential", Endorses, <<>>)),
     endorsementJwt |-> One(Text("j.w.s")), image |-> Pic,
     credentialStatus |-> Linked("Entry"),
     credentialSchema |-> One(Obj([id |-> Text("json/unknown.json"), type |-> Text("any")]))])

Presented ==
  Obj([context |-> Arr(<<Text(VC_CONTEXT_V2)>>), type |-> One(Text("VerifiablePresentation")),
       id |-> Text("urn:a"), holder |-> Named("Profile", <<>>),
       proof |-> One(Signed),
       verifiableCredential |-> One(Document(FALSE, "EndorsementCredential", Endorses, <<>>))])

----------------------------------------------------------------------------
(* One edit: a value of another kind, another text, a member that is       *)
(* missing or foreign, an array that is unwrapped, wrapped or empty.       *)

RECURSIVE Edits(_)

EditsWithin(f) ==
  UNION {{[f EXCEPT ![i] = edited] : edited \in Edits(f[i])} : i \in DOMAIN f}

Without(f, n) == [m \in DOMAIN f \ {n} |-> f[m]]

Edits(value) ==
  CASE IsText(value) ->
         {Number, Obj([en |-> value]), Text("~"), Text("http://[bad"), Text("urn:"), Arr(<<value>>)}
    [] isPlainObject(value) ->
         {Arr(<<value>>), Text("~"), Text("urn:a"), Null,
          Obj(value.members @@ ("foreign" :> Text("~")))}
         \cup {Obj(f) : f \in EditsWithin(value.members)}
         \cup {Obj(Without(value.members, n)) : n \in DOMAIN value.members}
    [] value.kind = "array" ->
         {Arr(<<>>)} \cup {value.items[i] : i \in DOMAIN value.items}
         \cup {Arr(q) : q \in EditsWithin(value.items)}
    [] OTHER -> {Text("~")}

----------------------------------------------------------------------------
(* Documents chosen for what they are.                                     *)

Badge0(v1, achievement, results) ==
  Document(v1, "OpenBadgeCredential", Earns(achievement, results), <<>>)

With(document0, f) == Obj(f @@ document0.members)

\* Every way two descriptions with levels can be referred to by a result.
Referring ==
  {Badge0(TRUE,
     Achieves([resultDescription |-> Arr(<<Description(a, ta, la), Description(b, "Status", lb)>>)]),
     <<Outcome([resultDescription |-> r] @@ f)>>) :
   a \in {"urn:rd", "urn:rd2"}, b \in {"urn:rd", "urn:rd2"},
   ta \in {"RubricCriterionLevel", "Status"},
   la \in {<<>>, <<"urn:level">>}, lb \in {<<>>, <<"urn:level2">>},
   r \in {"urn:rd", "urn:rd2", "urn:rd3"},
   f \in {[achievedLevel |-> "urn:level"], [achievedLevel |-> "urn:level2"],
          [status |-> "Completed"], [status |-> ""], [value |-> "any"]}}

AchievementTypes ==
  {Badge0(FALSE, Achieves([achievementType |-> type]), <<>>) :
     type \in {Text(t) : t \in AchievementType \cup KNOWN_ACHIEVEMENT_TYPES
                                \cup MCExtension \cup {"Custom", "~"}}
              \cup {One(Text("Course")), One(Text("~"))}}

Declaring ==
  {With(base, [credentialSchema |-> Arr([i \in DOMAIN ids |->
                 Obj([id |-> Text(ids[i]), type |-> Text("any")])])]) :
     base \in {Document(v1, "EndorsementCredential", Endorses, <<>>) : v1 \in BOOLEAN}
              \cup {Badge0(v1, Achieves(<<>>), <<>>) : v1 \in BOOLEAN},
     ids \in {<<id>> : id \in SchemaIds}
             \cup {<<id, "json/unknown.json">> : id \in VendoredIds}}

Contexts ==
  {With(Badge0(v1, Achieves(<<>>), <<>>),
        [context |-> Arr([i \in DOMAIN context |-> Text(context[i])])]) :
     v1 \in BOOLEAN,
     context \in {<<v, ob>> : v \in {VC_CONTEXT_V1, VC_CONTEXT_V2},
                              ob \in {ObVersioned, ObPlain, ObUnlisted}}
                 \cup {<<VC_CONTEXT_V1, VC_CONTEXT_V2, ObVersioned>>,
                       <<VC_CONTEXT_V2, VC_CONTEXT_V1, ObVersioned>>,
                       <<VC_CONTEXT_V1, ObVersioned, VC_CONTEXT_V2>>,
                       <<ObVersioned, VC_CONTEXT_V1>>, <<VC_CONTEXT_V2>>}}

\* Both dates are there, so that only the version tells which one counts.
TwoDated ==
  {With(document0, [issuanceDate |-> Text(i), validFrom |-> Text(f)]) :
     document0 \in Contexts, i \in {"now", "~"}, f \in {"now", "~"}}

\* Each of its dates, in every class of texts that the grammars tell apart.
Dated ==
  {With(base, [n \in {name} |-> Text(date)]) :
     base \in {Document(v1, "EndorsementCredential", Endorses, <<>>) : v1 \in BOOLEAN}
              \cup {Badge0(v1, Achieves(<<>>), <<>>) : v1 \in BOOLEAN},
     name \in {"issuanceDate", "expirationDate", "validFrom", "validUntil", "awardedDate"},
     date \in MCDateTime \cup MCFormatDateTime \cup MCOffsetDateTime}

\* An issuer given by a text alone.
Issued ==
  {With(Document(v1, "EndorsementCredential", Endorses, <<>>), [issuer |-> Text(id)]) :
     v1 \in BOOLEAN, id \in {"urn:a", "urn:", "http://[bad"}}

BothTypesOf(document0) ==
  With(document0, [type |-> Arr(<<Text("VerifiableCredential"), Text("EndorsementCredential"),
                                  Text("OpenBadgeCredential")>>)])

\* An image is a member that the schema of endorsements does not know.
Pictured ==
  {With(Endorsed(v1), [image |-> image]) :
     v1 \in BOOLEAN, image \in {Text("urn:a"), Pic, Number}}

\* An endorsement's subject is open: it may hold an achievement, which only the
\* schema of badges restricts.
Achieving ==
  {With(Endorsed(v1), [credentialSubject |->
      With(Endorses, [achievement |-> Achieves([achievementType |-> Text("~")])])]) : v1 \in BOOLEAN}

\* A credential in an envelope of its own, which names both types.
Enveloped ==
  With(Endorsed(FALSE), [type |-> Arr(<<Text("VerifiableCredential"),
                                        Text("EnvelopedVerifiableCredential")>>)])

Chosen ==
  {Enveloped} \cup Referring \cup AchievementTypes \cup Declaring \cup Contexts \cup TwoDated
  \cup Dated \cup Issued \cup Pictured \cup Achieving
  \cup {BothTypesOf(Awarded(TRUE)), BothTypesOf(Endorsed(FALSE))}

----------------------------------------------------------------------------
Call(kind, document0, recognizers0, suite) ==
  [kind |-> kind, document |-> document0, recognizers |-> recognizers0, suite |-> suite]

Both == <<"obv3p0.openbadge", "obv3p0.endorsement">>

\* A result that names no description, beside a description and a result each
\* of which may have a member of the wrong kind or lack one.
MCUntidy ==
  {Call("verifiableCredential",
        Badge0(FALSE, Achieves([resultDescription |-> Arr(<<description>>)]),
               <<Outcome([resultDescription |-> "urn:rd2"]), neighbour>>),
        Both, "openbadges.semantic") :
     description \in Edits(Description("urn:rd", "Status", <<"urn:level">>)) \ {Null},
     neighbour \in Edits(Outcome([resultDescription |-> "urn:rd", status |-> "Completed"]))}

Rich == UNION {{Awarded(v1), Endorsed(v1)} : v1 \in BOOLEAN}

MCCalls ==
  {Call("verifiableCredential", d, Both, "openbadges") :
     d \in Rich \cup UNION {Edits(rich) : rich \in Rich} \cup Chosen}
  \cup {Call("verifiablePresentation", d, Both, "openbadges") : d \in {Presented} \cup Edits(Presented)}
  \cup {Call("verifiableCredential", d, r, s) :
          d \in Rich \cup {BothTypesOf(Awarded(TRUE)), BothTypesOf(Endorsed(FALSE))},
          r \in {<<>>, <<"obv3p0.openbadge">>, <<"obv3p0.endorsement">>, Both,
                 <<"obv3p0.endorsement", "obv3p0.openbadge">>},
          s \in {"openbadges", "openbadges.semantic", "openbadges.schema"}}
=============================================================================
