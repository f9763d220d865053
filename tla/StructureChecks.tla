--------------------------- MODULE StructureChecks ---------------------------
(***************************************************************************)
(* The core suite (src/src/suites/core/): the checks of a document's shape *)
(* that run before everything else, each of them fatal.  An operator is    *)
(* TRUE when its check succeeds; a failure's list of violations, one per   *)
(* JSON pointer, is abstracted to there being one.                         *)
(***************************************************************************)
EXTENDS JsonShape

contextCheck(credential) ==
  LET context == At(credential, "context")
  IN  \/ context.kind = "array" /\ context.items # <<>>
      \/ IsText(context) /\ context.text # ""

vcContextCheck(credential) == includesVcContext(At(credential, "context"))

----------------------------------------------------------------------------
(* The rules core.vc-structure and core.vp-structure share.                *)

\* A VC context that is there must come first.
firstContextEntryOk(context) ==
  includesVcContext(context) => isVcContext(firstContextEntry(context))

\* A missing type includes nothing.
typeIncludes(type, required) == required \in stringValues(type)

urlOrIdObject(value) == isUrl(value) \/ isUrl(At(value, "id"))

typedEntry(entry) == isPlainObject(entry) /\ stringValues(At(entry, "type")) # {}

absentOrUrl(value) == value = Undefined \/ isUrl(value)

isDateTime(value) == IsTextIn(value, DateTime)

----------------------------------------------------------------------------
credentialSubjectOk(credential) ==
  LET value   == At(credential, "credentialSubject")
      entries == asEntries(value)
  IN  /\ value \notin {Undefined, Null}
      /\ entries # <<>>
      /\ \A i \in DOMAIN entries :
           /\ isPlainObject(entries[i])
           /\ DOMAIN entries[i].members # {}
           /\ absentOrUrl(At(entries[i], "id"))

absentOrDateTime(value) == value = Undefined \/ isDateTime(value)

\* Only the dates of the version that the first context entry names.
datesOk(credential) ==
  LET version == vcVersionOf(At(credential, "context"))
      DateOk(prop) == absentOrDateTime(At(credential, prop))
  IN  /\ version = "v1" =>
           /\ Has(credential, "issuanceDate")
           /\ DateOk("issuanceDate")
           /\ DateOk("expirationDate")
      /\ version = "v2" => DateOk("validFrom") /\ DateOk("validUntil")

\* The properties whose entries must have a type, and what each asks of an id.
TypedProperties ==
  [credentialStatus |-> "optional", proof |-> "any", termsOfUse |-> "any",
   evidence |-> "optional", credentialSchema |-> "required"]

typedPropertiesOk(credential) ==
  \A prop \in DOMAIN TypedProperties :
    LET entries == asEntries(At(credential, prop))
        rule    == TypedProperties[prop]
    IN  Has(credential, prop) =>
          \A i \in DOMAIN entries :
            /\ typedEntry(entries[i])
            /\ rule = "required" => isUrl(At(entries[i], "id"))
            /\ rule = "optional" => absentOrUrl(At(entries[i], "id"))

vcStructureCheck(credential) ==
  /\ isPlainObject(credential)
  /\ firstContextEntryOk(At(credential, "context"))
  /\ typeIncludes(At(credential, "type"), "VerifiableCredential")
  /\ credentialSubjectOk(credential)
  /\ urlOrIdObject(At(credential, "issuer"))
  /\ datesOk(credential)
  /\ typedPropertiesOk(credential)

vpStructureCheck(presentation) ==
  LET holder      == At(presentation, "holder")
      proofs      == asEntries(At(presentation, "proof"))
      credentials == asEntries(At(presentation, "verifiableCredential"))
  IN  /\ isPlainObject(presentation)
      /\ includesVcContext(At(presentation, "context"))
      /\ firstContextEntryOk(At(presentation, "context"))
      /\ typeIncludes(At(presentation, "type"), "VerifiablePresentation")
      /\ absentOrUrl(At(presentation, "id"))
      /\ holder = Undefined \/ urlOrIdObject(holder)
      /\ Has(presentation, "proof") => \A i \in DOMAIN proofs : typedEntry(proofs[i])
      /\ Has(presentation, "verifiableCredential") =>
           \A i \in DOMAIN credentials : isPlainObject(credentials[i])

credentialIdCheck(credential) ==
  LET id == At(credential, "id")
  IN  id \in {Undefined, Null} \/ isUrl(id)

\* Null and texts are no proofs; in an array they make the proof malformed.
proofEntries(document) ==
  LET IsEntry(entry) == entry.kind \in {"object", "array"}
  IN  SelectSeq(asEntries(At(document, "proof")), IsEntry)

proofExistsCheck(credential) ==
  LET proof == At(credential, "proof")
  IN  /\ proofEntries(credential) # <<>>
      /\ proof.kind = "array" => Len(proofEntries(credential)) = Len(proof.items)
=============================================================================
