CONSTANTS
  Url <- MCUrl
  Iri <- MCIri
  DateTime <- MCDateTime
  FormatDateTime <- MCFormatDateTime
  OffsetDateTime <- MCOffsetDateTime
  Date = {"today"}
  Email = {"a@b"}
  LanguageTag = {"en", "id"}
  Language = {"en"}
  Jwt = {"j.w.s"}
  Extension <- MCExtension
  ExtPrefixed = {"ext:x"}
  ObContext <- MCObContext
  ObPrefixed <- MCObPrefixed
  AdditionalKnownTypes = {"Custom"}
  Calls <- MCCalls
SPECIFICATION Spec
CHECK_DEADLOCK FALSE
INVARIANT TypeOK
INVARIANT SchemaAcceptedIsRecognized
INVARIANT JudgedByItsVersion
INVARIANT ReferencesResolve
