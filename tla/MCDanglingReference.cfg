CONSTANTS
  Url <- MCUrl
  Iri <- MCIri
  DateTime <- MCDateTime
  FormatDateTime <- MCFormatDateTime
  OffsetDateTime <- MCOffsetDateTime
  Date = {"today"}
  Email = {"a@b"}
  LanguageTag = {"en"}
  Language = {"en"}
  Jwt = {"j.w.s"}
  Extension <- MCExtension
  ExtPrefixed = {"ext:x"}
  ObContext <- MCObContext
  ObPrefixed <- MCObPrefixed
  AdditionalKnownTypes = {"Custom"}
  Calls <- MCUntidy
SPECIFICATION Spec
CHECK_DEADLOCK FALSE
INVARIANT DanglingReported
