------------------------------ MODULE JsonShape ------------------------------
(***************************************************************************)
(* JSON values as the checks read them (src/src/util/json-shape.ts and     *)
(* vc-contexts.ts).  A value is a record tagged with its kind; a string    *)
(* keeps the text the checks compare it with, and what a URL or a date     *)
(* parser says of a text is membership of a set, given as a constant.      *)
(* The member "@context" is spelled "context".                             *)
(***************************************************************************)
EXTENDS Naturals, Sequences

CONSTANTS
  Url,       \* the texts new URL() accepts: web addresses, DIDs and URNs
  DateTime   \* the texts that dateRegex matches, the date pattern of the core suite

VC_CONTEXT_V1 == "https://www.w3.org/2018/credentials/v1"
VC_CONTEXT_V2 == "https://www.w3.org/ns/credentials/v2"

Undefined == [kind |-> "undefined"]
Null      == [kind |-> "null"]
Number    == [kind |-> "number"]
Boolean   == [kind |-> "boolean"]
Text(s)   == [kind |-> "string", text |-> s]
Obj(f)    == [kind |-> "object", members |-> f]
Arr(q)    == [kind |-> "array", items |-> q]

isPlainObject(value) == value.kind = "object"
IsText(value) == value.kind = "string"
IsTextIn(value, texts) == IsText(value) /\ value.text \in texts

\* value[name]: undefined when the value is no object or has no such member.
At(value, name) ==
  IF isPlainObject(value) /\ name \in DOMAIN value.members
    THEN value.members[name]
    ELSE Undefined

Has(value, name) == At(value, name) # Undefined

\* A single value or an array, as the sequence of its entries.
asEntries(value) == IF value.kind = "array" THEN value.items ELSE <<value>>

\* The texts of a term that may be a single string or an array.
stringValues(value) ==
  LET entries == asEntries(value)
  IN  {entries[i].text : i \in {j \in DOMAIN entries : IsText(entries[j])}}

isUrl(value) == IsTextIn(value, Url)

isVcContext(value) == IsTextIn(value, {VC_CONTEXT_V1, VC_CONTEXT_V2})

firstContextEntry(context) ==
  CASE context.kind # "array"    -> context
    [] context = Arr(<<>>)       -> Undefined
    [] OTHER                     -> Head(context.items)

\* "none" when the first entry names neither version of the data model.
vcVersionOf(context) ==
  LET first == firstContextEntry(context)
  IN  CASE IsTextIn(first, {VC_CONTEXT_V1}) -> "v1"
        [] IsTextIn(first, {VC_CONTEXT_V2}) -> "v2"
        [] OTHER                            -> "none"

includesVcContext(context) ==
  stringValues(context) \cap {VC_CONTEXT_V1, VC_CONTEXT_V2} # {}
=============================================================================
