---------------------------- MODULE ObVocabulary ----------------------------
(***************************************************************************)
(* How the Open Badges schemas describe a document: the keywords of JSON   *)
(* Schema that the four vendored schemas use, as AJV evaluates them        *)
(* (src/src/openbadges/schema/obv3-schema-check.ts compiles the schemas),  *)
(* and the combinators of Zod that the parsers use.                        *)
(*                                                                         *)
(* A shape says what a member may hold; a class says which members an      *)
(* object must have, what its members may hold and whether it may have     *)
(* others.  The alternatives of every oneOf of the schemas exclude one     *)
(* another, so that oneOf and anyOf are both Either.                       *)
(***************************************************************************)
EXTENDS JsonShape

CONSTANTS
  Date,          \* the texts of format "date"
  FormatDateTime, \* the texts of format "date-time", as ajv-formats tests them
  LanguageTag,   \* the member names that are language tags
  Language,      \* the texts that are language codes
  Jwt,           \* the texts that look like a compact JWS
  Extension,     \* the texts that name an issuer-defined term, "ext:..."
  ObContext,     \* the texts the schemas take for the Open Badges context
  ObPrefixed     \* the texts that start like an Open Badges 3.x context

\* A shape is the set of its alternatives.
TextIn(S)        == {[texts |-> S]}
LanguageMapIn(S) == {[maps |-> S]}
Kind(k)          == {[kind |-> k]}
A(name)          == {[class |-> name]}

\* An array of items; "heads" constrains the first ones (prefixItems with
\* minItems), "holds" names sets one of whose texts must occur (contains).
Array(item, heads, holds) == {[item |-> item, heads |-> heads, holds |-> holds]}

Either(one, other) == one \cup other

AnyText       == TextIn(STRING)
ArrayOf(item) == Array(item, <<>>, <<>>)

\* JSON-LD value compaction: a text or a language map of such texts, and a
\* value or an array of them.
Localized(S) == Either(TextIn(S), LanguageMapIn(S))
String       == Localized(STRING)
OneOrMany(s) == Either(s, ArrayOf(s))

\* A "type" member that is a string or an array with the class among its items.
TypeOf(holds) == Either(String, Array(String, <<>>, holds))
TypeIs(name)  == TypeOf(<<{name}>>)

AnyContext == Either(String, Kind("object"))
ContextOf(vc) ==
  Either(AnyContext, Array(AnyContext, <<{vc}, ObContext>>, <<>>))

\* Members that hold the same, and the members of f with those of g.
Members(names, shape) == [n \in names |-> shape]
f ++ g == [n \in DOMAIN f \cup DOMAIN g |-> IF n \in DOMAIN f THEN f[n] ELSE g[n]]

Class(required, members)  == [required |-> required, members |-> members, closed |-> FALSE]
Closed(required, members) == [required |-> required, members |-> members, closed |-> TRUE]

\* What an object or an array holds.
Parts(value) ==
  CASE isPlainObject(value) -> {value.members[n] : n \in DOMAIN value.members}
    [] value.kind = "array" -> {value.items[i] : i \in DOMAIN value.items}
    [] OTHER                -> {}

-----------------------------------------------------------------------------
(* What conforms to a shape and to a class, where "isA" tells the instances   *)
(* of the classes by name.                                                    *)

IsLanguageMap(value, texts) ==
  /\ isPlainObject(value)
  /\ DOMAIN value.members \subseteq LanguageTag
  /\ \A n \in DOMAIN value.members : IsTextIn(value.members[n], texts)

\* An alternative that is no array; no schema has an array of arrays.
Fits(value, alternative, isA) ==
  \/ "texts" \in DOMAIN alternative /\ IsTextIn(value, alternative.texts)
  \/ "maps"  \in DOMAIN alternative /\ IsLanguageMap(value, alternative.maps)
  \/ "kind"  \in DOMAIN alternative /\ value.kind = alternative.kind
  \/ /\ "class" \in DOMAIN alternative
     /\ <<value, alternative.class>> \in DOMAIN isA
     /\ isA[value, alternative.class]

FitsOne(value, shape, isA) == \E alternative \in shape : Fits(value, alternative, isA)

FitsArray(value, array, isA) ==
  /\ value.kind = "array"
  /\ Len(value.items) >= Len(array.heads)
  /\ \A i \in DOMAIN value.items :
       IF i \in DOMAIN array.heads
         THEN IsTextIn(value.items[i], array.heads[i])
         ELSE FitsOne(value.items[i], array.item, isA)
  /\ \A h \in DOMAIN array.holds :
       \E i \in DOMAIN value.items : IsTextIn(value.items[i], array.holds[h])

Conforms(value, shape, isA) ==
  \/ FitsOne(value, shape, isA)
  \/ \E array \in shape : "item" \in DOMAIN array /\ FitsArray(value, array, isA)

IsInstance(value, class, isA) ==
  /\ isPlainObject(value)
  /\ class.required \subseteq DOMAIN value.members
  /\ class.closed => DOMAIN value.members \subseteq DOMAIN class.members
  /\ \A n \in DOMAIN value.members \cap DOMAIN class.members :
       Conforms(value.members[n], class.members[n], isA)

\* A value and all it is made of.
Within(value) ==
  LET layer[n \in Nat] ==
        IF n = 0 THEN {value} ELSE UNION {Parts(v) : v \in layer[n - 1]}
      from[n \in Nat] ==
        IF layer[n] = {} THEN {} ELSE layer[n] \cup from[n + 1]
  IN  from[0]

\* What JSON can express: values without undefined, made of such values.
IsJson(value) ==
  \/ value \in {Null, Number, Boolean}
  \/ value.kind = "string" /\ value.text \in STRING /\ value = Text(value.text)
  \/ value.kind = "object" /\ value = Obj([n \in DOMAIN value.members |-> value.members[n]])
  \/ value.kind = "array" /\ value.items \in Seq(Parts(value)) /\ value = Arr(value.items)

IsJsonDocument(document) ==
  LET values == Within(document)
  IN  /\ document \in values
      /\ \A value \in values : IsJson(value) /\ Parts(value) \subseteq values

\* The instances, among these values, of the classes that defs gives by name.
Instances(values, defs) ==
  LET isA[p \in values \X DOMAIN defs] == IsInstance(p[1], defs[p[2]], isA)
  IN  isA

\* Whether a value is an instance of the class, given those it refers to.
ConformsToClass(value, class, defs) ==
  IsInstance(value, class, Instances(Within(value), defs))
=============================================================================
