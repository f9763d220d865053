------------------------ MODULE CredentialChecks_proofs ----------------------
(***************************************************************************)
(* Proofs about the checks of a document's content, for every document,     *)
(* list of recognizers and suite: what the rows of a report mean, and that  *)
(* the parser and the vendored schemas agree about what they both accept.   *)
(***************************************************************************)
EXTENDS CredentialChecks, SequenceTheorems, TLAPS

-----------------------------------------------------------------------------
(* Sequences of checks, and what a call has ahead of it *)

\* The checks of the Open Badges suites.
ObChecks == ToSet(SemanticChecks \o SchemaChecks)

\* The stages of a call: the gate, the core suite, recognition, Open Badges.
Rank(id) ==
  IF id = "parsing.envelope" THEN 0
  ELSE IF id \in CoreSuite THEN 1
  ELSE IF id = "recognition.profile" THEN 2
  ELSE 3

\* Checks without a repetition, in the order of their stages.
InOrder(q) ==
  \A i, j \in 1..Len(q) : i < j => q[i] # q[j] /\ Rank(q[i]) <= Rank(q[j])

\* Facts about two sequences joined: its elements, those of the left one, and
\* those of the right one.
LEMMA Joined ==
  ASSUME NEW S, NEW p \in Seq(S), NEW q \in Seq(S)
  PROVE  p \o q \in Seq(S) /\ Len(p \o q) = Len(p) + Len(q)
BY ConcatProperties

LEMMA JoinedLeft ==
  ASSUME NEW S, NEW p \in Seq(S), NEW q \in Seq(S), NEW i \in 1..Len(p)
  PROVE  (p \o q)[i] = p[i]
BY ConcatProperties, LenProperties

\* What occurs in two sequences joined.
LEMMA JoinedRange ==
  ASSUME NEW S, NEW p \in Seq(S), NEW q \in Seq(S)
  PROVE  ToSet(p \o q) = ToSet(p) \cup ToSet(q)
<1> DEFINE j == p \o q
<1>1. /\ Len(j) = Len(p) + Len(q) /\ j \in Seq(S)
      /\ \A i \in 1..Len(j) : j[i] = IF i <= Len(p) THEN p[i] ELSE q[i - Len(p)]
  BY ConcatProperties
<1>2. /\ Len(p) \in Nat /\ Len(q) \in Nat
      /\ DOMAIN p = 1..Len(p) /\ DOMAIN q = 1..Len(q) /\ DOMAIN j = 1..Len(j)
  BY <1>1, LenProperties
<1> HIDE DEF j
<1>3. ASSUME NEW x \in ToSet(j)
      PROVE  x \in ToSet(p) \cup ToSet(q)
  <2>1. PICK i \in 1..Len(j) : j[i] = x
    BY <1>2, <1>3 DEF ToSet
  <2>2. CASE i <= Len(p)
    <3>1. i \in 1..Len(p) /\ x = p[i]
      BY <1>1, <1>2, <2>1, <2>2
    <3> QED  BY <1>2, <3>1 DEF ToSet
  <2>3. CASE ~(i <= Len(p))
    <3>1. i - Len(p) \in 1..Len(q)
      BY <1>1, <1>2, <2>3
    <3>2. x = q[i - Len(p)]
      BY <1>1, <2>1, <2>3
    <3> QED  BY <1>2, <3>1, <3>2 DEF ToSet
  <2> QED  BY <2>2, <2>3
<1>4. ASSUME NEW i \in 1..Len(p)
      PROVE  p[i] \in ToSet(j)
  <2>1. i \in 1..Len(j) /\ i <= Len(p)
    BY <1>1, <1>2
  <2>2. j[i] = p[i]
    BY <1>1, <2>1
  <2> QED  BY <1>2, <2>1, <2>2 DEF ToSet
<1>5. ASSUME NEW i \in 1..Len(q)
      PROVE  q[i] \in ToSet(j)
  <2>1. Len(p) + i \in 1..Len(j) /\ ~(Len(p) + i <= Len(p)) /\ (Len(p) + i) - Len(p) = i
    BY <1>1, <1>2
  <2>2. j[Len(p) + i] = q[i]
    BY <1>1, <2>1
  <2> QED  BY <1>2, <2>1, <2>2 DEF ToSet
<1>6. ToSet(p) \cup ToSet(q) \subseteq ToSet(j)
  BY <1>2, <1>4, <1>5 DEF ToSet
<1> QED  BY <1>3, <1>6 DEF j

\* The Open Badges checks by their ids.
LEMMA ObChecksAre ==
  ObChecks = {"schema.obv3.result-ref", "schema.obv3.achieved-level",
    "schema.obv3.missing-result-status", "schema.obv3.unknown-achievement-type",
    "schema.obv3.json", "schema.obv3.declared"}
<1> DEFINE S == {"schema.obv3.result-ref", "schema.obv3.achieved-level",
                 "schema.obv3.missing-result-status", "schema.obv3.unknown-achievement-type"}
           T == {"schema.obv3.json", "schema.obv3.declared"}
<1>1. SemanticChecks \in Seq(S \cup T) /\ ToSet(SemanticChecks) = S
  <2>1. DOMAIN SemanticChecks = 1..4
    BY DEF SemanticChecks
  <2>2. \A i \in 1..4 : i = 1 \/ i = 2 \/ i = 3 \/ i = 4
    OBVIOUS
  <2> QED  BY <2>1, <2>2 DEF SemanticChecks, ToSet
<1>2. SchemaChecks \in Seq(S \cup T) /\ ToSet(SchemaChecks) = T
  <2>1. DOMAIN SchemaChecks = 1..2
    BY DEF SchemaChecks
  <2>2. \A i \in 1..2 : i = 1 \/ i = 2
    OBVIOUS
  <2> QED  BY <2>1, <2>2 DEF SchemaChecks, ToSet
<1>3. ObChecks = S \cup T
  <2> HIDE DEF S, T
  <2> QED  BY <1>1, <1>2, JoinedRange DEF ObChecks
<1> QED  BY <1>3

\* There are four stages.
LEMMA RankNat == \A id : Rank(id) \in 0..3
BY DEF Rank

\* Two ordered sequences joined are ordered when the second is of later stages.
LEMMA JoinedInOrder ==
  ASSUME NEW S, NEW p \in Seq(S), NEW q \in Seq(S), InOrder(p), InOrder(q),
         \A i \in 1..Len(p) : \A k \in 1..Len(q) : p[i] # q[k] /\ Rank(p[i]) <= Rank(q[k])
  PROVE  InOrder(p \o q)
<1> DEFINE j == p \o q
<1>1. /\ Len(j) = Len(p) + Len(q)
      /\ \A i \in 1..Len(j) : j[i] = IF i <= Len(p) THEN p[i] ELSE q[i - Len(p)]
  BY ConcatProperties
<1>2. Len(p) \in Nat /\ Len(q) \in Nat
  BY LenProperties
<1> HIDE DEF j
<1>3. SUFFICES ASSUME NEW i \in 1..Len(j), NEW k \in 1..Len(j), i < k
               PROVE  j[i] # j[k] /\ Rank(j[i]) <= Rank(j[k])
  BY DEF InOrder, j
<1>4. CASE k <= Len(p)
  <2>1. i \in 1..Len(p) /\ k \in 1..Len(p)
    BY <1>1, <1>2, <1>3, <1>4
  <2>2. j[i] = p[i] /\ j[k] = p[k]
    BY <1>1, <2>1, <1>2
  <2> QED  BY <1>3, <2>1, <2>2 DEF InOrder
<1>5. CASE ~(i <= Len(p))
  <2>1. i - Len(p) \in 1..Len(q) /\ k - Len(p) \in 1..Len(q) /\ i - Len(p) < k - Len(p)
    BY <1>1, <1>2, <1>3, <1>5
  <2>2. j[i] = q[i - Len(p)] /\ j[k] = q[k - Len(p)]
    BY <1>1, <1>2, <1>3, <1>5
  <2> QED  BY <2>1, <2>2 DEF InOrder
<1>6. CASE i <= Len(p) /\ ~(k <= Len(p))
  <2>1. i \in 1..Len(p) /\ k - Len(p) \in 1..Len(q)
    BY <1>1, <1>2, <1>6
  <2>2. j[i] = p[i] /\ j[k] = q[k - Len(p)]
    BY <1>1, <1>6
  <2> QED  BY <2>1, <2>2
<1> QED
  <2>1. k <= Len(p) \/ ~(i <= Len(p)) \/ (i <= Len(p) /\ ~(k <= Len(p)))
    OBVIOUS
  <2> QED  BY <1>4, <1>5, <1>6, <2>1

\* The Open Badges checks are the last stage.
LEMMA RankOfOb == \A id \in ObChecks : Rank(id) = 3
BY ObChecksAre DEF Rank, CoreSuite

\* The checks of the semantic suite, and those of the schema suite, are ordered.
LEMMA Semantic ==
  SemanticChecks \in Seq(ObChecks) /\ Len(SemanticChecks) = 4 /\ InOrder(SemanticChecks)
<1>1. SemanticChecks \in Seq(ObChecks) /\ Len(SemanticChecks) = 4
  BY ObChecksAre DEF SemanticChecks
<1>2. \A i \in 1..4 : SemanticChecks[i] \in ObChecks
  BY <1>1, ElementOfSeq
<1>3. \A i, j \in 1..4 : i < j => SemanticChecks[i] # SemanticChecks[j]
  BY DEF SemanticChecks
<1> QED  BY <1>1, <1>2, <1>3, RankOfOb DEF InOrder

LEMMA Schema ==
  SchemaChecks \in Seq(ObChecks) /\ Len(SchemaChecks) = 2 /\ InOrder(SchemaChecks)
<1>1. SchemaChecks \in Seq(ObChecks) /\ Len(SchemaChecks) = 2
  BY ObChecksAre DEF SchemaChecks
<1>2. \A i \in 1..2 : SchemaChecks[i] \in ObChecks
  BY <1>1, ElementOfSeq
<1>3. \A i, j \in 1..2 : i < j => SchemaChecks[i] # SchemaChecks[j]
  BY DEF SchemaChecks
<1> QED  BY <1>1, <1>2, <1>3, RankOfOb DEF InOrder

\* Whichever suite is asked for has checks of the last stage, in order.
LEMMA SuiteIs ==
  ASSUME NEW s \in {"openbadges", "openbadges.semantic", "openbadges.schema"}
  PROVE  /\ SuiteChecks(s) \in Seq(ObChecks) /\ Len(SuiteChecks(s)) > 0
         /\ InOrder(SuiteChecks(s))
<1>1. CASE s = "openbadges"
  <2>1. SuiteChecks(s) = SemanticChecks \o SchemaChecks
    BY <1>1, Zenon DEF SuiteChecks
  <2>2. InOrder(SemanticChecks \o SchemaChecks)
    <3>1. \A i \in 1..4 : \A k \in 1..2 : SemanticChecks[i] # SchemaChecks[k]
      BY DEF SemanticChecks, SchemaChecks
    <3>2. \A i \in 1..4 : Rank(SemanticChecks[i]) = 3
      BY Semantic, RankOfOb, ElementOfSeq
    <3>3. \A i \in 1..2 : Rank(SchemaChecks[i]) = 3
      BY Schema, RankOfOb, ElementOfSeq
    <3>4. \A i \in 1..Len(SemanticChecks) : \A k \in 1..Len(SchemaChecks) :
            /\ SemanticChecks[i] # SchemaChecks[k]
            /\ Rank(SemanticChecks[i]) <= Rank(SchemaChecks[k])
      BY <3>1, <3>2, <3>3, Semantic, Schema
    <3> QED  BY <3>4, Semantic, Schema, JoinedInOrder
  <2>3. /\ SemanticChecks \o SchemaChecks \in Seq(ObChecks)
        /\ Len(SemanticChecks \o SchemaChecks) = 6
    <3>1. SemanticChecks \o SchemaChecks \in Seq(ObChecks)
      BY Semantic, Schema, Joined
    <3>2. Len(SemanticChecks \o SchemaChecks) = Len(SemanticChecks) + Len(SchemaChecks)
      BY Semantic, Schema, Joined
    <3> QED  BY <3>1, <3>2, Semantic, Schema
  <2> QED  BY <2>1, <2>2, <2>3
<1>2. CASE s = "openbadges.semantic"
  <2>1. SuiteChecks(s) = SemanticChecks
    BY <1>2, Zenon DEF SuiteChecks
  <2> QED  BY <2>1, Semantic
<1>3. CASE s = "openbadges.schema"
  <2>1. SuiteChecks(s) = SchemaChecks
    BY <1>3, Zenon DEF SuiteChecks
  <2> QED  BY <2>1, Schema
<1> QED  BY <1>1, <1>2, <1>3

\* What a credential passes before its Open Badges checks begin.
Required ==
  {"core.context-exists", "core.vc-context", "core.vc-structure",
   "core.credential-id", "core.proof-exists", "recognition.profile"}

\* The checks for a kind of subject are of the stages in between, in order.
LEMMA SubjectChecksAre ==
  ASSUME NEW k \in {"verifiableCredential", "verifiablePresentation"}
  PROVE  /\ SubjectChecks(k) \in Seq(CoreSuite \cup {"recognition.profile"})
         /\ InOrder(SubjectChecks(k))
         /\ Len(SubjectChecks(k)) > 0
         /\ k = "verifiableCredential" => Required \subseteq ToSet(SubjectChecks(k))
<1> DEFINE v == <<"core.context-exists", "core.vc-context", "core.vc-structure",
           "core.credential-id", "core.proof-exists", "recognition.profile">>
           p == <<"core.vp-structure">>
<1>1. v \in Seq(CoreSuite \cup {"recognition.profile"}) /\ Len(v) = 6
  BY DEF CoreSuite
<1>2. \A i, j \in 1..6 : i < j => v[i] # v[j]
  OBVIOUS
<1>3. \A i, j \in 1..6 : i < j => v[i] \in CoreSuite
  BY DEF CoreSuite
<1>4. \A id \in CoreSuite : Rank(id) = 1
  BY DEF Rank, CoreSuite
<1>5. \A id \in CoreSuite \cup {"recognition.profile"} : Rank(id) \in 1..3
  BY <1>4 DEF Rank, CoreSuite
<1>6. \A i \in 1..6 : v[i] \in CoreSuite \cup {"recognition.profile"}
  BY DEF CoreSuite
<1>7. /\ v[1] \in ToSet(v) /\ v[2] \in ToSet(v) /\ v[3] \in ToSet(v)
      /\ v[4] \in ToSet(v) /\ v[5] \in ToSet(v) /\ v[6] \in ToSet(v)
  <2>1. DOMAIN v = 1..6
    OBVIOUS
  <2> HIDE DEF v
  <2> QED  BY <2>1 DEF ToSet
<1>8. Required \subseteq ToSet(v)
  <2>1. Required = {v[1], v[2], v[3], v[4], v[5], v[6]}
    BY DEF Required
  <2> HIDE DEF v
  <2> QED  BY <1>7, <2>1
<1>9. InOrder(v)
  <2> HIDE DEF v
  <2>1. \A i, j \in 1..6 : i < j => Rank(v[i]) <= Rank(v[j])
    BY <1>3, <1>4, <1>5, <1>6
  <2> QED  BY <1>1, <1>2, <2>1 DEF InOrder
<1>10. p \in Seq(CoreSuite \cup {"recognition.profile"}) /\ Len(p) = 1
  BY DEF CoreSuite
<1>11. InOrder(p)
  BY <1>10 DEF InOrder
<1>12. CASE k = "verifiableCredential"
  <2>1. SubjectChecks(k) = v
    BY <1>12 DEF SubjectChecks
  <2> HIDE DEF v
  <2> QED  BY <2>1, <1>1, <1>8, <1>9
<1>13. CASE k = "verifiablePresentation"
  <2>1. SubjectChecks(k) = p /\ k # "verifiableCredential"
    BY <1>13 DEF SubjectChecks
  <2> HIDE DEF p
  <2> QED  BY <2>1, <1>10, <1>11
<1> QED  BY <1>12, <1>13

\* The checks by their ids.
LEMMA CheckIdIs ==
  CheckId = {"parsing.envelope", "recognition.profile"} \cup CoreSuite \cup ObChecks
BY DEF CheckId, ObChecks

\* A call has the gate ahead of it first, then the rest in order, and for a
\* credential all that the Open Badges checks rely on.
LEMMA PlanIs ==
  ASSUME NEW c,
         c.kind \in {"verifiableCredential", "verifiablePresentation"},
         c.suite \in {"openbadges", "openbadges.semantic", "openbadges.schema"}
  PROVE  /\ Plan(c) \in Seq(CheckId)
         /\ InOrder(Plan(c))
         /\ Plan(c) # <<>> /\ Head(Plan(c)) = "parsing.envelope"
         /\ c.kind = "verifiableCredential" => Required \subseteq ToSet(Plan(c))
<1> DEFINE e == <<"parsing.envelope">>
           s == SubjectChecks(c.kind)
           o == SuiteChecks(c.suite)
<1>1. /\ s \in Seq(CoreSuite \cup {"recognition.profile"}) /\ InOrder(s)
      /\ c.kind = "verifiableCredential" => Required \subseteq ToSet(s)
  BY SubjectChecksAre
<1>2. o \in Seq(ObChecks) /\ InOrder(o)
  BY SuiteIs
<1>3. e \in Seq({"parsing.envelope"}) /\ Len(e) = 1 /\ e[1] = "parsing.envelope"
  OBVIOUS
<1>4. Plan(c) = (e \o s) \o o
  BY DEF Plan
<1> HIDE DEF e, s, o
<1>5. e \in Seq(CheckId) /\ s \in Seq(CheckId) /\ o \in Seq(CheckId)
  BY <1>1, <1>2, <1>3, CheckIdIs, SeqMonotonic
<1>6. e \o s \in Seq(CheckId) /\ Len(e \o s) = 1 + Len(s)
  BY <1>3, <1>5, Joined
<1>7. \A i \in 1..Len(s) : s[i] \in CoreSuite \cup {"recognition.profile"}
  BY <1>1, ElementOfSeq
<1>8. \A i \in 1..Len(o) : o[i] \in ObChecks
  BY <1>2, ElementOfSeq
<1>9. InOrder(e \o s)
  <2>1. InOrder(e)
    BY <1>3 DEF InOrder
  <2>2. \A i \in 1..Len(s) : s[i] # "parsing.envelope" /\ Rank("parsing.envelope") <= Rank(s[i])
    BY <1>7, RankNat DEF Rank, CoreSuite
  <2>3. \A i \in 1..Len(e) : \A k \in 1..Len(s) : e[i] # s[k] /\ Rank(e[i]) <= Rank(s[k])
    BY <2>2, <1>3
  <2> QED  BY <2>1, <2>3, <1>1, <1>5, JoinedInOrder
<1>10. \A i \in 1..Len(e \o s) : (e \o s)[i] \notin ObChecks
  <2>1. ToSet(e \o s) = ToSet(e) \cup ToSet(s)
    BY <1>5, JoinedRange
  <2>2. ToSet(e) \subseteq {"parsing.envelope"}
    BY <1>3 DEF ToSet
  <2>3. ToSet(s) \subseteq CoreSuite \cup {"recognition.profile"}
    BY <1>7, <1>5, LenProperties DEF ToSet
  <2>4. \A i \in 1..Len(e \o s) : (e \o s)[i] \in ToSet(e \o s)
    BY <1>6, LenProperties DEF ToSet
  <2> QED  BY <2>1, <2>2, <2>3, <2>4, ObChecksAre DEF CoreSuite
<1>11. InOrder((e \o s) \o o)
  <2>1. \A i \in 1..Len(e \o s) : \A k \in 1..Len(o) :
          (e \o s)[i] # o[k] /\ Rank((e \o s)[i]) <= Rank(o[k])
    <3>1. SUFFICES ASSUME NEW i \in 1..Len(e \o s), NEW k \in 1..Len(o)
                   PROVE  (e \o s)[i] # o[k] /\ Rank((e \o s)[i]) <= Rank(o[k])
      OBVIOUS
    <3>2. Rank(o[k]) = 3 /\ Rank((e \o s)[i]) \in 0..3
      BY <1>8, RankOfOb, RankNat
    <3> QED  BY <3>2, <1>8, <1>10
  <2> QED  BY <2>1, <1>2, <1>5, <1>6, <1>9, JoinedInOrder
<1>12. /\ Plan(c) \in Seq(CheckId) /\ Len(Plan(c)) = 1 + Len(s) + Len(o)
       /\ ToSet(Plan(c)) = ToSet(e \o s) \cup ToSet(o)
  <2>1. (e \o s) \o o \in Seq(CheckId)
    BY <1>5, <1>6, Joined
  <2>2. Len((e \o s) \o o) = Len(e \o s) + Len(o)
    BY <1>5, <1>6, Joined
  <2>3. ToSet((e \o s) \o o) = ToSet(e \o s) \cup ToSet(o)
    <3> DEFINE j == e \o s
    <3>1. j \in Seq(CheckId)
      BY <1>6
    <3> HIDE DEF j
    <3>2. ToSet(j \o o) = ToSet(j) \cup ToSet(o)
      BY <3>1, <1>5, JoinedRange
    <3> QED  BY <3>2 DEF j
  <2> QED  BY <1>4, <1>6, <2>1, <2>2, <2>3
<1>13. Plan(c)[1] = "parsing.envelope"
  <2>1. (e \o s)[1] = e[1]
    <3>1. 1 \in 1..Len(e)
      BY <1>3
    <3> QED  BY <3>1, <1>5, JoinedLeft
  <2>2. 1 \in 1..Len(e \o s)
    BY <1>5, <1>6, LenProperties
  <2>3. ((e \o s) \o o)[1] = (e \o s)[1]
    BY <2>2, <1>5, <1>6, JoinedLeft
  <2> QED  BY <2>1, <2>3, <1>3, <1>4
<1>14. Plan(c) # <<>> /\ Head(Plan(c)) = "parsing.envelope"
  BY <1>12, <1>13, <1>5, LenProperties
<1>15. c.kind = "verifiableCredential" => Required \subseteq ToSet(Plan(c))
  BY <1>1, <1>5, <1>12, JoinedRange
<1> QED  BY <1>4, <1>11, <1>12, <1>14, <1>15

\* What is left after the first check: all the others, still in order.
LEMMA TailIs ==
  ASSUME NEW S, NEW q \in Seq(S), q # <<>>, InOrder(q)
  PROVE  /\ Tail(q) \in Seq(S) /\ InOrder(Tail(q))
         /\ Head(q) \in S /\ Head(q) \in ToSet(q)
         /\ Head(q) \notin ToSet(Tail(q))
         /\ ToSet(q) = {Head(q)} \cup ToSet(Tail(q))
         /\ \A x \in ToSet(q) : x \in S /\ Rank(Head(q)) <= Rank(x)
<1>1. /\ Len(q) \in Nat \ {0} /\ DOMAIN q = 1..Len(q) /\ \A i \in 1..Len(q) : q[i] \in S
      /\ Head(q) = q[1]
  BY LenProperties, ElementOfSeq, EmptySeq, HeadTailProperties
<1> DEFINE t == Tail(q)
<1>2. /\ t \in Seq(S) /\ Len(t) = Len(q) - 1 /\ DOMAIN t = 1..Len(t)
      /\ \A i \in 1..Len(t) : t[i] = q[i + 1]
  BY HeadTailProperties, LenProperties
<1> HIDE DEF t
<1>3. InOrder(t)
  <2>1. ASSUME NEW i \in 1..Len(t), NEW j \in 1..Len(t), i < j
        PROVE  t[i] # t[j] /\ Rank(t[i]) <= Rank(t[j])
    <3>1. i + 1 \in 1..Len(q) /\ j + 1 \in 1..Len(q) /\ i + 1 < j + 1
      BY <1>1, <1>2, <2>1
    <3>2. t[i] = q[i + 1] /\ t[j] = q[j + 1]
      BY <1>2
    <3> QED  BY <3>1, <3>2 DEF InOrder
  <2> QED  BY <2>1 DEF InOrder
<1>4. \A i \in 1..Len(t) : t[i] # q[1]
  <2>1. ASSUME NEW i \in 1..Len(t) PROVE t[i] # q[1]
    <3>1. 1 \in 1..Len(q) /\ i + 1 \in 1..Len(q) /\ 1 < i + 1
      BY <1>1, <1>2
    <3> QED  BY <3>1, <1>2 DEF InOrder
  <2> QED  BY <2>1
<1>5. ToSet(q) \subseteq {q[1]} \cup ToSet(t)
  <2>1. ASSUME NEW i \in 1..Len(q), i # 1 PROVE q[i] \in ToSet(t)
    <3>1. i - 1 \in 1..Len(t) /\ (i - 1) + 1 = i
      BY <1>1, <1>2, <2>1
    <3>2. t[i - 1] = q[i]
      BY <1>2, <3>1
    <3> QED  BY <1>2, <3>1, <3>2 DEF ToSet
  <2> QED  BY <2>1, <1>1 DEF ToSet
<1>6. ToSet(t) \subseteq ToSet(q)
  <2>1. ASSUME NEW i \in 1..Len(t) PROVE t[i] \in ToSet(q)
    <3>1. i + 1 \in 1..Len(q) /\ t[i] = q[i + 1]
      BY <1>1, <1>2
    <3> QED  BY <1>1, <3>1 DEF ToSet
  <2> QED  BY <2>1, <1>2 DEF ToSet
<1>7. q[1] \in ToSet(q) /\ q[1] \in S
  BY <1>1 DEF ToSet
<1>8. ASSUME NEW x \in ToSet(q) PROVE x \in S /\ Rank(q[1]) <= Rank(x)
  <2>1. PICK i \in 1..Len(q) : q[i] = x
    BY <1>1 DEF ToSet
  <2>2. CASE i = 1
    BY <2>1, <2>2, <1>1, RankNat
  <2>3. CASE i # 1
    <3>1. 1 \in 1..Len(q) /\ 1 < i
      BY <1>1, <2>3
    <3> QED  BY <3>1, <2>1, <1>1 DEF InOrder
  <2> QED  BY <2>2, <2>3
<1>9. q[1] \notin ToSet(t)
  BY <1>2, <1>4 DEF ToSet
<1> QED  BY <1>1, <1>2, <1>3, <1>5, <1>6, <1>7, <1>8, <1>9 DEF t

-----------------------------------------------------------------------------
(* The invariant.  The Open Badges checks rely on what the core checks saw, so   *)
(* it says that a credential whose Open Badges checks have begun passed every    *)
(* core check; for that it keeps the checks ahead in order and complete, and     *)
(* relates every row to what the document makes of its check.                    *)

\* The gate was passed: a check after it is next, or has run.
Entered ==
  \/ pending # <<>> /\ Head(pending) # "parsing.envelope"
  \/ \E id \in DOMAIN report : id # "parsing.envelope"

\* None of the checks a credential needs is left out.
Whole ==
  IsCredential /\ pending # <<>> =>
    \A id \in Required : id \in ToSet(pending) \/ id \in DOMAIN report

\* Once an Open Badges check has run, the core checks all succeeded, and
\* recognition is settled.
Judged ==
  IsCredential /\ (\E id \in ObChecks : id \in DOMAIN report) =>
    \A id \in Required :
      id \in DOMAIN report /\ (id \in CoreSuite => report[id] = "success")

\* A row says what the document makes of its check.
CoreReported ==
  \A id \in CoreSuite : id \in DOMAIN report => report[id] = coreStatus(id)

\* The same of the Open Badges checks, which run only where their suite applies.
ObReported ==
  \A id \in ObChecks :
    id \in DOMAIN report => report[id] = obStatus(id) /\ SuiteApplies(call.suite)

\* The recognizers that apply to the document, by their positions.
Applying == {i \in DOMAIN call.recognizers : RecognizerApplies(call.recognizers[i])}

\* The profile and the row of recognition agree, and with what the first
\* recognizer that applies makes of the document.
Recognized ==
  \/ /\ "recognition.profile" \notin DOMAIN report
     /\ profile = "none"
  \/ /\ "recognition.profile" \in DOMAIN report
     /\ \/ /\ Applying = {}
           /\ report["recognition.profile"] = "skipped" /\ profile = "none"
        \/ \E i \in First(Applying) :
             /\ parse(call.recognizers[i])
             /\ report["recognition.profile"] = "success" /\ profile = call.recognizers[i]
        \/ \E i \in First(Applying) :
             /\ ~parse(call.recognizers[i])
             /\ report["recognition.profile"] = "failure" /\ profile = "none"

\* A check that ran has one of three outcomes.
Outcomes == \A id \in DOMAIN report : report[id] \in {"success", "failure", "skipped"}

\* Nothing follows the first failure of the core suite.
Halted ==
  (\E id \in CoreSuite \cup {"parsing.envelope"} :
     id \in DOMAIN report /\ report[id] = "failure") => pending = <<>>

\* The checks ahead are in order, and none of them has run.
Ahead ==
  /\ pending \in Seq(CheckId) /\ InOrder(pending)
  /\ ToSet(pending) \cap DOMAIN report = {}

\* The inductive invariant.
IInv ==
  /\ call \in Calls
  /\ Ahead
  /\ Outcomes
  /\ Halted
  /\ Entered => parses
  /\ Whole
  /\ Judged
  /\ CoreReported
  /\ ObReported
  /\ Recognized

\* A call that halts has no check ahead.
LEMMA NoneLeft == ToSet(<<>>) = {}
BY DEF ToSet

LEMMA EmptyAhead == <<>> \in Seq(CheckId) /\ InOrder(<<>>)
BY DEF InOrder

\* The stages do not share a check.
LEMMA NamesApart ==
  /\ "parsing.envelope" \notin CoreSuite \cup ObChecks \cup {"recognition.profile"}
  /\ CoreSuite \cap (ObChecks \cup {"recognition.profile"}) = {}
  /\ "recognition.profile" \notin ObChecks
  /\ Required \subseteq CoreSuite \cup {"recognition.profile"}
BY ObChecksAre DEF CoreSuite, Required

\* A call is of one of the two kinds, on a document that came from JSON.
LEMMA CallIs ==
  ASSUME call \in Calls
  PROVE  /\ call.kind \in {"verifiableCredential", "verifiablePresentation"}
         /\ IsJsonDocument(call.document)
         /\ call.recognizers \in Seq(Recognizers)
         /\ call.suite \in {"openbadges", "openbadges.semantic", "openbadges.schema"}
BY CallsAssumption

\* A call begins with everything ahead of it and nothing reported.
LEMMA InitIInv == Init => IInv
<1> SUFFICES ASSUME Init PROVE IInv
  OBVIOUS
<1>1. call \in Calls /\ pending = Plan(call) /\ report = <<>> /\ profile = "none"
  BY DEF Init
<1>2. DOMAIN report = {}
  BY <1>1
<1>3. /\ pending \in Seq(CheckId) /\ InOrder(pending)
      /\ pending # <<>> /\ Head(pending) = "parsing.envelope"
      /\ call.kind = "verifiableCredential" => Required \subseteq ToSet(pending)
  BY <1>1, CallIs, PlanIs
<1>4. Ahead
  BY <1>2, <1>3 DEF Ahead
<1>5. Outcomes /\ Halted /\ ~Entered
  BY <1>2, <1>3 DEF Outcomes, Halted, Entered
<1>6. Whole
  BY <1>3 DEF Whole, IsCredential
<1>7. Judged /\ CoreReported /\ ObReported /\ Recognized
  BY <1>1, <1>2 DEF Judged, CoreReported, ObReported, Recognized
<1> QED  BY <1>1, <1>4, <1>5, <1>6, <1>7 DEF IInv

\* What a document is judged by stays what it is.
LEMMA SameCall ==
  ASSUME call' = call
  PROVE  /\ IsCredential' = IsCredential /\ parses' = parses
         /\ \A s : SuiteApplies(s)' = SuiteApplies(s)
         /\ Applying' = Applying
<1>1. document' = document /\ IsCredential' = IsCredential
  BY DEF document, IsCredential
<1>2. parses' = parses
  BY <1>1 DEF parses
<1>3. \A s : SuiteApplies(s)' = SuiteApplies(s)
  BY <1>1 DEF SuiteApplies
<1>4. Applying' = Applying
  BY <1>1 DEF Applying, RecognizerApplies
<1> QED  BY <1>1, <1>2, <1>3, <1>4

\* So do the outcomes of the checks, which read nothing else.
LEMMA SameCore ==
  ASSUME call' = call, NEW id
  PROVE  coreStatus(id)' = coreStatus(id)
<1>1. document' = document
  BY DEF document
<1> QED  BY <1>1, Zenon DEF coreStatus

LEMMA SameOb ==
  ASSUME call' = call, NEW id
  PROVE  obStatus(id)' = obStatus(id)
<1>1. document' = document
  BY DEF document
<1> QED  BY <1>1, Zenon DEF obStatus

\* The outcome of a core check is a success or a failure.
LEMMA CoreStatusIs ==
  ASSUME NEW id \in CoreSuite
  PROVE  coreStatus(id) \in {"success", "failure"}
<1>1. \A b : Verdict(b) \in {"success", "failure"}
  BY DEF Verdict
<1>2. ASSUME id = "core.context-exists" PROVE coreStatus(id) = Verdict(contextCheck(document))
  BY <1>2, Zenon DEF coreStatus
<1>3. ASSUME id = "core.vc-context" PROVE coreStatus(id) = Verdict(vcContextCheck(document))
  BY <1>3, Zenon DEF coreStatus
<1>4. ASSUME id = "core.vc-structure" PROVE coreStatus(id) = Verdict(vcStructureCheck(document))
  BY <1>4, Zenon DEF coreStatus
<1>5. ASSUME id = "core.vp-structure" PROVE coreStatus(id) = Verdict(vpStructureCheck(document))
  BY <1>5, Zenon DEF coreStatus
<1>6. ASSUME id = "core.credential-id" PROVE coreStatus(id) = Verdict(credentialIdCheck(document))
  BY <1>6, Zenon DEF coreStatus
<1>7. ASSUME id = "core.proof-exists" PROVE coreStatus(id) = Verdict(proofExistsCheck(document))
  BY <1>7, Zenon DEF coreStatus
<1> QED  BY <1>1, <1>2, <1>3, <1>4, <1>5, <1>6, <1>7 DEF CoreSuite

\* The outcome of an Open Badges check is that of its function.
LEMMA ObStatusOf ==
  /\ obStatus("schema.obv3.result-ref") = obv3ResultRefCheck(document)
  /\ obStatus("schema.obv3.achieved-level") = obv3AchievedLevelCheck(document)
  /\ obStatus("schema.obv3.missing-result-status") = obv3MissingResultStatusCheck(document)
  /\ obStatus("schema.obv3.unknown-achievement-type") = obv3UnknownAchievementTypeCheck(document)
  /\ obStatus("schema.obv3.json") = obv3SchemaCheck(document)
  /\ obStatus("schema.obv3.declared") = obv3DeclaredSchemaCheck(document)
<1>1. obStatus("schema.obv3.result-ref") = obv3ResultRefCheck(document)
  BY Zenon DEF obStatus
<1>2. obStatus("schema.obv3.achieved-level") = obv3AchievedLevelCheck(document)
  BY Zenon DEF obStatus
<1>3. obStatus("schema.obv3.missing-result-status") = obv3MissingResultStatusCheck(document)
  BY Zenon DEF obStatus
<1>4. obStatus("schema.obv3.unknown-achievement-type") = obv3UnknownAchievementTypeCheck(document)
  BY Zenon DEF obStatus
<1>5. obStatus("schema.obv3.json") = obv3SchemaCheck(document)
  BY Zenon DEF obStatus
<1>6. obStatus("schema.obv3.declared") = obv3DeclaredSchemaCheck(document)
  BY Zenon DEF obStatus
<1> QED  BY <1>1, <1>2, <1>3, <1>4, <1>5, <1>6

\* It is a success or a failure.
LEMMA ObStatusIs ==
  ASSUME NEW id \in ObChecks
  PROVE  obStatus(id) \in {"success", "failure", "skipped"}
<1>1. \A b : Verdict(b) \in {"success", "failure"}
  BY DEF Verdict
<1>2. obv3ResultRefCheck(document) \in {"success", "failure", "skipped"}
  BY Zenon DEF obv3ResultRefCheck, Verdict
<1>3. obv3AchievedLevelCheck(document) \in {"success", "failure", "skipped"}
  BY Zenon DEF obv3AchievedLevelCheck, Verdict
<1>4. obv3MissingResultStatusCheck(document) \in {"success", "failure", "skipped"}
  BY <1>1 DEF obv3MissingResultStatusCheck
<1>5. obv3UnknownAchievementTypeCheck(document) \in {"success", "failure", "skipped"}
  BY <1>1 DEF obv3UnknownAchievementTypeCheck
<1>6. obv3SchemaCheck(document) \in {"success", "failure", "skipped"}
  BY <1>1 DEF obv3SchemaCheck
<1>7. obv3DeclaredSchemaCheck(document) \in {"success", "failure", "skipped"}
  BY Zenon DEF obv3DeclaredSchemaCheck, Verdict
<1> QED  BY <1>2, <1>3, <1>4, <1>5, <1>6, <1>7, ObStatusOf, ObChecksAre

\* The outcome of the structure check, which the schemas and the parser build on.
LEMMA CoreStatusOf == coreStatus("core.vc-structure") = Verdict(vcStructureCheck(document))
BY Zenon DEF coreStatus

\* One check reports: its row is new, and it is ahead no longer.
Reports(id, status) ==
  /\ pending # <<>> /\ id = Head(pending)
  /\ Report(id, status)
  /\ call' = call

\* A step that reports adds one row, and takes one check away or all of them.
LEMMA ReportIs ==
  ASSUME Ahead, NEW id, NEW st, Reports(id, st)
  PROVE  /\ id \in CheckId /\ id \in ToSet(pending) /\ id \notin DOMAIN report
         /\ DOMAIN report' = DOMAIN report \cup {id} /\ report'[id] = st
         /\ \A n \in DOMAIN report : report'[n] = report[n]
         /\ \A n \in ToSet(pending) : Rank(id) <= Rank(n)
         /\ Ahead'
         /\ pending' # <<>> => ToSet(pending) = {id} \cup ToSet(pending')
         /\ st = "failure" /\ id \in CoreSuite => pending' = <<>>
<1>1. /\ pending \in Seq(CheckId) /\ InOrder(pending) /\ pending # <<>>
      /\ ToSet(pending) \cap DOMAIN report = {} /\ id = Head(pending)
      /\ report' = report ++ Members({id}, st)
      /\ pending' = IF Halts(id, st) THEN <<>> ELSE Tail(pending)
  BY DEF Ahead, Reports, Report
<1> DEFINE t == Tail(pending)
<1>2. /\ t \in Seq(CheckId) /\ InOrder(t)
      /\ id \in CheckId /\ id \in ToSet(pending) /\ id \notin ToSet(t)
      /\ ToSet(pending) = {id} \cup ToSet(t)
      /\ \A n \in ToSet(pending) : Rank(id) <= Rank(n)
  BY <1>1, TailIs
<1> HIDE DEF t
<1>3. id \notin DOMAIN report
  BY <1>1, <1>2
<1>4. /\ DOMAIN report' = DOMAIN report \cup {id} /\ report'[id] = st
      /\ \A n \in DOMAIN report : report'[n] = report[n]
  BY <1>1, <1>3 DEF ++, Members
<1>5. CASE Halts(id, st)
  <2>1. pending' = <<>>
    BY <1>1, <1>5
  <2> QED  BY <2>1, <1>2, <1>3, <1>4, NoneLeft, EmptyAhead DEF Ahead
<1>6. CASE ~Halts(id, st)
  <2>1. pending' = t
    BY <1>1, <1>6 DEF t
  <2>2. Ahead'
    BY <2>1, <1>1, <1>2, <1>4 DEF Ahead
  <2> QED  BY <2>1, <2>2, <1>2, <1>3, <1>4, <1>6 DEF Halts
<1> QED  BY <1>5, <1>6

\* It keeps what the invariant says of the checks ahead and of their rows.
LEMMA ReportKeeps ==
  ASSUME IInv, NEW id \in CheckId \ {"parsing.envelope"},
         NEW st \in {"success", "failure", "skipped"}, Reports(id, st)
  PROVE  /\ call' \in Calls /\ Ahead' /\ Outcomes' /\ Halted'
         /\ parses' /\ Whole'
<1>1. /\ call \in Calls /\ Ahead /\ Outcomes /\ Halted /\ (Entered => parses) /\ Whole
      /\ call' = call /\ pending # <<>> /\ id = Head(pending)
  BY DEF IInv, Reports
<1>2. /\ DOMAIN report' = DOMAIN report \cup {id} /\ report'[id] = st
      /\ \A n \in DOMAIN report : report'[n] = report[n]
      /\ Ahead'
      /\ pending' # <<>> => ToSet(pending) = {id} \cup ToSet(pending')
      /\ st = "failure" /\ id \in CoreSuite => pending' = <<>>
  BY <1>1, ReportIs
<1>3. Outcomes'
  BY <1>1, <1>2 DEF Outcomes
<1>4. Halted'
  BY <1>1, <1>2 DEF Halted
<1>5. parses'
  BY <1>1, SameCall DEF Entered
<1>6. Whole'
  BY <1>1, <1>2, SameCall DEF Whole
<1> QED  BY <1>1, <1>2, <1>3, <1>4, <1>5, <1>6

\* The rows of other checks stay what they are.
LEMMA OldRows ==
  ASSUME IInv, NEW id, NEW st, Reports(id, st)
  PROVE  /\ id \notin CoreSuite \/ st = coreStatus(id) => CoreReported'
         /\ id \notin ObChecks \/ (st = obStatus(id) /\ SuiteApplies(call.suite)) => ObReported'
         /\ id \notin ObChecks => Judged'
         /\ id # "recognition.profile" /\ profile' = profile => Recognized'
<1>1. /\ Ahead /\ CoreReported /\ ObReported /\ Judged /\ Recognized /\ call' = call
  BY DEF IInv, Reports
<1>2. /\ DOMAIN report' = DOMAIN report \cup {id} /\ report'[id] = st
      /\ \A n \in DOMAIN report : report'[n] = report[n]
  BY <1>1, ReportIs
<1>3. ASSUME id \notin CoreSuite \/ st = coreStatus(id) PROVE CoreReported'
  <2>1. \A n \in CoreSuite : coreStatus(n)' = coreStatus(n)
    BY <1>1, SameCore
  <2> QED  BY <1>1, <1>2, <1>3, <2>1 DEF CoreReported
<1>4. ASSUME id \notin ObChecks \/ (st = obStatus(id) /\ SuiteApplies(call.suite)) PROVE ObReported'
  <2>1. \A n \in ObChecks : obStatus(n)' = obStatus(n)
    BY <1>1, SameOb
  <2>2. SuiteApplies(call.suite)' = SuiteApplies(call.suite)
    BY <1>1, SameCall
  <2> QED  BY <1>1, <1>2, <1>4, <2>1, <2>2 DEF ObReported
<1>5. ASSUME id \notin ObChecks PROVE Judged'
  BY <1>1, <1>2, <1>5, SameCall DEF Judged
<1>6. ASSUME id # "recognition.profile", profile' = profile PROVE Recognized'
  <2>1. Applying' = Applying
    BY <1>1, SameCall
  <2>2. \A r : parse(r)' = parse(r)
    BY <1>1 DEF parse, document
  <2>3. /\ "recognition.profile" \in DOMAIN report' <=> "recognition.profile" \in DOMAIN report
        /\ "recognition.profile" \in DOMAIN report =>
             report'["recognition.profile"] = report["recognition.profile"]
    BY <1>2, <1>6
  <2> QED  BY <1>1, <1>6, <2>1, <2>2, <2>3 DEF Recognized
<1> QED  BY <1>3, <1>4, <1>5, <1>6

\* Each step keeps the invariant: a core check, which halts the call when it fails;
LEMMA CoreIInv == IInv /\ Core => IInv'
<1> SUFFICES ASSUME IInv, Core PROVE IInv'
  OBVIOUS
<1> DEFINE id == Head(pending)
           st == coreStatus(id)
<1>1. Reports(id, st) /\ id \in CoreSuite /\ profile' = profile
  BY DEF Core, Reports
<1>2. /\ st \in {"success", "failure", "skipped"}
      /\ id \in CheckId \ {"parsing.envelope"} /\ id \notin ObChecks /\ id # "recognition.profile"
  BY <1>1, CoreStatusIs, NamesApart, CheckIdIs
<1> HIDE DEF id
<1>3. /\ call' \in Calls /\ Ahead' /\ Outcomes' /\ Halted' /\ parses' /\ Whole'
  BY <1>1, <1>2, ReportKeeps
<1>4. CoreReported' /\ ObReported' /\ Judged' /\ Recognized'
  BY <1>1, <1>2, OldRows
<1> QED  BY <1>3, <1>4 DEF IInv

\* recognition, which decides by the first recognizer that applies;
LEMMA RecognizeIInv == IInv /\ Recognize => IInv'
<1> SUFFICES ASSUME IInv, Recognize PROVE IInv'
  OBVIOUS
<1> DEFINE id == "recognition.profile"
<1>1. PICK st \in {"success", "failure", "skipped"} :
        /\ Reports(id, st) 
        /\ \/ Applying = {} /\ st = "skipped" /\ profile' = profile
           \/ \E i \in First(Applying) :
                parse(call.recognizers[i]) /\ st = "success" /\ profile' = call.recognizers[i]
           \/ \E i \in First(Applying) :
                ~parse(call.recognizers[i]) /\ st = "failure" /\ profile' = profile
  BY DEF Recognize, Reports, Applying
<1>2. id \in CheckId \ {"parsing.envelope"} /\ id \notin ObChecks \cup CoreSuite
  BY NamesApart, CheckIdIs
<1> HIDE DEF id
<1>3. /\ call' \in Calls /\ Ahead' /\ Outcomes' /\ Halted' /\ parses' /\ Whole'
  BY <1>1, <1>2, ReportKeeps
<1>4. CoreReported' /\ ObReported' /\ Judged'
  BY <1>1, <1>2, OldRows
<1>5. Ahead /\ Recognized /\ call' = call
  BY <1>1 DEF IInv, Reports
<1>6. id \notin DOMAIN report /\ id \in DOMAIN report' /\ report'[id] = st
  <2>1. Reports(id, st) /\ Ahead
    BY <1>1, <1>5
  <2>2. id \notin DOMAIN report /\ DOMAIN report' = DOMAIN report \cup {id}
    BY <2>1, ReportIs
  <2>3. report'[id] = st
    BY <2>1, ReportIs
  <2> QED  BY <2>2, <2>3
<1>7. profile = "none"
  BY <1>5, <1>6 DEF Recognized, id
<1>8. Applying' = Applying
  BY <1>5, SameCall
<1>9. \A r : parse(r)' = parse(r)
  BY <1>5 DEF parse, document
<1>10. Recognized'
  BY <1>1, <1>5, <1>6, <1>7, <1>8, <1>9 DEF Recognized, id
<1> QED  BY <1>3, <1>4, <1>10 DEF IInv

\* a check of the Open Badges suite, which comes after all the others;
LEMMA OpenBadgesIInv == IInv /\ OpenBadges => IInv'
<1> SUFFICES ASSUME IInv, OpenBadges PROVE IInv'
  OBVIOUS
<1> DEFINE id == Head(pending)
           st == obStatus(id)
<1>1. /\ Reports(id, st) /\ id \in ObChecks /\ profile' = profile
      /\ SuiteApplies(call.suite)
  BY DEF OpenBadges, Reports, ObChecks
<1>2. /\ st \in {"success", "failure", "skipped"}
      /\ id \in CheckId \ {"parsing.envelope"} /\ id \notin CoreSuite /\ id # "recognition.profile"
  BY <1>1, ObStatusIs, NamesApart, CheckIdIs
<1> HIDE DEF id
<1>3. /\ call' \in Calls /\ Ahead' /\ Outcomes' /\ Halted' /\ parses' /\ Whole'
  BY <1>1, <1>2, ReportKeeps
<1>4. CoreReported' /\ ObReported' /\ Recognized'
  BY <1>1, <1>2, OldRows
<1>5. Judged'
  <2>1. /\ Ahead /\ Halted /\ Whole /\ CoreReported /\ pending # <<>> /\ call' = call
    BY <1>1 DEF IInv, Reports
  <2>2. /\ DOMAIN report' = DOMAIN report \cup {id}
        /\ \A n \in DOMAIN report : report'[n] = report[n]
        /\ \A n \in ToSet(pending) : Rank(id) <= Rank(n)
    BY <1>1, <2>1, ReportIs
  <2>3. Rank(id) = 3
    BY <1>1, RankOfOb
  <2>4. \A n \in Required : Rank(n) \in 0..2
    BY NamesApart DEF Rank
  <2>5. \A n \in Required : n \notin ToSet(pending)
    BY <2>2, <2>3, <2>4
  <2>6. IsCredential => \A n \in Required : n \in DOMAIN report
    BY <2>1, <2>5 DEF Whole
  <2>7. \A n \in CoreSuite : n \in DOMAIN report => report[n] = "success"
    BY <2>1, CoreStatusIs DEF CoreReported, Halted
  <2> QED  BY <2>1, <2>2, <2>6, <2>7, SameCall DEF Judged
<1> QED  BY <1>3, <1>4, <1>5 DEF IInv

\* the gate, which leaves nothing ahead when it refuses the document;
LEMMA GateIInv == IInv /\ Gate => IInv'
<1> SUFFICES ASSUME IInv, Gate PROVE IInv'
  OBVIOUS
<1>1. /\ call' = call /\ profile' = profile
      /\ pending # <<>> /\ Head(pending) = "parsing.envelope"
      /\ call \in Calls /\ Ahead /\ Outcomes /\ Halted /\ (Entered => parses) /\ Whole
      /\ Judged /\ CoreReported /\ ObReported /\ Recognized
  BY DEF IInv, Gate
<1>2. CASE parses /\ pending' = Tail(pending) /\ report' = report
  <2> DEFINE t == Tail(pending)
  <2>1. /\ t \in Seq(CheckId) /\ InOrder(t)
        /\ ToSet(pending) = {"parsing.envelope"} \cup ToSet(t)
        /\ Head(pending) \in ToSet(pending)
    BY <1>1, TailIs DEF Ahead
  <2>2. pending' = t
    BY <1>2
  <2> HIDE DEF t
  <2>3. Ahead'
    BY <1>1, <1>2, <2>1, <2>2 DEF Ahead
  <2>4. Outcomes' /\ parses'
    BY <1>1, <1>2, SameCall DEF Outcomes
  <2>5. Halted'
    BY <1>1, <1>2 DEF Halted
  <2>6. Whole'
    BY <1>1, <1>2, <2>1, <2>2, SameCall, NamesApart DEF Whole
  <2>7. Judged'
    BY <1>1, <1>2, SameCall DEF Judged
  <2>8. CoreReported' /\ ObReported'
    <3>1. \A n \in CoreSuite : coreStatus(n)' = coreStatus(n)
      BY <1>1, SameCore
    <3>2. \A n \in ObChecks : obStatus(n)' = obStatus(n)
      BY <1>1, SameOb
    <3>3. SuiteApplies(call.suite)' = SuiteApplies(call.suite)
      BY <1>1, SameCall
    <3>4. CoreReported'
      BY <1>1, <1>2, <3>1 DEF CoreReported
    <3>5. ObReported'
      BY <1>1, <1>2, <3>2, <3>3 DEF ObReported
    <3> QED  BY <3>4, <3>5
  <2>9. Recognized'
    <3>1. Applying' = Applying
      BY <1>1, SameCall
    <3>2. \A r : parse(r)' = parse(r)
      BY <1>1 DEF parse, document
    <3> QED  BY <1>1, <1>2, <3>1, <3>2 DEF Recognized
  <2> QED  BY <1>1, <2>3, <2>4, <2>5, <2>6, <2>7, <2>8, <2>9 DEF IInv
<1>3. CASE /\ ~parses /\ pending' = <<>>
           /\ report' = report ++ Members({"parsing.envelope"}, "failure")
  <2>1. ~Entered
    BY <1>1, <1>3
  <2>2. \A id \in DOMAIN report : id = "parsing.envelope"
    BY <2>1 DEF Entered
  <2>3. Head(pending) \in ToSet(pending)
    BY <1>1, TailIs DEF Ahead
  <2>4. DOMAIN report = {}
    BY <1>1, <2>2, <2>3 DEF Ahead
  <2>5. DOMAIN report' = {"parsing.envelope"} /\ report'["parsing.envelope"] = "failure"
    BY <1>3, <2>4 DEF ++, Members
  <2>6. Ahead'
    BY <1>3, EmptyAhead, NoneLeft DEF Ahead
  <2>7. Outcomes' /\ Halted' /\ ~Entered' /\ Whole'
    BY <1>3, <2>5 DEF Outcomes, Halted, Entered, Whole
  <2>8. Judged' /\ CoreReported' /\ ObReported'
    BY <2>5, NamesApart DEF Judged, CoreReported, ObReported
  <2>9. Recognized'
    <3>1. profile = "none"
      BY <1>1, <2>4 DEF Recognized
    <3> QED  BY <1>1, <2>5, <3>1 DEF Recognized
  <2> QED  BY <1>1, <2>6, <2>7, <2>8, <2>9 DEF IInv
<1> QED  BY <1>2, <1>3 DEF Gate

LEMMA AppliesIdIs ==
  ASSUME NEW s \in {"openbadges", "openbadges.semantic", "openbadges.schema"}
  PROVE  appliesId(s) \notin CheckId
<1>1. CASE s = "openbadges"
  <2>1. appliesId(s) = "openbadges.applies"
    BY <1>1, Zenon DEF appliesId
  <2> QED  BY <2>1, CheckIdIs, ObChecksAre DEF CoreSuite
<1>2. CASE s = "openbadges.semantic"
  <2>1. appliesId(s) = "openbadges.semantic.applies"
    BY <1>2, Zenon DEF appliesId
  <2> QED  BY <2>1, CheckIdIs, ObChecksAre DEF CoreSuite
<1>3. CASE s = "openbadges.schema"
  <2>1. appliesId(s) = "openbadges.schema.applies"
    BY <1>3, Zenon DEF appliesId
  <2> QED  BY <2>1, CheckIdIs, ObChecksAre DEF CoreSuite
<1> QED  BY <1>1, <1>2, <1>3

\* the row of a suite that does not apply, which is no check;
LEMMA DeclineIInv == IInv /\ Decline => IInv'
<1> SUFFICES ASSUME IInv, Decline PROVE IInv'
  OBVIOUS
<1> DEFINE id == appliesId(call.suite)
<1>1. /\ call' = call /\ profile' = profile
      /\ pending = SuiteChecks(call.suite) /\ pending' = <<>>
      /\ report' = report ++ Members({id}, "skipped")
      /\ call \in Calls /\ Ahead /\ Outcomes /\ Halted /\ (Entered => parses)
      /\ Judged /\ CoreReported /\ ObReported /\ Recognized
  BY DEF IInv, Decline
<1>2. id \notin CheckId
  BY <1>1, CallIs, AppliesIdIs
<1> HIDE DEF id
<1>3. /\ DOMAIN report' = DOMAIN report \cup {id}
      /\ \A n \in DOMAIN report : n # id => report'[n] = report[n]
      /\ report'[id] \in {"skipped", report[id]}
      /\ id \notin DOMAIN report => report'[id] = "skipped"
  BY <1>1 DEF ++, Members
<1>4. Ahead'
  BY <1>1, EmptyAhead, NoneLeft DEF Ahead
<1>5. Outcomes'
  BY <1>1, <1>3 DEF Outcomes
<1>6. Halted' /\ Whole'
  BY <1>1 DEF Halted, Whole
<1>7. parses'
  <2>1. /\ SuiteChecks(call.suite) \in Seq(ObChecks)
        /\ Len(SuiteChecks(call.suite)) > 0 /\ InOrder(SuiteChecks(call.suite))
    BY <1>1, CallIs, SuiteIs
  <2>2. pending # <<>>
    BY <1>1, <2>1
  <2>3. Head(pending) \in ObChecks
    BY <1>1, <2>1, <2>2, TailIs
  <2> QED  BY <1>1, <2>2, <2>3, NamesApart, SameCall DEF Entered
<1>8. \A n \in CheckId : /\ n \in DOMAIN report' <=> n \in DOMAIN report
                         /\ n \in DOMAIN report => report'[n] = report[n]
  BY <1>2, <1>3
<1>9. CoreSuite \subseteq CheckId /\ ObChecks \subseteq CheckId /\ Required \subseteq CheckId
      /\ "recognition.profile" \in CheckId
  BY CheckIdIs, NamesApart
<1>10. Judged'
  <2>1. IsCredential' = IsCredential
    BY <1>1, SameCall
  <2> QED  BY <1>1, <1>8, <1>9, <2>1 DEF Judged
<1>11. CoreReported'
  <2>1. \A n \in CoreSuite : coreStatus(n)' = coreStatus(n)
    BY <1>1, SameCore
  <2> QED  BY <1>1, <1>8, <1>9, <2>1 DEF CoreReported
<1>12. ObReported'
  <2>1. \A n \in ObChecks : obStatus(n)' = obStatus(n)
    BY <1>1, SameOb
  <2>2. SuiteApplies(call.suite)' = SuiteApplies(call.suite)
    BY <1>1, SameCall
  <2> QED  BY <1>1, <1>8, <1>9, <2>1, <2>2 DEF ObReported
<1>13. Recognized'
  <2>1. Applying' = Applying
    BY <1>1, SameCall
  <2>2. \A r : parse(r)' = parse(r)
    BY <1>1 DEF parse, document
  <2> QED  BY <1>1, <1>8, <1>9, <2>1, <2>2 DEF Recognized
<1> QED  BY <1>1, <1>4, <1>5, <1>6, <1>7, <1>10, <1>11, <1>12, <1>13 DEF IInv

\* and a step of nothing.
LEMMA StutterIInv == IInv /\ UNCHANGED vars => IInv'
<1> SUFFICES ASSUME IInv, UNCHANGED vars PROVE IInv'
  OBVIOUS
<1>1. call' = call /\ pending' = pending /\ report' = report /\ profile' = profile
  BY DEF vars
<1>2. /\ call \in Calls /\ Ahead /\ Outcomes /\ Halted /\ (Entered => parses)
      /\ Whole /\ Judged /\ CoreReported /\ ObReported /\ Recognized
  BY DEF IInv
<1>3. Ahead' /\ Outcomes' /\ Halted'
  BY <1>1, <1>2 DEF Ahead, Outcomes, Halted
<1>4. (Entered => parses)' /\ Whole' /\ Judged'
  BY <1>1, <1>2, SameCall DEF Entered, Whole, Judged
<1>5. CoreReported'
  <2>1. \A n \in CoreSuite : coreStatus(n)' = coreStatus(n)
    BY <1>1, SameCore
  <2> QED  BY <1>1, <1>2, <2>1 DEF CoreReported
<1>6. ObReported'
  <2>1. \A n \in ObChecks : obStatus(n)' = obStatus(n)
    BY <1>1, SameOb
  <2>2. SuiteApplies(call.suite)' = SuiteApplies(call.suite)
    BY <1>1, SameCall
  <2> QED  BY <1>1, <1>2, <2>1, <2>2 DEF ObReported
<1>7. Recognized'
  <2>1. Applying' = Applying
    BY <1>1, SameCall
  <2>2. \A r : parse(r)' = parse(r)
    BY <1>1 DEF parse, document
  <2> QED  BY <1>1, <1>2, <2>1, <2>2 DEF Recognized
<1> QED  BY <1>1, <1>2, <1>3, <1>4, <1>5, <1>6, <1>7 DEF IInv

\* Every step keeps the invariant.
LEMMA StepIInv == IInv /\ [Next]_vars => IInv'
BY GateIInv, CoreIInv, RecognizeIInv, DeclineIInv, OpenBadgesIInv, StutterIInv DEF Next

\* The invariant holds in every reachable state.
LEMMA Invariant == Spec => []IInv
<1> QED  BY InitIInv, StepIInv, PTL DEF Spec

-----------------------------------------------------------------------------
(* What it is for a value to conform to a shape *)

\* A value is an instance of a class, by its name.
Holds(v, class, isA) == <<v, class>> \in DOMAIN isA /\ isA[v, class]

\* What it is to be one value of each kind of shape,
LEMMA OneText ==
  ASSUME NEW v, NEW S, NEW isA
  PROVE  FitsOne(v, TextIn(S), isA) <=> IsTextIn(v, S)
<1> DEFINE r == [texts |-> S]
<1>1. DOMAIN r = {"texts"} /\ r.texts = S /\ TextIn(S) = {r}
  BY DEF TextIn
<1> HIDE DEF r
<1> QED  BY <1>1 DEF FitsOne, Fits

LEMMA OneMap ==
  ASSUME NEW v, NEW S, NEW isA
  PROVE  FitsOne(v, LanguageMapIn(S), isA) <=> IsLanguageMap(v, S)
<1> DEFINE r == [maps |-> S]
<1>1. DOMAIN r = {"maps"} /\ r.maps = S /\ LanguageMapIn(S) = {r}
  BY DEF LanguageMapIn
<1> HIDE DEF r
<1> QED  BY <1>1 DEF FitsOne, Fits

LEMMA OneKind ==
  ASSUME NEW v, NEW k, NEW isA
  PROVE  FitsOne(v, Kind(k), isA) <=> v.kind = k
<1> DEFINE r == [kind |-> k]
<1>1. DOMAIN r = {"kind"} /\ r.kind = k /\ Kind(k) = {r}
  BY DEF Kind
<1> HIDE DEF r
<1> QED  BY <1>1 DEF FitsOne, Fits

LEMMA OneClass ==
  ASSUME NEW v, NEW name, NEW isA
  PROVE  FitsOne(v, A(name), isA) <=> Holds(v, name, isA)
<1> DEFINE r == [class |-> name]
<1>1. DOMAIN r = {"class"} /\ r.class = name /\ A(name) = {r}
  BY DEF A
<1> HIDE DEF r
<1>2. FitsOne(v, A(name), isA) <=> Fits(v, r, isA)
  BY <1>1 DEF FitsOne
<1>3. Fits(v, r, isA) <=> (<<v, r.class>> \in DOMAIN isA /\ isA[v, r.class])
  <2>1. /\ "class" \in DOMAIN r /\ "texts" \notin DOMAIN r
        /\ "maps" \notin DOMAIN r /\ "kind" \notin DOMAIN r
    BY <1>1
  <2> QED  BY <2>1, Zenon DEF Fits
<1> QED  BY <1>1, <1>2, <1>3, Zenon DEF Holds

LEMMA OneArray ==
  ASSUME NEW v, NEW item, NEW heads, NEW holds, NEW isA
  PROVE  ~FitsOne(v, Array(item, heads, holds), isA)
<1> DEFINE r == [item |-> item, heads |-> heads, holds |-> holds]
<1>1. DOMAIN r = {"item", "heads", "holds"} /\ Array(item, heads, holds) = {r}
  BY DEF Array
<1> HIDE DEF r
<1> QED  BY <1>1 DEF FitsOne, Fits

LEMMA OneEither ==
  ASSUME NEW v, NEW s, NEW t, NEW isA
  PROVE  FitsOne(v, Either(s, t), isA) <=> FitsOne(v, s, isA) \/ FitsOne(v, t, isA)
BY DEF FitsOne, Either

\* and what it is to conform to one: to be such a value, or an array of them where
\* the shape allows it.
LEMMA ManyText ==
  ASSUME NEW v, NEW S, NEW isA
  PROVE  Conforms(v, TextIn(S), isA) <=> IsTextIn(v, S)
<1> DEFINE r == [texts |-> S]
<1>1. DOMAIN r = {"texts"} /\ TextIn(S) = {r}
  BY DEF TextIn
<1> HIDE DEF r
<1> QED  BY <1>1, OneText DEF Conforms

LEMMA ManyMap ==
  ASSUME NEW v, NEW S, NEW isA
  PROVE  Conforms(v, LanguageMapIn(S), isA) <=> IsLanguageMap(v, S)
<1> DEFINE r == [maps |-> S]
<1>1. DOMAIN r = {"maps"} /\ LanguageMapIn(S) = {r}
  BY DEF LanguageMapIn
<1> HIDE DEF r
<1> QED  BY <1>1, OneMap DEF Conforms

LEMMA ManyKind ==
  ASSUME NEW v, NEW k, NEW isA
  PROVE  Conforms(v, Kind(k), isA) <=> v.kind = k
<1> DEFINE r == [kind |-> k]
<1>1. DOMAIN r = {"kind"} /\ Kind(k) = {r}
  BY DEF Kind
<1> HIDE DEF r
<1> QED  BY <1>1, OneKind DEF Conforms

LEMMA ManyClass ==
  ASSUME NEW v, NEW name, NEW isA
  PROVE  Conforms(v, A(name), isA) <=> Holds(v, name, isA)
<1> DEFINE r == [class |-> name]
<1>1. DOMAIN r = {"class"} /\ A(name) = {r}
  BY DEF A
<1> HIDE DEF r
<1> QED  BY <1>1, OneClass DEF Conforms

\* What an array must be: its heads, its other items, the texts it holds.
ArrayFits(v, item, heads, holds, isA) ==
  /\ v.kind = "array"
  /\ Len(v.items) >= Len(heads)
  /\ \A i \in DOMAIN v.items :
       IF i \in DOMAIN heads
         THEN IsTextIn(v.items[i], heads[i])
         ELSE FitsOne(v.items[i], item, isA)
  /\ \A h \in DOMAIN holds : \E i \in DOMAIN v.items : IsTextIn(v.items[i], holds[h])

LEMMA ManyArray ==
  ASSUME NEW v, NEW item, NEW heads, NEW holds, NEW isA
  PROVE  Conforms(v, Array(item, heads, holds), isA) <=> ArrayFits(v, item, heads, holds, isA)
<1> DEFINE r == [item |-> item, heads |-> heads, holds |-> holds]
<1>1. /\ DOMAIN r = {"item", "heads", "holds"} /\ Array(item, heads, holds) = {r}
      /\ r.item = item /\ r.heads = heads /\ r.holds = holds
  BY DEF Array
<1> HIDE DEF r
<1>2. Conforms(v, Array(item, heads, holds), isA) <=> FitsArray(v, r, isA)
  <2>1. ~FitsOne(v, Array(item, heads, holds), isA)
    BY OneArray
  <2>2. Conforms(v, Array(item, heads, holds), isA) <=>
          \E array \in {r} : "item" \in DOMAIN array /\ FitsArray(v, array, isA)
    BY <1>1, <2>1, Zenon DEF Conforms
  <2>3. "item" \in DOMAIN r
    BY <1>1
  <2> QED  BY <2>2, <2>3, Zenon
<1>3. FitsArray(v, r, isA) <=> ArrayFits(v, r.item, r.heads, r.holds, isA)
  BY Zenon DEF FitsArray, ArrayFits
<1> QED  BY <1>1, <1>2, <1>3, Zenon

LEMMA ManyEither ==
  ASSUME NEW v, NEW s, NEW t, NEW isA
  PROVE  Conforms(v, Either(s, t), isA) <=> Conforms(v, s, isA) \/ Conforms(v, t, isA)
BY OneEither DEF Conforms, Either

\* An instance has what is required, and each member as its class says.
LEMMA ClassInstance ==
  ASSUME NEW v, NEW r, NEW m, NEW isA
  PROVE  IsInstance(v, Class(r, m), isA) <=>
           /\ isPlainObject(v)
           /\ r \subseteq DOMAIN v.members
           /\ \A n \in DOMAIN v.members \cap DOMAIN m : Conforms(v.members[n], m[n], isA)
<1> DEFINE c == Class(r, m)
<1>1. c.required = r /\ c.members = m /\ ~c.closed
  BY DEF Class
<1> HIDE DEF c
<1>2. IsInstance(v, c, isA) <=>
           /\ isPlainObject(v)
           /\ r \subseteq DOMAIN v.members
           /\ \A n \in DOMAIN v.members \cap DOMAIN m : Conforms(v.members[n], m[n], isA)
  BY <1>1, Zenon DEF IsInstance
<1> QED  BY <1>2 DEF c

\* Everything a shape lets in is a value.
LEMMA EnvelopeEntered ==
  ASSUME parses
  PROVE  Has(document, "context") /\ Has(document, "type")
<1>1. PICK m, r, isA :
        /\ IsInstance(document, Class(r, m), isA)
        /\ {"context", "type"} \subseteq r /\ {"context", "type"} \subseteq DOMAIN m
        /\ m["context"] = ContextSchema /\ m["type"] = TypeSchema
  <2>1. CASE IsCredential
    <3> DEFINE m == [context |-> ContextSchema, type |-> TypeSchema, issuer |-> IssuerSchema,
          credentialSubject |-> Either(Kind("object"), ArrayOf(Kind("object")))]
               r == {"context", "type", "issuer", "credentialSubject"}
               isA == Instances(Within(document), EnvelopeClasses)
    <3>1. IsInstance(document, Class(r, m), isA)
      BY <2>1 DEF parses, parseCredential, ConformsToClass, EnvelopeCredentialSchema
    <3>2. /\ {"context", "type"} \subseteq r /\ {"context", "type"} \subseteq DOMAIN m
          /\ m["context"] = ContextSchema /\ m["type"] = TypeSchema
      OBVIOUS
    <3> HIDE DEF m, r, isA
    <3> QED  BY <3>1, <3>2
  <2>2. CASE ~IsCredential
    <3> DEFINE m == [context |-> ContextSchema, type |-> TypeSchema, holder |-> HolderSchema]
               r == {"context", "type"}
               isA == Instances(Within(document), EnvelopeClasses)
    <3>1. IsInstance(document, Class(r, m), isA)
      BY <2>2 DEF parses, parsePresentation, ConformsToClass, PresentationSchema
    <3>2. /\ {"context", "type"} \subseteq r /\ {"context", "type"} \subseteq DOMAIN m
          /\ m["context"] = ContextSchema /\ m["type"] = TypeSchema
      OBVIOUS
    <3> HIDE DEF m, r, isA
    <3> QED  BY <3>1, <3>2
  <2> QED  BY <2>1, <2>2
<1>2. /\ isPlainObject(document) /\ {"context", "type"} \subseteq DOMAIN document.members
      /\ Conforms(document.members["context"], ContextSchema, isA)
      /\ Conforms(document.members["type"], TypeSchema, isA)
  <2>1. /\ isPlainObject(document) /\ r \subseteq DOMAIN document.members
        /\ \A n \in DOMAIN document.members \cap DOMAIN m :
             Conforms(document.members[n], m[n], isA)
    BY <1>1, ClassInstance, Zenon
  <2>2. \A n \in {"context", "type"} : Conforms(document.members[n], m[n], isA)
    BY <1>1, <2>1
  <2> QED  BY <1>1, <2>1, <2>2
<1>3. document.members["context"].kind \in {"string", "object", "array"}
  <2> DEFINE c == document.members["context"]
  <2>1. Conforms(c, TextIn(STRING), isA) \/ Conforms(c, Kind("object"), isA)
          \/ Conforms(c, ArrayOf(ContextEntrySchema), isA)
    BY <1>2, ManyEither DEF ContextSchema, ContextEntrySchema, AnyText
  <2> HIDE DEF c
  <2>2. c.kind = "string" \/ c.kind = "object" \/ c.kind = "array"
    BY <2>1, ManyText, ManyKind, ManyArray DEF ArrayOf, IsTextIn, IsText, ArrayFits
  <2> QED  BY <2>2 DEF c
<1>4. document.members["type"].kind \in {"string", "array"}
  <2> DEFINE c == document.members["type"]
  <2>1. Conforms(c, TextIn(STRING), isA) \/ Conforms(c, ArrayOf(AnyText), isA)
    BY <1>2, ManyEither DEF TypeSchema, AnyText
  <2> HIDE DEF c
  <2>2. c.kind = "string" \/ c.kind = "array"
    BY <2>1, ManyText, ManyArray DEF ArrayOf, IsTextIn, IsText, ArrayFits
  <2> QED  BY <2>2 DEF c
<1>5. Undefined.kind = "undefined"
  BY DEF Undefined
<1> QED  BY <1>2, <1>3, <1>4, <1>5 DEF Has, At

\* Checks have one outcome each, a failure in front of the suites or of the core
\* suite ends the call, no check reads a document that has no context or type, and
\* a profile is known exactly when recognition succeeded, for every document, list
\* of recognizers and suite (run-suites.ts, suites/core/, recognition-check.ts).
THEOREM TypeCorrect == Spec => []TypeOK
<1>1. IInv => TypeOK
  <2> SUFFICES ASSUME IInv PROVE TypeOK
    OBVIOUS
  <2>1. Ahead /\ Outcomes /\ Halted /\ (Entered => parses) /\ Recognized /\ call \in Calls
    BY DEF IInv
  <2>2. (\E id \in DOMAIN report : id # "parsing.envelope") =>
          Has(document, "context") /\ Has(document, "type")
    BY <2>1, EnvelopeEntered DEF Entered
  <2>3. (\E id \in CoreSuite \cup {"parsing.envelope"} : Status(id) = "failure") => pending = <<>>
    BY <2>1 DEF Halted, Status
  <2>4. profile # "none" <=> Status("recognition.profile") = "success"
    <3>1. \A i \in DOMAIN call.recognizers : call.recognizers[i] # "none"
      <4>1. call.recognizers \in Seq(Recognizers)
        BY <2>1, CallIs
      <4>2. \A i \in DOMAIN call.recognizers : call.recognizers[i] \in Recognizers
        BY <4>1, ElementOfSeq, LenProperties
      <4> QED  BY <4>2 DEF Recognizers
    <3>2. \A i \in First(Applying) : call.recognizers[i] # "none"
      BY <3>1 DEF First, Applying
    <3> QED  BY <2>1, <3>2 DEF Recognized, Status
  <2> QED  BY <2>1, <2>2, <2>3, <2>4 DEF TypeOK, Ahead, Outcomes
<1> QED  BY <1>1, Invariant, PTL

-----------------------------------------------------------------------------
(* The values of a document, and the references between them *)

\* The values of a document: each of them JSON, with all it is made of.
Values(vs) == \A v \in vs : IsJson(v) /\ Parts(v) \subseteq vs

\* What an object or an array holds is among the values of its document, and so is
\* what a member or an item is read as.
LEMMA PartOfObject ==
  ASSUME NEW v, isPlainObject(v), NEW n \in DOMAIN v.members
  PROVE  v.members[n] \in Parts(v)
<1>1. v.kind # "array"
  BY DEF isPlainObject
<1>2. Parts(v) = {v.members[m] : m \in DOMAIN v.members}
  BY <1>1, Zenon DEF Parts
<1> QED  BY <1>2

LEMMA PartOfArray ==
  ASSUME NEW v, v.kind = "array", NEW i \in DOMAIN v.items
  PROVE  v.items[i] \in Parts(v)
<1>1. ~isPlainObject(v)
  BY DEF isPlainObject
<1>2. Parts(v) = {v.items[j] : j \in DOMAIN v.items}
  BY <1>1, Zenon DEF Parts
<1> QED  BY <1>2

LEMMA AtIsValue ==
  ASSUME NEW vs, Values(vs), NEW v \in vs, NEW n, At(v, n).kind # "undefined"
  PROVE  At(v, n) \in vs
<1>1. isPlainObject(v) /\ n \in DOMAIN v.members /\ At(v, n) = v.members[n]
  BY DEF At, Undefined
<1> QED  BY <1>1, PartOfObject DEF Values

LEMMA ItemIsValue ==
  ASSUME NEW vs, Values(vs), NEW v \in vs, v.kind = "array", NEW i \in DOMAIN v.items
  PROVE  v.items[i] \in vs
BY PartOfArray DEF Values

\* A text is what it says, and an array what its items are: two values that look
\* the same are.
LEMMA TextIs ==
  ASSUME NEW v, IsJson(v), IsText(v)
  PROVE  v = Text(v.text) /\ v.text \in STRING
<1>1. v.kind = "string"
  BY DEF IsText
<1>2. v \notin {Null, Number, Boolean}
  BY <1>1 DEF Null, Number, Boolean
<1> QED  BY <1>1, <1>2 DEF IsJson

LEMMA ArrayIs ==
  ASSUME NEW v, IsJson(v), v.kind = "array"
  PROVE  /\ v = Arr(v.items) /\ v.items \in Seq(Parts(v))
         /\ DOMAIN v.items = 1..Len(v.items) /\ Len(v.items) \in Nat
<1>1. v \notin {Null, Number, Boolean}
  BY DEF Null, Number, Boolean
<1>2. v = Arr(v.items) /\ v.items \in Seq(Parts(v))
  BY <1>1 DEF IsJson
<1> QED  BY <1>2, LenProperties

LEMMA SameText ==
  ASSUME NEW v, NEW w, IsJson(v), IsJson(w), IsText(v), IsText(w), v.text = w.text
  PROVE  v = w
BY TextIs

\* The values of a document.
LEMMA DocumentValues ==
  ASSUME call \in Calls
  PROVE  Values(Within(document)) /\ document \in Within(document)
BY CallIs DEF Values, IsJsonDocument, document

\* The items of an array-like value are values of the document.
LEMMA ItemsThere ==
  ASSUME NEW v, Items(v) # <<>>
  PROVE  v.kind = "array" /\ Items(v) = v.items
BY DEF Items

\* The texts found at a member, and the values they are the texts of.
LEMMA TextAtIs ==
  ASSUME NEW v, NEW n, NEW t
  PROVE  t \in TextAt(v, n) <=> IsText(At(v, n)) /\ At(v, n).text = t
BY DEF TextAt

LEMMA TextValue ==
  ASSUME NEW vs, Values(vs), NEW v \in vs, NEW n, IsText(At(v, n))
  PROVE  IsJson(At(v, n))
<1>1. At(v, n).kind # "undefined"
  BY DEF IsText
<1> QED  BY <1>1, AtIsValue DEF Values

LEMMA SameTextAt ==
  ASSUME NEW vs, Values(vs), NEW v \in vs, NEW n, NEW w \in vs, NEW m,
         IsText(At(v, n)), At(v, n).text \in TextAt(w, m)
  PROVE  At(w, m) = At(v, n)
<1>1. IsText(At(w, m)) /\ At(w, m).text = At(v, n).text
  BY TextAtIs
<1>2. IsJson(At(v, n)) /\ IsJson(At(w, m))
  BY <1>1, TextValue
<1> QED  BY <1>1, <1>2, SameText

\* Reading results or descriptions through asEntries reaches every item.
LEMMA ItemsOf ==
  ASSUME NEW vs, Values(vs), NEW v \in vs, NEW n, NEW i \in DOMAIN Items(At(v, n))
  PROVE  Items(At(v, n))[i] \in vs
<1>1. At(v, n).kind = "array" /\ Items(At(v, n)) = At(v, n).items
  BY DEF Items
<1>2. At(v, n) \in vs
  BY <1>1, AtIsValue
<1> QED  BY <1>1, <1>2, ItemIsValue

\* A status other than "none" is a row of the report.
LEMMA ReportedStatus ==
  ASSUME IInv, NEW id \in ObChecks, Status(id) # "none"
  PROVE  Status(id) = obStatus(id) /\ SuiteApplies(call.suite) /\ id \in DOMAIN report
BY DEF IInv, ObReported, Status

\* A badge whose reference checks both succeeded hangs together: a result names a
\* description of its achievement, and the level it achieved is a level of a
\* description of that id, whatever the documents are (result-ref-check.ts,
\* achieved-level-check.ts).
THEOREM ReferencesSound == Spec => []ReferencesResolve
<1>1. IInv => ReferencesResolve
  <2> DEFINE subject      == At(document, "credentialSubject")
             results      == At(subject, "result").items
             descriptions == At(At(subject, "achievement"), "resultDescription").items
             vs           == Within(document)
             ref(i)       == At(results[i], "resultDescription")
             levels(k)    == Items(At(descriptions[k], "rubricCriterionLevel"))
  <2>1. SUFFICES ASSUME IInv,
                        Status("schema.obv3.result-ref") = "success",
                        Status("schema.obv3.achieved-level") = "success",
                        NEW i \in DOMAIN results, IsText(ref(i))
                 PROVE  LET named == {k \in DOMAIN descriptions : At(descriptions[k], "id") = ref(i)}
                        IN  /\ named # {}
                            /\ IsText(At(results[i], "achievedLevel")) =>
                                 \E k \in named : \E j \in DOMAIN levels(k) :
                                   At(levels(k)[j], "id") = At(results[i], "achievedLevel")
    BY Zenon DEF ReferencesResolve
  <2>2. obv3ResultRefCheck(document) = "success" /\ obv3AchievedLevelCheck(document) = "success"
    BY <2>1, ReportedStatus, ObStatusOf, ObChecksAre
  <2>3. Values(vs) /\ document \in vs
    BY <2>1, DocumentValues DEF IInv
  <2>4. /\ Results(subject) # <<>>
        /\ \A n \in DOMAIN Results(subject) :
             TextAt(Results(subject)[n], "resultDescription") \subseteq knownIds(ResultDescriptions(subject))
    BY <2>2, Zenon DEF obv3ResultRefCheck, Verdict
  <2>5. /\ ResultDescriptions(subject) # <<>>
        /\ \A n \in DOMAIN Results(subject) :
             \A id \in TextAt(Results(subject)[n], "resultDescription") :
               TextAt(Results(subject)[n], "achievedLevel")
                 \subseteq levelsByRdId(ResultDescriptions(subject), id)
    BY <2>2, Zenon DEF obv3AchievedLevelCheck, Verdict
  <2>6. /\ At(subject, "result").kind = "array" /\ Results(subject) = results
        /\ At(At(subject, "achievement"), "resultDescription").kind = "array"
        /\ ResultDescriptions(subject) = descriptions
    BY <2>4, <2>5, ItemsThere DEF Results, ResultDescriptions
  <2>7. results[i] \in vs /\ \A k \in DOMAIN descriptions : descriptions[k] \in vs
    <3>1. At(subject, "result") \in vs
      <4>1. subject.kind # "undefined"
        BY <2>6 DEF At, Undefined, isPlainObject
      <4>2. subject \in vs
        BY <2>3, <4>1, AtIsValue
      <4> QED  BY <2>3, <2>6, <4>2, AtIsValue
    <3>2. At(At(subject, "achievement"), "resultDescription") \in vs
      <4>1. At(subject, "achievement").kind # "undefined" /\ subject.kind # "undefined"
        BY <2>6 DEF At, Undefined, isPlainObject
      <4>2. subject \in vs
        BY <2>3, <4>1, AtIsValue
      <4>3. At(subject, "achievement") \in vs
        BY <2>3, <4>1, <4>2, AtIsValue
      <4> QED  BY <2>3, <2>6, <4>3, AtIsValue
    <3>3. results[i] \in vs
      BY <2>1, <2>3, <2>6, <3>1, ItemIsValue
    <3>4. \A k \in DOMAIN descriptions : descriptions[k] \in vs
      BY <2>3, <2>6, <3>2, ItemIsValue
    <3> QED  BY <3>3, <3>4
  <2>8. ref(i).text \in TextAt(results[i], "resultDescription")
    BY <2>1, TextAtIs
  <2> HIDE DEF results, descriptions
  <2> DEFINE named == {k \in DOMAIN descriptions : At(descriptions[k], "id") = ref(i)}
  <2>9. named # {}
    <3>1. ref(i).text \in knownIds(descriptions)
      BY <2>1, <2>4, <2>6, <2>8
    <3>2. PICK k \in DOMAIN descriptions : ref(i).text \in TextAt(descriptions[k], "id")
      BY <3>1 DEF knownIds
    <3>3. At(descriptions[k], "id") = ref(i)
      BY <2>1, <2>3, <2>7, <3>2, SameTextAt
    <3> QED  BY <3>3
  <2>10. ASSUME IsText(At(results[i], "achievedLevel"))
         PROVE  \E k \in named : \E j \in DOMAIN levels(k) :
                  At(levels(k)[j], "id") = At(results[i], "achievedLevel")
    <3> DEFINE level == At(results[i], "achievedLevel")
    <3>1. level.text \in TextAt(results[i], "achievedLevel")
      BY <2>10, TextAtIs
    <3>2. level.text \in levelsByRdId(descriptions, ref(i).text)
      BY <2>1, <2>5, <2>6, <2>8, <3>1
    <3>3. PICK k \in DOMAIN descriptions :
            ref(i).text \in TextAt(descriptions[k], "id") /\ level.text \in Levels(descriptions[k])
      BY <3>2 DEF levelsByRdId
    <3>4. k \in named
      BY <2>1, <2>3, <2>7, <3>3, SameTextAt
    <3>5. PICK j \in DOMAIN levels(k) : level.text \in TextAt(levels(k)[j], "id")
      BY <3>3 DEF Levels
    <3>6. levels(k)[j] \in vs
      BY <2>3, <2>7, ItemsOf
    <3>7. At(levels(k)[j], "id") = level
      BY <2>3, <2>7, <2>10, <3>5, <3>6, SameTextAt
    <3> QED  BY <3>4, <3>7
  <2> QED  BY <2>9, <2>10
<1> QED  BY <1>1, Invariant, PTL

-----------------------------------------------------------------------------
(* The vendored schemas, and the version of a credential *)

\* What a class says of a member.
Takes(class, n, shape) == n \in DOMAIN class.members /\ class.members[n] = shape

\* A member of an instance conforms to what its class takes there, and one that the
\* class requires is there.
LEMMA MemberFits ==
  ASSUME NEW v, NEW class, NEW isA, IsInstance(v, class, isA),
         NEW n, NEW shape, Takes(class, n, shape), n \in DOMAIN v.members
  PROVE  Conforms(v.members[n], shape, isA)
BY Zenon DEF IsInstance, Takes

LEMMA RequiredMember ==
  ASSUME NEW v, NEW class, NEW isA, IsInstance(v, class, isA),
         NEW n, NEW shape, Takes(class, n, shape), n \in class.required
  PROVE  isPlainObject(v) /\ n \in DOMAIN v.members
         /\ At(v, n) = v.members[n] /\ Conforms(At(v, n), shape, isA)
<1>1. isPlainObject(v) /\ n \in DOMAIN v.members
  BY DEF IsInstance
<1>2. At(v, n) = v.members[n]
  BY <1>1 DEF At
<1> QED  BY <1>1, <1>2, MemberFits

\* The root of a schema: the date it requires and the context it takes.
RootOf(root, date, vc) ==
  /\ Takes(root, date, TextIn(FormatDateTime)) /\ date \in root.required
  /\ Takes(root, "context", ContextOf(vc)) /\ "context" \in root.required

\* What the roots of the four vendored schemas say of the version.
LEMMA RootsAre ==
  /\ RootOf(Badge_Root, "validFrom", VC_CONTEXT_V2)
  /\ RootOf(BadgeV1_Root, "issuanceDate", VC_CONTEXT_V1)
  /\ RootOf(Endorsement_Root, "validFrom", VC_CONTEXT_V2)
  /\ RootOf(EndorsementV1_Root, "issuanceDate", VC_CONTEXT_V1)
<1>1. RootOf(Badge_Root, "validFrom", VC_CONTEXT_V2)
  BY DEF RootOf, Takes, Badge_Root, Class, ++, Members
<1>2. RootOf(BadgeV1_Root, "issuanceDate", VC_CONTEXT_V1)
  BY DEF RootOf, Takes, BadgeV1_Root, Class, ++, Members
<1>3. RootOf(EndorsementCredential, "validFrom", VC_CONTEXT_V2)
  BY DEF RootOf, Takes, EndorsementCredential, Class, ++, Members
<1>4. RootOf(EndorsementCredentialv1p1, "issuanceDate", VC_CONTEXT_V1)
  BY DEF RootOf, Takes, EndorsementCredentialv1p1, Class, ++, Members
<1> QED  BY <1>1, <1>2, <1>3, <1>4 DEF Endorsement_Root, EndorsementV1_Root

\* The four vendored schemas, and where the one of a type and a version is.
LEMMA Vendored4 ==
  LET v == VENDORED_OB_SCHEMAS
  IN  /\ DOMAIN v = 1..4
      /\ v[1] = Vendored("json/ob_v3p0_achievementcredential-jsonschema1.json",
                         "OpenBadgeCredential", "v2", Badge_Root, Badge_Defs)
      /\ v[2] = Vendored("json/ob_v3p0_achievementcredentialv1p1-jsonschema1.json",
                         "OpenBadgeCredential", "v1", BadgeV1_Root, BadgeV1_Defs)
      /\ v[3] = Vendored("json/ob_v3p0_endorsementcredential-jsonschema1.json",
                         "EndorsementCredential", "v2", Endorsement_Root, Endorsement_Defs)
      /\ v[4] = Vendored("json/ob_v3p0_endorsementcredentialv1p1-jsonschema1.json",
                         "EndorsementCredential", "v1", EndorsementV1_Root, EndorsementV1_Defs)
BY DEF VENDORED_OB_SCHEMAS

\* The place of the schema of a type and a version.
Place(type, version) ==
  (IF type = "OpenBadgeCredential" THEN 1 ELSE 3) + (IF version = "v1" THEN 1 ELSE 0)

\* The selection finds it there.
LEMMA VendoredIs ==
  /\ DOMAIN VENDORED_OB_SCHEMAS = 1..4
  /\ \A t \in {"OpenBadgeCredential", "EndorsementCredential"} : \A w \in {"v1", "v2"} :
       LET s == VENDORED_OB_SCHEMAS[Place(t, w)]
       IN  /\ Place(t, w) \in 1..4
           /\ s.obType = t /\ s.vcVersion = w
           /\ RootOf(s.root, IF w = "v1" THEN "issuanceDate" ELSE "validFrom",
                     IF w = "v1" THEN VC_CONTEXT_V1 ELSE VC_CONTEXT_V2)
           /\ vendoredSchemaFor(t, w) = s
<1> DEFINE v == VENDORED_OB_SCHEMAS
<1>1. /\ DOMAIN v = 1..4
      /\ v[1].obType = "OpenBadgeCredential" /\ v[1].vcVersion = "v2" /\ v[1].root = Badge_Root
      /\ v[2].obType = "OpenBadgeCredential" /\ v[2].vcVersion = "v1"
      /\ v[2].root = BadgeV1_Root
      /\ v[3].obType = "EndorsementCredential" /\ v[3].vcVersion = "v2"
      /\ v[3].root = Endorsement_Root
      /\ v[4].obType = "EndorsementCredential" /\ v[4].vcVersion = "v1"
      /\ v[4].root = EndorsementV1_Root
  BY Vendored4 DEF Vendored
<1> HIDE DEF v
<1>2. ASSUME NEW t \in {"OpenBadgeCredential", "EndorsementCredential"}, NEW w \in {"v1", "v2"}
      PROVE  /\ Place(t, w) \in 1..4 /\ v[Place(t, w)].obType = t /\ v[Place(t, w)].vcVersion = w
             /\ \A i \in 1..4 : v[i].obType = t /\ v[i].vcVersion = w => i = Place(t, w)
  BY <1>1 DEF Place
<1>3. ASSUME NEW t \in {"OpenBadgeCredential", "EndorsementCredential"}, NEW w \in {"v1", "v2"}
      PROVE  RootOf(v[Place(t, w)].root, IF w = "v1" THEN "issuanceDate" ELSE "validFrom",
                    IF w = "v1" THEN VC_CONTEXT_V1 ELSE VC_CONTEXT_V2)
  <2>1. CASE t = "OpenBadgeCredential" /\ w = "v2"
    BY <2>1, <1>1, RootsAre DEF Place
  <2>2. CASE t = "OpenBadgeCredential" /\ w = "v1"
    BY <2>2, <1>1, RootsAre DEF Place
  <2>3. CASE t = "EndorsementCredential" /\ w = "v2"
    BY <2>3, <1>1, RootsAre DEF Place
  <2>4. CASE t = "EndorsementCredential" /\ w = "v1"
    BY <2>4, <1>1, RootsAre DEF Place
  <2> QED  BY <1>3, <2>1, <2>2, <2>3, <2>4
<1>4. ASSUME NEW t \in {"OpenBadgeCredential", "EndorsementCredential"}, NEW w \in {"v1", "v2"}
      PROVE  vendoredSchemaFor(t, w) = v[Place(t, w)]
  <2>1. vendoredSchemaFor(t, w) =
          v[CHOOSE i \in DOMAIN v : v[i].obType = t /\ v[i].vcVersion = w]
    BY Zenon DEF vendoredSchemaFor, v
  <2> DEFINE P(i) == v[i].obType = t /\ v[i].vcVersion = w
  <2>2. \A i \in DOMAIN v : P(i) <=> i = Place(t, w)
    BY <1>1, <1>2
  <2>3. \E i \in DOMAIN v : P(i)
    BY <1>1, <1>2, <2>2
  <2>4. (CHOOSE i \in DOMAIN v : P(i)) = Place(t, w)
    BY <2>2, <2>3
  <2> QED  BY <2>1, <2>4
<1> QED  BY <1>1, <1>2, <1>3, <1>4 DEF v

\* The schemas have ids of their own.
LEMMA VendoredIds ==
  LET v == VENDORED_OB_SCHEMAS
  IN  /\ v[1].id = "json/ob_v3p0_achievementcredential-jsonschema1.json"
      /\ v[2].id = "json/ob_v3p0_achievementcredentialv1p1-jsonschema1.json"
      /\ v[3].id = "json/ob_v3p0_endorsementcredential-jsonschema1.json"
      /\ v[4].id = "json/ob_v3p0_endorsementcredentialv1p1-jsonschema1.json"
BY Vendored4 DEF Vendored

\* A vendored schema is known by one entry, of its type and its version.
LEMMA KnownIs ==
  \A t, t2 \in {"OpenBadgeCredential", "EndorsementCredential"} : \A w, w2 \in {"v1", "v2"} :
    DeclaredFits(VENDORED_OB_SCHEMAS[Place(t, w)].id, t2, w2) <=> t = t2 /\ w = w2
<1> DEFINE id(i) == VENDORED_OB_SCHEMAS[i].id
<1>1. \A k \in KNOWN_OB_SCHEMA_URLS :
        /\ k.id = id(1) => k.obType = "OpenBadgeCredential" /\ k.accepts = {"v2"}
        /\ k.id = id(2) => k.obType = "OpenBadgeCredential" /\ k.accepts = {"v1"}
        /\ k.id = id(3) => k.obType = "EndorsementCredential" /\ k.accepts = {"v2"}
        /\ k.id = id(4) => k.obType = "EndorsementCredential" /\ k.accepts = {"v1"}
  BY VendoredIds DEF KNOWN_OB_SCHEMA_URLS, PublishedSchemas, EmbeddedSchemas, Known
<1>2. /\ \E k \in KNOWN_OB_SCHEMA_URLS : k.id = id(1)
      /\ \E k \in KNOWN_OB_SCHEMA_URLS : k.id = id(2)
      /\ \E k \in KNOWN_OB_SCHEMA_URLS : k.id = id(3)
      /\ \E k \in KNOWN_OB_SCHEMA_URLS : k.id = id(4)
  <2>1. \E k \in KNOWN_OB_SCHEMA_URLS : k.id = id(1)
    <3> DEFINE k == Known("json/ob_v3p0_achievementcredential-jsonschema1.json",
                            "OpenBadgeCredential", {"v2"})
    <3>1. k \in KNOWN_OB_SCHEMA_URLS
      BY DEF KNOWN_OB_SCHEMA_URLS, EmbeddedSchemas
    <3>2. k.id = id(1)
      BY VendoredIds DEF Known
    <3> HIDE DEF k
    <3> QED  BY <3>1, <3>2
  <2>2. \E k \in KNOWN_OB_SCHEMA_URLS : k.id = id(2)
    <3> DEFINE k == Known("json/ob_v3p0_achievementcredentialv1p1-jsonschema1.json",
                            "OpenBadgeCredential", {"v1"})
    <3>1. k \in KNOWN_OB_SCHEMA_URLS
      BY DEF KNOWN_OB_SCHEMA_URLS, EmbeddedSchemas
    <3>2. k.id = id(2)
      BY VendoredIds DEF Known
    <3> HIDE DEF k
    <3> QED  BY <3>1, <3>2
  <2>3. \E k \in KNOWN_OB_SCHEMA_URLS : k.id = id(3)
    <3> DEFINE k == Known("json/ob_v3p0_endorsementcredential-jsonschema1.json",
                            "EndorsementCredential", {"v2"})
    <3>1. k \in KNOWN_OB_SCHEMA_URLS
      BY DEF KNOWN_OB_SCHEMA_URLS, EmbeddedSchemas
    <3>2. k.id = id(3)
      BY VendoredIds DEF Known
    <3> HIDE DEF k
    <3> QED  BY <3>1, <3>2
  <2>4. \E k \in KNOWN_OB_SCHEMA_URLS : k.id = id(4)
    <3> DEFINE k == Known("json/ob_v3p0_endorsementcredentialv1p1-jsonschema1.json",
                            "EndorsementCredential", {"v1"})
    <3>1. k \in KNOWN_OB_SCHEMA_URLS
      BY DEF KNOWN_OB_SCHEMA_URLS, EmbeddedSchemas
    <3>2. k.id = id(4)
      BY VendoredIds DEF Known
    <3> HIDE DEF k
    <3> QED  BY <3>1, <3>2
  <2> QED  BY <2>1, <2>2, <2>3, <2>4
<1> HIDE DEF id
<1>3. SUFFICES ASSUME NEW t \in {"OpenBadgeCredential", "EndorsementCredential"},
                      NEW t2 \in {"OpenBadgeCredential", "EndorsementCredential"},
                      NEW w \in {"v1", "v2"}, NEW w2 \in {"v1", "v2"}
               PROVE  DeclaredFits(id(Place(t, w)), t2, w2) <=> t = t2 /\ w = w2
  BY DEF id
<1>4. \A k \in KNOWN_OB_SCHEMA_URLS : k.id = id(Place(t, w)) => k.obType = t /\ k.accepts = {w}
  BY <1>1 DEF Place
<1>5. \E k \in KNOWN_OB_SCHEMA_URLS : k.id = id(Place(t, w))
  BY <1>2 DEF Place
<1> QED  BY <1>4, <1>5 DEF DeclaredFits

\* The two contexts of the data model are two.
LEMMA ContextApart == VC_CONTEXT_V1 # VC_CONTEXT_V2
BY DEF VC_CONTEXT_V1, VC_CONTEXT_V2

\* A context that the schemas take, and that names an Open Badges context, is an
\* array whose first text is the context of the data model.
LEMMA ContextHead ==
  ASSUME NEW c, IsJson(c), NEW isA, NEW vc \in {VC_CONTEXT_V1, VC_CONTEXT_V2},
         Conforms(c, ContextOf(vc), isA),
         stringValues(c) \cap ObPrefixed # {},
         firstContextEntry(c).text \in {VC_CONTEXT_V1, VC_CONTEXT_V2}
  PROVE  c.kind = "array" /\ IsTextIn(firstContextEntry(c), {vc})
<1>1. c.kind = "array"
  <2>1. SUFFICES ASSUME c.kind # "array" PROVE FALSE
    OBVIOUS
  <2>2. firstContextEntry(c) = c
    <3>1. c # Arr(<<>>)
      BY <2>1 DEF Arr
    <3> QED  BY <2>1, <3>1, Zenon DEF firstContextEntry
  <2>3. stringValues(c) \subseteq {c.text}
    BY <2>1 DEF stringValues, asEntries
  <2> QED  BY <2>2, <2>3, TextsAssumption
<1>2. ArrayFits(c, AnyContext, <<{vc}, ObContext>>, <<>>, isA)
  <2>1. ~Conforms(c, AnyContext, isA)
    <3>1. ~Conforms(c, TextIn(STRING), isA) /\ ~Conforms(c, LanguageMapIn(STRING), isA)
            /\ ~Conforms(c, Kind("object"), isA)
      BY <1>1, ManyText, ManyMap, ManyKind DEF IsTextIn, IsText, IsLanguageMap, isPlainObject
    <3> QED  BY <3>1, ManyEither, Zenon DEF AnyContext, String, Localized
  <2>2. Conforms(c, Array(AnyContext, <<{vc}, ObContext>>, <<>>), isA)
    BY <2>1, ManyEither, Zenon DEF ContextOf
  <2> QED  BY <2>2, ManyArray, Zenon
<1>3. Len(c.items) >= 2 /\ \A i \in DOMAIN c.items : i = 1 => IsTextIn(c.items[i], {vc})
  <2> DEFINE h == <<{vc}, ObContext>>
  <2>1. DOMAIN h = 1..2 /\ Len(h) = 2 /\ h[1] = {vc}
    OBVIOUS
  <2> HIDE DEF h
  <2>2. /\ Len(c.items) >= Len(h)
        /\ \A i \in DOMAIN c.items : i \in DOMAIN h => IsTextIn(c.items[i], h[i])
    BY <1>2, Zenon DEF ArrayFits, h
  <2>3. Len(c.items) >= 2
    BY <2>1, <2>2, Zenon
  <2>4. 1 \in DOMAIN h
    BY <2>1
  <2>5. ASSUME NEW i \in DOMAIN c.items, i = 1
        PROVE  IsTextIn(c.items[i], {vc})
    BY <2>1, <2>2, <2>4, <2>5, Zenon
  <2> QED  BY <2>3, <2>5
<1>4. c = Arr(c.items) /\ c.items \in Seq(Parts(c))
  BY <1>1, ArrayIs
<1>5. DOMAIN c.items = 1..Len(c.items) /\ Len(c.items) \in Nat
  BY <1>1, ArrayIs
<1>6. c.items # <<>> /\ Head(c.items) = c.items[1]
  BY <1>3, <1>4, <1>5
<1>7. firstContextEntry(c) = c.items[1]
  <2>1. c # Arr(<<>>)
    BY <1>4, <1>6 DEF Arr
  <2> QED  BY <1>1, <1>6, <2>1, Zenon DEF firstContextEntry
<1>8. IsTextIn(c.items[1], {vc})
  BY <1>3, <1>5
<1> QED  BY <1>1, <1>7, <1>8

\* What the first entry of a context is.
LEMMA FirstEntryIs ==
  ASSUME NEW vs, Values(vs), NEW c \in vs, IsText(firstContextEntry(c))
  PROVE  IsJson(firstContextEntry(c))
<1>1. CASE c.kind # "array"
  <2>1. c # Arr(<<>>)
    BY <1>1 DEF Arr
  <2>2. firstContextEntry(c) = c
    BY <1>1, <2>1, Zenon DEF firstContextEntry
  <2> QED  BY <2>2 DEF Values
<1>2. CASE c.kind = "array"
  <2>1. c.items \in Seq(Parts(c)) /\ c = Arr(c.items)
    BY <1>2, ArrayIs DEF Values
  <2>2. CASE c = Arr(<<>>)
    <3>1. firstContextEntry(c) = Undefined
      BY <1>2, <2>2, Zenon DEF firstContextEntry
    <3> QED  BY <3>1 DEF IsText, Undefined
  <2>3. CASE c # Arr(<<>>)
    <3>1. c.items # <<>>
      BY <2>1, <2>3 DEF Arr
    <3>2. Head(c.items) \in Parts(c)
      BY <2>1, <3>1, HeadTailProperties
    <3>3. firstContextEntry(c) = Head(c.items)
      BY <1>2, <2>3, Zenon DEF firstContextEntry
    <3> QED  BY <3>2, <3>3 DEF Values
  <2> QED  BY <2>2, <2>3
<1> QED  BY <1>1, <1>2

Context1 == firstContextEntry(At(document, "context"))
IsV1     == Context1 = Text(VC_CONTEXT_V1)
IsBadge  == hasType(document, "OpenBadgeCredential")

\* What is known of a credential that a schema was selected for: its type, its
\* version, and the schema.
LEMMA Selected ==
  ASSUME call \in Calls, Selects(document)
  PROVE  /\ getObType(document) = IF IsBadge THEN "OpenBadgeCredential" ELSE "EndorsementCredential"
         /\ vcVersion(document) = IF IsV1 THEN "v1" ELSE "v2"
         /\ IsTextIn(Context1, {IF IsV1 THEN VC_CONTEXT_V1 ELSE VC_CONTEXT_V2})
         /\ stringValues(At(document, "context")) \cap ObPrefixed # {}
         /\ IsJson(At(document, "context"))
<1> DEFINE c == At(document, "context")
           first == firstContextEntry(c)
<1>1. getObType(document) # "none" /\ vcVersionOf(c) # "none"
  BY DEF Selects, vcVersion
<1>2. hasObv3Context(document)
  BY <1>1 DEF getObType, isOpenBadgeCredential, isEndorsementCredential
<1>3. getObType(document) = IF IsBadge THEN "OpenBadgeCredential" ELSE "EndorsementCredential"
  BY <1>1, <1>2 DEF getObType, isOpenBadgeCredential, IsBadge
<1>4. IsTextIn(first, {VC_CONTEXT_V1}) \/ IsTextIn(first, {VC_CONTEXT_V2})
  BY <1>1, Zenon DEF vcVersionOf
<1>5. c.kind # "undefined"
  <2>1. SUFFICES ASSUME c.kind = "undefined" PROVE FALSE
    OBVIOUS
  <2>2. c # Arr(<<>>) /\ c.kind # "array"
    BY <2>1 DEF Arr
  <2>3. first = c
    BY <2>2, Zenon DEF firstContextEntry
  <2> QED  BY <1>4, <2>1, <2>3 DEF IsTextIn, IsText
<1>6. Values(Within(document)) /\ c \in Within(document)
  BY <1>5, DocumentValues, AtIsValue
<1>7. IsJson(c) /\ IsJson(first) /\ IsText(first)
  BY <1>4, <1>6, FirstEntryIs DEF Values, IsTextIn
<1>8. first = Text(first.text)
  BY <1>7, TextIs
<1>9. first = Text(VC_CONTEXT_V1) <=> IsTextIn(first, {VC_CONTEXT_V1})
  BY <1>8 DEF IsTextIn, IsText, Text
<1>10. IsTextIn(first, {VC_CONTEXT_V1}) => ~IsTextIn(first, {VC_CONTEXT_V2})
  BY ContextApart DEF IsTextIn
<1>11. CASE IsTextIn(first, {VC_CONTEXT_V1})
  <2>1. vcVersionOf(c) = "v1"
    BY <1>10, <1>11, Zenon DEF vcVersionOf
  <2> QED  BY <1>2, <1>3, <1>7, <1>9, <1>11, <2>1 DEF IsV1, Context1, vcVersion, hasObv3Context
<1>12. CASE ~IsTextIn(first, {VC_CONTEXT_V1})
  <2>1. vcVersionOf(c) = "v2"
    BY <1>4, <1>12, Zenon DEF vcVersionOf
  <2> QED  BY <1>2, <1>3, <1>4, <1>7, <1>9, <1>12, <2>1 DEF IsV1, Context1, vcVersion, hasObv3Context
<1> QED  BY <1>11, <1>12

\* A schema whose version is not that of the first context refuses the document.
LEMMA OtherVersionRefuses ==
  ASSUME call \in Calls, Selects(document),
         NEW root, NEW defs, NEW date, NEW vc \in {VC_CONTEXT_V1, VC_CONTEXT_V2},
         RootOf(root, date, vc), ConformsToClass(document, root, defs)
  PROVE  /\ vc = (IF IsV1 THEN VC_CONTEXT_V1 ELSE VC_CONTEXT_V2)
         /\ IsTextIn(At(document, date), FormatDateTime)
<1> DEFINE isA == Instances(Within(document), defs)
<1>1. IsInstance(document, root, isA)
  BY DEF ConformsToClass
<1> HIDE DEF isA
<1>2. Conforms(At(document, "context"), ContextOf(vc), isA)
  BY <1>1, RequiredMember DEF RootOf
<1>3. Conforms(At(document, date), TextIn(FormatDateTime), isA)
  BY <1>1, RequiredMember DEF RootOf
<1>4. IsTextIn(Context1, {vc})
  BY <1>2, Selected, ContextHead DEF Context1, IsTextIn
<1>5. vc = IF IsV1 THEN VC_CONTEXT_V1 ELSE VC_CONTEXT_V2
  BY <1>4, Selected DEF IsTextIn
<1> QED  BY <1>3, <1>5, ManyText

\* What passed its schema, with the schema.
LEMMA AcceptedIs ==
  ASSUME IInv, Status("schema.obv3.json") = "success"
  PROVE  /\ call \in Calls /\ IsCredential /\ Selects(document)
         /\ ConformsToClass(document, selectObSchema(document).root, selectObSchema(document).defs)
         /\ vcStructureCheck(document)
         /\ "recognition.profile" \in DOMAIN report
<1>1. /\ obv3SchemaCheck(document) = "success" /\ SuiteApplies(call.suite)
      /\ "schema.obv3.json" \in DOMAIN report /\ "schema.obv3.json" \in ObChecks
  BY ReportedStatus, ObStatusOf, ObChecksAre
<1>2. Selects(document) /\
      ConformsToClass(document, selectObSchema(document).root, selectObSchema(document).defs)
  BY <1>1, Zenon DEF obv3SchemaCheck, Verdict
<1>3. call \in Calls /\ IsCredential /\ Judged /\ CoreReported
  BY <1>1 DEF IInv, SuiteApplies
<1>4. /\ "core.vc-structure" \in DOMAIN report /\ report["core.vc-structure"] = "success"
      /\ "recognition.profile" \in DOMAIN report
  BY <1>1, <1>3 DEF Judged, Required, CoreSuite
<1>5. vcStructureCheck(document)
  <2>1. coreStatus("core.vc-structure") = "success"
    BY <1>3, <1>4 DEF CoreReported, CoreSuite
  <2> QED  BY <2>1, CoreStatusOf DEF Verdict
<1> QED  BY <1>2, <1>3, <1>4, <1>5

\* The date that starts the validity is one to the structure check as well, which
\* reads it by a grammar of its own.
LEMMA StartIsDate ==
  ASSUME call \in Calls, Selects(document), vcStructureCheck(document),
         NEW S, IsTextIn(At(document, IF IsV1 THEN "issuanceDate" ELSE "validFrom"), S)
  PROVE  IsTextIn(At(document, IF IsV1 THEN "issuanceDate" ELSE "validFrom"), DateTime)
<1> DEFINE date == IF IsV1 THEN "issuanceDate" ELSE "validFrom"
<1>1. vcVersionOf(At(document, "context")) = IF IsV1 THEN "v1" ELSE "v2"
  BY Selected DEF vcVersion
<1>2. absentOrDateTime(At(document, date))
  BY <1>1 DEF vcStructureCheck, datesOk
<1>3. At(document, date) # Undefined
  BY DEF IsTextIn, IsText, Undefined
<1> QED  BY <1>2, <1>3 DEF absentOrDateTime, isDateTime

\* A credential is judged by the version its first context names, and by its type:
\* the schema of the other version refuses what the schema of its own accepted, and
\* of the schemas it declares exactly its own passes (select-schema.ts,
\* obv3-declared-schema-check.ts, known-schema-urls.ts).
THEOREM VersionSound == Spec => []JudgedByItsVersion
<1>1. IInv => JudgedByItsVersion
  <2> DEFINE of(n)  == (IF IsBadge THEN 1 ELSE 3) + n
             mine   == of(IF IsV1 THEN 1 ELSE 0)
             other  == VENDORED_OB_SCHEMAS[of(IF IsV1 THEN 0 ELSE 1)]
             stated == {i \in 1..4 : VENDORED_OB_SCHEMAS[i].id \in declaredSchemaIds(document)}
             t == IF IsBadge THEN "OpenBadgeCredential" ELSE "EndorsementCredential"
             w == IF IsV1 THEN "v1" ELSE "v2"
             x == IF IsV1 THEN "v2" ELSE "v1"
  <2>1. SUFFICES ASSUME IInv
                 PROVE  /\ Status("schema.obv3.json") = "success" =>
                             /\ IsTextIn(At(document, IF IsV1 THEN "issuanceDate" ELSE "validFrom"),
                                         DateTime \cap FormatDateTime)
                             /\ ~ConformsToClass(document, other.root, other.defs)
                        /\ Status("schema.obv3.declared") \in {"success", "failure"} =>
                             /\ declaredSchemaIds(document) = {VENDORED_OB_SCHEMAS[mine].id}
                                  => Status("schema.obv3.declared") = "success"
                             /\ ~(stated \subseteq {mine}) => Status("schema.obv3.declared") = "failure"
    BY Zenon DEF JudgedByItsVersion, IsV1, IsBadge, Context1
  <2>2. call \in Calls
    BY <2>1 DEF IInv
  <2>3. /\ t \in {"OpenBadgeCredential", "EndorsementCredential"}
        /\ w \in {"v1", "v2"} /\ x \in {"v1", "v2"} /\ x # w
        /\ mine = Place(t, w) /\ of(IF IsV1 THEN 0 ELSE 1) = Place(t, x)
    BY DEF Place
  <2>4. ASSUME Selects(document)
        PROVE  getObType(document) = t /\ vcVersion(document) = w
    BY <2>2, <2>4, Selected
  <2>5. ASSUME Status("schema.obv3.json") = "success"
        PROVE  /\ IsTextIn(At(document, IF IsV1 THEN "issuanceDate" ELSE "validFrom"),
                           DateTime \cap FormatDateTime)
               /\ ~ConformsToClass(document, other.root, other.defs)
    <3>1. obv3SchemaCheck(document) = "success"
      BY <2>1, <2>5, ReportedStatus, ObStatusOf, ObChecksAre
    <3>2. Selects(document) /\
          ConformsToClass(document, selectObSchema(document).root, selectObSchema(document).defs)
      BY <3>1, Zenon DEF obv3SchemaCheck, Verdict
    <3> DEFINE s == VENDORED_OB_SCHEMAS[Place(t, w)]
    <3>3. ConformsToClass(document, s.root, s.defs)
      BY <2>3, <2>4, <3>2, VendoredIs DEF selectObSchema
    <3>4. RootOf(s.root, IF IsV1 THEN "issuanceDate" ELSE "validFrom",
                 IF IsV1 THEN VC_CONTEXT_V1 ELSE VC_CONTEXT_V2)
      BY <2>3, VendoredIs
    <3>5. RootOf(other.root, IF IsV1 THEN "validFrom" ELSE "issuanceDate",
                 IF IsV1 THEN VC_CONTEXT_V2 ELSE VC_CONTEXT_V1)
      BY <2>3, VendoredIs
    <3> HIDE DEF s, other
    <3>6. IsTextIn(At(document, IF IsV1 THEN "issuanceDate" ELSE "validFrom"), FormatDateTime)
      BY <2>2, <3>2, <3>3, <3>4, OtherVersionRefuses
    <3>8. IsTextIn(At(document, IF IsV1 THEN "issuanceDate" ELSE "validFrom"), DateTime)
      BY <2>1, <2>2, <2>5, <3>2, <3>6, AcceptedIs, StartIsDate
    <3>7. ~ConformsToClass(document, other.root, other.defs)
      BY <2>2, <3>2, <3>5, OtherVersionRefuses, ContextApart
    <3> QED  BY <3>6, <3>7, <3>8 DEF IsTextIn
  <2>6. ASSUME Status("schema.obv3.declared") \in {"success", "failure"}
        PROVE  /\ declaredSchemaIds(document) = {VENDORED_OB_SCHEMAS[mine].id}
                    => Status("schema.obv3.declared") = "success"
               /\ ~(stated \subseteq {mine}) => Status("schema.obv3.declared") = "failure"
    <3>1. Status("schema.obv3.declared") = obv3DeclaredSchemaCheck(document)
      BY <2>1, <2>6, ReportedStatus, ObStatusOf, ObChecksAre
    <3> DEFINE fit == \A id \in declaredSchemaIds(document) :
                        DeclaredFits(id, getObType(document), vcVersion(document))
    <3>2. Selects(document) /\ obv3DeclaredSchemaCheck(document) = Verdict(fit)
      BY <2>6, <3>1, Zenon DEF obv3DeclaredSchemaCheck
    <3>3. getObType(document) = t /\ vcVersion(document) = w
      BY <2>4, <3>2
    <3>4. ASSUME declaredSchemaIds(document) = {VENDORED_OB_SCHEMAS[mine].id}
          PROVE  fit
      BY <2>3, <3>3, <3>4, KnownIs
    <3>5. ASSUME ~(stated \subseteq {mine})
          PROVE  ~fit
      <4>1. PICK i \in 1..4 : i # mine /\ VENDORED_OB_SCHEMAS[i].id \in declaredSchemaIds(document)
        BY <3>5
      <4>2. PICK t2 \in {"OpenBadgeCredential", "EndorsementCredential"} :
              \E w2 \in {"v1", "v2"} : i = Place(t2, w2)
        BY DEF Place
      <4>3. PICK w2 \in {"v1", "v2"} : i = Place(t2, w2)
        BY <4>2
      <4>4. ~(t2 = t /\ w2 = w)
        BY <2>3, <4>1, <4>3
      <4>5. ~DeclaredFits(VENDORED_OB_SCHEMAS[i].id, t, w)
        BY <2>3, <4>3, <4>4, KnownIs
      <4> QED  BY <3>3, <4>1, <4>5
    <3> QED  BY <3>1, <3>2, <3>4, <3>5 DEF Verdict
  <2> QED  BY <2>5, <2>6
<1> QED  BY <1>1, Invariant, PTL

-----------------------------------------------------------------------------
(* Instances and plain values are fixed points.  Which values are instances of  *)
(* which classes is one function that is defined by itself, and so is which     *)
(* values are plain.  There is such a function because an operator that only    *)
(* asks for more instances is monotone: the union of the sets of instances that *)
(* justify themselves is the largest of them, and justifies exactly itself.     *)

\* What is an instance given some instances still is one given more.
Grows(a, b) == DOMAIN a = DOMAIN b /\ \A p \in DOMAIN a : a[p] => b[p]

\* More instances make more values conform,
LEMMA FitsGrows ==
  ASSUME NEW a, NEW b, Grows(a, b), NEW v, NEW alternative, Fits(v, alternative, a)
  PROVE  Fits(v, alternative, b)
BY Zenon DEF Fits, Grows

LEMMA FitsOneGrows ==
  ASSUME NEW a, NEW b, Grows(a, b), NEW v, NEW shape, FitsOne(v, shape, a)
  PROVE  FitsOne(v, shape, b)
BY FitsGrows, Zenon DEF FitsOne

LEMMA FitsArrayGrows ==
  ASSUME NEW a, NEW b, Grows(a, b), NEW v, NEW array, FitsArray(v, array, a)
  PROVE  FitsArray(v, array, b)
BY FitsOneGrows, Zenon DEF FitsArray

LEMMA ConformsGrows ==
  ASSUME NEW a, NEW b, Grows(a, b), NEW v, NEW shape, Conforms(v, shape, a)
  PROVE  Conforms(v, shape, b)
BY FitsOneGrows, FitsArrayGrows, Zenon DEF Conforms

\* and more of them instances.
LEMMA InstanceGrows ==
  ASSUME NEW a, NEW b, Grows(a, b), NEW v, NEW class, IsInstance(v, class, a)
  PROVE  IsInstance(v, class, b)
BY ConformsGrows, Zenon DEF IsInstance

\* Two truth values that imply each other are the same.
LEMMA SameTruth ==
  ASSUME NEW x \in BOOLEAN, NEW S, NEW p, p \in S <=> x
  PROVE  (p \in S) = x
OBVIOUS

\* The instances of the classes are those that the classes say, although a class
\* may refer to itself: the largest set of values that bear one another out.
LEMMA InstancesAre ==
  ASSUME NEW values, NEW defs
  PROVE  LET isA == Instances(values, defs)
         IN  isA = [p \in values \X DOMAIN defs |-> IsInstance(p[1], defs[p[2]], isA)]
<1> DEFINE D == values \X DOMAIN defs
           as(X) == [p \in D |-> p \in X]
           Sound(X) == \A p \in X : IsInstance(p[1], defs[p[2]], as(X))
           R == UNION {X \in SUBSET D : Sound(X)}
<1>1. \A X, Y \in SUBSET D : X \subseteq Y => Grows(as(X), as(Y))
  BY DEF Grows
<1>2. R \in SUBSET D
  OBVIOUS
<1>3. Sound(R)
  <2>1. SUFFICES ASSUME NEW p \in R PROVE IsInstance(p[1], defs[p[2]], as(R))
    OBVIOUS
  <2>2. PICK X \in SUBSET D : Sound(X) /\ p \in X
    BY <2>1
  <2>3. X \subseteq R
    BY <2>2
  <2>4. Grows(as(X), as(R))
    BY <1>1, <1>2, <2>3
  <2>5. IsInstance(p[1], defs[p[2]], as(X))
    BY <2>2
  <2> HIDE DEF as, R
  <2> QED  BY <2>4, <2>5, InstanceGrows
<1>4. \A p \in D : IsInstance(p[1], defs[p[2]], as(R)) => p \in R
  <2>1. SUFFICES ASSUME NEW p \in D, IsInstance(p[1], defs[p[2]], as(R)) PROVE p \in R
    OBVIOUS
  <2> DEFINE X == R \cup {p}
  <2>2. X \in SUBSET D /\ R \subseteq X
    BY <1>2
  <2>3. Grows(as(R), as(X))
    BY <1>1, <1>2, <2>2
  <2>4. \A q \in X : IsInstance(q[1], defs[q[2]], as(R))
    BY <1>3, <2>1
  <2>5. Sound(X)
    <3> HIDE DEF as, X, R
    <3> QED  BY <2>3, <2>4, InstanceGrows
  <2> QED  BY <2>2, <2>5
<1>5. as(R) = [p \in D |-> IsInstance(p[1], defs[p[2]], as(R))]
  <2>1. \A p \in D : (p \in R) <=> IsInstance(p[1], defs[p[2]], as(R))
    BY <1>3, <1>4
  <2> DEFINE f == as(R)
             g == [p \in D |-> IsInstance(p[1], defs[p[2]], as(R))]
  <2>2. DOMAIN f = D /\ DOMAIN g = D
    OBVIOUS
  <2>3. ASSUME NEW p \in D
        PROVE  f[p] = g[p]
    <3>1. IsInstance(p[1], defs[p[2]], as(R)) \in BOOLEAN
      BY DEF IsInstance
    <3>2. (p \in R) = IsInstance(p[1], defs[p[2]], as(R))
      <4> HIDE DEF as, R
      <4>1. p \in R <=> IsInstance(p[1], defs[p[2]], as(R))
        BY <2>1
      <4> QED  BY <3>1, <4>1, SameTruth
    <3> QED  BY <3>2
  <2> QED  BY <2>2, <2>3
<1>6. \E f : f = [p \in D |-> IsInstance(p[1], defs[p[2]], f)]
  <2> HIDE DEF as, D
  <2> QED  BY <1>5
<1>7. Instances(values, defs) = CHOOSE f : f = [p \in D |-> IsInstance(p[1], defs[p[2]], f)]
  BY DEF Instances
<1> HIDE DEF D
<1> QED  BY <1>6, <1>7 DEF D

\* A value of a class is what the class says, given the others.
Classed(values, defs, isA) ==
  \A v \in values : \A name \in DOMAIN defs :
    Holds(v, name, isA) <=> IsInstance(v, defs[name], isA)

\* The instances in a document are classed.
LEMMA InstancesClassed ==
  ASSUME NEW values, NEW defs
  PROVE  Classed(values, defs, Instances(values, defs))
<1> DEFINE isA == Instances(values, defs)
           D   == values \X DOMAIN defs
<1>1. isA = [p \in D |-> IsInstance(p[1], defs[p[2]], isA)]
  BY InstancesAre
<1> HIDE DEF isA
<1>2. ASSUME NEW v \in values, NEW name \in DOMAIN defs
      PROVE  Holds(v, name, isA) <=> IsInstance(v, defs[name], isA)
  <2>1. <<v, name>> \in D
    OBVIOUS
  <2>2. <<v, name>> \in DOMAIN isA
    BY <1>1, <2>1
  <2>3. isA[<<v, name>>] = IsInstance(v, defs[name], isA)
    BY <1>1, <2>1
  <2> QED  BY <2>2, <2>3, Zenon DEF Holds
<1> QED  BY <1>2 DEF Classed, isA

\* The same of plain values.
LEMMA HereGrows ==
  ASSUME NEW a, NEW b, Grows(a, b), NEW v, PlainHere(v, a)
  PROVE  PlainHere(v, b)
BY Zenon DEF PlainHere, Grows

\* A value is plain when it is plain here and what it holds is plain.
LEMMA PlainIs ==
  ASSUME NEW values
  PROVE  LET plain == PlainIn(values)
         IN  plain = [v \in values |-> PlainHere(v, plain)]
<1> DEFINE as(X) == [v \in values |-> v \in X]
           Sound(X) == \A v \in X : PlainHere(v, as(X))
           R == UNION {X \in SUBSET values : Sound(X)}
<1>1. \A X, Y \in SUBSET values : X \subseteq Y => Grows(as(X), as(Y))
  BY DEF Grows
<1>2. R \in SUBSET values
  OBVIOUS
<1>3. Sound(R)
  <2>1. SUFFICES ASSUME NEW v \in R PROVE PlainHere(v, as(R))
    OBVIOUS
  <2>2. PICK X \in SUBSET values : Sound(X) /\ v \in X
    BY <2>1
  <2>3. X \subseteq R
    BY <2>2
  <2>4. Grows(as(X), as(R))
    BY <1>1, <1>2, <2>3
  <2>5. PlainHere(v, as(X))
    BY <2>2
  <2> HIDE DEF as, R
  <2> QED  BY <2>4, <2>5, HereGrows
<1>4. \A v \in values : PlainHere(v, as(R)) => v \in R
  <2>1. SUFFICES ASSUME NEW v \in values, PlainHere(v, as(R)) PROVE v \in R
    OBVIOUS
  <2> DEFINE X == R \cup {v}
  <2>2. X \in SUBSET values /\ R \subseteq X
    BY <1>2
  <2>3. Grows(as(R), as(X))
    BY <1>1, <1>2, <2>2
  <2>4. \A w \in X : PlainHere(w, as(R))
    BY <1>3, <2>1
  <2>5. Sound(X)
    <3> HIDE DEF as, X, R
    <3> QED  BY <2>3, <2>4, HereGrows
  <2> QED  BY <2>2, <2>5
<1>5. as(R) = [v \in values |-> PlainHere(v, as(R))]
  <2> DEFINE f == as(R)
             g == [v \in values |-> PlainHere(v, as(R))]
  <2>1. DOMAIN f = values /\ DOMAIN g = values
    OBVIOUS
  <2>2. ASSUME NEW v \in values
        PROVE  f[v] = g[v]
    <3>1. PlainHere(v, as(R)) \in BOOLEAN
      BY DEF PlainHere
    <3>2. (v \in R) = PlainHere(v, as(R))
      <4>1. v \in R <=> PlainHere(v, as(R))
        BY <1>3, <1>4
      <4> HIDE DEF as, R
      <4> QED  BY <3>1, <4>1, SameTruth
    <3> QED  BY <3>2
  <2> QED  BY <2>1, <2>2
<1>6. \E f : f = [v \in values |-> PlainHere(v, f)]
  <2> HIDE DEF as
  <2> QED  BY <1>5
<1>7. PlainIn(values) = CHOOSE f : f = [v \in values |-> PlainHere(v, f)]
  BY DEF PlainIn
<1> QED  BY <1>6, <1>7

-----------------------------------------------------------------------------
(* Plain values: what conforms to a shape of the vendored schemas conforms to   *)
(* the shape the parser has for it                                              *)

\* A document's values, of which some are plain, with the instances of a
\* vendored schema's classes among them and those of the parser's classes.
World(vs, plain, defs, a, b) ==
  /\ Values(vs)
  /\ DOMAIN plain = vs /\ \A v \in vs : plain[v] => PlainHere(v, plain)
  /\ Classed(vs, defs, a)
  /\ Classed(vs, Classes, b)

\* A member of a plain value, and one in particular.
Of(vs, plain, n, m) == m \in vs /\ plain[m] /\ PlainMember(n, m)

\* What a plain value holds is plain.
LEMMA MemberPlain ==
  ASSUME NEW vs, NEW plain, NEW defs, NEW a, NEW b, World(vs, plain, defs, a, b),
         NEW v \in vs, plain[v], isPlainObject(v), NEW n \in DOMAIN v.members, n \notin Unread
  PROVE  Of(vs, plain, n, v.members[n])
BY Zenon DEF World, Of, PlainHere

LEMMA ItemPlain ==
  ASSUME NEW vs, NEW plain, NEW defs, NEW a, NEW b, World(vs, plain, defs, a, b),
         NEW v \in vs, plain[v], v.kind = "array", NEW i \in DOMAIN v.items
  PROVE  v.items[i] \in vs /\ plain[v.items[i]]
BY Zenon DEF World, PlainHere

\* A string is a text to the parser, and a language map is not.
LEMMA TextOf ==
  ASSUME NEW vs, Values(vs), NEW v \in vs, IsText(v), NEW b
  PROVE  Conforms(v, AnyText, b) /\ FitsOne(v, AnyText, b)
<1>1. v.text \in STRING
  BY TextIs DEF Values
<1>2. IsTextIn(v, STRING)
  BY <1>1 DEF IsTextIn
<1> QED  BY <1>2, ManyText, OneText DEF AnyText

LEMMA MapOf ==
  ASSUME NEW vs, Values(vs), NEW v \in vs, NEW S, IsLanguageMap(v, S)
  PROVE  IsLanguageMap(v, STRING)
<1>1. isPlainObject(v) /\ DOMAIN v.members \subseteq LanguageTag
  BY DEF IsLanguageMap
<1>2. ASSUME NEW n \in DOMAIN v.members PROVE IsTextIn(v.members[n], STRING)
  <2>1. IsText(v.members[n])
    BY DEF IsLanguageMap, IsTextIn
  <2>2. IsJson(v.members[n])
    BY <1>1, PartOfObject DEF Values
  <2> QED  BY <2>1, <2>2, TextIs DEF IsTextIn
<1> QED  BY <1>1, <1>2 DEF IsLanguageMap

\* A plain value that a schema takes for text or a language map is text.
LEMMA LocalizedIs ==
  ASSUME NEW vs, Values(vs), NEW plain, NEW n, NEW m, Of(vs, plain, n, m), n # "criteria",
         NEW S, NEW a, Conforms(m, Localized(S), a)
  PROVE  IsTextIn(m, S)
<1>1. IsTextIn(m, S) \/ IsLanguageMap(m, S)
  BY ManyEither, ManyText, ManyMap, Zenon DEF Localized
<1>2. ~IsLanguageMap(m, S)
  BY MapOf DEF Of, PlainMember
<1> QED  BY <1>1, <1>2

\* A plain value that the schema takes for a string is one to the parser too, of
\* whatever vocabulary; one named like a URL is a URL and an IRI.
LEMMA PlainText ==
  ASSUME NEW vs, Values(vs), NEW plain, NEW n, NEW m, Of(vs, plain, n, m), n # "criteria",
         NEW a, Conforms(m, String, a), NEW b
  PROVE  IsText(m) /\ Conforms(m, AnyText, b)
<1>1. IsText(m)
  BY LocalizedIs DEF String, IsTextIn
<1> QED  BY <1>1, TextOf DEF Of

LEMMA PlainTextIn ==
  ASSUME NEW vs, Values(vs), NEW m \in vs, NEW S, NEW a, Conforms(m, TextIn(S), a), NEW b
  PROVE  Conforms(m, AnyText, b)
BY ManyText, TextOf DEF IsTextIn

LEMMA PlainUrl ==
  ASSUME NEW m, IsTextIn(m, Url \cap Iri), NEW b
  PROVE  Conforms(m, UrlString, b) /\ Conforms(m, IriString, b)
<1>1. IsTextIn(m, Url) /\ IsTextIn(m, Iri)
  BY DEF IsTextIn
<1> QED  BY <1>1, ManyText DEF UrlString, IriString

\* The items of a plain array that a schema takes for texts or maps are texts.
LEMMA ItemTexts ==
  ASSUME NEW vs, Values(vs), NEW plain, NEW n, NEW m, Of(vs, plain, n, m), m.kind = "array",
         NEW a, NEW b, NEW i \in DOMAIN m.items, FitsOne(m.items[i], String, a)
  PROVE  FitsOne(m.items[i], AnyText, b)
<1>1. IsTextIn(m.items[i], STRING) \/ IsLanguageMap(m.items[i], STRING)
  BY OneEither, OneText, OneMap, Zenon DEF String, Localized
<1>2. Items(m) = m.items
  BY DEF Items
<1>3. ~IsLanguageMap(m.items[i], STRING)
  BY <1>2 DEF Of, PlainMember
<1>4. m.items[i] \in vs
  BY ItemIsValue DEF Of
<1> QED  BY <1>1, <1>3, <1>4, TextOf DEF IsTextIn

\* Arrays keep what the schema asks of their first items and of some items.
LEMMA PlainArray ==
  ASSUME NEW vs, Values(vs), NEW plain, NEW n, NEW m, Of(vs, plain, n, m),
         NEW a, NEW b, NEW holds, ArrayFits(m, String, <<>>, holds, a)
  PROVE  Conforms(m, Array(AnyText, <<>>, holds), b)
<1>1. /\ m.kind = "array" /\ Len(m.items) >= Len(<<>>)
      /\ \A h \in DOMAIN holds : \E i \in DOMAIN m.items : IsTextIn(m.items[i], holds[h])
      /\ \A i \in DOMAIN m.items : FitsOne(m.items[i], String, a)
  BY DEF ArrayFits
<1>2. \A i \in DOMAIN m.items : FitsOne(m.items[i], AnyText, b)
  BY <1>1, ItemTexts
<1>3. ArrayFits(m, AnyText, <<>>, holds, b)
  BY <1>1, <1>2 DEF ArrayFits
<1> QED  BY <1>3, ManyArray

\* The type of a plain value names its class, as the parser wants it.
LEMMA PlainTypes ==
  ASSUME NEW vs, Values(vs), NEW plain, NEW m, Of(vs, plain, "type", m), ~IsText(m),
         NEW a, NEW b, NEW name, Conforms(m, TypeIs(name), a)
  PROVE  Conforms(m, JsonLdTypeField({name}), b)
<1>1. Conforms(m, String, a) \/ Conforms(m, Array(String, <<>>, <<{name}>>), a)
  BY ManyEither, Zenon DEF TypeIs, TypeOf
<1>2. ~Conforms(m, String, a)
  BY PlainText
<1>3. ArrayFits(m, String, <<>>, <<{name}>>, a)
  BY <1>1, <1>2, ManyArray, Zenon
<1>4. Conforms(m, Array(AnyText, <<>>, <<{name}>>), b)
  BY <1>3, PlainArray
<1> QED  BY <1>4, ManyEither, Zenon DEF JsonLdTypeField

LEMMA PlainType ==
  ASSUME NEW vs, Values(vs), NEW plain, NEW m, Of(vs, plain, "type", m),
         NEW a, NEW b, NEW name, Conforms(m, Localized({name}), a)
  PROVE  Conforms(m, JsonLdTypeField({name}), b)
<1>1. IsTextIn(m, {name})
  BY LocalizedIs
<1> QED  BY <1>1, ManyText, ManyEither, Zenon DEF JsonLdTypeField

\* An instance is an object with all that its class requires.
LEMMA IsObject ==
  ASSUME NEW vs, NEW defs, NEW a, Classed(vs, defs, a),
         NEW v \in vs, NEW name \in DOMAIN defs, Holds(v, name, a)
  PROVE  IsInstance(v, defs[name], a) /\ isPlainObject(v) /\ v.kind = "object"
<1>1. IsInstance(v, defs[name], a)
  BY DEF Classed
<1> QED  BY <1>1 DEF IsInstance, isPlainObject

\* An array that a schema takes for instances of a class, each of which the
\* parser takes for one of its own.
LEMMA PlainArrayOf ==
  ASSUME NEW vs, NEW defs, NEW a, Classed(vs, defs, a), NEW m \in vs, m.kind = "array",
         NEW name \in DOMAIN defs, Conforms(m, OneOrMany(A(name)), a),
         NEW other, NEW b,
         \A i \in DOMAIN m.items : Holds(m.items[i], name, a) => Holds(m.items[i], other, b)
  PROVE  Conforms(m, ArrayOf(A(other)), b)
<1>1. ~Conforms(m, A(name), a)
  BY IsObject, ManyClass
<1>2. Conforms(m, Array(A(name), <<>>, <<>>), a)
  BY <1>1, ManyEither, Zenon DEF OneOrMany, ArrayOf
<1>3. ArrayFits(m, A(name), <<>>, <<>>, a)
  BY <1>2, ManyArray, Zenon
<1>4. Len(m.items) >= Len(<<>>) /\ \A i \in DOMAIN m.items : FitsOne(m.items[i], A(name), a)
  BY <1>3 DEF ArrayFits
<1>5. \A i \in DOMAIN m.items : FitsOne(m.items[i], A(other), b)
  BY <1>4, OneClass
<1>6. ArrayFits(m, A(other), <<>>, <<>>, b)
  BY <1>4, <1>5 DEF ArrayFits
<1> QED  BY <1>6, ManyArray DEF ArrayOf

\* What makes an instance of one of the parser's classes.
LEMMA InstanceIf ==
  ASSUME NEW v, NEW class, NEW b, isPlainObject(v), class.required \subseteq DOMAIN v.members,
         ~class.closed,
         \A n \in DOMAIN class.members :
           n \in DOMAIN v.members => Conforms(v.members[n], class.members[n], b)
  PROVE  IsInstance(v, class, b)
BY DEF IsInstance

-----------------------------------------------------------------------------
(* The classes the parser knows: a plain instance of a class of the vendored     *)
(* schema is an instance of the parser's, class by class from those that hold    *)
(* no other up to the subject of a badge                                         *)

\* A schema gives a class this name.
Names(defs, name, class) == name \in DOMAIN defs /\ defs[name] = class

\* A plain value that is an instance of a class of the vendored schema.
Seen(vs, plain, defs, a, b, v, class) ==
  World(vs, plain, defs, a, b) /\ v \in vs /\ plain[v] /\ IsInstance(v, class, a)

\* What the parser asks of a member that is there.
Carries(v, n, shape, b) == n \in DOMAIN v.members => Conforms(v.members[n], shape, b)

\* What is known of a member of such a value that the parser reads: it is a plain
\* value of the document.
LEMMA SeenMember ==
  ASSUME NEW vs, NEW plain, NEW defs, NEW a, NEW b, NEW v, NEW class,
         Seen(vs, plain, defs, a, b, v, class),
         NEW n, n \in DOMAIN v.members, n \notin Unread
  PROVE  Values(vs) /\ Of(vs, plain, n, v.members[n]) /\ At(v, n) = v.members[n]
<1>1. World(vs, plain, defs, a, b) /\ v \in vs /\ plain[v] /\ isPlainObject(v)
  BY Zenon DEF Seen, IsInstance
<1>2. Values(vs)
  BY <1>1 DEF World
<1>3. Of(vs, plain, n, v.members[n])
  BY <1>1, MemberPlain
<1> QED  BY <1>1, <1>2, <1>3 DEF At

\* What conforms to the schema at a member conforms to the parser's shape there: a
\* string,
LEMMA StringMember ==
  ASSUME NEW vs, NEW plain, NEW defs, NEW a, NEW b, NEW v, NEW class,
         Seen(vs, plain, defs, a, b, v, class),
         NEW n, n \notin Unread, n # "criteria", Takes(class, n, String)
  PROVE  Carries(v, n, AnyText, b)
<1> SUFFICES ASSUME n \in DOMAIN v.members PROVE Conforms(v.members[n], AnyText, b)
  BY DEF Carries
<1>1. Values(vs) /\ Of(vs, plain, n, v.members[n])
  BY SeenMember
<1>2. Conforms(v.members[n], String, a)
  BY MemberFits DEF Seen
<1> QED  BY <1>1, <1>2, PlainText

\* a term of a vocabulary, which the parser takes for any text,
LEMMA TextMember ==
  ASSUME NEW vs, NEW plain, NEW defs, NEW a, NEW b, NEW v, NEW class,
         Seen(vs, plain, defs, a, b, v, class),
         NEW n, n \notin Unread, NEW S, Takes(class, n, TextIn(S))
  PROVE  Carries(v, n, AnyText, b)
<1> SUFFICES ASSUME n \in DOMAIN v.members PROVE Conforms(v.members[n], AnyText, b)
  BY DEF Carries
<1>1. Values(vs) /\ Of(vs, plain, n, v.members[n])
  BY SeenMember
<1>2. Conforms(v.members[n], TextIn(S), a)
  BY MemberFits DEF Seen
<1> QED  BY <1>1, <1>2, PlainTextIn DEF Of

\* a URL,
LEMMA UrlMember ==
  ASSUME NEW vs, NEW plain, NEW defs, NEW a, NEW b, NEW v, NEW class,
         Seen(vs, plain, defs, a, b, v, class),
         NEW n \in UrlNames
  PROVE  Carries(v, n, UrlString, b) /\ Carries(v, n, IriString, b)
<1> SUFFICES ASSUME n \in DOMAIN v.members
             PROVE  Conforms(v.members[n], UrlString, b) /\ Conforms(v.members[n], IriString, b)
  BY DEF Carries
<1>1. n \notin Unread
  BY DEF UrlNames, Unread
<1>2. Of(vs, plain, n, v.members[n])
  BY <1>1, SeenMember
<1> QED  BY <1>2, PlainUrl DEF Of, PlainMember

\* an e-mail address,
LEMMA EmailMember ==
  ASSUME NEW vs, NEW plain, NEW defs, NEW a, NEW b, NEW v, NEW class,
         Seen(vs, plain, defs, a, b, v, class)
  PROVE  Carries(v, "email", TextIn(Email), b)
<1> SUFFICES ASSUME "email" \in DOMAIN v.members
             PROVE  Conforms(v.members["email"], TextIn(Email), b)
  BY DEF Carries
<1>1. "email" \notin Unread
  BY DEF Unread
<1>2. Of(vs, plain, "email", v.members["email"])
  BY <1>1, SeenMember
<1> QED  BY <1>2, ManyText DEF Of, PlainMember

\* and the types, as an array or as the one text that some classes have.
LEMMA TypesMember ==
  ASSUME NEW vs, NEW plain, NEW defs, NEW a, NEW b, NEW v, NEW class,
         Seen(vs, plain, defs, a, b, v, class),
         NEW name, Takes(class, "type", TypeIs(name)), ~IsText(At(v, "type"))
  PROVE  Carries(v, "type", JsonLdTypeField({name}), b)
<1> SUFFICES ASSUME "type" \in DOMAIN v.members
             PROVE  Conforms(v.members["type"], JsonLdTypeField({name}), b)
  BY DEF Carries
<1>1. "type" \notin Unread
  BY DEF Unread
<1>2. /\ Values(vs) /\ Of(vs, plain, "type", v.members["type"])
      /\ At(v, "type") = v.members["type"]
  BY <1>1, SeenMember
<1>3. Conforms(v.members["type"], TypeIs(name), a)
  BY MemberFits DEF Seen
<1> QED  BY <1>2, <1>3, PlainTypes

LEMMA TypeMember ==
  ASSUME NEW vs, NEW plain, NEW defs, NEW a, NEW b, NEW v, NEW class,
         Seen(vs, plain, defs, a, b, v, class),
         NEW name, Takes(class, "type", Localized({name}))
  PROVE  Carries(v, "type", JsonLdTypeField({name}), b)
<1> SUFFICES ASSUME "type" \in DOMAIN v.members
             PROVE  Conforms(v.members["type"], JsonLdTypeField({name}), b)
  BY DEF Carries
<1>1. "type" \notin Unread
  BY DEF Unread
<1>2. Values(vs) /\ Of(vs, plain, "type", v.members["type"])
  BY <1>1, SeenMember
<1>3. Conforms(v.members["type"], Localized({name}), a)
  BY MemberFits DEF Seen
<1> QED  BY <1>2, <1>3, PlainType

\* A member that is an instance: plain itself, and its types an array unless it
\* is an image.
LEMMA ClassMember ==
  ASSUME NEW vs, NEW plain, NEW defs, NEW a, NEW b, NEW v, NEW class,
         Seen(vs, plain, defs, a, b, v, class),
         NEW n, n \notin Unread, n \in DOMAIN v.members, NEW name, Takes(class, n, A(name))
  PROVE  /\ v.members[n] \in vs /\ plain[v.members[n]] /\ Holds(v.members[n], name, a)
         /\ n # "image" => ~IsText(At(v.members[n], "type"))
<1>1. Of(vs, plain, n, v.members[n])
  BY SeenMember
<1>2. Conforms(v.members[n], A(name), a)
  BY MemberFits DEF Seen
<1> QED  BY <1>1, <1>2, ManyClass DEF Of, PlainMember

\* A member that is read as an array: its items are plain.
LEMMA ArrayMember ==
  ASSUME NEW vs, NEW plain, NEW defs, NEW a, NEW b, NEW v, NEW class,
         Seen(vs, plain, defs, a, b, v, class),
         NEW n \in ArrayNames, n \in DOMAIN v.members
  PROVE  /\ v.members[n] \in vs /\ v.members[n].kind = "array"
         /\ \A i \in DOMAIN v.members[n].items :
              /\ v.members[n].items[i] \in vs /\ plain[v.members[n].items[i]]
              /\ n # "identifier" => ~IsText(At(v.members[n].items[i], "type"))
<1> DEFINE m == v.members[n]
<1>1. n \notin Unread
  BY DEF ArrayNames, Unread
<1>2. Of(vs, plain, n, m)
  BY <1>1, SeenMember
<1> HIDE DEF m
<1>3. m \in vs /\ plain[m] /\ m.kind = "array"
  BY <1>2 DEF Of, PlainMember
<1>4. Items(m) = m.items
  BY <1>3 DEF Items
<1>5. \A i \in DOMAIN m.items : n # "identifier" => ~IsText(At(m.items[i], "type"))
  BY <1>2, <1>4 DEF Of, PlainMember
<1>6. \A i \in DOMAIN m.items : m.items[i] \in vs /\ plain[m.items[i]]
  BY <1>3, ItemPlain DEF Seen
<1> QED  BY <1>3, <1>5, <1>6 DEF m

\* The descriptions of an achievement's results: an array, although a plain
\* member of that name may also be a URL, as a result's is.
LEMMA DescriptionsMember ==
  ASSUME NEW vs, NEW plain, NEW defs, NEW a, NEW b, NEW v, NEW class,
         Seen(vs, plain, defs, a, b, v, class), "ResultDescription" \in DOMAIN defs,
         Takes(class, "resultDescription", OneOrMany(A("ResultDescription"))),
         "resultDescription" \in DOMAIN v.members
  PROVE  /\ v.members["resultDescription"] \in vs
         /\ v.members["resultDescription"].kind = "array"
         /\ \A i \in DOMAIN v.members["resultDescription"].items :
              LET item == v.members["resultDescription"].items[i]
              IN  item \in vs /\ plain[item] /\ ~IsText(At(item, "type"))
<1> DEFINE m == v.members["resultDescription"]
<1>1. "resultDescription" \notin Unread
  BY DEF Unread
<1>2. Of(vs, plain, "resultDescription", m)
  BY <1>1, SeenMember
<1>3. Conforms(m, OneOrMany(A("ResultDescription")), a)
  BY MemberFits DEF Seen
<1> HIDE DEF m
<1>4. m \in vs /\ plain[m] /\ (m.kind = "array" \/ isUrl(m))
  BY <1>2 DEF Of, PlainMember
<1>5. m.kind = "array"
  <2>1. SUFFICES ASSUME m.kind = "string" PROVE FALSE
    BY <1>4 DEF isUrl, IsTextIn, IsText
  <2>2. ~Conforms(m, A("ResultDescription"), a)
    <3>1. Classed(vs, defs, a)
      BY DEF Seen, World
    <3> QED  BY <1>4, <2>1, <3>1, IsObject, ManyClass
  <2>3. Conforms(m, Array(A("ResultDescription"), <<>>, <<>>), a)
    BY <1>3, <2>2, ManyEither, Zenon DEF OneOrMany, ArrayOf
  <2>4. m.kind = "array"
    BY <2>3, ManyArray DEF ArrayFits
  <2> QED  BY <2>1, <2>4
<1>6. Items(m) = m.items
  BY <1>5 DEF Items
<1>7. \A i \in DOMAIN m.items : ~IsText(At(m.items[i], "type"))
  BY <1>2, <1>6 DEF Of, PlainMember
<1>8. \A i \in DOMAIN m.items : m.items[i] \in vs /\ plain[m.items[i]]
  BY <1>4, <1>5, ItemPlain DEF Seen
<1> QED  BY <1>4, <1>5, <1>7, <1>8 DEF m

\* A member that is an instance of one class is an instance of the parser's
\* class when every such value of the document is.
LEMMA InstanceMember ==
  ASSUME NEW vs, NEW plain, NEW defs, NEW a, NEW b, NEW v, NEW class,
         Seen(vs, plain, defs, a, b, v, class),
         NEW n, n \notin Unread, NEW name, Takes(class, n, A(name)), NEW target,
         \A m \in vs :
           plain[m] /\ Holds(m, name, a) /\ (n # "image" => ~IsText(At(m, "type")))
             => Holds(m, target, b)
  PROVE  n \in DOMAIN v.members => Holds(v.members[n], target, b)
BY ClassMember

\* An image or a profile is what the parser takes where a URL would do as well.
LEMMA ImageFits ==
  ASSUME NEW m, NEW b, Holds(m, "Image", b)
  PROVE  Conforms(m, ImageField, b)
BY ManyClass, ManyEither, Zenon DEF ImageField

LEMMA ProfileFits ==
  ASSUME NEW m, NEW b, Holds(m, "Profile", b)
  PROVE  Conforms(m, ProfileRefField, b)
BY ManyClass, ManyEither, Zenon DEF ProfileRefField

\* An image that the schema accepted, when the images of the document are the
\* parser's.
LEMMA ImageMember ==
  ASSUME NEW vs, NEW plain, NEW defs, NEW a, NEW b, NEW v, NEW class,
         Seen(vs, plain, defs, a, b, v, class), Takes(class, "image", A("Image")),
         \A m \in vs : plain[m] /\ Holds(m, "Image", a) => Holds(m, "Image", b)
  PROVE  Carries(v, "image", ImageField, b)
<1>1. "image" \notin Unread
  BY DEF Unread
<1>2. "image" \in DOMAIN v.members => Holds(v.members["image"], "Image", b)
  BY <1>1, InstanceMember
<1> QED  BY <1>2, ImageFits DEF Carries

\* The same of the items of an array.
LEMMA InstanceItems ==
  ASSUME NEW vs, NEW plain, NEW defs, NEW a, NEW b, NEW v, NEW class,
         Seen(vs, plain, defs, a, b, v, class), NEW n \in ArrayNames,
         NEW name, name \in DOMAIN defs, Takes(class, n, OneOrMany(A(name))),
         \A m \in vs :
           plain[m] /\ Holds(m, name, a) /\ (n # "identifier" => ~IsText(At(m, "type")))
             => Holds(m, name, b)
  PROVE  Carries(v, n, ArrayOf(A(name)), b)
<1> SUFFICES ASSUME n \in DOMAIN v.members PROVE Conforms(v.members[n], ArrayOf(A(name)), b)
  BY DEF Carries
<1> DEFINE m == v.members[n]
<1>1. Conforms(m, OneOrMany(A(name)), a)
  BY MemberFits DEF Seen
<1>2. /\ m \in vs /\ m.kind = "array"
      /\ \A i \in DOMAIN m.items :
           /\ m.items[i] \in vs /\ plain[m.items[i]]
           /\ n # "identifier" => ~IsText(At(m.items[i], "type"))
  BY ArrayMember
<1> HIDE DEF m
<1>3. \A i \in DOMAIN m.items : Holds(m.items[i], name, a) => Holds(m.items[i], name, b)
  BY <1>2
<1>4. Classed(vs, defs, a)
  BY DEF Seen, World
<1> QED  BY <1>1, <1>2, <1>3, <1>4, PlainArrayOf DEF m

\* A value is an instance of the parser's class when it has the members the
\* class requires and those it has are what the class takes.
LEMMA InstanceOf ==
  ASSUME NEW vs, NEW plain, NEW defs, NEW a, NEW b, NEW v, NEW class,
         Seen(vs, plain, defs, a, b, v, class),
         NEW name, NEW c, Names(Classes, name, c), ~c.closed,
         c.required \subseteq DOMAIN v.members,
         \A n \in DOMAIN c.members : Carries(v, n, c.members[n], b)
  PROVE  Holds(v, name, b)
<1>1. isPlainObject(v) /\ v \in vs /\ Classed(vs, Classes, b)
  BY Zenon DEF Seen, IsInstance, World
<1>2. IsInstance(v, c, b)
  BY <1>1, InstanceIf DEF Carries
<1> QED  BY <1>1, <1>2 DEF Classed, Names

\* The parser's class of images, and that those of the schema are among them.  The
\* lemmas of the other classes have the same form.
LEMMA ParserImage ==
  LET c == Obv3p0ImageSchema
  IN  /\ Names(Classes, "Image", c) /\ ~c.closed
      /\ c.required = {"id", "type"}
      /\ DOMAIN c.members = {"id", "type", "caption"}
      /\ c.members["caption"] = AnyText
      /\ c.members["id"] = IriString
      /\ c.members["type"] = JsonLdTypeField({"Image"})
<1> DEFINE c == Obv3p0ImageSchema
<1>1. Names(Classes, "Image", c)
  BY DEF Names, Classes
<1>2. ~c.closed /\ c.required = {"id", "type"}
  BY DEF Obv3p0ImageSchema, Class
<1>3. /\ DOMAIN c.members = {"id", "type", "caption"}
      /\ c.members["caption"] = AnyText
      /\ c.members["id"] = IriString
      /\ c.members["type"] = JsonLdTypeField({"Image"})
  BY DEF Obv3p0ImageSchema, Class, ++, Members
<1> QED  BY <1>1, <1>2, <1>3

LEMMA ImageCarried ==
  ASSUME NEW vs, NEW plain, NEW defs, NEW a, NEW b, World(vs, plain, defs, a, b),
         Names(defs, "Image", Image),
         NEW v \in vs, plain[v], Holds(v, "Image", a)
  PROVE  Holds(v, "Image", b)
<1>1. Seen(vs, plain, defs, a, b, v, Image)
  BY IsObject DEF World, Names, Seen
<1>2. Obv3p0ImageSchema.required \subseteq DOMAIN v.members
  <2>1. {"id", "type"} \subseteq Image.required
    BY DEF Image, Class, Closed
  <2> QED  BY <1>1, <2>1, ParserImage DEF Seen, IsInstance
<1>3. Carries(v, "caption", AnyText, b)
  <2>1. Takes(Image, "caption", String) /\ "caption" \notin Unread
    BY DEF Takes, Image, Class, Closed, ++, Members, Unread
  <2> QED  BY <1>1, <2>1, StringMember
<1>4. Carries(v, "id", IriString, b)
  BY <1>1, UrlMember DEF UrlNames
<1>5. Carries(v, "type", JsonLdTypeField({"Image"}), b)
  <2>1. Takes(Image, "type", Localized({"Image"})) /\ "type" \notin Unread
    BY DEF Takes, Image, Class, Closed, ++, Members, Unread
  <2> QED  BY <1>1, <2>1, TypeMember
<1>6. \A n \in DOMAIN Obv3p0ImageSchema.members :
        Carries(v, n, Obv3p0ImageSchema.members[n], b)
  BY <1>3, <1>4, <1>5, ParserImage
<1> QED  BY <1>1, <1>2, <1>6, ParserImage, InstanceOf

LEMMA ParserAlignment ==
  LET c == Obv3p0AlignmentSchema
  IN  /\ Names(Classes, "Alignment", c) /\ ~c.closed
      /\ c.required = {"type", "targetName", "targetUrl"}
      /\ DOMAIN c.members = {"type", "targetName", "targetCode", "targetDescription",
                             "targetFramework", "targetType", "targetUrl"}
      /\ c.members["targetUrl"] = UrlString
      /\ \A n \in {"targetName", "targetCode", "targetDescription", "targetFramework"} :
           c.members[n] = AnyText
      /\ c.members["type"] = JsonLdTypeField({"Alignment"})
      /\ c.members["targetType"] = AnyText
<1> DEFINE c == Obv3p0AlignmentSchema
<1>1. Names(Classes, "Alignment", c)
  BY DEF Names, Classes
<1>2. ~c.closed /\ c.required = {"type", "targetName", "targetUrl"}
  BY DEF Obv3p0AlignmentSchema, Class
<1>3. /\ DOMAIN c.members = {"type", "targetName", "targetCode", "targetDescription",
                             "targetFramework", "targetType", "targetUrl"}
      /\ c.members["targetUrl"] = UrlString
      /\ \A n \in {"targetName", "targetCode", "targetDescription", "targetFramework"} :
           c.members[n] = AnyText
      /\ c.members["type"] = JsonLdTypeField({"Alignment"})
      /\ c.members["targetType"] = AnyText
  BY DEF Obv3p0AlignmentSchema, Class, ++, Members
<1> QED  BY <1>1, <1>2, <1>3

LEMMA AlignmentCarried ==
  ASSUME NEW vs, NEW plain, NEW defs, NEW a, NEW b, World(vs, plain, defs, a, b),
         Names(defs, "Alignment", Alignment),
         NEW v \in vs, plain[v], Holds(v, "Alignment", a), ~IsText(At(v, "type"))
  PROVE  Holds(v, "Alignment", b)
<1>1. Seen(vs, plain, defs, a, b, v, Alignment)
  BY IsObject DEF World, Names, Seen
<1>2. Obv3p0AlignmentSchema.required \subseteq DOMAIN v.members
  <2>1. {"type", "targetName", "targetUrl"} \subseteq Alignment.required
    BY DEF Alignment, Class, Closed
  <2> QED  BY <1>1, <2>1, ParserAlignment DEF Seen, IsInstance
<1>3. Carries(v, "targetUrl", UrlString, b)
  BY <1>1, UrlMember DEF UrlNames
<1>4. \A n \in {"targetName", "targetCode", "targetDescription", "targetFramework"} :
        Carries(v, n, AnyText, b)
  <2>1. \A n \in {"targetName", "targetCode", "targetDescription", "targetFramework"} :
          n \notin Unread /\ n # "criteria" /\ Takes(Alignment, n, String)
    BY DEF Takes, Alignment, Class, Closed, ++, Members, Unread
  <2> QED  BY <1>1, <2>1, StringMember
<1>5. Carries(v, "type", JsonLdTypeField({"Alignment"}), b)
  <2>1. Takes(Alignment, "type", TypeIs("Alignment")) /\ "type" \notin Unread
    BY DEF Takes, Alignment, Class, Closed, ++, Members, Unread
  <2> QED  BY <1>1, <2>1, TypesMember
<1>6. Carries(v, "targetType", AnyText, b)
  <2>1. /\ Takes(Alignment, "targetType", TextIn(AlignmentType \cup Extension))
        /\ "targetType" \notin Unread
    BY DEF Takes, Alignment, Class, Closed, ++, Members, Unread
  <2> QED  BY <1>1, <2>1, TextMember
<1>7. \A n \in DOMAIN Obv3p0AlignmentSchema.members :
        Carries(v, n, Obv3p0AlignmentSchema.members[n], b)
  BY <1>3, <1>4, <1>5, <1>6, ParserAlignment
<1> QED  BY <1>1, <1>2, <1>7, ParserAlignment, InstanceOf

LEMMA ParserCriteria ==
  LET c == Obv3p0CriteriaSchema
  IN  /\ Names(Classes, "Criteria", c) /\ ~c.closed
      /\ c.required = {}
      /\ DOMAIN c.members = {"id", "narrative"}
      /\ c.members["id"] = UrlString
      /\ c.members["narrative"] = AnyText
<1> DEFINE c == Obv3p0CriteriaSchema
<1>1. Names(Classes, "Criteria", c)
  BY DEF Names, Classes
<1>2. ~c.closed /\ c.required = {}
  BY DEF Obv3p0CriteriaSchema, Class
<1>3. /\ DOMAIN c.members = {"id", "narrative"}
      /\ c.members["id"] = UrlString
      /\ c.members["narrative"] = AnyText
  BY DEF Obv3p0CriteriaSchema, Class, ++, Members
<1> QED  BY <1>1, <1>2, <1>3

LEMMA CriteriaCarried ==
  ASSUME NEW vs, NEW plain, NEW defs, NEW a, NEW b, World(vs, plain, defs, a, b),
         Names(defs, "Criteria", Criteria),
         NEW v \in vs, plain[v], Holds(v, "Criteria", a)
  PROVE  Holds(v, "Criteria", b)
<1>1. Seen(vs, plain, defs, a, b, v, Criteria)
  BY IsObject DEF World, Names, Seen
<1>2. Obv3p0CriteriaSchema.required \subseteq DOMAIN v.members
  <2>1. {} \subseteq Criteria.required
    BY DEF Criteria, Class, Closed
  <2> QED  BY <1>1, <2>1, ParserCriteria DEF Seen, IsInstance
<1>3. Carries(v, "id", UrlString, b)
  BY <1>1, UrlMember DEF UrlNames
<1>4. Carries(v, "narrative", AnyText, b)
  <2>1. Takes(Criteria, "narrative", String) /\ "narrative" \notin Unread
    BY DEF Takes, Criteria, Class, Closed, ++, Members, Unread
  <2> QED  BY <1>1, <2>1, StringMember
<1>5. \A n \in DOMAIN Obv3p0CriteriaSchema.members :
        Carries(v, n, Obv3p0CriteriaSchema.members[n], b)
  BY <1>3, <1>4, ParserCriteria
<1> QED  BY <1>1, <1>2, <1>5, ParserCriteria, InstanceOf

LEMMA ParserIdentityObject ==
  LET c == Obv3p0IdentityObjectSchema
  IN  /\ Names(Classes, "IdentityObject", c) /\ ~c.closed
      /\ c.required = {"type"}
      /\ DOMAIN c.members = {"type"}
      /\ c.members["type"] = JsonLdTypeField({"IdentityObject"})
<1> DEFINE c == Obv3p0IdentityObjectSchema
<1>1. Names(Classes, "IdentityObject", c)
  BY DEF Names, Classes
<1>2. ~c.closed /\ c.required = {"type"}
  BY DEF Obv3p0IdentityObjectSchema, Class
<1>3. /\ DOMAIN c.members = {"type"}
      /\ c.members["type"] = JsonLdTypeField({"IdentityObject"})
  BY DEF Obv3p0IdentityObjectSchema, Class, ++, Members
<1> QED  BY <1>1, <1>2, <1>3

LEMMA IdentityObjectCarried ==
  ASSUME NEW vs, NEW plain, NEW defs, NEW a, NEW b, World(vs, plain, defs, a, b),
         Names(defs, "IdentityObject", IdentityObject),
         NEW v \in vs, plain[v], Holds(v, "IdentityObject", a)
  PROVE  Holds(v, "IdentityObject", b)
<1>1. Seen(vs, plain, defs, a, b, v, IdentityObject)
  BY IsObject DEF World, Names, Seen
<1>2. Obv3p0IdentityObjectSchema.required \subseteq DOMAIN v.members
  <2>1. {"type"} \subseteq IdentityObject.required
    BY DEF IdentityObject, Class, Closed
  <2> QED  BY <1>1, <2>1, ParserIdentityObject DEF Seen, IsInstance
<1>3. Carries(v, "type", JsonLdTypeField({"IdentityObject"}), b)
  <2>1. Takes(IdentityObject, "type", Localized({"IdentityObject"})) /\ "type" \notin Unread
    BY DEF Takes, IdentityObject, Class, Closed, ++, Members, Unread
  <2> QED  BY <1>1, <2>1, TypeMember
<1>4. \A n \in DOMAIN Obv3p0IdentityObjectSchema.members :
        Carries(v, n, Obv3p0IdentityObjectSchema.members[n], b)
  BY <1>3, ParserIdentityObject
<1> QED  BY <1>1, <1>2, <1>4, ParserIdentityObject, InstanceOf

LEMMA ParserRubricCriterionLevel ==
  LET c == Obv3p0RubricCriterionLevelSchema
  IN  /\ Names(Classes, "RubricCriterionLevel", c) /\ ~c.closed
      /\ c.required = {"id", "type", "name"}
      /\ DOMAIN c.members = {"id", "type", "alignment", "name", "description", "level",
                             "points"}
      /\ c.members["id"] = UrlString
      /\ \A n \in {"name", "description", "level", "points"} : c.members[n] = AnyText
      /\ c.members["type"] = JsonLdTypeField({"RubricCriterionLevel"})
      /\ c.members["alignment"] = ArrayOf(A("Alignment"))
<1> DEFINE c == Obv3p0RubricCriterionLevelSchema
<1>1. Names(Classes, "RubricCriterionLevel", c)
  BY DEF Names, Classes
<1>2. ~c.closed /\ c.required = {"id", "type", "name"}
  BY DEF Obv3p0RubricCriterionLevelSchema, Class
<1>3. /\ DOMAIN c.members = {"id", "type", "alignment", "name", "description", "level",
                             "points"}
      /\ c.members["id"] = UrlString
      /\ \A n \in {"name", "description", "level", "points"} : c.members[n] = AnyText
      /\ c.members["type"] = JsonLdTypeField({"RubricCriterionLevel"})
      /\ c.members["alignment"] = ArrayOf(A("Alignment"))
  BY DEF Obv3p0RubricCriterionLevelSchema, Class, ++, Members
<1> QED  BY <1>1, <1>2, <1>3

LEMMA RubricCriterionLevelCarried ==
  ASSUME NEW vs, NEW plain, NEW defs, NEW a, NEW b, World(vs, plain, defs, a, b),
         Names(defs, "RubricCriterionLevel", RubricCriterionLevel),
         Names(defs, "Alignment", Alignment),
         NEW v \in vs, plain[v], Holds(v, "RubricCriterionLevel", a), ~IsText(At(v, "type"))
  PROVE  Holds(v, "RubricCriterionLevel", b)
<1>1. Seen(vs, plain, defs, a, b, v, RubricCriterionLevel)
  BY IsObject DEF World, Names, Seen
<1>2. Obv3p0RubricCriterionLevelSchema.required \subseteq DOMAIN v.members
  <2>1. {"id", "type", "name"} \subseteq RubricCriterionLevel.required
    BY DEF RubricCriterionLevel, Class, Closed
  <2> QED  BY <1>1, <2>1, ParserRubricCriterionLevel DEF Seen, IsInstance
<1>3. Carries(v, "id", UrlString, b)
  BY <1>1, UrlMember DEF UrlNames
<1>4. \A n \in {"name", "description", "level", "points"} :
        Carries(v, n, AnyText, b)
  <2>1. \A n \in {"name", "description", "level", "points"} :
          n \notin Unread /\ n # "criteria" /\ Takes(RubricCriterionLevel, n, String)
    BY DEF Takes, RubricCriterionLevel, Class, Closed, ++, Members, Unread
  <2> QED  BY <1>1, <2>1, StringMember
<1>5. Carries(v, "type", JsonLdTypeField({"RubricCriterionLevel"}), b)
  <2>1. /\ Takes(RubricCriterionLevel, "type", TypeIs("RubricCriterionLevel"))
        /\ "type" \notin Unread
    BY DEF Takes, RubricCriterionLevel, Class, Closed, ++, Members, Unread
  <2> QED  BY <1>1, <2>1, TypesMember
<1>6. Carries(v, "alignment", ArrayOf(A("Alignment")), b)
  <2>1. Takes(RubricCriterionLevel, "alignment", OneOrMany(A("Alignment")))
    BY DEF Takes, RubricCriterionLevel, Class, Closed, ++, Members
  <2>2. "alignment" \in ArrayNames /\ "Alignment" \in DOMAIN defs
    BY DEF ArrayNames, Names
  <2>3. \A m \in vs :
          plain[m] /\ Holds(m, "Alignment", a) /\ ~IsText(At(m, "type"))
            => Holds(m, "Alignment", b)
    BY AlignmentCarried
  <2> QED  BY <1>1, <2>1, <2>2, <2>3, InstanceItems
<1>7. \A n \in DOMAIN Obv3p0RubricCriterionLevelSchema.members :
        Carries(v, n, Obv3p0RubricCriterionLevelSchema.members[n], b)
  BY <1>3, <1>4, <1>5, <1>6, ParserRubricCriterionLevel
<1> QED  BY <1>1, <1>2, <1>7, ParserRubricCriterionLevel, InstanceOf

LEMMA ParserResultDescription ==
  LET c == Obv3p0ResultDescriptionSchema
  IN  /\ Names(Classes, "ResultDescription", c) /\ ~c.closed
      /\ c.required = {"id", "type", "name", "resultType"}
      /\ DOMAIN c.members = {"id", "requiredLevel", "type", "alignment", "allowedValue",
                             "rubricCriterionLevel", "resultType", "name",
                             "requiredValue", "valueMax", "valueMin"}
      /\ \A n \in {"id", "requiredLevel"} : c.members[n] = UrlString
      /\ \A n \in {"name", "requiredValue", "valueMax", "valueMin"} :
           c.members[n] = AnyText
      /\ c.members["type"] = JsonLdTypeField({"ResultDescription"})
      /\ c.members["alignment"] = ArrayOf(A("Alignment"))
      /\ c.members["allowedValue"] = ArrayOf(AnyText)
      /\ c.members["rubricCriterionLevel"] = ArrayOf(A("RubricCriterionLevel"))
      /\ c.members["resultType"] = AnyText
<1> DEFINE c == Obv3p0ResultDescriptionSchema
<1>1. Names(Classes, "ResultDescription", c)
  BY DEF Names, Classes
<1>2. ~c.closed /\ c.required = {"id", "type", "name", "resultType"}
  BY DEF Obv3p0ResultDescriptionSchema, Class
<1>3. /\ DOMAIN c.members = {"id", "requiredLevel", "type", "alignment", "allowedValue",
                             "rubricCriterionLevel", "resultType", "name",
                             "requiredValue", "valueMax", "valueMin"}
      /\ \A n \in {"id", "requiredLevel"} : c.members[n] = UrlString
      /\ \A n \in {"name", "requiredValue", "valueMax", "valueMin"} :
           c.members[n] = AnyText
      /\ c.members["type"] = JsonLdTypeField({"ResultDescription"})
      /\ c.members["alignment"] = ArrayOf(A("Alignment"))
      /\ c.members["allowedValue"] = ArrayOf(AnyText)
      /\ c.members["rubricCriterionLevel"] = ArrayOf(A("RubricCriterionLevel"))
      /\ c.members["resultType"] = AnyText
  BY DEF Obv3p0ResultDescriptionSchema, Class, ++, Members
<1> QED  BY <1>1, <1>2, <1>3

LEMMA ResultDescriptionCarried ==
  ASSUME NEW vs, NEW plain, NEW defs, NEW a, NEW b, World(vs, plain, defs, a, b),
         Names(defs, "ResultDescription", ResultDescription),
         Names(defs, "Alignment", Alignment),
         Names(defs, "RubricCriterionLevel", RubricCriterionLevel),
         NEW v \in vs, plain[v], Holds(v, "ResultDescription", a), ~IsText(At(v, "type"))
  PROVE  Holds(v, "ResultDescription", b)
<1>1. Seen(vs, plain, defs, a, b, v, ResultDescription)
  BY IsObject DEF World, Names, Seen
<1>2. Obv3p0ResultDescriptionSchema.required \subseteq DOMAIN v.members
  <2>1. {"id", "type", "name", "resultType"} \subseteq ResultDescription.required
    BY DEF ResultDescription, Class, Closed
  <2> QED  BY <1>1, <2>1, ParserResultDescription DEF Seen, IsInstance
<1>3. \A n \in {"id", "requiredLevel"} : Carries(v, n, UrlString, b)
  BY <1>1, UrlMember DEF UrlNames
<1>4. \A n \in {"name", "requiredValue", "valueMax", "valueMin"} :
        Carries(v, n, AnyText, b)
  <2>1. \A n \in {"name", "requiredValue", "valueMax", "valueMin"} :
          n \notin Unread /\ n # "criteria" /\ Takes(ResultDescription, n, String)
    BY DEF Takes, ResultDescription, Class, Closed, ++, Members, Unread
  <2> QED  BY <1>1, <2>1, StringMember
<1>5. Carries(v, "type", JsonLdTypeField({"ResultDescription"}), b)
  <2>1. /\ Takes(ResultDescription, "type", TypeIs("ResultDescription"))
        /\ "type" \notin Unread
    BY DEF Takes, ResultDescription, Class, Closed, ++, Members, Unread
  <2> QED  BY <1>1, <2>1, TypesMember
<1>6. Carries(v, "alignment", ArrayOf(A("Alignment")), b)
  <2>1. Takes(ResultDescription, "alignment", OneOrMany(A("Alignment")))
    BY DEF Takes, ResultDescription, Class, Closed, ++, Members
  <2>2. "alignment" \in ArrayNames /\ "Alignment" \in DOMAIN defs
    BY DEF ArrayNames, Names
  <2>3. \A m \in vs :
          plain[m] /\ Holds(m, "Alignment", a) /\ ~IsText(At(m, "type"))
            => Holds(m, "Alignment", b)
    BY AlignmentCarried
  <2> QED  BY <1>1, <2>1, <2>2, <2>3, InstanceItems
<1>7. Carries(v, "allowedValue", ArrayOf(AnyText), b)
  <2> SUFFICES ASSUME "allowedValue" \in DOMAIN v.members
               PROVE  Conforms(v.members["allowedValue"],
                               ArrayOf(AnyText), b)
    BY DEF Carries
  <2> DEFINE m == v.members["allowedValue"]
  <2>1. /\ Takes(ResultDescription, "allowedValue", OneOrMany(String))
        /\ "allowedValue" \notin Unread
    BY DEF Takes, ResultDescription, Class, Closed, ++, Members, Unread
  <2>2. Conforms(m, OneOrMany(String), a)
    BY <1>1, <2>1, MemberFits DEF Seen
  <2>3. Values(vs) /\ Of(vs, plain, "allowedValue", m)
    BY <1>1, <2>1, SeenMember
  <2> HIDE DEF m
  <2>4. m.kind = "array"
    BY <2>3 DEF Of, PlainMember, ArrayNames
  <2>5. ~Conforms(m, String, a)
    BY <2>3, <2>4, PlainText DEF IsText
  <2>6. ArrayFits(m, String, <<>>, <<>>, a)
    BY <2>2, <2>5, ManyEither, ManyArray, Zenon DEF OneOrMany, ArrayOf
  <2> QED  BY <2>3, <2>6, PlainArray DEF ArrayOf, m
<1>8. Carries(v, "rubricCriterionLevel", ArrayOf(A("RubricCriterionLevel")), b)
  <2>1. Takes(ResultDescription, "rubricCriterionLevel", OneOrMany(A("RubricCriterionLevel")))
    BY DEF Takes, ResultDescription, Class, Closed, ++, Members
  <2>2. "rubricCriterionLevel" \in ArrayNames /\ "RubricCriterionLevel" \in DOMAIN defs
    BY DEF ArrayNames, Names
  <2>3. \A m \in vs :
          plain[m] /\ Holds(m, "RubricCriterionLevel", a) /\ ~IsText(At(m, "type"))
            => Holds(m, "RubricCriterionLevel", b)
    BY RubricCriterionLevelCarried
  <2> QED  BY <1>1, <2>1, <2>2, <2>3, InstanceItems
<1>9. Carries(v, "resultType", AnyText, b)
  <2>1. /\ Takes(ResultDescription, "resultType", TextIn(ResultType \cup Extension))
        /\ "resultType" \notin Unread
    BY DEF Takes, ResultDescription, Class, Closed, ++, Members, Unread
  <2> QED  BY <1>1, <2>1, TextMember
<1>10. \A n \in DOMAIN Obv3p0ResultDescriptionSchema.members :
        Carries(v, n, Obv3p0ResultDescriptionSchema.members[n], b)
  BY <1>3, <1>4, <1>5, <1>6, <1>7, <1>8, <1>9, ParserResultDescription
<1> QED  BY <1>1, <1>2, <1>10, ParserResultDescription, InstanceOf

LEMMA ParserResult ==
  LET c == Obv3p0ResultSchema
  IN  /\ Names(Classes, "Result", c) /\ ~c.closed
      /\ c.required = {"type"}
      /\ DOMAIN c.members = {"type", "alignment", "achievedLevel", "resultDescription",
                             "status", "value"}
      /\ c.members["achievedLevel"] = UrlString
      /\ c.members["value"] = AnyText
      /\ c.members["type"] = JsonLdTypeField({"Result"})
      /\ c.members["alignment"] = ArrayOf(A("Alignment"))
      /\ c.members["resultDescription"] = UrlString
      /\ c.members["status"] = AnyText
<1> DEFINE c == Obv3p0ResultSchema
<1>1. Names(Classes, "Result", c)
  BY DEF Names, Classes
<1>2. ~c.closed /\ c.required = {"type"}
  BY DEF Obv3p0ResultSchema, Class
<1>3. /\ DOMAIN c.members = {"type", "alignment", "achievedLevel", "resultDescription",
                             "status", "value"}
      /\ c.members["achievedLevel"] = UrlString
      /\ c.members["value"] = AnyText
      /\ c.members["type"] = JsonLdTypeField({"Result"})
      /\ c.members["alignment"] = ArrayOf(A("Alignment"))
      /\ c.members["resultDescription"] = UrlString
      /\ c.members["status"] = AnyText
  BY DEF Obv3p0ResultSchema, Class, ++, Members
<1> QED  BY <1>1, <1>2, <1>3

LEMMA ResultCarried ==
  ASSUME NEW vs, NEW plain, NEW defs, NEW a, NEW b, World(vs, plain, defs, a, b),
         Names(defs, "Result", Result),
         Names(defs, "Alignment", Alignment),
         NEW v \in vs, plain[v], Holds(v, "Result", a), ~IsText(At(v, "type"))
  PROVE  Holds(v, "Result", b)
<1>1. Seen(vs, plain, defs, a, b, v, Result)
  BY IsObject DEF World, Names, Seen
<1>2. Obv3p0ResultSchema.required \subseteq DOMAIN v.members
  <2>1. {"type"} \subseteq Result.required
    BY DEF Result, Class, Closed
  <2> QED  BY <1>1, <2>1, ParserResult DEF Seen, IsInstance
<1>3. Carries(v, "achievedLevel", UrlString, b)
  BY <1>1, UrlMember DEF UrlNames
<1>4. Carries(v, "value", AnyText, b)
  <2>1. Takes(Result, "value", String) /\ "value" \notin Unread
    BY DEF Takes, Result, Class, Closed, ++, Members, Unread
  <2> QED  BY <1>1, <2>1, StringMember
<1>5. Carries(v, "type", JsonLdTypeField({"Result"}), b)
  <2>1. Takes(Result, "type", TypeIs("Result")) /\ "type" \notin Unread
    BY DEF Takes, Result, Class, Closed, ++, Members, Unread
  <2> QED  BY <1>1, <2>1, TypesMember
<1>6. Carries(v, "alignment", ArrayOf(A("Alignment")), b)
  <2>1. Takes(Result, "alignment", OneOrMany(A("Alignment")))
    BY DEF Takes, Result, Class, Closed, ++, Members
  <2>2. "alignment" \in ArrayNames /\ "Alignment" \in DOMAIN defs
    BY DEF ArrayNames, Names
  <2>3. \A m \in vs :
          plain[m] /\ Holds(m, "Alignment", a) /\ ~IsText(At(m, "type"))
            => Holds(m, "Alignment", b)
    BY AlignmentCarried
  <2> QED  BY <1>1, <2>1, <2>2, <2>3, InstanceItems
<1>7. Carries(v, "resultDescription", UrlString, b)
  <2> SUFFICES ASSUME "resultDescription" \in DOMAIN v.members
               PROVE  Conforms(v.members["resultDescription"],
                               UrlString, b)
    BY DEF Carries
  <2> DEFINE m == v.members["resultDescription"]
  <2>1. Takes(Result, "resultDescription", String) /\ "resultDescription" \notin Unread
    BY DEF Takes, Result, Class, Closed, ++, Members, Unread
  <2>2. Conforms(m, String, a)
    BY <1>1, <2>1, MemberFits DEF Seen
  <2>3. Values(vs) /\ Of(vs, plain, "resultDescription", m)
    BY <1>1, <2>1, SeenMember
  <2> HIDE DEF m
  <2>4. IsText(m)
    BY <2>2, <2>3, PlainText
  <2>5. isUrl(m)
    BY <2>3, <2>4 DEF Of, PlainMember, IsText
  <2> QED  BY <2>5, ManyText DEF isUrl, UrlString, m
<1>8. Carries(v, "status", AnyText, b)
  <2>1. Takes(Result, "status", TextIn(ResultStatus)) /\ "status" \notin Unread
    BY DEF Takes, Result, Class, Closed, ++, Members, Unread
  <2> QED  BY <1>1, <2>1, TextMember
<1>9. \A n \in DOMAIN Obv3p0ResultSchema.members :
        Carries(v, n, Obv3p0ResultSchema.members[n], b)
  BY <1>3, <1>4, <1>5, <1>6, <1>7, <1>8, ParserResult
<1> QED  BY <1>1, <1>2, <1>9, ParserResult, InstanceOf

LEMMA ParserProfile ==
  LET c == Obv3p0ProfileSchema
  IN  /\ Names(Classes, "Profile", c) /\ ~c.closed
      /\ c.required = {"id", "type"}
      /\ DOMAIN c.members = {"id", "type", "url", "name", "description", "image",
                             "email"}
      /\ c.members["url"] = UrlString
      /\ \A n \in {"name", "description"} : c.members[n] = AnyText
      /\ c.members["id"] = IriString
      /\ c.members["type"] = JsonLdTypeField({"Profile"})
      /\ c.members["image"] = ImageField
      /\ c.members["email"] = TextIn(Email)
<1> DEFINE c == Obv3p0ProfileSchema
<1>1. Names(Classes, "Profile", c)
  BY DEF Names, Classes
<1>2. ~c.closed /\ c.required = {"id", "type"}
  BY DEF Obv3p0ProfileSchema, Class
<1>3. /\ DOMAIN c.members = {"id", "type", "url", "name", "description", "image",
                             "email"}
      /\ c.members["url"] = UrlString
      /\ \A n \in {"name", "description"} : c.members[n] = AnyText
      /\ c.members["id"] = IriString
      /\ c.members["type"] = JsonLdTypeField({"Profile"})
      /\ c.members["image"] = ImageField
      /\ c.members["email"] = TextIn(Email)
  BY DEF Obv3p0ProfileSchema, Class, ++, Members
<1> QED  BY <1>1, <1>2, <1>3

\* What the parser knows of a class of profiles, which has two names.
ProfileLike(class) ==
  /\ {"id", "type"} \subseteq class.required
  /\ \A n \in {"name", "description"} : Takes(class, n, String)
  /\ Takes(class, "type", TypeIs("Profile"))
  /\ Takes(class, "image", A("Image"))

LEMMA ProfileCarried ==
  ASSUME NEW vs, NEW plain, NEW defs, NEW a, NEW b, World(vs, plain, defs, a, b),
         NEW name, NEW class, Names(defs, name, class), ProfileLike(class),
         Names(defs, "Image", Image),
         NEW v \in vs, plain[v], Holds(v, name, a), ~IsText(At(v, "type"))
  PROVE  Holds(v, "Profile", b)
<1>1. Seen(vs, plain, defs, a, b, v, class)
  BY IsObject DEF World, Names, Seen
<1>2. Obv3p0ProfileSchema.required \subseteq DOMAIN v.members
  BY <1>1, ParserProfile DEF Seen, IsInstance, ProfileLike
<1>3. Carries(v, "url", UrlString, b)
  BY <1>1, UrlMember DEF UrlNames
<1>4. \A n \in {"name", "description"} : Carries(v, n, AnyText, b)
  <2>1. \A n \in {"name", "description"} :
          n \notin Unread /\ n # "criteria" /\ Takes(class, n, String)
    BY DEF ProfileLike, Unread
  <2> QED  BY <1>1, <2>1, StringMember
<1>5. Carries(v, "id", IriString, b)
  BY <1>1, UrlMember DEF UrlNames
<1>6. Carries(v, "type", JsonLdTypeField({"Profile"}), b)
  <2>1. Takes(class, "type", TypeIs("Profile")) /\ "type" \notin Unread
    BY DEF ProfileLike, Unread
  <2> QED  BY <1>1, <2>1, TypesMember
<1>7. Carries(v, "image", ImageField, b)
  <2>1. Takes(class, "image", A("Image"))
    BY DEF ProfileLike
  <2> QED  BY <1>1, <2>1, ImageMember, ImageCarried
<1>8. Carries(v, "email", TextIn(Email), b)
  BY <1>1, EmailMember
<1>9. \A n \in DOMAIN Obv3p0ProfileSchema.members :
        Carries(v, n, Obv3p0ProfileSchema.members[n], b)
  BY <1>3, <1>4, <1>5, <1>6, <1>7, <1>8, ParserProfile
<1> QED  BY <1>1, <1>2, <1>9, ParserProfile, InstanceOf

LEMMA ParserAchievement ==
  LET c == Obv3p0AchievementSchema
  IN  /\ Names(Classes, "Achievement", c) /\ ~c.closed
      /\ c.required = {"id", "type", "criteria", "description", "name"}
      /\ DOMAIN c.members = {"id", "type", "criteria", "alignment", "creator", "image",
                             "resultDescription", "description", "name"}
      /\ c.members["id"] = UrlString
      /\ \A n \in {"description", "name"} : c.members[n] = AnyText
      /\ c.members["type"] = JsonLdTypeField({"Achievement"})
      /\ c.members["criteria"] = A("Criteria")
      /\ c.members["alignment"] = ArrayOf(A("Alignment"))
      /\ c.members["creator"] = ProfileRefField
      /\ c.members["image"] = ImageField
      /\ c.members["resultDescription"] = ArrayOf(A("ResultDescription"))
<1> DEFINE c == Obv3p0AchievementSchema
<1>1. Names(Classes, "Achievement", c)
  BY DEF Names, Classes
<1>2. ~c.closed /\ c.required = {"id", "type", "criteria", "description", "name"}
  BY DEF Obv3p0AchievementSchema, Class
<1>3. /\ DOMAIN c.members = {"id", "type", "criteria", "alignment", "creator", "image",
                             "resultDescription", "description", "name"}
      /\ c.members["id"] = UrlString
      /\ \A n \in {"description", "name"} : c.members[n] = AnyText
      /\ c.members["type"] = JsonLdTypeField({"Achievement"})
      /\ c.members["criteria"] = A("Criteria")
      /\ c.members["alignment"] = ArrayOf(A("Alignment"))
      /\ c.members["creator"] = ProfileRefField
      /\ c.members["image"] = ImageField
      /\ c.members["resultDescription"] = ArrayOf(A("ResultDescription"))
  BY DEF Obv3p0AchievementSchema, Class, ++, Members
<1> QED  BY <1>1, <1>2, <1>3

\* What it knows of a class of achievements,
AchievementLike(class, org) ==
  /\ {"id", "type", "criteria", "description", "name"} \subseteq class.required
  /\ \A n \in {"description", "name"} : Takes(class, n, String)
  /\ Takes(class, "type", TypeIs("Achievement"))
  /\ Takes(class, "criteria", A("Criteria"))
  /\ Takes(class, "alignment", OneOrMany(A("Alignment")))
  /\ Takes(class, "creator", A(org))
  /\ Takes(class, "image", A("Image"))
  /\ Takes(class, "resultDescription", OneOrMany(A("ResultDescription")))

LEMMA AchievementCarried ==
  ASSUME NEW vs, NEW plain, NEW defs, NEW a, NEW b, World(vs, plain, defs, a, b),
         NEW name, NEW class, NEW org, Names(defs, name, class), AchievementLike(class, org),
         Names(defs, "Image", Image),
         Names(defs, "Alignment", Alignment),
         Names(defs, "RubricCriterionLevel", RubricCriterionLevel),
         Names(defs, "ResultDescription", ResultDescription),
         Names(defs, "Criteria", Criteria),
         NEW orgClass, Names(defs, org, orgClass), ProfileLike(orgClass),
         NEW v \in vs, plain[v], Holds(v, name, a), ~IsText(At(v, "type"))
  PROVE  Holds(v, "Achievement", b)
<1>1. Seen(vs, plain, defs, a, b, v, class)
  BY IsObject DEF World, Names, Seen
<1>2. Obv3p0AchievementSchema.required \subseteq DOMAIN v.members
  BY <1>1, ParserAchievement DEF Seen, IsInstance, AchievementLike
<1>3. Carries(v, "id", UrlString, b)
  BY <1>1, UrlMember DEF UrlNames
<1>4. \A n \in {"description", "name"} : Carries(v, n, AnyText, b)
  <2>1. \A n \in {"description", "name"} :
          n \notin Unread /\ n # "criteria" /\ Takes(class, n, String)
    BY DEF AchievementLike, Unread
  <2> QED  BY <1>1, <2>1, StringMember
<1>5. Carries(v, "type", JsonLdTypeField({"Achievement"}), b)
  <2>1. Takes(class, "type", TypeIs("Achievement")) /\ "type" \notin Unread
    BY DEF AchievementLike, Unread
  <2> QED  BY <1>1, <2>1, TypesMember
<1>6. Carries(v, "criteria", A("Criteria"), b)
  <2>1. Takes(class, "criteria", A("Criteria")) /\ "criteria" \notin Unread
    BY DEF AchievementLike, Unread
  <2>2. \A m \in vs :
          plain[m] /\ Holds(m, "Criteria", a) /\ ~IsText(At(m, "type"))
            => Holds(m, "Criteria", b)
    BY CriteriaCarried
  <2>3. "criteria" \in DOMAIN v.members => Holds(v.members["criteria"], "Criteria", b)
    BY <1>1, <2>1, <2>2, InstanceMember
  <2> QED  BY <2>3, ManyClass DEF Carries
<1>7. Carries(v, "alignment", ArrayOf(A("Alignment")), b)
  <2>1. Takes(class, "alignment", OneOrMany(A("Alignment")))
    BY DEF AchievementLike
  <2>2. "alignment" \in ArrayNames /\ "Alignment" \in DOMAIN defs
    BY DEF ArrayNames, Names
  <2>3. \A m \in vs :
          plain[m] /\ Holds(m, "Alignment", a) /\ ~IsText(At(m, "type"))
            => Holds(m, "Alignment", b)
    BY AlignmentCarried
  <2> QED  BY <1>1, <2>1, <2>2, <2>3, InstanceItems
<1>8. Carries(v, "creator", ProfileRefField, b)
  <2>1. Takes(class, "creator", A(org)) /\ "creator" \notin Unread
    BY DEF AchievementLike, Unread
  <2>2. \A m \in vs :
          plain[m] /\ Holds(m, org, a) /\ ~IsText(At(m, "type"))
            => Holds(m, "Profile", b)
    BY ProfileCarried
  <2>3. "creator" \in DOMAIN v.members => Holds(v.members["creator"], "Profile", b)
    BY <1>1, <2>1, <2>2, InstanceMember
  <2> QED  BY <2>3, ProfileFits DEF Carries
<1>9. Carries(v, "image", ImageField, b)
  <2>1. Takes(class, "image", A("Image"))
    BY DEF AchievementLike
  <2> QED  BY <1>1, <2>1, ImageMember, ImageCarried
<1>10. Carries(v, "resultDescription", ArrayOf(A("ResultDescription")), b)
  <2> SUFFICES ASSUME "resultDescription" \in DOMAIN v.members
               PROVE  Conforms(v.members["resultDescription"],
                               ArrayOf(A("ResultDescription")), b)
    BY DEF Carries
  <2> DEFINE m == v.members["resultDescription"]
  <2>1. /\ Takes(class, "resultDescription", OneOrMany(A("ResultDescription")))
        /\ "resultDescription" \notin Unread
    BY DEF AchievementLike, Unread
  <2>2. Conforms(m, OneOrMany(A("ResultDescription")), a)
    BY <1>1, <2>1, MemberFits DEF Seen
  <2>3. /\ m \in vs /\ m.kind = "array"
        /\ \A i \in DOMAIN m.items :
             m.items[i] \in vs /\ plain[m.items[i]] /\ ~IsText(At(m.items[i], "type"))
    <3>1. "ResultDescription" \in DOMAIN defs
      BY DEF Names
    <3> QED  BY <1>1, <2>1, <3>1, DescriptionsMember
  <2> HIDE DEF m
  <2>4. \A i \in DOMAIN m.items :
          Holds(m.items[i], "ResultDescription", a) => Holds(m.items[i], "ResultDescription", b)
    BY <2>3, ResultDescriptionCarried
  <2>5. Classed(vs, defs, a) /\ "ResultDescription" \in DOMAIN defs
    BY DEF World, Names
  <2> QED  BY <2>2, <2>3, <2>4, <2>5, PlainArrayOf DEF m
<1>11. \A n \in DOMAIN Obv3p0AchievementSchema.members :
        Carries(v, n, Obv3p0AchievementSchema.members[n], b)
  BY <1>3, <1>4, <1>5, <1>6, <1>7, <1>8, <1>9, <1>10, ParserAchievement
<1> QED  BY <1>1, <1>2, <1>11, ParserAchievement, InstanceOf

LEMMA ParserAchievementSubject ==
  LET c == Obv3p0AchievementSubjectSchema
  IN  /\ Names(Classes, "AchievementSubject", c) /\ ~c.closed
      /\ c.required = {"type", "achievement"}
      /\ DOMAIN c.members = {"type", "achievement", "id", "identifier", "result",
                             "image"}
      /\ c.members["id"] = UrlString
      /\ c.members["type"] = JsonLdTypeField({"AchievementSubject"})
      /\ c.members["achievement"] = A("Achievement")
      /\ c.members["identifier"] = ArrayOf(A("IdentityObject"))
      /\ c.members["result"] = ArrayOf(A("Result"))
      /\ c.members["image"] = ImageField
<1> DEFINE c == Obv3p0AchievementSubjectSchema
<1>1. Names(Classes, "AchievementSubject", c)
  BY DEF Names, Classes
<1>2. ~c.closed /\ c.required = {"type", "achievement"}
  BY DEF Obv3p0AchievementSubjectSchema, Class
<1>3. /\ DOMAIN c.members = {"type", "achievement", "id", "identifier", "result",
                             "image"}
      /\ c.members["id"] = UrlString
      /\ c.members["type"] = JsonLdTypeField({"AchievementSubject"})
      /\ c.members["achievement"] = A("Achievement")
      /\ c.members["identifier"] = ArrayOf(A("IdentityObject"))
      /\ c.members["result"] = ArrayOf(A("Result"))
      /\ c.members["image"] = ImageField
  BY DEF Obv3p0AchievementSubjectSchema, Class, ++, Members
<1> QED  BY <1>1, <1>2, <1>3

\* and of a class of badge subjects.
AchievementSubjectLike(class, achievement) ==
  /\ {"type", "achievement"} \subseteq class.required
  /\ Takes(class, "type", TypeIs("AchievementSubject"))
  /\ Takes(class, "achievement", A(achievement))
  /\ Takes(class, "identifier", OneOrMany(A("IdentityObject")))
  /\ Takes(class, "result", OneOrMany(A("Result")))
  /\ Takes(class, "image", A("Image"))

LEMMA AchievementSubjectCarried ==
  ASSUME NEW vs, NEW plain, NEW defs, NEW a, NEW b, World(vs, plain, defs, a, b),
         NEW name, NEW class, NEW achievement, Names(defs, name, class),
         AchievementSubjectLike(class, achievement),
         Names(defs, "Image", Image),
         Names(defs, "Alignment", Alignment),
         Names(defs, "RubricCriterionLevel", RubricCriterionLevel),
         Names(defs, "ResultDescription", ResultDescription),
         Names(defs, "Criteria", Criteria),
         Names(defs, "Result", Result),
         Names(defs, "IdentityObject", IdentityObject),
         NEW org, NEW orgClass, Names(defs, org, orgClass), ProfileLike(orgClass),
         NEW achievementClass, Names(defs, achievement, achievementClass),
         AchievementLike(achievementClass, org),
         NEW v \in vs, plain[v], Holds(v, name, a), ~IsText(At(v, "type"))
  PROVE  Holds(v, "AchievementSubject", b)
<1>1. Seen(vs, plain, defs, a, b, v, class)
  BY IsObject DEF World, Names, Seen
<1>2. Obv3p0AchievementSubjectSchema.required \subseteq DOMAIN v.members
  BY <1>1, ParserAchievementSubject DEF Seen, IsInstance, AchievementSubjectLike
<1>3. Carries(v, "id", UrlString, b)
  BY <1>1, UrlMember DEF UrlNames
<1>4. Carries(v, "type", JsonLdTypeField({"AchievementSubject"}), b)
  <2>1. Takes(class, "type", TypeIs("AchievementSubject")) /\ "type" \notin Unread
    BY DEF AchievementSubjectLike, Unread
  <2> QED  BY <1>1, <2>1, TypesMember
<1>5. Carries(v, "achievement", A("Achievement"), b)
  <2>1. Takes(class, "achievement", A(achievement)) /\ "achievement" \notin Unread
    BY DEF AchievementSubjectLike, Unread
  <2>2. \A m \in vs :
          plain[m] /\ Holds(m, achievement, a) /\ ~IsText(At(m, "type"))
            => Holds(m, "Achievement", b)
    BY AchievementCarried
  <2>3. "achievement" \in DOMAIN v.members => Holds(v.members["achievement"], "Achievement", b)
    BY <1>1, <2>1, <2>2, InstanceMember
  <2> QED  BY <2>3, ManyClass DEF Carries
<1>6. Carries(v, "identifier", ArrayOf(A("IdentityObject")), b)
  <2>1. Takes(class, "identifier", OneOrMany(A("IdentityObject")))
    BY DEF AchievementSubjectLike
  <2>2. "identifier" \in ArrayNames /\ "IdentityObject" \in DOMAIN defs
    BY DEF ArrayNames, Names
  <2>3. \A m \in vs :
          plain[m] /\ Holds(m, "IdentityObject", a)
            => Holds(m, "IdentityObject", b)
    BY IdentityObjectCarried
  <2> QED  BY <1>1, <2>1, <2>2, <2>3, InstanceItems
<1>7. Carries(v, "result", ArrayOf(A("Result")), b)
  <2>1. Takes(class, "result", OneOrMany(A("Result")))
    BY DEF AchievementSubjectLike
  <2>2. "result" \in ArrayNames /\ "Result" \in DOMAIN defs
    BY DEF ArrayNames, Names
  <2>3. \A m \in vs :
          plain[m] /\ Holds(m, "Result", a) /\ ~IsText(At(m, "type"))
            => Holds(m, "Result", b)
    BY ResultCarried
  <2> QED  BY <1>1, <2>1, <2>2, <2>3, InstanceItems
<1>8. Carries(v, "image", ImageField, b)
  <2>1. Takes(class, "image", A("Image"))
    BY DEF AchievementSubjectLike
  <2> QED  BY <1>1, <2>1, ImageMember, ImageCarried
<1>9. \A n \in DOMAIN Obv3p0AchievementSubjectSchema.members :
        Carries(v, n, Obv3p0AchievementSubjectSchema.members[n], b)
  BY <1>3, <1>4, <1>5, <1>6, <1>7, <1>8, ParserAchievementSubject
<1> QED  BY <1>1, <1>2, <1>9, ParserAchievementSubject, InstanceOf

LEMMA ParserEndorsementSubject ==
  LET c == Obv3p0EndorsementSubjectSchema
  IN  /\ Names(Classes, "EndorsementSubject", c) /\ ~c.closed
      /\ c.required = {"id", "type"}
      /\ DOMAIN c.members = {"id", "type", "endorsementComment"}
      /\ c.members["endorsementComment"] = AnyText
      /\ c.members["id"] = IriString
      /\ c.members["type"] = JsonLdTypeField({"EndorsementSubject"})
<1> DEFINE c == Obv3p0EndorsementSubjectSchema
<1>1. Names(Classes, "EndorsementSubject", c)
  BY DEF Names, Classes
<1>2. ~c.closed /\ c.required = {"id", "type"}
  BY DEF Obv3p0EndorsementSubjectSchema, Class
<1>3. /\ DOMAIN c.members = {"id", "type", "endorsementComment"}
      /\ c.members["endorsementComment"] = AnyText
      /\ c.members["id"] = IriString
      /\ c.members["type"] = JsonLdTypeField({"EndorsementSubject"})
  BY DEF Obv3p0EndorsementSubjectSchema, Class, ++, Members
<1> QED  BY <1>1, <1>2, <1>3

LEMMA EndorsementSubjectCarried ==
  ASSUME NEW vs, NEW plain, NEW defs, NEW a, NEW b, World(vs, plain, defs, a, b),
         Names(defs, "EndorsementSubject", EndorsementSubject),
         NEW v \in vs, plain[v], Holds(v, "EndorsementSubject", a), ~IsText(At(v, "type"))
  PROVE  Holds(v, "EndorsementSubject", b)
<1>1. Seen(vs, plain, defs, a, b, v, EndorsementSubject)
  BY IsObject DEF World, Names, Seen
<1>2. Obv3p0EndorsementSubjectSchema.required \subseteq DOMAIN v.members
  <2>1. {"id", "type"} \subseteq EndorsementSubject.required
    BY DEF EndorsementSubject, Class, Closed
  <2> QED  BY <1>1, <2>1, ParserEndorsementSubject DEF Seen, IsInstance
<1>3. Carries(v, "endorsementComment", AnyText, b)
  <2>1. /\ Takes(EndorsementSubject, "endorsementComment", String)
        /\ "endorsementComment" \notin Unread
    BY DEF Takes, EndorsementSubject, Class, Closed, ++, Members, Unread
  <2> QED  BY <1>1, <2>1, StringMember
<1>4. Carries(v, "id", IriString, b)
  BY <1>1, UrlMember DEF UrlNames
<1>5. Carries(v, "type", JsonLdTypeField({"EndorsementSubject"}), b)
  <2>1. /\ Takes(EndorsementSubject, "type", TypeIs("EndorsementSubject"))
        /\ "type" \notin Unread
    BY DEF Takes, EndorsementSubject, Class, Closed, ++, Members, Unread
  <2> QED  BY <1>1, <2>1, TypesMember
<1>6. \A n \in DOMAIN Obv3p0EndorsementSubjectSchema.members :
        Carries(v, n, Obv3p0EndorsementSubjectSchema.members[n], b)
  BY <1>3, <1>4, <1>5, ParserEndorsementSubject
<1> QED  BY <1>1, <1>2, <1>6, ParserEndorsementSubject, InstanceOf

-----------------------------------------------------------------------------
(* The classes of the four vendored schemas *)

\* The classes of the vendored schemas, as far as the parser knows them too.
LEMMA ProfilesAre == ProfileLike(Profile) /\ ProfileLike(Profilev1p1)
<1>1. ProfileLike(Profile)
  BY DEF ProfileLike, Takes, Profile, Class, ++, Members
<1>2. ProfileLike(Profilev1p1)
  BY DEF ProfileLike, Takes, Profilev1p1, Class, ++, Members
<1> QED  BY <1>1, <1>2

LEMMA AchievementsAre ==
  AchievementLike(Achievement, "Profile") /\ AchievementLike(Achievementv1p1, "Profilev1p1")
<1>1. AchievementLike(Achievement, "Profile")
  BY DEF AchievementLike, Takes, Achievement, Class, ++, Members
<1>2. AchievementLike(Achievementv1p1, "Profilev1p1")
  BY DEF AchievementLike, Takes, Achievementv1p1, Class, ++, Members
<1> QED  BY <1>1, <1>2

LEMMA SubjectsAre ==
  /\ AchievementSubjectLike(AchievementSubject, "Achievement")
  /\ AchievementSubjectLike(AchievementSubjectv1p1, "Achievementv1p1")
<1>1. AchievementSubjectLike(AchievementSubject, "Achievement")
  BY DEF AchievementSubjectLike, Takes, AchievementSubject, Class, ++, Members
<1>2. AchievementSubjectLike(AchievementSubjectv1p1, "Achievementv1p1")
  BY DEF AchievementSubjectLike, Takes, AchievementSubjectv1p1, Closed, ++, Members
<1> QED  BY <1>1, <1>2

\* The classes of a badge schema and of an endorsement schema.
BadgeClasses(defs, org, achievement, subject) ==
  /\ Names(defs, "Image", Image) /\ Names(defs, "Alignment", Alignment)
  /\ Names(defs, "RubricCriterionLevel", RubricCriterionLevel)
  /\ Names(defs, "ResultDescription", ResultDescription)
  /\ Names(defs, "Result", Result) /\ Names(defs, "Criteria", Criteria)
  /\ Names(defs, "IdentityObject", IdentityObject)
  /\ \E p : Names(defs, org, p) /\ ProfileLike(p)
  /\ \E c : Names(defs, achievement, c) /\ AchievementLike(c, org)
            /\ Takes(c, "achievementType", TextIn(AchievementType \cup Extension))
  /\ \E s : Names(defs, subject, s) /\ AchievementSubjectLike(s, achievement)
            /\ "achievement" \in s.required

EndorsementClasses(defs, org) ==
  /\ Names(defs, "Image", Image)
  /\ Names(defs, "EndorsementSubject", EndorsementSubject)
  /\ \E p : Names(defs, org, p) /\ ProfileLike(p)

\* The vendored schemas have these classes.
LEMMA BadgeClassesAre ==
  /\ BadgeClasses(Badge_Defs, "Profile", "Achievement", "AchievementSubject")
  /\ BadgeClasses(BadgeV1_Defs, "Profilev1p1", "Achievementv1p1", "AchievementSubjectv1p1")
<1>1. /\ Takes(Achievement, "achievementType", TextIn(AchievementType \cup Extension))
      /\ "achievement" \in AchievementSubject.required
  BY DEF Takes, Achievement, AchievementSubject, Class, ++, Members
<1>2. /\ Takes(Achievementv1p1, "achievementType", TextIn(AchievementType \cup Extension))
      /\ "achievement" \in AchievementSubjectv1p1.required
  BY DEF Takes, Achievementv1p1, AchievementSubjectv1p1, Class, Closed, ++, Members
<1>3. /\ Names(Badge_Defs, "Image", Image) /\ Names(Badge_Defs, "Alignment", Alignment)
      /\ Names(Badge_Defs, "RubricCriterionLevel", RubricCriterionLevel)
      /\ Names(Badge_Defs, "ResultDescription", ResultDescription)
      /\ Names(Badge_Defs, "Result", Result) /\ Names(Badge_Defs, "Criteria", Criteria)
      /\ Names(Badge_Defs, "IdentityObject", IdentityObject)
      /\ Names(Badge_Defs, "Profile", Profile) /\ Names(Badge_Defs, "Achievement", Achievement)
      /\ Names(Badge_Defs, "AchievementSubject", AchievementSubject)
  BY DEF Names, Badge_Defs
<1>4. /\ Names(BadgeV1_Defs, "Image", Image) /\ Names(BadgeV1_Defs, "Alignment", Alignment)
      /\ Names(BadgeV1_Defs, "RubricCriterionLevel", RubricCriterionLevel)
      /\ Names(BadgeV1_Defs, "ResultDescription", ResultDescription)
      /\ Names(BadgeV1_Defs, "Result", Result) /\ Names(BadgeV1_Defs, "Criteria", Criteria)
      /\ Names(BadgeV1_Defs, "IdentityObject", IdentityObject)
      /\ Names(BadgeV1_Defs, "Profilev1p1", Profilev1p1)
      /\ Names(BadgeV1_Defs, "Achievementv1p1", Achievementv1p1)
      /\ Names(BadgeV1_Defs, "AchievementSubjectv1p1", AchievementSubjectv1p1)
  BY DEF Names, BadgeV1_Defs, BadgeV1_Image, BadgeV1_Alignment, BadgeV1_RubricCriterionLevel,
         BadgeV1_ResultDescription, BadgeV1_Result, BadgeV1_Criteria, BadgeV1_IdentityObject
<1>5. BadgeClasses(Badge_Defs, "Profile", "Achievement", "AchievementSubject")
  BY <1>1, <1>3, ProfilesAre, AchievementsAre, SubjectsAre, Zenon DEF BadgeClasses
<1>6. BadgeClasses(BadgeV1_Defs, "Profilev1p1", "Achievementv1p1", "AchievementSubjectv1p1")
  BY <1>2, <1>4, ProfilesAre, AchievementsAre, SubjectsAre, Zenon DEF BadgeClasses
<1> QED  BY <1>5, <1>6

LEMMA EndorsementClassesAre ==
  /\ EndorsementClasses(Endorsement_Defs, "Profile")
  /\ EndorsementClasses(EndorsementV1_Defs, "Profilev1p1")
<1>1. /\ Names(Endorsement_Defs, "Image", Image) /\ Names(Endorsement_Defs, "Profile", Profile)
      /\ Names(Endorsement_Defs, "EndorsementSubject", EndorsementSubject)
  BY DEF Names, Endorsement_Defs, Endorsement_Image, Endorsement_Profile,
         Endorsement_EndorsementSubject
<1>2. /\ Names(EndorsementV1_Defs, "Image", Image)
      /\ Names(EndorsementV1_Defs, "Profilev1p1", Profilev1p1)
      /\ Names(EndorsementV1_Defs, "EndorsementSubject", EndorsementSubject)
  BY DEF Names, EndorsementV1_Defs, EndorsementV1_Image, EndorsementV1_Profilev1p1,
         EndorsementV1_EndorsementSubject
<1>3. EndorsementClasses(Endorsement_Defs, "Profile")
  BY <1>1, ProfilesAre, Zenon DEF EndorsementClasses
<1>4. EndorsementClasses(EndorsementV1_Defs, "Profilev1p1")
  BY <1>2, ProfilesAre, Zenon DEF EndorsementClasses
<1> QED  BY <1>3, <1>4

\* The types a badge may have.
BadgeTypes == {"AchievementCredential", "OpenBadgeCredential"}

\* An issuer is a profile, or in one schema a text as well.
IssuerLike(root, org) ==
  \/ Takes(root, "issuer", A(org))
  \/ Takes(root, "issuer", ProfileRef) /\ org = "Profile"

\* What the root of a schema says of the members the parser reads.
CredentialLike(root, types, subject, org) ==
  /\ {"context", "id", "type", "issuer", "credentialSubject"} \subseteq root.required
  /\ Takes(root, "type", TypeOf(<<{"VerifiableCredential"}, types>>))
  /\ Takes(root, "credentialSubject", A(subject))
  /\ IssuerLike(root, org)

\* What an endorsement must have besides.
EndorsementLike(root) ==
  /\ "name" \in root.required
  /\ Takes(root, "name", String) /\ Takes(root, "description", String)
  /\ Takes(root, "awardedDate", TextIn(FormatDateTime))

\* The roots of the four vendored schemas.
LEMMA CredentialsAre ==
  /\ CredentialLike(Badge_Root, BadgeTypes, "AchievementSubject", "Profile")
  /\ CredentialLike(BadgeV1_Root, BadgeTypes, "AchievementSubjectv1p1", "Profilev1p1")
  /\ CredentialLike(Endorsement_Root, {"EndorsementCredential"},
                    "EndorsementSubject", "Profile")
  /\ CredentialLike(EndorsementV1_Root, {"EndorsementCredential"},
                    "EndorsementSubject", "Profilev1p1")
  /\ Takes(Badge_Root, "image", A("Image")) /\ Takes(BadgeV1_Root, "image", A("Image"))
  /\ EndorsementLike(Endorsement_Root) /\ EndorsementLike(EndorsementV1_Root)
<1>1. /\ CredentialLike(Badge_Root, BadgeTypes, "AchievementSubject", "Profile")
      /\ Takes(Badge_Root, "image", A("Image"))
  BY DEF CredentialLike, IssuerLike, Takes, Badge_Root, BadgeTypes, Class, ++, Members
<1>2. /\ CredentialLike(BadgeV1_Root, BadgeTypes, "AchievementSubjectv1p1", "Profilev1p1")
      /\ Takes(BadgeV1_Root, "image", A("Image"))
  BY DEF CredentialLike, IssuerLike, Takes, BadgeV1_Root, BadgeTypes, Class, ++, Members
<1>3. /\ CredentialLike(EndorsementCredential, {"EndorsementCredential"},
                        "EndorsementSubject", "Profile")
      /\ EndorsementLike(EndorsementCredential)
  BY DEF CredentialLike, IssuerLike, EndorsementLike, Takes, EndorsementCredential,
         Class, ++, Members
<1>4. /\ CredentialLike(EndorsementCredentialv1p1, {"EndorsementCredential"},
                        "EndorsementSubject", "Profilev1p1")
      /\ EndorsementLike(EndorsementCredentialv1p1)
  BY DEF CredentialLike, IssuerLike, EndorsementLike, Takes, EndorsementCredentialv1p1,
         Class, ++, Members
<1> QED  BY <1>1, <1>2, <1>3, <1>4 DEF Endorsement_Root, EndorsementV1_Root

-----------------------------------------------------------------------------
(* A plain credential that passed the schema of its type and version *)

\* The values of a document with their classes.
LEMMA WorldIs ==
  ASSUME call \in Calls, NEW defs
  PROVE  World(Within(document), PlainIn(Within(document)), defs,
               Instances(Within(document), defs), Instances(Within(document), Classes))
<1> DEFINE vs == Within(document)
           plain == PlainIn(vs)
<1>1. Values(vs)
  BY DocumentValues
<1>2. plain = [v \in vs |-> PlainHere(v, plain)]
  BY PlainIs
<1>3. Classed(vs, defs, Instances(vs, defs)) /\ Classed(vs, Classes, Instances(vs, Classes))
  BY InstancesClassed
<1> HIDE DEF vs, plain
<1>4. DOMAIN plain = vs /\ \A v \in vs : plain[v] => PlainHere(v, plain)
  BY <1>2
<1> QED  BY <1>1, <1>3, <1>4 DEF World, vs, plain

\* The members of a credential, as the parser wants them: the context, which the
\* context check and the selection of the schema read before,
LEMMA ContextCarried ==
  ASSUME call \in Calls, Selects(document),
         NEW vs, NEW plain, NEW defs, NEW a, NEW b, NEW root,
         Seen(vs, plain, defs, a, b, document, root), "context" \in DOMAIN document.members
  PROVE  Conforms(document.members["context"], Obv3p0ContextArray, b)
<1> DEFINE c == document.members["context"]
<1>1. "context" \notin Unread
  BY DEF Unread
<1>2. Values(vs) /\ Of(vs, plain, "context", c) /\ At(document, "context") = c
  BY <1>1, SeenMember
<1>3. /\ \E vc \in {VC_CONTEXT_V1, VC_CONTEXT_V2} : IsTextIn(firstContextEntry(c), {vc})
      /\ stringValues(c) \cap ObPrefixed # {} /\ IsJson(c)
  BY <1>2, Selected DEF Context1
<1> HIDE DEF c
<1>4. c \in vs /\ c.kind = "array" /\ Items(c) = c.items
  BY <1>2 DEF Of, PlainMember, ArrayNames, Items
<1>5. ASSUME NEW i \in DOMAIN c.items
      PROVE  FitsOne(c.items[i], AnyText, b)
  <2>1. IsText(c.items[i])
    BY <1>2, <1>4 DEF Of, PlainMember
  <2>2. c.items[i] \in vs
    BY <1>2, <1>4, ItemIsValue
  <2> QED  BY <1>2, <2>1, <2>2, TextOf
<1>6. c = Arr(c.items) /\ c.items \in Seq(Parts(c))
      /\ DOMAIN c.items = 1..Len(c.items) /\ Len(c.items) \in Nat
  BY <1>3, <1>4, ArrayIs
<1>7. c # Arr(<<>>)
  <2>1. SUFFICES ASSUME c = Arr(<<>>) PROVE FALSE
    OBVIOUS
  <2>2. firstContextEntry(c) = Undefined
    BY <1>4, <2>1, Zenon DEF firstContextEntry
  <2> QED  BY <1>3, <2>2 DEF IsTextIn, IsText, Undefined
<1>8. c.items # <<>> /\ Head(c.items) = c.items[1] /\ Len(c.items) >= 1
  BY <1>6, <1>7
<1>9. firstContextEntry(c) = c.items[1]
  BY <1>4, <1>7, <1>8, Zenon DEF firstContextEntry
<1>10. IsTextIn(c.items[1], {VC_CONTEXT_V1, VC_CONTEXT_V2})
  BY <1>3, <1>9 DEF IsTextIn
<1>11. \E i \in DOMAIN c.items : IsTextIn(c.items[i], ObPrefixed)
  <2>1. asEntries(c) = c.items
    BY <1>4 DEF asEntries
  <2> QED  BY <1>3, <2>1 DEF stringValues, IsTextIn
<1> DEFINE heads == <<{VC_CONTEXT_V1, VC_CONTEXT_V2}>>
           holds == <<ObPrefixed>>
<1>12. /\ Len(heads) = 1 /\ DOMAIN heads = {1} /\ heads[1] = {VC_CONTEXT_V1, VC_CONTEXT_V2}
       /\ DOMAIN holds = {1} /\ holds[1] = ObPrefixed
  OBVIOUS
<1> HIDE DEF heads, holds
<1>13. ArrayFits(c, AnyText, heads, holds, b)
  <2>1. \A i \in DOMAIN c.items : IF i \in DOMAIN heads THEN IsTextIn(c.items[i], heads[i])
                                  ELSE FitsOne(c.items[i], AnyText, b)
    BY <1>5, <1>10, <1>12
  <2>2. \A h \in DOMAIN holds : \E i \in DOMAIN c.items : IsTextIn(c.items[i], holds[h])
    BY <1>11, <1>12
  <2> QED  BY <1>4, <1>8, <1>12, <2>1, <2>2 DEF ArrayFits
<1> QED  BY <1>13, ManyArray DEF Obv3p0ContextArray, heads, holds, c

\* the types,
LEMMA TypeCarried ==
  ASSUME NEW vs, NEW plain, NEW defs, NEW a, NEW b, NEW root,
         Seen(vs, plain, defs, a, b, document, root), "type" \in DOMAIN document.members,
         NEW types, Takes(root, "type", TypeOf(<<{"VerifiableCredential"}, types>>)),
         hasType(document, "VerifiableCredential"),
         NEW name, hasType(document, name), name # "VerifiableCredential"
  PROVE  Conforms(document.members["type"], CredentialType(types), b)
<1> DEFINE t == document.members["type"]
           holds == <<{"VerifiableCredential"}, types>>
<1>1. "type" \notin Unread
  BY DEF Unread
<1>2. Values(vs) /\ Of(vs, plain, "type", t) /\ At(document, "type") = t
  BY <1>1, SeenMember
<1>3. Conforms(t, TypeOf(holds), a)
  BY MemberFits DEF Seen
<1>4. "VerifiableCredential" \in stringValues(t) /\ name \in stringValues(t)
  BY <1>2 DEF hasType
<1> HIDE DEF t, holds
<1>5. ~Conforms(t, String, a)
  <2>1. SUFFICES ASSUME Conforms(t, String, a) PROVE FALSE
    OBVIOUS
  <2>2. IsText(t)
    BY <1>2, <2>1, PlainText
  <2>3. stringValues(t) \subseteq {t.text}
    BY <2>2 DEF IsText, stringValues, asEntries
  <2> QED  BY <1>4, <2>3
<1>6. Conforms(t, Array(String, <<>>, holds), a)
  BY <1>3, <1>5, ManyEither, Zenon DEF TypeOf
<1>7. ArrayFits(t, String, <<>>, holds, a)
  BY <1>6, ManyArray, Zenon
<1>8. Conforms(t, Array(AnyText, <<>>, holds), b)
  BY <1>2, <1>7, PlainArray
<1> QED  BY <1>8 DEF CredentialType, t, holds

\* and the issuer, which the structure check read.
LEMMA IssuerCarried ==
  ASSUME NEW vs, NEW plain, NEW defs, NEW a, NEW b, NEW root,
         Seen(vs, plain, defs, a, b, document, root), "issuer" \in DOMAIN document.members,
         NEW org, NEW p, Names(defs, org, p), ProfileLike(p), Names(defs, "Image", Image),
         IssuerLike(root, org),
         urlOrIdObject(At(document, "issuer"))
  PROVE  Conforms(document.members["issuer"], ProfileRefField, b)
<1> DEFINE m == document.members["issuer"]
<1>1. "issuer" \notin Unread
  BY DEF Unread
<1>2. /\ Values(vs) /\ Of(vs, plain, "issuer", m) /\ At(document, "issuer") = m
      /\ World(vs, plain, defs, a, b)
  BY <1>1, SeenMember DEF Seen
<1>3. Conforms(m, A(org), a) \/ (Conforms(m, ProfileRef, a) /\ org = "Profile")
  BY MemberFits DEF Seen, IssuerLike
<1>4. urlOrIdObject(m)
  BY <1>2
<1> HIDE DEF m
<1>5. Holds(m, org, a) \/ Conforms(m, String, a)
  BY <1>3, ManyEither, ManyClass, Zenon DEF ProfileRef
<1>6. CASE Holds(m, org, a)
  <2>1. m \in vs /\ plain[m] /\ ~IsText(At(m, "type"))
    BY <1>2 DEF Of, PlainMember
  <2>2. Holds(m, "Profile", b)
    BY <1>2, <1>6, <2>1, ProfileCarried
  <2> QED  BY <2>2, ProfileFits DEF m
<1>7. CASE Conforms(m, String, a)
  <2>1. IsText(m)
    BY <1>2, <1>7, PlainText
  <2>2. ~isUrl(At(m, "id"))
    BY <2>1 DEF IsText, isUrl, IsTextIn, At, isPlainObject, Undefined
  <2>3. IsTextIn(m, Iri)
    BY <1>2, <2>1 DEF Of, PlainMember
  <2> QED  BY <2>3, ManyText, ManyEither, Zenon DEF ProfileRefField, IriString, m
<1> QED  BY <1>5, <1>6, <1>7

\* The instances among a document's values, as its schema and the parser see them.
BySchema(defs) == Instances(Within(document), defs)
ByParser       == Instances(Within(document), Classes)
\* The document as its schema and the parser see it.
DocumentSeen(defs, root) ==
  Seen(Within(document), PlainIn(Within(document)), defs, BySchema(defs), ByParser, document, root)

LEMMA DocumentIsSeen ==
  ASSUME call \in Calls, Plain(document), NEW root, NEW defs,
         ConformsToClass(document, root, defs)
  PROVE  DocumentSeen(defs, root) /\ isPlainObject(document)
<1>1. document \in Within(document)
  BY DocumentValues
<1>2. IsInstance(document, root, BySchema(defs))
  BY DEF ConformsToClass, BySchema
<1>3. isPlainObject(document)
  BY <1>2 DEF IsInstance
<1>4. PlainIn(Within(document))[document]
  BY DEF Plain
<1> QED  BY <1>1, <1>2, <1>3, <1>4, WorldIs DEF DocumentSeen, Seen, BySchema, ByParser

\* The date that starts its validity is there, as the version has it.
LEMMA StartDatedIs ==
  ASSUME call \in Calls, Selects(document),
         NEW root, NEW defs, NEW date, NEW vc,
         RootOf(root, date, vc), ConformsToClass(document, root, defs),
         date = (IF vc = VC_CONTEXT_V1 THEN "issuanceDate" ELSE "validFrom"),
         vc \in {VC_CONTEXT_V1, VC_CONTEXT_V2}
  PROVE  StartDated(document)
<1>1. /\ vc = (IF IsV1 THEN VC_CONTEXT_V1 ELSE VC_CONTEXT_V2)
      /\ IsTextIn(At(document, date), FormatDateTime)
  BY OtherVersionRefuses
<1>2. vcVersionOf(At(document, "context")) = IF IsV1 THEN "v1" ELSE "v2"
  BY Selected DEF vcVersion
<1>3. Has(document, date)
  BY <1>1 DEF Has, IsTextIn, IsText, Undefined
<1> QED  BY <1>1, <1>2, <1>3, ContextApart DEF StartDated

\* An endorsement without an image has none for the parser either.
LEMMA ImageAbsent ==
  ASSUME call \in Calls, isPlainObject(document), ~Has(document, "image")
  PROVE  "image" \notin DOMAIN document.members
<1>1. SUFFICES ASSUME "image" \in DOMAIN document.members PROVE FALSE
  OBVIOUS
<1> DEFINE m == document.members["image"]
<1>2. m \in Parts(document)
  BY <1>1, PartOfObject
<1>3. IsJson(m)
  BY <1>2, DocumentValues DEF Values
<1>4. m = Undefined
  BY <1>1 DEF Has, At
<1>5. Undefined \notin {Null, Number, Boolean} /\ Undefined.kind = "undefined"
  BY DEF Undefined, Null, Number, Boolean
<1> HIDE DEF m
<1> QED  BY <1>3, <1>4, <1>5 DEF IsJson

-----------------------------------------------------------------------------
(* A credential that its schema accepted is recognized *)

\* A subject that is named is identified, to the parser.
LEMMA SubjectNamedIs ==
  ASSUME NEW vs, NEW plain, NEW defs, NEW a, NEW b, NEW root,
         Seen(vs, plain, defs, a, b, document, root),
         "credentialSubject" \in DOMAIN document.members, SubjectNamed
  PROVE  Identified(At(document, "credentialSubject"))
<1> DEFINE s == At(document, "credentialSubject")
<1>1. "credentialSubject" \notin Unread
  BY DEF Unread
<1>2. /\ s \in vs /\ plain[s] /\ World(vs, plain, defs, a, b)
  BY <1>1, SeenMember DEF Seen, Of
<1>3. Has(s, "id") \/ Items(At(s, "identifier")) # <<>>
  BY DEF SubjectNamed
<1> HIDE DEF s
<1>4. CASE Has(s, "id")
  <2>1. isPlainObject(s) /\ "id" \in DOMAIN s.members /\ At(s, "id") = s.members["id"]
    BY <1>4 DEF Has, At
  <2>2. "id" \notin Unread
    BY DEF Unread
  <2>3. Of(vs, plain, "id", s.members["id"])
    BY <1>2, <2>1, <2>2, MemberPlain
  <2>4. IsTextIn(At(s, "id"), Url \cap Iri)
    BY <2>1, <2>3 DEF Of, PlainMember, UrlNames
  <2>5. IsText(At(s, "id")) /\ At(s, "id").text \in Url
    BY <2>4 DEF IsTextIn
  <2> QED  BY <2>5, TextsAssumption DEF Identified, isUrl, IsTextIn, s
<1>5. CASE Items(At(s, "identifier")) # <<>>
  BY <1>5, ItemsThere DEF Identified, s
<1> QED  BY <1>3, <1>4, <1>5

\* The root of a schema with the date and the context of its version.
RootFor(root, vc) ==
  RootOf(root, IF vc = VC_CONTEXT_V1 THEN "issuanceDate" ELSE "validFrom", vc)

\* The parser takes a badge that its schema accepted.
LEMMA BadgeRecognized ==
  ASSUME call \in Calls, Selects(document), vcStructureCheck(document), Plain(document),
         DatedForParser,
         SubjectNamed, hasType(document, "OpenBadgeCredential"),
         NEW root, NEW defs, NEW vc \in {VC_CONTEXT_V1, VC_CONTEXT_V2}, RootFor(root, vc),
         NEW org, NEW achievement, NEW subject, BadgeClasses(defs, org, achievement, subject),
         CredentialLike(root, BadgeTypes, subject, org), Takes(root, "image", A("Image")),
         ConformsToClass(document, root, defs)
  PROVE  parseObv3p0OpenBadgeCredential(document)
<1> DEFINE vs == Within(document)
           plain == PlainIn(vs)
           a == BySchema(defs)
           b == ByParser
           c == Obv3p0OpenBadgeCredentialSchema
           d == document.members
<1>1. Seen(vs, plain, defs, a, b, document, root) /\ isPlainObject(document)
  BY DocumentIsSeen DEF DocumentSeen
<1> HIDE DEF vs, plain, a, b
<1>2. {"context", "id", "type", "issuer", "credentialSubject"} \subseteq DOMAIN d
  BY <1>1 DEF Seen, IsInstance, CredentialLike
<1>3. World(vs, plain, defs, a, b)
  BY <1>1 DEF Seen
<1>4. Conforms(d["context"], Obv3p0ContextArray, b)
  BY <1>1, <1>2, ContextCarried
<1>5. Conforms(d["type"], CredentialType(BadgeTypes), b)
  <2>1. hasType(document, "VerifiableCredential")
    BY DEF vcStructureCheck, typeIncludes, hasType
  <2>2. Takes(root, "type", TypeOf(<<{"VerifiableCredential"}, BadgeTypes>>))
    BY DEF CredentialLike
  <2> QED  BY <1>1, <1>2, <2>1, <2>2, TypeCarried
<1>6. Conforms(d["issuer"], ProfileRefField, b)
  <2>1. PICK p : Names(defs, org, p) /\ ProfileLike(p)
    BY DEF BadgeClasses
  <2>2. urlOrIdObject(At(document, "issuer"))
    BY DEF vcStructureCheck
  <2>3. Names(defs, "Image", Image) /\ IssuerLike(root, org)
    BY DEF BadgeClasses, CredentialLike
  <2> QED  BY <1>1, <1>2, <2>1, <2>2, <2>3, IssuerCarried
<1>7. "image" \in DOMAIN d => Conforms(d["image"], ImageField, b)
  BY <1>1, <1>3, ImageMember, ImageCarried DEF BadgeClasses, Carries
<1>8. Conforms(d["credentialSubject"], A("AchievementSubject"), b)
  <2> DEFINE m == d["credentialSubject"]
  <2>1. "credentialSubject" \notin Unread /\ Takes(root, "credentialSubject", A(subject))
    BY DEF Unread, CredentialLike
  <2>2. m \in vs /\ plain[m] /\ Holds(m, subject, a) /\ ~IsText(At(m, "type"))
    BY <1>1, <1>2, <2>1, ClassMember
  <2>3. PICK p : Names(defs, org, p) /\ ProfileLike(p)
    BY DEF BadgeClasses
  <2>4. PICK k : Names(defs, achievement, k) /\ AchievementLike(k, org)
    BY DEF BadgeClasses
  <2>5. PICK s : Names(defs, subject, s) /\ AchievementSubjectLike(s, achievement)
    BY DEF BadgeClasses
  <2> HIDE DEF m
  <2>6. Holds(m, "AchievementSubject", b)
    BY <1>3, <2>2, <2>3, <2>4, <2>5, AchievementSubjectCarried DEF BadgeClasses
  <2> QED  BY <2>6, ManyClass DEF m
<1>9. Conforms(d["id"], IriString, b)
  BY <1>1, <1>2, UrlMember DEF UrlNames, Carries
<1>10. \A n \in Dates : n \in DOMAIN d => Conforms(d[n], ZodDateTime, b)
  BY ManyText DEF DatedForParser, ZodDateTime
<1>11. /\ c.required = {"context", "id", "type", "issuer", "credentialSubject"} /\ ~c.closed
       /\ DOMAIN c.members =
            Dates \cup {"context", "id", "type", "issuer", "image", "credentialSubject"}
  BY DEF Obv3p0OpenBadgeCredentialSchema, Class, ++, Members
<1>12. /\ \A n \in Dates : c.members[n] = ZodDateTime
       /\ c.members["context"] = Obv3p0ContextArray /\ c.members["id"] = IriString
       /\ c.members["type"] = CredentialType(BadgeTypes)
       /\ c.members["issuer"] = ProfileRefField /\ c.members["image"] = ImageField
       /\ c.members["credentialSubject"] = A("AchievementSubject")
  BY DEF Obv3p0OpenBadgeCredentialSchema, Class, ++, Members, Dates, BadgeTypes
<1> HIDE DEF c
<1>13. IsInstance(document, c, b)
  <2>1. \A n \in DOMAIN c.members : n \in DOMAIN d => Conforms(d[n], c.members[n], b)
    BY <1>4, <1>5, <1>6, <1>7, <1>8, <1>9, <1>10, <1>11, <1>12
  <2> QED  BY <1>1, <1>2, <1>11, <2>1, InstanceIf
<1>14. ConformsToClass(document, Obv3p0OpenBadgeCredentialSchema, Classes)
  BY <1>13 DEF ConformsToClass, b, c, ByParser
<1>15. StartDated(document)
  BY StartDatedIs DEF RootFor
<1>16. Identified(At(document, "credentialSubject"))
  BY <1>1, <1>2, SubjectNamedIs
<1> QED  BY <1>14, <1>15, <1>16 DEF parseObv3p0OpenBadgeCredential

\* The parser takes an endorsement that its schema accepted.
LEMMA EndorsementRecognized ==
  ASSUME call \in Calls, Selects(document), vcStructureCheck(document), Plain(document),
         DatedForParser,
         ~Has(document, "image"), ~IsBadge, hasType(document, "EndorsementCredential"),
         NEW root, NEW defs, NEW vc \in {VC_CONTEXT_V1, VC_CONTEXT_V2}, RootFor(root, vc),
         NEW org, EndorsementClasses(defs, org), EndorsementLike(root),
         CredentialLike(root, {"EndorsementCredential"}, "EndorsementSubject", org),
         ConformsToClass(document, root, defs)
  PROVE  parseObv3p0EndorsementCredential(document)
<1> DEFINE vs == Within(document)
           plain == PlainIn(vs)
           a == BySchema(defs)
           b == ByParser
           c == Obv3p0EndorsementCredentialSchema
           d == document.members
<1>1. Seen(vs, plain, defs, a, b, document, root) /\ isPlainObject(document)
  BY DocumentIsSeen DEF DocumentSeen
<1> HIDE DEF vs, plain, a, b
<1>2. {"context", "id", "type", "name", "issuer", "credentialSubject"} \subseteq DOMAIN d
  BY <1>1 DEF Seen, IsInstance, CredentialLike, EndorsementLike
<1>3. World(vs, plain, defs, a, b)
  BY <1>1 DEF Seen
<1>4. Conforms(d["context"], Obv3p0ContextArray, b)
  BY <1>1, <1>2, ContextCarried
<1>5. Conforms(d["type"], CredentialType({"EndorsementCredential"}), b)
  <2>1. hasType(document, "VerifiableCredential")
    BY DEF vcStructureCheck, typeIncludes, hasType
  <2>2. Takes(root, "type", TypeOf(<<{"VerifiableCredential"}, {"EndorsementCredential"}>>))
    BY DEF CredentialLike
  <2> QED  BY <1>1, <1>2, <2>1, <2>2, TypeCarried
<1>6. Conforms(d["issuer"], ProfileRefField, b)
  <2>1. PICK p : Names(defs, org, p) /\ ProfileLike(p)
    BY DEF EndorsementClasses
  <2>2. urlOrIdObject(At(document, "issuer"))
    BY DEF vcStructureCheck
  <2>3. Names(defs, "Image", Image) /\ IssuerLike(root, org)
    BY DEF EndorsementClasses, CredentialLike
  <2> QED  BY <1>1, <1>2, <2>1, <2>2, <2>3, IssuerCarried
<1>7. "image" \notin DOMAIN d
  BY <1>1, ImageAbsent
<1>8. Conforms(d["credentialSubject"], A("EndorsementSubject"), b)
  <2> DEFINE m == d["credentialSubject"]
  <2>1. /\ "credentialSubject" \notin Unread
        /\ Takes(root, "credentialSubject", A("EndorsementSubject"))
    BY DEF Unread, CredentialLike
  <2>2. m \in vs /\ plain[m] /\ Holds(m, "EndorsementSubject", a) /\ ~IsText(At(m, "type"))
    BY <1>1, <1>2, <2>1, ClassMember
  <2> HIDE DEF m
  <2>3. Holds(m, "EndorsementSubject", b)
    BY <1>3, <2>2, EndorsementSubjectCarried DEF EndorsementClasses
  <2> QED  BY <2>3, ManyClass DEF m
<1>9. Conforms(d["id"], IriString, b)
  BY <1>1, <1>2, UrlMember DEF UrlNames, Carries
<1>10. \A n \in Dates : n \in DOMAIN d => Conforms(d[n], ZodDateTime, b)
  BY ManyText DEF DatedForParser, ZodDateTime, IsBadge
<1>11. "awardedDate" \in DOMAIN d => Conforms(d["awardedDate"], ZodDateTime, b)
  BY ManyText DEF DatedForParser, ZodDateTime, IsBadge
<1>12. \A n \in {"name", "description"} : n \in DOMAIN d => Conforms(d[n], AnyText, b)
  <2>1. ASSUME NEW n \in {"name", "description"}
        PROVE  n \notin Unread /\ n # "criteria" /\ Takes(root, n, String)
    BY <2>1 DEF Unread, EndorsementLike
  <2> QED  BY <1>1, <2>1, StringMember DEF Carries
<1>13. /\ c.required = {"context", "id", "type", "name", "issuer", "credentialSubject"} /\ ~c.closed
       /\ DOMAIN c.members =
            Dates \cup {"awardedDate", "name", "description", "context", "id", "type", "issuer",
                        "image", "credentialSubject"}
  BY DEF Obv3p0EndorsementCredentialSchema, Class, ++, Members
<1>14. /\ \A n \in Dates : c.members[n] = ZodDateTime
       /\ c.members["awardedDate"] = ZodDateTime
       /\ c.members["name"] = AnyText /\ c.members["description"] = AnyText
       /\ c.members["context"] = Obv3p0ContextArray /\ c.members["id"] = IriString
       /\ c.members["type"] = CredentialType({"EndorsementCredential"})
       /\ c.members["issuer"] = ProfileRefField
       /\ c.members["credentialSubject"] = A("EndorsementSubject")
  BY DEF Obv3p0EndorsementCredentialSchema, Class, ++, Members, Dates
<1> HIDE DEF c
<1>15. IsInstance(document, c, b)
  <2>1. \A n \in DOMAIN c.members : n \in DOMAIN d => Conforms(d[n], c.members[n], b)
    BY <1>4, <1>5, <1>6, <1>7, <1>8, <1>9, <1>10, <1>11, <1>12, <1>13, <1>14
  <2> QED  BY <1>1, <1>2, <1>13, <2>1, InstanceIf
<1>16. ConformsToClass(document, Obv3p0EndorsementCredentialSchema, Classes)
  BY <1>15 DEF ConformsToClass, b, c, ByParser
<1>17. StartDated(document)
  BY StartDatedIs DEF RootFor
<1> QED  BY <1>16, <1>17 DEF parseObv3p0EndorsementCredential

\* The schema of a badge or an endorsement, with what is known of its classes.
LEMMA SelectedIs ==
  ASSUME call \in Calls, Selects(document)
  PROVE  LET s == selectObSchema(document)
         IN  \E vc \in {VC_CONTEXT_V1, VC_CONTEXT_V2} : \E org :
               /\ RootFor(s.root, vc)
               /\ IsBadge =>
                    \E achievement, subject :
                      /\ BadgeClasses(s.defs, org, achievement, subject)
                      /\ CredentialLike(s.root, BadgeTypes, subject, org)
                      /\ Takes(s.root, "image", A("Image"))
               /\ ~IsBadge =>
                    /\ EndorsementClasses(s.defs, org) /\ EndorsementLike(s.root)
                    /\ CredentialLike(s.root, {"EndorsementCredential"}, "EndorsementSubject", org)
<1> DEFINE v == VENDORED_OB_SCHEMAS
           s == selectObSchema(document)
           t == IF IsBadge THEN "OpenBadgeCredential" ELSE "EndorsementCredential"
           w == IF IsV1 THEN "v1" ELSE "v2"
<1>1. s = v[Place(t, w)]
  BY Selected, VendoredIs DEF selectObSchema
<1>2. /\ v[1].root = Badge_Root /\ v[1].defs = Badge_Defs
      /\ v[2].root = BadgeV1_Root /\ v[2].defs = BadgeV1_Defs
      /\ v[3].root = Endorsement_Root /\ v[3].defs = Endorsement_Defs
      /\ v[4].root = EndorsementV1_Root /\ v[4].defs = EndorsementV1_Defs
  BY Vendored4 DEF Vendored
<1>3. /\ RootFor(Badge_Root, VC_CONTEXT_V2) /\ RootFor(BadgeV1_Root, VC_CONTEXT_V1)
      /\ RootFor(Endorsement_Root, VC_CONTEXT_V2) /\ RootFor(EndorsementV1_Root, VC_CONTEXT_V1)
  BY RootsAre, ContextApart DEF RootFor
<1> HIDE DEF s, v
<1>4. CASE IsBadge /\ ~IsV1
  <2>1. s.root = Badge_Root /\ s.defs = Badge_Defs
    BY <1>1, <1>2, <1>4 DEF Place
  <2> QED  BY <1>3, <1>4, <2>1, BadgeClassesAre, CredentialsAre, Zenon DEF s
<1>5. CASE IsBadge /\ IsV1
  <2>1. s.root = BadgeV1_Root /\ s.defs = BadgeV1_Defs
    BY <1>1, <1>2, <1>5 DEF Place
  <2> QED  BY <1>3, <1>5, <2>1, BadgeClassesAre, CredentialsAre, Zenon DEF s
<1>6. CASE ~IsBadge /\ ~IsV1
  <2>1. s.root = Endorsement_Root /\ s.defs = Endorsement_Defs
    BY <1>1, <1>2, <1>6 DEF Place
  <2> QED  BY <1>3, <1>6, <2>1, EndorsementClassesAre, CredentialsAre, Zenon DEF s
<1>7. CASE ~IsBadge /\ IsV1
  <2>1. s.root = EndorsementV1_Root /\ s.defs = EndorsementV1_Defs
    BY <1>1, <1>2, <1>7 DEF Place
  <2> QED  BY <1>3, <1>7, <2>1, EndorsementClassesAre, CredentialsAre, Zenon DEF s
<1> QED  BY <1>4, <1>5, <1>6, <1>7

\* The recognizer for what the schema accepted takes it.
LEMMA AcceptedParses ==
  ASSUME IInv, Status("schema.obv3.json") = "success", Plain(document), DatedForParser,
         IF IsBadge THEN SubjectNamed ELSE ~Has(document, "image")
  PROVE  parse(ProfileOf(getObType(document)))
<1>1. /\ call \in Calls /\ Selects(document) /\ vcStructureCheck(document)
      /\ ConformsToClass(document, selectObSchema(document).root, selectObSchema(document).defs)
  BY AcceptedIs
<1>2. PICK vc \in {VC_CONTEXT_V1, VC_CONTEXT_V2} : \E org :
        LET s == selectObSchema(document)
        IN     /\ RootFor(s.root, vc)
               /\ IsBadge =>
                    \E achievement, subject :
                      /\ BadgeClasses(s.defs, org, achievement, subject)
                      /\ CredentialLike(s.root, BadgeTypes, subject, org)
                      /\ Takes(s.root, "image", A("Image"))
               /\ ~IsBadge =>
                    /\ EndorsementClasses(s.defs, org) /\ EndorsementLike(s.root)
                    /\ CredentialLike(s.root, {"EndorsementCredential"}, "EndorsementSubject", org)
  BY <1>1, SelectedIs
<1>3. getObType(document) = IF IsBadge THEN "OpenBadgeCredential" ELSE "EndorsementCredential"
  BY <1>1, Selected
<1>4. CASE IsBadge
  <2>1. parseObv3p0OpenBadgeCredential(document)
    BY <1>1, <1>2, <1>4, BadgeRecognized DEF IsBadge
  <2> QED  BY <1>3, <1>4, <2>1 DEF ProfileOf, parse
<1>5. CASE ~IsBadge
  <2>1. hasType(document, "EndorsementCredential")
    BY <1>1, <1>3, <1>5 DEF getObType, isEndorsementCredential
  <2>2. parseObv3p0EndorsementCredential(document)
    BY <1>1, <1>2, <1>5, <2>1, EndorsementRecognized
  <2> QED  BY <1>3, <1>5, <2>2 DEF ProfileOf, parse
<1> QED  BY <1>4, <1>5

\* The recognizer that takes it is the one asked, and decides the profile.
LEMMA AcceptedIsRecognized ==
  ASSUME IInv, Status("schema.obv3.json") = "success", ~BothTypes,
         ProfileOf(getObType(document)) \in ToSet(call.recognizers),
         parse(ProfileOf(getObType(document)))
  PROVE  profile = ProfileOf(getObType(document))
<1> DEFINE of == ProfileOf(getObType(document))
<1>1. call \in Calls /\ Selects(document) /\ "recognition.profile" \in DOMAIN report
  BY AcceptedIs
<1>2. call.recognizers \in Seq(Recognizers)
  BY <1>1, CallIs
<1>3. \A i \in DOMAIN call.recognizers : call.recognizers[i] \in Recognizers
  BY <1>2, ElementOfSeq, LenProperties
<1>4. getObType(document) # "none"
  BY <1>1 DEF Selects
<1>5. \A r \in Recognizers : RecognizerApplies(r) <=> r = of
  BY <1>4 DEF Recognizers, RecognizerApplies, BothTypes, getObType, ProfileOf
<1>6. \A i \in DOMAIN call.recognizers : i \in Applying <=> call.recognizers[i] = of
  BY <1>3, <1>5 DEF Applying
<1>7. Applying # {}
  BY <1>6 DEF ToSet
<1>8. \A i \in First(Applying) : call.recognizers[i] = of
  BY <1>6 DEF First, Applying
<1> QED  BY <1>1, <1>7, <1>8 DEF IInv, Recognized

\* What was recognized has the dates that its parser reads.
LEMMA RecognizedIsDated ==
  ASSUME IInv, Status("schema.obv3.json") = "success",
         profile = ProfileOf(getObType(document))
  PROVE  DatedForParser
<1>1. call \in Calls /\ Selects(document)
  BY AcceptedIs
<1>2. profile # "none"
  BY DEF ProfileOf
<1>3. parse(profile)
  BY <1>2 DEF IInv, Recognized
<1>4. getObType(document) = IF IsBadge THEN "OpenBadgeCredential" ELSE "EndorsementCredential"
  BY <1>1, Selected
<1> DEFINE d == document.members
<1>5. CASE IsBadge
  <2> DEFINE c == Obv3p0OpenBadgeCredentialSchema
  <2>1. IsInstance(document, c, ByParser)
    BY <1>3, <1>4, <1>5 DEF ProfileOf, parse, parseObv3p0OpenBadgeCredential, ConformsToClass, ByParser
  <2>2. \A n \in Dates : n \in DOMAIN c.members /\ c.members[n] = ZodDateTime
    BY DEF Obv3p0OpenBadgeCredentialSchema, Class, ++, Members, Dates
  <2> HIDE DEF c
  <2>3. \A n \in Dates \cap DOMAIN d : Conforms(d[n], ZodDateTime, ByParser)
    BY <2>1, <2>2 DEF IsInstance
  <2> QED  BY <1>5, <2>3, ManyText DEF DatedForParser, IsBadge, ZodDateTime
<1>6. CASE ~IsBadge
  <2> DEFINE c == Obv3p0EndorsementCredentialSchema
  <2>1. IsInstance(document, c, ByParser)
    BY <1>3, <1>4, <1>6
       DEF ProfileOf, parse, parseObv3p0EndorsementCredential, ConformsToClass, ByParser
  <2>2. \A n \in Dates \cup {"awardedDate"} : n \in DOMAIN c.members /\ c.members[n] = ZodDateTime
    BY DEF Obv3p0EndorsementCredentialSchema, Class, ++, Members, Dates
  <2> HIDE DEF c
  <2>3. \A n \in (Dates \cup {"awardedDate"}) \cap DOMAIN d : Conforms(d[n], ZodDateTime, ByParser)
    BY <2>1, <2>2 DEF IsInstance
  <2> QED  BY <1>6, <2>3, ManyText DEF DatedForParser, IsBadge, ZodDateTime
<1> QED  BY <1>5, <1>6

\* The type of an accepted badge's achievement is of the schema's vocabulary.
LEMMA AchievementTypeIs ==
  ASSUME call \in Calls, Selects(document), IsBadge,
         ConformsToClass(document, selectObSchema(document).root, selectObSchema(document).defs),
         NEW type, type = At(At(At(document, "credentialSubject"), "achievement"), "achievementType"),
         type # Undefined
  PROVE  IsTextIn(type, AchievementType \cup Extension)
<1> DEFINE root == selectObSchema(document).root
           defs == selectObSchema(document).defs
           vs   == Within(document)
           a    == BySchema(defs)
           s    == At(document, "credentialSubject")
           k    == At(s, "achievement")
<1>1. PICK org, achievement, subject :
        /\ BadgeClasses(defs, org, achievement, subject)
        /\ CredentialLike(root, BadgeTypes, subject, org)
  BY SelectedIs
<1>2. IsInstance(document, root, a)
  BY DEF ConformsToClass, BySchema
<1>3. Classed(vs, defs, a)
  BY InstancesClassed DEF BySchema
<1>4. Values(vs) /\ document \in vs
  BY DocumentValues
<1> HIDE DEF root, defs, vs, a
<1>5. Holds(s, subject, a) /\ s = document.members["credentialSubject"] /\ s \in vs
  <2>1. Takes(root, "credentialSubject", A(subject)) /\ "credentialSubject" \in root.required
    BY <1>1 DEF CredentialLike
  <2>2. /\ isPlainObject(document) /\ "credentialSubject" \in DOMAIN document.members
        /\ s = document.members["credentialSubject"] /\ Conforms(s, A(subject), a)
    BY <1>2, <2>1, RequiredMember
  <2>3. s \in vs
    BY <1>4, <2>2, PartOfObject DEF Values
  <2> QED  BY <2>2, <2>3, ManyClass
<1> HIDE DEF s
<1>6. PICK sc : Names(defs, subject, sc) /\ AchievementSubjectLike(sc, achievement)
                /\ "achievement" \in sc.required
  BY <1>1 DEF BadgeClasses
<1>7. IsInstance(s, sc, a)
  BY <1>3, <1>5, <1>6 DEF Classed, Names
<1>8. Holds(k, achievement, a) /\ k \in vs
  <2>1. Takes(sc, "achievement", A(achievement))
    BY <1>6 DEF AchievementSubjectLike
  <2>2. /\ isPlainObject(s) /\ "achievement" \in DOMAIN s.members
        /\ k = s.members["achievement"] /\ Conforms(k, A(achievement), a)
    BY <1>6, <1>7, <2>1, RequiredMember
  <2>3. k \in vs
    BY <1>4, <1>5, <2>2, PartOfObject DEF Values
  <2> QED  BY <2>2, <2>3, ManyClass
<1> HIDE DEF k
<1>9. PICK kc : Names(defs, achievement, kc)
                /\ Takes(kc, "achievementType", TextIn(AchievementType \cup Extension))
  BY <1>1 DEF BadgeClasses
<1>10. IsInstance(k, kc, a)
  BY <1>3, <1>8, <1>9 DEF Classed, Names
<1>11. type = At(k, "achievementType")
  BY DEF k, s
<1>12. "achievementType" \in DOMAIN k.members /\ type = k.members["achievementType"]
  BY <1>11 DEF At
<1>13. Conforms(type, TextIn(AchievementType \cup Extension), a)
  BY <1>9, <1>10, <1>12, MemberFits
<1> QED  BY <1>13, ManyText

\* The checks know every achievement type the schemas do.
LEMMA VocabulariesAgree == AchievementType \subseteq KNOWN_ACHIEVEMENT_TYPES
BY DEF AchievementType, KNOWN_ACHIEVEMENT_TYPES

\* A plain credential that its schema accepted is recognized as what the schema is
\* for, if its recognizer was given, exactly when the dates that the parser reads are
\* dates to its own grammar, whatever the schema's and the core suite's take for one; and no achievement type of an accepted badge is
\* reported as unknown but one that merely contains "ext:": the parser and the
\* vendored schemas, and the two lists of achievement types, agree
\* (obv3-schema-check.ts, classes-v3p0.ts, known-achievement-types.ts).
THEOREM RecognitionSound == Spec => []SchemaAcceptedIsRecognized
<1>1. IInv => SchemaAcceptedIsRecognized
  <2> DEFINE type == At(At(At(document, "credentialSubject"), "achievement"), "achievementType")
  <2>1. SUFFICES ASSUME IInv, Status("schema.obv3.json") = "success"
                 PROVE  /\ (/\ ~BothTypes
                            /\ ProfileOf(getObType(document)) \in ToSet(call.recognizers)
                            /\ Plain(document)
                            /\ IF IsBadge THEN SubjectNamed ELSE ~Has(document, "image"))
                             => (profile = ProfileOf(getObType(document)) <=> DatedForParser)
                        /\ (/\ IsBadge
                            /\ Status("schema.obv3.unknown-achievement-type") = "failure") =>
                             IsTextIn(type, Extension \ ExtPrefixed)
    BY Zenon DEF SchemaAcceptedIsRecognized, IsBadge
  <2>2. ASSUME ~BothTypes, ProfileOf(getObType(document)) \in ToSet(call.recognizers),
               Plain(document), IF IsBadge THEN SubjectNamed ELSE ~Has(document, "image")
        PROVE  profile = ProfileOf(getObType(document)) <=> DatedForParser
    <3>1. DatedForParser => profile = ProfileOf(getObType(document))
      BY <2>1, <2>2, AcceptedParses, AcceptedIsRecognized
    <3>2. profile = ProfileOf(getObType(document)) => DatedForParser
      BY <2>1, RecognizedIsDated
    <3> QED  BY <3>1, <3>2
  <2>3. ASSUME IsBadge, Status("schema.obv3.unknown-achievement-type") = "failure"
        PROVE  IsTextIn(type, Extension \ ExtPrefixed)
    <3>1. obv3UnknownAchievementTypeCheck(document) = "failure"
      BY <2>1, <2>3, ReportedStatus, ObStatusOf, ObChecksAre
    <3>2. type # Undefined /\
          ~evaluateAchievementType(type, KNOWN_ACHIEVEMENT_TYPES \cup AdditionalKnownTypes)
      BY <3>1, Zenon DEF obv3UnknownAchievementTypeCheck, Verdict
    <3>3. IsTextIn(type, AchievementType \cup Extension)
      BY <2>1, <2>3, <3>2, AcceptedIs, AchievementTypeIs
    <3> HIDE DEF type
    <3>4. stringValues(type) \subseteq {type.text}
      BY <3>3 DEF IsTextIn, IsText, stringValues, asEntries
    <3>5. type.text \notin KNOWN_ACHIEVEMENT_TYPES \cup ExtPrefixed
      BY <3>2, <3>4 DEF evaluateAchievementType
    <3> QED  BY <3>3, <3>5, VocabulariesAgree DEF IsTextIn
  <2> QED  BY <2>2, <2>3
<1> QED  BY <1>1, Invariant, PTL
=============================================================================
