--------------------------- MODULE Verifier_proofs ---------------------------
(***************************************************************************)
(* Proofs about the verifier, for every call and every configuration: any   *)
(* number of credentials, registries and added suites.                      *)
(***************************************************************************)
EXTENDS Verifier, SequenceTheorems, TLAPS

-----------------------------------------------------------------------------
(* The invariant *)

Document == Credential \cup Presentation
AnyCall  == CallOf({"presentation"}, Presentation)
              \cup CallOf({"credential", "recognition"}, Credential)
RowOutcome == SuiteOutcome \cup {"not-run"}
Trust      == {"none", "proven", "unproven"}

\* The result of an embedded credential.
Embedded == [doc : Credential, verified : BOOLEAN, partial : BOOLEAN, timing : BOOLEAN,
             rejected : BOOLEAN, proof : SUBSET RowOutcome, recognizedBy : Trust,
             results : {None}]

FrameShape == [call : AnyCall, s : Nat, rows : SUBSET (Nat \X RowOutcome), r : Nat \ {0},
               held : Trust, recognizedBy : Trust, results : Seq(Embedded)]

\* The constructor's phases do not leave the proofs of recognition credentials out.
Strict == config.phases = None \/ "cryptographic" \in config.phases[1]

Trusted(how) == Strict => how # "unproven"

\* One row for each suite behind the loop that ran, and always one for the proof
\* suite when the phases include it; a row that says "not run" has a halting one.
RowsInv(f) ==
  /\ \A row \in f.rows : row[1] \in 1..(f.s - 1)
  /\ \A row, other \in f.rows : row[1] = other[1] => row = other
  /\ \A row \in f.rows : row[2] = "not-run" => isHalted(f)
  /\ \A row \in f.rows : suitesOf(f)[row[1]] = proofSuite =>
       row[2] = "not-run" \/ row[2] \in outcomesOf(f, proofSuite)
  /\ inPhases(proofSuite, requestedPhases(f)) =>
       \A k \in 1..(f.s - 1) : suitesOf(f)[k] = proofSuite => \E row \in f.rows : row[1] = k

\* What a result of a credential says, when the call it was made for is p.
EmbeddedInv(p, r) ==
  /\ Sound(r)
  /\ r.verified => r.doc.parses
  /\ r.timing = timing(p)
  /\ r.partial = (r.doc.parses /\ requestedPhases(p) # None)
  /\ Trusted(r.recognizedBy)

FrameInv(f) ==
  /\ f \in FrameShape
  /\ f.s <= Len(suitesOf(f)) + 1
  /\ f.s # 0 => f.call.doc.parses
  /\ RowsInv(f)
  /\ Trusted(f.held) /\ Trusted(f.recognizedBy)
  /\ Len(f.results) <= Len(credentialsOf(f))
  /\ f.results # None => f.s > Len(suitesOf(f))
  /\ \A j \in 1..Len(f.results) :
       f.results[j].doc = credentialsOf(f)[j] /\ EmbeddedInv(f, f.results[j])

\* The call g was made by f, which awaits it: for the next of its credentials with
\* its own options, or for a recognition credential with no registries.
Awaits(f, g) ==
  \/ /\ f.call.kind = "presentation" /\ g.call.kind = "credential"
     /\ Len(f.results) < Len(credentialsOf(f)) /\ f.s > Len(suitesOf(f))
     /\ g.call.doc = credentialsOf(f)[Len(f.results) + 1]
     /\ g.call.options.phases = f.call.options.phases
     /\ g.call.options.registries = f.call.options.registries
     /\ g.call.options.timing = <<timing(f)>>
  \/ /\ f.call.kind = "credential" /\ g.call.kind = "recognition"
     /\ f.s \in 1..Len(suitesOf(f)) /\ suitesOf(f)[f.s] = registrySuite
     /\ f.held = "none" /\ f.r <= Len(registries(f))
     /\ g.call.options.phases = None
     /\ g.call.options.registries = << <<>> >>

StackInv ==
  /\ stack \in Seq(FrameShape)
  /\ stack # <<>> => stack[1].call \in Call
  /\ \A i \in 1..Len(stack) : \A f \in {stack[i]} : FrameInv(f)
  /\ \A i \in 1..(Len(stack) - 1) : \A f \in {stack[i]}, g \in {stack[i + 1]} : Awaits(f, g)

\* What VerifiedMeansProven and OptionsReachCredentials say of the result r.
Proven(r) ==
  /\ IF "credentials" \in DOMAIN r.doc
     THEN r.verified /\ ~r.partial =>
            /\ r.proof = IF r.doc.signed THEN {"success"} ELSE {"skipped"}
            /\ [i \in 1..Len(r.results) |-> r.results[i].doc] = r.doc.credentials
            /\ \A i \in 1..Len(r.results) :
                 r.results[i].verified /\ ~r.results[i].partial /\ Sound(r.results[i])
     ELSE Sound(r)
  /\ Strict =>
       /\ r.recognizedBy # "unproven"
       /\ \A i \in 1..Len(r.results) : r.results[i].recognizedBy # "unproven"

Reaching(r) ==
  /\ \A i \in 1..Len(r.results) :
       /\ r.results[i].timing = r.timing
       /\ r.results[i].doc.parses => r.results[i].partial = r.partial
  /\ "credentials" \in DOMAIN r.doc /\ ~r.rejected =>
       [i \in 1..Len(r.results) |-> r.results[i].doc] = r.doc.credentials

\* A registry is asked only when the caller's options leave it any.
Inv ==
  /\ config \in Config
  /\ StackInv
  /\ cached \in Trust /\ Trusted(cached)
  /\ stack = <<>> <=> returned # None
  /\ asked /\ stack # <<>> => stack[1].call.options.registries # << <<>> >>
  /\ VerifiedMeansProven
  /\ returned # None => Reaching(returned[1])

\* A call moves on by one: past a suite, past a registry, to the recognition
\* credential of a registry, or past one of its credentials.
MovesOn(f, g) ==
  \/ f.s <= Len(suitesOf(f)) /\ g.s = f.s + 1
  \/ f.r <= Len(registries(f)) /\ g.r = f.r + 1 /\ g.s = f.s
  \/ f.held = "none" /\ g.held # "none" /\ g.r = f.r /\ g.s = f.s
  \/ /\ Len(f.results) < Len(credentialsOf(f)) /\ Len(g.results) = Len(f.results) + 1
     /\ g.held = f.held /\ g.r = f.r /\ g.s = f.s

\* The call on top begins another one, or moves on; or it returns, and so ends the
\* verification or lets the call below move on.
Forward ==
  \/ /\ Len(stack') = Len(stack) + 1 /\ Len(stack') <= 3
     /\ \A i \in 1..Len(stack) : stack'[i] = stack[i]
     /\ stack'[Len(stack')].s = 0
  \/ /\ stack' # <<>> /\ Len(stack') \in {Len(stack) - 1, Len(stack)}
     /\ \A i \in 1..(Len(stack') - 1) : stack'[i] = stack[i]
     /\ stack'[Len(stack')].call = stack[Len(stack')].call
     /\ MovesOn(stack[Len(stack')], stack'[Len(stack')])
  \/ Len(stack) = 1 /\ stack' = <<>>

-----------------------------------------------------------------------------
(* What depends on a call alone *)

\* The suites, options and credentials of a frame are those of its call.
LEMMA SameCall ==
  ASSUME NEW f, NEW g, g.call = f.call
  PROVE  /\ suitesOf(g) = suitesOf(f) /\ subjectOf(g) = subjectOf(f)
         /\ credentialsOf(g) = credentialsOf(f)
         /\ requestedPhases(g) = requestedPhases(f)
         /\ timing(g) = timing(f) /\ registries(g) = registries(f)
         /\ \A st : outcomesOf(g, st) = outcomesOf(f, st)
BY DEF suitesOf, subjectOf, credentialsOf, requestedPhases, timing, registries, outcomesOf

\* The constructor's options never change, and with them nothing about a frame.
LEMMA SameConfig ==
  ASSUME config' = config, NEW f
  PROVE  /\ requestedPhases(f)' = requestedPhases(f)
         /\ timing(f)' = timing(f) /\ registries(f)' = registries(f)
         /\ Strict' = Strict
         /\ FrameInv(f)' = FrameInv(f)
         /\ \A g : Awaits(f, g)' = Awaits(f, g)
<1>1. /\ requestedPhases(f)' = requestedPhases(f)
      /\ timing(f)' = timing(f) /\ registries(f)' = registries(f)
      /\ Strict' = Strict
  BY DEF requestedPhases, timing, registries, Strict, orElse
<1>2. RowsInv(f)' = RowsInv(f)
  BY <1>1 DEF RowsInv
<1>3. \A r : EmbeddedInv(f, r)' = EmbeddedInv(f, r)
  BY <1>1 DEF EmbeddedInv, Trusted
<1>4. \A h : Trusted(h)' = Trusted(h)
  BY <1>1 DEF Trusted
<1>5. FrameInv(f)' = FrameInv(f)
  BY <1>2, <1>3, <1>4 DEF FrameInv
<1>6. \A g : Awaits(f, g)' = Awaits(f, g)
  BY <1>1 DEF Awaits
<1> QED
  BY <1>1, <1>5, <1>6

\* The built-in suites are suites, and every loop passes the proof suite.
LEMMA SuitesShape ==
  ASSUME NEW f, f.call \in AnyCall
  PROVE  /\ suitesOf(f) \in Seq(AddedSuite)
         /\ Len(suitesOf(f)) \in Nat
         /\ \E k \in 1..Len(suitesOf(f)) : suitesOf(f)[k] = proofSuite
<1>1. /\ coreSuite \in AddedSuite /\ recognitionSuite \in AddedSuite
      /\ proofSuite \in AddedSuite /\ registrySuite \in AddedSuite
      /\ statusSuite \in AddedSuite
  <2>1. /\ <<"cryptographic">> \in Optional(SuitePhase)
        /\ <<"recognition">> \in Optional(SuitePhase)
        /\ <<"trust">> \in Optional(SuitePhase)
    BY DEF Optional, SuitePhase
  <2>2. {"verifiableCredential"} \in SUBSET SubjectType
    BY DEF SubjectType
  <2>3. /\ {"success", "halted"} \in SUBSET SuiteOutcome
        /\ {"success", "skipped", "warning"} \in SUBSET SuiteOutcome
        /\ {"success", "failed", "halted"} \in SUBSET SuiteOutcome
        /\ {"success", "skipped", "failed"} \in SUBSET SuiteOutcome
        /\ {} \in SUBSET SuiteOutcome
    BY DEF SuiteOutcome
  <2>0. ASSUME NEW id \in Name, NEW phase \in Optional(SuitePhase),
               NEW subjects \in SUBSET SubjectType, NEW outcomes \in SUBSET SuiteOutcome
        PROVE  MkSuite(id, phase, subjects, outcomes) \in AddedSuite
    BY DEF MkSuite, AddedSuite
  <2>4. coreSuite \in AddedSuite
    <3> DEFINE name     == "core"
               phase    == <<"cryptographic">>
               subjects == SubjectType
               outcomes == {"success", "halted"}
    <3>1. phase \in Optional(SuitePhase)
      BY <2>1
    <3>2. subjects \in SUBSET SubjectType /\ outcomes \in SUBSET SuiteOutcome
      BY <2>2, <2>3
    <3>3. coreSuite = MkSuite(name, phase, subjects, outcomes)
      BY DEF coreSuite
    <3>4. name \in Name
      BY NameAssumption
    <3> HIDE DEF name, phase, subjects, outcomes
    <3> QED
      BY <2>0, <3>1, <3>2, <3>3, <3>4
  <2>5. recognitionSuite \in AddedSuite
    <3> DEFINE name     == "recognition"
               phase    == <<"recognition">>
               subjects == {"verifiableCredential"}
               outcomes == {"success", "skipped", "warning"}
    <3>1. phase \in Optional(SuitePhase)
      BY <2>1
    <3>2. subjects \in SUBSET SubjectType /\ outcomes \in SUBSET SuiteOutcome
      BY <2>2, <2>3
    <3>3. recognitionSuite = MkSuite(name, phase, subjects, outcomes)
      BY DEF recognitionSuite
    <3>4. name \in Name
      BY NameAssumption
    <3> HIDE DEF name, phase, subjects, outcomes
    <3> QED
      BY <2>0, <3>1, <3>2, <3>3, <3>4
  <2>6. proofSuite \in AddedSuite
    <3> DEFINE name     == "proof"
               phase    == <<"cryptographic">>
               subjects == SubjectType
               outcomes == {"success", "failed", "halted"}
    <3>1. phase \in Optional(SuitePhase)
      BY <2>1
    <3>2. subjects \in SUBSET SubjectType /\ outcomes \in SUBSET SuiteOutcome
      BY <2>2, <2>3
    <3>3. proofSuite = MkSuite(name, phase, subjects, outcomes)
      BY DEF proofSuite
    <3>4. name \in Name
      BY NameAssumption
    <3> HIDE DEF name, phase, subjects, outcomes
    <3> QED
      BY <2>0, <3>1, <3>2, <3>3, <3>4
  <2>7. registrySuite \in AddedSuite
    <3> DEFINE name     == "registry"
               phase    == <<"trust">>
               subjects == {"verifiableCredential"}
               outcomes == {}
    <3>1. phase \in Optional(SuitePhase)
      BY <2>1
    <3>2. subjects \in SUBSET SubjectType /\ outcomes \in SUBSET SuiteOutcome
      BY <2>2, <2>3
    <3>3. registrySuite = MkSuite(name, phase, subjects, outcomes)
      BY DEF registrySuite
    <3>4. name \in Name
      BY NameAssumption
    <3> HIDE DEF name, phase, subjects, outcomes
    <3> QED
      BY <2>0, <3>1, <3>2, <3>3, <3>4
  <2>8. statusSuite \in AddedSuite
    <3> DEFINE name     == "status"
               phase    == <<"cryptographic">>
               subjects == {"verifiableCredential"}
               outcomes == {"success", "skipped", "failed"}
    <3>1. phase \in Optional(SuitePhase)
      BY <2>1
    <3>2. subjects \in SUBSET SubjectType /\ outcomes \in SUBSET SuiteOutcome
      BY <2>2, <2>3
    <3>3. statusSuite = MkSuite(name, phase, subjects, outcomes)
      BY DEF statusSuite
    <3>4. name \in Name
      BY NameAssumption
    <3> HIDE DEF name, phase, subjects, outcomes
    <3> QED
      BY <2>0, <3>1, <3>2, <3>3, <3>4
  <2> QED
    BY <2>4, <2>5, <2>6, <2>7, <2>8
<1>2. f.call.additional \in Seq(AddedSuite)
  BY DEF AnyCall, CallOf
<1>3. /\ presentationSuites \in Seq(AddedSuite) /\ Len(presentationSuites) = 2
      /\ presentationSuites[2] = proofSuite
  BY <1>1 DEF presentationSuites
<1>4. /\ defaultSuites \in Seq(AddedSuite) /\ Len(defaultSuites) = 5
      /\ defaultSuites[3] = proofSuite
  BY <1>1 DEF defaultSuites
<1>a. ASSUME NEW q \in Seq(AddedSuite), NEW a \in Seq(AddedSuite), NEW k \in 1..Len(q),
             q[k] = proofSuite
      PROVE  /\ q \o a \in Seq(AddedSuite)
             /\ Len(q \o a) \in Nat
             /\ k \in 1..Len(q \o a) /\ (q \o a)[k] = proofSuite
  <2>1. /\ q \o a \in Seq(AddedSuite) /\ Len(q \o a) = Len(q) + Len(a)
        /\ \A i \in 1..Len(q) + Len(a) : (q \o a)[i] = IF i <= Len(q) THEN q[i] ELSE a[i - Len(q)]
    BY ConcatProperties
  <2>2. Len(q) \in Nat /\ Len(a) \in Nat
    OBVIOUS
  <2> QED
    BY <1>a, <2>1, <2>2
<1>5. CASE f.call.kind = "presentation"
  <2>1. suitesOf(f) = presentationSuites \o f.call.additional
    BY <1>5 DEF suitesOf
  <2> QED
    BY <1>a, <1>2, <1>3, <2>1
<1>6. CASE f.call.kind # "presentation"
  <2>1. suitesOf(f) = defaultSuites \o f.call.additional
    BY <1>6 DEF suitesOf
  <2> QED
    BY <1>a, <1>2, <1>4, <2>1
<1> QED
  BY <1>5, <1>6

\* A call within the constants is one of the shapes a frame may have.
LEMMA CallsShape ==
  ASSUME NEW cl \in Call
  PROVE  cl \in AnyCall /\ cl.kind # "recognition"
BY CallAssumption DEF AnyCall, CallOf

\* A presentation is told from a credential by its kind.
LEMMA DocumentShape ==
  ASSUME NEW cl \in AnyCall
  PROVE  /\ cl.kind \in {"presentation", "credential", "recognition"}
         /\ cl.kind = "presentation" => cl.doc \in Presentation
         /\ cl.kind # "presentation" => cl.doc \in Credential
         /\ cl.kind = "presentation" <=> "credentials" \in DOMAIN cl.doc
         /\ cl.doc.parses \in BOOLEAN
         /\ cl.options \in Options
         /\ cl.additional \in Seq(AddedSuite)
         /\ cl.unsigned \in BOOLEAN
BY DEF AnyCall, CallOf, Presentation, Credential

LEMMA CredentialsShape ==
  ASSUME NEW f, f.call \in AnyCall
  PROVE  /\ credentialsOf(f) \in Seq(Credential) /\ Len(credentialsOf(f)) \in Nat
         /\ f.call.kind # "presentation" => Len(credentialsOf(f)) = 0
<1>1. CASE f.call.kind = "presentation"
  <2>1. f.call.doc.credentials \in Seq(Credential)
    BY <1>1, DocumentShape DEF Presentation
  <2> QED
    BY <1>1, <2>1 DEF credentialsOf
<1>2. CASE f.call.kind # "presentation"
  BY <1>2 DEF credentialsOf
<1> QED
  BY <1>1, <1>2

LEMMA OptionsShape ==
  ASSUME config \in Config, NEW f, f.call \in AnyCall
  PROVE  /\ timing(f) \in BOOLEAN
         /\ registries(f) \in Seq(Registry)
         /\ requestedPhases(f) \in Optional(SUBSET SuitePhase)
<1>1. config \in Options /\ f.call.options \in Options
  BY ConfigAssumption, DocumentShape
<1>2. \A o \in Options : /\ o.timing = None \/ \E b \in BOOLEAN : o.timing = <<b>>
                         /\ o.registries = None \/ \E q \in Seq(Registry) : o.registries = <<q>>
                         /\ o.phases \in Optional(SUBSET SuitePhase)
  <2>1. ASSUME NEW o \in Options
        PROVE  o.registries = None \/ \E q \in Seq(Registry) : o.registries = <<q>>
    <3>1. o.registries \in Seq(Seq(Registry)) /\ Len(o.registries) <= 1
      BY DEF Options
    <3>2. CASE Len(o.registries) = 0
      BY <3>1, <3>2 DEF None
    <3>3. CASE Len(o.registries) = 1
      <4>1. o.registries = <<o.registries[1]>> /\ o.registries[1] \in Seq(Registry)
        BY <3>1, <3>3
      <4> QED
        BY <4>1
    <3> QED
      BY <3>1, <3>2, <3>3
  <2> QED
    BY <2>1 DEF Options, Optional
<1>3. timing(f) \in BOOLEAN
  <2>1. orElse(config.timing, <<FALSE>>)[1] \in BOOLEAN
    <3>1. <<FALSE>>[1] \in BOOLEAN
      OBVIOUS
    <3>2. config.timing # None => config.timing[1] \in BOOLEAN
      BY <1>1, <1>2
    <3> QED
      BY <3>1, <3>2 DEF orElse
  <2>2. f.call.options.timing # None => f.call.options.timing[1] \in BOOLEAN
    BY <1>1, <1>2
  <2>3. timing(f) = IF f.call.options.timing # None THEN f.call.options.timing[1]
                    ELSE orElse(config.timing, <<FALSE>>)[1]
    BY <1>1, <1>2 DEF timing, orElse, None
  <2> QED
    BY <2>1, <2>2, <2>3
<1>4. registries(f) \in Seq(Registry)
  <2>1. <<>> \in Seq(Registry)
    OBVIOUS
  <2> QED
    BY <1>1, <1>2, <2>1 DEF registries, orElse, None
<1>5. requestedPhases(f) \in Optional(SUBSET SuitePhase)
  BY <1>1, <1>2 DEF requestedPhases, orElse
<1> QED
  BY <1>3, <1>4, <1>5

-----------------------------------------------------------------------------
(* Frames *)

\* The suite at hand has been passed over: either it is not the proof suite, or
\* the phases leave proofs out.
LEMMA RowsPassed ==
  ASSUME NEW f, NEW g, FrameInv(f), f.s \in 1..Len(suitesOf(f)),
         g.call = f.call, g.rows = f.rows, g.s = f.s + 1,
         suitesOf(f)[f.s] = proofSuite => ~inPhases(proofSuite, requestedPhases(f))
  PROVE  RowsInv(g)
<1>1. /\ suitesOf(g) = suitesOf(f) /\ requestedPhases(g) = requestedPhases(f)
      /\ \A st : outcomesOf(g, st) = outcomesOf(f, st)
  BY SameCall
<1>2. isHalted(g) = isHalted(f)
  BY DEF isHalted
<1>3. f.s \in Nat /\ RowsInv(f)
  BY DEF FrameInv, FrameShape
<1>4. \A k \in 1..(g.s - 1) : k \in 1..(f.s - 1) \/ k = f.s
  BY <1>3
<1>5. \A row \in g.rows : row[1] \in 1..(g.s - 1)
  BY <1>3 DEF RowsInv
<1> QED
  BY <1>1, <1>2, <1>3, <1>4, <1>5 DEF RowsInv

\* The suite at hand has left a row.
LEMMA RowsAdded ==
  ASSUME NEW f, NEW g, FrameInv(f), f.s \in 1..Len(suitesOf(f)), NEW o \in RowOutcome,
         g.call = f.call, g.rows = f.rows \cup {<<f.s, o>>}, g.s = f.s + 1,
         o = "not-run" => isHalted(f),
         suitesOf(f)[f.s] = proofSuite => o = "not-run" \/ o \in outcomesOf(f, proofSuite)
  PROVE  RowsInv(g) /\ g.rows \in SUBSET (Nat \X RowOutcome)
<1>1. /\ suitesOf(g) = suitesOf(f) /\ requestedPhases(g) = requestedPhases(f)
      /\ \A st : outcomesOf(g, st) = outcomesOf(f, st)
  BY SameCall
<1>2. isHalted(f) => isHalted(g)
  BY DEF isHalted
<1>3. f.s \in Nat /\ RowsInv(f) /\ f.rows \in SUBSET (Nat \X RowOutcome)
  BY DEF FrameInv, FrameShape
<1> PICK row0 : row0 = <<f.s, o>>
  OBVIOUS
<1>4. /\ row0 \in Nat \X RowOutcome /\ row0[1] = f.s /\ row0[2] = o
      /\ g.rows = f.rows \cup {row0}
  BY <1>3
<1>5. \A row \in f.rows : row[1] \in 1..(f.s - 1) /\ row[1] # f.s /\ row[1] \in 1..(g.s - 1)
  BY <1>3 DEF RowsInv
<1>6. f.s \in 1..(g.s - 1) /\ \A k \in 1..(g.s - 1) : k \in 1..(f.s - 1) \/ k = f.s
  BY <1>3
<1>7. \A row \in g.rows : row[1] \in 1..(g.s - 1)
  BY <1>4, <1>5, <1>6
<1>8. \A row, other \in g.rows : row[1] = other[1] => row = other
  BY <1>3, <1>4, <1>5 DEF RowsInv
<1>9. \A row \in g.rows : row[2] = "not-run" => isHalted(g)
  BY <1>2, <1>3, <1>4 DEF RowsInv
<1>10. \A row \in g.rows : suitesOf(g)[row[1]] = proofSuite =>
         row[2] = "not-run" \/ row[2] \in outcomesOf(g, proofSuite)
  BY <1>1, <1>3, <1>4 DEF RowsInv
<1>11. inPhases(proofSuite, requestedPhases(g)) =>
         \A k \in 1..(g.s - 1) : suitesOf(g)[k] = proofSuite => \E row \in g.rows : row[1] = k
  BY <1>1, <1>3, <1>4, <1>6 DEF RowsInv
<1> QED
  BY <1>3, <1>4, <1>7, <1>8, <1>9, <1>10, <1>11 DEF RowsInv

\* What is true of a frame stays true of one that differs in its place and rows.
LEMMA FrameMoved ==
  ASSUME NEW f, NEW g \in FrameShape, FrameInv(f), g.call = f.call, g.s <= Len(suitesOf(f)) + 1,
         f.call.doc.parses, RowsInv(g), Trusted(g.held), Trusted(g.recognizedBy),
         g.results = f.results, f.s <= Len(suitesOf(f))
  PROVE  FrameInv(g)
<1>1. /\ suitesOf(g) = suitesOf(f) /\ requestedPhases(g) = requestedPhases(f)
      /\ timing(g) = timing(f) /\ credentialsOf(g) = credentialsOf(f)
  BY SameCall
<1>2. f \in FrameShape /\ f.s \in Nat /\ Len(suitesOf(f)) \in Nat
  BY SuitesShape DEF FrameInv, FrameShape
<1>3. f.results = None
  BY <1>2 DEF FrameInv
<1>4. Len(None) = 0 /\ Len(credentialsOf(f)) \in Nat
  BY <1>2, CredentialsShape DEF None, FrameShape
<1> QED
  BY <1>1, <1>3, <1>4 DEF FrameInv

\* A call at its beginning.
LEMMA FrameBegun ==
  ASSUME NEW cl \in AnyCall
  PROVE  FrameInv(Frame(cl))
<1> DEFINE f == Frame(cl)
<1>1. /\ f.call = cl /\ f.s = 0 /\ f.rows = {} /\ f.results = <<>>
      /\ f.held = "none" /\ f.recognizedBy = "none"
  BY DEF Frame
<1>2. f \in FrameShape
  BY DEF Frame, FrameShape, Trust
<1> HIDE DEF f
<1>3. Len(suitesOf(f)) \in Nat /\ Len(credentialsOf(f)) \in Nat
  BY <1>1, SuitesShape, CredentialsShape
<1>4. RowsInv(f)
  BY <1>1 DEF RowsInv
<1> QED
  BY <1>1, <1>2, <1>3, <1>4 DEF FrameInv, Trusted, None, f

-----------------------------------------------------------------------------
(* The stack *)

\* Cutting the stack at k, and putting a frame there: of the call that was there,
\* or of one that the call below awaits.
LEMMA Replaced ==
  ASSUME StackInv, config' = config, NEW k \in Nat, k <= Len(stack),
         NEW f \in FrameShape, FrameInv(f),
         stack' \in Seq(FrameShape), Len(stack') = k + 1, stack'[k + 1] = f,
         \A i \in 1..k : stack'[i] = stack[i],
         IF k < Len(stack) THEN f.call = stack[k + 1].call ELSE k > 0 /\ Awaits(stack[k], f)
  PROVE  StackInv' /\ stack' # <<>> /\ stack'[1].call = stack[1].call
<1>1. Len(stack) \in Nat /\ stack # <<>>
  BY DEF StackInv
<1>2. stack' # <<>> /\ 1 \in 1..Len(stack)
  BY <1>1
<1>3. stack'[1].call = stack[1].call
  <2>1. CASE k = 0
    BY <1>1, <2>1
  <2>2. CASE k # 0
    <3>1. 1 \in 1..k
      BY <2>2
    <3> QED
      BY <3>1
  <2> QED
    BY <2>1, <2>2
<1>4. ASSUME NEW i \in 1..(k + 1), NEW g \in {stack'[i]}
      PROVE  FrameInv(g)'
  <2>1. CASE i = k + 1
    BY <2>1, SameConfig
  <2>2. CASE i # k + 1
    <3>1. i \in 1..k /\ i \in 1..Len(stack)
      BY <1>1, <2>2
    <3>2. FrameInv(g)
      BY <3>1 DEF StackInv
    <3> QED
      BY <3>2, SameConfig
  <2> QED
    BY <2>1, <2>2
<1>5. ASSUME NEW i \in 1..k
      PROVE  Awaits(stack'[i], stack'[i + 1])
  <2>1. i \in 1..Len(stack) /\ stack'[i] = stack[i]
    BY <1>1
  <2>2. CASE i < k
    <3>1. i + 1 \in 1..k /\ i \in 1..(Len(stack) - 1)
      BY <1>1, <2>2
    <3> QED
      BY <2>1, <3>1 DEF StackInv
  <2>3. CASE i = k /\ k < Len(stack)
    <3>1. i \in 1..(Len(stack) - 1)
      BY <1>1, <2>3
    <3>2. Awaits(stack[k], stack[k + 1])
      BY <2>3, <3>1 DEF StackInv
    <3>3. f.call = stack[k + 1].call
      BY <2>3
    <3> QED
      BY <2>1, <2>3, <3>2, <3>3 DEF Awaits
  <2>4. CASE i = k /\ ~(k < Len(stack))
    BY <2>1, <2>4
  <2> QED
    BY <2>2, <2>3, <2>4
<1>6. ASSUME NEW i \in 1..k, NEW g \in {stack'[i]}, NEW h \in {stack'[i + 1]}
      PROVE  Awaits(g, h)'
  BY <1>5, SameConfig
<1>7. k + 1 - 1 = k
  OBVIOUS
<1> QED
  BY <1>2, <1>3, <1>4, <1>6, <1>7 DEF StackInv

\* The running call.
LEMMA TheTop ==
  ASSUME StackInv, stack # <<>>
  PROVE  /\ Len(stack) \in Nat /\ Len(stack) >= 1 /\ Len(stack) \in 1..Len(stack)
         /\ top = stack[Len(stack)] /\ top \in FrameShape /\ FrameInv(top)
<1>1. stack \in Seq(FrameShape)
  BY DEF StackInv
<1>2. Len(stack) \in Nat /\ Len(stack) >= 1
  BY <1>1
<1>3. top = stack[Len(stack)]
  BY DEF top, Last
<1>4. stack[Len(stack)] \in FrameShape
  BY <1>1, <1>2
<1>5. FrameInv(stack[Len(stack)])
  BY <1>2 DEF StackInv
<1> QED
  BY <1>2, <1>3, <1>4, <1>5

\* The stack cut at k with a frame on top.
LEMMA CutAt ==
  ASSUME stack \in Seq(FrameShape), NEW k \in Nat, k <= Len(stack), NEW f \in FrameShape
  PROVE  LET t == SubSeq(stack, 1, k) \o <<f>> IN
         /\ t \in Seq(FrameShape) /\ Len(t) = k + 1 /\ t[k + 1] = f
         /\ \A i \in 1..k : t[i] = stack[i]
<1> DEFINE q == SubSeq(stack, 1, k)
<1>1. q \in Seq(FrameShape) /\ Len(q) = k /\ \A i \in 1..k : q[i] = stack[i]
  <2>1. Len(stack) \in Nat
    OBVIOUS
  <2>2. \A i \in 1..k : i \in 1..Len(stack)
    BY <2>1
  <2>3. \A i \in 1..k : stack[i] \in FrameShape
    BY <2>2
  <2> QED
    BY <2>1, <2>3
<1>2. <<f>> \in Seq(FrameShape) /\ Len(<<f>>) = 1 /\ <<f>>[1] = f
  OBVIOUS
<1> HIDE DEF q
<1>3. /\ q \o <<f>> \in Seq(FrameShape) /\ Len(q \o <<f>>) = k + 1
      /\ \A i \in 1..k + 1 : (q \o <<f>>)[i] = IF i <= k THEN q[i] ELSE <<f>>[i - k]
  BY <1>1, <1>2, ConcatProperties
<1>4. (q \o <<f>>)[k + 1] = f
  BY <1>2, <1>3
<1>5. \A i \in 1..k : (q \o <<f>>)[i] = stack[i]
  BY <1>1, <1>3
<1> QED
  BY <1>3, <1>4, <1>5 DEF q

\* Calls nest at most three deep.
LEMMA Depth ==
  ASSUME StackInv
  PROVE  /\ Len(stack) \in Nat /\ Len(stack) <= 3
         /\ \A i \in 1..Len(stack) :
              /\ stack[i] \in FrameShape /\ FrameInv(stack[i])
              /\ stack[i].call.kind = "presentation" => i = 1
              /\ stack[i].call.kind = "recognition" =>
                   i > 1 /\ i = Len(stack) /\ Awaits(stack[i - 1], stack[i])
              /\ stack[i].call.kind = "credential" =>
                   i = 1 \/ (i = 2 /\ stack[1].call.kind = "presentation"
                                   /\ Awaits(stack[1], stack[2]))
<1>1. /\ stack \in Seq(FrameShape) /\ Len(stack) \in Nat
      /\ \A i \in 1..Len(stack) : stack[i] \in FrameShape /\ FrameInv(stack[i])
  BY DEF StackInv
<1>2. \A i \in 1..Len(stack) : stack[i].call.kind \in {"presentation", "credential", "recognition"}
  BY <1>1, DocumentShape DEF FrameShape
<1>3. Len(stack) >= 1 => stack[1].call.kind # "recognition"
  <2>1. Len(stack) >= 1 => stack # <<>>
    OBVIOUS
  <2> QED
    BY <2>1, CallsShape DEF StackInv
<1>4. \A i \in 1..(Len(stack) - 1) : Awaits(stack[i], stack[i + 1])
  BY DEF StackInv
<1>5. ASSUME NEW i \in 1..(Len(stack) - 1)
      PROVE  \/ stack[i].call.kind = "presentation" /\ stack[i + 1].call.kind = "credential"
             \/ stack[i].call.kind = "credential" /\ stack[i + 1].call.kind = "recognition"
  BY <1>4 DEF Awaits
<1>6. ASSUME Len(stack) >= 2
      PROVE  \/ stack[1].call.kind = "presentation" /\ stack[2].call.kind = "credential"
             \/ stack[1].call.kind = "credential" /\ stack[2].call.kind = "recognition"
  <2>1. 1 \in 1..(Len(stack) - 1) /\ 1 + 1 = 2
    BY <1>1, <1>6
  <2> QED
    BY <1>5, <2>1
<1>7. ASSUME Len(stack) >= 3
      PROVE  \/ stack[2].call.kind = "presentation" /\ stack[3].call.kind = "credential"
             \/ stack[2].call.kind = "credential" /\ stack[3].call.kind = "recognition"
  <2>1. 2 \in 1..(Len(stack) - 1) /\ 2 + 1 = 3
    BY <1>1, <1>7
  <2> QED
    BY <1>5, <2>1
<1>8. ~(Len(stack) >= 4)
  <2> SUFFICES ASSUME Len(stack) >= 4 PROVE FALSE
    OBVIOUS
  <2>1. 3 \in 1..(Len(stack) - 1) /\ 3 + 1 = 4 /\ Len(stack) >= 2 /\ Len(stack) >= 3
    BY <1>1
  <2>2. stack[3].call.kind \in {"presentation", "credential"}
    BY <1>5, <2>1
  <2> QED
    BY <1>6, <1>7, <2>1, <2>2
<1>9. Len(stack) <= 3
  BY <1>1, <1>8
<1>10. ASSUME NEW i \in 1..Len(stack)
       PROVE  /\ stack[i].call.kind = "presentation" => i = 1
              /\ stack[i].call.kind = "recognition" =>
                   i > 1 /\ i = Len(stack) /\ Awaits(stack[i - 1], stack[i])
              /\ stack[i].call.kind = "credential" =>
                   i = 1 \/ (i = 2 /\ stack[1].call.kind = "presentation"
                                   /\ Awaits(stack[1], stack[2]))
  <2>1. CASE i = 1
    <3>1. stack[1].call.kind # "recognition"
      BY <1>1, <1>3, <2>1
    <3> QED
      BY <2>1, <3>1
  <2>2. CASE i = 2
    <3>1. Len(stack) >= 2 /\ 1 \in 1..(Len(stack) - 1)
      BY <1>1, <2>2
    <3>2. Awaits(stack[1], stack[2])
      BY <1>4, <3>1
    <3>3. stack[2].call.kind = "recognition" => Len(stack) = 2
      <4> DEFINE n == Len(stack)
      <4>a. n \in Nat /\ n >= 2
        BY <1>1, <3>1
      <4> HIDE DEF n
      <4>b. n = 2 \/ n >= 3
        BY <4>a
      <4>1. Len(stack) = 2 \/ Len(stack) >= 3
        BY <4>b DEF n
      <4> QED
        BY <1>7, <4>1
    <3> QED
      BY <1>6, <2>2, <3>1, <3>2, <3>3
  <2>3. CASE i = 3
    <3>0. Len(stack) = 3
      <4>1. 3 \in 1..Len(stack)
        BY <2>3
      <4> QED
        BY <1>1, <1>9, <4>1
    <3>1. Len(stack) >= 3 /\ Len(stack) >= 2 /\ 2 \in 1..(Len(stack) - 1)
      BY <3>0
    <3>2. Awaits(stack[2], stack[3])
      BY <1>4, <3>1
    <3> QED
      BY <1>6, <1>7, <2>3, <3>0, <3>1, <3>2
  <2> QED
    BY <1>1, <1>9, <2>1, <2>2, <2>3
<1> QED
  BY <1>1, <1>9, <1>10

\* The running call makes a step of its own.
LEMMA Updated ==
  ASSUME StackInv, stack # <<>>, config' = config, NEW f \in FrameShape, FrameInv(f),
         f.call = top.call, Update(f), MovesOn(top, f)
  PROVE  StackInv' /\ stack' # <<>> /\ stack'[1].call = stack[1].call /\ Forward
<1>1. /\ Len(stack) \in Nat /\ Len(stack) >= 1 /\ top = stack[Len(stack)]
      /\ stack \in Seq(FrameShape)
  BY TheTop DEF StackInv
<1> PICK k \in Nat : k + 1 = Len(stack)
  <2>1. Len(stack) - 1 \in Nat /\ (Len(stack) - 1) + 1 = Len(stack)
    BY <1>1
  <2> QED
    BY <2>1
<1>2. stack' = SubSeq(stack, 1, k) \o <<f>>
  <2>1. k = Len(stack) - 1
    BY <1>1
  <2> QED
    BY <2>1 DEF Update, Front
<1>3. k <= Len(stack) /\ k < Len(stack) /\ f.call = stack[k + 1].call
  BY <1>1
<1>4. /\ stack' \in Seq(FrameShape) /\ Len(stack') = k + 1 /\ stack'[k + 1] = f
      /\ \A i \in 1..k : stack'[i] = stack[i]
  BY <1>1, <1>2, <1>3, CutAt
<1>5. StackInv' /\ stack' # <<>> /\ stack'[1].call = stack[1].call
  BY <1>3, <1>4, Replaced
<1>6. /\ Len(stack') = Len(stack) /\ stack'[Len(stack')] = f
      /\ \A i \in 1..(Len(stack') - 1) : stack'[i] = stack[i]
  BY <1>1, <1>4
<1> QED
  BY <1>1, <1>5, <1>6 DEF Forward

\* The running call makes another one.
LEMMA Pushed ==
  ASSUME StackInv, stack # <<>>, config' = config, NEW f \in FrameShape, FrameInv(f),
         Awaits(top, f), Push(f), f.s = 0
  PROVE  StackInv' /\ stack' # <<>> /\ stack'[1].call = stack[1].call /\ Forward
<1>1. /\ Len(stack) \in Nat /\ Len(stack) >= 1 /\ top = stack[Len(stack)]
      /\ stack \in Seq(FrameShape)
  BY TheTop DEF StackInv
<1>2. stack' = Append(stack, f)
  BY DEF Push
<1>3. /\ stack' \in Seq(FrameShape) /\ Len(stack') = Len(stack) + 1
      /\ stack'[Len(stack) + 1] = f
      /\ \A i \in 1..Len(stack) : stack'[i] = stack[i]
  BY <1>1, <1>2, AppendProperties
<1> PICK k \in Nat : k = Len(stack)
  BY <1>1
<1>4. k <= Len(stack) /\ ~(k < Len(stack)) /\ k > 0 /\ Awaits(stack[k], f)
  BY <1>1
<1>5. StackInv' /\ stack' # <<>> /\ stack'[1].call = stack[1].call
  BY <1>3, <1>4, Replaced
<1>6. Len(stack) <= 2
  <2>1. top.call.kind \in {"presentation", "credential"}
    BY DEF Awaits
  <2>2. Len(stack) \in 1..Len(stack) /\ stack[Len(stack)] = top
    BY <1>1
  <2>3. Len(stack) = 1 \/ Len(stack) = 2
    BY <2>1, <2>2, Depth
  <2>4. 1 <= 2 /\ 2 <= 2
    OBVIOUS
  <2> QED
    <3>1. CASE Len(stack) = 1
      BY <2>4, <3>1, Zenon
    <3>2. CASE Len(stack) = 2
      BY <2>4, <3>2, Zenon
    <3> QED
      BY <2>3, <3>1, <3>2, Zenon
<1>7. /\ Len(stack') = Len(stack) + 1 /\ Len(stack') <= 3
      /\ stack'[Len(stack')].s = 0
  BY <1>1, <1>3, <1>6
<1> QED
  BY <1>3, <1>5, <1>7 DEF Forward

\* The running call returns to the one that awaits it.
LEMMA ReturnedTo ==
  ASSUME StackInv, Len(stack) >= 2, config' = config, NEW f \in FrameShape, FrameInv(f),
         f.call = stack[Len(stack) - 1].call, MovesOn(stack[Len(stack) - 1], f),
         stack' = SubSeq(stack, 1, Len(stack) - 2) \o <<f>>
  PROVE  StackInv' /\ stack' # <<>> /\ stack'[1].call = stack[1].call /\ Forward
<1>1. Len(stack) \in Nat /\ stack \in Seq(FrameShape)
  BY DEF StackInv
<1> PICK k \in Nat : k = Len(stack) - 2
  <2>1. Len(stack) - 2 \in Nat
    BY <1>1
  <2> QED
    BY <2>1
<1>2. k <= Len(stack) /\ k < Len(stack) /\ k + 1 = Len(stack) - 1
  BY <1>1
<1>3. /\ stack' \in Seq(FrameShape) /\ Len(stack') = k + 1 /\ stack'[k + 1] = f
      /\ \A i \in 1..k : stack'[i] = stack[i]
  BY <1>1, <1>2, CutAt
<1>4. StackInv' /\ stack' # <<>> /\ stack'[1].call = stack[1].call
  BY <1>2, <1>3, Replaced
<1>5. /\ Len(stack') = Len(stack) - 1 /\ stack'[Len(stack')] = f
      /\ \A i \in 1..(Len(stack') - 1) : stack'[i] = stack[i]
  BY <1>1, <1>2, <1>3
<1> QED
  BY <1>1, <1>2, <1>4, <1>5 DEF Forward

-----------------------------------------------------------------------------
(* Results *)

LEMMA ResultOf ==
  ASSUME NEW f, NEW v, NEW p
  PROVE  LET r == Result(f, v, p) IN
         /\ r.doc = f.call.doc /\ r.verified = v /\ r.partial = p /\ r.timing = timing(f)
         /\ r.rejected = (f.s = 0) /\ r.proof = proofOutcomes(f)
         /\ r.recognizedBy = f.recognizedBy /\ r.results = f.results
BY DEF Result

\* A call that ran its suites and met no fatal failure verified the proofs, or
\* skipped those of an unsigned presentation.
LEMMA ProofRows ==
  ASSUME NEW f, FrameInv(f), f.s > Len(suitesOf(f)),
         inPhases(proofSuite, requestedPhases(f)), ~hasFatalFailures(f.rows)
  PROVE  proofOutcomes(f) = IF f.call.kind = "presentation" /\ ~f.call.doc.signed
                            THEN {"skipped"} ELSE {"success"}
<1> DEFINE good == IF f.call.kind = "presentation" /\ ~f.call.doc.signed
                   THEN "skipped" ELSE "success"
<1>1. f \in FrameShape /\ f.call \in AnyCall /\ f.s \in Nat /\ RowsInv(f)
      /\ f.s <= Len(suitesOf(f)) + 1
  BY DEF FrameInv, FrameShape
<1>2. /\ Len(suitesOf(f)) \in Nat
      /\ \E k \in 1..Len(suitesOf(f)) : suitesOf(f)[k] = proofSuite
  BY <1>1, SuitesShape
<1>3. PICK k \in 1..(f.s - 1) : suitesOf(f)[k] = proofSuite
  BY <1>1, <1>2
<1>4. PICK row \in f.rows : row[1] = k
  BY <1>1, <1>3 DEF RowsInv
<1>5. outcomesOf(f, proofSuite) \subseteq {good, "failed", "halted"}
  <2>1. proofSuite.outcomes = {"success", "failed", "halted"} /\ proofSuite.id = "proof"
    BY DEF proofSuite, MkSuite
  <2> QED
    BY <2>1 DEF outcomesOf
<1>6. ~isHalted(f) /\ \A x \in f.rows : x[2] # "failed" /\ x[2] # "halted"
  BY DEF hasFatalFailures, isHalted
<1>7. ASSUME NEW x \in f.rows, suitesOf(f)[x[1]] = proofSuite
      PROVE  x[2] = good
  <2>1. x[2] # "not-run"
    BY <1>1, <1>6 DEF RowsInv
  <2>2. x[2] \in outcomesOf(f, proofSuite)
    BY <1>1, <1>7, <2>1 DEF RowsInv
  <2> HIDE DEF good
  <2> QED
    BY <1>5, <1>6, <2>2
<1>8. row[2] = good /\ suitesOf(f)[row[1]] = proofSuite
  BY <1>3, <1>4, <1>7
<1> HIDE DEF good
<1>9. proofOutcomes(f) = {good}
  BY <1>7, <1>8 DEF proofOutcomes
<1> QED
  BY <1>9 DEF good

\* The documents of the results so far are the credentials, when all are done.
LEMMA Reported ==
  ASSUME NEW f, FrameInv(f), Len(f.results) = Len(credentialsOf(f))
  PROVE  [i \in 1..Len(f.results) |-> f.results[i].doc] = credentialsOf(f)
<1> DEFINE docs == [i \in 1..Len(f.results) |-> f.results[i].doc]
<1>1. f.call \in AnyCall /\ f.results \in Seq(Embedded)
  BY DEF FrameInv, FrameShape
<1>2. /\ credentialsOf(f) \in Seq(Credential) /\ Len(f.results) \in Nat
      /\ \A i \in 1..Len(f.results) : f.results[i].doc = credentialsOf(f)[i]
  BY <1>1, CredentialsShape DEF FrameInv
<1>3. \A i \in 1..Len(f.results) : f.results[i].doc \in Credential
  BY <1>2
<1>4. docs \in Seq(Credential) /\ Len(docs) = Len(f.results)
  BY <1>2, <1>3
<1>5. \A i \in 1..Len(docs) : docs[i] = credentialsOf(f)[i]
  BY <1>2, <1>4
<1> HIDE DEF docs
<1>6. docs = credentialsOf(f)
  BY <1>2, <1>4, <1>5, SeqEqual
<1> QED
  BY <1>6 DEF docs

\* How a call may end: turned away before any suite ran, or with all of them done
\* and every credential verified in its turn.
Ends(f, v, p) ==
  \/ v = FALSE /\ p = FALSE /\ f.s = 0 /\ (~f.call.doc.parses \/ f.call.kind = "presentation")
  \/ /\ f.s > Len(suitesOf(f)) /\ Len(f.results) = Len(credentialsOf(f))
     /\ v = (~hasFatalFailures(f.rows) /\ allCredentialsVerified(f))
     /\ p = (requestedPhases(f) # None)

\* The result of a credential is what the call that awaits it relies on.
LEMMA CredentialResult ==
  ASSUME config \in Config, NEW f, FrameInv(f), f.call.kind # "presentation",
         NEW v \in BOOLEAN, NEW p \in BOOLEAN, Ends(f, v, p)
  PROVE  /\ Result(f, v, p) \in Embedded
         /\ EmbeddedInv(f, Result(f, v, p))
         /\ v /\ inPhases(proofSuite, requestedPhases(f)) => Result(f, v, p).proof = {"success"}
<1> DEFINE r == Result(f, v, p)
<1>1. f \in FrameShape /\ f.call \in AnyCall /\ f.s \in Nat /\ Len(suitesOf(f)) \in Nat
  BY SuitesShape DEF FrameInv, FrameShape
<1>2. /\ r.doc = f.call.doc /\ r.verified = v /\ r.partial = p /\ r.timing = timing(f)
      /\ r.rejected = (f.s = 0) /\ r.proof = proofOutcomes(f)
      /\ r.recognizedBy = f.recognizedBy /\ r.results = f.results
  BY ResultOf
<1>3. f.results = None
  <2>1. Len(f.results) <= 0 /\ f.results \in Seq(Embedded)
    BY <1>1, CredentialsShape DEF FrameInv, FrameShape
  <2> QED
    BY <2>1 DEF None
<1>4. proofOutcomes(f) \in SUBSET RowOutcome
  <2>1. \A row \in f.rows : row[2] \in RowOutcome
    BY <1>1 DEF FrameShape
  <2> QED
    BY <2>1 DEF proofOutcomes
<1>5. timing(f) \in BOOLEAN /\ f.call.doc \in Credential /\ f.recognizedBy \in Trust
      /\ (f.s = 0) \in BOOLEAN
  BY <1>1, OptionsShape, DocumentShape DEF FrameShape
<1>6. r \in Embedded
  <2>1. r = [doc |-> f.call.doc, verified |-> v, partial |-> p, timing |-> timing(f),
             rejected |-> f.s = 0, proof |-> proofOutcomes(f),
             recognizedBy |-> f.recognizedBy, results |-> f.results]
    BY DEF Result
  <2> HIDE DEF r
  <2> QED
    BY <1>3, <1>4, <1>5, <2>1 DEF Embedded
<1>7. v /\ inPhases(proofSuite, requestedPhases(f)) => proofOutcomes(f) = {"success"}
  BY ProofRows DEF Ends
<1>8. requestedPhases(f) = None => inPhases(proofSuite, requestedPhases(f))
  BY DEF inPhases
<1>9. f.s > Len(suitesOf(f)) => f.s # 0 /\ f.call.doc.parses
  BY <1>1 DEF FrameInv
<1>10. f.call.doc.parses \in BOOLEAN
  BY <1>1, DocumentShape
<1>11. p = (f.call.doc.parses /\ requestedPhases(f) # None)
  BY <1>9, <1>10 DEF Ends
<1>12. v => f.call.doc.parses
  BY <1>9 DEF Ends
<1> HIDE DEF r
<1>13. Sound(r)
  BY <1>2, <1>7, <1>8, <1>11, <1>12 DEF Sound
<1>14. EmbeddedInv(f, r)
  BY <1>2, <1>11, <1>12, <1>13 DEF EmbeddedInv, FrameInv
<1> QED
  BY <1>2, <1>6, <1>7, <1>14 DEF r

\* The result of a caller's call is as promised.
LEMMA FinalResult ==
  ASSUME config \in Config, NEW f, FrameInv(f),
         NEW v \in BOOLEAN, NEW p \in BOOLEAN, Ends(f, v, p)
  PROVE  Proven(Result(f, v, p)) /\ Reaching(Result(f, v, p))
<1> DEFINE r == Result(f, v, p)
<1>1. f \in FrameShape /\ f.call \in AnyCall /\ f.s \in Nat /\ Len(suitesOf(f)) \in Nat
      /\ f.results \in Seq(Embedded) /\ Len(f.results) \in Nat
  BY SuitesShape DEF FrameInv, FrameShape
<1>2. /\ r.doc = f.call.doc /\ r.verified = v /\ r.partial = p /\ r.timing = timing(f)
      /\ r.rejected = (f.s = 0) /\ r.proof = proofOutcomes(f)
      /\ r.recognizedBy = f.recognizedBy /\ r.results = f.results
  BY ResultOf
<1>3. \A j \in 1..Len(f.results) : EmbeddedInv(f, f.results[j])
  BY DEF FrameInv
<1>4. Strict => /\ r.recognizedBy # "unproven"
                /\ \A i \in 1..Len(r.results) : r.results[i].recognizedBy # "unproven"
  BY <1>2, <1>3 DEF FrameInv, EmbeddedInv, Trusted
<1>5. "credentials" \in DOMAIN r.doc <=> f.call.kind = "presentation"
  BY <1>1, <1>2, DocumentShape
<1>6. CASE f.call.kind # "presentation"
  <2>1. Len(f.results) = 0
    BY <1>1, <1>6, CredentialsShape DEF FrameInv
  <2>2. Sound(r)
    BY <1>6, CredentialResult DEF EmbeddedInv
  <2> HIDE DEF r
  <2> QED
    BY <1>2, <1>4, <1>5, <1>6, <2>1, <2>2 DEF Proven, Reaching, r
<1>7. CASE f.call.kind = "presentation" /\ f.s = 0
  <2>1. f.results = None
    BY <1>1, <1>7 DEF FrameInv
  <2>2. Len(f.results) = 0
    BY <2>1 DEF None
  <2>3. v = FALSE
    BY <1>1, <1>7 DEF Ends
  <2> HIDE DEF r
  <2>4. r.verified = FALSE /\ r.rejected /\ Len(r.results) = 0
    BY <1>2, <1>7, <2>2, <2>3
  <2>5. Proven(r)
    BY <1>4, <1>5, <1>7, <2>4 DEF Proven
  <2>6. Reaching(r)
    BY <2>4 DEF Reaching
  <2> QED
    BY <2>5, <2>6 DEF r
<1>8. CASE f.call.kind = "presentation" /\ f.s # 0
  <2>1. /\ f.s > Len(suitesOf(f)) /\ Len(f.results) = Len(credentialsOf(f))
        /\ v = (~hasFatalFailures(f.rows) /\ allCredentialsVerified(f))
        /\ p = (requestedPhases(f) # None)
    BY <1>8 DEF Ends
  <2>2. [i \in 1..Len(r.results) |-> r.results[i].doc] = r.doc.credentials
    <3>1. credentialsOf(f) = f.call.doc.credentials
      BY <1>8 DEF credentialsOf
    <3>2. [i \in 1..Len(f.results) |-> f.results[i].doc] = f.call.doc.credentials
      BY <2>1, <3>1, Reported
    <3>3. r.results = f.results /\ r.doc = f.call.doc
      BY <1>2
    <3> HIDE DEF r
    <3> QED
      BY <3>2, <3>3
  <2>3. ASSUME NEW i \in 1..Len(f.results)
        PROVE  /\ f.results[i].timing = timing(f)
               /\ f.results[i].doc.parses => f.results[i].partial = p
               /\ v /\ ~p => f.results[i].verified /\ ~f.results[i].partial /\ Sound(f.results[i])
    <3>1. f.results[i].partial = (f.results[i].doc.parses /\ requestedPhases(f) # None)
          /\ f.results[i].timing = timing(f) /\ Sound(f.results[i])
      BY <1>3 DEF EmbeddedInv
    <3>2. v => f.results[i].verified
      BY <2>1 DEF allCredentialsVerified
    <3>3. f.results[i].doc.parses \in BOOLEAN
      <4>1. f.results[i] \in Embedded
        BY <1>1
      <4>2. f.results[i].doc \in Credential
        BY <4>1 DEF Embedded
      <4> QED
        BY <4>2 DEF Credential
    <3> QED
      BY <2>1, <3>1, <3>2, <3>3
  <2>4. v /\ ~p => r.proof = IF r.doc.signed THEN {"success"} ELSE {"skipped"}
    <3>1. ~p => inPhases(proofSuite, requestedPhases(f))
      BY <2>1 DEF inPhases
    <3>2. f.call.doc.signed \in BOOLEAN
      BY <1>1, <1>8, DocumentShape DEF Presentation
    <3> QED
      BY <1>2, <1>8, <2>1, <3>1, <3>2, ProofRows
  <2> HIDE DEF r
  <2>5. Proven(r)
    BY <1>2, <1>4, <1>5, <1>8, <2>2, <2>3, <2>4 DEF Proven
  <2>6. Reaching(r)
    BY <1>2, <1>5, <2>2, <2>3 DEF Reaching
  <2> QED
    BY <2>5, <2>6 DEF r
<1> QED
  BY <1>6, <1>7, <1>8

-----------------------------------------------------------------------------
(* Every step keeps the invariant *)

\* The running call makes a step of its own, and nothing else changes but that a
\* registry may have been asked.
LEMMA Moves ==
  ASSUME Inv, stack # <<>>, config' = config, NEW f \in FrameShape, FrameInv(f),
         f.call = top.call, Update(f), MovesOn(top, f), returned' = returned, cached' = cached,
         asked' = asked \/ stack[1].call.options.registries # << <<>> >>
  PROVE  Inv' /\ Forward
<1>1. StackInv' /\ stack' # <<>> /\ stack'[1].call = stack[1].call /\ Forward
  BY Updated DEF Inv
<1>2. returned' = None
  BY DEF Inv
<1>3. Trusted(cached)'
  BY SameConfig DEF Inv, Trusted
<1> QED
  BY <1>1, <1>2, <1>3 DEF Inv, VerifiedMeansProven

\* The running call makes another one.
LEMMA Calls ==
  ASSUME Inv, stack # <<>>, config' = config, NEW f \in FrameShape, FrameInv(f),
         Awaits(top, f), Push(f), f.s = 0, returned' = returned, cached' = cached,
         asked' = asked \/ stack[1].call.options.registries # << <<>> >>
  PROVE  Inv' /\ Forward
<1>1. StackInv' /\ stack' # <<>> /\ stack'[1].call = stack[1].call /\ Forward
  BY Pushed DEF Inv
<1>2. returned' = None
  BY DEF Inv
<1>3. Trusted(cached)'
  BY SameConfig DEF Inv, Trusted
<1> QED
  BY <1>1, <1>2, <1>3 DEF Inv, VerifiedMeansProven

\* The running call resumes an awaiting one.
LEMMA Resumes ==
  ASSUME Inv, Len(stack) >= 2, config' = config, NEW f \in FrameShape, FrameInv(f),
         f.call = stack[Len(stack) - 1].call, MovesOn(stack[Len(stack) - 1], f),
         stack' = SubSeq(stack, 1, Len(stack) - 2) \o <<f>>,
         returned' = returned, cached' \in Trust, Trusted(cached'), asked' = asked
  PROVE  Inv' /\ Forward
<1>1. StackInv' /\ stack' # <<>> /\ stack'[1].call = stack[1].call /\ Forward
  BY ReturnedTo DEF Inv
<1>2. stack # <<>> /\ returned' = None
  BY DEF Inv
<1>3. Trusted(cached)'
  BY SameConfig DEF Trusted
<1> QED
  BY <1>1, <1>2, <1>3 DEF Inv, VerifiedMeansProven

LEMMA RowsSame ==
  ASSUME NEW f, NEW g, RowsInv(f), g.call = f.call, g.rows = f.rows, g.s = f.s
  PROVE  RowsInv(g)
<1>1. /\ suitesOf(g) = suitesOf(f) /\ requestedPhases(g) = requestedPhases(f)
      /\ \A st : outcomesOf(g, st) = outcomesOf(f, st)
  BY SameCall
<1> QED
  BY <1>1 DEF RowsInv, isHalted

\* A presentation receives the result of the credential it awaits.
LEMMA ResultReceived ==
  ASSUME config \in Config, NEW f, NEW h, FrameInv(f), FrameInv(h), Awaits(f, h),
         h.call.kind = "credential",
         NEW r \in Embedded, r.doc = h.call.doc, EmbeddedInv(h, r)
  PROVE  /\ [f EXCEPT !.results = Append(@, r)] \in FrameShape
         /\ FrameInv([f EXCEPT !.results = Append(@, r)])
<1> DEFINE g == [f EXCEPT !.results = Append(f.results, r)]
           n == Len(f.results)
<1>1. f \in FrameShape /\ f.results \in Seq(Embedded) /\ n \in Nat
  BY DEF FrameInv, FrameShape
<1>2. /\ g \in FrameShape /\ g.call = f.call /\ g.s = f.s /\ g.rows = f.rows
      /\ g.held = f.held /\ g.recognizedBy = f.recognizedBy
      /\ g.results = Append(f.results, r)
  <2>1. Append(f.results, r) \in Seq(Embedded)
    BY <1>1, AppendProperties
  <2> QED
    BY <1>1, <2>1 DEF FrameShape
<1>3. /\ Len(Append(f.results, r)) = n + 1
      /\ Append(f.results, r)[n + 1] = r
      /\ \A j \in 1..n : Append(f.results, r)[j] = f.results[j]
  BY <1>1, AppendProperties
<1>4. /\ n < Len(credentialsOf(f)) /\ f.s > Len(suitesOf(f))
      /\ h.call.doc = credentialsOf(f)[n + 1]
      /\ h.call.options.phases = f.call.options.phases
      /\ h.call.options.timing = <<timing(f)>>
  BY DEF Awaits
<1>5. timing(h) = timing(f)
  BY <1>4 DEF timing, orElse, None
<1>6. requestedPhases(h) = requestedPhases(f)
  BY <1>4 DEF requestedPhases
<1>7. EmbeddedInv(f, r)
  BY <1>5, <1>6 DEF EmbeddedInv
<1>8. Len(credentialsOf(f)) \in Nat
  BY <1>1, CredentialsShape DEF FrameShape
<1> HIDE DEF g
<1>9. /\ suitesOf(g) = suitesOf(f) /\ requestedPhases(g) = requestedPhases(f)
      /\ timing(g) = timing(f) /\ credentialsOf(g) = credentialsOf(f)
  BY <1>2, SameCall
<1>10. RowsInv(g)
  BY <1>2, RowsSame DEF FrameInv
<1>11. ASSUME NEW j \in 1..Len(g.results)
       PROVE  g.results[j].doc = credentialsOf(g)[j] /\ EmbeddedInv(g, g.results[j])
  <2>1. g.results[j].doc = credentialsOf(f)[j] /\ EmbeddedInv(f, g.results[j])
    <3>1. CASE j = n + 1
      BY <1>2, <1>3, <1>4, <1>7, <3>1
    <3>2. CASE j # n + 1
      <4>1. j \in 1..n
        BY <1>1, <1>2, <1>3, <3>2
      <4> QED
        BY <1>2, <1>3, <4>1 DEF FrameInv
    <3> QED
      BY <3>1, <3>2
  <2> QED
    BY <1>9, <2>1 DEF EmbeddedInv
<1>12. Len(g.results) <= Len(credentialsOf(g))
  BY <1>1, <1>2, <1>3, <1>4, <1>8, <1>9
<1>13. FrameInv(g)
  BY <1>2, <1>4, <1>9, <1>10, <1>11, <1>12 DEF FrameInv
<1> QED
  BY <1>2, <1>13 DEF g

\* A call returns: to the caller, or to the call that awaits it.
LEMMA Delivers ==
  ASSUME Inv, stack # <<>>, NEW v \in BOOLEAN, NEW p \in BOOLEAN, Ends(top, v, p),
         Deliver(Result(top, v, p)), config' = config, asked' = asked
  PROVE  Inv' /\ Forward
<1> DEFINE r == Result(top, v, p)
           n == Len(stack)
<1>1. /\ n \in Nat /\ n >= 1 /\ top = stack[n] /\ top \in FrameShape /\ FrameInv(top)
      /\ stack \in Seq(FrameShape) /\ config \in Config
  BY TheTop DEF Inv, StackInv
<1>2. r.verified = v /\ r.doc = top.call.doc
  BY ResultOf
<1>3. CASE n = 1
  <2>1. stack' = <<>> /\ returned' = <<r>> /\ cached' = cached
    BY <1>3 DEF Deliver
  <2>2. Proven(r) /\ Reaching(r)
    BY <1>1, FinalResult
  <2> HIDE DEF r
  <2>3. VerifiedMeansProven'
    <3>1. returned'[1] = r
      BY <2>1
    <3>2. Strict => config.phases = None \/ "cryptographic" \in config.phases[1]
      BY DEF Strict
    <3> QED
      BY <2>2, <3>1 DEF VerifiedMeansProven, result, reported, Proven, Strict
  <2>4. Reaching(returned[1])'
    BY <2>1, <2>2 DEF Reaching
  <2>5. StackInv'
    <3>1. Len(stack') = 0 /\ stack' \in Seq(FrameShape)
      BY <2>1
    <3> QED
      BY <2>1, <3>1 DEF StackInv
  <2>6. Trusted(cached)'
    BY <2>1, SameConfig DEF Inv, Trusted
  <2>7. returned' # None
    BY <2>1 DEF None
  <2> QED
    BY <1>3, <2>1, <2>3, <2>4, <2>5, <2>6, <2>7 DEF Inv, Forward
<1>4. CASE n # 1
  <2> DEFINE parent == stack[n - 1]
  <2>1. n >= 2 /\ n - 1 \in 1..(n - 1) /\ n - 1 \in 1..n
    <3>1. n \in Nat /\ n >= 1 /\ n # 1
      BY <1>1, <1>4
    <3> HIDE DEF n
    <3> QED
      BY <3>1
  <2>2. parent \in FrameShape /\ FrameInv(parent) /\ Awaits(parent, top)
    <3>1. FrameInv(parent)
      BY <2>1 DEF Inv, StackInv
    <3>2. Awaits(stack[n - 1], stack[n - 1 + 1]) /\ n - 1 + 1 = n
      BY <1>1, <2>1 DEF Inv, StackInv
    <3> QED
      BY <1>1, <3>1, <3>2 DEF FrameInv
  <2>3. top.call.kind \in {"credential", "recognition"}
    BY <2>2 DEF Awaits
  <2>4. r \in Embedded /\ EmbeddedInv(top, r)
        /\ (v /\ inPhases(proofSuite, requestedPhases(top)) => r.proof = {"success"})
    BY <1>1, <2>3, CredentialResult
  <2>5. returned' = returned
    BY <1>4 DEF Deliver
  <2> HIDE DEF r
  <2>6. CASE top.call.kind = "credential"
    <3>1. /\ stack' = SubSeq(stack, 1, n - 2) \o <<[parent EXCEPT !.results = Append(@, r)]>>
          /\ cached' = cached
      BY <1>4, <2>6 DEF Deliver, r
    <3> DEFINE g == [parent EXCEPT !.results = Append(@, r)]
    <3>2. g \in FrameShape /\ FrameInv(g)
      BY <1>1, <1>2, <2>2, <2>4, <2>6, ResultReceived
    <3>3. g.call = parent.call
      BY <2>2 DEF FrameShape
    <3>6. MovesOn(parent, g)
      <4>1. /\ g.s = parent.s /\ g.r = parent.r /\ g.held = parent.held
            /\ g.results = Append(parent.results, r) /\ parent.results \in Seq(Embedded)
        BY <2>2 DEF FrameShape
      <4>2. Len(Append(parent.results, r)) = Len(parent.results) + 1
        BY <2>4, <4>1, AppendProperties
      <4>3. Len(parent.results) < Len(credentialsOf(parent))
        BY <2>2, <2>6 DEF Awaits
      <4> QED
        BY <4>1, <4>2, <4>3 DEF MovesOn
    <3> HIDE DEF g, parent
    <3>4. stack' = SubSeq(stack, 1, n - 2) \o <<g>>
      BY <3>1 DEF g
    <3>5. g.call = stack[n - 1].call /\ MovesOn(stack[n - 1], g)
      BY <3>3, <3>6 DEF parent
    <3> QED
      BY <2>1, <2>5, <3>1, <3>2, <3>4, <3>5, Resumes DEF Inv
  <2>7. CASE top.call.kind = "recognition"
    <3>1. Recognized(parent, r)
      BY <1>4, <2>7 DEF Deliver, r
    <3>2. /\ parent.s \in 1..Len(suitesOf(parent)) /\ parent.call.doc.parses
          /\ top.call.options.phases = None
          /\ parent.held = "none" /\ parent.r <= Len(registries(parent))
      BY <2>2, <2>7 DEF Awaits, FrameInv
    <3>3. ASSUME NEW g \in FrameShape, g.call = parent.call, g.s = parent.s,
                 g.rows = parent.rows, g.results = parent.results, Trusted(g.held),
                 g.recognizedBy = parent.recognizedBy,
                 stack' = SubSeq(stack, 1, n - 2) \o <<g>>,
                 cached' \in Trust, Trusted(cached'), MovesOn(parent, g)
          PROVE  Inv' /\ Forward
      <4>1. RowsInv(g)
        BY <2>2, <3>3, RowsSame DEF FrameInv
      <4>2. g.s <= Len(suitesOf(parent)) + 1 /\ parent.s <= Len(suitesOf(parent))
        BY <2>2, <3>2, <3>3 DEF FrameInv
      <4>3. Trusted(g.recognizedBy)
        BY <2>2, <3>3 DEF FrameInv
      <4>4. FrameInv(g)
        BY <2>2, <3>2, <3>3, <4>1, <4>2, <4>3, FrameMoved
      <4> QED
        BY <2>1, <2>5, <3>3, <4>4, Resumes
    <3>4. CASE v
      <4> DEFINE how == IF r.proof = {"success"} THEN "proven" ELSE "unproven"
      <4>1. /\ cached' = how
            /\ stack' = SubSeq(stack, 1, n - 2) \o <<[parent EXCEPT !.held = how]>>
        BY <1>2, <3>1, <3>4 DEF Recognized
      <4>2. Trusted(how)
        <5>1. Strict => inPhases(proofSuite, requestedPhases(top))
          <6>1. requestedPhases(top) = config.phases
            BY <3>2 DEF requestedPhases, orElse
          <6>2. proofSuite.phase = <<"cryptographic">>
            BY DEF proofSuite, MkSuite
          <6> QED
            BY <6>1, <6>2 DEF Strict, inPhases, expandPhases, None
        <5> QED
          BY <2>4, <3>4, <5>1 DEF Trusted
      <4>3. how \in Trust
        BY DEF Trust
      <4> DEFINE g == [parent EXCEPT !.held = how]
      <4> HIDE DEF how
      <4>4. /\ g \in FrameShape /\ g.call = parent.call /\ g.s = parent.s
            /\ g.rows = parent.rows /\ g.results = parent.results
            /\ g.held = how /\ g.recognizedBy = parent.recognizedBy /\ g.r = parent.r
        BY <2>2, <4>3 DEF FrameShape
      <4>6. how # "none"
        BY DEF how
      <4>7. MovesOn(parent, g)
        BY <3>2, <4>4, <4>6 DEF MovesOn
      <4>5. stack' = SubSeq(stack, 1, n - 2) \o <<g>>
        BY <4>1
      <4> HIDE DEF g, parent
      <4> QED
        BY <3>3, <4>1, <4>2, <4>3, <4>4, <4>5, <4>7
    <3>5. CASE ~v
      <4> DEFINE g == [parent EXCEPT !.r = @ + 1]
      <4>1. cached' = cached /\ stack' = SubSeq(stack, 1, n - 2) \o <<g>>
        BY <1>2, <3>1, <3>5 DEF Recognized
      <4>2. /\ g \in FrameShape /\ g.call = parent.call /\ g.s = parent.s
            /\ g.rows = parent.rows /\ g.results = parent.results
            /\ g.held = parent.held /\ g.recognizedBy = parent.recognizedBy
            /\ g.r = parent.r + 1
        BY <2>2 DEF FrameShape
      <4>4. MovesOn(parent, g)
        BY <3>2, <4>2 DEF MovesOn
      <4>3. Trusted(parent.held)
        BY <2>2 DEF FrameInv
      <4> HIDE DEF g, parent
      <4> QED
        BY <3>3, <4>1, <4>2, <4>3, <4>4 DEF Inv
    <3> QED
      BY <3>4, <3>5
  <2> QED
    BY <2>3, <2>6, <2>7
<1> QED
  BY <1>3, <1>4

\* Where a registry is asked: in the loop of a credential's call, and only when the
\* caller's options leave it a registry.
LEMMA AtRegistryFacts ==
  ASSUME Inv, NEW type, AtRegistryOf(type)
  PROVE  /\ stack # <<>> /\ top \in FrameShape /\ FrameInv(top)
         /\ top.call.kind = "credential" /\ top.call.doc.parses
         /\ top.s \in 1..Len(suitesOf(top)) /\ suitesOf(top)[top.s] = registrySuite
         /\ stack[1].call.options.registries # << <<>> >>
         /\ top.r <= Len(registries(top))
<1>1. /\ stack # <<>> /\ top.s \in 1..Len(suitesOf(top)) /\ suitesOf(top)[top.s] = registrySuite
      /\ subjectOf(top) \in registrySuite.subjects
      /\ top.r <= Len(registries(top))
  BY DEF AtRegistryOf, AtRegistry, Running, suiteRuns, current
<1>2. /\ top \in FrameShape /\ FrameInv(top) /\ top = stack[Len(stack)]
      /\ Len(stack) \in 1..Len(stack) /\ StackInv
  BY <1>1, TheTop DEF Inv
<1>3. top.call.doc.parses
  BY <1>1, <1>2, SuitesShape DEF FrameInv, FrameShape
<1>4. top.call.kind # "presentation"
  <2>1. registrySuite.subjects = {"verifiableCredential"}
    BY DEF registrySuite, MkSuite
  <2> QED
    BY <1>1, <2>1 DEF subjectOf
<1>5. top.call.options.registries # << <<>> >>
  <2>1. Len(registries(top)) >= 1
    <3>1. top.r \in Nat \ {0} /\ Len(registries(top)) \in Nat
      BY <1>2, OptionsShape DEF Inv, FrameShape
    <3> QED
      BY <1>1, <3>1
  <2> SUFFICES ASSUME top.call.options.registries = << <<>> >> PROVE FALSE
    OBVIOUS
  <2>2. registries(top) = <<>>
    BY DEF registries, orElse, None
  <2> QED
    BY <2>1, <2>2
<1>6. top.call.kind \in {"presentation", "credential", "recognition"}
  BY <1>2, DocumentShape DEF FrameShape
<1>7. top.call.kind # "recognition"
  <2> SUFFICES ASSUME top.call.kind = "recognition" PROVE FALSE
    OBVIOUS
  <2>1. Awaits(stack[Len(stack) - 1], top)
    BY <1>2, Depth
  <2> QED
    BY <1>5, <2>1 DEF Awaits
<1>8. top.call.kind = "credential"
  BY <1>4, <1>6, <1>7
<1>9. stack[1].call.options.registries = top.call.options.registries
  <2>1. \/ Len(stack) = 1
        \/ Len(stack) = 2 /\ Awaits(stack[1], stack[2])
    BY <1>2, <1>8, Depth
  <2>2. CASE Len(stack) = 1
    BY <1>2, <2>2
  <2>3. CASE Len(stack) = 2 /\ Awaits(stack[1], stack[2])
    BY <1>2, <1>8, <2>3 DEF Awaits
  <2> QED
    BY <2>1, <2>2, <2>3
<1> QED
  BY <1>1, <1>2, <1>3, <1>5, <1>8, <1>9

\* The registry suite leaves its row.
LEMMA RegistryRows ==
  ASSUME NEW f, FrameInv(f), f.call.doc.parses,
         f.s \in 1..Len(suitesOf(f)), suitesOf(f)[f.s] = registrySuite,
         NEW o \in SuiteOutcome, NEW by \in Trust, Trusted(by)
  PROVE  LET g == [RegistryRow(f, o) EXCEPT !.recognizedBy = by] IN
         g \in FrameShape /\ FrameInv(g) /\ g.call = f.call /\ MovesOn(f, g)
<1> DEFINE g == [RegistryRow(f, o) EXCEPT !.recognizedBy = by]
<1>1. f \in FrameShape /\ f.s \in Nat /\ Len(suitesOf(f)) \in Nat /\ f.s <= Len(suitesOf(f))
  BY SuitesShape DEF FrameInv, FrameShape
<1>2. g = [f EXCEPT !.s = f.s + 1, !.r = 1, !.held = "none",
                    !.rows = f.rows \cup {<<f.s, o>>}, !.recognizedBy = by]
  BY <1>1 DEF RegistryRow, FrameShape
<1>3. /\ g.call = f.call /\ g.s = f.s + 1 /\ g.rows = f.rows \cup {<<f.s, o>>}
      /\ g.held = "none" /\ g.recognizedBy = by /\ g.results = f.results
  BY <1>1, <1>2 DEF FrameShape
<1>4. o \in RowOutcome /\ o # "not-run" /\ registrySuite # proofSuite
  <2>1. registrySuite.id = "registry" /\ proofSuite.id = "proof"
    BY DEF registrySuite, proofSuite, MkSuite
  <2> QED
    BY <2>1 DEF RowOutcome, SuiteOutcome
<1> HIDE DEF g
<1>5. RowsInv(g) /\ g.rows \in SUBSET (Nat \X RowOutcome)
  BY <1>3, <1>4, RowsAdded
<1>6. g \in FrameShape
  <2>1. f.s + 1 \in Nat /\ 1 \in Nat \ {0} /\ "none" \in Trust
    BY <1>1 DEF Trust
  <2> QED
    BY <1>1, <1>2, <1>3, <1>5, <2>1 DEF FrameShape
<1>7. g.s <= Len(suitesOf(f)) + 1
  BY <1>1, <1>3
<1>8. FrameInv(g)
  BY <1>1, <1>3, <1>5, <1>6, <1>7, FrameMoved DEF Trusted
<1> QED
  BY <1>1, <1>3, <1>6, <1>8 DEF g, MovesOn

\* The suite at hand, in a loop that is running.
LEMMA InLoop ==
  ASSUME Inv, Running
  PROVE  /\ stack # <<>> /\ top \in FrameShape /\ FrameInv(top)
         /\ top.s \in 1..Len(suitesOf(top)) /\ top.s \in Nat /\ Len(suitesOf(top)) \in Nat
         /\ top.s <= Len(suitesOf(top)) /\ top.s + 1 <= Len(suitesOf(top)) + 1
         /\ top.call.doc.parses /\ current = suitesOf(top)[top.s]
         /\ Trusted(top.held) /\ Trusted(top.recognizedBy)
<1>1. stack # <<>> /\ top.s \in 1..Len(suitesOf(top))
  BY DEF Running
<1>2. top \in FrameShape /\ FrameInv(top)
  BY <1>1, TheTop DEF Inv
<1>3. top.s \in Nat /\ Len(suitesOf(top)) \in Nat
  BY <1>2, SuitesShape DEF FrameShape
<1>4. top.s <= Len(suitesOf(top)) /\ top.s + 1 <= Len(suitesOf(top)) + 1 /\ top.s # 0
  BY <1>1, <1>3
<1> QED
  BY <1>1, <1>2, <1>3, <1>4 DEF FrameInv, current

LEMMA BeginStep == Inv /\ Begin => Inv' /\ Forward
<1> SUFFICES ASSUME Inv, Begin PROVE Inv' /\ Forward
  OBVIOUS
<1> DEFINE g == [top EXCEPT !.s = 1]
<1>1. /\ stack # <<>> /\ top.s = 0 /\ top.call.doc.parses /\ Update(g)
      /\ config' = config /\ cached' = cached /\ returned' = returned /\ asked' = asked
  BY DEF Begin
<1>2. top \in FrameShape /\ FrameInv(top) /\ Len(suitesOf(top)) \in Nat
  BY <1>1, TheTop, SuitesShape DEF Inv, FrameShape
<1>3. /\ g \in FrameShape /\ g.call = top.call /\ g.s = 1 /\ g.rows = top.rows
      /\ g.held = top.held /\ g.recognizedBy = top.recognizedBy /\ g.results = top.results
  BY <1>2 DEF FrameShape
<1> HIDE DEF g
<1>4. top.rows = {}
  BY <1>1, <1>2 DEF FrameInv, RowsInv
<1>5. RowsInv(g)
  BY <1>3, <1>4 DEF RowsInv
<1>6. FrameInv(g)
  <2>1. g.s <= Len(suitesOf(top)) + 1 /\ top.s <= Len(suitesOf(top))
    BY <1>1, <1>2, <1>3
  <2>2. Trusted(g.held) /\ Trusted(g.recognizedBy)
    BY <1>2, <1>3 DEF FrameInv
  <2> QED
    BY <1>1, <1>2, <1>3, <1>5, <2>1, <2>2, FrameMoved
<1>7. MovesOn(top, g)
  BY <1>1, <1>2, <1>3 DEF MovesOn
<1> QED
  BY <1>1, <1>3, <1>6, <1>7, Moves

LEMMA PassOverStep == Inv /\ PassOver => Inv' /\ Forward
<1> SUFFICES ASSUME Inv, PassOver PROVE Inv' /\ Forward
  OBVIOUS
<1> DEFINE g == [top EXCEPT !.s = top.s + 1]
<1>1. /\ Running /\ ~suiteRuns /\ Update(g)
      /\ config' = config /\ cached' = cached /\ returned' = returned /\ asked' = asked
  BY DEF PassOver
<1>2. /\ stack # <<>> /\ top \in FrameShape /\ FrameInv(top)
      /\ top.s \in 1..Len(suitesOf(top)) /\ top.s \in Nat
      /\ top.s <= Len(suitesOf(top)) /\ top.s + 1 <= Len(suitesOf(top)) + 1
      /\ top.call.doc.parses /\ current = suitesOf(top)[top.s]
      /\ Trusted(top.held) /\ Trusted(top.recognizedBy)
  BY <1>1, InLoop
<1>3. /\ g \in FrameShape /\ g.call = top.call /\ g.s = top.s + 1 /\ g.rows = top.rows
      /\ g.held = top.held /\ g.recognizedBy = top.recognizedBy /\ g.results = top.results
  BY <1>2 DEF FrameShape
<1> HIDE DEF g
<1>4. suitesOf(top)[top.s] = proofSuite => ~inPhases(proofSuite, requestedPhases(top))
  <2>1. proofSuite.subjects = SubjectType
    BY DEF proofSuite, MkSuite
  <2>2. subjectOf(top) \in SubjectType
    BY DEF subjectOf, SubjectType
  <2> QED
    BY <1>1, <1>2, <2>1, <2>2 DEF suiteRuns
<1>5. RowsInv(g)
  BY <1>2, <1>3, <1>4, RowsPassed
<1>6. FrameInv(g)
  BY <1>2, <1>3, <1>5, FrameMoved
<1>7. MovesOn(top, g)
  BY <1>2, <1>3 DEF MovesOn
<1> QED
  BY <1>1, <1>2, <1>3, <1>6, <1>7, Moves

\* A suite leaves its row: the outcome of its checks, or that they were not run.
LEMMA RowStep ==
  ASSUME Inv, Running, NEW o \in RowOutcome,
         Update([top EXCEPT !.s = @ + 1, !.rows = @ \cup {<<top.s, o>>}]),
         o = "not-run" => isHalted(top),
         current = proofSuite => o = "not-run" \/ o \in outcomesOf(top, proofSuite),
         config' = config, cached' = cached, returned' = returned, asked' = asked
  PROVE  Inv' /\ Forward
<1> DEFINE g == [top EXCEPT !.s = top.s + 1, !.rows = top.rows \cup {<<top.s, o>>}]
<1>1. Update(g)
  OBVIOUS
<1>2. /\ stack # <<>> /\ top \in FrameShape /\ FrameInv(top)
      /\ top.s \in 1..Len(suitesOf(top)) /\ top.s \in Nat
      /\ top.s <= Len(suitesOf(top)) /\ top.s + 1 <= Len(suitesOf(top)) + 1
      /\ top.call.doc.parses /\ current = suitesOf(top)[top.s]
      /\ Trusted(top.held) /\ Trusted(top.recognizedBy)
  BY InLoop
<1>3. /\ g.call = top.call /\ g.s = top.s + 1 /\ g.rows = top.rows \cup {<<top.s, o>>}
      /\ g.held = top.held /\ g.recognizedBy = top.recognizedBy /\ g.results = top.results
  BY <1>2 DEF FrameShape
<1>4. g \in FrameShape
  <2>1. top.s + 1 \in Nat /\ <<top.s, o>> \in Nat \X RowOutcome
    BY <1>2
  <2>2. top.rows \cup {<<top.s, o>>} \in SUBSET (Nat \X RowOutcome)
    BY <1>2, <2>1 DEF FrameShape
  <2> QED
    BY <1>2, <2>1, <2>2 DEF FrameShape
<1> HIDE DEF g
<1>5. RowsInv(g)
  BY <1>2, <1>3, RowsAdded
<1>6. FrameInv(g)
  BY <1>2, <1>3, <1>4, <1>5, FrameMoved
<1>7. MovesOn(top, g)
  BY <1>2, <1>3 DEF MovesOn
<1> QED
  BY <1>1, <1>2, <1>3, <1>4, <1>6, <1>7, Moves

\* The registry suite leaves its row, by the caller's options or by a registry.
LEMMA RegistryRowStep ==
  ASSUME Inv, stack # <<>>, top.call.doc.parses, FrameInv(top),
         top.s \in 1..Len(suitesOf(top)), suitesOf(top)[top.s] = registrySuite,
         NEW o \in SuiteOutcome, NEW by \in Trust, Trusted(by),
         Update([RegistryRow(top, o) EXCEPT !.recognizedBy = by]),
         config' = config, cached' = cached, returned' = returned,
         asked' = asked \/ stack[1].call.options.registries # << <<>> >>
  PROVE  Inv' /\ Forward
<1> DEFINE g == [RegistryRow(top, o) EXCEPT !.recognizedBy = by]
<1>1. g \in FrameShape /\ FrameInv(g) /\ g.call = top.call /\ MovesOn(top, g)
  BY RegistryRows
<1>2. Update(g)
  OBVIOUS
<1> HIDE DEF g
<1> QED
  BY <1>1, <1>2, Moves

\* A row that leaves recognizedBy as it is.
LEMMA SameRecognizer ==
  ASSUME NEW f \in FrameShape, NEW o
  PROVE  [RegistryRow(f, o) EXCEPT !.recognizedBy = f.recognizedBy] = RegistryRow(f, o)
BY DEF RegistryRow, FrameShape

LEMMA ExhaustedStep == Inv /\ RegistriesExhausted => Inv' /\ Forward
<1> SUFFICES ASSUME Inv, RegistriesExhausted PROVE Inv' /\ Forward
  OBVIOUS
<1> PICK o \in SuiteOutcome : o = IF registries(top) = <<>> THEN "skipped" ELSE "warning"
  BY DEF SuiteOutcome
<1>1. /\ Running /\ current = registrySuite /\ Update(RegistryRow(top, o))
      /\ config' = config /\ cached' = cached /\ returned' = returned /\ asked' = asked
  BY DEF RegistriesExhausted, AtRegistry
<1>2. /\ stack # <<>> /\ top \in FrameShape /\ FrameInv(top)
      /\ top.s \in 1..Len(suitesOf(top)) /\ top.call.doc.parses
      /\ suitesOf(top)[top.s] = registrySuite /\ Trusted(top.recognizedBy)
  BY <1>1, InLoop
<1>3. top.recognizedBy \in Trust
  BY <1>2 DEF FrameShape
<1>4. Update([RegistryRow(top, o) EXCEPT !.recognizedBy = top.recognizedBy])
  BY <1>1, <1>2, SameRecognizer
<1> QED
  BY <1>1, <1>2, <1>3, <1>4, RegistryRowStep

\* The lookup of a credential moves on within its registries.
LEMMA LookupMoves ==
  ASSUME Inv, NEW type, AtRegistryOf(type), NEW r \in Nat \ {0}, NEW held \in Trust, Trusted(held),
         r = top.r + 1 \/ (r = top.r /\ top.held = "none" /\ held # "none"),
         Update([top EXCEPT !.r = r, !.held = held]),
         asked' = TRUE, config' = config, cached' = cached, returned' = returned
  PROVE  Inv' /\ Forward
<1> DEFINE g == [top EXCEPT !.r = r, !.held = held]
<1>1. /\ stack # <<>> /\ top \in FrameShape /\ FrameInv(top)
      /\ top.call.doc.parses /\ top.s \in 1..Len(suitesOf(top))
      /\ stack[1].call.options.registries # << <<>> >>
      /\ top.r <= Len(registries(top))
  BY AtRegistryFacts
<1>2. /\ g \in FrameShape /\ g.call = top.call /\ g.s = top.s /\ g.rows = top.rows
      /\ g.held = held /\ g.recognizedBy = top.recognizedBy /\ g.results = top.results
      /\ g.r = r
  BY <1>1 DEF FrameShape
<1>3. Update(g)
  OBVIOUS
<1> HIDE DEF g
<1>4. RowsInv(g)
  BY <1>1, <1>2, RowsSame DEF FrameInv
<1>5. g.s <= Len(suitesOf(top)) + 1 /\ top.s <= Len(suitesOf(top)) /\ Trusted(g.recognizedBy)
  BY <1>1, <1>2 DEF FrameInv
<1>6. FrameInv(g)
  BY <1>1, <1>2, <1>4, <1>5, FrameMoved
<1>7. MovesOn(top, g)
  BY <1>1, <1>2 DEF MovesOn
<1> QED
  BY <1>1, <1>2, <1>3, <1>6, <1>7, Moves

LEMMA AnswersStep ==
  ASSUME Inv, NEW answer \in {"found", "other", "threw"}, RegistryAnswers(answer)
  PROVE  Inv' /\ Forward
<1>1. PICK type : AtRegistryOf(type)
  BY DEF RegistryAnswers
<1>2. /\ stack # <<>> /\ top \in FrameShape /\ FrameInv(top)
      /\ top.call.doc.parses /\ top.s \in 1..Len(suitesOf(top))
      /\ suitesOf(top)[top.s] = registrySuite
      /\ stack[1].call.options.registries # << <<>> >>
  BY <1>1, AtRegistryFacts
<1>3. /\ asked' = TRUE /\ config' = config /\ cached' = cached /\ returned' = returned
      /\ top.held \in Trust /\ Trusted(top.held)
      /\ top.recognizedBy \in Trust /\ Trusted(top.recognizedBy)
      /\ top.r + 1 \in Nat \ {0}
  BY <1>2 DEF RegistryAnswers, FrameInv, FrameShape
<1>4. CASE answer = "found"
  <2> PICK o \in SuiteOutcome : o = "success"
    BY DEF SuiteOutcome
  <2>1. Update([RegistryRow(top, o) EXCEPT !.recognizedBy = top.held])
    BY <1>4, Zenon DEF RegistryAnswers
  <2> QED
    BY <1>2, <1>3, <2>1, RegistryRowStep
<1>5. CASE answer = "other"
  <2> PICK held \in Trust : held = "none"
    BY DEF Trust
  <2> PICK r \in Nat \ {0} : r = top.r + 1
    BY <1>3
  <2>1. Update([top EXCEPT !.r = r, !.held = held])
    <3>1. answer # "found"
      BY <1>5
    <3>2. Update([top EXCEPT !.r = top.r + 1, !.held = "none"])
      BY <1>5, <3>1, Zenon DEF RegistryAnswers
    <3> QED
      BY <3>2
  <2>2. Trusted(held)
    BY DEF Trusted
  <2> QED
    BY <1>1, <1>3, <2>1, <2>2, LookupMoves
<1>6. CASE answer = "threw"
  <2> PICK o \in SuiteOutcome : o = "warning"
    BY DEF SuiteOutcome
  <2>1. Update(RegistryRow(top, o))
    <3>1. answer # "found" /\ answer # "other"
      BY <1>6
    <3> QED
      BY <3>1, Zenon DEF RegistryAnswers
  <2>2. Update([RegistryRow(top, o) EXCEPT !.recognizedBy = top.recognizedBy])
    BY <1>2, <2>1, SameRecognizer
  <2> QED
    BY <1>2, <1>3, <2>2, RegistryRowStep
<1> QED
  BY <1>4, <1>5, <1>6

LEMMA RecognitionStep == Inv /\ (RecognitionCached \/ RecognitionUnavailable) => Inv' /\ Forward
<1>1. ASSUME Inv, RecognitionCached
      PROVE  Inv' /\ Forward
  <2>1. /\ AtRegistryOf("recognition") /\ Update([top EXCEPT !.held = cached])
        /\ asked' = TRUE /\ config' = config /\ cached' = cached /\ returned' = returned
    BY <1>1 DEF RecognitionCached
  <2>7. top.held = "none" /\ cached # "none"
    BY <1>1 DEF RecognitionCached
  <2>2. top \in FrameShape /\ top.r \in Nat \ {0}
    BY <1>1, <2>1, AtRegistryFacts DEF FrameShape
  <2>3. [top EXCEPT !.r = top.r, !.held = cached] = [top EXCEPT !.held = cached]
    BY <2>2 DEF FrameShape
  <2>4. Update([top EXCEPT !.r = top.r, !.held = cached])
    BY <2>1, <2>3
  <2>5. cached \in Trust /\ Trusted(cached)
    BY <1>1 DEF Inv
  <2> PICK type : type = "recognition"
    OBVIOUS
  <2>6. AtRegistryOf(type)
    BY <2>1
  <2> QED
    BY <1>1, <2>1, <2>2, <2>4, <2>5, <2>6, <2>7, LookupMoves
<1>2. ASSUME Inv, RecognitionUnavailable
      PROVE  Inv' /\ Forward
  <2>1. /\ AtRegistryOf("recognition") /\ Update([top EXCEPT !.r = top.r + 1])
        /\ asked' = TRUE /\ config' = config /\ cached' = cached /\ returned' = returned
    BY <1>2 DEF RecognitionUnavailable
  <2>2. top \in FrameShape /\ FrameInv(top) /\ top.r + 1 \in Nat \ {0} /\ top.held \in Trust
    BY <1>2, <2>1, AtRegistryFacts DEF FrameShape
  <2> PICK r \in Nat \ {0} : r = top.r + 1
    BY <2>2
  <2>3. [top EXCEPT !.r = r, !.held = top.held] = [top EXCEPT !.r = top.r + 1]
    BY <2>2 DEF FrameShape
  <2>4. Update([top EXCEPT !.r = r, !.held = top.held])
    BY <2>1, <2>3
  <2>5. Trusted(top.held)
    BY <2>2 DEF FrameInv
  <2> PICK type : type = "recognition"
    OBVIOUS
  <2>6. AtRegistryOf(type)
    BY <2>1
  <2> QED
    BY <1>2, <2>1, <2>2, <2>4, <2>5, <2>6, LookupMoves
<1> QED
  BY <1>1, <1>2


LEMMA SuiteStep ==
  Inv /\ (ListNotRun \/ \E outcome \in SuiteOutcome :
            Running /\ outcome \in outcomesOf(top, current) /\ RunSuite(outcome)) => Inv' /\ Forward
<1>1. ASSUME Inv, ListNotRun
      PROVE  Inv' /\ Forward
  <2> PICK o \in RowOutcome : o = "not-run"
    BY DEF RowOutcome
  <2>1. /\ Running /\ isHalted(top)
        /\ Update([top EXCEPT !.s = @ + 1, !.rows = @ \cup {<<top.s, o>>}])
        /\ config' = config /\ cached' = cached /\ returned' = returned /\ asked' = asked
    BY <1>1 DEF ListNotRun
  <2> QED
    BY <1>1, <2>1, RowStep
<1>2. ASSUME Inv, NEW o \in SuiteOutcome, Running, o \in outcomesOf(top, current), RunSuite(o)
      PROVE  Inv' /\ Forward
  <2>1. /\ Update([top EXCEPT !.s = @ + 1, !.rows = @ \cup {<<top.s, o>>}])
        /\ config' = config /\ cached' = cached /\ returned' = returned /\ asked' = asked
    BY <1>2 DEF RunSuite
  <2>2. o \in RowOutcome /\ o # "not-run"
    BY DEF RowOutcome, SuiteOutcome
  <2> QED
    BY <1>2, <2>1, <2>2, RowStep
<1> QED
  BY <1>1, <1>2

\* A call ends: turned away, or when everything it started is done.
LEMMA EndStep == Inv /\ (ParseFails \/ OptionsRejected \/ Return) => Inv' /\ Forward
<1>1. ASSUME Inv, ParseFails \/ OptionsRejected
      PROVE  Inv' /\ Forward
  <2> PICK no \in BOOLEAN : no = FALSE
    OBVIOUS
  <2>1. /\ stack # <<>> /\ top.s = 0 /\ Deliver(Result(top, no, no))
        /\ config' = config /\ asked' = asked
    BY <1>1 DEF ParseFails, OptionsRejected
  <2>2. ~top.call.doc.parses \/ top.call.kind = "presentation"
    BY <1>1 DEF ParseFails, OptionsRejected, invalidChallengeOptions
  <2>3. Ends(top, no, no)
    BY <2>1, <2>2 DEF Ends
  <2> QED
    BY <1>1, <2>1, <2>3, Delivers
<1>2. ASSUME Inv, Return
      PROVE  Inv' /\ Forward
  <2> PICK v \in BOOLEAN : v = (~hasFatalFailures(top.rows) /\ allCredentialsVerified(top))
    OBVIOUS
  <2> PICK p \in BOOLEAN : p = (requestedPhases(top) # None)
    OBVIOUS
  <2>1. /\ stack # <<>> /\ top.s > Len(suitesOf(top))
        /\ Len(top.results) = Len(credentialsOf(top))
        /\ Deliver(Result(top, v, p)) /\ config' = config /\ asked' = asked
    BY <1>2 DEF Return, SuitesDone
  <2>2. Ends(top, v, p)
    BY <2>1 DEF Ends
  <2> QED
    BY <1>2, <2>1, <2>2, Delivers
<1> QED
  BY <1>1, <1>2

\* A nested call, at its beginning.
LEMMA NestedBegun ==
  ASSUME NEW kind \in {"credential", "recognition"}, NEW doc \in Credential,
         NEW o \in Options, NEW a \in Seq(AddedSuite)
  PROVE  LET g == Nested(kind, doc, o, a) IN
         /\ g \in FrameShape /\ FrameInv(g)
         /\ g.call.kind = kind /\ g.call.doc = doc /\ g.call.options = o /\ g.s = 0
<1> DEFINE cl == [kind |-> kind, doc |-> doc, options |-> o, additional |-> a,
                  challenge |-> "none", unsigned |-> FALSE]
           g  == Nested(kind, doc, o, a)
<1>1. cl \in AnyCall
  BY DEF AnyCall, CallOf
<1>2. cl.kind = kind /\ cl.doc = doc /\ cl.options = o
  OBVIOUS
<1>3. g = Frame(cl)
  BY DEF Nested
<1> HIDE DEF cl
<1>4. FrameInv(Frame(cl))
  BY <1>1, FrameBegun
<1>5. Frame(cl).call = cl /\ Frame(cl).s = 0
  BY DEF Frame
<1>6. Frame(cl) \in FrameShape
  BY <1>4 DEF FrameInv
<1> QED
  BY <1>2, <1>3, <1>4, <1>5, <1>6

\* The options of a nested call are options.
LEMMA OptionsOf ==
  ASSUME NEW ph \in Optional(SUBSET SuitePhase),
         NEW re \in {x \in Seq(Seq(Registry)) : Len(x) <= 1}, NEW ti \in Optional(BOOLEAN)
  PROVE  [phases |-> ph, registries |-> re, timing |-> ti] \in Options
BY DEF Options

LEMMA RecognizeStep ==
  Inv /\ (\E parses \in BOOLEAN : VerifyRecognition([id |-> "recognition", parses |-> parses]))
    => Inv' /\ Forward
<1> SUFFICES ASSUME Inv, NEW parses \in BOOLEAN,
                    VerifyRecognition([id |-> "recognition", parses |-> parses])
             PROVE  Inv' /\ Forward
  OBVIOUS
<1> DEFINE doc == [id |-> "recognition", parses |-> parses]
           ph  == None
           re  == << <<>> >>
           o   == [phases |-> ph, registries |-> re, timing |-> None]
           a   == <<>>
<1> PICK kind \in {"credential", "recognition"} : kind = "recognition"
  OBVIOUS
<1>1. /\ AtRegistryOf("recognition") /\ Push(Nested(kind, doc, o, a)) /\ asked' = TRUE
      /\ config' = config /\ cached' = cached /\ returned' = returned
  BY DEF VerifyRecognition
<1>2. /\ stack # <<>> /\ top.call.kind = "credential"
      /\ top.s \in 1..Len(suitesOf(top)) /\ suitesOf(top)[top.s] = registrySuite
      /\ stack[1].call.options.registries # << <<>> >>
      /\ top.r <= Len(registries(top)) /\ top.held = "none"
  BY <1>1, AtRegistryFacts DEF VerifyRecognition
<1>3. doc \in Credential
  BY NameAssumption DEF Credential
<1>4. o \in Options
  <2>1. ph \in Optional(SUBSET SuitePhase) /\ None \in Optional(BOOLEAN)
    BY DEF Optional
  <2>2. re \in {x \in Seq(Seq(Registry)) : Len(x) <= 1}
    OBVIOUS
  <2> HIDE DEF ph, re
  <2> QED
    BY <2>1, <2>2, OptionsOf
<1>5. a \in Seq(AddedSuite) /\ o.phases = None /\ o.registries = << <<>> >>
  OBVIOUS
<1> HIDE DEF doc, o, a
<1> DEFINE g == Nested(kind, doc, o, a)
<1>6. /\ g \in FrameShape /\ FrameInv(g)
      /\ g.call.kind = kind /\ g.call.doc = doc /\ g.call.options = o /\ g.s = 0
  BY <1>3, <1>4, <1>5, NestedBegun
<1>7. Push(g)
  BY <1>1
<1> HIDE DEF g
<1>8. Awaits(top, g)
  BY <1>2, <1>5, <1>6 DEF Awaits
<1> QED
  BY <1>1, <1>2, <1>6, <1>7, <1>8, Calls

LEMMA EmbeddedStep == Inv /\ VerifyEmbedded => Inv' /\ Forward
<1> SUFFICES ASSUME Inv, VerifyEmbedded PROVE Inv' /\ Forward
  OBVIOUS
<1> DEFINE n   == Len(top.results)
           doc == credentialsOf(top)[n + 1]
           ti  == <<timing(top)>>
           o   == [phases |-> top.call.options.phases,
                   registries |-> top.call.options.registries, timing |-> ti]
           a   == top.call.additional
<1> PICK kind \in {"credential", "recognition"} : kind = "credential"
  OBVIOUS
<1>1. /\ stack # <<>> /\ top.s > Len(suitesOf(top))
      /\ n < Len(credentialsOf(top))
      /\ Push(Nested(kind, doc, o, a))
      /\ config' = config /\ cached' = cached /\ returned' = returned /\ asked' = asked
  BY DEF VerifyEmbedded, SuitesDone
<1>2. /\ top \in FrameShape /\ FrameInv(top) /\ top.call \in AnyCall /\ n \in Nat
      /\ config \in Config
  BY <1>1, TheTop DEF Inv, FrameShape
<1>3. /\ credentialsOf(top) \in Seq(Credential) /\ Len(credentialsOf(top)) \in Nat
      /\ top.call.kind # "presentation" => Len(credentialsOf(top)) = 0
  BY <1>2, CredentialsShape
<1>4. top.call.kind = "presentation"
  <2> HIDE DEF n
  <2> QED
    BY <1>1, <1>2, <1>3
<1>5. doc \in Credential
  <2> HIDE DEF n
  <2>1. n + 1 \in 1..Len(credentialsOf(top))
    BY <1>1, <1>2, <1>3
  <2> QED
    BY <1>3, <2>1
<1>6. o \in Options
  <2>1. top.call.options \in Options /\ timing(top) \in BOOLEAN
    BY <1>2, DocumentShape, OptionsShape
  <2>2. /\ top.call.options.phases \in Optional(SUBSET SuitePhase)
        /\ top.call.options.registries \in {x \in Seq(Seq(Registry)) : Len(x) <= 1}
    BY <2>1 DEF Options
  <2>3. ti \in Optional(BOOLEAN)
    BY <2>1 DEF Optional
  <2> HIDE DEF ti
  <2> QED
    BY <2>2, <2>3, OptionsOf
<1>7. a \in Seq(AddedSuite)
  BY <1>2, DocumentShape
<1>8. /\ o.phases = top.call.options.phases
      /\ o.registries = top.call.options.registries /\ o.timing = ti
  OBVIOUS
<1> HIDE DEF o, a
<1> DEFINE g == Nested(kind, doc, o, a)
<1>9. /\ g \in FrameShape /\ FrameInv(g)
      /\ g.call.kind = kind /\ g.call.doc = doc /\ g.call.options = o /\ g.s = 0
  <2> HIDE DEF doc
  <2> QED
    BY <1>5, <1>6, <1>7, NestedBegun
<1>10. Push(g)
  BY <1>1
<1> HIDE DEF g
<1>11. Awaits(top, g)
  BY <1>1, <1>4, <1>8, <1>9 DEF Awaits
<1> QED
  BY <1>1, <1>9, <1>10, <1>11, Calls

LEMMA StutterStep == Inv /\ UNCHANGED vars => Inv'
<1> SUFFICES ASSUME Inv, UNCHANGED vars PROVE Inv'
  OBVIOUS
<1>1. /\ config' = config /\ stack' = stack /\ cached' = cached /\ returned' = returned
      /\ asked' = asked
  BY DEF vars
<1>2. StackInv'
  <2>1. ASSUME NEW i \in 1..Len(stack), NEW f \in {stack[i]}
        PROVE  FrameInv(f)'
    <3>1. FrameInv(f)
      BY DEF Inv, StackInv
    <3> QED
      BY <1>1, <3>1, SameConfig
  <2>2. ASSUME NEW i \in 1..(Len(stack) - 1), NEW f \in {stack[i]}, NEW g \in {stack[i + 1]}
        PROVE  Awaits(f, g)'
    <3>1. Awaits(f, g)
      BY DEF Inv, StackInv
    <3> QED
      BY <1>1, <3>1, SameConfig
  <2> QED
    BY <1>1, <2>1, <2>2 DEF Inv, StackInv
<1>3. Trusted(cached)'
  BY <1>1 DEF Inv, Trusted, Strict
<1>4. VerifiedMeansProven'
  BY <1>1 DEF Inv, VerifiedMeansProven, result, reported
<1> QED
  BY <1>1, <1>2, <1>3, <1>4 DEF Inv

LEMMA InvInit == Init => Inv
<1> SUFFICES ASSUME Init PROVE Inv
  OBVIOUS
<1>1. PICK call \in Call : stack = <<Frame(call)>>
  BY DEF Init
<1>2. FrameInv(Frame(call)) /\ Frame(call).call = call
  BY CallsShape, FrameBegun DEF Frame
<1> DEFINE g == Frame(call)
<1>3. g \in FrameShape
  BY <1>2 DEF FrameInv
<1>4. stack = <<g>>
  BY <1>1
<1> HIDE DEF g
<1>5. stack \in Seq(FrameShape) /\ Len(stack) = 1 /\ stack # <<>> /\ stack[1] = g
  BY <1>3, <1>4
<1>6. StackInv
  BY <1>2, <1>5 DEF StackInv, g
<1>7. config \in Config /\ cached = "none" /\ returned = None /\ asked = FALSE
  BY DEF Init
<1> QED
  BY <1>5, <1>6, <1>7 DEF Inv, Trust, Trusted, VerifiedMeansProven

LEMMA InvNext == Inv /\ [Next]_vars => Inv' /\ [Forward]_vars
<1> SUFFICES ASSUME Inv, [Next]_vars PROVE Inv' /\ [Forward]_vars
  OBVIOUS
<1>1. ASSUME Step
      PROVE  Inv' /\ Forward
  <2>1. CASE ParseFails \/ OptionsRejected \/ Return
    BY <2>1, EndStep
  <2>2. CASE Begin
    BY <2>2, BeginStep
  <2>3. CASE PassOver
    BY <2>3, PassOverStep
  <2>4. CASE ListNotRun \/ \E outcome \in SuiteOutcome :
               Running /\ outcome \in outcomesOf(top, current) /\ RunSuite(outcome)
    BY <2>4, SuiteStep
  <2>5. CASE RegistriesExhausted
    BY <2>5, ExhaustedStep
  <2>6. CASE \E answer \in {"found", "other", "threw"} : RegistryAnswers(answer)
    BY <2>6, AnswersStep
  <2>7. CASE RecognitionCached \/ RecognitionUnavailable
    BY <2>7, RecognitionStep
  <2>8. CASE \E parses \in BOOLEAN : VerifyRecognition([id |-> "recognition", parses |-> parses])
    BY <2>8, RecognizeStep
  <2>9. CASE VerifyEmbedded
    BY <2>9, EmbeddedStep
  <2> QED
    BY <1>1, <2>1, <2>2, <2>3, <2>4, <2>5, <2>6, <2>7, <2>8, <2>9 DEF Step
<1>2. CASE UNCHANGED vars
  BY <1>2, StutterStep
<1> QED
  BY <1>1, <1>2, StutterStep DEF Next, Returned

\* The inductive invariant, in every reachable state of every verifier.
THEOREM InvInvariant == Spec => []Inv
<1>1. Init => Inv
  BY InvInit
<1>2. Inv /\ [Next]_vars => Inv'
  BY InvNext
<1> QED
  BY <1>1, <1>2, PTL DEF Spec

\* verifyCredential and verifyPresentation call each other without going round: every
\* step begins a call, at most the third one under way, or carries one further through
\* its suites, the registries of a suite or its embedded credentials, and takes none back.
THEOREM AlwaysForward == Spec => [][Forward]_vars
<1>1. Init => Inv
  BY InvInit
<1>2. Inv /\ [Next]_vars => Inv' /\ [Forward]_vars
  BY InvNext
<1> QED
  BY <1>1, <1>2, PTL DEF Spec

-----------------------------------------------------------------------------
(* What the runs check *)

LEMMA InvTypeOK == Inv => TypeOK
<1> SUFFICES ASSUME Inv PROVE TypeOK
  OBVIOUS
<1>1. StackInv /\ cached \in Trust /\ (stack = <<>> <=> returned # None)
  BY DEF Inv
<1>2. Len(stack) \in Nat /\ Len(stack) <= 3
  BY <1>1, Depth
<1>3. ASSUME NEW i \in 1..Len(stack)
      PROVE  /\ FrameOk(stack[i])
             /\ stack[i].call.kind = "presentation" => i = 1
             /\ stack[i].call.kind = "recognition" =>
                  /\ i > 1 /\ stack[i - 1].call.kind = "credential"
                  /\ suitesOf(stack[i - 1])[stack[i - 1].s] = registrySuite
  <2>1. /\ stack[i] \in FrameShape /\ FrameInv(stack[i])
        /\ stack[i].call.kind = "presentation" => i = 1
        /\ stack[i].call.kind = "recognition" => i > 1 /\ Awaits(stack[i - 1], stack[i])
    BY <1>1, Depth
  <2>2. FrameOk(stack[i])
    <3> PICK f \in FrameShape : f = stack[i]
      BY <2>1
    <3>1. /\ f.s \in Nat /\ Len(suitesOf(f)) \in Nat /\ f.call \in AnyCall
          /\ f.held \in Trust
      BY SuitesShape DEF FrameShape
    <3>2. f.s \in 0..(Len(suitesOf(f)) + 1)
      BY <2>1, <3>1 DEF FrameInv
    <3>3. f.call.kind \in {"presentation", "credential", "recognition"}
      BY <3>1, DocumentShape
    <3>4. /\ \A row, other \in f.rows : row[1] = other[1] => row = other
          /\ Len(f.results) <= Len(credentialsOf(f))
      BY <2>1 DEF FrameInv, RowsInv
    <3>5. FrameOk(f)
      BY <3>1, <3>2, <3>3, <3>4 DEF FrameOk, Trust
    <3> QED
      BY <3>5
  <2>3. stack[i].call.kind = "recognition" =>
          /\ stack[i - 1].call.kind = "credential"
          /\ suitesOf(stack[i - 1])[stack[i - 1].s] = registrySuite
    BY <2>1 DEF Awaits
  <2> QED
    BY <2>1, <2>2, <2>3
<1> QED
  BY <1>1, <1>2, <1>3 DEF TypeOK, Trust

LEMMA InvReaches == Inv => OptionsReachCredentials
<1> SUFFICES ASSUME Inv PROVE OptionsReachCredentials
  OBVIOUS
<1>1. StackInv /\ (returned # None => Reaching(returned[1]))
  BY DEF Inv
<1>2. ASSUME asked, NEW i \in 1..Len(stack), stack[i].call.kind # "recognition"
      PROVE  stack[i].call.options.registries # << <<>> >>
  <2>1. /\ Len(stack) \in Nat
        /\ stack[i] \in FrameShape
        /\ stack[i].call.kind = "presentation" => i = 1
        /\ stack[i].call.kind = "credential" => i = 1 \/ (i = 2 /\ Awaits(stack[1], stack[2]))
    BY <1>1, Depth
  <2>2. stack[i].call.kind \in {"presentation", "credential", "recognition"}
    BY <2>1, DocumentShape DEF FrameShape
  <2>3. stack # <<>>
    BY <2>1
  <2>4. stack[1].call.options.registries # << <<>> >>
    BY <1>2, <2>3 DEF Inv
  <2>5. CASE i = 1
    BY <2>4, <2>5
  <2>6. CASE i = 2 /\ Awaits(stack[1], stack[2]) /\ stack[2].call.kind = "credential"
    <3>1. stack[2].call.options.registries = stack[1].call.options.registries
      BY <2>6 DEF Awaits
    <3> QED
      BY <2>4, <2>6, <3>1
  <2> QED
    BY <1>2, <2>1, <2>2, <2>5, <2>6
<1>3. returned # None =>
        /\ \A i \in 1..Len(result.results) :
             LET r == result.results[i] IN
             /\ r.timing = result.timing
             /\ r.doc.parses => r.partial = result.partial
        /\ "credentials" \in DOMAIN result.doc /\ ~result.rejected =>
             reported = result.doc.credentials
  BY <1>1 DEF Reaching, result, reported
<1> QED
  BY <1>2, <1>3 DEF OptionsReachCredentials

\* Calls nest at most three deep whatever is verified: a registry is only ever asked
\* for a credential, and a recognition credential is verified without registries.
THEOREM TypeCorrect == Spec => []TypeOK
BY InvInvariant, InvTypeOK, PTL

\* A verified result that is not partial means that the document's own proofs and
\* those of every one of its credentials were verified, and a recognition credential
\* that vouches for an issuer was itself proven, unless the constructor's phases
\* leave proofs out: for any number of credentials, registries and added suites.
THEOREM VerifiedProven == Spec => []VerifiedMeansProven
<1>1. Inv => VerifiedMeansProven
  BY DEF Inv
<1> QED
  BY <1>1, InvInvariant, PTL

\* The options of the caller's call reach every nested verification of one of its
\* credentials: timing, phases, and the registries, also when they are switched off.
THEOREM OptionsReach == Spec => []OptionsReachCredentials
BY InvInvariant, InvReaches, PTL
=============================================================================
