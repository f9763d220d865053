-------------------------- MODULE StatusSuite_proofs --------------------------
(***************************************************************************)
(* Proofs about the status suite, for any number of verifications, any      *)
(* credentials and lists, and hooks that settle in any order, also after    *)
(* the run they were called in.                                             *)
(***************************************************************************)
EXTENDS StatusSuite, SequenceTheorems, TLAPS

-----------------------------------------------------------------------------
(* The inductive invariant *)

HookState == {"pending", "verified", "not-found", "wrong-type", "failed",
              "STATUS_LIST_OUT_OF_DATE", "STATUS_LIST_SIGNATURE_ERROR"}

HookRecord == [run : Nat \ {0}, url : Url, state : HookState,
               list : {NoList} \cup {<<list>> : list \in List}, proof : Dispatch \cup {NoDispatch}]

ListsRecord == {<<>>} \cup {<<m>> : m \in UNION {[U -> List] : U \in SUBSET Url}}

ProblemType == {"MALFORMED_VALUE_ERROR", "STATUS_LIST_ERROR", "STATUS_LIST_NOT_FOUND",
                "STATUS_LIST_TYPE_ERROR", "STATUS_LIST_OUT_OF_DATE",
                "STATUS_LIST_SIGNATURE_ERROR", "CREDENTIAL_SUSPENDED", "CREDENTIAL_REVOKED"}

OutcomeRecord == [check : {"bitstring", "list-issuer"}, status : {"success", "failure", "skipped"},
                  problems : SUBSET ProblemType, run : Nat, reads : SUBSET (Url \X List),
                  known : SUBSET HookRecord]

(* The parts below are stated of the values one context has: the credential c, *)
(* the program counter at, the run r, the record v, the hooks H and an outcome. *)

\* A list is there once its hook was called, and verified means proven so.
HookSays(x) ==
  /\ x.state = "pending" => x.proof = NoDispatch
  /\ x.state = "verified" => x.proof.kind = "verified"
  /\ signed(x) => x.list # NoList

\* Every list of the credential is asked for once in a run, and no other list is.
HooksInv(c, at, r, H) ==
  /\ \A x \in H : /\ HookSays(x)
                  /\ x.run <= r
                  /\ x.url \in checkedStatusListUrls(c)
                  /\ at = "bitstring" => x.run < r
  /\ \A x, y \in H : x.run = y.run /\ x.url = y.url => x = y
  /\ at = "checkStatus" => {x.url : x \in {y \in H : y.run = r}} = checkedStatusListUrls(c)

\* What is recorded was handed to a hook and its proof verified.
RecordInv(v, H) ==
  v # <<>> => \A u \in DOMAIN v[1] : \E x \in H : x.url = u /\ x.list = <<v[1][u]>> /\ signed(x)

\* In the first run the record is exactly the lists whose proof verified.
FirstRunInv(at, r, v, H) ==
  r = 1 /\ at # "done" =>
    \/ v = <<>> /\ H = {}
    \/ /\ v # <<>> /\ at # "bitstring"
       /\ DOMAIN v[1] = {x.url : x \in {y \in H : signed(y)}}
       /\ \A x \in H : signed(x) => v[1][x.url] = x.list[1]

OutcomeOk(c, H, o) ==
  /\ o.check = "bitstring" /\ o.status = "success" =>
       /\ ofClass(c, "malformed") = {} /\ ofClass(c, "unlisted") = {}
       /\ \A i \in ofClass(c, "checked") :
            \E x \in o.known : /\ x.url = c.entries[i].url
                               /\ x.proof.kind = "verified"
                               /\ c.entries[i].purpose \notin x.list[1].set
  /\ o.check = "list-issuer" =>
       \A z \in o.reads : \E x \in H : x.url = z[1] /\ x.list = <<z[2]>> /\ signed(x)
  /\ o.check = "list-issuer" /\ o.run = 1 =>
       LET lists  == {x \in o.known : signed(x)}
           issued == {x \in lists : x.list[1].issuer \in {c.issuer} \ {NoIssuer}}
       IN /\ o.status = "failure" <=> lists # issued
          /\ o.status = "success" => {x.url : x \in issued} = checkedStatusListUrls(c)

ContextInv(c, at, r, v, H, O) ==
  /\ r \in 1..c.runs
  /\ at = "checkStatus" => v # <<>> /\ ofClass(c, "malformed") = {}
  /\ HooksInv(c, at, r, H)
  /\ RecordInv(v, H)
  /\ FirstRunInv(at, r, v, H)
  /\ \A i \in 1..Len(O) : OutcomeOk(c, H, O[i])

Place == {"bitstring", "checkStatus", "list-issuer", "done"}

Inv ==
  /\ plan \in [Context -> Plan] /\ pc \in [Context -> Place] /\ run \in [Context -> Nat]
  /\ verifiedLists \in [Context -> ListsRecord]
  /\ hooks \in [Context -> SUBSET HookRecord]
  /\ outcomes \in [Context -> Seq(OutcomeRecord)]
  /\ \A k \in Context :
       ContextInv(plan[k], pc[k], run[k], verifiedLists[k], hooks[k], outcomes[k])

-----------------------------------------------------------------------------
(* One context at a time *)

\* Contexts share nothing: a step of one is judged by the values it leaves.
LEMMA OneContext ==
  ASSUME Inv, NEW k \in Context, NEW at \in Place, NEW r \in Nat, NEW v \in ListsRecord,
         NEW H \in SUBSET HookRecord, NEW O \in Seq(OutcomeRecord),
         ContextInv(plan[k], at, r, v, H, O),
         plan' = plan, pc' = [pc EXCEPT ![k] = at], run' = [run EXCEPT ![k] = r],
         verifiedLists' = [verifiedLists EXCEPT ![k] = v], hooks' = [hooks EXCEPT ![k] = H],
         outcomes' = [outcomes EXCEPT ![k] = O]
  PROVE  Inv'
<1>1. ASSUME NEW j \in Context
      PROVE  ContextInv(plan'[j], pc'[j], run'[j], verifiedLists'[j], hooks'[j], outcomes'[j])
  <2>1. CASE j = k
    <3>1. /\ plan'[j] = plan[k] /\ pc'[j] = at /\ run'[j] = r /\ verifiedLists'[j] = v
          /\ hooks'[j] = H /\ outcomes'[j] = O
      BY <2>1 DEF Inv
    <3> QED
      BY <3>1
  <2>2. CASE j # k
    <3>1. /\ plan'[j] = plan[j] /\ pc'[j] = pc[j] /\ run'[j] = run[j]
          /\ verifiedLists'[j] = verifiedLists[j] /\ hooks'[j] = hooks[j]
          /\ outcomes'[j] = outcomes[j]
      BY <2>2 DEF Inv
    <3> QED
      BY <3>1 DEF Inv
  <2> QED
    BY <2>1, <2>2
<1>2. /\ plan' \in [Context -> Plan] /\ pc' \in [Context -> Place] /\ run' \in [Context -> Nat]
      /\ verifiedLists' \in [Context -> ListsRecord]
      /\ hooks' \in [Context -> SUBSET HookRecord]
      /\ outcomes' \in [Context -> Seq(OutcomeRecord)]
  BY DEF Inv
<1> QED
  BY <1>1, <1>2 DEF Inv

LEMMA Typed ==
  ASSUME Inv, NEW k \in Context
  PROVE  /\ plan[k] \in Plan /\ pc[k] \in Place /\ run[k] \in Nat /\ verifiedLists[k] \in ListsRecord
         /\ hooks[k] \in SUBSET HookRecord /\ outcomes[k] \in Seq(OutcomeRecord)
         /\ ContextInv(plan[k], pc[k], run[k], verifiedLists[k], hooks[k], outcomes[k])
         /\ plan[k].entries \in Seq(Entry) /\ plan[k].runs \in Nat \ {0}
BY PlanAssumption DEF Inv

\* A record that is there holds a map from URLs to lists.
LEMMA RecordedMap ==
  ASSUME NEW v \in ListsRecord, v # <<>>
  PROVE  \E U \in SUBSET Url : v[1] \in [U -> List]
<1>1. PICK m \in UNION {[U -> List] : U \in SUBSET Url} : v = <<m>>
  BY DEF ListsRecord
<1>2. v[1] = m
  BY <1>1
<1> QED
  BY <1>1, <1>2

\* An outcome outlives what happens to the hooks that had not settled.
LEMMA OutcomeStays ==
  ASSUME NEW c, NEW H, NEW G, NEW o, OutcomeOk(c, H, o), \A x \in H : signed(x) => x \in G
  PROVE  OutcomeOk(c, G, o)
<1>1. o.check = "list-issuer" =>
        \A z \in o.reads : \E x \in G : x.url = z[1] /\ x.list = <<z[2]>> /\ signed(x)
  BY DEF OutcomeOk
<1> QED
  BY <1>1 DEF OutcomeOk

\* The outcomes of a context with one more.
LEMMA Reported ==
  ASSUME NEW c, NEW H, NEW O \in Seq(OutcomeRecord), NEW o \in OutcomeRecord,
         \A i \in 1..Len(O) : OutcomeOk(c, H, O[i]), OutcomeOk(c, H, o)
  PROVE  /\ Append(O, o) \in Seq(OutcomeRecord)
         /\ \A i \in 1..Len(Append(O, o)) : OutcomeOk(c, H, Append(O, o)[i])
<1>1. /\ Append(O, o) \in Seq(OutcomeRecord) /\ Len(Append(O, o)) = Len(O) + 1
      /\ \A i \in 1..Len(O) : Append(O, o)[i] = O[i]
      /\ Append(O, o)[Len(O) + 1] = o
  BY AppendProperties
<1>2. \A i \in 1..Len(Append(O, o)) : i \in 1..Len(O) \/ i = Len(O) + 1
  BY <1>1
<1> QED
  BY <1>1, <1>2

\* status.bitstring concludes.
LEMMA BitstringReported ==
  ASSUME Inv, NEW k \in Context, pc[k] \in {"bitstring", "checkStatus"},
         NEW status \in {"success", "failure", "skipped"}, NEW problems \in SUBSET ProblemType,
         Report(k, Outcome(k, "bitstring", status, problems, {})),
         OutcomeOk(plan[k], hooks[k], Outcome(k, "bitstring", status, problems, {})),
         pc' = [pc EXCEPT ![k] = "list-issuer"], UNCHANGED <<plan, run, verifiedLists, hooks>>
  PROVE  Inv'
<1> DEFINE o == Outcome(k, "bitstring", status, problems, {})
           c == plan[k]
           r == run[k]
           v == verifiedLists[k]
           H == hooks[k]
           O == outcomes[k]
<1>0. ContextInv(c, pc[k], r, v, H, O) /\ H \in SUBSET HookRecord /\ O \in Seq(OutcomeRecord)
      /\ r \in Nat /\ v \in ListsRecord
  BY Typed
<1>1. o \in OutcomeRecord
  BY <1>0 DEF Outcome, OutcomeRecord
<1>2. outcomes' = [outcomes EXCEPT ![k] = Append(O, o)]
  BY DEF Report
<1> HIDE DEF o
<1>3. /\ Append(O, o) \in Seq(OutcomeRecord)
      /\ \A i \in 1..Len(Append(O, o)) : OutcomeOk(c, H, Append(O, o)[i])
  <2>1. OutcomeOk(c, H, o)
    BY DEF o
  <2> QED
    BY <1>0, <1>1, <2>1, Reported DEF ContextInv
<1>4. HooksInv(c, "list-issuer", r, H) /\ FirstRunInv("list-issuer", r, v, H)
  BY <1>0 DEF ContextInv, HooksInv, FirstRunInv
<1>5. ContextInv(c, "list-issuer", r, v, H, Append(O, o))
  BY <1>0, <1>3, <1>4 DEF ContextInv
<1>6. /\ run' = [run EXCEPT ![k] = r] /\ verifiedLists' = [verifiedLists EXCEPT ![k] = v]
      /\ hooks' = [hooks EXCEPT ![k] = H]
  BY DEF Inv
<1> HIDE DEF c, r, v, H, O
<1>7. "list-issuer" \in Place
  BY DEF Place
<1> QED
  BY <1>0, <1>2, <1>3, <1>5, <1>6, <1>7, OneContext DEF c

-----------------------------------------------------------------------------
(* One step per action *)

\* A malformed entry fails the check.
LEMMA MalformedStep ==
  ASSUME Inv, NEW k \in Context, BitstringWithoutList(k), ofClass(plan[k], "malformed") # {}
  PROVE  Inv'
<1> DEFINE P == {"MALFORMED_VALUE_ERROR"}
<1>1. /\ pc[k] = "bitstring" /\ pc' = [pc EXCEPT ![k] = "list-issuer"]
      /\ UNCHANGED <<plan, run, verifiedLists, hooks>>
      /\ Report(k, Outcome(k, "bitstring", "failure", P, {}))
  BY DEF BitstringWithoutList
<1>2. OutcomeOk(plan[k], hooks[k], Outcome(k, "bitstring", "failure", P, {}))
  BY DEF OutcomeOk, Outcome
<1>3. P \in SUBSET ProblemType
  BY DEF ProblemType
<1> QED
  BY <1>1, <1>2, <1>3, BitstringReported

LEMMA WithoutListStep ==
  ASSUME Inv, NEW k \in Context, BitstringWithoutList(k)
  PROVE  Inv'
<1>1. /\ pc[k] = "bitstring" /\ pc' = [pc EXCEPT ![k] = "list-issuer"]
      /\ UNCHANGED <<plan, run, verifiedLists, hooks>>
  BY DEF BitstringWithoutList
<1>2. CASE ofClass(plan[k], "malformed") = {}
  <2> DEFINE P == {}
  <2>1. Report(k, Outcome(k, "bitstring", "skipped", P, {}))
    BY <1>2 DEF BitstringWithoutList
  <2>2. OutcomeOk(plan[k], hooks[k], Outcome(k, "bitstring", "skipped", P, {}))
    BY DEF OutcomeOk, Outcome
  <2>3. P \in SUBSET ProblemType /\ pc[k] \in {"bitstring", "checkStatus"}
    BY <1>1
  <2> HIDE DEF P
  <2> QED
    BY <1>1, <2>1, <2>2, <2>3, BitstringReported
<1> QED
  BY <1>2, MalformedStep

LEMMA RejectsEntryStep ==
  ASSUME Inv, NEW k \in Context, CheckStatusRejectsEntry(k)
  PROVE  Inv'
<1> DEFINE P == {"STATUS_LIST_ERROR"}
<1>1. /\ pc[k] = "checkStatus" /\ pc' = [pc EXCEPT ![k] = "list-issuer"]
      /\ UNCHANGED <<plan, run, verifiedLists, hooks>>
      /\ Report(k, Outcome(k, "bitstring", "failure", P, {}))
  BY DEF CheckStatusRejectsEntry
<1>2. OutcomeOk(plan[k], hooks[k], Outcome(k, "bitstring", "failure", P, {}))
  BY DEF OutcomeOk, Outcome
<1>3. P \in SUBSET ProblemType
  BY DEF ProblemType
<1> QED
  BY <1>1, <1>2, <1>3, BitstringReported

LEMMA FailsStep ==
  ASSUME Inv, NEW k \in Context, NEW x \in hooks[k], CheckStatusFails(k, x)
  PROVE  Inv'
<1> DEFINE P == {errorProblem(x)}
<1>1. /\ pc[k] = "checkStatus" /\ pc' = [pc EXCEPT ![k] = "list-issuer"]
      /\ UNCHANGED <<plan, run, verifiedLists, hooks>>
      /\ Report(k, Outcome(k, "bitstring", "failure", P, {}))
      /\ x.state \notin {"pending", "verified"}
  BY DEF CheckStatusFails
<1>2. OutcomeOk(plan[k], hooks[k], Outcome(k, "bitstring", "failure", P, {}))
  BY DEF OutcomeOk, Outcome
<1>3. P \in SUBSET ProblemType
  <2>1. x.state \in HookState
    BY Typed DEF HookRecord
  <2>2. errorProblem(x) \in ProblemType
    <3>1. CASE x.state = "not-found"
      <4>1. errorProblem(x) = "STATUS_LIST_NOT_FOUND"
        BY <3>1, Zenon DEF errorProblem
      <4> QED
        BY <4>1 DEF ProblemType
    <3>2. CASE x.state = "wrong-type"
      <4>1. errorProblem(x) = "STATUS_LIST_TYPE_ERROR"
        BY <3>2 DEF errorProblem
      <4> QED
        BY <4>1 DEF ProblemType
    <3>3. CASE x.state = "failed"
      <4>1. errorProblem(x) = "STATUS_LIST_ERROR"
        BY <3>3 DEF errorProblem
      <4> QED
        BY <4>1 DEF ProblemType
    <3>4. CASE x.state \in {"STATUS_LIST_OUT_OF_DATE", "STATUS_LIST_SIGNATURE_ERROR"}
      <4>1. errorProblem(x) = x.state
        BY <3>4 DEF errorProblem
      <4> QED
        BY <3>4, <4>1 DEF ProblemType
    <3> QED
      BY <1>1, <2>1, <3>1, <3>2, <3>3, <3>4 DEF HookState
  <2> QED
    BY <2>2
<1> QED
  BY <1>1, <1>2, <1>3, BitstringReported

\* The status check passes only when the bit of each checked entry was read, clear,
\* from a list that this run verified.
LEMMA ReturnsStep ==
  ASSUME Inv, NEW k \in Context, CheckStatusReturns(k)
  PROVE  Inv'
<1> DEFINE P      == {setBitProblem(plan[k].entries[b[2]].purpose) : b \in setBits(k)}
           status == IF P # {} THEN "failure" ELSE "success"
           c      == plan[k]
           o      == Outcome(k, "bitstring", status, P, {})
<1>1. /\ pc[k] = "checkStatus" /\ pc' = [pc EXCEPT ![k] = "list-issuer"]
      /\ UNCHANGED <<plan, run, verifiedLists, hooks>>
      /\ Report(k, Outcome(k, "bitstring", status, P, {}))
      /\ ofClass(c, "unlisted") = {}
      /\ \A x \in hooksOf(k, run[k]) : x.state = "verified"
  BY DEF CheckStatusReturns
<1>2. P \in SUBSET ProblemType
  BY DEF setBitProblem, ProblemType
<1>3. status \in {"failure", "success"}
  OBVIOUS
<1>4. o.check = "bitstring" /\ o.status = status
      /\ o.known = {x \in hooks[k] : x.run = run[k] /\ x.state # "pending"}
  BY DEF Outcome
<1>5. ASSUME status = "success"
      PROVE  /\ ofClass(c, "malformed") = {} /\ ofClass(c, "unlisted") = {}
             /\ \A i \in ofClass(c, "checked") :
                  \E x \in o.known : /\ x.url = c.entries[i].url
                                     /\ x.proof.kind = "verified"
                                     /\ c.entries[i].purpose \notin x.list[1].set
  <2>1. ofClass(c, "malformed") = {}
    BY <1>1, Typed DEF ContextInv
  <2>2. setBits(k) = {}
    <3>1. P = {}
      BY <1>5
    <3> QED
      BY <3>1
  <2>3. ASSUME NEW i \in ofClass(c, "checked")
        PROVE  \E x \in o.known : /\ x.url = c.entries[i].url
                                  /\ x.proof.kind = "verified"
                                  /\ c.entries[i].purpose \notin x.list[1].set
    <3>1. c.entries[i].url \in checkedStatusListUrls(c)
      BY DEF checkedStatusListUrls
    <3>a. {x.url : x \in hooksOf(k, run[k])} = checkedStatusListUrls(c)
      BY <1>1, Typed DEF ContextInv, HooksInv, hooksOf
    <3>2. PICK x \in hooksOf(k, run[k]) : x.url = c.entries[i].url
      BY <3>1, <3>a
    <3>3. x \in o.known /\ x.proof.kind = "verified"
      BY <1>1, <1>4, <3>2, Typed DEF ContextInv, HooksInv, HookSays, hooksOf
    <3>4. c.entries[i].purpose \notin x.list[1].set
      <4> SUFFICES ASSUME c.entries[i].purpose \in x.list[1].set PROVE FALSE
        OBVIOUS
      <4> DEFINE b == <<x, i>>
      <4>1. b \in hooksOf(k, run[k]) \X ofClass(c, "checked") /\ b[1] = x /\ b[2] = i
        OBVIOUS
      <4> HIDE DEF b
      <4>2. b \in setBits(k)
        BY <3>2, <4>1 DEF setBits
      <4> QED
        BY <2>2, <4>2
    <3> QED
      BY <3>2, <3>3, <3>4
  <2> QED
    BY <1>1, <2>1, <2>3
<1>6. OutcomeOk(c, hooks[k], o)
  <2> HIDE DEF o
  <2> QED
    BY <1>4, <1>5 DEF OutcomeOk
<1> HIDE DEF P, status
<1> QED
  BY <1>1, <1>2, <1>3, <1>6, BitstringReported

LEMMA BitstringStep ==
  ASSUME Inv, NEW k \in Context, Bitstring(k)
  PROVE  Inv'
<1> DEFINE c    == plan[k]
           r    == run[k]
           H    == hooks[k]
           O    == outcomes[k]
           call(u) == [run |-> r, url |-> u, state |-> "pending", list |-> NoList,
                       proof |-> NoDispatch]
           new  == {call(u) : u \in checkedStatusListUrls(c)}
           G    == H \cup new
           v    == <<emptyMap>>
<1>0. /\ ContextInv(c, "bitstring", r, verifiedLists[k], H, O) /\ H \in SUBSET HookRecord
      /\ O \in Seq(OutcomeRecord) /\ r \in Nat \ {0}
  <2>1. pc[k] = "bitstring"
    BY DEF Bitstring
  <2> QED
    BY <2>1, Typed DEF ContextInv
<1>1. /\ verifiedLists' = [verifiedLists EXCEPT ![k] = v] /\ hooks' = [hooks EXCEPT ![k] = G]
      /\ pc' = [pc EXCEPT ![k] = "checkStatus"] /\ UNCHANGED <<plan, run, outcomes>>
      /\ ofClass(c, "malformed") = {}
  BY DEF Bitstring
<1>2. ASSUME NEW u \in checkedStatusListUrls(c)
      PROVE  call(u) \in HookRecord
  <2>1. u \in Url
    <3>1. PICK i \in 1..Len(c.entries) : u = c.entries[i].url
      BY DEF checkedStatusListUrls, ofClass
    <3>2. c.entries[i] \in Entry
      BY Typed, ElementOfSeq
    <3> QED
      BY <3>1, <3>2 DEF Entry
  <2> QED
    BY <1>0, <2>1 DEF HookRecord, HookState
<1>3. \A x \in new : /\ x.run = r /\ x.url \in checkedStatusListUrls(c) /\ x.state = "pending"
                     /\ x.list = NoList /\ x.proof = NoDispatch /\ x = call(x.url)
  OBVIOUS
<1>4. ASSUME NEW u \in checkedStatusListUrls(c)
      PROVE  \E x \in new : x.url = u
  <2>1. call(u) \in new /\ call(u).url = u
    OBVIOUS
  <2> QED
    BY <2>1
<1>5. new \in SUBSET HookRecord
  BY <1>2
<1> HIDE DEF new
<1>6. \A x \in new : ~signed(x) /\ HookSays(x)
  BY <1>3 DEF signed, HookSays, NoDispatch
<1>7. HooksInv(c, "checkStatus", r, G)
  <2>1. \A x \in H : /\ HookSays(x) /\ x.run < r /\ x.run \in Nat
                     /\ x.url \in checkedStatusListUrls(c)
    BY <1>0 DEF ContextInv, HooksInv, HookRecord
  <2>2. \A x \in G : HookSays(x) /\ x.run <= r /\ x.url \in checkedStatusListUrls(c)
    BY <1>0, <1>3, <1>6, <2>1
  <2>3. \A x, y \in G : x.run = y.run /\ x.url = y.url => x = y
    <3>1. \A x, y \in H : x.run = y.run /\ x.url = y.url => x = y
      BY <1>0 DEF ContextInv, HooksInv
    <3>2. \A x \in H, y \in new : x.run # y.run
      BY <1>0, <1>3, <2>1
    <3> QED
      BY <1>3, <3>1, <3>2
  <2>4. {x.url : x \in {y \in G : y.run = r}} = checkedStatusListUrls(c)
    <3>1. {y \in G : y.run = r} = new
      BY <1>0, <1>3, <2>1
    <3> QED
      BY <1>3, <1>4, <3>1
  <2> HIDE DEF G
  <2> QED
    BY <2>2, <2>3, <2>4 DEF HooksInv
<1>8. v \in ListsRecord /\ DOMAIN v[1] = {} /\ v # <<>>
  <2>1. emptyMap \in [{} -> List] /\ DOMAIN emptyMap = {}
    BY DEF emptyMap
  <2>2. emptyMap \in UNION {[U -> List] : U \in SUBSET Url}
    BY <2>1
  <2> QED
    BY <2>1, <2>2 DEF ListsRecord
<1> HIDE DEF v
<1>9. RecordInv(v, G)
  BY <1>8 DEF RecordInv
<1>10. FirstRunInv("checkStatus", r, v, G)
  <2> SUFFICES ASSUME r = 1
               PROVE  /\ DOMAIN v[1] = {x.url : x \in {y \in G : signed(y)}}
                      /\ \A x \in G : signed(x) => v[1][x.url] = x.list[1]
    BY <1>8 DEF FirstRunInv
  <2>1. H = {}
    BY <1>0 DEF ContextInv, FirstRunInv
  <2> QED
    BY <1>6, <1>8, <2>1
<1>11. \A i \in 1..Len(O) : OutcomeOk(c, G, O[i])
  BY <1>0, OutcomeStays DEF ContextInv
<1>12. ContextInv(c, "checkStatus", r, v, G, O)
  BY <1>0, <1>1, <1>7, <1>8, <1>9, <1>10, <1>11 DEF ContextInv
<1>13. G \in SUBSET HookRecord
  BY <1>0, <1>5
<1>14. run' = [run EXCEPT ![k] = r] /\ outcomes' = [outcomes EXCEPT ![k] = O]
  BY <1>1 DEF Inv
<1> HIDE DEF G, r, O, c
<1>15. "checkStatus" \in Place /\ r \in Nat
  BY <1>0 DEF Place
<1> QED
  BY <1>0, <1>1, <1>8, <1>12, <1>13, <1>14, <1>15, OneContext DEF c

\* What is left to show when hooks of a context settle.
LEMMA SettledContext ==
  ASSUME Inv, NEW k \in Context, NEW w \in ListsRecord, NEW G \in SUBSET HookRecord,
         UNCHANGED <<plan, pc, run, outcomes>>, hooks' = [hooks EXCEPT ![k] = G],
         verifiedLists' = [verifiedLists EXCEPT ![k] = w],
         verifiedLists[k] # <<>> => w # <<>>,
         \A z \in hooks[k] : signed(z) => z \in G,
         HooksInv(plan[k], pc[k], run[k], G), RecordInv(w, G), FirstRunInv(pc[k], run[k], w, G)
  PROVE  Inv'
<1>1. /\ ContextInv(plan[k], pc[k], run[k], verifiedLists[k], hooks[k], outcomes[k])
      /\ pc[k] \in Place /\ run[k] \in Nat /\ outcomes[k] \in Seq(OutcomeRecord)
  BY Typed
<1>2. \A i \in 1..Len(outcomes[k]) : OutcomeOk(plan[k], G, outcomes[k][i])
  BY <1>1, OutcomeStays DEF ContextInv
<1>3. ContextInv(plan[k], pc[k], run[k], w, G, outcomes[k])
  BY <1>1, <1>2 DEF ContextInv
<1>4. /\ pc' = [pc EXCEPT ![k] = pc[k]] /\ run' = [run EXCEPT ![k] = run[k]]
      /\ outcomes' = [outcomes EXCEPT ![k] = outcomes[k]]
  BY DEF Inv
<1> QED
  BY <1>1, <1>3, <1>4, OneContext

\* A list's load or its hook settles: a hook that waited is replaced by what
\* became of it, and a proven list is recorded.
LEMMA SettleStep ==
  ASSUME Inv, NEW k \in Context, NEW x \in pendingHooks(k), NEW state \in HookState \ {"pending"},
         NEW list \in {NoList} \cup {<<z>> : z \in List}, NEW proof \in Dispatch \cup {NoDispatch},
         Settle(k, x, state, list, proof), UNCHANGED <<plan, pc, run, outcomes>>,
         state = "verified" => proof.kind = "verified",
         proof \in Dispatch /\ proven(proof) =>
           list # NoList /\ recordVerifiedStatusList(k, x.url, list[1]),
         ~(proof \in Dispatch /\ proven(proof)) => UNCHANGED verifiedLists
  PROVE  Inv'
<1> DEFINE c  == plan[k]
           r  == run[k]
           at == pc[k]
           H  == hooks[k]
           O  == outcomes[k]
           v  == verifiedLists[k]
           y  == [x EXCEPT !.state = state, !.list = list, !.proof = proof]
           G  == (H \ {x}) \cup {y}
           w  == verifiedLists'[k]
           S  == proof \in Dispatch /\ proven(proof)
<1>0. /\ ContextInv(c, at, r, v, H, O) /\ H \in SUBSET HookRecord
      /\ O \in Seq(OutcomeRecord) /\ r \in Nat /\ at \in Place /\ v \in ListsRecord
      /\ x \in H /\ x.state = "pending" /\ x \in HookRecord
  BY Typed DEF pendingHooks
<1>1. /\ y \in HookRecord /\ y.run = x.run /\ y.url = x.url /\ y.state = state
      /\ y.list = list /\ y.proof = proof
  BY <1>0 DEF HookRecord
<1>2. ~signed(x)
  BY <1>0 DEF ContextInv, HooksInv, HookSays, signed, NoDispatch
<1>3. signed(y) <=> S
  <2>1. ~proven(NoDispatch)
    BY DEF proven, NoDispatch
  <2> QED
    BY <1>1, <2>1 DEF signed, proven
<1>4. hooks' = [hooks EXCEPT ![k] = G]
  BY DEF Settle
<1> HIDE DEF y
<1>5. G \in SUBSET HookRecord /\ (\A z \in H : signed(z) => z \in G)
  BY <1>0, <1>1, <1>2
<1>6. HooksInv(c, at, r, G)
  <2>1. HookSays(y)
    BY <1>1, <1>3 DEF HookSays
  <2>2. \A z \in H : /\ HookSays(z) /\ z.run <= r /\ z.url \in checkedStatusListUrls(c)
                     /\ at = "bitstring" => z.run < r
    BY <1>0 DEF ContextInv, HooksInv
  <2>3. \A z, u \in H : z.run = u.run /\ z.url = u.url => z = u
    BY <1>0 DEF ContextInv, HooksInv
  <2>4. \A z, u \in G : z.run = u.run /\ z.url = u.url => z = u
    BY <1>0, <1>1, <2>3
  <2>5. {z.url : z \in {u \in G : u.run = r}} = {z.url : z \in {u \in H : u.run = r}}
    <3>1. ASSUME NEW z \in {u \in G : u.run = r}
          PROVE  \E u \in {u \in H : u.run = r} : u.url = z.url
      BY <1>0, <1>1, <3>1
    <3>2. ASSUME NEW z \in {u \in H : u.run = r}
          PROVE  \E u \in {u \in G : u.run = r} : u.url = z.url
      BY <1>0, <1>1, <3>2
    <3> HIDE DEF G
    <3> QED
      BY <3>1, <3>2
  <2>6. at = "checkStatus" =>
          {z.url : z \in {u \in G : u.run = r}} = checkedStatusListUrls(c)
    BY <1>0, <2>5 DEF ContextInv, HooksInv
  <2>7. \A z \in G : /\ HookSays(z) /\ z.run <= r /\ z.url \in checkedStatusListUrls(c)
                     /\ at = "bitstring" => z.run < r
    BY <1>0, <1>1, <2>1, <2>2
  <2> HIDE DEF G
  <2> QED
    BY <2>4, <2>6, <2>7 DEF HooksInv
\* What becomes of the record.
<1>7. CASE ~S \/ v = <<>>
  <2>1. w = v /\ verifiedLists' = [verifiedLists EXCEPT ![k] = v]
    BY <1>7 DEF Inv, recordVerifiedStatusList
  <2>2. RecordInv(v, G)
    BY <1>0, <1>5 DEF ContextInv, RecordInv
  <2>3. FirstRunInv(at, r, v, G)
    <3>1. CASE r = 1 /\ at # "done"
      <4>1. v # <<>> /\ at # "bitstring" /\ ~S
        BY <1>0, <1>7, <3>1 DEF ContextInv, FirstRunInv
      <4>2. {z \in G : signed(z)} = {z \in H : signed(z)}
        BY <1>2, <1>3, <4>1
      <4>3. /\ DOMAIN v[1] = {z.url : z \in {u \in H : signed(u)}}
            /\ \A z \in H : signed(z) => v[1][z.url] = z.list[1]
        BY <1>0, <3>1, <4>1 DEF ContextInv, FirstRunInv
      <4> HIDE DEF G, v, H
      <4>4. \A z \in G : signed(z) => v[1][z.url] = z.list[1]
        BY <4>2, <4>3
      <4>5. DOMAIN v[1] = {z.url : z \in {u \in G : signed(u)}}
        BY <4>2, <4>3
      <4> QED
        BY <4>1, <4>4, <4>5 DEF FirstRunInv
    <3>2. CASE ~(r = 1 /\ at # "done")
      BY <3>2 DEF FirstRunInv
    <3> QED
      BY <3>1, <3>2
  <2> QED
    BY <1>0, <1>4, <1>5, <1>6, <2>1, <2>2, <2>3, SettledContext
<1>8. CASE S /\ v # <<>>
  <2> DEFINE m == [u \in DOMAIN v[1] \cup {x.url} |-> IF u = x.url THEN list[1] ELSE v[1][u]]
  <2>1. verifiedLists' = [verifiedLists EXCEPT ![k] = <<m>>]
    BY <1>8 DEF recordVerifiedStatusList
  <2>2. list # NoList /\ list = <<list[1]>> /\ list[1] \in List
    BY <1>8
  <2>3. PICK U \in SUBSET Url : v[1] \in [U -> List]
    BY <1>0, <1>8, RecordedMap
  <2>4. m \in [U \cup {x.url} -> List] /\ U \cup {x.url} \in SUBSET Url
    BY <1>0, <2>2, <2>3 DEF HookRecord
  <2>5. <<m>> \in ListsRecord
    BY <2>4 DEF ListsRecord
  <2>6. /\ DOMAIN m = DOMAIN v[1] \cup {x.url} /\ m[x.url] = list[1]
        /\ \A u \in DOMAIN v[1] : u # x.url => m[u] = v[1][u]
    OBVIOUS
  <2> HIDE DEF m
  <2>7. RecordInv(<<m>>, G)
    <3> SUFFICES ASSUME NEW u \in DOMAIN m
                 PROVE  \E z \in G : z.url = u /\ z.list = <<m[u]>> /\ signed(z)
      BY DEF RecordInv
    <3>1. CASE u = x.url
      BY <1>1, <1>3, <1>8, <2>2, <2>6, <3>1
    <3>2. CASE u # x.url
      <4>1. \E z \in H : z.url = u /\ z.list = <<v[1][u]>> /\ signed(z)
        BY <1>0, <1>8, <2>6, <3>2 DEF ContextInv, RecordInv
      <4> QED
        BY <1>5, <2>6, <3>2, <4>1
    <3> QED
      BY <3>1, <3>2
  <2>8. FirstRunInv(at, r, <<m>>, G)
    <3>1. CASE r = 1 /\ at # "done"
      <4>1. /\ at # "bitstring"
            /\ DOMAIN v[1] = {z.url : z \in {u \in H : signed(u)}}
            /\ \A z \in H : signed(z) => v[1][z.url] = z.list[1]
        BY <1>0, <1>8, <3>1 DEF ContextInv, FirstRunInv
      \* No other hook of the first run was called for this list.
      <4>2. \A z \in H : z # x => z.url # x.url
        BY <1>0, <3>1 DEF ContextInv, HooksInv, HookRecord
      <4>3. \A z \in G : signed(z) => m[z.url] = z.list[1]
        <5> SUFFICES ASSUME NEW z \in G, signed(z) PROVE m[z.url] = z.list[1]
          OBVIOUS
        <5>1. CASE z = y
          BY <1>1, <2>6, <5>1
        <5>2. CASE z \in H /\ z # x
          BY <2>6, <4>1, <4>2, <5>2
        <5> QED
          BY <5>1, <5>2
      <4>4. DOMAIN m = {z.url : z \in {u \in G : signed(u)}}
        <5>1. ASSUME NEW u \in DOMAIN m
              PROVE  \E z \in {z \in G : signed(z)} : z.url = u
          <6>1. CASE u = x.url
            BY <1>1, <1>3, <1>8, <6>1
          <6>2. CASE u # x.url
            <7>1. \E z \in {z \in H : signed(z)} : z.url = u
              BY <2>6, <4>1, <5>1, <6>2
            <7> QED
              BY <1>5, <7>1
          <6> QED
            BY <6>1, <6>2
        <5>2. ASSUME NEW z \in {z \in G : signed(z)}
              PROVE  z.url \in DOMAIN m
          <6>1. CASE z = y
            BY <1>1, <2>6, <6>1
          <6>2. CASE z \in H /\ signed(z)
            BY <2>6, <4>1, <6>2
          <6> QED
            BY <5>2, <6>1, <6>2
        <5> HIDE DEF G
        <5> QED
          BY <5>1, <5>2
      <4> HIDE DEF G
      <4>5. <<m>>[1] = m /\ <<m>> # <<>>
        OBVIOUS
      <4> DEFINE n == <<m>>
      <4> HIDE DEF n
      <4>6. n # <<>> /\ DOMAIN n[1] = {z.url : z \in {u \in G : signed(u)}}
            /\ \A z \in G : signed(z) => n[1][z.url] = z.list[1]
        BY <4>3, <4>4, <4>5 DEF n
      <4>7. FirstRunInv(at, r, n, G)
        BY <4>1, <4>6 DEF FirstRunInv
      <4> QED
        BY <4>7 DEF n
    <3>2. CASE ~(r = 1 /\ at # "done")
      BY <3>2 DEF FirstRunInv
    <3> QED
      BY <3>1, <3>2
  <2>9. at = "checkStatus" => <<m>> # <<>>
    OBVIOUS
  <2> QED
    BY <1>0, <1>4, <1>5, <1>6, <2>1, <2>5, <2>7, <2>8, SettledContext
<1> QED
  BY <1>7, <1>8

\* What the comparison of the first run says of the lists whose proof verified, when
\* the map it reads holds exactly those.
LEMMA ComparisonTrue ==
  ASSUME NEW c, NEW H, NEW m, NEW L, NEW urls, NEW st,
         L = {x \in H : signed(x)}, \A x \in L : x.url \in urls,
         DOMAIN m = {x.url : x \in L}, \A x \in L : m[x.url] = x.list[1],
         st = "failure" <=> \E u \in urls \cap DOMAIN m : m[u].issuer \notin {c.issuer} \ {NoIssuer},
         st = "success" => urls \subseteq DOMAIN m
  PROVE  LET issued == {x \in L : x.list[1].issuer \in {c.issuer} \ {NoIssuer}}
         IN /\ st = "failure" <=> L # issued
            /\ st = "success" => {x.url : x \in issued} = urls
<1> DEFINE issued == {x \in L : x.list[1].issuer \in {c.issuer} \ {NoIssuer}}
<1>1. st = "failure" => L # issued
  <2> SUFFICES ASSUME st = "failure" PROVE L # issued
    OBVIOUS
  <2>1. PICK u \in urls \cap DOMAIN m : m[u].issuer \notin {c.issuer} \ {NoIssuer}
    OBVIOUS
  <2>2. PICK x \in L : x.url = u
    BY <2>1
  <2>3. x \notin issued
    BY <2>1, <2>2
  <2> QED
    BY <2>2, <2>3
<1>2. L # issued => st = "failure"
  <2> SUFFICES ASSUME L # issued PROVE st = "failure"
    OBVIOUS
  <2>1. PICK x \in L : x.list[1].issuer \notin {c.issuer} \ {NoIssuer}
    OBVIOUS
  <2> QED
    BY <2>1
<1>3. st = "success" => {x.url : x \in issued} = urls
  <2> SUFFICES ASSUME st = "success" PROVE {x.url : x \in issued} = urls
    OBVIOUS
  <2>1. L = issued
    BY <1>2
  <2> QED
    BY <2>1
<1> QED
  BY <1>1, <1>2, <1>3

LEMMA ListIssuerStep ==
  ASSUME Inv, NEW k \in Context, ListIssuer(k)
  PROVE  Inv'
<1> DEFINE c     == plan[k]
           r     == run[k]
           v     == verifiedLists[k]
           H     == hooks[k]
           O     == outcomes[k]
           urls  == checkedStatusListUrls(c)
           lists == takeVerifiedStatusLists(k)
           bad   == mismatches(k, urls, lists)
           st    == CASE urls # {} /\ bad # {} -> "failure"
                      [] \/ urls = {}
                         \/ bad = {} /\ ~(urls \subseteq DOMAIN lists) -> "skipped"
                      [] OTHER -> "success"
           reads == {<<u, lists[u]>> : u \in urls \cap DOMAIN lists}
           o     == Outcome(k, "list-issuer", st, {}, reads)
           w     == IF urls = {} THEN v ELSE <<>>
           at    == pc'[k]
           s     == run'[k]
<1>0. /\ ContextInv(c, "list-issuer", r, v, H, O) /\ H \in SUBSET HookRecord
      /\ O \in Seq(OutcomeRecord) /\ r \in Nat \ {0} /\ v \in ListsRecord /\ c.runs \in Nat
  <2>1. pc[k] = "list-issuer"
    BY DEF ListIssuer
  <2> QED
    BY <2>1, Typed DEF ContextInv
<1>1. /\ outcomes' = [outcomes EXCEPT ![k] = Append(O, o)]
      /\ hooks' = [hooks EXCEPT ![k] = H] /\ plan' = plan
  BY Zenon DEF ListIssuer, Report, Inv
<1>2. verifiedLists' = [verifiedLists EXCEPT ![k] = w]
  <2>1. CASE urls = {}
    BY <2>1 DEF ListIssuer, Inv
  <2>2. CASE urls # {}
    BY <2>2 DEF ListIssuer
  <2> QED
    BY <2>1, <2>2
\* The place and the run that follow.
<1>3. /\ run' = [run EXCEPT ![k] = s] /\ pc' = [pc EXCEPT ![k] = at] /\ s \in 1..c.runs
      /\ s \in Nat /\ at \in Place
      /\ (s = r + 1 /\ at = "bitstring") \/ (s = r /\ at = "done")
  <2>1. CASE r < c.runs
    <3>1. run' = [run EXCEPT ![k] = r + 1] /\ pc' = [pc EXCEPT ![k] = "bitstring"]
      BY <2>1 DEF ListIssuer, NextRun
    <3>2. s = r + 1 /\ at = "bitstring"
      BY <3>1 DEF Inv
    <3>3. r \in 1..c.runs
      BY <1>0 DEF ContextInv
    <3> HIDE DEF s, at, r, c
    <3>4. s \in 1..c.runs /\ s \in Nat
      BY <1>0, <2>1, <3>2, <3>3
    <3> QED
      BY <3>1, <3>2, <3>4 DEF Place
  <2>2. CASE ~(r < c.runs)
    <3>1. run' = run /\ pc' = [pc EXCEPT ![k] = "done"]
      BY <2>2 DEF ListIssuer, NextRun
    <3>2. run'[k] = r /\ pc'[k] = "done" /\ run' = [run EXCEPT ![k] = r]
      BY <3>1 DEF Inv
    <3>3. r \in 1..c.runs
      BY <1>0 DEF ContextInv
    <3> HIDE DEF s, at
    <3>4. s = r /\ at = "done"
      BY <3>2 DEF s, at
    <3> QED
      BY <1>0, <3>1, <3>2, <3>3, <3>4 DEF Place
  <2> QED
    BY <2>1, <2>2
\* What the lists it takes are.
<1>4. /\ v = <<>> => DOMAIN lists = {}
      /\ v # <<>> => lists = v[1]
  BY DEF takeVerifiedStatusLists, emptyMap
<1>5. \A u \in DOMAIN lists : u \in Url /\ lists[u] \in List
  <2>1. CASE v = <<>>
    BY <1>4, <2>1
  <2>2. CASE v # <<>>
    BY <1>0, <1>4, <2>2, RecordedMap
  <2> QED
    BY <2>1, <2>2
<1>6. st = "failure" <=> urls # {} /\ bad # {}
  <2>1. CASE urls # {} /\ bad # {}
    <3>1. st = "failure"
      BY Zenon, <2>1
    <3> QED
      BY <2>1, <3>1
  <2>2. CASE urls = {} \/ (bad = {} /\ ~(urls \subseteq DOMAIN lists))
    <3>1. st = "skipped"
      BY Zenon, <2>2
    <3> HIDE DEF st
    <3> QED
      BY <2>2, <3>1
  <2>3. CASE ~(urls = {}) /\ bad = {} /\ urls \subseteq DOMAIN lists
    <3>1. st = "success"
      BY Zenon, <2>3
    <3> HIDE DEF st
    <3> QED
      BY <2>3, <3>1
  <2> HIDE DEF st, bad
  <2> QED
    BY <2>1, <2>2, <2>3
<1>7. st \in {"success", "failure", "skipped"}
  <2>1. CASE urls # {} /\ bad # {}
    BY Zenon, <2>1
  <2>2. CASE urls = {} \/ (bad = {} /\ ~(urls \subseteq DOMAIN lists))
    BY Zenon, <2>2
  <2>3. CASE ~(urls = {}) /\ bad = {} /\ urls \subseteq DOMAIN lists
    BY Zenon, <2>3
  <2> HIDE DEF st, bad
  <2> QED
    BY <2>1, <2>2, <2>3
<1>8. st = "success" => urls # {} /\ urls \subseteq DOMAIN lists
  <2>1. CASE urls = {} \/ (bad = {} /\ ~(urls \subseteq DOMAIN lists))
    <3>1. st = "skipped"
      BY Zenon, <2>1
    <3> HIDE DEF st
    <3> QED
      BY <3>1
  <2> HIDE DEF st, bad
  <2> QED
    BY <1>6, <2>1
<1>9. bad = {u \in urls \cap DOMAIN lists : lists[u].issuer \notin {c.issuer} \ {NoIssuer}}
  BY DEF mismatches
<1> HIDE DEF st, bad, lists
<1>10. reads \in SUBSET (Url \X List)
  BY <1>5
<1>11. \A z \in reads : \E x \in H : x.url = z[1] /\ x.list = <<z[2]>> /\ signed(x)
  <2> SUFFICES ASSUME NEW u \in urls \cap DOMAIN lists
               PROVE  \E x \in H : x.url = u /\ x.list = <<lists[u]>> /\ signed(x)
    OBVIOUS
  <2>1. v # <<>> /\ lists = v[1]
    BY <1>4
  <2> QED
    BY <1>0, <2>1 DEF ContextInv, RecordInv
<1> HIDE DEF reads
<1>12. /\ o.check = "list-issuer" /\ o.status = st /\ o.run = r /\ o.reads = reads
       /\ o.known = {x \in H : x.run = r /\ x.state # "pending"}
  BY DEF Outcome
<1>13. o \in OutcomeRecord
  BY <1>0, <1>7, <1>10 DEF Outcome, OutcomeRecord
<1> HIDE DEF o
<1> DEFINE L == {x \in H : signed(x)}
<1>14. ASSUME r = 1
       PROVE  LET issued == {x \in L : x.list[1].issuer \in {c.issuer} \ {NoIssuer}}
              IN /\ st = "failure" <=> L # issued
                 /\ st = "success" => {x.url : x \in issued} = urls
  <2>1. \A x \in L : x.url \in urls
    BY <1>0 DEF ContextInv, HooksInv
  <2>2. DOMAIN lists = {x.url : x \in L} /\ \A x \in L : lists[x.url] = x.list[1]
    <3>1. CASE v = <<>>
      <4>1. H = {} /\ DOMAIN lists = {}
        BY <1>0, <1>4, <1>14, <3>1 DEF ContextInv, FirstRunInv
      <4> QED
        BY <4>1
    <3>2. CASE v # <<>>
      BY <1>0, <1>4, <1>14, <3>2 DEF ContextInv, FirstRunInv
    <3> QED
      BY <3>1, <3>2
  <2>3. st = "failure" <=> \E u \in urls \cap DOMAIN lists : lists[u].issuer \notin {c.issuer} \ {NoIssuer}
    BY <1>6, <1>9
  <2> HIDE DEF urls
  <2> QED
    BY <1>8, <2>1, <2>2, <2>3, ComparisonTrue
<1>15. r = 1 => {x \in o.known : signed(x)} = L
  <2>1. \A x \in H : signed(x) => x.state # "pending"
    BY <1>0 DEF ContextInv, HooksInv, HookSays, signed, NoDispatch
  <2>2. \A x \in H : x.run <= r /\ x.run \in Nat \ {0}
    BY <1>0 DEF ContextInv, HooksInv, HookRecord
  <2>3. r = 1 => \A x \in H : x.run = r
    BY <1>0, <2>2
  <2> QED
    BY <1>12, <2>1, <2>3
<1>16. OutcomeOk(c, H, o)
  <2>1. o.run = 1 =>
          LET known  == {x \in o.known : signed(x)}
              issued == {x \in known : x.list[1].issuer \in {c.issuer} \ {NoIssuer}}
          IN /\ o.status = "failure" <=> known # issued
             /\ o.status = "success" => {x.url : x \in issued} = urls
    BY <1>12, <1>14, <1>15
  <2> QED
    BY <1>11, <1>12, <2>1 DEF OutcomeOk
<1>17. /\ Append(O, o) \in Seq(OutcomeRecord)
       /\ \A i \in 1..Len(Append(O, o)) : OutcomeOk(c, H, Append(O, o)[i])
  BY <1>0, <1>13, <1>16, Reported DEF ContextInv
<1>18. HooksInv(c, at, s, H) /\ FirstRunInv(at, s, w, H)
  <2>1. \A x \in H : x.run <= r /\ x.run \in Nat
    BY <1>0 DEF ContextInv, HooksInv, HookRecord
  <2>2. \A x \in H : x.run <= s /\ (at = "bitstring" => x.run < s)
    BY <1>0, <1>3, <2>1
  <2>3. HooksInv(c, at, s, H)
    BY <1>0, <1>3, <2>2 DEF ContextInv, HooksInv
  <2>4. ~(s = 1 /\ at # "done")
    BY <1>0, <1>3
  <2> QED
    BY <2>3, <2>4 DEF FirstRunInv
<1>19. RecordInv(w, H) /\ w \in ListsRecord
  BY <1>0 DEF ContextInv, RecordInv, ListsRecord
<1> HIDE DEF w, at, s
<1>20. ContextInv(c, at, s, w, H, Append(O, o))
  BY <1>3, <1>17, <1>18, <1>19 DEF ContextInv
<1> HIDE DEF c, H, O
<1> QED
  BY <1>0, <1>1, <1>2, <1>3, <1>17, <1>19, <1>20, OneContext DEF c

\* What a hook is left with when its list could not be loaded.
LEMMA LoadFailsStep ==
  ASSUME Inv, NEW k \in Context, NEW x \in pendingHooks(k),
         NEW reason \in {"not-found", "wrong-type", "failed"}, LoadFails(k, x, reason)
  PROVE  Inv'
<1>1. Settle(k, x, reason, NoList, NoDispatch) /\ UNCHANGED <<plan, pc, run, verifiedLists, outcomes>>
  BY DEF LoadFails
<1>2. NoDispatch \notin Dispatch
  BY DEF NoDispatch, Dispatch
<1>3. reason \in HookState \ {"pending"} /\ reason # "verified"
  BY DEF HookState
<1> QED
  BY <1>1, <1>2, <1>3, SettleStep

LEMMA HookSettlesStep ==
  ASSUME Inv, NEW k \in Context, NEW x \in pendingHooks(k),
         NEW dispatched \in Dispatch, NEW list \in List, HookSettles(k, x, dispatched, list)
  PROVE  Inv'
<1> DEFINE state == IF dispatched.kind = "verified" THEN "verified" ELSE proofProblem(dispatched)
           seen  == <<list>>
<1>1. Settle(k, x, state, seen, dispatched) /\ UNCHANGED <<plan, pc, run, outcomes>>
  BY DEF HookSettles
<1>2. /\ proven(dispatched) => recordVerifiedStatusList(k, x.url, list)
      /\ ~proven(dispatched) => UNCHANGED verifiedLists
  BY DEF HookSettles
<1>3. state \in HookState \ {"pending"} /\ (state = "verified" => dispatched.kind = "verified")
  BY DEF HookState, proofProblem
<1>4. seen[1] = list /\ seen # NoList /\ seen \in {NoList} \cup {<<z>> : z \in List}
  BY DEF NoList
<1> HIDE DEF state, seen
<1>5. proven(dispatched) => seen # NoList /\ recordVerifiedStatusList(k, x.url, seen[1])
  BY <1>2, <1>4
<1> QED
  BY <1>1, <1>2, <1>3, <1>4, <1>5, SettleStep

LEMMA InvStep == Inv /\ [Next]_vars => Inv'
<1> SUFFICES ASSUME Inv, [Next]_vars PROVE Inv'
  OBVIOUS
<1>1. ASSUME NEW k \in Context, Advance(k)
      PROVE  Inv'
  BY <1>1, WithoutListStep, BitstringStep, RejectsEntryStep, FailsStep, ReturnsStep, ListIssuerStep
     DEF Advance
<1>2. ASSUME NEW k \in Context, HookStep(k)
      PROVE  Inv'
  <2>1. PICK x \in pendingHooks(k) :
          \/ \E reason \in {"not-found", "wrong-type", "failed"} : LoadFails(k, x, reason)
          \/ \E dispatched \in Dispatch, list \in List : HookSettles(k, x, dispatched, list)
    BY <1>2 DEF HookStep
  <2> QED
    BY <2>1, LoadFailsStep, HookSettlesStep
<1>3. CASE UNCHANGED vars
  BY <1>3 DEF vars, Inv
<1> QED
  BY <1>1, <1>2, <1>3 DEF Next, Finished

LEMMA InvInit == Init => Inv
<1> SUFFICES ASSUME Init PROVE Inv
  OBVIOUS
<1>1. /\ plan \in [Context -> Plan] /\ pc \in [Context -> Place] /\ run \in [Context -> Nat]
      /\ verifiedLists \in [Context -> ListsRecord]
      /\ hooks \in [Context -> SUBSET HookRecord]
      /\ outcomes \in [Context -> Seq(OutcomeRecord)]
  BY DEF Init, Place, ListsRecord
<1>2. ASSUME NEW k \in Context
      PROVE  ContextInv(plan[k], pc[k], run[k], verifiedLists[k], hooks[k], outcomes[k])
  <2>1. /\ plan[k].runs \in Nat \ {0} /\ pc[k] = "bitstring" /\ run[k] = 1
        /\ verifiedLists[k] = <<>> /\ hooks[k] = {} /\ outcomes[k] = <<>>
    BY PlanAssumption DEF Init
  <2> QED
    BY <2>1 DEF ContextInv, HooksInv, RecordInv, FirstRunInv
<1> QED
  BY <1>1, <1>2 DEF Inv

LEMMA Invariant == Spec => []Inv
BY InvInit, InvStep, PTL DEF Spec

-----------------------------------------------------------------------------
(* The theorems *)

\* One hook call for every list of a run, and a record while checkStatus is awaited.
THEOREM TypeCorrect == Spec => []TypeOK
<1>1. Inv => TypeOK
  <2> SUFFICES ASSUME Inv, NEW k \in Context
               PROVE  /\ plan[k] \in Plan
                      /\ pc[k] \in {"bitstring", "checkStatus", "list-issuer", "done"}
                      /\ run[k] \in 1..plan[k].runs
                      /\ \A x \in hooks[k] : HookOk(x)
                      /\ \A x, y \in hooks[k] : x.run = y.run /\ x.url = y.url => x = y
                      /\ pc[k] = "checkStatus" =>
                           /\ verifiedLists[k] # <<>>
                           /\ {x.url : x \in hooksOf(k, run[k])} = checkedStatusListUrls(plan[k])
    BY DEF TypeOK
  <2>1. \A x \in hooks[k] : HookOk(x)
    <3> SUFFICES ASSUME NEW x \in hooks[k] PROVE HookOk(x)
      OBVIOUS
    <3>1. x \in HookRecord /\ HookSays(x)
      BY Typed DEF ContextInv, HooksInv
    <3>2. x.state = "verified" => x.list # NoList
      BY <3>1 DEF HookSays, signed
    <3>3. x.list # NoList => x.list[1] \in List
      BY <3>1 DEF HookRecord, NoList
    <3> QED
      BY <3>1, <3>2, <3>3 DEF HookOk, HookRecord, HookState
  <2> QED
    BY <2>1, Typed DEF ContextInv, HooksInv, Place, hooksOf
<1> QED
  BY <1>1, Invariant, PTL

LEMMA OutcomesOk ==
  ASSUME Inv, NEW k \in Context, NEW o \in Outcomes(k)
  PROVE  OutcomeOk(plan[k], hooks[k], o)
BY Typed DEF Outcomes, ContextInv

\* A status check succeeds only when every entry it checks names a list whose proof
\* verified in this run and whose bit is clear, and no entry escaped it.
THEOREM StatusTrue == Spec => []StatusSound
<1>1. Inv => StatusSound
  BY OutcomesOk DEF StatusSound, OutcomeOk
<1> QED
  BY <1>1, Invariant, PTL

\* The issuer comparison reads no list whose proof did not verify, whichever hooks are
\* still under way when checkStatus has failed.
THEOREM OnlyProvenRead == Spec => []ReadsProvenLists
<1>1. Inv => ReadsProvenLists
  BY OutcomesOk DEF ReadsProvenLists, OutcomeOk
<1> QED
  BY <1>1, Invariant, PTL

\* In the first run on a context a mismatch is reported exactly when a list whose proof
\* verified is another issuer's, and success means that every list was compared.
THEOREM MismatchSeen == Spec => []MismatchReported
<1>1. Inv => MismatchReported
  BY OutcomesOk DEF MismatchReported, OutcomeOk
<1> QED
  BY <1>1, Invariant, PTL

=============================================================================
