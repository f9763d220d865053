----------------------------- MODULE StatusSuite -----------------------------
(***************************************************************************)
(* The status suite, src/suites/status/: status.bitstring reads the status  *)
(* lists a credential names through the external checkStatus, whose hook    *)
(* verifies each list's proof and records the list; status.list-issuer then *)
(* takes the recorded lists and compares their issuers with the             *)
(* credential's.  The record is kept per context and per run.               *)
(*                                                                          *)
(* checkStatus is a library: it loads every distinct list once, calls the   *)
(* hook for each in any order, and reports the first error it meets, maybe  *)
(* while other hooks are still verifying their lists.                       *)
(***************************************************************************)
EXTENDS Naturals, Sequences, FiniteSets

CONSTANTS
  Context,      \* the contexts of the verifications under way
  Url, Issuer,
  NoIssuer,     \* a credential or a list without an issuer that has an id
  Plan,         \* what a verification may be of: records [issuer, entries, runs], the
                \* credential and how often the suite list holds the status suite
  List          \* status lists: who issued the list, and which purposes it has this
                \* credential's bit set for

Purpose == {"revocation", "suspension"}

\* What the check makes of one credentialStatus entry (classifyStatusEntry); an
\* "unlisted" entry is one to check that names no list.
Entry == [kind : {"checked", "unlisted", "other-type", "other-purpose", "malformed"},
          url : Url, purpose : Purpose]

ASSUME PlanAssumption ==
  /\ Plan \subseteq [issuer : Issuer \cup {NoIssuer}, entries : Seq(Entry), runs : Nat \ {0}]
  /\ List \subseteq [issuer : Issuer \cup {NoIssuer}, set : SUBSET Purpose]

\* What the dispatch of a list's proof comes to: a rejection may say that the
\* proof itself verified, and may be about the list's validity dates.
Dispatch ==
  [kind : {"verified", "no-service", "threw"}, proofVerified : {FALSE}, dated : {FALSE}]
    \cup [kind : {"rejected"}, proofVerified : BOOLEAN, dated : BOOLEAN]

NoList     == <<>>
NoDispatch == [kind |-> "none", proofVerified |-> FALSE, dated |-> FALSE]

VARIABLES
  plan,            \* what each context verifies
  pc,              \* "bitstring" | "checkStatus" (awaited) | "list-issuer" | "done"
  run,             \* which run of the suite a context is in
  verifiedLists,   \* per context: <<>> when absent, <<map from URLs to lists>> otherwise
  hooks,           \* per context: the hook calls of its runs
  outcomes         \* per context: the outcomes of its checks

vars == <<plan, pc, run, verifiedLists, hooks, outcomes>>

-----------------------------------------------------------------------------

ofClass(c, kind) == {i \in 1..Len(c.entries) : c.entries[i].kind = kind}

toCheck(c) == ofClass(c, "checked") \cup ofClass(c, "unlisted")

checkedStatusListUrls(c) == {c.entries[i].url : i \in ofClass(c, "checked")}

Init ==
  /\ plan \in [Context -> Plan]
  /\ pc = [k \in Context |-> "bitstring"]
  /\ run = [k \in Context |-> 1]
  /\ verifiedLists = [k \in Context |-> <<>>]
  /\ hooks = [k \in Context |-> {}]
  /\ outcomes = [k \in Context |-> <<>>]

\* An outcome; `reads` (the lists compared) and `known` (the hooks that had
\* settled when it was made) are history.
Outcome(k, check, status, problems, reads) ==
  [check |-> check, status |-> status, problems |-> problems, run |-> run[k], reads |-> reads,
   known |-> {x \in hooks[k] : x.run = run[k] /\ x.state # "pending"}]

Report(k, outcome) == outcomes' = [outcomes EXCEPT ![k] = Append(@, outcome)]

emptyMap == [u \in {} |-> NoList]

\* Fault: a credential without a list to read is never reported on.
BitstringWithoutListStays(k) ==
  /\ pc[k] = "bitstring"
  /\ ofClass(plan[k], "malformed") # {} \/ toCheck(plan[k]) = {}
  /\ UNCHANGED vars

\* No list is read: no entry, a malformed one, or none the check reads.
BitstringWithoutList(k) ==
  /\ pc[k] = "bitstring"
  /\ LET c == plan[k] IN
     /\ ofClass(c, "malformed") # {} \/ toCheck(c) = {}
     /\ Report(k, IF ofClass(c, "malformed") # {}
                  THEN Outcome(k, "bitstring", "failure", {"MALFORMED_VALUE_ERROR"}, {})
                  ELSE Outcome(k, "bitstring", "skipped", {}, {}))
  /\ pc' = [pc EXCEPT ![k] = "list-issuer"]
  /\ UNCHANGED <<plan, run, verifiedLists, hooks>>

\* Fault: the run is not begun, so there is nothing to record lists in.
BitstringUnbegun(k) ==
  /\ pc[k] = "bitstring"
  /\ ofClass(plan[k], "malformed") = {}
  /\ toCheck(plan[k]) # {}
  /\ hooks' = [hooks EXCEPT ![k] =
       @ \cup {[run |-> run[k], url |-> u, state |-> "pending", list |-> NoList,
               proof |-> NoDispatch] : u \in checkedStatusListUrls(plan[k])}]
  /\ pc' = [pc EXCEPT ![k] = "checkStatus"]
  /\ UNCHANGED <<plan, run, verifiedLists, outcomes>>

\* beginStatusListRun, then checkStatus sets out to load every list once.
Bitstring(k) ==
  /\ pc[k] = "bitstring"
  /\ ofClass(plan[k], "malformed") = {}
  /\ toCheck(plan[k]) # {}
  /\ verifiedLists' = [verifiedLists EXCEPT ![k] = <<emptyMap>>]
  /\ hooks' = [hooks EXCEPT ![k] =
       @ \cup {[run |-> run[k], url |-> u, state |-> "pending", list |-> NoList,
               proof |-> NoDispatch] : u \in checkedStatusListUrls(plan[k])}]
  /\ pc' = [pc EXCEPT ![k] = "checkStatus"]
  /\ UNCHANGED <<plan, run, outcomes>>

pendingHooks(k) == {x \in hooks[k] : x.state = "pending"}

Settle(k, x, state, list, proof) ==
  hooks' = [hooks EXCEPT ![k] =
    (@ \ {x}) \cup {[x EXCEPT !.state = state, !.list = list, !.proof = proof]}]

\* The loader cannot fetch the list, or what it fetched is not a status list:
\* the hook is not called.
LoadFails(k, x, reason) ==
  /\ x \in pendingHooks(k)
  /\ Settle(k, x, reason, NoList, NoDispatch)
  /\ UNCHANGED <<plan, pc, run, verifiedLists, outcomes>>

recordVerifiedStatusList(k, url, list) ==
  verifiedLists' = [verifiedLists EXCEPT ![k] =
    IF @ = <<>> THEN @
    ELSE <<[u \in DOMAIN @[1] \cup {url} |-> IF u = url THEN list ELSE @[1][u]]>>]

\* The problem a list's proof is reported with (statusListProofProblems); out of
\* date is STATUS_LIST_EXPIRED or STATUS_LIST_NOT_YET_VALID.
proofProblem(dispatched) ==
  IF dispatched.kind = "rejected" /\ dispatched.dated
  THEN "STATUS_LIST_OUT_OF_DATE" ELSE "STATUS_LIST_SIGNATURE_ERROR"

\* Fault: every list the hook is handed is recorded.
RecordsAnyList(dispatched) == TRUE

\* Fault: only a list with nothing wrong is recorded.
RecordsVerifiedOnly(dispatched) == dispatched.kind = "verified"

\* A list whose proof verified is recorded, also when it was rejected for
\* something else.
proven(dispatched) == dispatched.kind = "verified" \/ dispatched.proofVerified

\* Fault: a list is recorded and accepted before its proof is looked at.
HookAcceptsUnseen(k, x, dispatched, list) ==
  /\ x \in pendingHooks(k)
  /\ recordVerifiedStatusList(k, x.url, list)
  /\ Settle(k, x, "verified", <<list>>, dispatched)
  /\ UNCHANGED <<plan, pc, run, outcomes>>

\* The hook's dispatch settles (verifyStatusListVia).
HookSettles(k, x, dispatched, list) ==
  /\ x \in pendingHooks(k)
  /\ IF proven(dispatched)
     THEN recordVerifiedStatusList(k, x.url, list)
     ELSE UNCHANGED verifiedLists
  /\ Settle(k, x, IF dispatched.kind = "verified" THEN "verified" ELSE proofProblem(dispatched),
            <<list>>, dispatched)
  /\ UNCHANGED <<plan, pc, run, outcomes>>

hooksOf(k, r) == {x \in hooks[k] : x.run = r}

\* The problem an error of checkStatus is classified as (classifyStatusError).
errorProblem(x) ==
  CASE x.state = "not-found"  -> "STATUS_LIST_NOT_FOUND"
    [] x.state = "wrong-type" -> "STATUS_LIST_TYPE_ERROR"
    [] x.state = "failed"     -> "STATUS_LIST_ERROR"
    [] OTHER                  -> x.state

\* An entry without a list makes checkStatus fail, at any moment.
CheckStatusRejectsEntry(k) ==
  /\ pc[k] = "checkStatus"
  /\ ofClass(plan[k], "unlisted") # {}
  /\ Report(k, Outcome(k, "bitstring", "failure", {"STATUS_LIST_ERROR"}, {}))
  /\ pc' = [pc EXCEPT ![k] = "list-issuer"]
  /\ UNCHANGED <<plan, run, verifiedLists, hooks>>

\* checkStatus reports an error it met, without waiting for the other lists.
CheckStatusFails(k, x) ==
  /\ pc[k] = "checkStatus"
  /\ x \in hooksOf(k, run[k])
  /\ x.state \notin {"pending", "verified"}
  /\ Report(k, Outcome(k, "bitstring", "failure", {errorProblem(x)}, {}))
  /\ pc' = [pc EXCEPT ![k] = "list-issuer"]
  /\ UNCHANGED <<plan, run, verifiedLists, hooks>>

\* checkStatus has read the bit of every checked entry.
setBits(k) ==
  {b \in hooksOf(k, run[k]) \X ofClass(plan[k], "checked") :
     /\ plan[k].entries[b[2]].url = b[1].url
     /\ plan[k].entries[b[2]].purpose \in b[1].list[1].set}

setBitProblem(purpose) ==
  IF purpose = "suspension" THEN "CREDENTIAL_SUSPENDED" ELSE "CREDENTIAL_REVOKED"

CheckStatusReturns(k) ==
  /\ pc[k] = "checkStatus"
  /\ ofClass(plan[k], "unlisted") = {}
  /\ \A x \in hooksOf(k, run[k]) : x.state = "verified"
  /\ LET problems == {setBitProblem(plan[k].entries[b[2]].purpose) : b \in setBits(k)} IN
     Report(k, Outcome(k, "bitstring", IF problems # {} THEN "failure" ELSE "success",
                       problems, {}))
  /\ pc' = [pc EXCEPT ![k] = "list-issuer"]
  /\ UNCHANGED <<plan, run, verifiedLists, hooks>>

takeVerifiedStatusLists(k) == IF verifiedLists[k] = <<>> THEN emptyMap ELSE verifiedLists[k][1]

\* The suite comes up again in the context's suite list, or is through.
NextRun(k) ==
  IF run[k] < plan[k].runs
  THEN run' = [run EXCEPT ![k] = @ + 1] /\ pc' = [pc EXCEPT ![k] = "bitstring"]
  ELSE UNCHANGED run /\ pc' = [pc EXCEPT ![k] = "done"]

\* A list without an issuer matches none, not even a credential without one.
mismatches(k, urls, lists) ==
  {u \in urls \cap DOMAIN lists :
     lists[u].issuer = NoIssuer \/ lists[u].issuer # plan[k].issuer}

\* The lists are taken out of the record and compared; without a checked entry
\* the record is not looked at.
ListIssuer(k) ==
  /\ pc[k] = "list-issuer"
  /\ LET urls  == checkedStatusListUrls(plan[k])
         lists == takeVerifiedStatusLists(k)
     IN /\ Report(k, Outcome(k, "list-issuer",
             CASE urls # {} /\ mismatches(k, urls, lists) # {} -> "failure"
               [] \/ urls = {}
                  \/ /\ mismatches(k, urls, lists) = {}
                     /\ ~(urls \subseteq DOMAIN lists)         -> "skipped"
               [] OTHER                                        -> "success",
             {}, {<<u, lists[u]>> : u \in urls \cap DOMAIN lists}))
        /\ verifiedLists' = IF urls = {} THEN verifiedLists
                            ELSE [verifiedLists EXCEPT ![k] = <<>>]
  /\ NextRun(k)
  /\ UNCHANGED <<plan, hooks>>

\* What happens to a list a hook was handed, or could not be handed.
HookStep(k) ==
  \E x \in pendingHooks(k) :
    \/ \E reason \in {"not-found", "wrong-type", "failed"} : LoadFails(k, x, reason)
    \/ \E dispatched \in Dispatch, list \in List : HookSettles(k, x, dispatched, list)

Advance(k) ==
  \/ BitstringWithoutList(k)
  \/ Bitstring(k)
  \/ CheckStatusRejectsEntry(k)
  \/ \E x \in hooks[k] : CheckStatusFails(k, x)
  \/ CheckStatusReturns(k)
  \/ ListIssuer(k)

Finished == (\A k \in Context : pc[k] = "done" /\ pendingHooks(k) = {}) /\ UNCHANGED vars

Next ==
  \/ \E k \in Context : Advance(k)
  \/ \E k \in Context : HookStep(k)
  \/ Finished

Spec == Init /\ [][Next]_vars

\* Lists are loaded under the deadline of the GET service.
FairSpec == Spec /\ \A k \in Context : WF_vars(Advance(k)) /\ WF_vars(HookStep(k))

-----------------------------------------------------------------------------
(* Types *)

HookOk(x) ==
  /\ x.run \in Nat \ {0} /\ x.url \in Url
  /\ x.state \in {"pending", "verified", "not-found", "wrong-type", "failed",
                  "STATUS_LIST_OUT_OF_DATE", "STATUS_LIST_SIGNATURE_ERROR"}
  /\ x.state = "verified" => x.list # NoList /\ x.list[1] \in List
  /\ x.proof \in Dispatch \cup {NoDispatch}

\* A run has one hook call for each of its lists, and a record exists while
\* checkStatus is awaited.
TypeOK ==
  \A k \in Context :
    /\ plan[k] \in Plan
    /\ pc[k] \in {"bitstring", "checkStatus", "list-issuer", "done"}
    /\ run[k] \in 1..plan[k].runs
    /\ \A x \in hooks[k] : HookOk(x)
    /\ \A x, y \in hooks[k] : x.run = y.run /\ x.url = y.url => x = y
    /\ pc[k] = "checkStatus" =>
         /\ verifiedLists[k] # <<>>
         /\ {x.url : x \in hooksOf(k, run[k])} = checkedStatusListUrls(plan[k])

-----------------------------------------------------------------------------
(* What the status suite promises *)

\* The hook was handed a list whose proof is good, whatever else is wrong with it.
signed(x) == x.proof.kind = "verified" \/ x.proof.proofVerified

Outcomes(k) == {outcomes[k][i] : i \in 1..Len(outcomes[k])}

\* "If the verifier cannot conclude that the credential is currently un-revoked
\* and un-suspended" the check fails: a success means that every entry it
\* checks, wherever it sits, names a list whose proof was verified in this run
\* and that has the entry's bit clear, and that no entry is malformed or without
\* a list.
StatusSound ==
  \A k \in Context : \A o \in Outcomes(k) :
    o.check = "bitstring" /\ o.status = "success" =>
      /\ ofClass(plan[k], "malformed") = {} /\ ofClass(plan[k], "unlisted") = {}
      /\ \A i \in ofClass(plan[k], "checked") :
           \E x \in o.known : /\ x.url = plan[k].entries[i].url
                             /\ x.proof.kind = "verified"
                             /\ plan[k].entries[i].purpose \notin x.list[1].set

\* The issuer comparison never looks at a list whose proof did not verify, even
\* when a hook settles after checkStatus has already failed.
ReadsProvenLists ==
  \A k \in Context : \A o \in Outcomes(k) :
    o.check = "list-issuer" =>
      \A r \in o.reads : \E x \in hooks[k] : /\ x.url = r[1]
                                           /\ x.list = <<r[2]>>
                                           /\ signed(x)

\* "Every recorded list is compared, and a mismatch fails the check": a list of
\* another issuer, or of none, whose proof verified is reported although the
\* status check failed on it, or on another list, and although some list is
\* missing; and a success means that every list was proven and is the issuer's.
\* It is said of the first run on a context: a hook that outlives its run records
\* its list in the run that follows.
MismatchReported ==
  \A k \in Context : \A o \in Outcomes(k) :
    o.check = "list-issuer" /\ o.run = 1 =>
      LET lists  == {x \in o.known : signed(x)}
          issued == {x \in lists : x.list[1].issuer \in {plan[k].issuer} \ {NoIssuer}}
      IN /\ o.status = "failure" <=> lists # issued
         /\ o.status = "success" =>
              {x.url : x \in issued} = checkedStatusListUrls(plan[k])

\* Both checks of every run conclude.
StatusSettles == \A k \in Context : <>(pc[k] = "done")

=============================================================================
