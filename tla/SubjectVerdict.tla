--------------------------- MODULE SubjectVerdict ----------------------------
(***************************************************************************)
(* What a verification of one subject promises its caller, as               *)
(* src/types/check.ts and the header of src/run-suites.ts state it: only a  *)
(* fatal failure makes the subject unverified, a fatal failure may also     *)
(* halt it, a halted subject is not verified, and no check of a halted      *)
(* subject is started.                                                      *)
(***************************************************************************)
VARIABLES
  phase,     \* "deciding" | "running" (a check is awaited) | "returned"
  verified,  \* no fatal failure so far
  halted     \* a halting failure has happened

vvars == <<phase, verified, halted>>

Init ==
  /\ phase = "deciding"
  /\ verified = TRUE
  /\ halted = FALSE

\* A check is started, which a halted subject never does.
Start ==
  /\ phase = "deciding"
  /\ ~halted
  /\ phase' = "running"
  /\ UNCHANGED <<verified, halted>>

\* The check passes, is skipped, or fails without being fatal.
Harmless ==
  /\ phase = "running"
  /\ phase' = "deciding"
  /\ UNCHANGED <<verified, halted>>

\* The check fails and is fatal; it halts unless it opted out of halting.
FatalFailure ==
  /\ phase = "running"
  /\ phase' = "deciding"
  /\ verified' = FALSE
  /\ halted' \in BOOLEAN

\* A suite that could have failed the subject cannot be decided at all.
Undecidable ==
  /\ phase = "deciding"
  /\ ~halted
  /\ verified' = FALSE
  /\ halted' = TRUE
  /\ UNCHANGED phase

Return ==
  /\ phase = "deciding"
  /\ phase' = "returned"
  /\ UNCHANGED <<verified, halted>>

Next == Start \/ Harmless \/ FatalFailure \/ Undecidable \/ Return

Spec == Init /\ [][Next]_vvars

=============================================================================
