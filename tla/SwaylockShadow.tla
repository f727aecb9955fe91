--------------------------- MODULE SwaylockShadow ---------------------------
(***************************************************************************)
(* swaylock with the shadow backend: the main process and the child that   *)
(* compares passwords.                                                     *)
(***************************************************************************)
EXTENDS MainProcess, ShadowChild, FiniteSets

vars == <<mainVars, shadowVars, to_child, to_main>>

Init ==
  /\ CommInit("wait")
  /\ MainInit
  /\ ShadowInit

MainStep  == MainNext /\ UNCHANGED <<matched, denials>>
ChildStep == ShadowNext /\ UNCHANGED mainVars

Next == MainStep \/ ChildStep

Spec == Init /\ [][Next]_vars

\* Both processes are scheduled, and the clock ticks.
Fairness ==
  /\ WF_vars(MainRuns /\ UNCHANGED shadowVars)
  /\ WF_vars(ChildStep)
  /\ \A k \in TimerKind : SF_vars(Expire(k) /\ UNCHANGED shadowVars)

FairSpec == Spec /\ Fairness

-----------------------------------------------------------------------------
Answers(ok) == {i \in DOMAIN to_main : to_main[i] = ResultFrame(ok)}
One(b)      == IF b THEN 1 ELSE 0

(***************************************************************************)
(* The failure counter counts each wrong password once: it lags behind the *)
(* child by the answers that have not been read.                           *)
(***************************************************************************)
CountExact == MainUp => failed_attempts + Cardinality(Answers(FALSE)) = denials

(***************************************************************************)
(* No password is lost or answered twice: those submitted are in the pipe, *)
(* being hashed, were found wrong or, once, right (a match is the child's  *)
(* last answer).                                                           *)
(***************************************************************************)
OneAnswerEach ==
  ChildUp => submits = Len(to_child) + One(child = "crypt") + One(matched)
                         + denials

\* The locker as its user sees it.
Verdict == matched \/ sigusr

Lock == INSTANCE LockScreen WITH verdict <- Verdict, locker <- MainUp

\* The session is unlocked only after a match or SIGUSR1, and then it is.
Implements     == Lock!LockSafety
ImplementsFair == Lock!LockSpec

\* "Verifying" ends.
VerifyingEnds ==
  auth_state = "VALIDATING" ~> (auth_state # "VALIDATING" \/ ~MainUp)

\* The child does not outlive the main process.
NoOrphan == ~MainUp ~> ~ChildUp

=============================================================================
