------------------------------ MODULE Swaylock ------------------------------
(***************************************************************************)
(* swaylock with the PAM backend: the main process and the child, joined   *)
(* by the two pipes.  Their steps interleave freely.                       *)
(***************************************************************************)
EXTENDS MainProcess, PamChild

vars == <<mainVars, childVars, to_child, to_main>>

Init ==
  /\ CommInit("auth")
  /\ MainInit
  /\ PamInit

MainStep ==
  MainNext /\ UNCHANGED <<pam_status, user_selected_sent, judging, denials,
                          events>>

ChildStep == ChildNext /\ UNCHANGED mainVars

Next == MainStep \/ ChildStep

Spec == Init /\ [][Next]_vars

(***************************************************************************)
(* The scheduler runs both processes.  PAM goes on: it prompts or returns, *)
(* and it does not keep talking to authd for ever.  Time passes: a timer   *)
(* that stays armed is found expired.  Nothing is assumed of the user.     *)
(***************************************************************************)
ChildRuns ==
  \/ PamPrompt \/ PromptRead \/ GdmPoll \/ ReportResult \/ PamEnd
  \/ \E e \in Events : GdmEvent(e) \/ GdmEventUnsent(e)
  \/ \E status \in PamErrors \cup {"SUCCESS"} : PamReturn(status)

Fairness ==
  /\ WF_vars(MainRuns /\ UNCHANGED childVars)
  /\ WF_vars(ChildRuns /\ UNCHANGED mainVars)
  /\ \A k \in TimerKind : SF_vars(Expire(k) /\ UNCHANGED childVars)

FairSpec == Spec /\ Fairness

-----------------------------------------------------------------------------
TypeOK == CommTypeOK /\ MainTypeOK /\ PamTypeOK

Verdict == pam_status = "SUCCESS" \/ sigusr

(***************************************************************************)
(* The session is unlocked only if pam_authenticate() returned PAM_SUCCESS *)
(* or SIGUSR1 was received, whatever crashes, closes or arrives late.      *)
(***************************************************************************)
UnlockJustified == session = "unlocked" => Verdict

(***************************************************************************)
(* Why UnlockJustified holds: a positive result in the pipe was written    *)
(* after PAM_SUCCESS, which is the child's last word, and the loop ends    *)
(* only on such a result, on SIGUSR1, or without a display to unlock with. *)
(***************************************************************************)
LockInv ==
  /\ \A i \in DOMAIN to_main :
       to_main[i] = ResultFrame(TRUE) => pam_status = "SUCCESS"
  /\ pam_status = "SUCCESS" => child \in {"report", "end"} \cup ChildGone
  /\ ~run_display => Verdict \/ ~display_up
  /\ UnlockJustified

(***************************************************************************)
(* "Verifying" is shown only while an answer can still come: the password  *)
(* is on its way, PAM has it, PAM has returned, or a frame that ends       *)
(* VALIDATING is on its way back.                                          *)
(***************************************************************************)
NoStuckVerifying ==
  MainUp /\ run_display /\ auth_state = "VALIDATING" =>
    \/ PasswordFrame \in {to_child[i] : i \in DOMAIN to_child}
    \/ judging
    \/ child \in {"report", "end"} \cup ChildGone
    \/ \E i \in DOMAIN to_main : to_main[i].type # "LIST"

(***************************************************************************)
(* The counter shown with -F never exceeds the number of times that PAM    *)
(* refused somebody.  This does not hold: a STAGE frame that crosses a     *)
(* submission is counted too.                                              *)
(***************************************************************************)
CountIsHonest == failed_attempts <= denials

\* The auth_idle timer ends the message "Wrong" and nothing else.
AuthTimerEndsWrong == [][set_auth_idle => auth_state # "VALIDATING"]_vars

-----------------------------------------------------------------------------
\* The locker as its user sees it.

Lock == INSTANCE LockScreen WITH verdict <- Verdict, locker <- MainUp

Implements     == Lock!LockSafety
ImplementsFair == Lock!LockSpec

(***************************************************************************)
(* A positive result in the pipe unlocks the session; only the loss of the *)
(* display or death by SIGPIPE can come first, never the hang-up of the    *)
(* child that wrote it.                                                    *)
(***************************************************************************)
GrantUnlocks ==
  (MainUp /\ \E i \in DOMAIN to_main : to_main[i] = ResultFrame(TRUE))
    ~> (session = "unlocked" \/ ~display_up \/ main = "killed")

\* "Verifying" ends.
VerifyingEnds ==
  auth_state = "VALIDATING" ~> (auth_state # "VALIDATING" \/ ~MainUp)

\* Once typing stops for good, a password left in the buffer is forgotten.
PasswordForgotten ==
  <>[][~KeyEvent]_vars => <>[](password_len = 0 \/ ~MainUp)

\* The child does not outlive the main process.
NoOrphan == ~MainUp ~> ~ChildUp

=============================================================================
