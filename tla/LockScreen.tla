----------------------------- MODULE LockScreen -----------------------------
(***************************************************************************)
(* What a screen locker promises: the session stays locked until there is  *)
(* a verdict that it may be unlocked, and the locker may go away without   *)
(* one, leaving the session locked.  After a verdict it does not linger.   *)
(***************************************************************************)

VARIABLES
  session,   \* "locked" or "unlocked", in the eyes of the compositor
  verdict,   \* somebody entitled to it said that the session be unlocked
  locker     \* the locker is running

lockVars == <<session, verdict, locker>>

LockInit ==
  /\ session = "locked"
  /\ verdict = FALSE
  /\ locker = TRUE

Grant ==
  /\ ~verdict
  /\ verdict' = TRUE
  /\ UNCHANGED <<session, locker>>

Unlock ==
  /\ locker
  /\ verdict
  /\ session' = "unlocked"
  /\ locker' = FALSE
  /\ UNCHANGED verdict

Quit ==
  /\ locker
  /\ locker' = FALSE
  /\ UNCHANGED <<session, verdict>>

LockNext == Grant \/ Unlock \/ Quit

LockSafety == LockInit /\ [][LockNext]_lockVars

LockSpec == LockSafety /\ WF_lockVars(verdict /\ (Unlock \/ Quit))

=============================================================================
