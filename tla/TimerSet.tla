------------------------------ MODULE TimerSet ------------------------------
(***************************************************************************)
(* What the loop promises of timers: each user has at most one; it can be  *)
(* scheduled anew or cancelled by any callback, and its own callback runs  *)
(* once, after it was due, unless it was cancelled before that.            *)
(***************************************************************************)
EXTENDS Integers

CONSTANTS User, None

VARIABLES
  now,       \* the monotonic clock
  due,       \* when the timer of each user is due, or None
  running    \* the user whose timer's callback runs, or None

timerSetVars == <<now, due, running>>

TimerSetInit ==
  /\ now = 0
  /\ due = [u \in User |-> None]
  /\ running = None

\* Only the timer of u is concerned.
Only(u) == due' = [due EXCEPT ![u] = due'[u]]

\* The timer of u is scheduled or cancelled.
Change(u) == Only(u) /\ UNCHANGED <<now, running>>

\* It is due: its callback starts, and may leave a new timer behind.
Call(u) ==
  /\ running = None
  /\ due[u] # None
  /\ now > due[u]
  /\ running' = u
  /\ Only(u)
  /\ UNCHANGED now

Finish ==
  /\ running # None
  /\ running' = None
  /\ UNCHANGED <<now, due>>

Pass == now' > now /\ UNCHANGED <<due, running>>

TimerSetNext ==
  \/ \E u \in User : Change(u) \/ Call(u)
  \/ Finish
  \/ Pass

TimerSetSpec == TimerSetInit /\ [][TimerSetNext]_timerSetVars

=============================================================================
