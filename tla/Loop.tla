-------------------------------- MODULE Loop --------------------------------
(***************************************************************************)
(* The timers of the event loop (loop.c): a linked list of timers, each    *)
(* with an expiry in seconds and nanoseconds.  A timer that is removed is  *)
(* only marked, and freed when the next traversal comes by, because the    *)
(* code that removes it may itself run inside a traversal                  *)
(* (wl_list_for_each_safe, which remembers the element after the current   *)
(* one).                                                                   *)
(*                                                                         *)
(* The users of the loop are the timers of password.c and the key repeat   *)
(* of seat.c.  Each keeps one pointer, removes the timer it points to      *)
(* before it adds another, and clears or replaces it as the first thing in *)
(* its callback.  Freed memory is used again: a new timer takes the lowest *)
(* address that is not in the list.                                        *)
(***************************************************************************)
EXTENDS Integers, Sequences, FiniteSetsExt

CONSTANTS
  User,       \* password_clear, input_idle, auth_idle, repeat
  None,       \* NULL
  Delays,     \* milliseconds a timer may be added with
  MsPerSec,   \* 1000 in the code
  NsPerMs,    \* 1000000 in the code
  Addresses,  \* bound: where timers may be allocated
  MaxTime     \* bound: nanoseconds the clock advances

ASSUME LoopAssumption ==
  /\ None \notin User \cup Int
  /\ Delays \subseteq Int
  /\ MsPerSec \in Nat \ {0}
  /\ NsPerMs \in Nat \ {0}
  /\ Addresses \subseteq Nat
  /\ MaxTime \in Nat

VARIABLES
  now,      \* CLOCK_MONOTONIC, in nanoseconds
  timers,   \* the list, first element first
  pointer,  \* the address each user remembers, or None
  phase,    \* where loop_poll() is
  wake,     \* when poll() returns at the latest, or None
  seen,     \* the clock as read before the traversal
  cur, nxt  \* the traversal: timer and tmp_timer, None at the end of the list

vars == <<now, timers, pointer, phase, wake, seen, cur, nxt>>

\* "flush": outside loop_poll(); "poll": asleep; "fds": callbacks of descriptors
\* run; "walk": the list is traversed; "call": a timer's callback runs; "exited":
\* the process has ended.
Phase == {"flush", "poll", "fds", "walk", "call", "exited"}

Init ==
  /\ now = 0
  /\ timers = <<>>
  /\ pointer = [u \in User |-> None]
  /\ phase = "flush"
  /\ wake = None
  /\ seen = 0
  /\ cur = None
  /\ nxt = None

-----------------------------------------------------------------------------
\* struct timespec, and the integer division of C, which rounds towards zero.

NsPerSec   == MsPerSec * NsPerMs
Sec(t)     == t \div NsPerSec
Nsec(t)    == t % NsPerSec
CDiv(a, b) == IF a >= 0 THEN a \div b ELSE -((-a) \div b)
CMod(a, b) == a - b * CDiv(a, b)

\* Mutant: nanoseconds are added without a carry.
Expiry_no_carry(t, ms) ==
  [sec  |-> Sec(t) + CDiv(ms, MsPerSec),
   nsec |-> (Nsec(t) + CMod(ms, MsPerSec) * NsPerMs) % NsPerSec]

\* loop_add_timer(): ms after t, with the carry of the nanoseconds.
Expiry(t, ms) ==
  LET nsec  == CMod(ms, MsPerSec) * NsPerMs
      carry == Nsec(t) + nsec >= NsPerSec
  IN  [sec  |-> Sec(t) + CDiv(ms, MsPerSec) + (IF carry THEN 1 ELSE 0),
       nsec |-> Nsec(t) + nsec - (IF carry THEN NsPerSec ELSE 0)]

\* loop_poll(): milliseconds from t to an expiry...
MsUntil(e, t) ==
  (e.sec - Sec(t)) * MsPerSec + CDiv(e.nsec - Nsec(t), NsPerMs)

\* Mutant: within the same second nanoseconds are not compared.
IsPast_seconds(e, t) == e.sec <= Sec(t)

\* ... and whether it has passed.
IsPast(e, t) ==
  \/ e.sec < Sec(t)
  \/ e.sec = Sec(t) /\ e.nsec < Nsec(t)

-----------------------------------------------------------------------------
\* The list.

Indices    == 1 .. Len(timers)
InList     == {timers[i].address : i \in Indices}
Index(a)   == CHOOSE i \in Indices : timers[i].address = a
Timer(a)   == timers[Index(a)]

\* The element after address a in list s, None after the last.
After(s, a) ==
  LET later == {i \in 2 .. Len(s) : s[i - 1].address = a}
  IN  IF later = {} THEN None ELSE s[CHOOSE i \in later : TRUE].address

\* wl_list_remove() of the element at address a.
Without(s, a) ==
  LET k == CHOOSE i \in DOMAIN s : s[i].address = a
  IN  [i \in 1 .. Len(s) - 1 |-> s[IF i < k THEN i ELSE i + 1]]

\* A timer is new at the head of list s.
Added(s, u, ms, a) ==
  <<[address |-> a, user |-> u, removed |-> FALSE, expiry |-> Expiry(now, ms),
     asked |-> now + ms * NsPerMs]>> \o s

\* loop_remove_timer() marks the timer if it finds it.
Removed(s, a) ==
  [i \in DOMAIN s |-> IF s[i].address = a THEN [s[i] EXCEPT !.removed = TRUE]
                                          ELSE s[i]]

Free == Addresses \ InList

-----------------------------------------------------------------------------
\* What callbacks do with their timers.

InCallback == phase \in {"fds", "call"}

\* schedule_...(), keyboard_key(): the old timer is removed, a new one added.
ScheduleTimer(u, ms) ==
  /\ InCallback
  /\ Free # {}
  /\ timers' = Added(Removed(timers, pointer[u]), u, ms, Min(Free))
  /\ pointer' = [pointer EXCEPT ![u] = Min(Free)]
  /\ UNCHANGED <<now, phase, wake, seen, cur, nxt>>

\* Mutant: the timer is freed at once.
CancelTimer_frees(u) ==
  /\ InCallback
  /\ pointer[u] # None
  /\ timers' = Without(timers, pointer[u])
  /\ pointer' = [pointer EXCEPT ![u] = None]
  /\ UNCHANGED <<now, phase, wake, seen, cur, nxt>>

\* cancel_...(), keyboard_key()
CancelTimer(u) ==
  /\ InCallback
  /\ pointer[u] # None
  /\ timers' = Removed(timers, pointer[u])
  /\ pointer' = [pointer EXCEPT ![u] = None]
  /\ UNCHANGED <<now, phase, wake, seen, cur, nxt>>

-----------------------------------------------------------------------------
\* loop_poll()

\* Mutant: a negative timeout is handed to poll(), which then waits for ever.
Sleep_unclamped ==
  LET ms == {MsUntil(timers[i].expiry, now) : i \in Indices}
  IN  /\ phase = "flush"
      /\ phase' = "poll"
      /\ wake' = IF ms = {} \/ \E m \in ms : m < 0
                   THEN None ELSE now + Min(ms) * NsPerMs
      /\ UNCHANGED <<now, timers, pointer, seen, cur, nxt>>

\* The time to sleep: up to the first expiry, removed timers included.
Sleep ==
  LET ms == {MsUntil(timers[i].expiry, now) : i \in Indices}
  IN  /\ phase = "flush"
      /\ phase' = "poll"
      /\ wake' = IF ms = {} THEN None ELSE now + Max({0, Min(ms)}) * NsPerMs
      /\ UNCHANGED <<now, timers, pointer, seen, cur, nxt>>

\* poll() returns: a descriptor is ready, at any time, or the time is up, or a
\* signal came.
Wake ==
  /\ phase = "poll"
  /\ phase' = "fds"
  /\ wake' = None
  /\ UNCHANGED <<now, timers, pointer, seen, cur, nxt>>

\* poll() fails, and not because of a signal.
PollFailed ==
  /\ phase = "poll"
  /\ phase' = "exited"
  /\ UNCHANGED <<now, timers, pointer, wake, seen, cur, nxt>>

\* The traversal begins.
Walk ==
  /\ phase = "fds"
  /\ seen' = now
  /\ IF timers = <<>>
       THEN phase' = "flush" /\ UNCHANGED <<cur, nxt>>
       ELSE /\ phase' = "walk"
            /\ cur' = timers[1].address
            /\ nxt' = After(timers, timers[1].address)
  /\ UNCHANGED <<now, timers, pointer, wake>>

\* timer = tmp_timer, and tmp_timer the one after it in the list as it is now.
Advance ==
  /\ cur' = nxt
  /\ nxt' = IF nxt = None THEN None ELSE After(timers', nxt)
  /\ phase' = IF nxt = None THEN "flush" ELSE "walk"

\* A timer that was removed is freed.
Reap ==
  /\ phase = "walk"
  /\ Timer(cur).removed
  /\ timers' = Without(timers, cur)
  /\ Advance
  /\ UNCHANGED <<now, pointer, wake, seen>>

Skip ==
  /\ phase = "walk"
  /\ ~Timer(cur).removed
  /\ ~IsPast(Timer(cur).expiry, seen)
  /\ UNCHANGED timers
  /\ Advance
  /\ UNCHANGED <<now, pointer, wake, seen>>

\* Mutant: the callback leaves the user's pointer as it is.
Fire_keeps_pointer ==
  /\ phase = "walk"
  /\ ~Timer(cur).removed
  /\ IsPast(Timer(cur).expiry, seen)
  /\ phase' = "call"
  /\ UNCHANGED <<now, timers, pointer, wake, seen, cur, nxt>>

\* The callback is called; it clears the user's pointer, and what else it does
\* are steps of their own...
Fire ==
  /\ phase = "walk"
  /\ ~Timer(cur).removed
  /\ IsPast(Timer(cur).expiry, seen)
  /\ phase' = "call"
  /\ pointer' = [pointer EXCEPT ![Timer(cur).user] = None]
  /\ UNCHANGED <<now, timers, wake, seen, cur, nxt>>

\* ... until it returns, and the timer is freed.
CallbackReturns ==
  /\ phase = "call"
  /\ timers' = Without(timers, cur)
  /\ Advance
  /\ UNCHANGED <<now, pointer, wake, seen>>

\* The clock advances at any time, but poll() does not oversleep.
Tick ==
  /\ now < MaxTime
  /\ phase = "poll" /\ wake # None => now < wake
  /\ now' = now + 1
  /\ UNCHANGED <<timers, pointer, phase, wake, seen, cur, nxt>>

\* After exit() nothing more happens.
Ended == phase = "exited" /\ UNCHANGED vars

Next ==
  \/ \E u \in User : CancelTimer(u) \/ \E ms \in Delays : ScheduleTimer(u, ms)
  \/ Sleep \/ Wake \/ PollFailed \/ Walk \/ Reap \/ Skip \/ Fire \/ CallbackReturns
  \/ Tick \/ Ended

Spec == Init /\ [][Next]_vars

-----------------------------------------------------------------------------
Running == IF phase = "call" THEN Timer(cur).user ELSE None

\* The live timers: neither removed nor being called.
Live == {i \in Indices : ~timers[i].removed
                           /\ ~(phase = "call" /\ timers[i].address = cur)}

(***************************************************************************)
(* Pointers and list agree: what a user remembers is a live timer of its   *)
(* own and no live timer is without its user, so that a pointer never      *)
(* dangles and loop_remove_timer() never hits a stranger that was          *)
(* allocated at the address of a timer freed before.                       *)
(***************************************************************************)
PointersLive ==
  /\ \A u \in User : pointer[u] # None =>
       \E i \in Live : timers[i].address = pointer[u] /\ timers[i].user = u
  /\ \A i \in Live : pointer[timers[i].user] = timers[i].address

(***************************************************************************)
(* The traversal touches no freed memory: the current timer and the one    *)
(* remembered as next are in the list, whatever the callback removes or    *)
(* adds.                                                                   *)
(***************************************************************************)
TraversalSafe ==
  phase \in {"walk", "call"} => cur \in InList /\ nxt \in InList \cup {None}

(***************************************************************************)
(* An expiry is the instant that was asked for, and the nanoseconds of a   *)
(* delay that is not negative are normalised (as IsPast and the kernel     *)
(* need them).                                                             *)
(***************************************************************************)
ExpiryExact ==
  \A i \in Indices :
    LET e == timers[i].expiry
    IN  /\ e.sec * NsPerSec + e.nsec = timers[i].asked
        /\ Delays \subseteq Nat => e.nsec \in 0 .. NsPerSec - 1

(***************************************************************************)
(* poll() sleeps past no live timer by a millisecond or more, although the *)
(* time left is computed from two divisions that round towards zero.       *)
(***************************************************************************)
SleepsNoLonger ==
  phase = "poll" =>
    \A i \in Live : wake # None /\ (wake < timers[i].asked + NsPerMs
                                    \/ wake <= now)

\* The loop as its users see it: when the timer of each is due, or None.
Due ==
  [u \in User |->
     IF \E i \in Live : timers[i].user = u
       THEN timers[CHOOSE i \in Live : timers[i].user = u].asked
       ELSE None]

Promise == INSTANCE TimerSet WITH due <- Due, running <- Running

\* The list, the marks and the traversal implement one timer per user.
KeepsPromise == Promise!TimerSetSpec

=============================================================================
