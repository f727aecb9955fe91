-------------------------------- MODULE Seat --------------------------------
(***************************************************************************)
(* Key repeat (seat.c).  Every seat has at most one keyboard object and    *)
(* one repeat timer; the keymap is shared by all seats.  The compositor    *)
(* speaks to all keyboards over one connection, "queue"; an event names    *)
(* the keyboard object it was sent to, and libwayland drops it when the    *)
(* object has been released meanwhile.                                     *)
(*                                                                         *)
(* An iteration of the event loop dispatches the events read from the      *)
(* connection, then traverses the timers.  A timer added with a negative   *)
(* delay has expired at the next traversal, any other may have.  What a    *)
(* key does is in MainProcess, and so are modifiers.                       *)
(***************************************************************************)
EXTENDS Integers, Sequences

CONSTANTS
  Seats, Keys,
  None,         \* NULL
  Rates,        \* keys per second that the compositor may announce
  Delay,        \* repeat_delay_ms it announces
  MaxChanges    \* bound: things the user and the compositor do

ASSUME SeatAssumption ==
  /\ Rates \subseteq Int
  /\ Delay \in Nat
  /\ MaxChanges \in Nat
  /\ None \notin Keys

VARIABLES
  keyboard,  \* number of the seat's keyboard object, 0 for NULL
  created,   \* number of the last keyboard object of the seat
  period,    \* repeat_period_ms
  timer,     \* repeat_timer: the key and its delay, or None for NULL
  keymap,    \* xkb.state is not NULL
  batch,     \* events read that the iteration still has to dispatch
  visit,     \* timers the traversal still has to look at, by their seat
  phase,     \* "poll", "fds" or "timers"; "exited" when the process has ended
  queue,     \* the connection
  bound,     \* the keyboard object the compositor sends to, 0 for none
  has,       \* the seat has a keyboard
  focus,     \* the seat's keyboard focus is on a lock surface
  held,      \* keys the user holds down
  rate,      \* the compositor's repeat rate
  changes,
  down,      \* keys the client was told are down and not told are up
  deaf       \* seats with a release that came while there was no keymap

loopVars == <<batch, visit, phase>>
compVars == <<bound, has, focus, held, rate, changes>>
seatVars == <<keyboard, created, period, timer, keymap>>
vars == <<seatVars, loopVars, queue, compVars, down, deaf>>

Event(s, kind, value) ==
  [seat |-> s, to |-> bound[s], kind |-> kind, value |-> value]
Capabilities(s, b)    == [seat |-> s, to |-> 0, kind |-> "capabilities", value |-> b]
KeyEvent(s, k, p)     == Event(s, IF p THEN "press" ELSE "release", k)

\* Keys per second -> milliseconds between keys.  A rate above 1000 makes the
\* period zero, as it is until the first event: no key repeats.
Period(r) == IF r <= 0 THEN -1 ELSE 1000 \div r

\* As the start-up leaves them: every seat with its keyboard, keymap and rate.
Init ==
  /\ keyboard = [s \in Seats |-> 1] /\ created = keyboard /\ bound = keyboard
  /\ rate \in [Seats -> Rates]
  /\ period = [s \in Seats |-> Period(rate[s])]
  /\ timer = [s \in Seats |-> None]
  /\ keymap = TRUE
  /\ batch = 0 /\ visit = {} /\ phase = "poll"
  /\ queue = <<>>
  /\ has = [s \in Seats |-> TRUE] /\ focus = has
  /\ held = [s \in Seats |-> {}] /\ down = held
  /\ changes = 0
  /\ deaf = {}

-----------------------------------------------------------------------------
\* Mutant: the new timer is put where the traversal will come by.
loop_add_timer_tail(s, k, ms, rest) ==
  /\ timer' = [timer EXCEPT ![s] = [key |-> k, ms |-> ms]]
  /\ visit' = rest \cup {s}

\* loop_add_timer() puts the timer at the head of the list: a traversal that
\* is under way, with the rest still before it, does not see it.
loop_add_timer(s, k, ms, rest) ==
  /\ timer' = [timer EXCEPT ![s] = [key |-> k, ms |-> ms]]
  /\ visit' = rest

loop_remove_timer(s) ==
  /\ timer' = [timer EXCEPT ![s] = None]
  /\ UNCHANGED visit

KeyPressed(s, k) ==
  /\ IF period[s] > 0 THEN loop_add_timer(s, k, Delay, visit)
     ELSE loop_remove_timer(s)
  /\ deaf' = deaf \ {s}

\* Mutant: a seat without repetition is taken to have no timer.
KeyReleased_rate(s) ==
  IF period[s] > 0 THEN loop_remove_timer(s) /\ deaf' = deaf \ {s}
  ELSE UNCHANGED <<timer, visit, deaf>>

\* The release of any key ends the repetition.
KeyReleased(s) ==
  /\ loop_remove_timer(s)
  /\ deaf' = deaf \ {s}

\* Without a keymap a key event, a release too, is ignored.
keyboard_key(s, k, pressed) ==
  /\ down' = [down EXCEPT ![s] = IF pressed THEN @ \cup {k} ELSE @ \ {k}]
  /\ IF keymap THEN IF pressed THEN KeyPressed(s, k) ELSE KeyReleased(s)
     ELSE /\ deaf' = IF pressed THEN deaf ELSE deaf \cup {s}
          /\ UNCHANGED <<timer, visit>>
  /\ UNCHANGED <<keyboard, created, period, keymap, phase>>

\* The keymap of the seat that spoke last serves all seats.  The format
\* NO_KEYMAP (~xkb) leaves none; a keymap that cannot be mapped into memory or
\* compiled ends the process, by exit() or by an assertion.
keyboard_keymap(xkb) ==
  /\ \/ keymap' = xkb /\ UNCHANGED phase
     \/ xkb /\ phase' = "exited" /\ UNCHANGED keymap
  /\ UNCHANGED <<keyboard, created, period, timer, visit, down, deaf>>

keyboard_repeat_info(s, r) ==
  /\ period' = [period EXCEPT ![s] = Period(r)]
  /\ UNCHANGED <<keyboard, created, timer, keymap, visit, phase, down, deaf>>

\* keyboard_enter(), keyboard_leave().
Ignored == UNCHANGED <<seatVars, visit, phase, down, deaf>>

\* The keyboard is released, and a new one requested if there is one; the
\* timer is left alone.
seat_handle_capabilities(s, b) ==
  /\ keyboard' = [keyboard EXCEPT ![s] = IF b THEN created[s] + 1 ELSE 0]
  /\ created' = [created EXCEPT ![s] = IF b THEN @ + 1 ELSE @]
  /\ UNCHANGED <<period, timer, keymap, visit, phase, down, deaf>>

\* wl_display_dispatch() calls the listener of one event.
Dispatch ==
  /\ phase = "fds" /\ batch > 0
  /\ batch' = batch - 1
  /\ queue' = Tail(queue)
  /\ LET e == Head(queue) IN
     IF e.kind = "capabilities" THEN seat_handle_capabilities(e.seat, e.value)
     ELSE IF e.to # keyboard[e.seat] THEN Ignored
     ELSE CASE e.kind = "keymap"      -> keyboard_keymap(e.value)
            [] e.kind = "repeat_info" -> keyboard_repeat_info(e.seat, e.value)
            [] e.kind = "press"       -> keyboard_key(e.seat, e.value, TRUE)
            [] e.kind = "release"     -> keyboard_key(e.seat, e.value, FALSE)
            [] OTHER                  -> Ignored
  /\ UNCHANGED compVars

-----------------------------------------------------------------------------
\* loop_poll(): what has been received so far is dispatched, in one go.
Poll ==
  /\ phase = "poll"
  /\ queue # <<>> \/ \E s \in Seats : timer[s] # None
  /\ phase' = "fds"
  /\ batch' = Len(queue)
  /\ UNCHANGED <<seatVars, visit, queue, compVars, down, deaf>>

Traverse ==
  /\ phase = "fds" /\ batch = 0
  /\ visit' = {s \in Seats : timer[s] # None}
  /\ phase' = "timers"
  /\ UNCHANGED <<seatVars, batch, queue, compVars, down, deaf>>

\* keyboard_repeat(): the timer that fired is replaced by one with the
\* period as it is now.
keyboard_repeat(s) ==
  /\ phase = "timers" /\ s \in visit
  /\ loop_add_timer(s, timer[s].key, period[s], visit \ {s})
  /\ UNCHANGED <<keyboard, created, period, keymap, batch, phase, queue,
                 compVars, down, deaf>>

NotYet(s) ==
  /\ phase = "timers" /\ s \in visit
  /\ timer[s].ms >= 0
  /\ visit' = visit \ {s}
  /\ UNCHANGED <<seatVars, batch, phase, queue, compVars, down, deaf>>

Traversed ==
  /\ phase = "timers" /\ visit = {}
  /\ phase' = "poll"
  /\ UNCHANGED <<seatVars, batch, visit, queue, compVars, down, deaf>>

LoopStep ==
  \/ Poll \/ Dispatch \/ Traverse \/ Traversed
  \/ \E s \in Seats : keyboard_repeat(s) \/ NotYet(s)

-----------------------------------------------------------------------------
\* The user and the compositor.  Events go to the keyboard object that the
\* compositor knows, key events only while a lock surface has the focus.

Change ==
  /\ phase # "exited"
  /\ changes < MaxChanges
  /\ changes' = changes + 1
  /\ UNCHANGED <<seatVars, loopVars, down, deaf>>

\* What is sent to the seat's keyboard, if the compositor knows one.
Send(s, events) ==
  queue' = IF bound[s] # 0 THEN queue \o events ELSE queue

UserKey(s, k) ==
  /\ Change
  /\ has[s]
  /\ held' = [held EXCEPT ![s] = IF k \in @ THEN @ \ {k} ELSE @ \cup {k}]
  /\ IF focus[s] THEN Send(s, <<KeyEvent(s, k, k \notin held[s])>>)
     ELSE UNCHANGED queue
  /\ UNCHANGED <<bound, has, focus, rate>>

MoveFocus(s) ==
  /\ Change
  /\ focus' = [focus EXCEPT ![s] = ~@]
  /\ Send(s, <<Event(s, IF focus[s] THEN "leave" ELSE "enter", None)>>)
  /\ UNCHANGED <<bound, has, held, rate>>

SetKeymap(s, b) ==
  /\ Change
  /\ Send(s, <<Event(s, "keymap", b)>>)
  /\ UNCHANGED <<bound, has, focus, held, rate>>

SetRate(s, r) ==
  /\ Change
  /\ rate' = [rate EXCEPT ![s] = r]
  /\ Send(s, <<Event(s, "repeat_info", r)>>)
  /\ UNCHANGED <<bound, has, focus, held>>

\* A keyboard or a pointer is plugged in or taken away.
SetCapabilities(s, b) ==
  /\ Change
  /\ has' = [has EXCEPT ![s] = b]
  /\ bound' = [bound EXCEPT ![s] = IF b THEN @ ELSE 0]
  /\ held' = [held EXCEPT ![s] = IF b THEN @ ELSE {}]
  /\ queue' = Append(queue, Capabilities(s, b))
  /\ UNCHANGED <<focus, rate>>

\* The compositor reads the client's request for a keyboard.
GetKeyboard(s) ==
  /\ phase # "exited"
  /\ has[s] /\ keyboard[s] > bound[s]
  /\ bound' = [bound EXCEPT ![s] = keyboard[s]]
  /\ queue' = queue \o <<[Event(s, "keymap", TRUE) EXCEPT !.to = keyboard[s]],
                         [Event(s, "repeat_info", rate[s]) EXCEPT !.to = keyboard[s]]>>
  /\ UNCHANGED <<seatVars, loopVars, has, focus, held, rate, changes, down, deaf>>

Next ==
  \/ LoopStep
  \/ \E s \in Seats :
       \/ \E k \in Keys : UserKey(s, k)
       \/ MoveFocus(s)
       \/ \E b \in BOOLEAN : SetKeymap(s, b) \/ SetCapabilities(s, b)
       \/ \E r \in Rates \ {rate[s]} : SetRate(s, r)
       \/ GetKeyboard(s)

\* The process goes on.
Spec == Init /\ [][Next]_vars /\ WF_vars(LoopStep)

-----------------------------------------------------------------------------
(***************************************************************************)
(* keyboard_key() cancels the timer on every key event, whatever its key:  *)
(* a key repeats only while the client has not been told that it is up, or *)
(* because it was told while no seat's keymap was known.  (Keyboards that  *)
(* lose the focus or are taken away with a key down do not tell.)          *)
(***************************************************************************)
RepeatJustified ==
  \A s \in Seats :
    timer[s] # None => timer[s].key \in down[s] \/ s \in deaf

(***************************************************************************)
(* A release that is on its way ends the repetition, also when the rate    *)
(* became zero meanwhile and the timer is armed again with -1 ms each time *)
(* it fires: the loop comes back to its descriptors.                       *)
(***************************************************************************)
ReleaseStops ==
  \A s \in Seats, g \in 1 .. MaxChanges + 1 :
    (\E i \in DOMAIN queue : queue[i].seat = s /\ queue[i].kind = "release"
                             /\ queue[i].to = g)
      ~> (timer[s] = None \/ keyboard[s] # g \/ s \in deaf \/ phase = "exited")

=============================================================================
