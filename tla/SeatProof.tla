----------------------------- MODULE SeatProof -----------------------------
(***************************************************************************)
(* A key repeats only for a reason: for any number of seats and keys, any  *)
(* repeat rates, and keyboards that come and go.                           *)
(***************************************************************************)
EXTENDS Seat, TLAPS

\* Timers are looked at only during a traversal, and a seat's timer that the
\* traversal has yet to look at is still there.
TraversalInv ==
  /\ phase # "timers" => visit = {}
  /\ visit \subseteq {s \in Seats : timer[s] # None}

\* Only the keyboard listener changes these, one seat at a time.
SeatTypeOK ==
  /\ DOMAIN timer = Seats /\ timer = [s \in Seats |-> timer[s]]
  /\ DOMAIN down = Seats /\ down = [s \in Seats |-> down[s]]

SeatInv == SeatTypeOK /\ TraversalInv /\ RepeatJustified

\* The steps of the user and of the compositor leave the client alone.
LEMMA OutsideKeeps ==
  ASSUME SeatInv, UNCHANGED <<timer, visit, phase, down, deaf>>
  PROVE  SeatInv'
BY DEF SeatInv, SeatTypeOK, TraversalInv, RepeatJustified

\* A keymap that cannot be used ends the process and leaves the rest alone.
LEMMA ClientKept ==
  ASSUME SeatInv, phase = "fds", phase' \in {phase, "exited"},
         UNCHANGED <<timer, visit, down, deaf>>
  PROVE  SeatInv'
BY DEF SeatInv, SeatTypeOK, TraversalInv, RepeatJustified

\* A key event, with or without a keymap.
LEMMA KeyKeeps ==
  ASSUME SeatInv, NEW s, NEW k, NEW pressed \in BOOLEAN,
         keyboard_key(s, k, pressed), phase = "fds", UNCHANGED phase
  PROVE  SeatInv'
<1> USE DEF SeatInv, SeatTypeOK, TraversalInv, RepeatJustified
<1>1. visit = {} /\ visit' = {}
  BY DEF keyboard_key, KeyPressed, KeyReleased, loop_add_timer, loop_remove_timer
<1>2. SeatTypeOK'
  BY DEF keyboard_key, KeyPressed, KeyReleased, loop_add_timer, loop_remove_timer
<1>3. ASSUME NEW q \in Seats, timer'[q] # None
      PROVE  timer'[q].key \in down'[q] \/ q \in deaf'
  <2>1. CASE q # s
    BY <1>3, <2>1
    DEF keyboard_key, KeyPressed, KeyReleased, loop_add_timer, loop_remove_timer
  <2>2. CASE q = s /\ keymap /\ pressed
    BY <1>3, <2>2 DEF keyboard_key, KeyPressed, loop_add_timer, loop_remove_timer
  <2>3. CASE q = s /\ keymap /\ ~pressed
    BY <1>3, <2>3 DEF keyboard_key, KeyReleased, loop_remove_timer
  <2>4. CASE q = s /\ ~keymap
    BY <1>3, <2>4 DEF keyboard_key
  <2> QED
    BY <2>1, <2>2, <2>3, <2>4
<1> QED
  BY <1>1, <1>2, <1>3

\* An event is dispatched: a key event, or one that leaves the timers alone.
LEMMA DispatchKeeps ==
  ASSUME SeatInv, Dispatch
  PROVE  SeatInv'
<1> DEFINE e == Head(queue)
<1>1. phase = "fds"
  BY DEF Dispatch
<1>2. \/ keyboard_key(e.seat, e.value, TRUE)
      \/ keyboard_key(e.seat, e.value, FALSE)
      \/ /\ phase' \in {phase, "exited"}
         /\ UNCHANGED <<timer, visit, down, deaf>>
  BY DEF Dispatch, keyboard_keymap, keyboard_repeat_info, Ignored, seatVars,
         seat_handle_capabilities
<1>3. ASSUME NEW pressed \in BOOLEAN, keyboard_key(e.seat, e.value, pressed)
      PROVE  SeatInv'
  <2>1. UNCHANGED phase
    BY <1>3 DEF keyboard_key
  <2> QED BY <1>1, <1>3, <2>1, KeyKeeps
<1> QED
  BY <1>1, <1>2, <1>3, ClientKept

\* A timer that fires is replaced by one for the same key.
LEMMA RepeatKeeps ==
  ASSUME SeatInv, NEW s \in Seats, keyboard_repeat(s)
  PROVE  SeatInv'
BY DEF SeatInv, SeatTypeOK, TraversalInv, RepeatJustified, keyboard_repeat,
       loop_add_timer

\* The other steps of the loop.
LEMMA LoopKeeps ==
  ASSUME SeatInv, Poll \/ Traverse \/ Traversed \/ \E s \in Seats : NotYet(s)
  PROVE  SeatInv'
BY DEF SeatInv, SeatTypeOK, TraversalInv, RepeatJustified, Poll, Traverse,
       Traversed, NotYet, seatVars, loopVars

\* Every reachable state satisfies SeatInv.
THEOREM SeatInvariance == Spec => []SeatInv
<1>1. Init => SeatInv
  BY DEF Init, SeatInv, SeatTypeOK, TraversalInv, RepeatJustified
<1>2. SeatInv /\ [Next]_vars => SeatInv'
  <2> SUFFICES ASSUME SeatInv, [Next]_vars PROVE SeatInv'
    OBVIOUS
  <2>1. CASE LoopStep
    BY <2>1, DispatchKeeps, RepeatKeeps, LoopKeeps DEF LoopStep
  <2>2. CASE UNCHANGED vars
    BY <2>2, OutsideKeeps DEF vars, seatVars, loopVars
  <2>3. ASSUME NEW s \in Seats,
               \/ \E k \in Keys : UserKey(s, k)
               \/ MoveFocus(s)
               \/ \E b \in BOOLEAN : SetKeymap(s, b) \/ SetCapabilities(s, b)
               \/ \E r \in Rates \ {rate[s]} : SetRate(s, r)
               \/ GetKeyboard(s)
        PROVE  SeatInv'
    <3>1. UNCHANGED <<timer, visit, phase, down, deaf>>
      BY <2>3 DEF UserKey, MoveFocus, SetKeymap, SetCapabilities, SetRate,
                  GetKeyboard, Change, seatVars, loopVars
    <3> QED
      BY <3>1, OutsideKeeps
  <2> QED
    BY <2>1, <2>2, <2>3 DEF Next
<1> QED
  BY <1>1, <1>2, PTL DEF Spec

\* keyboard_key() leaves no key repeating that the client knows to be up.
THEOREM RepeatCorrect == Spec => []RepeatJustified
BY SeatInvariance, PTL DEF SeatInv

=============================================================================
