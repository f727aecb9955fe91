---------------------------- MODULE MainProcess ----------------------------
(***************************************************************************)
(* The main process of swaylock once the session is locked: the event loop *)
(* of main(), the key handler of password.c, the frame handler comm_in()   *)
(* and the timers that return the indicator to idle and forget a password  *)
(* that was typed and not submitted.                                       *)
(*                                                                         *)
(* One iteration of the loop is: flush, poll(), then the callbacks of the  *)
(* descriptors that were ready in the order they were added (display,      *)
(* child, SIGUSR1 pipe), then the timers that expired.  "pending" and      *)
(* "expired" hold what the current iteration still has to call; a callback *)
(* runs as one step.  run_display is tested only between iterations, so    *)
(* callbacks go on after it was cleared.                                   *)
(*                                                                         *)
(* Characters are one byte long here, and what they are is left out.  What *)
(* is drawn is the tuple View; colours, fonts and texts are left out.      *)
(***************************************************************************)
EXTENDS Comm

CONSTANTS
  MaxItems,       \* longest list of brokers or modes kept (256 in the code)
  BufferLen,      \* size of the password buffer (1024 in the code)
  IgnoreEmpty,    \* --ignore-empty-password
  KeySyms,        \* the keys of the keyboard
  KeyRepeat,      \* the compositor announced a positive repeat rate
  AllocOutcomes,  \* whether password_buffer_create() and calloc() may fail
  Outside,        \* what else may happen to the process
  MaxSubmits      \* bound: passwords submitted in a behaviour

AllKeySyms == {"Return", "BackSpace", "Escape", "Tab", "Up", "Down",
               "Modifier",      \* shift, control, alt, caps lock...
               "SubmitLetter",  \* m, d, j: with control, they submit
               "ClearLetter",   \* c, u: with control, they clear
               "Letter"}
TextKeys   == {"Tab", "SubmitLetter", "ClearLetter", "Letter"}
NoKey      == "none"

ASSUME MainAssumption ==
  /\ MaxItems \in Nat
  /\ BufferLen \in Nat \ {0}
  /\ IgnoreEmpty \in BOOLEAN
  /\ KeySyms \subseteq AllKeySyms
  /\ KeyRepeat \in BOOLEAN
  /\ AllocOutcomes \subseteq BOOLEAN
  /\ Outside \subseteq {"SIGUSR1", "display lost", "lock finished"}
  /\ MaxSubmits \in Nat

VARIABLES
  pending,          \* callbacks the current iteration still has to make
  run_display,      \* the loop goes on
  sigusr,           \* SIGUSR1 arrived: its pipe is readable
  display_up,       \* the Wayland connection works
  session,          \* what the compositor knows: "locked" or "unlocked"
  auth_state,
  input_state,
  password_len,
  failed_attempts,
  control,          \* xkb.control
  repeat,           \* key of repeat_timer, or NoKey
  timer,            \* is the pointer to the timer set?
  armed,            \* live timers of each kind in the loop's list
  expired,          \* timers the current iteration found expired
  authd_active, authd_stage,
  authd_items,      \* authd_brokers and authd_auth_modes
  authd_sel,        \* authd_sel_broker and authd_sel_auth_mode
  layout_button,    \* authd_layout.button is set
  drawn,            \* View at the last call of damage_state()
  submits           \* history: passwords written to the child

envVars   == <<sigusr, display_up, session>>
seatVars  == <<control, repeat>>
inputVars == <<auth_state, input_state, password_len>>
timerVars == <<timer, armed, expired>>
authdVars == <<authd_active, authd_stage, authd_items, layout_button>>
mainVars  == <<main, pending, run_display, envVars, seatVars, inputVars,
               failed_attempts, timerVars, authdVars, authd_sel, drawn,
               submits>>

TimerKind  == {"input_idle", "auth_idle", "clear_password"}
Callback   == {"display", "comm", "hup", "term", "timers", "repeat"}
AuthState  == {"IDLE", "VALIDATING", "INVALID"}
InputState == {"IDLE", "CLEAR", "LETTER", "BACKSPACE", "NEUTRAL"}

View == <<auth_state, input_state, failed_attempts, authd_active, authd_stage,
          authd_items, authd_sel, layout_button>>

MainTypeOK ==
  /\ pending \subseteq Callback
  /\ run_display \in BOOLEAN
  /\ sigusr \in BOOLEAN
  /\ display_up \in BOOLEAN
  /\ session \in {"locked", "unlocked"}
  /\ auth_state \in AuthState
  /\ input_state \in InputState
  /\ password_len \in 0 .. BufferLen - 1
  /\ failed_attempts \in Nat
  /\ control \in BOOLEAN
  /\ repeat \in KeySyms \cup {NoKey}
  /\ timer \in [TimerKind -> BOOLEAN]
  /\ armed \in [TimerKind -> Nat]
  /\ expired \subseteq TimerKind
  /\ authd_active \in BOOLEAN
  /\ authd_stage \in Stage
  /\ authd_items \in [ListStage -> Seq(Item)]
  /\ authd_sel \in [ListStage -> Int]
  /\ layout_button \in BOOLEAN
  /\ submits \in Nat

MainInit ==
  /\ pending = {}
  /\ run_display = TRUE
  /\ sigusr = FALSE
  /\ display_up = TRUE
  /\ session = "locked"
  /\ auth_state = "IDLE"
  /\ input_state = "IDLE"
  /\ password_len = 0
  /\ failed_attempts = 0
  /\ control = FALSE
  /\ repeat = NoKey
  /\ timer = [k \in TimerKind |-> FALSE]
  /\ armed = [k \in TimerKind |-> 0]
  /\ expired = {}
  /\ authd_active = FALSE
  /\ authd_stage = "NONE"
  /\ authd_items = [st \in ListStage |-> <<>>]
  /\ authd_sel = [st \in ListStage |-> -1]
  /\ layout_button = FALSE
  /\ drawn = View
  /\ submits = 0

-----------------------------------------------------------------------------
\* Helpers: redrawing, timers, and the order of callbacks in an iteration.

damage_state == drawn' = View'

\* Mutant: schedule_... adds a timer without removing the one before it.
ChangeTimers_leaks(fired, scheduled, cancelled) ==
  LET removed == {k \in cancelled : timer[k] /\ armed[k] > 0}
  IN  /\ timer' = [k \in TimerKind |->
                     \/ k \in scheduled
                     \/ timer[k] /\ k \notin cancelled \cup fired]
      /\ armed' = [k \in TimerKind |->
                     armed[k] - (IF k \in removed \cup fired THEN 1 ELSE 0)
                              + (IF k \in scheduled THEN 1 ELSE 0)]
      /\ expired' = expired \ (removed \cup fired)

(***************************************************************************)
(* Timers of the kinds in "scheduled" and "cancelled" are taken out of the *)
(* loop when their pointer is set, even those already found expired; those *)
(* in "scheduled" are added again, to expire later.  A fired timer leaves  *)
(* the loop and its callback clears the pointer.                           *)
(***************************************************************************)
ChangeTimers(fired, scheduled, cancelled) ==
  LET removed == {k \in scheduled \cup cancelled : timer[k] /\ armed[k] > 0}
  IN  /\ timer' = [k \in TimerKind |->
                     \/ k \in scheduled
                     \/ timer[k] /\ k \notin cancelled \cup fired]
      /\ armed' = [k \in TimerKind |->
                     armed[k] - (IF k \in removed \cup fired THEN 1 ELSE 0)
                              + (IF k \in scheduled THEN 1 ELSE 0)]
      /\ expired' = expired \ (removed \cup fired)

Rank == [c \in Callback |->
           CASE c = "display"         -> 1
             [] c \in {"comm", "hup"} -> 2
             [] c = "term"            -> 3
             [] OTHER                 -> 4]  \* "timers", then "repeat"

Turn(c) ==
  /\ MainUp
  /\ c \in pending
  /\ \A d \in pending : Rank[c] <= Rank[d]

Expired(k) ==
  /\ MainUp
  /\ pending \subseteq {"repeat"}
  /\ k \in expired

BetweenIterations ==
  /\ MainUp
  /\ pending = {}
  /\ expired = {}

Return(c) == pending' = pending \ {c}

-----------------------------------------------------------------------------
\* password.c: what a key does.  Every branch sets inputVars, timerVars,
\* authd_sel, main, to_child, drawn and submits.

KeyUnchanged == UNCHANGED <<inputVars, timerVars, main, to_child, submits>>

\* Up and Down in a list: the index moves unless it is at the end.
MoveSelection(k) ==
  LET st   == authd_stage
      sel  == authd_sel[st]
      last == Len(authd_items[st]) - 1
  IN  /\ authd_sel' = [authd_sel EXCEPT ![st] =
                         IF k = "Up" THEN IF sel > 0 THEN sel - 1 ELSE sel
                                     ELSE IF sel < last THEN sel + 1 ELSE sel]
      /\ KeyUnchanged
      /\ damage_state

\* The selected entry can be sent: the index is valid and it has an id.
Chosen ==
  LET sel == authd_sel[authd_stage] + 1
  IN  /\ sel \in 1 .. Len(authd_items[authd_stage])
      /\ authd_items[authd_stage][sel] # NoId

ConfirmSelection ==
  /\ IF Chosen
       THEN comm_main_write(SelFrame(authd_stage,
              authd_items[authd_stage][authd_sel[authd_stage] + 1]))
       ELSE UNCHANGED <<main, to_child>>
  /\ UNCHANGED <<inputVars, timerVars, authd_sel, drawn, submits>>

CancelSelection ==
  /\ comm_main_write(Plain("CANCEL"))
  /\ UNCHANGED <<inputVars, timerVars, authd_sel, drawn, submits>>

PressButton ==
  /\ comm_main_write(Plain("BUTTON"))
  /\ UNCHANGED <<inputVars, timerVars, authd_sel, submits>>
  /\ damage_state

SubmitSkipped == (IgnoreEmpty /\ password_len = 0) \/ auth_state = "VALIDATING"

\* The copy was made and the frame is in the pipe.
SubmitSent ==
  /\ TRUE \in AllocOutcomes
  /\ ChildUp
  /\ submits < MaxSubmits
  /\ submits' = submits + 1
  /\ auth_state' = "VALIDATING"
  /\ comm_main_write(PasswordFrame)
  /\ ChangeTimers({}, {}, {"clear_password", "input_idle"})

\* No memory for the copy, or nobody to read it (SIGPIPE, else EPIPE).
SubmitFailed ==
  /\ \/ FALSE \in AllocOutcomes /\ UNCHANGED <<main, to_child>>
     \/ TRUE \in AllocOutcomes /\ ~ChildUp /\ comm_main_write(PasswordFrame)
  /\ auth_state' = "INVALID"
  /\ ChangeTimers({}, {"auth_idle"}, {"clear_password", "input_idle"})
  /\ UNCHANGED submits

\* The buffer is emptied whether or not the password reached the pipe.
submit_password ==
  /\ UNCHANGED authd_sel
  /\ IF SubmitSkipped
       THEN KeyUnchanged /\ UNCHANGED drawn
       ELSE /\ input_state' = "IDLE"
            /\ password_len' = 0
            /\ SubmitSent \/ SubmitFailed
            /\ damage_state

\* The buffer was changed or looked at: length, indicator and timers follow.
Edit(len, input, scheduled, cancelled) ==
  /\ password_len' = len
  /\ input_state' = input
  /\ ChangeTimers({}, scheduled, cancelled)
  /\ UNCHANGED <<auth_state, authd_sel, main, to_child, submits>>
  /\ damage_state

ClearPassword == Edit(0, "CLEAR", {"input_idle"}, {"clear_password"})

backspace ==
  IF ~control /\ password_len > 1
    THEN Edit(password_len - 1, "BACKSPACE",
              {"clear_password", "input_idle"}, {})
    ELSE ClearPassword

\* Mutant: the length of the buffer is not checked.
append_ch_unbounded ==
  Edit(password_len + 1, "LETTER", {"clear_password", "input_idle"}, {})

\* Mutant: a character does not start the timer that clears the password.
append_ch_unscheduled ==
  Edit(IF password_len + 2 >= BufferLen THEN password_len ELSE password_len + 1,
       "LETTER", {"input_idle"}, {})

append_ch ==
  Edit(IF password_len + 2 >= BufferLen THEN password_len ELSE password_len + 1,
       "LETTER", {"clear_password", "input_idle"}, {})

SubmitKey(k) == k = "Return" \/ (k = "SubmitLetter" /\ control)
ClearKey(k)  == k = "Escape" \/ (k = "ClearLetter" /\ control)
TextKey(k)   == k \in TextKeys /\ ~SubmitKey(k) /\ ~ClearKey(k)

EditKey(k) ==
  \/ SubmitKey(k) /\ submit_password
  \/ k = "BackSpace" /\ backspace
  \/ ClearKey(k) /\ ClearPassword
  \/ /\ k = "Modifier"
     /\ Edit(password_len, "NEUTRAL", {"clear_password", "input_idle"}, {})
  \/ TextKey(k) /\ append_ch
  \/ /\ k \in {"Up", "Down"}
     /\ KeyUnchanged
     /\ UNCHANGED <<authd_sel, drawn>>

Selecting(k) ==
  /\ authd_active
  /\ authd_stage \in ListStage
  /\ k \in {"Up", "Down", "Return", "Escape"}

ButtonKey(k) ==
  /\ authd_active
  /\ authd_stage = "CHALLENGE"
  /\ k = "Tab"
  /\ layout_button

swaylock_handle_key(k) ==
  /\ UNCHANGED <<authdVars, failed_attempts, run_display, envVars, control,
                 to_main, child>>
  /\ \/ Selecting(k) /\ k \in {"Up", "Down"} /\ MoveSelection(k)
     \/ Selecting(k) /\ k = "Return" /\ ConfirmSelection
     \/ Selecting(k) /\ k = "Escape" /\ CancelSelection
     \/ ButtonKey(k) /\ PressButton
     \/ ~Selecting(k) /\ ~ButtonKey(k) /\ EditKey(k)

-----------------------------------------------------------------------------
\* seat.c: the keyboard.

\* A press is handled, then becomes the key that repeats.
KeyPressed(k) ==
  /\ Turn("display")
  /\ swaylock_handle_key(k)
  /\ repeat' = IF KeyRepeat THEN k ELSE NoKey
  /\ UNCHANGED pending

\* Neither the indicator nor the child is concerned.
KeyboardFrame ==
  UNCHANGED <<main, pending, run_display, envVars, inputVars, failed_attempts,
              timerVars, authdVars, authd_sel, submits, to_child, to_main,
              child>>

\* A release of any key stops the repetition.
KeyReleased ==
  /\ Turn("display")
  /\ repeat # NoKey
  /\ repeat' = NoKey
  /\ UNCHANGED <<control, drawn>>
  /\ KeyboardFrame

\* Control is remembered; a change of caps lock or layout also redraws.
keyboard_modifiers ==
  /\ Turn("display")
  /\ KeySyms \cap {"BackSpace", "SubmitLetter", "ClearLetter"} # {}
  /\ control' = ~control
  /\ UNCHANGED repeat
  /\ KeyboardFrame
  /\ UNCHANGED drawn \/ damage_state

\* The repeat timer fired: it is armed again, then the key is handled.
keyboard_repeat ==
  /\ Turn("repeat")
  /\ swaylock_handle_key(repeat)
  /\ Return("repeat")
  /\ UNCHANGED repeat

-----------------------------------------------------------------------------
\* main.c: frames of the child.

\* Mutant: no timer ends the message.
Wrong_untimed ==
  /\ auth_state' = "INVALID"
  /\ failed_attempts' = failed_attempts + 1
  /\ UNCHANGED timerVars

\* Mutant: the failure is not counted.
Wrong_uncounted ==
  /\ auth_state' = "INVALID"
  /\ ChangeTimers({}, {"auth_idle"}, {})
  /\ UNCHANGED failed_attempts

Wrong ==
  /\ auth_state' = "INVALID"
  /\ ChangeTimers({}, {"auth_idle"}, {})
  /\ failed_attempts' = failed_attempts + 1

\* Mutant: any result ends the loop.
HandleAuthResult_any(f) ==
  /\ run_display' = FALSE
  /\ UNCHANGED <<authdVars, authd_sel, auth_state, timerVars, failed_attempts,
                 drawn>>

HandleAuthResult(f) ==
  /\ UNCHANGED <<authdVars, authd_sel>>
  /\ IF f.granted
       THEN /\ run_display' = FALSE
            /\ UNCHANGED <<auth_state, timerVars, failed_attempts, drawn>>
       ELSE /\ Wrong
            /\ UNCHANGED run_display
            /\ damage_state

\* Mutant: the index into the old list is kept.
HandleList_keeps_sel(f) ==
  /\ authd_items' = [authd_items EXCEPT ![f.stage] =
       IF Len(f.items) > MaxItems THEN SubSeq(f.items, 1, MaxItems)
                                  ELSE f.items]
  /\ authd_active' = TRUE
  /\ authd_stage' = f.stage
  /\ UNCHANGED <<authd_sel, layout_button, auth_state, timerVars,
                 failed_attempts, run_display>>
  /\ damage_state

\* BROKERS and AUTH_MODES.  The old list is freed first; if the new one cannot
\* be allocated the handler stops there.
HandleList(f) ==
  /\ authd_sel' = [authd_sel EXCEPT ![f.stage] = 0]
  /\ \/ /\ TRUE \in AllocOutcomes
        /\ authd_items' = [authd_items EXCEPT ![f.stage] =
             IF Len(f.items) > MaxItems THEN SubSeq(f.items, 1, MaxItems)
                                        ELSE f.items]
        /\ authd_active' = TRUE
        /\ authd_stage' = f.stage
        /\ UNCHANGED <<layout_button, auth_state, timerVars, failed_attempts,
                       run_display>>
        /\ damage_state
     \/ /\ FALSE \in AllocOutcomes
        /\ authd_items' = [authd_items EXCEPT ![f.stage] = <<>>]
        /\ UNCHANGED <<authd_active, authd_stage, layout_button, auth_state,
                       timerVars, failed_attempts, run_display, drawn>>

HandleUiLayout(f) ==
  /\ layout_button' = f.button
  /\ auth_state' = "IDLE"
  /\ authd_stage' = "CHALLENGE"
  /\ UNCHANGED <<authd_active, authd_items, authd_sel, timerVars,
                 failed_attempts, run_display>>
  /\ damage_state

\* Mutant: a new stage does not end the validation.
HandleStage_quiet(f) ==
  /\ authd_stage' = f.stage
  /\ UNCHANGED <<auth_state, timerVars, failed_attempts, authd_active,
                 authd_items, authd_sel, layout_button, run_display>>
  /\ damage_state

\* While a password is being validated a STAGE means it was refused.
HandleStage(f) ==
  /\ IF auth_state = "VALIDATING"
       THEN Wrong
       ELSE UNCHANGED <<auth_state, timerVars, failed_attempts>>
  /\ authd_stage' = f.stage
  /\ UNCHANGED <<authd_active, authd_items, authd_sel, layout_button,
                 run_display>>
  /\ damage_state

\* Mutant: damage_state() is forgotten.
HandleAuthEvent_undrawn ==
  /\ auth_state' = "IDLE"
  /\ UNCHANGED <<authdVars, authd_sel, timerVars, failed_attempts, run_display,
                 drawn>>

HandleAuthEvent ==
  /\ auth_state' = "IDLE"
  /\ UNCHANGED <<authdVars, authd_sel, timerVars, failed_attempts, run_display>>
  /\ damage_state

\* One frame is read in each iteration, however many are waiting.
comm_in ==
  /\ Turn("comm")
  /\ to_main' = Tail(to_main)
  /\ UNCHANGED <<main, child, to_child, envVars, seatVars, input_state,
                 password_len, submits>>
  /\ \E f \in {Head(to_main)} :
       \/ f.type = "AUTH_RESULT" /\ HandleAuthResult(f)
       \/ f.type = "LIST" /\ HandleList(f)
       \/ f.type = "UI_LAYOUT" /\ HandleUiLayout(f)
       \/ f.type = "STAGE" /\ HandleStage(f)
       \/ f.type = "AUTH_EVENT" /\ HandleAuthEvent
  /\ Return("comm")

\* What leaves the indicator, the lists and the keyboard alone.
TickFrame == UNCHANGED <<seatVars, inputVars, failed_attempts, authdVars,
                         authd_sel, drawn, submits, child, to_child, to_main>>
LoopFrame == TickFrame /\ UNCHANGED timerVars

\* POLLHUP without POLLIN: the child is gone and all it wrote has been read.
comm_hup ==
  /\ Turn("hup")
  /\ main' = "failed"
  /\ Return("hup")
  /\ UNCHANGED <<run_display, envVars>>
  /\ LoopFrame

\* wl_display_dispatch() has delivered the events that were waiting...
display_in ==
  /\ Turn("display")
  /\ display_up
  /\ Return("display")
  /\ UNCHANGED <<main, run_display, envVars>>
  /\ LoopFrame

\* ... or failed.
display_error ==
  /\ Turn("display")
  /\ ~display_up
  /\ run_display' = FALSE
  /\ Return("display")
  /\ UNCHANGED <<main, envVars>>
  /\ LoopFrame

\* ext_session_lock_v1.finished: the compositor gave up on this lock.
ext_session_lock_v1_handle_finished ==
  /\ "lock finished" \in Outside
  /\ Turn("display")
  /\ display_up
  /\ main' = "failed"
  /\ UNCHANGED <<pending, run_display, envVars>>
  /\ LoopFrame

\* Mutant: the loop is not told to end.
term_in_ignored ==
  /\ Turn("term")
  /\ Return("term")
  /\ UNCHANGED <<main, run_display, envVars>>
  /\ LoopFrame

term_in ==
  /\ Turn("term")
  /\ run_display' = FALSE
  /\ Return("term")
  /\ UNCHANGED <<main, envVars>>
  /\ LoopFrame

-----------------------------------------------------------------------------
\* password.c: expired timers.

TimerFrame == UNCHANGED <<main, pending, run_display, envVars, seatVars,
                          failed_attempts, authdVars, authd_sel, submits,
                          child, to_child, to_main>>

set_input_idle ==
  /\ Expired("input_idle")
  /\ input_state' = "IDLE"
  /\ ChangeTimers({"input_idle"}, {}, {})
  /\ UNCHANGED <<auth_state, password_len>>
  /\ TimerFrame
  /\ damage_state

set_auth_idle ==
  /\ Expired("auth_idle")
  /\ auth_state' = "IDLE"
  /\ ChangeTimers({"auth_idle"}, {}, {})
  /\ UNCHANGED <<input_state, password_len>>
  /\ TimerFrame
  /\ damage_state

clear_password ==
  /\ Expired("clear_password")
  /\ input_state' = "CLEAR"
  /\ password_len' = 0
  /\ ChangeTimers({"clear_password"}, {"input_idle"}, {})
  /\ UNCHANGED auth_state
  /\ TimerFrame
  /\ damage_state

-----------------------------------------------------------------------------
\* loop.c and main(): the loop.

LiveTimers == {k \in TimerKind : armed[k] > 0}

\* Mutant: a hang-up is acted upon before what is left has been read.
loop_poll_hup_first(display_ready) ==
  LET fds == (IF display_ready \/ ~display_up THEN {"display"} ELSE {})
             \cup (IF ~ChildUp THEN {"hup"}
                   ELSE IF to_main # <<>> THEN {"comm"} ELSE {})
             \cup (IF sigusr THEN {"term"} ELSE {})
  IN  /\ BetweenIterations
      /\ run_display
      /\ fds # {} \/ LiveTimers # {} \/ repeat # NoKey
      /\ pending' = fds \cup {"timers"}
      /\ UNCHANGED <<main, run_display, envVars>>
      /\ LoopFrame

\* poll() returns: a descriptor is ready (the display may be at any time) or
\* a timer is due.
loop_poll(display_ready) ==
  LET fds == (IF display_ready \/ ~display_up THEN {"display"} ELSE {})
             \cup (IF to_main # <<>> THEN {"comm"}
                   ELSE IF ~ChildUp THEN {"hup"} ELSE {})
             \cup (IF sigusr THEN {"term"} ELSE {})
  IN  /\ BetweenIterations
      /\ run_display
      /\ fds # {} \/ LiveTimers # {} \/ repeat # NoKey
      /\ pending' = fds \cup {"timers"}
      /\ UNCHANGED <<main, run_display, envVars>>
      /\ LoopFrame

\* Any of the live timers may have expired by now, and the key's own.  (A key
\* that submits no longer repeats at the bound on submissions, at which
\* SubmitSent stops.)
loop_timers ==
  /\ Turn("timers")
  /\ expired' \in SUBSET LiveTimers
  /\ pending' \in {{}, {"repeat"}}
  /\ pending' # {} => /\ repeat # NoKey
                      /\ SubmitKey(repeat) => submits < MaxSubmits
  /\ UNCHANGED <<main, run_display, envVars, timer, armed>>
  /\ TickFrame

\* wl_display_flush() fails: the loop is left although run_display is set.
flush_failed ==
  /\ BetweenIterations
  /\ run_display
  /\ ~display_up
  /\ run_display' = FALSE
  /\ UNCHANGED <<main, pending, envVars>>
  /\ LoopFrame

\* The loop was left; the compositor hears of it if the connection works.
unlock_and_destroy ==
  /\ BetweenIterations
  /\ ~run_display
  /\ session' = IF display_up THEN "unlocked" ELSE session
  /\ main' = "returned"
  /\ UNCHANGED <<pending, run_display, sigusr, display_up>>
  /\ LoopFrame

-----------------------------------------------------------------------------
\* The rest of the world.

do_sigusr ==
  /\ "SIGUSR1" \in Outside
  /\ MainUp
  /\ sigusr' = TRUE
  /\ UNCHANGED <<main, pending, run_display, display_up, session>>
  /\ LoopFrame

DisplayLost ==
  /\ "display lost" \in Outside
  /\ MainUp
  /\ display_up
  /\ display_up' = FALSE
  /\ UNCHANGED <<main, pending, run_display, sigusr, session>>
  /\ LoopFrame

KeyEvent == (\E k \in KeySyms : KeyPressed(k)) \/ keyboard_repeat

Timeout == set_input_idle \/ set_auth_idle \/ clear_password

MainNext ==
  \/ KeyEvent
  \/ KeyReleased
  \/ keyboard_modifiers
  \/ comm_in
  \/ comm_hup
  \/ display_in
  \/ display_error
  \/ ext_session_lock_v1_handle_finished
  \/ term_in
  \/ Timeout
  \/ \E r \in BOOLEAN : loop_poll(r)
  \/ loop_timers
  \/ flush_failed
  \/ unlock_and_destroy
  \/ do_sigusr
  \/ DisplayLost

\* What the process does without being told to: the thread goes on.
MainRuns ==
  \/ loop_poll(FALSE) \/ loop_timers \/ Timeout \/ keyboard_repeat
  \/ comm_in \/ comm_hup \/ display_in \/ display_error \/ term_in
  \/ flush_failed \/ unlock_and_destroy

\* The clock: a live timer is found expired.
Expire(k) == loop_timers /\ k \in expired'

-----------------------------------------------------------------------------
(***************************************************************************)
(* Each pointer to a timer is set exactly when one live timer of its kind  *)
(* is in the loop's list: none leaks, none is forgotten, none dangles.     *)
(* That holds of a timer about to fire too, whatever the callbacks before  *)
(* it in the same iteration cancelled.                                     *)
(***************************************************************************)
TimersMatch ==
  /\ \A k \in TimerKind : armed[k] = (IF timer[k] THEN 1 ELSE 0)
  /\ \A k \in expired : timer[k]

(***************************************************************************)
(* A password in the buffer is never without the timer that will clear it  *)
(* (schedule_password_clear), through typing, failed and late submissions. *)
(***************************************************************************)
PasswordClears == password_len > 0 => timer["clear_password"]

(***************************************************************************)
(* Nothing passing stays on the indicator: "Wrong" and every message about *)
(* typing has a timer that ends it.                                        *)
(***************************************************************************)
IndicatorTimed ==
  /\ auth_state = "INVALID" => timer["auth_idle"]
  /\ input_state # "IDLE" => timer["input_idle"]

(***************************************************************************)
(* The index of a selection list lies inside the list, also after a        *)
(* shorter list has replaced it while the user was moving about.           *)
(***************************************************************************)
SelectionInRange ==
  \A st \in ListStage :
    IF authd_items[st] = <<>>
      THEN authd_sel[st] \in {-1, 0}
      ELSE authd_sel[st] \in 0 .. Len(authd_items[st]) - 1

(***************************************************************************)
(* What poll() reported still holds when the callback runs, whatever the   *)
(* callbacks before it and the child did meanwhile: comm_in finds a frame  *)
(* (it does not block), POLLHUP is acted upon only after the last frame of *)
(* a child that is gone (a result written just before the exit is never    *)
(* lost), and term_in runs only after SIGUSR1.                             *)
(***************************************************************************)
PollStaysTrue ==
  /\ "comm" \in pending => to_main # <<>>
  /\ "hup" \in pending => to_main = <<>> /\ ~ChildUp
  /\ "term" \in pending => sigusr

\* What is on the screen is what the state says, after every callback.
DisplayCurrent == MainUp => drawn = View

=============================================================================
