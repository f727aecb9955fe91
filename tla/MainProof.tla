----------------------------- MODULE MainProof -----------------------------
(***************************************************************************)
(* The steps of the main process preserve its invariants, for every value  *)
(* of the constants and whatever the backend is.  The theorems about whole *)
(* systems (SwaylockProof) rest on MainStepInv.                            *)
(***************************************************************************)
EXTENDS MainProcess, SequenceTheorems, TLAPS

MainInv ==
  /\ TimersMatch
  /\ PasswordClears
  /\ IndicatorTimed
  /\ SelectionInRange
  /\ PollStaysTrue

-----------------------------------------------------------------------------
\* Frames, and queues of frames.

\* What swaylock_handle_key() sends is a frame the child knows.
LEMMA MainFrames ==
  /\ PasswordFrame \in MainFrame
  /\ Plain("CANCEL") \in MainFrame
  /\ Plain("BUTTON") \in MainFrame
  /\ \A st \in ListStage, id \in Id : SelFrame(st, id) \in MainFrame
BY DEF PasswordFrame, Plain, SelFrame, MainFrame

\* Reading the first element of a queue.
LEMMA HeadTail ==
  ASSUME NEW S, NEW s \in Seq(S), s # <<>>
  PROVE  Head(s) \in S /\ Tail(s) \in Seq(S)
OBVIOUS

\* What a queue holds after a read.
LEMMA QueueRead ==
  ASSUME NEW S, NEW q \in Seq(S), q # <<>>
  PROVE  /\ 1 \in DOMAIN q
         /\ Head(q) = q[1]
         /\ \A i \in DOMAIN Tail(q) :
              i + 1 \in DOMAIN q /\ Tail(q)[i] = q[i + 1]
OBVIOUS

\* comm_main_write() keeps the pipe and the status well-formed.
LEMMA MainWrite ==
  ASSUME CommTypeOK, NEW f \in MainFrame, comm_main_write(f)
  PROVE  main' \in MainStatus /\ to_child' \in Seq(MainFrame)
BY DEF CommTypeOK, comm_main_write, MainStatus, ChildUp

\* A frame is appended, or nothing is written.
LEMMA ChildWrite ==
  ASSUME CommTypeOK, NEW f \in ChildFrame, NEW next \in ChildStatus,
         comm_child_write(f, next)
  PROVE  /\ child' \in {next, "crashed"}
         /\ child' \in ChildStatus
         /\ to_main' \in Seq(ChildFrame)
         /\ to_main' = to_main \/ to_main' = Append(to_main, f)
BY DEF CommTypeOK, comm_child_write, ChildStatus, ChildGone

-----------------------------------------------------------------------------
\* Timers.

TimersTypeOK ==
  /\ timer \in [TimerKind -> BOOLEAN]
  /\ armed \in [TimerKind -> Nat]
  /\ expired \subseteq TimerKind

\* The schedule_... and cancel_... functions keep pointers and list in step, and
\* set exactly the pointers they should.
LEMMA TimersStep ==
  ASSUME TimersTypeOK, TimersMatch,
         NEW fired \in SUBSET expired,
         NEW scheduled \in SUBSET TimerKind,
         NEW cancelled \in SUBSET TimerKind,
         fired \cap (scheduled \cup cancelled) = {},
         ChangeTimers(fired, scheduled, cancelled)
  PROVE  /\ TimersTypeOK'
         /\ TimersMatch'
         /\ \A k \in scheduled : timer'[k]
         /\ \A k \in TimerKind \ (cancelled \cup fired) : timer[k] => timer'[k]
<1> DEFINE removed == {k \in scheduled \cup cancelled : timer[k] /\ armed[k] > 0}
<1>1. timer' = [k \in TimerKind |-> k \in scheduled
                   \/ (timer[k] /\ k \notin cancelled \cup fired)]
  BY DEF ChangeTimers
<1>2. armed' = [k \in TimerKind |->
                   armed[k] - (IF k \in removed \cup fired THEN 1 ELSE 0)
                            + (IF k \in scheduled THEN 1 ELSE 0)]
  BY DEF ChangeTimers
<1>3. expired' = expired \ (removed \cup fired)
  BY DEF ChangeTimers
<1>4. ASSUME NEW k \in TimerKind
      PROVE  timer'[k] <=> (k \in scheduled
                              \/ (timer[k] /\ k \notin cancelled \cup fired))
  BY <1>1, Zenon
<1>5. ASSUME NEW k \in TimerKind
      PROVE  armed'[k] = (IF timer'[k] THEN 1 ELSE 0)
  <2>1. armed[k] = IF timer[k] THEN 1 ELSE 0
    BY DEF TimersMatch
  <2>2. k \in fired => timer[k]
    BY DEF TimersMatch
  <2>3. armed'[k] = armed[k] - (IF k \in removed \cup fired THEN 1 ELSE 0)
                             + (IF k \in scheduled THEN 1 ELSE 0)
    BY <1>2
  <2>4. k \in removed <=> k \in scheduled \cup cancelled /\ timer[k]
    BY <2>1
  <2> HIDE DEF removed
  <2> QED BY <1>4, <2>1, <2>2, <2>3, <2>4
<1>6. ASSUME NEW k \in expired'
      PROVE  timer'[k]
  <2>1. k \in expired /\ k \in TimerKind /\ k \notin removed /\ k \notin fired
    BY <1>3 DEF TimersTypeOK
  <2>2. timer[k] /\ armed[k] = 1
    BY <2>1 DEF TimersMatch
  <2> QED BY <1>4, <2>1, <2>2
<1>7. TimersTypeOK'
  <2>1. timer' \in [TimerKind -> BOOLEAN]
    BY <1>1
  <2>2. armed' \in [TimerKind -> Nat]
    BY <1>2, <1>5
  <2> QED BY <1>3, <2>1, <2>2 DEF TimersTypeOK
<1>8. TimersMatch'
  BY <1>5, <1>6 DEF TimersMatch
<1> QED
  BY <1>4, <1>7, <1>8

-----------------------------------------------------------------------------
\* Keys.

Typed == CommTypeOK /\ MainTypeOK

\* The part of the invariants that a key can disturb.
KeyPart ==
  /\ main \in MainStatus
  /\ to_child \in Seq(MainFrame)
  /\ authd_sel \in [ListStage -> Int]
  /\ auth_state \in AuthState
  /\ input_state \in InputState
  /\ password_len \in 0 .. BufferLen - 1
  /\ submits \in Nat
  /\ TimersTypeOK
  /\ TimersMatch
  /\ PasswordClears
  /\ IndicatorTimed
  /\ SelectionInRange

\* What a key handler leaves behind, whichever branch it took.
LEMMA HandleKeyInv ==
  ASSUME Typed, MainInv, NEW k \in KeySyms,
         swaylock_handle_key(k),
         pending' \subseteq pending,
         repeat' \in KeySyms \cup {NoKey}
  PROVE  Typed' /\ MainInv'
<1> USE DEF envVars, authdVars, inputVars, timerVars
<1>0. TimersTypeOK
  BY DEF Typed, MainTypeOK, TimersTypeOK
<1>1. UNCHANGED <<authdVars, failed_attempts, run_display, envVars, control,
                  to_main, child>>
  BY DEF swaylock_handle_key
<1>2. PollStaysTrue'
  BY <1>1 DEF MainInv, PollStaysTrue, ChildUp
<1>3. SUFFICES KeyPart'
  BY <1>1, <1>2 DEF KeyPart, Typed, MainInv, CommTypeOK, MainTypeOK, TimersTypeOK
<1>4. CASE UNCHANGED <<inputVars, timerVars, submits>>
           /\ authd_sel' \in [ListStage -> Int] /\ SelectionInRange'
           /\ main' \in MainStatus /\ to_child' \in Seq(MainFrame)
  BY <1>4, <1>0 DEF KeyPart, Typed, MainInv, MainTypeOK, TimersTypeOK, TimersMatch,
     PasswordClears, IndicatorTimed
<1>s. ASSUME UNCHANGED authd_sel
      PROVE  authd_sel' \in [ListStage -> Int] /\ SelectionInRange'
  BY <1>s, <1>1 DEF Typed, MainTypeOK, MainInv, SelectionInRange
<1>5. CASE MoveSelection(k) /\ Selecting(k)
  <2>1. authd_stage \in ListStage /\ authd_items \in [ListStage -> Seq(Item)]
        /\ authd_sel \in [ListStage -> Int]
    BY <1>5 DEF Selecting, Typed, MainTypeOK
  <2>2. authd_sel' \in [ListStage -> Int]
    BY <1>5, <2>1 DEF MoveSelection
  <2>3. SelectionInRange'
    <3>1. SUFFICES ASSUME NEW st \in ListStage
          PROVE  IF authd_items[st] = <<>>
                   THEN authd_sel'[st] \in {-1, 0}
                   ELSE authd_sel'[st] \in 0 .. Len(authd_items[st]) - 1
      BY <1>1 DEF SelectionInRange
    <3>2. authd_items[st] \in Seq(Item) /\ authd_sel[st] \in Int
      BY <2>1
    <3>3. Len(authd_items[st]) \in Nat
          /\ (authd_items[st] = <<>> <=> Len(authd_items[st]) = 0)
      BY <3>2
    <3>4. CASE st # authd_stage
      BY <1>5, <2>1, <3>4 DEF MoveSelection, MainInv, SelectionInRange
    <3>5. CASE st = authd_stage
      BY <1>5, <2>1, <3>2, <3>3, <3>5 DEF MoveSelection, MainInv,
         SelectionInRange
    <3> QED BY <3>4, <3>5
  <2> QED
    BY <1>4, <1>5, <2>2, <2>3 DEF MoveSelection, KeyUnchanged, Typed, CommTypeOK
<1>6. CASE ConfirmSelection /\ Selecting(k)
  <2>1. CASE Chosen
    <3>1. authd_items[authd_stage][authd_sel[authd_stage] + 1] \in Id
      BY <1>6, <2>1 DEF Chosen, Selecting, Typed, MainTypeOK, Item
    <3>2. SelFrame(authd_stage,
            authd_items[authd_stage][authd_sel[authd_stage] + 1]) \in MainFrame
      BY <1>6, <3>1, MainFrames DEF Selecting
    <3> QED
      BY <1>4, <1>s, <1>6, <2>1, <3>2, MainWrite DEF ConfirmSelection, Typed
  <2>2. CASE ~Chosen
    BY <1>4, <1>s, <1>6, <2>2 DEF ConfirmSelection, Typed, CommTypeOK
  <2> QED BY <2>1, <2>2
<1>7. CASE CancelSelection
  BY <1>4, <1>s, <1>7, MainFrames, MainWrite DEF CancelSelection, Typed
<1>8. CASE PressButton
  BY <1>4, <1>s, <1>8, MainFrames, MainWrite DEF PressButton, Typed
<1>9. ASSUME NEW len \in 0 .. BufferLen - 1, NEW input \in InputState,
             NEW scheduled \in SUBSET TimerKind,
             NEW cancelled \in SUBSET {"clear_password"},
             "input_idle" \in scheduled,
             len > 0 => "clear_password" \in scheduled,
             Edit(len, input, scheduled, cancelled)
      PROVE  KeyPart'
  <2>1. ChangeTimers({}, scheduled, cancelled)
    BY <1>9 DEF Edit
  <2>2. cancelled \in SUBSET TimerKind
    BY DEF TimerKind
  <2>3. /\ TimersTypeOK'
        /\ TimersMatch'
        /\ \A j \in scheduled : timer'[j]
        /\ \A j \in TimerKind \ cancelled : timer[j] => timer'[j]
    BY <1>0, <2>1, <2>2, TimersStep DEF MainInv
  <2>4. PasswordClears' /\ IndicatorTimed'
    BY <1>9, <2>3 DEF Edit, MainInv, PasswordClears, IndicatorTimed, TimerKind
  <2> QED
    BY <1>9, <1>s, <2>3, <2>4 DEF KeyPart, Edit, Typed, CommTypeOK, MainTypeOK
<1> DEFINE both == {"clear_password", "input_idle"}
<1>a. /\ both \in SUBSET TimerKind
      /\ {"input_idle"} \in SUBSET TimerKind
      /\ {} \in SUBSET {"clear_password"}
      /\ "clear_password" \in both
      /\ "input_idle" \in both
  BY DEF TimerKind
<1>b. password_len \in 0 .. BufferLen - 1 /\ BufferLen \in Nat \ {0}
  BY MainAssumption DEF Typed, MainTypeOK
<1>c. \A t \in {"CLEAR", "LETTER", "BACKSPACE", "NEUTRAL"} : t \in InputState
  BY DEF InputState
<1>10. CASE submit_password
  <2>1. CASE SubmitSkipped
    BY <1>4, <1>s, <1>10, <2>1 DEF submit_password, KeyUnchanged, Typed,
       CommTypeOK
  <2>2. CASE ~SubmitSkipped /\ SubmitSent
    <3>1. ChangeTimers({}, {}, {"clear_password", "input_idle"})
      BY <2>2 DEF SubmitSent
    <3>2. TimersTypeOK' /\ TimersMatch'
      BY <1>0, <3>1, TimersStep DEF MainInv, TimerKind
    <3>3. main' \in MainStatus /\ to_child' \in Seq(MainFrame)
      BY <2>2, MainFrames, MainWrite DEF SubmitSent, Typed
    <3>4. PasswordClears' /\ IndicatorTimed'
      BY <1>10, <2>2 DEF submit_password, SubmitSent, PasswordClears,
         IndicatorTimed
    <3>5. /\ auth_state' \in AuthState
          /\ input_state' \in InputState
          /\ password_len' \in 0 .. BufferLen - 1
      BY <1>10, <1>b, <2>2 DEF submit_password, SubmitSent, AuthState, InputState
    <3>6. submits' \in Nat /\ UNCHANGED authd_sel
      BY <1>10, <2>2 DEF submit_password, SubmitSent, Typed, MainTypeOK
    <3> QED
      BY <1>s, <3>2, <3>3, <3>4, <3>5, <3>6 DEF KeyPart
  <2>3. CASE ~SubmitSkipped /\ SubmitFailed
    <3>1. ChangeTimers({}, {"auth_idle"}, {"clear_password", "input_idle"})
      BY <2>3 DEF SubmitFailed
    <3>2. TimersTypeOK' /\ TimersMatch' /\ timer'["auth_idle"]
      BY <1>0, <3>1, TimersStep DEF MainInv, TimerKind
    <3>3. main' \in MainStatus /\ to_child' \in Seq(MainFrame)
      BY <2>3, MainFrames, MainWrite DEF SubmitFailed, Typed, CommTypeOK
    <3>4. PasswordClears' /\ IndicatorTimed'
      BY <1>10, <2>3, <3>2 DEF submit_password, PasswordClears, IndicatorTimed
    <3>5. /\ auth_state' \in AuthState
          /\ input_state' \in InputState
          /\ password_len' \in 0 .. BufferLen - 1
      BY <1>10, <1>b, <2>3 DEF submit_password, SubmitFailed, AuthState,
         InputState
    <3>6. submits' \in Nat /\ UNCHANGED authd_sel
      BY <1>10, <2>3 DEF submit_password, SubmitFailed, Typed, MainTypeOK
    <3> QED
      BY <1>s, <3>2, <3>3, <3>4, <3>5, <3>6 DEF KeyPart
  <2> QED BY <1>10, <2>1, <2>2, <2>3 DEF submit_password
<1>11. CASE ClearPassword
  <2>1. Edit(0, "CLEAR", {"input_idle"}, {"clear_password"})
    BY <1>11 DEF ClearPassword
  <2>2. 0 \in 0 .. BufferLen - 1 /\ ~(0 > 0)
    BY <1>b
  <2> QED BY <1>9, <1>a, <1>c, <2>1, <2>2, Zenon
<1>12. CASE backspace
  <2>1. CASE ~control /\ password_len > 1
    <3>1. Edit(password_len - 1, "BACKSPACE", both, {})
      BY <1>12, <2>1 DEF backspace
    <3>2. password_len - 1 \in 0 .. BufferLen - 1
      BY <1>b, <2>1
    <3> HIDE DEF both
    <3> QED BY <1>9, <1>a, <1>c, <3>1, <3>2, Zenon
  <2> QED BY <1>11, <1>12, <2>1 DEF backspace
<1>13. CASE Edit(password_len, "NEUTRAL", both, {})
  <2> HIDE DEF both
  <2> QED BY <1>9, <1>13, <1>a, <1>b, <1>c, Zenon
<1>14. CASE append_ch
  <2> DEFINE len == IF password_len + 2 >= BufferLen THEN password_len
                                                     ELSE password_len + 1
  <2>1. len \in 0 .. BufferLen - 1
    BY <1>b
  <2>2. Edit(len, "LETTER", both, {})
    BY <1>14 DEF append_ch
  <2> HIDE DEF len, both
  <2> QED BY <1>9, <1>a, <1>c, <2>1, <2>2, Zenon
<1>15. CASE KeyUnchanged /\ UNCHANGED <<authd_sel, drawn>>
  BY <1>4, <1>s, <1>15 DEF KeyUnchanged, Typed, CommTypeOK
<1> QED
  BY <1>5, <1>6, <1>7, <1>8, <1>10, <1>11, <1>12, <1>13, <1>14, <1>15
     DEF swaylock_handle_key, EditKey

-----------------------------------------------------------------------------
\* Frames of the child.

\* A frame of each type carries what its handler reads from it.
LEMMA FrameFields ==
  ASSUME NEW f \in ChildFrame
  PROVE  /\ f.type = "LIST" => f.stage \in ListStage /\ f.items \in Seq(Item)
         /\ f.type = "UI_LAYOUT" => f.button \in BOOLEAN
         /\ f.type = "STAGE" => f.stage \in Stage
BY DEF ChildFrame

\* The list that is kept of a list that may be too long.
LEMMA KeptList ==
  ASSUME NEW s \in Seq(Item)
  PROVE  LET kept == IF Len(s) > MaxItems THEN SubSeq(s, 1, MaxItems) ELSE s
         IN  kept \in Seq(Item) /\ (kept # <<>> => Len(kept) > 0)
<1>1. CASE Len(s) > MaxItems
  <2>a. MaxItems \in Nat
    BY MainAssumption
  <2>b. Len(s) \in Nat
    OBVIOUS
  <2>1. \A i \in 1 .. MaxItems : s[i] \in Item
    <3>1. \A i \in 1 .. MaxItems : i \in 1 .. Len(s)
      BY <1>1, <2>a, <2>b
    <3> QED BY <3>1, ElementOfSeq
  <2>2. /\ SubSeq(s, 1, MaxItems) \in Seq(Item)
    BY <2>a, <2>1, SubSeqProperties
  <2>3. ASSUME NEW t \in Seq(Item), t # <<>> PROVE Len(t) > 0
    BY <2>3
  <2> QED BY <1>1, <2>2, <2>3, Zenon
<1>2. CASE ~(Len(s) > MaxItems)
  BY <1>2
<1> QED BY <1>1, <1>2

\* The part of the invariants that a frame can disturb, the queue excepted.
FramePart ==
  /\ run_display \in BOOLEAN
  /\ auth_state \in AuthState
  /\ failed_attempts \in Nat
  /\ authd_active \in BOOLEAN
  /\ authd_stage \in Stage
  /\ authd_items \in [ListStage -> Seq(Item)]
  /\ authd_sel \in [ListStage -> Int]
  /\ layout_button \in BOOLEAN
  /\ TimersTypeOK
  /\ TimersMatch
  /\ PasswordClears
  /\ IndicatorTimed
  /\ SelectionInRange

LEMMA CommInInv ==
  ASSUME Typed, MainInv, comm_in
  PROVE  Typed' /\ MainInv'
<1> USE DEF envVars, seatVars, authdVars, timerVars
<1>1. to_main # <<>> /\ to_main \in Seq(ChildFrame)
  BY DEF comm_in, Turn, MainInv, PollStaysTrue, Typed, CommTypeOK
<1>2. Head(to_main) \in ChildFrame /\ to_main' \in Seq(ChildFrame)
  BY <1>1, HeadTail DEF comm_in
<1>3. UNCHANGED <<main, child, to_child, envVars, seatVars, input_state,
                  password_len, submits>>
  BY DEF comm_in
<1>4. pending' = pending \ {"comm"}
  BY DEF comm_in, Return
<1>5. PollStaysTrue'
  <2>1. "hup" \notin pending
    BY <1>1 DEF MainInv, PollStaysTrue
  <2> QED
    BY <1>3, <1>4, <2>1 DEF MainInv, PollStaysTrue
<1>6. SUFFICES FramePart'
  BY <1>2, <1>3, <1>4, <1>5 DEF FramePart, Typed, MainInv, CommTypeOK,
     MainTypeOK, TimersTypeOK
<1>7. FramePart
  BY DEF FramePart, Typed, MainTypeOK, MainInv, TimersTypeOK
<1>8. PICK f \in {Head(to_main)} :
         \/ f.type = "AUTH_RESULT" /\ HandleAuthResult(f)
         \/ f.type = "LIST" /\ HandleList(f)
         \/ f.type = "UI_LAYOUT" /\ HandleUiLayout(f)
         \/ f.type = "STAGE" /\ HandleStage(f)
         \/ f.type = "AUTH_EVENT" /\ HandleAuthEvent
  BY DEF comm_in
<1>9. f \in ChildFrame
  BY <1>2
<1>w. ASSUME Wrong
      PROVE  /\ auth_state' \in AuthState
             /\ failed_attempts' \in Nat
             /\ TimersTypeOK'
             /\ TimersMatch'
             /\ PasswordClears'
             /\ IndicatorTimed'
  <2>1. ChangeTimers({}, {"auth_idle"}, {})
    BY <1>w DEF Wrong
  <2>2. /\ TimersTypeOK'
        /\ TimersMatch'
        /\ timer'["auth_idle"]
        /\ \A k \in TimerKind : timer[k] => timer'[k]
    <3>1. /\ {} \in SUBSET expired
          /\ {"auth_idle"} \in SUBSET TimerKind
          /\ {} \in SUBSET TimerKind
          /\ {} \cap ({"auth_idle"} \cup {}) = {}
      BY DEF TimerKind
    <3>2. TimersTypeOK /\ TimersMatch
      BY <1>7 DEF FramePart
    <3>3. /\ TimersTypeOK'
          /\ TimersMatch'
          /\ \A k \in {"auth_idle"} : timer'[k]
          /\ \A k \in TimerKind \ ({} \cup {}) : timer[k] => timer'[k]
      BY <2>1, <3>1, <3>2, TimersStep, Zenon
    <3> QED BY <3>3
  <2> QED
    BY <1>3, <1>7, <1>w, <2>2 DEF Wrong, FramePart, AuthState, PasswordClears,
       IndicatorTimed, TimerKind
<1>t. ASSUME UNCHANGED timerVars, auth_state' \in {auth_state, "IDLE"}
      PROVE  /\ auth_state' \in AuthState
             /\ TimersTypeOK'
             /\ TimersMatch'
             /\ PasswordClears'
             /\ IndicatorTimed'
  BY <1>3, <1>7, <1>t DEF FramePart, AuthState, TimersTypeOK, TimersMatch,
     PasswordClears, IndicatorTimed
<1>s. ASSUME UNCHANGED <<authd_sel, authd_items>>
      PROVE  SelectionInRange'
  BY <1>7, <1>s DEF FramePart, SelectionInRange
<1>10. CASE HandleAuthResult(f)
  <2>1. CASE f.granted
    BY <1>7, <1>10, <1>s, <1>t, <2>1 DEF HandleAuthResult, FramePart
  <2>2. CASE ~f.granted
    BY <1>7, <1>10, <1>s, <1>w, <2>2 DEF HandleAuthResult, FramePart
  <2> QED BY <2>1, <2>2
<1>11. CASE f.type = "LIST" /\ HandleList(f)
  <2> DEFINE kept == IF Len(f.items) > MaxItems THEN SubSeq(f.items, 1, MaxItems)
                                                ELSE f.items
  <2>1. f.stage \in ListStage /\ f.items \in Seq(Item)
    BY <1>9, <1>11, FrameFields
  <2>2. kept \in Seq(Item) /\ (kept # <<>> => Len(kept) > 0)
    <3>1. f.items \in Seq(Item)
      BY <2>1
    <3> QED BY <3>1, KeptList, Zenon
  <2>3. ListStage \subseteq Stage
    BY DEF Stage
  <2>4. authd_sel' = [authd_sel EXCEPT ![f.stage] = 0]
    BY <1>11 DEF HandleList
  <2>5. ASSUME NEW items \in Seq(Item), items # <<>> => Len(items) > 0,
               authd_items' = [authd_items EXCEPT ![f.stage] = items]
        PROVE  /\ authd_items' \in [ListStage -> Seq(Item)]
               /\ authd_sel' \in [ListStage -> Int]
               /\ SelectionInRange'
    <3>1. /\ authd_items' \in [ListStage -> Seq(Item)]
          /\ authd_sel' \in [ListStage -> Int]
      BY <1>7, <2>1, <2>4, <2>5 DEF FramePart
    <3>2. ASSUME NEW st \in ListStage
          PROVE  IF authd_items'[st] = <<>>
                   THEN authd_sel'[st] \in {-1, 0}
                   ELSE authd_sel'[st] \in 0 .. Len(authd_items'[st]) - 1
      <4>1. CASE st = f.stage
        BY <1>7, <2>1, <2>4, <2>5, <4>1 DEF FramePart
      <4>2. CASE st # f.stage
        BY <1>7, <2>1, <2>4, <2>5, <4>2 DEF FramePart, SelectionInRange
      <4> QED BY <4>1, <4>2
    <3> QED BY <3>1, <3>2 DEF SelectionInRange
  <2>6. CASE authd_items' = [authd_items EXCEPT ![f.stage] = kept]
             /\ authd_active' = TRUE /\ authd_stage' = f.stage
             /\ UNCHANGED <<layout_button, auth_state, timerVars,
                            failed_attempts, run_display>>
    <3> HIDE DEF kept
    <3> QED BY <1>7, <1>t, <2>1, <2>2, <2>3, <2>5, <2>6 DEF FramePart
  <2>7. CASE authd_items' = [authd_items EXCEPT ![f.stage] = <<>>]
             /\ UNCHANGED <<authd_active, authd_stage, layout_button, auth_state,
                            timerVars, failed_attempts, run_display, drawn>>
    <3>1. <<>> \in Seq(Item)
      OBVIOUS
    <3> QED BY <1>7, <1>t, <2>5, <2>7, <3>1 DEF FramePart
  <2> QED BY <1>11, <2>6, <2>7 DEF HandleList
<1>12. CASE f.type = "UI_LAYOUT" /\ HandleUiLayout(f)
  <2>1. f.button \in BOOLEAN
    BY <1>9, <1>12, FrameFields
  <2> QED
    BY <1>7, <1>12, <1>s, <1>t, <2>1 DEF HandleUiLayout, FramePart, Stage
<1>13. CASE f.type = "STAGE" /\ HandleStage(f)
  <2>1. f.stage \in Stage
    BY <1>9, <1>13, FrameFields
  <2>2. CASE auth_state = "VALIDATING"
    BY <1>7, <1>13, <1>s, <1>w, <2>1, <2>2 DEF HandleStage, FramePart
  <2>3. CASE auth_state # "VALIDATING"
    BY <1>7, <1>13, <1>s, <1>t, <2>1, <2>3 DEF HandleStage, FramePart
  <2> QED BY <2>2, <2>3
<1>14. CASE HandleAuthEvent
  BY <1>7, <1>14, <1>s, <1>t DEF HandleAuthEvent, FramePart
<1> QED BY <1>8, <1>10, <1>11, <1>12, <1>13, <1>14

-----------------------------------------------------------------------------
\* Timers that expire, and the loop itself.

LEMMA TimeoutInv ==
  ASSUME Typed, MainInv, Timeout
  PROVE  Typed' /\ MainInv'
<1> USE DEF envVars, seatVars, authdVars
<1>0. TimersTypeOK /\ TimersMatch
  BY DEF Typed, MainTypeOK, TimersTypeOK, MainInv
<1>1. TimerFrame
  BY DEF Timeout, set_input_idle, set_auth_idle, clear_password
<1>2. PollStaysTrue' /\ SelectionInRange'
  BY <1>1 DEF TimerFrame, MainInv, PollStaysTrue, SelectionInRange, ChildUp
<1>3. SUFFICES /\ auth_state' \in AuthState
               /\ input_state' \in InputState
               /\ password_len' \in 0 .. BufferLen - 1
               /\ TimersTypeOK'
               /\ TimersMatch'
               /\ PasswordClears'
               /\ IndicatorTimed'
  BY <1>1, <1>2 DEF TimerFrame, Typed, MainInv, CommTypeOK, MainTypeOK,
     TimersTypeOK
<1>4. ASSUME NEW k \in TimerKind, Expired(k), ChangeTimers({k}, {}, {})
      PROVE  /\ TimersTypeOK'
             /\ TimersMatch'
             /\ \A j \in TimerKind \ {k} : timer[j] => timer'[j]
  <2>1. /\ {k} \in SUBSET expired
        /\ {} \in SUBSET TimerKind
        /\ {k} \cap ({} \cup {}) = {}
    BY <1>4 DEF Expired
  <2>2. /\ TimersTypeOK'
        /\ TimersMatch'
        /\ \A j \in TimerKind \ ({} \cup {k}) : timer[j] => timer'[j]
    BY <1>0, <1>4, <2>1, TimersStep, Zenon
  <2> QED BY <2>2
<1>5. CASE set_input_idle
  <2>1. /\ TimersTypeOK'
        /\ TimersMatch'
        /\ \A j \in TimerKind \ {"input_idle"} : timer[j] => timer'[j]
    BY <1>4, <1>5 DEF set_input_idle, TimerKind
  <2> QED
    BY <1>5, <2>1 DEF set_input_idle, Typed, MainTypeOK, MainInv, InputState,
       PasswordClears, IndicatorTimed, TimerKind
<1>6. CASE set_auth_idle
  <2>1. /\ TimersTypeOK'
        /\ TimersMatch'
        /\ \A j \in TimerKind \ {"auth_idle"} : timer[j] => timer'[j]
    BY <1>4, <1>6 DEF set_auth_idle, TimerKind
  <2> QED
    BY <1>6, <2>1 DEF set_auth_idle, Typed, MainTypeOK, MainInv, AuthState,
       PasswordClears, IndicatorTimed, TimerKind
<1>7. CASE clear_password
  <2>1. /\ {"clear_password"} \in SUBSET expired
        /\ {"input_idle"} \in SUBSET TimerKind
        /\ {} \in SUBSET TimerKind
        /\ {"clear_password"} \cap ({"input_idle"} \cup {}) = {}
    BY <1>7 DEF clear_password, Expired, TimerKind
  <2>2. ChangeTimers({"clear_password"}, {"input_idle"}, {})
    BY <1>7 DEF clear_password
  <2>3. /\ TimersTypeOK'
        /\ TimersMatch'
        /\ \A j \in {"input_idle"} : timer'[j]
        /\ \A j \in TimerKind \ ({} \cup {"clear_password"}) :
             timer[j] => timer'[j]
    BY <1>0, <2>1, <2>2, TimersStep, Zenon
  <2>4. BufferLen \in Nat \ {0}
    BY MainAssumption, Zenon
  <2> QED
    BY <1>7, <2>3, <2>4 DEF clear_password, Typed, MainTypeOK, MainInv,
       InputState, PasswordClears, IndicatorTimed, TimerKind
<1> QED BY <1>5, <1>6, <1>7 DEF Timeout

\* The indicator, the lists and the timers are left alone.
LEMMA LoopFrameInv ==
  ASSUME Typed, MainInv, LoopFrame,
         main' \in MainStatus,
         pending' \subseteq Callback,
         run_display' \in BOOLEAN,
         sigusr' \in BOOLEAN,
         display_up' \in BOOLEAN,
         session' \in {"locked", "unlocked"},
         PollStaysTrue'
  PROVE  Typed' /\ MainInv'
BY DEF LoopFrame, TickFrame, seatVars, inputVars, timerVars, authdVars, Typed,
   MainInv, CommTypeOK, MainTypeOK, TimersMatch, PasswordClears, IndicatorTimed,
   SelectionInRange

\* Every step of the main process preserves its invariants.
THEOREM MainStepInv ==
  ASSUME Typed, MainInv, MainNext
  PROVE  Typed' /\ MainInv'
<1> USE DEF envVars
<1>1. CASE \E k \in KeySyms : KeyPressed(k)
  <2>1. PICK k \in KeySyms : KeyPressed(k)
    BY <1>1
  <2>2. /\ swaylock_handle_key(k)
        /\ pending' \subseteq pending
        /\ repeat' \in KeySyms \cup {NoKey}
    BY <2>1 DEF KeyPressed
  <2> QED BY <2>2, HandleKeyInv
<1>2. CASE keyboard_repeat
  <2>1. swaylock_handle_key(repeat) /\ pending' \subseteq pending
    BY <1>2 DEF keyboard_repeat, Return
  <2>2. repeat # NoKey
    BY <2>1 DEF swaylock_handle_key, Selecting, ButtonKey, EditKey, SubmitKey,
       ClearKey, TextKey, TextKeys, NoKey
  <2>3. repeat \in KeySyms /\ repeat' \in KeySyms \cup {NoKey}
    BY <1>2, <2>2 DEF keyboard_repeat, Typed, MainTypeOK
  <2> QED BY <2>1, <2>3, HandleKeyInv
<1>3. CASE KeyReleased \/ keyboard_modifiers
  <2>1. KeyboardFrame
    BY <1>3 DEF KeyReleased, keyboard_modifiers
  <2>2. MainInv'
    BY <2>1 DEF KeyboardFrame, inputVars, timerVars, authdVars, MainInv,
       TimersMatch, PasswordClears, IndicatorTimed, SelectionInRange,
       PollStaysTrue, ChildUp
  <2>3. control' \in BOOLEAN /\ repeat' \in KeySyms \cup {NoKey}
    BY <1>3 DEF KeyReleased, keyboard_modifiers, Typed, MainTypeOK
  <2>4. Typed'
    BY <2>1, <2>3 DEF KeyboardFrame, inputVars, timerVars, authdVars, Typed,
       CommTypeOK, MainTypeOK
  <2> QED BY <2>2, <2>4
<1>4. CASE comm_in
  BY <1>4, CommInInv
<1>5. CASE Timeout
  BY <1>5, TimeoutInv
<1>6. CASE comm_hup \/ display_in \/ display_error \/ term_in
           \/ ext_session_lock_v1_handle_finished
  <2>1. LoopFrame /\ UNCHANGED <<sigusr, display_up, session>>
    BY <1>6 DEF comm_hup, display_in, display_error, term_in,
       ext_session_lock_v1_handle_finished
  <2>2. pending' \subseteq pending
    BY <1>6 DEF comm_hup, display_in, display_error, term_in,
       ext_session_lock_v1_handle_finished, Return
  <2>3. main' \in MainStatus /\ run_display' \in BOOLEAN
    BY <1>6 DEF comm_hup, display_in, display_error, term_in,
       ext_session_lock_v1_handle_finished, MainStatus, Typed, CommTypeOK,
       MainTypeOK
  <2>4. PollStaysTrue'
    BY <2>1, <2>2 DEF LoopFrame, TickFrame, MainInv, PollStaysTrue, ChildUp
  <2> QED BY <2>1, <2>2, <2>3, <2>4, LoopFrameInv DEF Typed, MainTypeOK
<1>7. CASE \E r \in BOOLEAN : loop_poll(r)
  BY <1>7, LoopFrameInv DEF loop_poll, LoopFrame, TickFrame, Typed, CommTypeOK,
     MainTypeOK, Callback, MainInv, PollStaysTrue, ChildUp
<1>8. CASE loop_timers
  BY <1>8 DEF loop_timers, TickFrame, seatVars, inputVars, authdVars, LiveTimers,
     Callback, Typed, CommTypeOK, MainTypeOK, MainInv, TimersMatch,
     PasswordClears, IndicatorTimed, SelectionInRange, PollStaysTrue
<1>9. CASE flush_failed \/ unlock_and_destroy \/ do_sigusr \/ DisplayLost
  BY <1>9, LoopFrameInv DEF flush_failed, unlock_and_destroy, do_sigusr,
     DisplayLost, LoopFrame, TickFrame, Typed, CommTypeOK, MainTypeOK,
     MainStatus, MainInv, PollStaysTrue, ChildUp
<1> QED
  BY <1>1, <1>2, <1>3, <1>4, <1>5, <1>6, <1>7, <1>8, <1>9
     DEF MainNext, KeyEvent

-----------------------------------------------------------------------------
\* The invariants of the main process in a whole system.

\* They hold when main() enters its loop, wherever the child has got to.
LEMMA MainInitial ==
  ASSUME NEW first \in ChildStatus, CommInit(first), MainInit
  PROVE  Typed /\ MainInv
<1> USE DEF CommInit, MainInit
<1>1. CommTypeOK
  <2>1. <<>> \in Seq(MainFrame) /\ <<>> \in Seq(ChildFrame)
    OBVIOUS
  <2> QED
    BY <2>1 DEF CommTypeOK, MainStatus
<1>2. MainTypeOK
  <2>1. BufferLen \in Nat \ {0}
    BY MainAssumption, Zenon
  <2>2. authd_items \in [ListStage -> Seq(Item)]
    OBVIOUS
  <2>3. /\ timer \in [TimerKind -> BOOLEAN]
        /\ armed \in [TimerKind -> Nat]
        /\ authd_sel \in [ListStage -> Int]
    OBVIOUS
  <2>4. /\ pending \subseteq Callback
        /\ expired \subseteq TimerKind
        /\ password_len \in 0 .. BufferLen - 1
    BY <2>1
  <2> QED
    BY <2>2, <2>3, <2>4 DEF MainTypeOK, AuthState, InputState, Stage
<1>3. MainInv
  BY DEF MainInv, TimersMatch, PasswordClears, IndicatorTimed,
     SelectionInRange, PollStaysTrue
<1> QED
  BY <1>1, <1>2, <1>3 DEF Typed

LEMMA MainStutters ==
  ASSUME Typed, MainInv, UNCHANGED <<mainVars, child, to_child, to_main>>
  PROVE  Typed' /\ MainInv'
<1>1. /\ UNCHANGED <<main, pending, run_display, sigusr, display_up>>
      /\ UNCHANGED <<session, control, repeat, auth_state, input_state>>
      /\ UNCHANGED <<password_len, failed_attempts, timer, armed, expired>>
      /\ UNCHANGED <<authd_active, authd_stage, authd_items, authd_sel>>
      /\ UNCHANGED <<layout_button, submits, child, to_child, to_main>>
  BY DEF mainVars, envVars, seatVars, inputVars, timerVars, authdVars
<1>2. Typed'
  BY <1>1 DEF Typed, CommTypeOK, MainTypeOK
<1> QED
  BY <1>1, <1>2 DEF MainInv, TimersMatch, PasswordClears, IndicatorTimed,
     SelectionInRange, PollStaysTrue, ChildUp

\* A child that runs and only adds frames to its pipe disturbs none of them:
\* what poll() told the main process stays true.
LEMMA BackendKeepsMain ==
  ASSUME Typed, MainInv, ChildUp, UNCHANGED mainVars,
         child' \in ChildStatus,
         to_child' \in Seq(MainFrame),
         to_main' \in Seq(ChildFrame),
         \/ to_main' = to_main
         \/ \E f \in ChildFrame : to_main' = Append(to_main, f)
  PROVE  Typed' /\ MainInv'
<1>1. Typed'
  <2>1. MainTypeOK'
    BY DEF mainVars, envVars, seatVars, inputVars, timerVars, authdVars,
       Typed, MainTypeOK
  <2>2. CommTypeOK'
    BY DEF mainVars, Typed, CommTypeOK
  <2> QED
    BY <2>1, <2>2 DEF Typed
<1>2. to_main # <<>> => to_main' # <<>>
  <2>1. ASSUME NEW f \in ChildFrame, to_main' = Append(to_main, f)
        PROVE  to_main' # <<>>
    BY <2>1 DEF Typed, CommTypeOK
  <2> QED
    BY <2>1
<1>3. PollStaysTrue'
  <2>1. UNCHANGED <<pending, sigusr>>
    BY DEF mainVars, envVars
  <2>2. "hup" \notin pending
    BY DEF MainInv, PollStaysTrue
  <2> QED
    BY <1>2, <2>1, <2>2 DEF MainInv, PollStaysTrue
<1> QED
  BY <1>1, <1>3 DEF mainVars, envVars, inputVars, timerVars, authdVars,
     MainInv, TimersMatch, PasswordClears, IndicatorTimed, SelectionInRange

-----------------------------------------------------------------------------
\* What a step of the main process may do to the lock.

\* The callback that ends the loop had a reason to.
LoopEnds ==
  ~run_display' => \/ ~run_display
                   \/ ~display_up
                   \/ sigusr
                   \/ to_main # <<>> /\ Head(to_main) = ResultFrame(TRUE)

\* Handling a key neither ends the loop nor touches the lock.
LEMMA KeyEffect ==
  ASSUME NEW k, swaylock_handle_key(k)
  PROVE  UNCHANGED <<run_display, sigusr, display_up, session, to_main, child>>
BY DEF swaylock_handle_key, envVars

\* A positive result is one particular frame.
LEMMA Granted ==
  ASSUME NEW f \in ChildFrame, f.type = "AUTH_RESULT", f.granted
  PROVE  f = ResultFrame(TRUE)
BY DEF ChildFrame, ResultFrame

\* Steps other than unlock_and_destroy and SIGUSR1.
LEMMA MainEffect ==
  ASSUME Typed, MainInv, MainNext, ~unlock_and_destroy
  PROVE  /\ MainUp
         /\ session' = session
         /\ sigusr' = sigusr \/ (sigusr' /\ UNCHANGED main)
         /\ ~display_up => ~display_up'
         /\ run_display' => run_display
         /\ LoopEnds
         /\ \/ to_main' = to_main
            \/ to_main # <<>> /\ to_main' = Tail(to_main)
         /\ child' = child
<1> USE DEF envVars
<1>1. CASE \E k \in KeySyms : KeyPressed(k)
  <2>1. PICK k \in KeySyms : Turn("display") /\ swaylock_handle_key(k)
    BY <1>1 DEF KeyPressed
  <2> QED BY <2>1, KeyEffect DEF Turn, LoopEnds
<1>2. CASE keyboard_repeat
  <2>1. Turn("repeat") /\ swaylock_handle_key(repeat)
    BY <1>2 DEF keyboard_repeat
  <2> QED BY <2>1, KeyEffect DEF Turn, LoopEnds
<1>3. CASE KeyReleased \/ keyboard_modifiers
  <2>1. /\ MainUp
        /\ UNCHANGED <<run_display, sigusr, display_up, session, to_main, child>>
    BY <1>3 DEF KeyReleased, keyboard_modifiers, KeyboardFrame, Turn
  <2> QED BY <2>1 DEF LoopEnds
<1>4. CASE comm_in
  <2>1. /\ MainUp
        /\ "comm" \in pending
        /\ to_main' = Tail(to_main)
        /\ UNCHANGED <<sigusr, display_up, session, child>>
    BY <1>4 DEF comm_in, Turn
  <2>2. to_main # <<>>
    BY <2>1 DEF MainInv, PollStaysTrue
  <2>3. Head(to_main) \in ChildFrame
    BY <2>2, HeadTail DEF Typed, CommTypeOK
  <2>4. ~run_display' =>
          \/ ~run_display
          \/ Head(to_main).type = "AUTH_RESULT" /\ Head(to_main).granted
    BY <1>4 DEF comm_in, HandleAuthResult, HandleList, HandleUiLayout,
       HandleStage, HandleAuthEvent
  <2>5. run_display' => run_display
    BY <1>4 DEF comm_in, HandleAuthResult, HandleList, HandleUiLayout,
       HandleStage, HandleAuthEvent
  <2> QED BY <2>1, <2>2, <2>3, <2>4, <2>5, Granted DEF LoopEnds
<1>5. CASE Timeout
  <2>1. MainUp /\ TimerFrame
    BY <1>5 DEF Timeout, set_input_idle, set_auth_idle, clear_password, Expired
  <2> QED BY <2>1 DEF TimerFrame, LoopEnds
<1>6. CASE comm_hup \/ display_in \/ display_error \/ term_in
           \/ ext_session_lock_v1_handle_finished
  <2>1. /\ MainUp
        /\ UNCHANGED <<sigusr, display_up, session, to_main, child>>
    BY <1>6 DEF comm_hup, display_in, display_error, term_in,
       ext_session_lock_v1_handle_finished, Turn, LoopFrame, TickFrame
  <2>2. LoopEnds
    BY <1>6 DEF comm_hup, display_in, display_error, term_in, Turn,
       ext_session_lock_v1_handle_finished, MainInv, PollStaysTrue, LoopEnds
  <2>3. run_display' => run_display
    BY <1>6 DEF comm_hup, display_in, display_error, term_in,
       ext_session_lock_v1_handle_finished
  <2> QED BY <2>1, <2>2, <2>3
<1>7. CASE \E r \in BOOLEAN : loop_poll(r)
  BY <1>7 DEF loop_poll, BetweenIterations, LoopFrame, TickFrame, LoopEnds
<1>8. CASE loop_timers
  BY <1>8 DEF loop_timers, Turn, TickFrame, LoopEnds
<1>9. CASE flush_failed \/ do_sigusr \/ DisplayLost
  <2>1. MainUp /\ LoopFrame /\ UNCHANGED <<main, session>>
    BY <1>9 DEF flush_failed, do_sigusr, DisplayLost, BetweenIterations
  <2>2. /\ sigusr' = sigusr \/ (sigusr' /\ UNCHANGED main)
        /\ ~display_up => ~display_up'
    <3>1. CASE flush_failed BY <3>1 DEF flush_failed
    <3>2. CASE do_sigusr BY <3>2 DEF do_sigusr
    <3>3. CASE DisplayLost BY <3>3 DEF DisplayLost
    <3> QED BY <1>9, <3>1, <3>2, <3>3
  <2>3. LoopEnds
    BY <1>9 DEF flush_failed, do_sigusr, DisplayLost, LoopEnds
  <2>4. run_display' => run_display
    BY <1>9 DEF flush_failed, do_sigusr, DisplayLost
  <2> QED BY <2>1, <2>2, <2>3, <2>4 DEF LoopFrame, TickFrame
<1> QED
  BY <1>1, <1>2, <1>3, <1>4, <1>5, <1>6, <1>7, <1>8, <1>9
     DEF MainNext, KeyEvent

-----------------------------------------------------------------------------
\* What a step of the main process sends to the child.

\* A password, and the indicator says so.
Submits ==
  /\ ChildUp
  /\ to_child' = Append(to_child, PasswordFrame)
  /\ submits' = submits + 1
  /\ auth_state' = "VALIDATING"

\* A frame of authd's dialogues.
Replies ==
  /\ authd_active
  /\ ChildUp
  /\ \E f \in MainFrame : to_child' = Append(to_child, f)
  /\ UNCHANGED <<submits, auth_state>>

\* Nothing; then validation does not begin either.
SendsNothing ==
  /\ UNCHANGED <<to_child, submits>>
  /\ auth_state' = "VALIDATING" => auth_state = "VALIDATING"

LEMMA KeySends ==
  ASSUME Typed, NEW k \in KeySyms, swaylock_handle_key(k)
  PROVE  Submits \/ Replies \/ SendsNothing
<1> USE DEF inputVars
<1>1. CASE MoveSelection(k)
  BY <1>1 DEF MoveSelection, KeyUnchanged, SendsNothing
<1>2. ASSUME authd_active, NEW f \in MainFrame, comm_main_write(f),
             UNCHANGED <<inputVars, submits>>
      PROVE  Replies \/ SendsNothing
  BY <1>2 DEF comm_main_write, Replies, SendsNothing
<1>3. CASE ConfirmSelection /\ Selecting(k)
  <2>1. CASE Chosen
    <3>1. authd_items[authd_stage][authd_sel[authd_stage] + 1] \in Id
      BY <1>3, <2>1 DEF Chosen, Selecting, Typed, MainTypeOK, Item
    <3>2. SelFrame(authd_stage,
            authd_items[authd_stage][authd_sel[authd_stage] + 1]) \in MainFrame
      BY <1>3, <3>1, MainFrames DEF Selecting
    <3> QED
      BY <1>2, <1>3, <2>1, <3>2 DEF ConfirmSelection, Selecting
  <2>2. CASE ~Chosen
    BY <1>3, <2>2 DEF ConfirmSelection, SendsNothing
  <2> QED BY <2>1, <2>2
<1>4. CASE CancelSelection /\ Selecting(k)
  BY <1>2, <1>4, MainFrames DEF CancelSelection, Selecting
<1>5. CASE PressButton /\ ButtonKey(k)
  BY <1>2, <1>5, MainFrames DEF PressButton, ButtonKey
<1>6. CASE submit_password
  <2>1. CASE SubmitSkipped
    BY <1>6, <2>1 DEF submit_password, KeyUnchanged, SendsNothing
  <2>2. CASE SubmitSent
    BY <2>2 DEF SubmitSent, comm_main_write, Submits
  <2>3. CASE SubmitFailed
    BY <2>3 DEF SubmitFailed, comm_main_write, SendsNothing
  <2> QED BY <1>6, <2>1, <2>2, <2>3 DEF submit_password
<1>7. CASE backspace \/ ClearPassword \/ append_ch
           \/ Edit(password_len, "NEUTRAL", {"clear_password", "input_idle"}, {})
  BY <1>7 DEF backspace, ClearPassword, append_ch, Edit, SendsNothing
<1>8. CASE KeyUnchanged
  BY <1>8 DEF KeyUnchanged, SendsNothing
<1> QED
  BY <1>1, <1>3, <1>4, <1>5, <1>6, <1>7, <1>8
     DEF swaylock_handle_key, EditKey

\* Handling a key reads no frame and counts no failure.
LEMMA KeyCounts ==
  ASSUME NEW k, swaylock_handle_key(k)
  PROVE  UNCHANGED <<to_main, failed_attempts, authd_active>>
BY DEF swaylock_handle_key, authdVars

\* Every step of the main process: what it sends, and what it reads.
LEMMA MainTraffic ==
  ASSUME Typed, MainNext
  PROVE  /\ Submits \/ Replies \/ SendsNothing
         /\ comm_in \/ UNCHANGED <<to_main, failed_attempts, authd_active>>
<1> USE DEF inputVars, authdVars
<1>1. CASE \E k \in KeySyms : KeyPressed(k)
  BY <1>1, KeySends, KeyCounts DEF KeyPressed
<1>2. CASE keyboard_repeat
  <2>1. swaylock_handle_key(repeat)
    BY <1>2 DEF keyboard_repeat
  <2>2. repeat # NoKey
    BY <2>1 DEF swaylock_handle_key, Selecting, ButtonKey, EditKey, SubmitKey,
       ClearKey, TextKey, TextKeys, NoKey
  <2>3. repeat \in KeySyms
    BY <2>2 DEF Typed, MainTypeOK
  <2> QED BY <2>1, <2>3, KeySends, KeyCounts
<1>3. CASE KeyReleased \/ keyboard_modifiers
  BY <1>3 DEF KeyReleased, keyboard_modifiers, KeyboardFrame, SendsNothing
<1>4. CASE comm_in
  <2>1. UNCHANGED <<to_child, submits>>
    BY <1>4 DEF comm_in
  <2>2. auth_state' \in {auth_state, "INVALID", "IDLE"}
    BY <1>4 DEF comm_in, HandleAuthResult, HandleList, HandleUiLayout,
       HandleStage, HandleAuthEvent, Wrong
  <2> QED BY <1>4, <2>1, <2>2 DEF SendsNothing
<1>5. CASE Timeout
  BY <1>5 DEF Timeout, set_input_idle, set_auth_idle, clear_password,
     TimerFrame, SendsNothing
<1>6. CASE comm_hup \/ display_in \/ display_error \/ term_in
           \/ ext_session_lock_v1_handle_finished
  BY <1>6 DEF comm_hup, display_in, display_error, term_in,
     ext_session_lock_v1_handle_finished, LoopFrame, TickFrame, SendsNothing
<1>7. CASE (\E r \in BOOLEAN : loop_poll(r)) \/ loop_timers
  BY <1>7 DEF loop_poll, loop_timers, LoopFrame, TickFrame, SendsNothing
<1>8. CASE flush_failed \/ unlock_and_destroy \/ do_sigusr \/ DisplayLost
  BY <1>8 DEF flush_failed, unlock_and_destroy, do_sigusr, DisplayLost,
     LoopFrame, TickFrame, SendsNothing
<1> QED
  BY <1>1, <1>2, <1>3, <1>4, <1>5, <1>6, <1>7, <1>8 DEF MainNext, KeyEvent

-----------------------------------------------------------------------------
\* What is on the screen.

\* A key either leaves what is shown alone, or ends with damage_state().
LEMMA KeyDraws ==
  ASSUME NEW k, swaylock_handle_key(k)
  PROVE  drawn' = View' \/ (drawn' = drawn /\ View' = View)
<1>1. UNCHANGED <<authdVars, failed_attempts>>
  BY DEF swaylock_handle_key
<1>2. ASSUME UNCHANGED <<inputVars, authd_sel, drawn>>
      PROVE  drawn' = drawn /\ View' = View
  BY <1>1, <1>2 DEF View, inputVars, authdVars
<1>3. CASE MoveSelection(k) \/ PressButton
  BY <1>3 DEF MoveSelection, PressButton, damage_state
<1>4. CASE ConfirmSelection \/ CancelSelection
  BY <1>2, <1>4 DEF ConfirmSelection, CancelSelection
<1>5. CASE submit_password
  BY <1>2, <1>5 DEF submit_password, KeyUnchanged, damage_state
<1>6. CASE backspace \/ ClearPassword \/ append_ch
           \/ Edit(password_len, "NEUTRAL", {"clear_password", "input_idle"}, {})
  BY <1>6 DEF backspace, ClearPassword, append_ch, Edit, damage_state
<1>7. CASE KeyUnchanged /\ UNCHANGED <<authd_sel, drawn>>
  BY <1>2, <1>7 DEF KeyUnchanged
<1> QED
  BY <1>3, <1>4, <1>5, <1>6, <1>7 DEF swaylock_handle_key, EditKey

\* Whatever a step changes of what is shown, it draws.  A list that cannot be
\* allocated is the exception: its handler stops before it draws.
LEMMA DisplayStep ==
  ASSUME DisplayCurrent, MainNext, FALSE \notin AllocOutcomes
  PROVE  DisplayCurrent'
<1> USE DEF DisplayCurrent
<1>0. MainUp
  BY DEF MainNext, KeyEvent, KeyPressed, keyboard_repeat, KeyReleased,
     keyboard_modifiers, comm_in, comm_hup, display_in, display_error,
     ext_session_lock_v1_handle_finished, term_in, Timeout, set_input_idle,
     set_auth_idle, clear_password, Expired, Turn, loop_poll, loop_timers,
     flush_failed, unlock_and_destroy, do_sigusr, DisplayLost,
     BetweenIterations
<1>1. SUFFICES drawn' = View' \/ (drawn' = drawn /\ View' = View)
  BY <1>0
<1>2. CASE KeyEvent
  BY <1>2, KeyDraws DEF KeyEvent, KeyPressed, keyboard_repeat
<1>3. CASE KeyReleased \/ keyboard_modifiers
  BY <1>3 DEF KeyReleased, keyboard_modifiers, KeyboardFrame, damage_state,
     View, inputVars, authdVars
<1>4. CASE comm_in
  <2>1. PICK f : \/ HandleAuthResult(f) \/ HandleList(f) \/ HandleUiLayout(f)
                 \/ HandleStage(f) \/ HandleAuthEvent
    BY <1>4 DEF comm_in
  <2>2. UNCHANGED input_state
    BY <1>4 DEF comm_in
  <2> QED
    BY <2>1, <2>2 DEF HandleAuthResult, HandleList, HandleUiLayout,
       HandleStage, HandleAuthEvent, damage_state, View, authdVars
<1>5. CASE Timeout
  BY <1>5 DEF Timeout, set_input_idle, set_auth_idle, clear_password,
     damage_state
<1>6. CASE TickFrame
  BY <1>6 DEF TickFrame, View, inputVars, authdVars
<1> QED
  BY <1>2, <1>3, <1>4, <1>5, <1>6 DEF MainNext, comm_hup, display_in,
     display_error, ext_session_lock_v1_handle_finished, term_in, loop_poll,
     loop_timers, flush_failed, unlock_and_destroy, do_sigusr, DisplayLost,
     LoopFrame

=============================================================================
