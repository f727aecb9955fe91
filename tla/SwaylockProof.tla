--------------------------- MODULE SwaylockProof ---------------------------
(***************************************************************************)
(* Theorems about swaylock with the PAM backend, for every value of the    *)
(* constants: the invariants of the main process, that nothing but a       *)
(* verdict unlocks the session, that "Verifying" is not shown for nothing, *)
(* that the selection is on the screen for lists and windows of any        *)
(* length, and that Swaylock implements LockScreen.                        *)
(***************************************************************************)
EXTENDS SelectionList, MainProof

SafetyInv == TypeOK /\ MainInv /\ LockInv

-----------------------------------------------------------------------------
\* What a step of the child may do.

\* Only pam_authenticate() decides, once.
Decides ==
  \/ UNCHANGED pam_status
  \/ child = "auth" /\ child' = "report" /\ pam_status' \in PamStatus

\* The child's writes are frames that the main process knows.
LEMMA ChildFrames ==
  /\ \A ok \in BOOLEAN : ResultFrame(ok) \in ChildFrame
  /\ \A st \in Stage : StageFrame(st) \in ChildFrame
  /\ \A e \in Events : EventFrames(e) \subseteq ChildFrame
<1>1. Offers \subseteq Seq(Item) /\ Events \subseteq AllEvents
  BY PamAssumption
<1>2. \A s \in Offers, st \in ListStage : ListFrame(st, s) \in ChildFrame
  BY <1>1 DEF ListFrame, ChildFrame
<1>3. \A b \in BOOLEAN : LayoutFrame(b) \in ChildFrame
  BY DEF LayoutFrame, ChildFrame
<1>4. EventFrame \in ChildFrame
  BY DEF EventFrame, Plain, ChildFrame
<1>5. \A ok \in BOOLEAN : ResultFrame(ok) \in ChildFrame
  BY DEF ResultFrame, ChildFrame
<1>6. \A st \in Stage : StageFrame(st) \in ChildFrame
  BY DEF StageFrame, ChildFrame
<1>7. ASSUME NEW e \in Events
      PROVE  EventFrames(e) \subseteq ChildFrame
  BY <1>1, <1>2, <1>3, <1>4, <1>6 DEF EventFrames, AllEvents, ListStage, Stage
<1> QED BY <1>5, <1>6, <1>7

\* The child has said its last word.
Decided == {"report", "end"} \cup ChildGone

\* What is added to the pipe, and where the child goes from there.
ChildEffects ==
  /\ child' \in ChildStatus
  /\ to_child' \in Seq(MainFrame)
  /\ to_main' \in Seq(ChildFrame)
  /\ \/ to_main' = to_main
     \/ \E f \in ChildFrame :
          /\ to_main' = Append(to_main, f)
          /\ f = ResultFrame(TRUE) => pam_status = "SUCCESS"
  /\ PamTypeOK'
  /\ Decides
  /\ pam_status = "SUCCESS" /\ child \in Decided => child' \in Decided

LEMMA ChildEffect ==
  ASSUME TypeOK, ChildNext
  PROVE  ChildUp /\ ChildEffects
<1> USE DEF ChildEffects, Decides, Decided, ChildGone, ChildUp, ChildStatus
<1>0. /\ CommTypeOK
      /\ PamTypeOK
      /\ to_child \in Seq(MainFrame)
      /\ to_main \in Seq(ChildFrame)
  BY DEF TypeOK, CommTypeOK
<1>1. CASE PamPrompt
  <2> DEFINE f == StageFrame("CHALLENGE")
  <2>1. f \in ChildFrame /\ f # ResultFrame(TRUE)
    BY ChildFrames DEF Stage, StageFrame, ResultFrame
  <2>2. /\ child' \in {"prompt", "crashed"}
        /\ to_main' \in Seq(ChildFrame)
        /\ to_main' = to_main \/ to_main' = Append(to_main, f)
    BY <1>0, <1>1, <2>1, ChildWrite DEF PamPrompt
  <2> HIDE DEF f
  <2> QED BY <1>0, <1>1, <2>1, <2>2 DEF PamPrompt, PamTypeOK
<1>2. CASE PromptRead
  <2>1. to_child' \in Seq(MainFrame)
    BY <1>0, <1>2, HeadTail DEF PromptRead
  <2> QED BY <1>0, <1>2, <2>1 DEF PromptRead, PamTypeOK
<1>3. CASE \E e \in Events : GdmEvent(e)
  <2>1. PICK e \in Events : GdmEvent(e)
    BY <1>3
  <2>2. PICK f \in EventFrames(e) : comm_child_write(f, "auth")
    BY <2>1 DEF GdmEvent
  <2>3. f \in ChildFrame
    BY <2>2, ChildFrames
  <2>4. Events \subseteq AllEvents
    BY PamAssumption
  <2>5. f # ResultFrame(TRUE)
    <3>1. f.type # "AUTH_RESULT"
      BY <2>2, <2>4 DEF EventFrames, AllEvents, ListFrame, LayoutFrame,
         StageFrame, EventFrame, Plain
    <3> QED BY <3>1 DEF ResultFrame
  <2>6. /\ child' \in {"auth", "crashed"}
        /\ to_main' \in Seq(ChildFrame)
        /\ to_main' = to_main \/ to_main' = Append(to_main, f)
    BY <1>0, <2>2, <2>3, ChildWrite
  <2>7. PamTypeOK'
    BY <1>0, <2>1 DEF GdmEvent, PamTypeOK
  <2> QED BY <1>0, <2>1, <2>3, <2>5, <2>6, <2>7 DEF GdmEvent
<1>4. CASE GdmPoll
  <2>1. MaxPending \in Nat \ {0}
    BY PamAssumption
  <2> DEFINE room  == IF user_selected_sent THEN MaxPending ELSE MaxPending - 1
             taken == IF Len(to_child) < room THEN Len(to_child) ELSE room
  <2>2. Len(to_child) \in Nat /\ taken \in 0 .. Len(to_child)
    BY <1>0, <2>1
  <2>3. to_child' \in Seq(MainFrame)
    <3>1. to_child' = SubSeq(to_child, taken + 1, Len(to_child))
      BY <1>4 DEF GdmPoll
    <3> HIDE DEF taken
    <3> QED BY <1>0, <2>2, <3>1
  <2> QED BY <1>0, <1>4, <2>3 DEF GdmPoll, PamTypeOK
<1>5. CASE \E status \in PamErrors \cup {"SUCCESS"} : PamReturn(status)
  <2>1. PICK status \in PamErrors \cup {"SUCCESS"} : PamReturn(status)
    BY <1>5
  <2>2. PamErrors \subseteq {"AUTH_ERR", "OTHER"}
    BY PamAssumption
  <2>3. /\ child = "auth"
        /\ child' = "report"
        /\ pam_status' = status
        /\ UNCHANGED <<user_selected_sent, events, to_child, to_main>>
    BY <2>1 DEF PamReturn
  <2>4. judging' = FALSE /\ denials' \in {denials, denials + 1}
    BY <2>1 DEF PamReturn
  <2>5. pam_status' \in PamStatus
    BY <2>2, <2>3 DEF PamStatus
  <2>6. PamTypeOK'
    <3>1. denials' \in Nat
      BY <1>0, <2>4 DEF PamTypeOK
    <3>2. user_selected_sent' \in BOOLEAN /\ events' \in Nat
      BY <1>0, <2>3 DEF PamTypeOK
    <3> QED BY <2>4, <2>5, <3>1, <3>2 DEF PamTypeOK
  <2>7. Decides
    BY <2>3, <2>5
  <2>8. child' \in ChildStatus /\ child' \in Decided /\ ChildUp
    BY <2>3
  <2> QED BY <1>0, <2>3, <2>6, <2>7, <2>8
<1>6. CASE ReportResult
  <2> DEFINE ok   == pam_status = "SUCCESS"
             next == IF pam_status = "AUTH_ERR" THEN "auth" ELSE "end"
  <2>1. ResultFrame(ok) \in ChildFrame
    BY ChildFrames
  <2>2. ResultFrame(ok) = ResultFrame(TRUE) => ok
    BY DEF ResultFrame
  <2>3. /\ child' \in {next, "crashed"}
        /\ to_main' \in Seq(ChildFrame)
        /\ to_main' = to_main \/ to_main' = Append(to_main, ResultFrame(ok))
    BY <1>0, <1>6, <2>1, ChildWrite DEF ReportResult
  <2>4. UNCHANGED <<pam_status, user_selected_sent, judging, denials, events,
                    to_child>> /\ ChildUp
    BY <1>6 DEF ReportResult
  <2> QED BY <1>0, <2>1, <2>2, <2>3, <2>4 DEF PamTypeOK
<1>7. CASE PamEnd \/ PamCrash
  BY <1>0, <1>7 DEF PamEnd, PamCrash, PamTypeOK
<1>8. CASE \E e \in Events : GdmEventUnsent(e)
  BY <1>0, <1>8 DEF GdmEventUnsent, PamTypeOK
<1> QED
  BY <1>1, <1>2, <1>3, <1>4, <1>5, <1>6, <1>7, <1>8 DEF ChildNext

-----------------------------------------------------------------------------
\* Invariance.

\* A step of the child disturbs only the pipes in the invariants of the main
\* process.
LEMMA ChildKeepsMain ==
  ASSUME TypeOK, MainInv, ChildStep
  PROVE  TypeOK' /\ MainInv'
<1>1. UNCHANGED mainVars /\ ChildUp /\ ChildEffects
  BY ChildEffect DEF ChildStep
<1>2. Typed' /\ MainInv'
  BY <1>1, BackendKeepsMain DEF ChildEffects, TypeOK, Typed
<1> QED
  BY <1>1, <1>2 DEF ChildEffects, TypeOK, Typed

\* A verdict is final.
LEMMA VerdictStable ==
  ASSUME SafetyInv, Next
  PROVE  Verdict => Verdict'
<1>1. CASE MainStep
  BY <1>1, MainEffect DEF MainStep, SafetyInv, TypeOK, Typed, Verdict,
     unlock_and_destroy
<1>2. CASE ChildStep
  <2>1. UNCHANGED sigusr /\ Decides
    BY <1>2, ChildEffect DEF ChildStep, mainVars, envVars, ChildEffects,
       SafetyInv
  <2> QED BY <2>1 DEF Verdict, Decides, SafetyInv, LockInv, ChildGone
<1> QED BY <1>1, <1>2 DEF Next

\* LockInv is preserved by both processes.
LEMMA LockStep ==
  ASSUME SafetyInv, Next
  PROVE  LockInv'
<1> DEFINE Grants(q) == \E i \in DOMAIN q : q[i] = ResultFrame(TRUE)
<1>0. Verdict => Verdict'
  BY VerdictStable
<1>1. CASE MainStep /\ unlock_and_destroy
  <2>1. /\ UNCHANGED <<pam_status, child, to_main, run_display, sigusr,
                       display_up>>
        /\ ~run_display
        /\ session' = IF display_up THEN "unlocked" ELSE session
    BY <1>1 DEF MainStep, unlock_and_destroy, LoopFrame, TickFrame
  <2> QED BY <2>1 DEF SafetyInv, LockInv, UnlockJustified, Verdict
<1>2. CASE MainStep /\ ~unlock_and_destroy
  <2>1. /\ UNCHANGED pam_status
        /\ session' = session
        /\ ~display_up => ~display_up'
        /\ LoopEnds
        /\ \/ to_main' = to_main
           \/ to_main # <<>> /\ to_main' = Tail(to_main)
        /\ child' = child
    BY <1>2, MainEffect DEF MainStep, SafetyInv, TypeOK, Typed
  <2>2. to_main \in Seq(ChildFrame)
    BY DEF SafetyInv, TypeOK, CommTypeOK
  <2>3. Grants(to_main') => Grants(to_main)
    <3>1. CASE to_main # <<>> /\ to_main' = Tail(to_main)
      <4>1. ASSUME NEW i \in DOMAIN Tail(to_main),
                   Tail(to_main)[i] = ResultFrame(TRUE)
            PROVE  Grants(to_main)
        <5>1. i + 1 \in DOMAIN to_main /\ Tail(to_main)[i] = to_main[i + 1]
          BY <2>2, <3>1, QueueRead, Zenon
        <5> QED BY <4>1, <5>1, Zenon
      <4> QED BY <3>1, <4>1
    <3> QED BY <2>1, <3>1
  <2>4. to_main # <<>> /\ Head(to_main) = ResultFrame(TRUE) => Grants(to_main)
    BY <2>2, QueueRead
  <2>5. Grants(to_main) => pam_status = "SUCCESS"
    BY DEF SafetyInv, LockInv
  <2>6. ~run_display' => Verdict' \/ ~display_up'
    BY <1>0, <2>1, <2>4, <2>5 DEF LoopEnds, SafetyInv, LockInv, Verdict
  <2> QED
    BY <1>0, <2>1, <2>3, <2>5, <2>6 DEF SafetyInv, LockInv, UnlockJustified,
       Verdict
<1>3. CASE ChildStep
  <2>1. UNCHANGED <<run_display, display_up, session>> /\ ChildEffects
    BY <1>3, ChildEffect DEF ChildStep, mainVars, envVars, SafetyInv
  <2>2. to_main \in Seq(ChildFrame)
    BY DEF SafetyInv, TypeOK, CommTypeOK
  <2>3. Grants(to_main') => Grants(to_main) \/ pam_status = "SUCCESS"
    <3>1. ASSUME NEW f \in ChildFrame,
                 to_main' = Append(to_main, f),
                 f = ResultFrame(TRUE) => pam_status = "SUCCESS"
          PROVE  Grants(to_main') => Grants(to_main) \/ pam_status = "SUCCESS"
      <4>1. ASSUME NEW i \in DOMAIN Append(to_main, f),
                   Append(to_main, f)[i] = ResultFrame(TRUE)
            PROVE  Grants(to_main) \/ pam_status = "SUCCESS"
        <5>1. \/ Append(to_main, f)[i] = f
              \/ i \in DOMAIN to_main /\ Append(to_main, f)[i] = to_main[i]
          <6>1. i \in 1 .. Len(to_main) + 1
            BY <2>2
          <6>2. Len(to_main) \in Nat /\ DOMAIN to_main = 1 .. Len(to_main)
            BY <2>2
          <6> QED BY <2>2, <6>1, <6>2
        <5> QED BY <3>1, <4>1, <5>1, Zenon
      <4> QED BY <3>1, <4>1
    <3> QED BY <2>1, <3>1 DEF ChildEffects
  <2>4. pam_status = "SUCCESS" => /\ pam_status' = "SUCCESS"
                                 /\ child' \in Decided
    BY <2>1 DEF ChildEffects, Decides, Decided, SafetyInv, LockInv, ChildGone
  <2>5. pam_status' = "SUCCESS" => child' \in Decided
    BY <2>1, <2>4 DEF ChildEffects, Decides, Decided
  <2> QED
    BY <1>0, <2>1, <2>3, <2>4, <2>5 DEF Decided, SafetyInv, LockInv,
       UnlockJustified
<1> QED BY <1>1, <1>2, <1>3 DEF Next

\* The invariant that all of the following rest on.
THEOREM Invariance == Spec => []SafetyInv
<1>1. Init => SafetyInv
  <2> SUFFICES ASSUME Init PROVE SafetyInv
    OBVIOUS
  <2>1. CommInit("auth") /\ MainInit /\ PamInit
    BY DEF Init
  <2>2. Typed /\ MainInv
    BY <2>1, MainInitial DEF ChildStatus
  <2>3. PamTypeOK
    BY <2>1 DEF PamInit, PamTypeOK, PamStatus
  <2>4. LockInv
    BY <2>1 DEF CommInit, MainInit, PamInit, LockInv, UnlockJustified
  <2> QED BY <2>2, <2>3, <2>4 DEF SafetyInv, TypeOK, Typed
<1>2. SafetyInv /\ [Next]_vars => SafetyInv'
  <2> SUFFICES ASSUME SafetyInv, [Next]_vars PROVE SafetyInv'
    OBVIOUS
  <2>1. CASE MainStep
    <3>1. Typed' /\ MainInv'
      BY <2>1, MainStepInv DEF MainStep, SafetyInv, TypeOK, Typed
    <3>2. PamTypeOK'
      BY <2>1 DEF MainStep, SafetyInv, TypeOK, PamTypeOK
    <3> QED BY <2>1, <3>1, <3>2, LockStep DEF Next, SafetyInv, TypeOK, Typed
  <2>2. CASE ChildStep
    BY <2>2, ChildKeepsMain, LockStep DEF Next, SafetyInv
  <2>3. CASE UNCHANGED vars
    <3>1. /\ UNCHANGED <<mainVars, child, to_child, to_main>>
          /\ UNCHANGED <<pam_status, user_selected_sent, judging, denials,
                         events>>
      BY <2>3 DEF vars, childVars
    <3>2. Typed' /\ MainInv'
      BY <3>1, MainStutters DEF SafetyInv, TypeOK, Typed
    <3>3. PamTypeOK' /\ LockInv'
      BY <3>1 DEF mainVars, envVars, SafetyInv, TypeOK, PamTypeOK, LockInv,
         UnlockJustified, Verdict
    <3> QED BY <3>2, <3>3 DEF SafetyInv, TypeOK, Typed
  <2> QED BY <2>1, <2>2, <2>3 DEF Next
<1> QED BY <1>1, <1>2, PTL DEF Spec

-----------------------------------------------------------------------------
\* The properties that TLC checks on small instances, for all constants.

\* Every variable keeps to its values; a password never fills its buffer.
THEOREM TypeCorrect == Spec => []TypeOK
BY Invariance, PTL DEF SafetyInv

\* The pointers to timers and the list of the loop agree (loop.c, password.c).
THEOREM TimersCorrect == Spec => []TimersMatch
BY Invariance, PTL DEF SafetyInv, MainInv

\* A password in the buffer has a timer that clears it.
THEOREM PasswordCorrect == Spec => []PasswordClears
BY Invariance, PTL DEF SafetyInv, MainInv

\* A passing message on the indicator has a timer that ends it.
THEOREM IndicatorCorrect == Spec => []IndicatorTimed
BY Invariance, PTL DEF SafetyInv, MainInv

\* The selection index lies inside the list, whatever authd offers.
THEOREM SelectionCorrect == Spec => []SelectionInRange
BY Invariance, PTL DEF SafetyInv, MainInv

\* What poll() reported still holds when the callback runs.
THEOREM PollCorrect == Spec => []PollStaysTrue
BY Invariance, PTL DEF SafetyInv, MainInv

\* Only PAM_SUCCESS or SIGUSR1 unlocks the session.
THEOREM UnlockCorrect == Spec => []UnlockJustified
BY Invariance, PTL DEF SafetyInv, LockInv

-----------------------------------------------------------------------------
\* "Verifying" and the screen.

PasswordWaits   == \E i \in DOMAIN to_child : to_child[i] = PasswordFrame
AnswerWaits     == \E i \in DOMAIN to_main : to_main[i].type # "LIST"
AnswerWillCome  == PasswordWaits \/ judging \/ child \in Decided \/ AnswerWaits

\* What waits in a queue still waits after a frame is added to it.
LEMMA QueueKeeps ==
  ASSUME NEW S, NEW q \in Seq(S), NEW f \in S
  PROVE  /\ Len(q) + 1 \in DOMAIN Append(q, f)
         /\ Append(q, f)[Len(q) + 1] = f
         /\ \A i \in DOMAIN q : /\ i \in DOMAIN Append(q, f)
                                /\ Append(q, f)[i] = q[i]
OBVIOUS

\* A step of the main process: a submission is followed by an answer, and a
\* frame that leaves VALIDATING alone is a list, not the answer.
LEMMA VerifyingMain ==
  ASSUME SafetyInv, MainStep, MainUp', run_display',
         auth_state' = "VALIDATING",
         run_display /\ auth_state = "VALIDATING" => AnswerWillCome
  PROVE  AnswerWillCome'
<1>1. ~unlock_and_destroy
  BY DEF unlock_and_destroy, MainUp
<1>2. Typed /\ MainInv /\ MainNext /\ UNCHANGED judging
  BY DEF SafetyInv, TypeOK, Typed, MainStep
<1>3. run_display /\ child' = child
  BY <1>1, <1>2, MainEffect
<1>4. to_child \in Seq(MainFrame) /\ to_main \in Seq(ChildFrame)
  BY <1>2 DEF Typed, CommTypeOK
<1>5. CASE Submits
  <2>1. PasswordWaits'
    BY <1>4, <1>5, QueueKeeps, MainFrames DEF Submits, PasswordWaits
  <2> QED BY <2>1 DEF AnswerWillCome
<1>6. CASE Replies \/ SendsNothing
  <2>1. AnswerWillCome
    BY <1>3, <1>6 DEF Replies, SendsNothing
  <2>2. PasswordWaits => PasswordWaits'
    <3>1. CASE to_child' = to_child
      BY <3>1 DEF PasswordWaits
    <3>2. ASSUME NEW f \in MainFrame, to_child' = Append(to_child, f)
          PROVE  PasswordWaits => PasswordWaits'
      BY <1>4, <3>2, QueueKeeps DEF PasswordWaits
    <3> QED BY <1>6, <3>1, <3>2 DEF Replies, SendsNothing
  <2>3. AnswerWaits => AnswerWaits'
    <3>1. CASE UNCHANGED to_main
      BY <3>1 DEF AnswerWaits
    <3>2. CASE comm_in
      <4>1. to_main # <<>> /\ to_main' = Tail(to_main)
        BY <1>2, <3>2 DEF comm_in, Turn, MainInv, PollStaysTrue
      <4>2. Head(to_main).type = "LIST"
        BY <3>2, <1>6 DEF comm_in, HandleAuthResult, HandleUiLayout,
           HandleStage, HandleAuthEvent, Wrong
      <4>3. ASSUME NEW i \in DOMAIN to_main, to_main[i].type # "LIST"
            PROVE  AnswerWaits'
        <5>1. i # 1
          BY <1>4, <4>1, <4>2, <4>3
        <5>2. i - 1 \in DOMAIN Tail(to_main)
              /\ Tail(to_main)[i - 1] = to_main[i]
          BY <1>4, <4>1, <5>1
        <5> QED BY <4>1, <4>3, <5>2 DEF AnswerWaits
      <4> QED BY <4>3 DEF AnswerWaits
    <3> QED BY <1>2, <3>1, <3>2, MainTraffic
  <2> QED BY <1>2, <1>3, <2>1, <2>2, <2>3 DEF AnswerWillCome
<1> QED BY <1>2, <1>5, <1>6, MainTraffic

\* A step of the child: it takes the password and judges it, and stops judging
\* only with an answer.
LEMMA VerifyingChild ==
  ASSUME SafetyInv, ChildStep, MainUp, AnswerWillCome
  PROVE  AnswerWillCome'
<1> USE DEF AnswerWillCome
<1>1. to_child \in Seq(MainFrame) /\ to_main \in Seq(ChildFrame)
  BY DEF SafetyInv, TypeOK, CommTypeOK
<1>2. ASSUME NEW f \in ChildFrame, to_main' = Append(to_main, f)
      PROVE  /\ AnswerWaits => AnswerWaits'
             /\ f.type # "LIST" => AnswerWaits'
  BY <1>1, <1>2, QueueKeeps DEF AnswerWaits
<1>3. CASE PamPrompt
  <2>1. StageFrame("CHALLENGE") \in ChildFrame
    BY ChildFrames DEF Stage
  <2> QED BY <1>2, <1>3, <2>1 DEF PamPrompt, comm_child_write, StageFrame
<1>4. CASE PromptRead
  <2>1. PasswordWaits => PasswordWaits' \/ judging'
    <3>1. SUFFICES ASSUME NEW i \in DOMAIN to_child,
                          to_child[i] = PasswordFrame, ~judging'
                   PROVE  PasswordWaits'
      BY DEF PasswordWaits
    <3>2. to_child # <<>>
      BY <1>1
    <3>3. Head(to_child) # PasswordFrame /\ to_child' = Tail(to_child)
      BY <1>4, <3>1, <3>2 DEF PromptRead, ChildReadsEOF
    <3>4. i # 1
      BY <1>1, <3>1, <3>2, <3>3
    <3>5. i - 1 \in DOMAIN Tail(to_child)
          /\ Tail(to_child)[i - 1] = to_child[i]
      BY <1>1, <3>2, <3>4
    <3> QED BY <3>1, <3>3, <3>5 DEF PasswordWaits
  <2>2. judging => judging'
    BY <1>4 DEF PromptRead
  <2> QED BY <1>4, <2>1, <2>2 DEF PromptRead, AnswerWaits, Decided, ChildGone
<1>5. CASE \E e \in Events : GdmEvent(e)
  <2>1. PICK e \in Events : GdmEvent(e)
    BY <1>5
  <2>2. PICK f \in EventFrames(e) : comm_child_write(f, "auth")
    BY <2>1 DEF GdmEvent
  <2>3. f \in ChildFrame /\ to_main' = Append(to_main, f)
    BY <2>2, ChildFrames DEF comm_child_write
  <2>4. judging => judging' \/ f.type # "LIST"
    <3>1. CASE e \in {"startAuthentication", "authEvent"}
      <4>1. f \in {StageFrame("CHALLENGE"), EventFrame}
        BY <2>2, <3>1 DEF EventFrames
      <4> QED BY <4>1 DEF StageFrame, EventFrame, Plain
    <3>2. CASE e \notin {"startAuthentication", "authEvent"}
      <4>1. judging' = (judging /\ e \notin {"startAuthentication", "authEvent"})
        BY <2>1 DEF GdmEvent
      <4> QED BY <3>2, <4>1, Zenon
    <3> QED BY <3>1, <3>2
  <2> QED
    BY <1>2, <2>1, <2>3, <2>4 DEF GdmEvent, PasswordWaits, Decided, ChildGone
<1>6. CASE GdmPoll
  <2> DEFINE room  == IF user_selected_sent THEN MaxPending ELSE MaxPending - 1
             taken == IF Len(to_child) < room THEN Len(to_child) ELSE room
  <2>1. MaxPending \in Nat \ {0}
    BY PamAssumption
  <2>2. Len(to_child) \in Nat /\ taken \in 0 .. Len(to_child)
    BY <1>1, <2>1
  <2>3. /\ to_child' = SubSeq(to_child, taken + 1, Len(to_child))
        /\ judging' = (judging
             \/ \E i \in 1 .. taken : to_child[i] = PasswordFrame)
        /\ UNCHANGED <<child, to_main>>
    BY <1>6 DEF GdmPoll
  <2> HIDE DEF taken
  <2>4. PasswordWaits => PasswordWaits' \/ judging'
    <3>0. ASSUME NEW i \in DOMAIN to_child, to_child[i] = PasswordFrame,
                 ~(i > taken)
          PROVE  judging'
      <4>1. i \in 1 .. taken
        BY <1>1, <2>2, <3>0
      <4> QED BY <2>3, <3>0, <4>1, Zenon
    <3>1. SUFFICES ASSUME NEW i \in DOMAIN to_child,
                          to_child[i] = PasswordFrame, i > taken
                   PROVE  PasswordWaits'
      BY <3>0, Zenon DEF PasswordWaits
    <3>2. i - taken \in DOMAIN to_child'
          /\ to_child'[i - taken] = to_child[i]
      BY <1>1, <2>2, <2>3, <3>1
    <3> QED BY <3>1, <3>2 DEF PasswordWaits
  <2> QED BY <2>3, <2>4 DEF AnswerWaits
<1>7. CASE \E status \in PamErrors \cup {"SUCCESS"} : PamReturn(status)
  BY <1>7 DEF PamReturn, Decided
<1>8. CASE ReportResult
  <2> DEFINE f == ResultFrame(pam_status = "SUCCESS")
  <2>1. f \in ChildFrame /\ f.type # "LIST"
    BY ChildFrames DEF ResultFrame
  <2>2. to_main' = Append(to_main, f)
    BY <1>8 DEF ReportResult, comm_child_write
  <2> HIDE DEF f
  <2> QED BY <1>2, <2>1, <2>2
<1>9. CASE PamEnd \/ PamCrash
  BY <1>9 DEF PamEnd, PamCrash, Decided, ChildGone
<1>10. CASE \E e \in Events : GdmEventUnsent(e)
  BY <1>10 DEF GdmEventUnsent, PasswordWaits, AnswerWaits
<1> QED
  BY <1>3, <1>4, <1>5, <1>6, <1>7, <1>8, <1>9, <1>10 DEF ChildStep, ChildNext

\* "Verifying" is shown only while an answer can still come.
THEOREM VerifyingCorrect == Spec => []NoStuckVerifying
<1> DEFINE Waiting == MainUp /\ run_display /\ auth_state = "VALIDATING"
<1>1. NoStuckVerifying <=> (Waiting => AnswerWillCome)
  BY DEF NoStuckVerifying, AnswerWillCome, PasswordWaits, AnswerWaits, Decided
<1>2. Init => NoStuckVerifying
  BY DEF Init, MainInit, NoStuckVerifying
<1>3. SafetyInv /\ NoStuckVerifying /\ [Next]_vars => NoStuckVerifying'
  <2> SUFFICES ASSUME SafetyInv, NoStuckVerifying, [Next]_vars, Waiting'
               PROVE  AnswerWillCome'
    BY DEF NoStuckVerifying, AnswerWillCome, PasswordWaits, AnswerWaits, Decided
  <2>1. CASE MainStep
    <3>1. MainUp
      BY <2>1, MainEffect DEF MainStep, SafetyInv, TypeOK, Typed,
         unlock_and_destroy, MainUp, BetweenIterations
    <3> QED BY <1>1, <2>1, <3>1, VerifyingMain
  <2>2. CASE ChildStep
    <3>1. UNCHANGED <<main, run_display, auth_state>>
      BY <2>2 DEF ChildStep, mainVars, inputVars
    <3> QED BY <1>1, <2>2, <3>1, VerifyingChild DEF MainUp
  <2>3. CASE UNCHANGED vars
    BY <1>1, <2>3 DEF vars, mainVars, inputVars, childVars, MainUp,
       AnswerWillCome, PasswordWaits, AnswerWaits
  <2> QED BY <2>1, <2>2, <2>3 DEF Next
<1> QED BY <1>2, <1>3, Invariance, PTL DEF Spec

\* The screen shows the state after every callback, if memory does not run out.
THEOREM DisplayCorrect ==
  ASSUME FALSE \notin AllocOutcomes
  PROVE  Spec => []DisplayCurrent
<1>1. Init => DisplayCurrent
  BY DEF Init, MainInit, DisplayCurrent
<1>2. DisplayCurrent /\ [Next]_vars => DisplayCurrent'
  <2> SUFFICES ASSUME DisplayCurrent, [Next]_vars PROVE DisplayCurrent'
    OBVIOUS
  <2>1. CASE MainStep
    BY <2>1, DisplayStep DEF MainStep
  <2>2. CASE ChildStep \/ UNCHANGED vars
    BY <2>2 DEF ChildStep, vars, mainVars, inputVars, authdVars, View, MainUp,
       DisplayCurrent
  <2> QED BY <2>1, <2>2 DEF Next
<1> QED BY <1>1, <1>2, PTL DEF Spec

-----------------------------------------------------------------------------
\* The window of a selection list.

\* Half of a window is shorter than the window.
LEMMA Half == max_vis \div 2 \in 0 .. max_vis - 1
BY MaxVisAssumption

\* The window drawn for a list of n entries whose selection is s.
LEMMA WindowFits ==
  ASSUME NEW n \in Nat \ {0}, NEW s \in 0 .. n - 1,
         NEW v \in 0 .. n, NEW b \in Nat,
         v = IF n < max_vis THEN n ELSE max_vis,
         b = IF ~(n > max_vis /\ s >= 0) \/ s - (max_vis \div 2) < 0 THEN 0
             ELSE IF s - (max_vis \div 2) + max_vis > n THEN n - max_vis
             ELSE s - (max_vis \div 2)
  PROVE  /\ b + v <= n
         /\ s \in b .. b + v - 1
<1> DEFINE h == max_vis \div 2
<1>1. h \in 0 .. max_vis - 1
  BY Half
<1> HIDE DEF h
<1>2. b = IF ~(n > max_vis /\ s >= 0) \/ s - h < 0 THEN 0
          ELSE IF s - h + max_vis > n THEN n - max_vis ELSE s - h
  BY DEF h
<1> QED
  BY <1>1, <1>2, MaxVisAssumption

\* An index inside the list is inside the window, and the window inside the
\* list: render_frame() after any history of lists and keys.
LEMMA InRangeIsVisible ==
  ASSUME MainTypeOK, SelectionInRange
  PROVE  SelectionVisible
<1> SUFFICES ASSUME NEW st \in ListStage
             PROVE  /\ Drawn(st) \subseteq 0 .. count(st) - 1
                    /\ count(st) > 0 => sel(st) \in Drawn(st)
  BY DEF SelectionVisible
<1>1. /\ count(st) \in Nat
      /\ count(st) = 0 <=> authd_items[st] = <<>>
      /\ sel(st) \in Int
  BY EmptySeq DEF MainTypeOK, count, sel
<1>2. CASE count(st) = 0
  <2>1. vis_count(st) = 0
    BY <1>2, MaxVisAssumption DEF vis_count
  <2>2. start(st) = 0
    BY <1>1, <1>2, MaxVisAssumption DEF start
  <2> QED
    BY <1>2, <2>1, <2>2 DEF Drawn
<1>3. CASE count(st) # 0
  <2> DEFINE n == count(st)
             s == sel(st)
  <2>1. n \in Nat \ {0} /\ s \in 0 .. n - 1
    BY <1>1, <1>3 DEF SelectionInRange, count, sel
  <2>2. vis_count(st) = IF n < max_vis THEN n ELSE max_vis
    BY DEF vis_count
  <2>3. start(st) = IF ~(n > max_vis /\ s >= 0) \/ s - (max_vis \div 2) < 0 THEN 0
                    ELSE IF s - (max_vis \div 2) + max_vis > n THEN n - max_vis
                    ELSE s - (max_vis \div 2)
    BY DEF start
  <2> HIDE DEF n, s
  <2>4. vis_count(st) \in 0 .. n
    BY <2>1, <2>2, MaxVisAssumption
  <2>5. start(st) \in Nat
    BY <2>1, <2>3, Half, MaxVisAssumption
  <2>6. /\ start(st) + vis_count(st) <= n
        /\ s \in start(st) .. start(st) + vis_count(st) - 1
    BY <2>1, <2>2, <2>3, <2>4, <2>5, WindowFits
  <2> QED
    BY <2>1, <2>4, <2>5, <2>6 DEF Drawn, n, s
<1> QED
  BY <1>2, <1>3

\* The entry that Return confirms is drawn, and nothing beyond the list is.
THEOREM SelectionDrawn == Spec => []SelectionVisible
<1>1. TypeOK => MainTypeOK
  BY DEF TypeOK
<1> QED
  BY <1>1, TypeCorrect, SelectionCorrect, InRangeIsVisible, PTL

-----------------------------------------------------------------------------
\* Refinement: every step is a step of LockScreen or changes nothing in it.

LEMMA LockStepRefines ==
  ASSUME SafetyInv, Next
  PROVE  [Lock!LockNext]_(Lock!lockVars)
<1> USE DEF Lock!LockNext, Lock!Grant, Lock!Unlock, Lock!Quit, Lock!lockVars
<1>0. Verdict => Verdict'
  BY VerdictStable
<1>1. CASE MainStep /\ unlock_and_destroy
  <2>1. /\ MainUp
        /\ ~MainUp'
        /\ Verdict' = Verdict
        /\ ~run_display
        /\ session' = IF display_up THEN "unlocked" ELSE session
    BY <1>1 DEF MainStep, unlock_and_destroy, BetweenIterations, MainUp, Verdict
  <2>2. display_up => Verdict
    BY <2>1 DEF SafetyInv, LockInv
  <2> QED BY <2>1, <2>2 DEF MainUp
<1>2. CASE MainStep /\ ~unlock_and_destroy
  <2>1. /\ MainUp
        /\ session' = session
        /\ sigusr' = sigusr \/ (sigusr' /\ UNCHANGED main)
        /\ UNCHANGED pam_status
    BY <1>2, MainEffect DEF MainStep, SafetyInv, TypeOK, Typed
  <2>2. CASE sigusr' = sigusr
    <3>1. Verdict' = Verdict
      BY <2>1, <2>2 DEF Verdict
    <3> QED BY <2>1, <3>1 DEF MainUp
  <2>3. CASE sigusr' /\ UNCHANGED main
    <3>1. Verdict' = TRUE
      BY <2>3, Zenon DEF Verdict
    <3> QED BY <2>1, <2>3, <3>1 DEF MainUp
  <2> QED BY <2>1, <2>2, <2>3
<1>3. CASE ChildStep
  <2>1. UNCHANGED <<session, main>>
    BY <1>3 DEF ChildStep, mainVars, envVars
  <2>2. Verdict' = Verdict \/ (~Verdict /\ Verdict' = TRUE)
    BY <1>0, Zenon DEF Verdict
  <2>3. CASE Verdict' = Verdict
    BY <2>1, <2>3 DEF MainUp
  <2>4. CASE ~Verdict /\ Verdict' = TRUE
    BY <2>1, <2>4 DEF MainUp
  <2> QED BY <2>2, <2>3, <2>4
<1> QED BY <1>1, <1>2, <1>3 DEF Next

\* swaylock is a screen locker: it implements LockScreen.
THEOREM Refinement == Spec => Implements
<1>1. Init => Lock!LockInit
  BY DEF Init, CommInit, MainInit, PamInit, Lock!LockInit, Verdict, MainUp
<1>2. SafetyInv /\ [Next]_vars => [Lock!LockNext]_(Lock!lockVars)
  <2> SUFFICES ASSUME SafetyInv, [Next]_vars
               PROVE  [Lock!LockNext]_(Lock!lockVars)
    OBVIOUS
  <2>1. CASE Next
    BY <2>1, LockStepRefines
  <2>2. CASE UNCHANGED vars
    BY <2>2 DEF vars, mainVars, childVars, envVars, Lock!lockVars, Verdict,
       MainUp
  <2> QED BY <2>1, <2>2
<1> QED
  BY <1>1, <1>2, Invariance, PTL DEF Spec, Implements, Lock!LockSafety

=============================================================================
