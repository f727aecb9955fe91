------------------------------ MODULE PamChild ------------------------------
(***************************************************************************)
(* The child process of the PAM backend (pam.c): it calls pam_authenticate *)
(* until the answer is something else than PAM_AUTH_ERR, and answers the   *)
(* conversation of the PAM modules by way of the main process.             *)
(*                                                                         *)
(* The PAM stack is external.  It may prompt for a password, speak the GDM *)
(* JSON protocol of authd ("events" it sends, "polls" it makes) or return, *)
(* in any order; the constants restrict what it does.  It may succeed      *)
(* without a password (a fingerprint reader is such a stack).              *)
(*                                                                         *)
(* child = "auth"    inside pam_authenticate(), conversation not running   *)
(*         "prompt"  handle_conversation() waits for a PASSWORD            *)
(*         "report"  pam_authenticate() has returned                       *)
(*         "end"     the loop was left: pam_setcred(), pam_end()           *)
(***************************************************************************)
EXTENDS Comm

CONSTANTS
  Prompts,       \* the stack prompts for passwords (no authd)
  Events,        \* GDM events the stack may send
  Offers,        \* lists of entries authd may offer
  MaxPending,    \* size of conv_state.pending (64 in the code)
  PamErrors,     \* results other than PAM_SUCCESS the stack may return
  Crashes,       \* whether the child may crash
  MaxDenials,    \* bound: answers that refuse a credential
  MaxEvents      \* bound: GDM events sent in a behaviour

AllEvents == {"brokersReceived", "authModesReceived", "uiLayoutReceived",
              "stageChanged", "startAuthentication", "authEvent"}

ASSUME PamAssumption ==
  /\ Prompts \in BOOLEAN
  /\ Events \subseteq AllEvents
  /\ Offers \subseteq Seq(Item)
  /\ MaxPending \in Nat \ {0}
  /\ PamErrors \subseteq {"AUTH_ERR", "OTHER"}
  /\ Crashes \in BOOLEAN
  /\ MaxDenials \in Nat
  /\ MaxEvents \in Nat

VARIABLES
  pam_status,          \* of the last pam_authenticate(), "none" before
  user_selected_sent,
  judging,             \* history: PAM has a credential whose answer it did
                       \* not report
  denials,             \* history: credentials refused by PAM
  events               \* history: GDM events sent

childVars == <<child, pam_status, user_selected_sent, judging, denials, events>>

PamStatus == {"none", "SUCCESS", "AUTH_ERR", "OTHER"}

PamTypeOK ==
  /\ pam_status \in PamStatus
  /\ user_selected_sent \in BOOLEAN
  /\ judging \in BOOLEAN
  /\ denials \in Nat
  /\ events \in Nat

PamInit ==
  /\ pam_status = "none"
  /\ user_selected_sent = FALSE
  /\ judging = FALSE
  /\ denials = 0
  /\ events = 0

-----------------------------------------------------------------------------
\* handle_conversation()

\* PAM_PROMPT_ECHO_OFF and _ON: announce the prompt, then wait.
PamPrompt ==
  /\ child = "auth"
  /\ Prompts
  /\ comm_child_write(StageFrame("CHALLENGE"), "prompt")
  /\ judging' = FALSE
  /\ UNCHANGED <<pam_status, user_selected_sent, denials, events, main,
                 to_child>>

\* Mutant: EOF does not end the wait.
PromptRead_ignores_eof ==
  /\ child = "prompt"
  /\ to_child # <<>>
  /\ to_child' = Tail(to_child)
  /\ IF Head(to_child) = PasswordFrame
       THEN child' = "auth" /\ judging' = TRUE
       ELSE UNCHANGED <<child, judging>>
  /\ UNCHANGED <<pam_status, user_selected_sent, denials, events, main,
                 to_main>>

\* A frame that is not a PASSWORD is dropped while waiting; EOF is PAM_ABORT.
PromptRead ==
  /\ child = "prompt"
  /\ \/ /\ to_child # <<>>
        /\ to_child' = Tail(to_child)
        /\ IF Head(to_child) = PasswordFrame
             THEN child' = "auth" /\ judging' = TRUE
             ELSE UNCHANGED <<child, judging>>
     \/ /\ ChildReadsEOF
        /\ child' = "auth"
        /\ UNCHANGED <<to_child, judging>>
  /\ UNCHANGED <<pam_status, user_selected_sent, denials, events, main,
                 to_main>>

-----------------------------------------------------------------------------
\* handle_gdm_json()

\* What an event is turned into on the way to the main process.
EventFrames(e) ==
  CASE e = "brokersReceived"     -> {ListFrame("BROKER", s) : s \in Offers}
    [] e = "authModesReceived"   -> {ListFrame("AUTH_MODE", s) : s \in Offers}
    [] e = "uiLayoutReceived"    -> {LayoutFrame(b) : b \in BOOLEAN}
    [] e = "stageChanged"        -> {StageFrame(st) : st \in Stage}
    [] e = "startAuthentication" -> {StageFrame("CHALLENGE")}
    [] e = "authEvent"           -> {EventFrame}

\* authd answers a credential with authEvent, or with startAuthentication when
\* it is refused and may be tried again (auth.Retry).
GdmEvent(e) ==
  LET retry == e = "startAuthentication" /\ judging
  IN  /\ child = "auth"
      /\ e \in Events
      /\ events < MaxEvents
      /\ events' = events + 1
      /\ retry => denials < MaxDenials
      /\ denials' = IF retry THEN denials + 1 ELSE denials
      /\ judging' = (judging /\ e \notin {"startAuthentication", "authEvent"})
      /\ \E f \in EventFrames(e) : comm_child_write(f, "auth")
      /\ UNCHANGED <<pam_status, user_selected_sent, main, to_child>>

\* Nothing is written for an authEvent without a response, nor when the JSON
\* to be sent cannot be printed (out of memory).  The event is acknowledged.
GdmEventUnsent(e) ==
  /\ child = "auth"
  /\ e \in Events \ {"stageChanged", "startAuthentication"}
  /\ events < MaxEvents
  /\ events' = events + 1
  /\ UNCHANGED <<child, pam_status, user_selected_sent, judging, denials, main,
                 to_child, to_main>>

\* Mutant: frames that the response has no room for are lost.
GdmPoll_loses ==
  LET room  == IF user_selected_sent THEN MaxPending ELSE MaxPending - 1
      taken == IF Len(to_child) < room THEN Len(to_child) ELSE room
  IN  /\ child = "auth"
      /\ Events # {}
      /\ user_selected_sent => to_child # <<>>
      /\ user_selected_sent' = TRUE
      /\ to_child' = <<>>
      /\ judging' = \/ judging
                     \/ \E i \in 1 .. taken : to_child[i] = PasswordFrame
      /\ UNCHANGED <<child, pam_status, denials, events, main, to_main>>

\* A poll takes the frames that are waiting, as many as the response has room
\* for; the first poll of all also reports the user's name.  After EOF it finds
\* nothing, and authd polls again.
GdmPoll ==
  LET room  == IF user_selected_sent THEN MaxPending ELSE MaxPending - 1
      taken == IF Len(to_child) < room THEN Len(to_child) ELSE room
  IN  /\ child = "auth"
      /\ Events # {}
      /\ user_selected_sent => to_child # <<>>
      /\ user_selected_sent' = TRUE
      /\ to_child' = SubSeq(to_child, taken + 1, Len(to_child))
      /\ judging' = \/ judging
                     \/ \E i \in 1 .. taken : to_child[i] = PasswordFrame
      /\ UNCHANGED <<child, pam_status, denials, events, main, to_main>>

-----------------------------------------------------------------------------
\* run_pw_backend_child()

\* pam_authenticate() returns.  Once the main process is gone nobody is refused
\* anything, and the bound does not apply.
PamReturn(status) ==
  /\ child = "auth"
  /\ status # "SUCCESS" => denials < MaxDenials \/ ~MainUp
  /\ child' = "report"
  /\ pam_status' = status
  /\ judging' = FALSE
  /\ denials' = IF status # "SUCCESS" /\ MainUp THEN denials + 1 ELSE denials
  /\ UNCHANGED <<user_selected_sent, events, main, to_child, to_main>>

\* Mutant: every answer but PAM_AUTH_ERR is taken for a success.
ReportResult_lenient ==
  /\ child = "report"
  /\ comm_child_write(ResultFrame(pam_status # "AUTH_ERR"),
                      IF pam_status = "AUTH_ERR" THEN "auth" ELSE "end")
  /\ UNCHANGED <<pam_status, user_selected_sent, judging, denials, events,
                 main, to_child>>

ReportResult ==
  /\ child = "report"
  /\ comm_child_write(ResultFrame(pam_status = "SUCCESS"),
                      IF pam_status = "AUTH_ERR" THEN "auth" ELSE "end")
  /\ UNCHANGED <<pam_status, user_selected_sent, judging, denials, events,
                 main, to_child>>

PamEnd ==
  /\ child = "end"
  /\ child' = "exited"
  /\ UNCHANGED <<pam_status, user_selected_sent, judging, denials, events,
                 main, to_child, to_main>>

\* A PAM module may bring its process down at any time.
PamCrash ==
  /\ ChildUp
  /\ Crashes
  /\ child' = "crashed"
  /\ UNCHANGED <<pam_status, user_selected_sent, judging, denials, events,
                 main, to_child, to_main>>

ChildNext ==
  \/ PamPrompt
  \/ PromptRead
  \/ \E e \in Events : GdmEvent(e) \/ GdmEventUnsent(e)
  \/ GdmPoll
  \/ \E status \in PamErrors \cup {"SUCCESS"} : PamReturn(status)
  \/ ReportResult
  \/ PamEnd
  \/ PamCrash

=============================================================================
