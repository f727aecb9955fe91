-------------------------------- MODULE Comm --------------------------------
(***************************************************************************)
(* The two processes of swaylock and the two pipes between them, as        *)
(* comm.c presents them to its callers: whole frames, in order, one pipe   *)
(* in each direction, no pairing of requests and replies.                  *)
(*                                                                         *)
(*   comm[0]  main -> child   to_child     PASSWORD, BROKER_SEL, ...       *)
(*   comm[1]  child -> main   to_main      AUTH_RESULT, STAGE, ...         *)
(*                                                                         *)
(* A process that ends closes its ends of both pipes.  Its peer then reads *)
(* what is left and gets EOF; a write towards it raises SIGPIPE, which     *)
(* neither process handles: the writer dies unless it inherited an ignored *)
(* SIGPIPE, in which case write() fails with EPIPE.                        *)
(***************************************************************************)
EXTENDS Integers, Sequences

CONSTANTS
  PipeCap,         \* frames a pipe holds before its writer has to wait
  SigpipeIgnored,  \* SIGPIPE was ignored by the process that started swaylock
  Id,              \* identifiers of brokers and of authentication modes
  NoId             \* what an entry without an "id" string is stored as (NULL)

ASSUME CommAssumption ==
  /\ PipeCap \in Nat \ {0}
  /\ SigpipeIgnored \in BOOLEAN
  /\ NoId \notin Id

VARIABLES
  main,      \* status of the main process
  child,     \* status of the PAM (or shadow) child: where its code is
  to_child,  \* frames written by main and not yet read by the child
  to_main    \* frames written by the child and not yet read by main

commVars == <<main, child, to_child, to_main>>

(***************************************************************************)
(* "returned": main() unlocked the session and returned 0; "failed": it    *)
(* called exit(EXIT_FAILURE) with the session still locked; "killed": it   *)
(* died of a signal.                                                       *)
(***************************************************************************)
MainStatus  == {"running", "returned", "failed", "killed"}

ChildGone   == {"exited", "crashed"}
ChildStatus == {"auth", "prompt", "report", "end"}    \* pam.c
               \cup {"wait", "crypt", "sleep"}        \* shadow.c, and "end"
               \cup ChildGone

MainUp  == main = "running"
ChildUp == child \notin ChildGone

-----------------------------------------------------------------------------
\* Enumerations of include/swaylock.h and frames of include/comm.h.

ListStage == {"BROKER", "AUTH_MODE"}
Stage     == {"NONE", "CHALLENGE"} \cup ListStage
Item      == Id \cup {NoId}

Plain(type)       == [type |-> type]             \* BUTTON, CANCEL: no payload
PasswordFrame     == Plain("PASSWORD")
SelFrame(st, id)  == [type |-> "SEL", stage |-> st, id |-> id]
ResultFrame(ok)   == [type |-> "AUTH_RESULT", granted |-> ok]
ListFrame(st, s)  == [type |-> "LIST", stage |-> st, items |-> s]
LayoutFrame(btn)  == [type |-> "UI_LAYOUT", button |-> btn]
StageFrame(st)    == [type |-> "STAGE", stage |-> st]
EventFrame        == Plain("AUTH_EVENT")

MainFrame  == [type : {"PASSWORD", "BUTTON", "CANCEL"}]
              \cup [type : {"SEL"}, stage : ListStage, id : Id]
ChildFrame == [type : {"AUTH_RESULT"}, granted : BOOLEAN]
              \cup [type : {"LIST"}, stage : ListStage, items : Seq(Item)]
              \cup [type : {"UI_LAYOUT"}, button : BOOLEAN]
              \cup [type : {"STAGE"}, stage : Stage]
              \cup [type : {"AUTH_EVENT"}]

CommTypeOK ==
  /\ main \in MainStatus
  /\ child \in ChildStatus
  /\ to_child \in Seq(MainFrame)
  /\ to_main \in Seq(ChildFrame)

-----------------------------------------------------------------------------
\* Writing: the frame is queued, or the peer is gone and the write fails.

comm_main_write(frame) ==
  \/ /\ ChildUp
     /\ Len(to_child) < PipeCap
     /\ to_child' = Append(to_child, frame)
     /\ UNCHANGED main
  \/ /\ ~ChildUp
     /\ main' = IF SigpipeIgnored THEN main ELSE "killed"
     /\ UNCHANGED to_child

\* The child goes on at status next, whatever comm_child_write() returned.
comm_child_write(frame, next) ==
  \/ /\ MainUp
     /\ Len(to_main) < PipeCap
     /\ to_main' = Append(to_main, frame)
     /\ child' = next
  \/ /\ ~MainUp
     /\ child' = IF SigpipeIgnored THEN next ELSE "crashed"
     /\ UNCHANGED to_main

\* Reading: comm_read() returns 0 once the queue is empty and the writer gone.
ChildReadsEOF == to_child = <<>> /\ ~MainUp

CommInit(first) ==
  /\ main = "running"
  /\ child = first
  /\ to_child = <<>>
  /\ to_main = <<>>

=============================================================================
