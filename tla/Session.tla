------------------------------ MODULE Session ------------------------------
(***************************************************************************)
(* main() outside its event loop, for several invocations of swaylock in   *)
(* one session: connecting, asking the compositor for the lock, telling    *)
(* the launcher (--ready-fd, --daemonize), installing the SIGUSR1 handler, *)
(* unlocking, and --steal-unlock, which takes a lock only to give it back. *)
(*                                                                         *)
(* What happens inside the loop is the subject of Swaylock; here the loop  *)
(* ends by a verdict or without one.  The compositor follows               *)
(* ext-session-lock-v1: one client holds the lock, a second one is         *)
(* refused as long as the first is connected, and the session stays locked *)
(* when a client goes away without unlocking.  It reads requests and       *)
(* notices closed connections in its own time.                             *)
(***************************************************************************)
EXTENDS Naturals, Sequences, SequencesExt

CONSTANTS
  Procs,        \* invocations of swaylock
  CommandLines, \* of all invocations, as records [steal, ready, daemonize]
  Faults        \* what may go wrong, a subset of AllFaults

NoProc == "nobody"

AllFaults == {"start-up", "write", "pipe", "fork", "chdir", "display",
              "locker", "launcher", "revoke", "SIGUSR1"}

CommandLine == [steal: BOOLEAN, ready: BOOLEAN, daemonize: BOOLEAN]

ASSUME SessionAssumption ==
  /\ NoProc \notin Procs
  /\ CommandLines \subseteq [Procs -> CommandLine]
  /\ Faults \subseteq AllFaults

VARIABLES
  opts,       \* each invocation's options
  pc,         \* where main() is, in the process that talks to the compositor
  exit,       \* how that process ended, or "no"
  newline,    \* the newline was written to --ready-fd
  launcher,   \* the parent of the fork in daemonize(): "none", "waiting",
              \* "killed" or its exit status
  byte,       \* the byte in the pipe of daemonize(), or "none"
  lost,       \* the process's Wayland connection has failed
  obj,        \* each lock object as the compositor sees it
  events,     \* events sent and not yet dispatched
  connected,  \* connections the compositor knows of
  locked,     \* the session is locked
  holder      \* the client whose lock it is

procVars == <<opts, pc, exit, newline, launcher, byte, lost>>
compVars == <<obj, events, connected, locked, holder>>
vars     == <<procVars, compVars>>

(***************************************************************************)
(* A lock object is "asked" for, then "accepted" or "refused"; "granted"   *)
(* once the event locked is sent; "revoked" if the compositor finishes it  *)
(* later; "unlocking" and "destroyed" by unlock_and_destroy; "error" if    *)
(* that request came without the event locked.                             *)
(***************************************************************************)
Given == {"granted", "revoked", "unlocking", "destroyed"}

Running(p) == exit[p] = "no"

Init ==
  /\ opts \in CommandLines
  /\ pc = [p \in Procs |-> "start"]
  /\ exit = [p \in Procs |-> "no"]
  /\ newline = [p \in Procs |-> FALSE]
  /\ launcher = [p \in Procs |-> "none"]
  /\ byte = [p \in Procs |-> "none"]
  /\ lost = [p \in Procs |-> FALSE]
  /\ obj = [p \in Procs |-> "none"]
  /\ events = [p \in Procs |-> <<>>]
  /\ connected = {}
  /\ locked = FALSE
  /\ holder = NoProc

At(p, stage) == Running(p) /\ pc[p] = stage
GoTo(p, stage) == pc' = [pc EXCEPT ![p] = stage] /\ UNCHANGED exit
ExitWith(p, status) == exit' = [exit EXCEPT ![p] = status] /\ UNCHANGED pc

-----------------------------------------------------------------------------
\* The process.

\* Up to the registry's roundtrip every failure ends in return 1.
Connect(p) ==
  /\ At(p, "start")
  /\ \/ GoTo(p, "bound") /\ connected' = connected \cup {p}
     \/ "start-up" \in Faults /\ ExitWith(p, "1") /\ UNCHANGED connected
  /\ UNCHANGED <<opts, newline, launcher, byte, lost, obj, events, locked,
                 holder>>

\* ext_session_lock_manager_v1_lock(), on either branch of steal_unlock.
RequestLock(p) ==
  /\ At(p, "bound")
  /\ obj' = [obj EXCEPT ![p] = IF lost[p] THEN @ ELSE "asked"]
  /\ GoTo(p, IF opts[p].steal THEN "dispatch" ELSE "roundtrip")
  /\ UNCHANGED <<opts, newline, launcher, byte, lost, events, connected,
                 locked, holder>>

\* Mutant: --steal-unlock does not look at locked after its loop.
AfterEvents_trusting(p, got) ==
  CASE "finished" \in got /\ ~opts[p].steal -> ExitWith(p, "2")
    [] got = {}                              -> GoTo(p, "dispatch")
    [] OTHER -> GoTo(p, IF opts[p].steal THEN "unlock" ELSE "ready")

(***************************************************************************)
(* Where main() goes after a batch of events: the handler of "finished"    *)
(* exits at once unless stealing, the handler of "locked" sets a flag, and *)
(* the loops test the flags after the whole batch.                         *)
(***************************************************************************)
AfterEvents(p, got) ==
  CASE "finished" \in got /\ ~opts[p].steal -> ExitWith(p, "2")
    [] "locked" \in got -> GoTo(p, IF opts[p].steal THEN "unlock" ELSE "ready")
    [] got = {"finished"} -> ExitWith(p, "1")
    [] OTHER -> GoTo(p, "dispatch")

\* wl_display_roundtrip() after the request: the compositor has read it.
Roundtrip(p) ==
  /\ At(p, "roundtrip")
  /\ ~lost[p]
  /\ obj[p] # "asked"
  /\ AfterEvents(p, ToSet(events[p]))
  /\ events' = [events EXCEPT ![p] = <<>>]
  /\ UNCHANGED <<opts, newline, launcher, byte, lost, obj, connected, locked,
                 holder>>

\* Mutant: the loop does not wait for the event locked.
Dispatch_hasty(p) ==
  /\ At(p, "dispatch")
  /\ GoTo(p, IF opts[p].steal THEN "unlock" ELSE "ready")
  /\ UNCHANGED <<opts, newline, launcher, byte, lost, compVars>>

\* wl_display_dispatch() in the loops that wait for locked.
Dispatch(p) ==
  /\ At(p, "dispatch")
  /\ ~lost[p]
  /\ \E n \in 1 .. Len(events[p]) :
       /\ AfterEvents(p, ToSet(SubSeq(events[p], 1, n)))
       /\ events' = [events EXCEPT ![p] = SubSeq(@, n + 1, Len(@))]
  /\ UNCHANGED <<opts, newline, launcher, byte, lost, obj, connected, locked,
                 holder>>

DisplayFailed(p) ==
  /\ lost[p]
  /\ \/ At(p, "roundtrip") /\ ExitWith(p, "1")
     \/ At(p, "dispatch") /\ ExitWith(p, IF opts[p].steal THEN "1" ELSE "2")
     \/ At(p, "loop") /\ GoTo(p, "unlock")
     \/ At(p, "sync") /\ ExitWith(p, "0")
  /\ UNCHANGED <<opts, newline, launcher, byte, lost, compVars>>

NotifyReady(p) ==
  /\ At(p, "ready")
  /\ \/ /\ GoTo(p, "daemonize")
        /\ newline' = [newline EXCEPT ![p] = opts[p].ready]
     \/ /\ opts[p].ready /\ "write" \in Faults
        /\ \E status \in {"2", "SIGPIPE"} : ExitWith(p, status)
        /\ UNCHANGED newline
  /\ UNCHANGED <<opts, launcher, byte, lost, compVars>>

\* pipe() and fork(); without a child, the parent reads the end of the pipe.
Daemonize(p) ==
  /\ At(p, "daemonize")
  /\ \/ /\ ~opts[p].daemonize
        /\ GoTo(p, "sigaction") /\ UNCHANGED launcher
     \/ /\ opts[p].daemonize
        /\ GoTo(p, "forked")
        /\ launcher' = [launcher EXCEPT ![p] = "waiting"]
     \/ /\ opts[p].daemonize /\ {"pipe", "fork"} \cap Faults # {}
        /\ ExitWith(p, "1") /\ UNCHANGED launcher
  /\ UNCHANGED <<opts, newline, byte, lost, compVars>>

\* The daemon says how it went.  Without a reader the write kills it.
DaemonReports(p) ==
  /\ At(p, "forked")
  /\ \/ /\ launcher[p] = "waiting"
        /\ byte' = [byte EXCEPT ![p] = "1"] /\ GoTo(p, "sigaction")
     \/ /\ launcher[p] = "waiting" /\ "chdir" \in Faults
        /\ byte' = [byte EXCEPT ![p] = "0"] /\ ExitWith(p, "1")
     \/ /\ launcher[p] = "killed"
        /\ \E status \in {"1", "SIGPIPE"} : ExitWith(p, status)
        /\ UNCHANGED byte
  /\ UNCHANGED <<opts, newline, launcher, lost, compVars>>

\* Mutant: the parent keeps its end of the pipe open and sees no EOF.
LauncherReads_open(p) ==
  /\ launcher[p] = "waiting"
  /\ byte[p] # "none"
  /\ launcher' = [launcher EXCEPT ![p] = IF byte[p] = "1" THEN "0" ELSE "1"]
  /\ UNCHANGED <<opts, pc, exit, newline, byte, lost, compVars>>

\* Mutant: the end of the pipe is taken for a report.
LauncherReads_lenient(p) ==
  /\ launcher[p] = "waiting"
  /\ byte[p] # "none" \/ ~Running(p)
  /\ launcher' = [launcher EXCEPT ![p] = IF byte[p] = "0" THEN "1" ELSE "0"]
  /\ UNCHANGED <<opts, pc, exit, newline, byte, lost, compVars>>

\* The parent's read() returns a byte, or EOF once the daemon has ended.
LauncherReads(p) ==
  /\ launcher[p] = "waiting"
  /\ byte[p] # "none" \/ ~Running(p)
  /\ launcher' = [launcher EXCEPT ![p] = IF byte[p] = "1" THEN "0" ELSE "1"]
  /\ UNCHANGED <<opts, pc, exit, newline, byte, lost, compVars>>

\* sigaction(SIGUSR1), run_display = true.
InstallHandler(p) ==
  /\ At(p, "sigaction")
  /\ GoTo(p, "loop")
  /\ UNCHANGED <<opts, newline, launcher, byte, lost, compVars>>

\* The event loop ends with a verdict, by an event finished, or by an
\* exit() of a handler.
LoopEnds(p) ==
  /\ At(p, "loop")
  /\ \/ GoTo(p, "unlock")
     \/ events[p] # <<>> /\ ExitWith(p, "2")
     \/ "locker" \in Faults /\ ExitWith(p, "1")
  /\ UNCHANGED <<opts, newline, launcher, byte, lost, compVars>>

\* unlock_and_destroy, sent by the roundtrip that follows.
UnlockAndDestroy(p) ==
  /\ At(p, "unlock")
  /\ obj' = [obj EXCEPT ![p] = IF lost[p] THEN @
                               ELSE IF @ \in Given THEN "unlocking"
                               ELSE "error"]
  /\ GoTo(p, "sync")
  /\ UNCHANGED <<opts, newline, launcher, byte, lost, events, connected,
                 locked, holder>>

\* The roundtrip returns; its result is not looked at.
Unlocked(p) ==
  /\ At(p, "sync")
  /\ obj[p] \in {"destroyed", "error"}
  /\ ExitWith(p, "0")
  /\ UNCHANGED <<opts, newline, launcher, byte, lost, compVars>>

\* Until the handler is installed, SIGUSR1 ends the process.
Sigusr1(p) ==
  /\ "SIGUSR1" \in Faults
  /\ Running(p)
  /\ IF pc[p] \in {"loop", "unlock", "sync"} /\ ~opts[p].steal
     THEN pc[p] = "loop" /\ GoTo(p, "unlock")
     ELSE ExitWith(p, "SIGUSR1")
  /\ UNCHANGED <<opts, newline, launcher, byte, lost, compVars>>

\* The user interrupts the waiting parent.
KillLauncher(p) ==
  /\ "launcher" \in Faults
  /\ launcher[p] = "waiting"
  /\ launcher' = [launcher EXCEPT ![p] = "killed"]
  /\ UNCHANGED <<opts, pc, exit, newline, byte, lost, compVars>>

-----------------------------------------------------------------------------
\* The compositor.

\* It reads a lock request: refused while another client has the lock.
HandleLock(p) ==
  /\ obj[p] = "asked"
  /\ IF holder \in connected
     THEN /\ obj' = [obj EXCEPT ![p] = "refused"]
          /\ events' = [events EXCEPT ![p] = Append(@, "finished")]
          /\ UNCHANGED holder
     ELSE /\ obj' = [obj EXCEPT ![p] = "accepted"]
          /\ holder' = p
          /\ UNCHANGED events
  /\ UNCHANGED <<procVars, connected, locked>>

\* The outputs show the lock: the client is told.
SendLocked(p) ==
  /\ obj[p] = "accepted"
  /\ obj' = [obj EXCEPT ![p] = "granted"]
  /\ events' = [events EXCEPT ![p] = Append(@, "locked")]
  /\ locked' = TRUE
  /\ UNCHANGED <<procVars, connected, holder>>

\* The compositor ends the lock by itself.
Revoke(p) ==
  /\ "revoke" \in Faults
  /\ obj[p] \in {"accepted", "granted"}
  /\ obj' = [obj EXCEPT ![p] = IF @ = "granted" THEN "revoked" ELSE "refused"]
  /\ events' = [events EXCEPT ![p] = Append(@, "finished")]
  /\ locked' = FALSE
  /\ holder' = NoProc
  /\ UNCHANGED <<procVars, connected>>

HandleUnlock(p) ==
  /\ obj[p] = "unlocking"
  /\ obj' = [obj EXCEPT ![p] = "destroyed"]
  /\ IF holder = p THEN locked' = FALSE /\ holder' = NoProc
                   ELSE UNCHANGED <<locked, holder>>
  /\ UNCHANGED <<procVars, events, connected>>

\* What was sent is read before the end of the connection is noticed.
Disconnect(p) ==
  /\ p \in connected
  /\ ~Running(p) \/ lost[p]
  /\ obj[p] \notin {"asked", "unlocking"}
  /\ connected' = connected \ {p}
  /\ holder' = IF obj[p] = "accepted" THEN NoProc ELSE holder
  /\ obj' = [obj EXCEPT ![p] = IF @ = "accepted" THEN "none" ELSE @]
  /\ UNCHANGED <<procVars, events, locked>>

LoseDisplay(p) ==
  /\ "display" \in Faults
  /\ Running(p) /\ pc[p] # "start" /\ ~lost[p]
  /\ lost' = [lost EXCEPT ![p] = TRUE]
  /\ UNCHANGED <<opts, pc, exit, newline, launcher, byte, compVars>>

-----------------------------------------------------------------------------
ProcessStep(p) ==
  \/ Connect(p) \/ RequestLock(p) \/ Roundtrip(p) \/ Dispatch(p)
  \/ DisplayFailed(p) \/ NotifyReady(p) \/ Daemonize(p) \/ DaemonReports(p)
  \/ InstallHandler(p) \/ UnlockAndDestroy(p) \/ Unlocked(p)

CompositorStep(p) ==
  HandleLock(p) \/ SendLocked(p) \/ HandleUnlock(p) \/ Disconnect(p)

Next ==
  \E p \in Procs :
    \/ ProcessStep(p) \/ LauncherReads(p) \/ CompositorStep(p)
    \/ LoopEnds(p) \/ Sigusr1(p) \/ KillLauncher(p)
    \/ Revoke(p) \/ LoseDisplay(p)

Spec == Init /\ [][Next]_vars

\* The processes run and the compositor serves them; the user need not
\* unlock, and nothing need go wrong.
FairSpec ==
  /\ Spec
  /\ \A p \in Procs : /\ WF_vars(ProcessStep(p))
                       /\ WF_vars(LauncherReads(p))
                       /\ WF_vars(CompositorStep(p))

-----------------------------------------------------------------------------
\* The launcher has been told that the session is locked.
Told(p) == newline[p] \/ launcher[p] = "0"

(***************************************************************************)
(* A newline on --ready-fd, or status 0 of the process that --daemonize    *)
(* leaves behind, is sent only after the compositor granted the lock.      *)
(***************************************************************************)
ReadyMeansLocked == \A p \in Procs : Told(p) => obj[p] \in Given

(***************************************************************************)
(* unlock_and_destroy is never sent for a lock that was not granted, in    *)
(* particular not by --steal-unlock when another locker has the session or *)
(* the compositor ends the lock while it is being taken.                   *)
(***************************************************************************)
NoProtocolError == \A p \in Procs : obj[p] # "error"

\* The daemon got through daemonize(): it is, or was, a locker on its own.
Daemonized(p) == pc[p] \in {"sigaction", "loop", "unlock", "sync"}

(***************************************************************************)
(* Status 0 of the process that has the connection means that it has given *)
(* the lock back, unless its display failed: no path through start-up,     *)
(* daemonize() or --steal-unlock leaves a locked session and says 0.       *)
(* Status 0 of the launcher means that the daemon got through daemonize(): *)
(* one that could not change its directory or died before its report is    *)
(* never taken for a locker, although the launcher may read the pipe long  *)
(* after the daemon has gone.                                              *)
(***************************************************************************)
StatusTruthful ==
  \A p \in Procs :
    /\ exit[p] = "0" => obj[p] = "destroyed" \/ lost[p]
    /\ launcher[p] = "0" => Daemonized(p)

(***************************************************************************)
(* Nobody is left waiting: the parent of a daemon ends even if the daemon  *)
(* dies before it reports, and --steal-unlock ends whatever the other      *)
(* lockers do.                                                             *)
(***************************************************************************)
NobodyWaits ==
  \A p \in Procs :
    /\ launcher[p] = "waiting" ~> launcher[p] # "waiting"
    /\ opts[p].steal ~> ~Running(p)

(***************************************************************************)
(* Once the launcher knows of the lock, SIGUSR1 never ends swaylock with   *)
(* the session still locked.  This does not hold: the handler is installed *)
(* after the launcher was told.                                            *)
(***************************************************************************)
SignalUnlocks ==
  \A p \in Procs :
    Told(p) /\ exit[p] = "SIGUSR1" => ~(locked /\ holder = p)

=============================================================================
