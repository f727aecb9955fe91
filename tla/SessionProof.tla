---------------------------- MODULE SessionProof ----------------------------
(***************************************************************************)
(* Theorems about main() on its way to the event loop: first about locking *)
(* and unlocking, for any number of invocations, any command lines and any *)
(* of the faults; then about the options, for anything that is written on  *)
(* the command line and in the configuration files.                        *)
(***************************************************************************)
EXTENDS Session, Options, SequenceTheorems, FiniteSetTheorems,
        WellFoundedInduction, TLAPS

\* Where main() has seen the event locked.
Holding == {"ready", "daemonize", "forked", "sigaction", "loop", "unlock", "sync"}

Stage     == {"start", "bound", "roundtrip", "dispatch"} \cup Holding
Status    == {"0", "1", "2", "SIGPIPE", "SIGUSR1"}
LockState == {"none", "asked", "accepted", "refused", "error"} \cup Given

SessionTypeOK ==
  /\ opts \in [Procs -> CommandLine]
  /\ pc \in [Procs -> Stage]
  /\ exit \in [Procs -> Status \cup {"no"}]
  /\ newline \in [Procs -> BOOLEAN]
  /\ launcher \in [Procs -> {"none", "waiting", "killed", "0", "1"}]
  /\ lost \in [Procs -> BOOLEAN]
  /\ obj \in [Procs -> LockState]
  /\ events \in [Procs -> Seq({"locked", "finished"})]

\* The properties, and what they rest on: the lock object is fresh until it
\* is asked for, and the event locked is sent only for one that was granted.
ProcInv(p) ==
  /\ pc[p] \in {"start", "bound"} => obj[p] = "none" /\ events[p] = <<>>
  /\ "locked" \in ToSet(events[p]) => obj[p] \in Given
  /\ pc[p] \in Holding => obj[p] \in Given
  /\ newline[p] \/ launcher[p] # "none" => obj[p] \in Given
  /\ obj[p] # "error"
  /\ exit[p] = "0" => obj[p] = "destroyed" \/ lost[p]

SessionInv == SessionTypeOK /\ \A p \in Procs : ProcInv(p)

-----------------------------------------------------------------------------
\* What a dispatch takes, and what it leaves, was in the queue.
LEMMA PartOfSequence ==
  ASSUME NEW s \in Seq({"locked", "finished"}), NEW n \in 1 .. Len(s)
  PROVE  /\ ToSet(SubSeq(s, 1, n)) \subseteq ToSet(s)
         /\ SubSeq(s, n + 1, Len(s)) \in Seq({"locked", "finished"})
         /\ ToSet(SubSeq(s, n + 1, Len(s))) \subseteq ToSet(s)
<1>1. ToSet(SubSeq(s, 1, n)) \subseteq ToSet(s)
  BY DEF ToSet
<1>2. SubSeq(s, n + 1, Len(s)) \in Seq({"locked", "finished"})
  OBVIOUS
<1>3. ToSet(SubSeq(s, n + 1, Len(s))) \subseteq ToSet(s)
  BY DEF ToSet
<1> QED
  BY <1>1, <1>2, <1>3

\* What an event adds to the queue.
LEMMA Appended ==
  ASSUME NEW s \in Seq({"locked", "finished"}), NEW e \in {"locked", "finished"}
  PROVE  /\ Append(s, e) \in Seq({"locked", "finished"})
         /\ ToSet(Append(s, e)) = ToSet(s) \cup {e}
<1>1. Append(s, e) \in Seq({"locked", "finished"})
  OBVIOUS
<1>2. ToSet(Append(s, e)) = ToSet(s) \cup {e}
  <2>1. DOMAIN Append(s, e) = DOMAIN s \cup {Len(s) + 1}
    OBVIOUS
  <2>2. \A i \in DOMAIN s : Append(s, e)[i] = s[i]
    OBVIOUS
  <2>3. Append(s, e)[Len(s) + 1] = e
    OBVIOUS
  <2> QED
    BY <2>1, <2>2, <2>3, Zenon DEF ToSet
<1> QED
  BY <1>1, <1>2

\* The process has dispatched some or none of its events.
EventsTaken(p) ==
  /\ events' \in [Procs -> Seq({"locked", "finished"})]
  /\ ToSet(events'[p]) \subseteq ToSet(events[p])
  /\ events[p] = <<>> => events'[p] = <<>>
  /\ \A q \in Procs \ {p} : events'[q] = events[q]

\* The empty queue.
LEMMA NoEvents == <<>> \in Seq({"locked", "finished"}) /\ ToSet(<<>>) = {}
BY DEF ToSet

-----------------------------------------------------------------------------
\* Steps.  A step concerns one process: for the others nothing changes.

Untouched(q) ==
  /\ pc'[q] = pc[q] /\ exit'[q] = exit[q]
  /\ newline'[q] = newline[q] /\ launcher'[q] = launcher[q] /\ lost'[q] = lost[q]
  /\ obj'[q] = obj[q] /\ events'[q] = events[q]

\* It is enough to look at the process that takes the step.
LEMMA LocalStep ==
  ASSUME SessionInv, NEW p \in Procs, SessionTypeOK', ProcInv(p)',
         \A q \in Procs \ {p} : Untouched(q)
  PROVE  SessionInv'
<1>1. ASSUME NEW q \in Procs, q # p PROVE ProcInv(q)'
  BY <1>1 DEF SessionInv, ProcInv, Untouched
<1> QED
  BY <1>1 DEF SessionInv

\* What the invariant says of the process that takes the step.
LEMMA OfProcess ==
  ASSUME SessionInv, NEW p \in Procs
  PROVE  SessionTypeOK /\ ProcInv(p)
BY DEF SessionInv

\* The process ends, having perhaps taken some events.
LEMMA ExitInv ==
  ASSUME SessionInv, NEW p \in Procs, NEW status \in Status,
         ExitWith(p, status), status = "0" => obj[p] = "destroyed" \/ lost[p],
         UNCHANGED <<opts, newline, launcher, lost, obj>>, EventsTaken(p)
  PROVE  SessionInv'
<1>1. SessionTypeOK /\ ProcInv(p)
  BY OfProcess
<1>2. SessionTypeOK'
  BY <1>1 DEF SessionTypeOK, ExitWith, EventsTaken
<1>3. ProcInv(p)'
  BY <1>1 DEF SessionTypeOK, ProcInv, ExitWith, EventsTaken
<1>4. \A q \in Procs \ {p} : Untouched(q)
  BY <1>1 DEF SessionTypeOK, ExitWith, EventsTaken, Untouched
<1> QED
  BY <1>2, <1>3, <1>4, LocalStep

\* The process moves to a place that its lock object allows.
LEMMA GoInv ==
  ASSUME SessionInv, NEW p \in Procs, NEW stage \in Stage \ {"start", "bound"},
         GoTo(p, stage), stage \in Holding => obj[p] \in Given,
         UNCHANGED <<opts, newline, launcher, lost, obj>>, EventsTaken(p)
  PROVE  SessionInv'
<1>1. SessionTypeOK /\ ProcInv(p)
  BY OfProcess
<1>2. SessionTypeOK'
  BY <1>1 DEF SessionTypeOK, GoTo, EventsTaken
<1>3. ProcInv(p)'
  BY <1>1 DEF SessionTypeOK, ProcInv, GoTo, EventsTaken
<1>4. \A q \in Procs \ {p} : Untouched(q)
  BY <1>1 DEF SessionTypeOK, GoTo, EventsTaken, Untouched
<1> QED
  BY <1>2, <1>3, <1>4, LocalStep

\* The loops that wait for the event locked.
LEMMA AfterEventsInv ==
  ASSUME SessionInv, NEW p \in Procs, NEW got \in SUBSET ToSet(events[p]),
         AfterEvents(p, got), UNCHANGED <<opts, newline, launcher, lost, obj>>,
         EventsTaken(p)
  PROVE  SessionInv'
<1>1. "locked" \in got => obj[p] \in Given
  BY OfProcess DEF ProcInv
<1>2. \/ ExitWith(p, "1") \/ ExitWith(p, "2")
      \/ GoTo(p, "unlock") /\ obj[p] \in Given
      \/ GoTo(p, "ready") /\ obj[p] \in Given
      \/ GoTo(p, "dispatch")
  BY <1>1, Zenon DEF AfterEvents
<1>3. CASE ExitWith(p, "1")
  BY <1>3, ExitInv DEF Status
<1>4. CASE ExitWith(p, "2")
  BY <1>4, ExitInv DEF Status
<1>5. CASE GoTo(p, "unlock") /\ obj[p] \in Given
  BY <1>5, GoInv DEF Stage, Holding
<1>6. CASE GoTo(p, "ready") /\ obj[p] \in Given
  BY <1>6, GoInv DEF Stage, Holding
<1>7. CASE GoTo(p, "dispatch")
  BY <1>7, GoInv DEF Stage, Holding
<1> QED
  BY <1>2, <1>3, <1>4, <1>5, <1>6, <1>7

\* The process waits for events, works, ends its loop or is signalled.
LEMMA ProcessMoves ==
  ASSUME SessionInv, NEW p \in Procs,
         \/ Roundtrip(p) \/ Dispatch(p) \/ DisplayFailed(p) \/ DaemonReports(p)
         \/ InstallHandler(p) \/ LoopEnds(p) \/ Unlocked(p) \/ Sigusr1(p)
  PROVE  SessionInv'
<1>1. events[p] \in Seq({"locked", "finished"})
  BY OfProcess DEF SessionTypeOK
<1>2. CASE Roundtrip(p)
  <2>1. EventsTaken(p)
    <3>1. events \in [Procs -> Seq({"locked", "finished"})]
      BY OfProcess DEF SessionTypeOK
    <3> QED
      BY <1>2, <3>1, NoEvents DEF Roundtrip, EventsTaken
  <2> QED
    BY <1>2, <2>1, AfterEventsInv DEF Roundtrip
<1>3. CASE Dispatch(p)
  <2>1. PICK n \in 1 .. Len(events[p]) :
          /\ AfterEvents(p, ToSet(SubSeq(events[p], 1, n)))
          /\ events' = [events EXCEPT ![p] = SubSeq(@, n + 1, Len(@))]
    BY <1>3 DEF Dispatch
  <2>2. EventsTaken(p)
    <3>1. events \in [Procs -> Seq({"locked", "finished"})] /\ events[p] # <<>>
      BY OfProcess DEF SessionTypeOK
    <3>2. /\ SubSeq(events[p], n + 1, Len(events[p])) \in Seq({"locked", "finished"})
          /\ ToSet(SubSeq(events[p], n + 1, Len(events[p]))) \subseteq ToSet(events[p])
      BY <1>1, PartOfSequence
    <3> QED
      BY <2>1, <3>1, <3>2 DEF EventsTaken
  <2>3. ToSet(SubSeq(events[p], 1, n)) \in SUBSET ToSet(events[p])
    BY <1>1, PartOfSequence
  <2>4. UNCHANGED <<opts, newline, launcher, lost, obj>>
    BY <1>3 DEF Dispatch
  <2> QED
    BY <2>1, <2>2, <2>3, <2>4, AfterEventsInv
<1>4. CASE \/ DisplayFailed(p) \/ DaemonReports(p) \/ InstallHandler(p)
           \/ LoopEnds(p) \/ Unlocked(p) \/ Sigusr1(p)
  <2>1. /\ UNCHANGED <<opts, newline, launcher, lost, obj>>
        /\ UNCHANGED events
    BY <1>4 DEF DisplayFailed, DaemonReports, InstallHandler, LoopEnds, Unlocked,
                Sigusr1, compVars
  <2>2. EventsTaken(p)
    BY <1>1, <2>1, OfProcess DEF EventsTaken, SessionTypeOK
  <2>3. /\ pc[p] \in Holding => obj[p] \in Given
        /\ obj[p] # "error"
    BY OfProcess DEF ProcInv
  <2>4. \/ \E status \in {"1", "2", "SIGPIPE", "SIGUSR1"} : ExitWith(p, status)
        \/ ExitWith(p, "0") /\ (obj[p] = "destroyed" \/ lost[p])
        \/ GoTo(p, "unlock") /\ obj[p] \in Given
        \/ GoTo(p, "sigaction") /\ obj[p] \in Given
        \/ GoTo(p, "loop") /\ obj[p] \in Given
    <3>1. CASE DisplayFailed(p)
      BY <3>1, <2>3 DEF DisplayFailed, At, Holding
    <3>2. CASE DaemonReports(p)
      BY <3>2, <2>3 DEF DaemonReports, At, Holding
    <3>3. CASE InstallHandler(p)
      BY <3>3, <2>3 DEF InstallHandler, At, Holding
    <3>4. CASE LoopEnds(p)
      BY <3>4, <2>3 DEF LoopEnds, At, Holding
    <3>5. CASE Unlocked(p)
      BY <3>5, <2>3 DEF Unlocked, At
    <3>6. CASE Sigusr1(p)
      BY <3>6, <2>3 DEF Sigusr1, Holding
    <3> QED
      BY <1>4, <3>1, <3>2, <3>3, <3>4, <3>5, <3>6
  <2>5. ASSUME NEW status \in {"1", "2", "SIGPIPE", "SIGUSR1"}, ExitWith(p, status)
        PROVE  SessionInv'
    BY <2>1, <2>2, <2>5, ExitInv DEF Status
  <2>6. CASE ExitWith(p, "0") /\ (obj[p] = "destroyed" \/ lost[p])
    BY <2>1, <2>2, <2>6, ExitInv DEF Status
  <2>7. CASE GoTo(p, "unlock") /\ obj[p] \in Given
    BY <2>1, <2>2, <2>7, GoInv DEF Stage, Holding
  <2>8. CASE GoTo(p, "sigaction") /\ obj[p] \in Given
    BY <2>1, <2>2, <2>8, GoInv DEF Stage, Holding
  <2>9. CASE GoTo(p, "loop") /\ obj[p] \in Given
    BY <2>1, <2>2, <2>9, GoInv DEF Stage, Holding
  <2> QED
    BY <2>4, <2>5, <2>6, <2>7, <2>8, <2>9
<1> QED
  BY <1>2, <1>3, <1>4

\* The start, the lock request, what the launcher is told, unlocking.
LEMMA ProcessTells ==
  ASSUME SessionInv, NEW p \in Procs,
         \/ Connect(p) \/ RequestLock(p) \/ NotifyReady(p) \/ Daemonize(p)
         \/ LauncherReads(p) \/ KillLauncher(p) \/ UnlockAndDestroy(p)
         \/ LoseDisplay(p)
  PROVE  SessionInv'
<1>0. SessionTypeOK /\ ProcInv(p)
  BY OfProcess
<1>1. CASE Connect(p)
  <2>1. SessionTypeOK'
    BY <1>0, <1>1 DEF Connect, SessionTypeOK, GoTo, ExitWith, compVars,
       procVars, Stage, Status, LockState, Given, Holding, At
  <2>2. ProcInv(p)'
    BY <1>0, <1>1 DEF Connect, SessionTypeOK, ProcInv, At, Running, GoTo,
       ExitWith, compVars, procVars, Given, Holding
  <2>3. \A q \in Procs \ {p} : Untouched(q)
    BY <1>0, <1>1 DEF Connect, SessionTypeOK, Untouched, GoTo, ExitWith,
       compVars, procVars
  <2> QED
    BY <2>1, <2>2, <2>3, LocalStep
<1>2. CASE RequestLock(p)
  <2>1. SessionTypeOK'
    BY <1>0, <1>2, NoEvents DEF RequestLock, SessionTypeOK, GoTo, ExitWith, compVars,
       procVars, Stage, Status, LockState, Given, Holding, At
  <2>2. ProcInv(p)'
    BY <1>0, <1>2, NoEvents DEF RequestLock, SessionTypeOK, ProcInv, At, Running, GoTo,
       ExitWith, compVars, procVars, Given, Holding
  <2>3. \A q \in Procs \ {p} : Untouched(q)
    BY <1>0, <1>2 DEF RequestLock, SessionTypeOK, Untouched, GoTo, ExitWith,
       compVars, procVars
  <2> QED
    BY <2>1, <2>2, <2>3, LocalStep
<1>3. CASE NotifyReady(p)
  <2>0. opts[p].ready \in BOOLEAN
    BY <1>0 DEF SessionTypeOK, CommandLine
  <2>1. SessionTypeOK'
    BY <1>0, <1>3, <2>0 DEF NotifyReady, SessionTypeOK, GoTo, ExitWith, compVars,
       procVars, Stage, Status, LockState, Given, Holding, At
  <2>2. ProcInv(p)'
    BY <1>0, <1>3 DEF NotifyReady, SessionTypeOK, ProcInv, At, Running, GoTo,
       ExitWith, compVars, procVars, Given, Holding
  <2>3. \A q \in Procs \ {p} : Untouched(q)
    BY <1>0, <1>3 DEF NotifyReady, SessionTypeOK, Untouched, GoTo, ExitWith,
       compVars, procVars
  <2> QED
    BY <2>1, <2>2, <2>3, LocalStep
<1>4. CASE Daemonize(p)
  <2>1. SessionTypeOK'
    BY <1>0, <1>4 DEF Daemonize, SessionTypeOK, GoTo, ExitWith, compVars,
       procVars, Stage, Status, LockState, Given, Holding, At
  <2>2. ProcInv(p)'
    BY <1>0, <1>4 DEF Daemonize, SessionTypeOK, ProcInv, At, Running, GoTo,
       ExitWith, compVars, procVars, Given, Holding
  <2>3. \A q \in Procs \ {p} : Untouched(q)
    BY <1>0, <1>4 DEF Daemonize, SessionTypeOK, Untouched, GoTo, ExitWith,
       compVars, procVars
  <2> QED
    BY <2>1, <2>2, <2>3, LocalStep
<1>5. CASE LauncherReads(p)
  <2>1. SessionTypeOK'
    BY <1>0, <1>5 DEF LauncherReads, SessionTypeOK, GoTo, ExitWith, compVars,
       procVars, Stage, Status, LockState, Given, Holding, At
  <2>2. ProcInv(p)'
    BY <1>0, <1>5 DEF LauncherReads, SessionTypeOK, ProcInv, At, Running, GoTo,
       ExitWith, compVars, procVars, Given, Holding
  <2>3. \A q \in Procs \ {p} : Untouched(q)
    BY <1>0, <1>5 DEF LauncherReads, SessionTypeOK, Untouched, GoTo, ExitWith,
       compVars, procVars
  <2> QED
    BY <2>1, <2>2, <2>3, LocalStep
<1>6. CASE KillLauncher(p)
  <2>1. SessionTypeOK'
    BY <1>0, <1>6 DEF KillLauncher, SessionTypeOK, GoTo, ExitWith, compVars,
       procVars, Stage, Status, LockState, Given, Holding, At
  <2>2. ProcInv(p)'
    BY <1>0, <1>6 DEF KillLauncher, SessionTypeOK, ProcInv, At, Running, GoTo,
       ExitWith, compVars, procVars, Given, Holding
  <2>3. \A q \in Procs \ {p} : Untouched(q)
    BY <1>0, <1>6 DEF KillLauncher, SessionTypeOK, Untouched, GoTo, ExitWith,
       compVars, procVars
  <2> QED
    BY <2>1, <2>2, <2>3, LocalStep
<1>7. CASE UnlockAndDestroy(p)
  <2>1. SessionTypeOK'
    BY <1>0, <1>7 DEF UnlockAndDestroy, SessionTypeOK, GoTo, ExitWith, compVars,
       procVars, Stage, Status, LockState, Given, Holding, At
  <2>2. ProcInv(p)'
    BY <1>0, <1>7 DEF UnlockAndDestroy, SessionTypeOK, ProcInv, At, Running, GoTo,
       ExitWith, compVars, procVars, Given, Holding
  <2>3. \A q \in Procs \ {p} : Untouched(q)
    BY <1>0, <1>7 DEF UnlockAndDestroy, SessionTypeOK, Untouched, GoTo, ExitWith,
       compVars, procVars
  <2> QED
    BY <2>1, <2>2, <2>3, LocalStep
<1>8. CASE LoseDisplay(p)
  <2>1. SessionTypeOK'
    BY <1>0, <1>8 DEF LoseDisplay, SessionTypeOK, GoTo, ExitWith, compVars,
       procVars, Stage, Status, LockState, Given, Holding, At
  <2>2. ProcInv(p)'
    BY <1>0, <1>8 DEF LoseDisplay, SessionTypeOK, ProcInv, At, Running, GoTo,
       ExitWith, compVars, procVars, Given, Holding
  <2>3. \A q \in Procs \ {p} : Untouched(q)
    BY <1>0, <1>8 DEF LoseDisplay, SessionTypeOK, Untouched, GoTo, ExitWith,
       compVars, procVars
  <2> QED
    BY <2>1, <2>2, <2>3, LocalStep
<1> QED
  BY <1>1, <1>2, <1>3, <1>4, <1>5, <1>6, <1>7, <1>8

\* The compositor.
LEMMA CompositorMoves ==
  ASSUME SessionInv, NEW p \in Procs,
         \/ HandleLock(p) \/ SendLocked(p) \/ Revoke(p) \/ HandleUnlock(p)
         \/ Disconnect(p)
  PROVE  SessionInv'
<1>0. SessionTypeOK /\ ProcInv(p)
  BY OfProcess
<1>a. \A e \in {"locked", "finished"} :
        /\ Append(events[p], e) \in Seq({"locked", "finished"})
        /\ ToSet(Append(events[p], e)) = ToSet(events[p]) \cup {e}
  BY <1>0, Appended DEF SessionTypeOK
<1>1. CASE HandleLock(p)
  <2>1. SessionTypeOK'
    BY <1>0, <1>1, <1>a DEF HandleLock, SessionTypeOK, GoTo, ExitWith, compVars,
       procVars, Stage, Status, LockState, Given, Holding, At
  <2>2. ProcInv(p)'
    BY <1>0, <1>1, <1>a DEF HandleLock, SessionTypeOK, ProcInv, At, Running, GoTo,
       ExitWith, compVars, procVars, Given, Holding
  <2>3. \A q \in Procs \ {p} : Untouched(q)
    BY <1>0, <1>1 DEF HandleLock, SessionTypeOK, Untouched, GoTo, ExitWith,
       compVars, procVars
  <2> QED
    BY <2>1, <2>2, <2>3, LocalStep
<1>2. CASE SendLocked(p)
  <2>1. SessionTypeOK'
    BY <1>0, <1>2, <1>a DEF SendLocked, SessionTypeOK, GoTo, ExitWith, compVars,
       procVars, Stage, Status, LockState, Given, Holding, At
  <2>2. ProcInv(p)'
    BY <1>0, <1>2, <1>a DEF SendLocked, SessionTypeOK, ProcInv, At, Running, GoTo,
       ExitWith, compVars, procVars, Given, Holding
  <2>3. \A q \in Procs \ {p} : Untouched(q)
    BY <1>0, <1>2 DEF SendLocked, SessionTypeOK, Untouched, GoTo, ExitWith,
       compVars, procVars
  <2> QED
    BY <2>1, <2>2, <2>3, LocalStep
<1>3. CASE Revoke(p)
  <2>1. SessionTypeOK'
    BY <1>0, <1>3, <1>a DEF Revoke, SessionTypeOK, GoTo, ExitWith, compVars,
       procVars, Stage, Status, LockState, Given, Holding, At
  <2>2. ProcInv(p)'
    BY <1>0, <1>3, <1>a DEF Revoke, SessionTypeOK, ProcInv, At, Running, GoTo,
       ExitWith, compVars, procVars, Given, Holding
  <2>3. \A q \in Procs \ {p} : Untouched(q)
    BY <1>0, <1>3 DEF Revoke, SessionTypeOK, Untouched, GoTo, ExitWith,
       compVars, procVars
  <2> QED
    BY <2>1, <2>2, <2>3, LocalStep
<1>4. CASE HandleUnlock(p)
  <2>1. SessionTypeOK'
    BY <1>0, <1>4 DEF HandleUnlock, SessionTypeOK, GoTo, ExitWith, compVars,
       procVars, Stage, Status, LockState, Given, Holding, At
  <2>2. ProcInv(p)'
    BY <1>0, <1>4 DEF HandleUnlock, SessionTypeOK, ProcInv, At, Running, GoTo,
       ExitWith, compVars, procVars, Given, Holding
  <2>3. \A q \in Procs \ {p} : Untouched(q)
    BY <1>0, <1>4 DEF HandleUnlock, SessionTypeOK, Untouched, GoTo, ExitWith,
       compVars, procVars
  <2> QED
    BY <2>1, <2>2, <2>3, LocalStep
<1>5. CASE Disconnect(p)
  <2>1. SessionTypeOK'
    BY <1>0, <1>5 DEF Disconnect, SessionTypeOK, GoTo, ExitWith, compVars,
       procVars, Stage, Status, LockState, Given, Holding, At
  <2>2. ProcInv(p)'
    BY <1>0, <1>5 DEF Disconnect, SessionTypeOK, ProcInv, At, Running, GoTo,
       ExitWith, compVars, procVars, Given, Holding
  <2>3. \A q \in Procs \ {p} : Untouched(q)
    BY <1>0, <1>5 DEF Disconnect, SessionTypeOK, Untouched, GoTo, ExitWith,
       compVars, procVars
  <2> QED
    BY <2>1, <2>2, <2>3, LocalStep
<1> QED
  BY <1>1, <1>2, <1>3, <1>4, <1>5

\* Every reachable state of the session satisfies SessionInv.
THEOREM SessionInvariance == Spec => []SessionInv
<1>1. Init => SessionInv
  BY NoEvents, SessionAssumption DEF Init, SessionInv, SessionTypeOK, ProcInv, Holding,
     Stage, Status, LockState
<1>2. SessionInv /\ [Next]_vars => SessionInv'
  <2>1. SessionInv /\ Next => SessionInv'
    BY ProcessMoves, ProcessTells, CompositorMoves
    DEF Next, ProcessStep, CompositorStep
  <2>2. SessionInv /\ UNCHANGED vars => SessionInv'
    BY DEF SessionInv, SessionTypeOK, ProcInv, vars, procVars, compVars
  <2> QED
    BY <2>1, <2>2
<1> QED
  BY <1>1, <1>2, PTL DEF Spec

\* --ready-fd and --daemonize report a lock that the compositor granted.
THEOREM ReadyCorrect == Spec => []ReadyMeansLocked
<1>1. SessionInv => ReadyMeansLocked
  BY DEF SessionInv, ProcInv, ReadyMeansLocked, Told
<1> QED
  BY <1>1, SessionInvariance, PTL

\* unlock_and_destroy is sent only for a lock that was granted.
THEOREM UnlockWellFormed == Spec => []NoProtocolError
<1>1. SessionInv => NoProtocolError
  BY DEF SessionInv, ProcInv, NoProtocolError
<1> QED
  BY <1>1, SessionInvariance, PTL

-----------------------------------------------------------------------------
\* What the launcher of a daemon is told.

\* A daemon that reported success, or whose launcher said so, got through
\* daemonize().
ReportInv ==
  /\ byte \in [Procs -> {"none", "0", "1"}]
  /\ \A p \in Procs : byte[p] = "1" \/ launcher[p] = "0" => Daemonized(p)

\* What a step of process p may do to the report.
ReportStep(p) ==
  /\ byte' \in [Procs -> {"none", "0", "1"}]
  /\ Daemonized(p) => Daemonized(p)'
  /\ byte'[p] = "1" => byte[p] = "1" \/ Daemonized(p)'
  /\ launcher'[p] = "0" => launcher[p] = "0" \/ byte[p] = "1"
  /\ \A q \in Procs \ {p} : /\ pc'[q] = pc[q] /\ byte'[q] = byte[q]
                             /\ launcher'[q] = launcher[q]

LEMMA ReportKept ==
  ASSUME ReportInv, NEW p \in Procs, ReportStep(p)
  PROVE  ReportInv'
<1>1. ASSUME NEW q \in Procs, byte'[q] = "1" \/ launcher'[q] = "0"
      PROVE  Daemonized(q)'
  <2>1. CASE q = p
    BY <1>1, <2>1 DEF ReportInv, ReportStep
  <2>2. CASE q # p
    BY <1>1, <2>2 DEF ReportInv, ReportStep, Daemonized
  <2> QED BY <2>1, <2>2
<1> QED BY <1>1 DEF ReportInv, ReportStep

LEMMA ReportSteps ==
  ASSUME SessionTypeOK, ReportInv, NEW p \in Procs,
         \/ ProcessStep(p) \/ LauncherReads(p) \/ CompositorStep(p)
         \/ LoopEnds(p) \/ Sigusr1(p) \/ KillLauncher(p)
         \/ Revoke(p) \/ LoseDisplay(p)
  PROVE  ReportStep(p)
<1> USE DEF ReportStep, Daemonized, At, GoTo, ExitWith
<1>0. /\ byte \in [Procs -> {"none", "0", "1"}]
      /\ pc \in [Procs -> Stage]
      /\ launcher \in [Procs -> {"none", "waiting", "killed", "0", "1"}]
  BY DEF ReportInv, SessionTypeOK
<1>1. CASE Connect(p)
  BY <1>0, <1>1 DEF Connect
<1>2. CASE RequestLock(p)
  BY <1>0, <1>2 DEF RequestLock
<1>3. CASE Roundtrip(p)
  <2>1. \E got \in {ToSet(events[p])} : AfterEvents(p, got)
    BY <1>3 DEF Roundtrip
  <2>2. \/ UNCHANGED pc
        \/ \E stage \in {"unlock", "ready", "dispatch"} : GoTo(p, stage)
    BY <2>1, Zenon DEF AfterEvents, GoTo, ExitWith
  <2> QED BY <1>0, <1>3, <2>2 DEF Roundtrip
<1>4. CASE Dispatch(p)
  <2>1. \E got \in SUBSET ToSet(events[p]) : AfterEvents(p, got)
    <3>1. PICK n \in 1 .. Len(events[p]) :
            AfterEvents(p, ToSet(SubSeq(events[p], 1, n)))
      BY <1>4 DEF Dispatch
    <3>2. events[p] \in Seq({"locked", "finished"})
      BY DEF SessionTypeOK
    <3> QED BY <3>1, <3>2, PartOfSequence
  <2>2. \/ UNCHANGED pc
        \/ \E stage \in {"unlock", "ready", "dispatch"} : GoTo(p, stage)
    BY <2>1, Zenon DEF AfterEvents, GoTo, ExitWith
  <2> QED BY <1>0, <1>4, <2>2 DEF Dispatch
<1>5. CASE DisplayFailed(p)
  BY <1>0, <1>5 DEF DisplayFailed
<1>6. CASE NotifyReady(p)
  BY <1>0, <1>6 DEF NotifyReady
<1>7. CASE Daemonize(p)
  BY <1>0, <1>7 DEF Daemonize
<1>8. CASE DaemonReports(p)
  BY <1>0, <1>8 DEF DaemonReports
<1>9. CASE InstallHandler(p) \/ LoopEnds(p)
  BY <1>0, <1>9 DEF InstallHandler, LoopEnds
<1>10. CASE UnlockAndDestroy(p) \/ Unlocked(p)
  BY <1>0, <1>10 DEF UnlockAndDestroy, Unlocked
<1>11. CASE Sigusr1(p)
  BY <1>0, <1>11 DEF Sigusr1
<1>12. CASE LauncherReads(p)
  BY <1>0, <1>12 DEF LauncherReads
<1>13. CASE KillLauncher(p)
  BY <1>0, <1>13 DEF KillLauncher
<1>14. CASE CompositorStep(p) \/ Revoke(p) \/ LoseDisplay(p)
  <2>1. UNCHANGED <<pc, byte, launcher>>
    BY <1>14 DEF CompositorStep, HandleLock, SendLocked, HandleUnlock,
       Disconnect, Revoke, LoseDisplay, procVars
  <2> QED BY <1>0, <2>1
<1> QED
  BY <1>1, <1>2, <1>3, <1>4, <1>5, <1>6, <1>7, <1>8, <1>9, <1>10, <1>11, <1>12,
     <1>13, <1>14 DEF ProcessStep

\* Status 0 means that the lock was given back or the display failed, and
\* that of a launcher that its daemon got through daemonize().
THEOREM StatusCorrect == Spec => []StatusTruthful
<1>1. Init => ReportInv
  BY DEF Init, ReportInv
<1>2. SessionInv /\ ReportInv /\ [Next]_vars => ReportInv'
  <2> SUFFICES ASSUME SessionInv, ReportInv, [Next]_vars
               PROVE  ReportInv'
    OBVIOUS
  <2>1. CASE Next
    BY <2>1, ReportSteps, ReportKept DEF Next, SessionInv
  <2>2. CASE UNCHANGED vars
    BY <2>2 DEF vars, procVars, ReportInv, Daemonized
  <2> QED BY <2>1, <2>2
<1>3. SessionInv /\ ReportInv => StatusTruthful
  BY DEF SessionInv, ProcInv, ReportInv, StatusTruthful
<1> QED
  BY <1>1, <1>2, <1>3, SessionInvariance, PTL DEF Spec

-----------------------------------------------------------------------------
\* The options.  The first and the last of a set of indices.

LEMMA FirstIndex ==
  ASSUME NEW S \in SUBSET Nat, S # {}
  PROVE  Min(S) \in S /\ \A i \in S : Min(S) <= i
<1> DEFINE less == OpToRel(<, Nat)
<1>1. \A x, y \in Nat : <<x, y>> \in less <=> x < y
  BY DEF OpToRel
<1>2. IsWellFoundedOn(less, Nat)
  BY NatLessThanWellFounded
<1> HIDE DEF less
<1>3. PICK x \in S : \A y \in S : ~ (<<y, x>> \in less)
  BY <1>2, WFMin, Zenon
<1>4. \A y \in S : ~ (y < x)
  BY <1>1, <1>3, Zenon
<1>5. \A y \in S : x <= y
  BY <1>4
<1> QED
  BY <1>5 DEF Min

LEMMA LastIndex ==
  ASSUME NEW n \in Nat, NEW S \in SUBSET (1 .. n), S # {}
  PROVE  Max(S) \in S /\ \A i \in S : i <= Max(S)
<1> DEFINE T == {n - i : i \in S}
<1>1. T \in SUBSET Nat /\ T # {}
  <2>1. \A i \in S : n - i \in Nat
    OBVIOUS
  <2>2. PICK i \in S : TRUE
    OBVIOUS
  <2>3. n - i \in T
    BY <2>2
  <2> QED BY <2>1, <2>3, Zenon
<1>2. PICK t \in T : \A u \in T : t <= u
  <2> HIDE DEF T
  <2> QED BY <1>1, FirstIndex
<1>3. PICK x \in S : t = n - x
  OBVIOUS
<1>4. \A i \in S : i <= x
  <2> SUFFICES ASSUME NEW i \in S PROVE i <= x
    OBVIOUS
  <2>1. n - x <= n - i
    BY <1>2, <1>3
  <2>2. i \in Int /\ x \in Int
    OBVIOUS
  <2> HIDE DEF T
  <2> QED BY <2>1, <2>2
<1>5. \E y \in S : \A i \in S : y >= i
  BY <1>4
<1>6. /\ (CHOOSE y \in S : \A i \in S : y >= i) \in S
      /\ \A i \in S : (CHOOSE y \in S : \A j \in S : y >= j) >= i
  BY <1>5
<1> QED
  BY <1>6 DEF Max

\* i is the last of the first n options of s that is about kind and name, or
\* zero if none of them is.
Latest(s, n, kind, name, i) ==
  /\ i \in 0 .. n
  /\ i # 0 => IsAbout(s[i], kind, name)
  /\ \A j \in i + 1 .. n : ~IsAbout(s[j], kind, name)

LEMMA LastAboutIs ==
  ASSUME NEW s \in Seq(Option), NEW kind, NEW name
  PROVE  Latest(s, Len(s), kind, name, LastAbout(s, kind, name))
<1> DEFINE I == {i \in 1 .. Len(s) : IsAbout(s[i], kind, name)}
<1>1. LastAbout(s, kind, name) = IF I # {} THEN Max(I) ELSE 0
  BY DEF LastAbout, SelectLastInSeq
<1>2. Len(s) \in Nat
  OBVIOUS
<1>3. CASE I = {}
  <2>1. \A j \in 1 .. Len(s) : ~IsAbout(s[j], kind, name)
    BY <1>3
  <2> QED BY <1>1, <1>2, <1>3, <2>1 DEF Latest
<1>4. CASE I # {}
  <2>1. Max(I) \in I /\ \A i \in I : i <= Max(I)
    BY <1>2, <1>4, LastIndex
  <2> DEFINE m == Max(I)
  <2>2. m \in 1 .. Len(s) /\ IsAbout(s[m], kind, name)
    BY <2>1
  <2>3. \A j \in 1 .. Len(s) : IsAbout(s[j], kind, name) => j <= m
    BY <2>1
  <2>4. LastAbout(s, kind, name) = m
    BY <1>1, <1>4
  <2> HIDE DEF m
  <2>5. \A j \in m + 1 .. Len(s) : ~IsAbout(s[j], kind, name)
    BY <1>2, <2>2, <2>3
  <2> QED BY <1>2, <2>2, <2>4, <2>5 DEF Latest
<1> QED
  BY <1>3, <1>4

LEMMA LatestUnique ==
  ASSUME NEW s, NEW n \in Nat, NEW kind, NEW name, NEW i, NEW j,
         Latest(s, n, kind, name, i), Latest(s, n, kind, name, j)
  PROVE  i = j
BY DEF Latest

\* One option more: it decides, or nothing changes.
LEMMA LastAboutAppend ==
  ASSUME NEW s \in Seq(Option), NEW o \in Option, NEW kind, NEW name
  PROVE  LastAbout(Append(s, o), kind, name) =
           IF IsAbout(o, kind, name) THEN Len(s) + 1
           ELSE LastAbout(s, kind, name)
<1> DEFINE t == Append(s, o)
           i == LastAbout(s, kind, name)
<1>1. /\ t \in Seq(Option) /\ Len(t) = Len(s) + 1
      /\ t[Len(s) + 1] = o
      /\ \A j \in 1 .. Len(s) : t[j] = s[j]
      /\ Len(s) \in Nat
  OBVIOUS
<1>2. Latest(t, Len(s) + 1, kind, name, LastAbout(t, kind, name))
  <2> HIDE DEF t
  <2> QED BY <1>1, LastAboutIs
<1>3. Latest(s, Len(s), kind, name, i)
  BY LastAboutIs
<1> HIDE DEF t, i
<1>4. CASE IsAbout(o, kind, name)
  <2>1. Latest(t, Len(s) + 1, kind, name, Len(s) + 1)
    BY <1>1, <1>4 DEF Latest
  <2> QED BY <1>1, <1>2, <1>4, <2>1, LatestUnique DEF t
<1>5. CASE ~IsAbout(o, kind, name)
  <2>1. i \in 0 .. Len(s) + 1 /\ (i # 0 => IsAbout(t[i], kind, name))
    BY <1>1, <1>3 DEF Latest
  <2>2. \A j \in i + 1 .. Len(s) + 1 : ~IsAbout(t[j], kind, name)
    <3> SUFFICES ASSUME NEW j \in i + 1 .. Len(s) + 1
                 PROVE  ~IsAbout(t[j], kind, name)
      OBVIOUS
    <3>1. CASE j = Len(s) + 1
      BY <1>1, <1>5, <3>1
    <3>2. CASE j # Len(s) + 1
      <4>1. j \in i + 1 .. Len(s) /\ j \in 1 .. Len(s)
        BY <1>1, <2>1, <3>2
      <4> QED BY <1>1, <1>3, <4>1 DEF Latest
    <3> QED BY <3>1, <3>2
  <2>3. Latest(t, Len(s) + 1, kind, name, i)
    BY <2>1, <2>2 DEF Latest
  <2> QED BY <1>1, <1>2, <1>5, <2>3, LatestUnique DEF t, i
<1> QED
  BY <1>4, <1>5

LEMMA LastAboutNone ==
  ASSUME NEW kind, NEW name
  PROVE  LastAbout(<<>>, kind, name) = 0
<1>1. <<>> \in Seq(Option) /\ Len(<<>>) = 0
  OBVIOUS
<1>2. Latest(<<>>, 0, kind, name, LastAbout(<<>>, kind, name))
  BY <1>1, LastAboutIs
<1> QED
  BY <1>2 DEF Latest

-----------------------------------------------------------------------------
\* The option that takes effect, as the options are read one by one: first
\* the lines of the file, then those of the command line.

LEMMA NoWord ==
  ASSUME NEW kind, NEW name, NEW default
  PROVE  LastWord(<<>>, <<>>, kind, name, default) = default
BY LastAboutNone DEF LastWord

LEMMA WordOfOption ==
  ASSUME NEW f \in Seq(Option), NEW c \in Seq(Option), NEW o \in Option,
         NEW kind, NEW name, NEW default
  PROVE  LastWord(f, Append(c, o), kind, name, default) =
           IF IsAbout(o, kind, name) THEN o
           ELSE LastWord(f, c, kind, name, default)
<1> DEFINE i == LastAbout(c, kind, name)
<1>1. /\ Append(c, o)[Len(c) + 1] = o
      /\ \A j \in 1 .. Len(c) : Append(c, o)[j] = c[j]
      /\ Len(c) \in Nat
  OBVIOUS
<1>2. i \in 0 .. Len(c)
  BY LastAboutIs DEF Latest
<1>3. LastAbout(Append(c, o), kind, name) =
        IF IsAbout(o, kind, name) THEN Len(c) + 1 ELSE i
  BY LastAboutAppend
<1>4. CASE IsAbout(o, kind, name)
  BY <1>1, <1>3, <1>4 DEF LastWord
<1>5. CASE ~IsAbout(o, kind, name)
  <2>1. i # 0 => Append(c, o)[i] = c[i]
    BY <1>1, <1>2
  <2> QED BY <1>3, <1>5, <2>1 DEF LastWord
<1> QED
  BY <1>4, <1>5

LEMMA WordOfLine ==
  ASSUME NEW f \in Seq(Option), NEW o \in Option,
         NEW kind, NEW name, NEW default
  PROVE  LastWord(Append(f, o), <<>>, kind, name, default) =
           IF IsAbout(o, kind, name) THEN o
           ELSE LastWord(f, <<>>, kind, name, default)
<1> DEFINE i == LastAbout(f, kind, name)
<1>1. /\ Append(f, o)[Len(f) + 1] = o
      /\ \A j \in 1 .. Len(f) : Append(f, o)[j] = f[j]
      /\ Len(f) \in Nat
  OBVIOUS
<1>2. i \in 0 .. Len(f)
  BY LastAboutIs DEF Latest
<1>3. /\ LastAbout(Append(f, o), kind, name) =
           IF IsAbout(o, kind, name) THEN Len(f) + 1 ELSE i
      /\ LastAbout(<<>>, kind, name) = 0
  BY LastAboutAppend, LastAboutNone
<1>4. CASE IsAbout(o, kind, name)
  BY <1>1, <1>3, <1>4 DEF LastWord
<1>5. CASE ~IsAbout(o, kind, name)
  <2>1. i # 0 => Append(f, o)[i] = f[i]
    BY <1>1, <1>2
  <2> QED BY <1>3, <1>5, <2>1 DEF LastWord
<1> QED
  BY <1>4, <1>5

-----------------------------------------------------------------------------
\* load_image(): the list holds at most one image of an output.

OnePerOutput(s) ==
  \A j, k \in DOMAIN s : s[j].output = s[k].output => j = k

WithoutOutput(s, x) == RemoveFirstMatch(s, LAMBDA i : i.output = x)

LEMMA FirstOfOutput ==
  ASSUME NEW E, NEW s \in Seq(E), NEW x,
         NEW i, i = SelectInSeq(s, LAMBDA e : e.output = x)
  PROVE  /\ i \in 0 .. Len(s)
         /\ i = 0 => \A j \in 1 .. Len(s) : s[j].output # x
         /\ i # 0 => s[i].output = x
<1> DEFINE I == {j \in 1 .. Len(s) : s[j].output = x}
<1>1. i = IF I # {} THEN Min(I) ELSE 0
  BY DEF SelectInSeq
<1>2. CASE I = {}
  BY <1>1, <1>2
<1>3. CASE I # {}
  <2>1. I \in SUBSET Nat
    OBVIOUS
  <2>2. Min(I) \in I
    <3> HIDE DEF I
    <3> QED BY <1>3, <2>1, FirstIndex
  <2> QED BY <1>1, <1>3, <2>2
<1> QED
  BY <1>2, <1>3

LEMMA RemoveAtIs ==
  ASSUME NEW E, NEW s \in Seq(E), NEW i \in 1 .. Len(s)
  PROVE  /\ RemoveAt(s, i) \in Seq(E)
         /\ Len(RemoveAt(s, i)) = Len(s) - 1
         /\ \A k \in 1 .. Len(s) - 1 :
              RemoveAt(s, i)[k] = IF k < i THEN s[k] ELSE s[k + 1]
<1> DEFINE a == SubSeq(s, 1, i - 1)
           b == SubSeq(s, i + 1, Len(s))
<1>1. /\ a \in Seq(E) /\ Len(a) = i - 1
      /\ \A k \in 1 .. i - 1 : a[k] = s[k]
  OBVIOUS
<1>2. /\ b \in Seq(E) /\ Len(b) = Len(s) - i
      /\ \A k \in 1 .. Len(s) - i : b[k] = s[i + k]
  <2>1. CASE i = Len(s)
    BY <2>1
  <2>2. CASE i < Len(s)
    BY <2>2, SubSeqProperties
  <2> QED BY <2>1, <2>2
<1>3. RemoveAt(s, i) = a \o b
  BY DEF RemoveAt
<1> HIDE DEF a, b
<1>4. /\ a \o b \in Seq(E) /\ Len(a \o b) = Len(s) - 1
      /\ \A k \in 1 .. Len(s) - 1 :
           (a \o b)[k] = IF k <= Len(a) THEN a[k] ELSE b[k - Len(a)]
  <2>1. /\ a \o b \in Seq(E) /\ Len(a \o b) = Len(a) + Len(b)
        /\ \A k \in 1 .. Len(a) + Len(b) :
             (a \o b)[k] = IF k <= Len(a) THEN a[k] ELSE b[k - Len(a)]
    BY <1>1, <1>2, ConcatProperties
  <2>2. Len(a) + Len(b) = Len(s) - 1
    BY <1>1, <1>2
  <2> QED BY <2>1, <2>2
<1>5. \A k \in 1 .. Len(s) - 1 :
        (a \o b)[k] = IF k < i THEN s[k] ELSE s[k + 1]
  <2> SUFFICES ASSUME NEW k \in 1 .. Len(s) - 1
               PROVE  (a \o b)[k] = IF k < i THEN s[k] ELSE s[k + 1]
    OBVIOUS
  <2>1. CASE k < i
    <3>1. k \in 1 .. i - 1 /\ k <= Len(a)
      BY <1>1, <2>1
    <3>2. (a \o b)[k] = a[k]
      BY <1>4, <3>1
    <3>3. a[k] = s[k]
      BY <1>1, <3>1
    <3> QED BY <2>1, <3>2, <3>3
  <2>2. CASE ~(k < i)
    <3>1. k - Len(a) \in 1 .. Len(s) - i /\ i + (k - Len(a)) = k + 1
      BY <1>1, <2>2
    <3> QED BY <1>1, <1>2, <1>4, <2>2, <3>1
  <2> QED BY <2>1, <2>2
<1> QED
  BY <1>3, <1>4, <1>5

LEMMA WithoutOutputIs ==
  ASSUME NEW E, NEW s \in Seq(E), NEW x, OnePerOutput(s),
         NEW t, t = WithoutOutput(s, x)
  PROVE  /\ t \in Seq(E)
         /\ OnePerOutput(t)
         /\ \A k \in DOMAIN t :
              \E j \in DOMAIN s : t[k] = s[j] /\ s[j].output # x
         /\ \A j \in DOMAIN s :
              s[j].output # x => \E k \in DOMAIN t : t[k] = s[j]
<1> DEFINE i == SelectInSeq(s, LAMBDA e : e.output = x)
<1>1. /\ i \in 0 .. Len(s)
      /\ i = 0 => \A j \in 1 .. Len(s) : s[j].output # x
      /\ i # 0 => s[i].output = x
  BY FirstOfOutput
<1>2. t = IF \E j \in 1 .. Len(s) : s[j].output = x
          THEN RemoveAt(s, i) ELSE s
  BY DEF WithoutOutput, RemoveFirstMatch
<1>3. Len(s) \in Nat /\ DOMAIN s = 1 .. Len(s)
  OBVIOUS
<1> HIDE DEF i
<1>4. CASE i = 0
  BY <1>1, <1>2, <1>3, <1>4
<1>5. CASE i # 0
  <2>1. i \in 1 .. Len(s) /\ i > 0 /\ t = RemoveAt(s, i)
    BY <1>1, <1>2, <1>3, <1>5
  <2>2. /\ t \in Seq(E)
        /\ Len(t) = Len(s) - 1
        /\ \A k \in 1 .. Len(s) - 1 : t[k] = IF k < i THEN s[k] ELSE s[k + 1]
    BY <2>1, RemoveAtIs
  <2>3. DOMAIN t = 1 .. Len(s) - 1
    BY <2>2
  <2>4. \A j \in 1 .. Len(s) : j # i => s[j].output # x
    BY <1>1, <1>3, <1>5, <2>1 DEF OnePerOutput
  <2>5. OnePerOutput(t)
    <3> SUFFICES ASSUME NEW j \in 1 .. Len(s) - 1, NEW k \in 1 .. Len(s) - 1,
                        t[j].output = t[k].output
                 PROVE  j = k
      BY <2>3 DEF OnePerOutput
    <3> DEFINE from(n) == IF n < i THEN n ELSE n + 1
    <3>1. /\ t[j] = s[from(j)] /\ from(j) \in 1 .. Len(s)
          /\ t[k] = s[from(k)] /\ from(k) \in 1 .. Len(s)
      BY <1>3, <2>1, <2>2
    <3>2. from(j) = from(k)
      <4> HIDE DEF from
      <4> QED BY <1>3, <3>1 DEF OnePerOutput
    <3> QED BY <1>3, <2>1, <3>2
  <2>6. \A k \in 1 .. Len(s) - 1 :
          \E j \in 1 .. Len(s) : t[k] = s[j] /\ s[j].output # x
    <3> SUFFICES ASSUME NEW k \in 1 .. Len(s) - 1
                 PROVE  \E j \in 1 .. Len(s) : t[k] = s[j] /\ s[j].output # x
      OBVIOUS
    <3>1. CASE k < i
      <4>1. k \in 1 .. Len(s) /\ k # i /\ t[k] = s[k]
        BY <1>3, <2>1, <2>2, <3>1
      <4> QED BY <2>4, <4>1
    <3>2. CASE ~(k < i)
      <4>1. k + 1 \in 1 .. Len(s) /\ k + 1 # i /\ t[k] = s[k + 1]
        BY <1>3, <2>1, <2>2, <3>2
      <4> QED BY <2>4, <4>1
    <3> QED BY <3>1, <3>2
  <2>7. \A j \in 1 .. Len(s) :
          s[j].output # x => \E k \in 1 .. Len(s) - 1 : t[k] = s[j]
    <3> SUFFICES ASSUME NEW j \in 1 .. Len(s), s[j].output # x
                 PROVE  \E k \in 1 .. Len(s) - 1 : t[k] = s[j]
      OBVIOUS
    <3>1. j # i
      BY <1>1, <1>5
    <3>2. CASE j < i
      <4>1. j \in 1 .. Len(s) - 1 /\ t[j] = s[j]
        BY <1>3, <2>1, <2>2, <3>2
      <4> QED BY <4>1
    <3>3. CASE j > i
      <4>1. j - 1 \in 1 .. Len(s) - 1 /\ t[j - 1] = s[(j - 1) + 1]
        BY <1>3, <2>1, <2>2, <3>3
      <4>2. (j - 1) + 1 = j
        BY <1>3
      <4> QED BY <4>1, <4>2
    <3> QED BY <1>3, <2>1, <3>1, <3>2, <3>3
  <2> QED BY <1>3, <2>2, <2>3, <2>5, <2>6, <2>7
<1> QED
  BY <1>1, <1>4, <1>5

-----------------------------------------------------------------------------
\* The settings after the lines f of the file and the options c of the
\* command line.

FieldsFrom(f, c, a) ==
  a = [x \in Fields |-> LastWord(f, c, "set", x, [value |-> "default"]).value]

LineFrom(f, c, l) == l = LastWord(f, c, "line", "any", [mode |-> "LINE"]).mode

ModeFrom(f, c, d) ==
  d = LET m == LastWord(f, c, "scaling", "any", [mode |-> "FILL"]).mode
      IN  IF m \in Modes THEN m ELSE "INVALID"

ImageWord(f, c, x) == LastWord(f, c, "image", x, [path |-> NoImage]).path

Loadable == {[output |-> o.output, path |-> o.path] :
               o \in {p \in Option : p.kind = "image"}}

ImagesFrom(f, c, s) ==
  /\ s \in Seq(Loadable)
  /\ OnePerOutput(s)
  /\ \A k \in DOMAIN s : /\ s[k].path = ImageWord(f, c, s[k].output)
                        /\ s[k].path \notin Broken \cup {NoImage}
  /\ \A x \in Outputs \cup {AnyOutput} :
       ImageWord(f, c, x) \notin Broken \cup {NoImage} =>
         \E k \in DOMAIN s : s[k].output = x

\* The file is read before the command line.
Follows(f2, c2, f, c, o) ==
  \/ f2 = f /\ c2 = Append(c, o)
  \/ c = <<>> /\ c2 = <<>> /\ f2 = Append(f, o)

LEMMA WordStep ==
  ASSUME NEW f \in Seq(Option), NEW c \in Seq(Option), NEW o \in Option,
         NEW f2, NEW c2, Follows(f2, c2, f, c, o),
         NEW kind, NEW name, NEW default
  PROVE  LastWord(f2, c2, kind, name, default) =
           IF IsAbout(o, kind, name) THEN o
           ELSE LastWord(f, c, kind, name, default)
<1>1. CASE f2 = f /\ c2 = Append(c, o)
  BY <1>1, WordOfOption
<1>2. CASE c = <<>> /\ c2 = <<>> /\ f2 = Append(f, o)
  BY <1>2, WordOfLine
<1> QED
  BY <1>1, <1>2 DEF Follows

LEMMA FieldStep ==
  ASSUME NEW f \in Seq(Option), NEW c \in Seq(Option), NEW o \in Option,
         NEW f2, NEW c2, Follows(f2, c2, f, c, o),
         NEW a, FieldsFrom(f, c, a)
  PROVE  FieldsFrom(f2, c2, IF o.kind = "set"
                            THEN [a EXCEPT ![o.field] = o.value] ELSE a)
<1> DEFINE new(x) == LastWord(f2, c2, "set", x, [value |-> "default"])
           old(x) == LastWord(f, c, "set", x, [value |-> "default"])
<1>1. \A x : new(x) = IF IsAbout(o, "set", x) THEN o ELSE old(x)
  BY WordStep
<1>2. \A x : IsAbout(o, "set", x) <=> o.kind = "set" /\ o.field = x
  BY DEF IsAbout
<1>3. a = [x \in Fields |-> old(x).value]
  BY DEF FieldsFrom
<1>4. o.kind = "set" => o.field \in Fields
  BY OptionsAssumption
<1> HIDE DEF new, old
<1>5. (IF o.kind = "set" THEN [a EXCEPT ![o.field] = o.value] ELSE a) =
        [x \in Fields |-> new(x).value]
  <2>1. CASE o.kind = "set"
    BY <1>1, <1>2, <1>3, <1>4, <2>1
  <2>2. CASE o.kind # "set"
    BY <1>1, <1>2, <1>3, <2>2
  <2> QED BY <2>1, <2>2
<1> QED
  BY <1>5 DEF FieldsFrom, new

LEMMA ModeStep ==
  ASSUME NEW f \in Seq(Option), NEW c \in Seq(Option), NEW o \in Option,
         NEW f2, NEW c2, Follows(f2, c2, f, c, o),
         NEW l, LineFrom(f, c, l), NEW d, ModeFrom(f, c, d)
  PROVE  /\ LineFrom(f2, c2, IF o.kind = "line" THEN o.mode ELSE l)
         /\ ModeFrom(f2, c2, IF o.kind = "scaling"
                             THEN IF o.mode \in Modes THEN o.mode ELSE "INVALID"
                             ELSE d)
<1>1. ASSUME NEW kind, NEW name, NEW default
      PROVE  LastWord(f2, c2, kind, name, default) =
               IF IsAbout(o, kind, name) THEN o
               ELSE LastWord(f, c, kind, name, default)
  BY WordStep
<1>2. /\ IsAbout(o, "line", "any") <=> o.kind = "line"
      /\ IsAbout(o, "scaling", "any") <=> o.kind = "scaling"
  BY DEF IsAbout
<1>3. LineFrom(f2, c2, IF o.kind = "line" THEN o.mode ELSE l)
  BY <1>1, <1>2 DEF LineFrom
<1>4. ModeFrom(f2, c2, IF o.kind = "scaling"
                       THEN IF o.mode \in Modes THEN o.mode ELSE "INVALID"
                       ELSE d)
  BY <1>1, <1>2 DEF ModeFrom
<1> QED
  BY <1>3, <1>4

LEMMA ConsIs ==
  ASSUME NEW E, NEW s \in Seq(E), NEW e \in E
  PROVE  /\ Cons(e, s) \in Seq(E)
         /\ DOMAIN Cons(e, s) = 1 .. Len(s) + 1
         /\ Cons(e, s)[1] = e
         /\ \A k \in 1 .. Len(s) : Cons(e, s)[k + 1] = s[k]
<1>1. /\ <<e>> \in Seq(E) /\ Len(<<e>>) = 1 /\ <<e>>[1] = e
  OBVIOUS
<1>2. /\ <<e>> \o s \in Seq(E)
      /\ Len(<<e>> \o s) = 1 + Len(s)
      /\ \A k \in 1 .. 1 + Len(s) :
           (<<e>> \o s)[k] = IF k <= 1 THEN <<e>>[k] ELSE s[k - 1]
  BY <1>1, ConcatProperties
<1> DEFINE t == <<e>> \o s
<1>3. Cons(e, s) = t
  BY DEF Cons
<1> HIDE DEF t
<1>4. t \in Seq(E) /\ Len(t) = 1 + Len(s) /\ Len(s) \in Nat
  BY <1>2 DEF t
<1>5. t[1] = e
  BY <1>1, <1>2, <1>4 DEF t
<1>6. ASSUME NEW k \in 1 .. Len(s) PROVE t[k + 1] = s[k]
  <2>1. k + 1 \in 1 .. 1 + Len(s) /\ ~(k + 1 <= 1) /\ (k + 1) - 1 = k
    BY <1>4
  <2> QED BY <1>2, <2>1 DEF t
<1> QED
  BY <1>3, <1>4, <1>5, <1>6

\* load_image(): the option replaces the image of its output and no other.
LEMMA ImageStep ==
  ASSUME NEW f \in Seq(Option), NEW c \in Seq(Option), NEW o \in Option,
         NEW f2, NEW c2, Follows(f2, c2, f, c, o), o.kind = "image",
         NEW s, ImagesFrom(f, c, s),
         NEW t, t = WithoutOutput(s, o.output)
  PROVE  ImagesFrom(f2, c2, IF o.path \in Broken THEN t
                            ELSE Cons([output |-> o.output, path |-> o.path], t))
<1> DEFINE e == [output |-> o.output, path |-> o.path]
<1>1. \A x : ImageWord(f2, c2, x) =
              IF o.output = x THEN o.path ELSE ImageWord(f, c, x)
  <2>1. ASSUME NEW x
        PROVE  ImageWord(f2, c2, x) =
                 IF IsAbout(o, "image", x) THEN o.path ELSE ImageWord(f, c, x)
    BY WordStep DEF ImageWord
  <2>2. \A x : IsAbout(o, "image", x) <=> o.output = x
    BY DEF IsAbout
  <2> QED BY <2>1, <2>2
<1>2. /\ s \in Seq(Loadable)
      /\ OnePerOutput(s)
      /\ \A k \in DOMAIN s : /\ s[k].path = ImageWord(f, c, s[k].output)
                            /\ s[k].path \notin Broken \cup {NoImage}
      /\ \A x \in Outputs \cup {AnyOutput} :
           ImageWord(f, c, x) \notin Broken \cup {NoImage} =>
             \E k \in DOMAIN s : s[k].output = x
  BY DEF ImagesFrom
<1>3. /\ t \in Seq(Loadable)
      /\ OnePerOutput(t)
      /\ \A k \in DOMAIN t :
           \E j \in DOMAIN s : t[k] = s[j] /\ s[j].output # o.output
      /\ \A j \in DOMAIN s :
           s[j].output # o.output => \E k \in DOMAIN t : t[k] = s[j]
  BY <1>2, WithoutOutputIs
<1>4. \A k \in DOMAIN t : /\ t[k].output # o.output
                         /\ t[k].path = ImageWord(f2, c2, t[k].output)
                         /\ t[k].path \notin Broken \cup {NoImage}
  BY <1>1, <1>2, <1>3
<1>5. \A x \in Outputs \cup {AnyOutput} :
        x # o.output /\ ImageWord(f2, c2, x) \notin Broken \cup {NoImage} =>
          \E k \in DOMAIN t : t[k].output = x
  <2> SUFFICES ASSUME NEW x \in Outputs \cup {AnyOutput}, x # o.output,
                      ImageWord(f2, c2, x) \notin Broken \cup {NoImage}
               PROVE  \E k \in DOMAIN t : t[k].output = x
    OBVIOUS
  <2>1. ImageWord(f2, c2, x) = ImageWord(f, c, x)
    BY <1>1
  <2>2. PICK j \in DOMAIN s : s[j].output = x
    BY <1>2, <2>1
  <2>3. PICK k \in DOMAIN t : t[k] = s[j]
    BY <1>3, <2>2
  <2> QED BY <2>2, <2>3
<1>6. CASE o.path \in Broken
  <2>1. \A x \in Outputs \cup {AnyOutput} :
          ImageWord(f2, c2, x) \notin Broken \cup {NoImage} =>
            \E k \in DOMAIN t : t[k].output = x
    BY <1>1, <1>5, <1>6
  <2> QED BY <1>3, <1>4, <1>6, <2>1 DEF ImagesFrom
<1>7. CASE o.path \notin Broken
  <2> DEFINE u == Cons(e, t)
  <2>1. e \in Loadable
    BY DEF Loadable
  <2>2. /\ u \in Seq(Loadable)
        /\ DOMAIN u = 1 .. Len(t) + 1
        /\ u[1] = e
        /\ \A k \in 1 .. Len(t) : u[k + 1] = t[k]
    <3>1. t \in Seq(Loadable)
      BY <1>3
    <3>2. ASSUME NEW q \in Seq(Loadable), NEW d \in Loadable
          PROVE  /\ Cons(d, q) \in Seq(Loadable)
                 /\ DOMAIN Cons(d, q) = 1 .. Len(q) + 1
                 /\ Cons(d, q)[1] = d
                 /\ \A k \in 1 .. Len(q) : Cons(d, q)[k + 1] = q[k]
      BY ConsIs
    <3> HIDE DEF e
    <3> QED BY <2>1, <3>1, <3>2
  <2>3. DOMAIN t = 1 .. Len(t) /\ Len(t) \in Nat
    BY <1>3
  <2>4. e.output = o.output /\ e.path = o.path
    OBVIOUS
  <2> HIDE DEF u, e
  <2>5. \A k \in DOMAIN u : k = 1 \/ (k - 1 \in DOMAIN t /\ u[k] = t[k - 1])
    <3> SUFFICES ASSUME NEW k \in DOMAIN u, k # 1
                 PROVE  k - 1 \in DOMAIN t /\ u[k] = t[k - 1]
      OBVIOUS
    <3>1. k - 1 \in 1 .. Len(t) /\ (k - 1) + 1 = k
      BY <2>2, <2>3
    <3> QED BY <2>2, <2>3, <3>1
  <2>6. OnePerOutput(u)
    <3> SUFFICES ASSUME NEW j \in DOMAIN u, NEW k \in DOMAIN u,
                        u[j].output = u[k].output
                 PROVE  j = k
      BY DEF OnePerOutput
    <3>1. CASE j = 1 \/ k = 1
      BY <1>4, <2>2, <2>4, <2>5, <3>1
    <3>2. CASE j # 1 /\ k # 1
      <4>1. j - 1 = k - 1
        BY <1>3, <2>5, <3>2 DEF OnePerOutput
      <4> QED BY <2>2, <2>3, <4>1
    <3> QED BY <3>1, <3>2
  <2>7. \A k \in DOMAIN u : /\ u[k].path = ImageWord(f2, c2, u[k].output)
                           /\ u[k].path \notin Broken \cup {NoImage}
    <3> SUFFICES ASSUME NEW k \in DOMAIN u
                 PROVE  /\ u[k].path = ImageWord(f2, c2, u[k].output)
                        /\ u[k].path \notin Broken \cup {NoImage}
      OBVIOUS
    <3>1. CASE k = 1
      <4>1. o.path # NoImage
        BY OptionsAssumption
      <4> QED BY <1>1, <1>7, <2>2, <2>4, <3>1, <4>1
    <3>2. CASE k # 1
      BY <1>4, <2>5, <3>2
    <3> QED BY <3>1, <3>2
  <2>8. \A x \in Outputs \cup {AnyOutput} :
          ImageWord(f2, c2, x) \notin Broken \cup {NoImage} =>
            \E k \in DOMAIN u : u[k].output = x
    <3> SUFFICES ASSUME NEW x \in Outputs \cup {AnyOutput},
                        ImageWord(f2, c2, x) \notin Broken \cup {NoImage}
                 PROVE  \E k \in DOMAIN u : u[k].output = x
      OBVIOUS
    <3>1. CASE x = o.output
      <4>1. 1 \in DOMAIN u /\ u[1].output = x
        BY <2>2, <2>3, <2>4, <3>1
      <4> QED BY <4>1
    <3>2. CASE x # o.output
      <4>1. PICK k \in DOMAIN t : t[k].output = x
        BY <1>5, <3>2
      <4>2. k + 1 \in DOMAIN u /\ u[k + 1].output = x
        BY <2>2, <2>3, <4>1
      <4> QED BY <4>2
    <3> QED BY <3>1, <3>2
  <2>9. ImagesFrom(f2, c2, u)
    BY <2>2, <2>6, <2>7, <2>8 DEF ImagesFrom
  <2> QED BY <1>7, <2>9 DEF u, e
<1> QED
  BY <1>6, <1>7

LEMMA ImagesUntouched ==
  ASSUME NEW f \in Seq(Option), NEW c \in Seq(Option), NEW o \in Option,
         NEW f2, NEW c2, Follows(f2, c2, f, c, o), o.kind # "image",
         NEW s, ImagesFrom(f, c, s)
  PROVE  ImagesFrom(f2, c2, s)
<1>1. ASSUME NEW x
      PROVE  ImageWord(f2, c2, x) = ImageWord(f, c, x)
  <2>1. ~IsAbout(o, "image", x)
    BY DEF IsAbout
  <2> QED BY <2>1, WordStep DEF ImageWord
<1> QED
  BY <1>1 DEF ImagesFrom

SettingsFrom(f, c) ==
  /\ FieldsFrom(f, c, args)
  /\ LineFrom(f, c, line_mode)
  /\ ModeFrom(f, c, mode)
  /\ ImagesFrom(f, c, images)

\* parse_options() with a state: the settings follow the option.
LEMMA ApplyStep ==
  \A o \in Option : Apply(o) =>
    \A f, c \in Seq(Option) : \A f2, c2 \in Seq(Option) :
      Follows(f2, c2, f, c, o) /\ SettingsFrom(f, c) =>
        /\ FieldsFrom(f2, c2, args')
        /\ LineFrom(f2, c2, line_mode')
        /\ ModeFrom(f2, c2, mode')
        /\ ImagesFrom(f2, c2, images')
<1> SUFFICES ASSUME NEW o \in Option, Apply(o),
                    NEW f \in Seq(Option), NEW c \in Seq(Option),
                    NEW f2 \in Seq(Option), NEW c2 \in Seq(Option),
                    Follows(f2, c2, f, c, o), SettingsFrom(f, c)
             PROVE  /\ FieldsFrom(f2, c2, args')
                    /\ LineFrom(f2, c2, line_mode')
                    /\ ModeFrom(f2, c2, mode')
                    /\ ImagesFrom(f2, c2, images')
  OBVIOUS
<1>1. /\ FieldsFrom(f, c, args)
      /\ LineFrom(f, c, line_mode)
      /\ ModeFrom(f, c, mode)
      /\ ImagesFrom(f, c, images)
  BY DEF SettingsFrom
<1>2. FieldsFrom(f2, c2, args')
  <2>1. args' = IF o.kind = "set" THEN [args EXCEPT ![o.field] = o.value] ELSE args
    BY DEF Apply, Assign
  <2> QED BY <1>1, <2>1, FieldStep
<1>3. LineFrom(f2, c2, line_mode') /\ ModeFrom(f2, c2, mode')
  <2>1. /\ line_mode' = IF o.kind = "line" THEN o.mode ELSE line_mode
        /\ mode' = IF o.kind = "scaling"
                   THEN IF o.mode \in Modes THEN o.mode ELSE "INVALID"
                   ELSE mode
    BY DEF Apply
  <2> QED BY <1>1, <2>1, ModeStep
<1>4. ImagesFrom(f2, c2, images')
  <2>1. CASE o.kind = "image"
    <3>1. images' = IF o.path \in Broken THEN WithoutOutput(images, o.output)
                    ELSE Cons([output |-> o.output, path |-> o.path],
                              WithoutOutput(images, o.output))
      BY <2>1 DEF Apply, load_image, WithoutOutput
    <3> QED BY <1>1, <2>1, <3>1, ImageStep
  <2>2. CASE o.kind # "image"
    <3>1. images' = images
      BY <2>2 DEF Apply
    <3> QED BY <1>1, <2>2, <3>1, ImagesUntouched
  <2> QED BY <2>1, <2>2
<1> QED
  BY <1>2, <1>3, <1>4

-----------------------------------------------------------------------------
\* select_image(): the image of the output, else the one for all outputs.

LEMMA LastOfOutput ==
  ASSUME NEW E, NEW s \in Seq(E), NEW x,
         NEW i, i = SelectLastInSeq(s, LAMBDA e : e.output = x)
  PROVE  /\ i \in 0 .. Len(s)
         /\ i = 0 => \A j \in 1 .. Len(s) : s[j].output # x
         /\ i # 0 => s[i].output = x
<1> DEFINE I == {j \in 1 .. Len(s) : s[j].output = x}
<1>1. i = IF I # {} THEN Max(I) ELSE 0
  BY DEF SelectLastInSeq
<1>2. CASE I = {}
  BY <1>1, <1>2
<1>3. CASE I # {}
  <2>1. I \in SUBSET (1 .. Len(s)) /\ Len(s) \in Nat
    OBVIOUS
  <2>2. Max(I) \in I
    <3> HIDE DEF I
    <3> QED BY <1>3, <2>1, LastIndex
  <2> QED BY <1>1, <1>3, <2>2
<1> QED
  BY <1>2, <1>3

LEMMA SelectsImage ==
  \A f, c \in Seq(Option) : \A x \in Outputs :
    ImagesFrom(f, c, images) =>
      select_image(x) =
        IF ImageWord(f, c, x) \notin Broken \cup {NoImage}
        THEN ImageWord(f, c, x)
        ELSE IF ImageWord(f, c, AnyOutput) \in Broken THEN NoImage
        ELSE ImageWord(f, c, AnyOutput)
<1> SUFFICES ASSUME NEW f \in Seq(Option), NEW c \in Seq(Option),
                    NEW x \in Outputs, ImagesFrom(f, c, images)
             PROVE  select_image(x) =
                      IF ImageWord(f, c, x) \notin Broken \cup {NoImage}
                      THEN ImageWord(f, c, x)
                      ELSE IF ImageWord(f, c, AnyOutput) \in Broken THEN NoImage
                      ELSE ImageWord(f, c, AnyOutput)
  OBVIOUS
<1> DEFINE own == SelectInSeq(images, LAMBDA i : i.output = x)
           all == SelectLastInSeq(images, LAMBDA i : i.output = AnyOutput)
<1>1. /\ images \in Seq(Loadable)
      /\ \A k \in DOMAIN images :
           /\ images[k].path = ImageWord(f, c, images[k].output)
           /\ images[k].path \notin Broken \cup {NoImage}
      /\ \A y \in Outputs \cup {AnyOutput} :
           ImageWord(f, c, y) \notin Broken \cup {NoImage} =>
             \E k \in DOMAIN images : images[k].output = y
  BY DEF ImagesFrom
<1>2. /\ own \in 0 .. Len(images)
      /\ own = 0 => \A j \in 1 .. Len(images) : images[j].output # x
      /\ own # 0 => images[own].output = x
  BY <1>1, FirstOfOutput
<1>3. /\ all \in 0 .. Len(images)
      /\ all = 0 => \A j \in 1 .. Len(images) : images[j].output # AnyOutput
      /\ all # 0 => images[all].output = AnyOutput
  BY <1>1, LastOfOutput
<1>4. select_image(x) = CASE own # 0             -> images[own].path
                          [] own = 0 /\ all # 0  -> images[all].path
                          [] own = 0 /\ all = 0  -> NoImage
  BY DEF select_image
<1>5. DOMAIN images = 1 .. Len(images) /\ Len(images) \in Nat
  BY <1>1
<1> HIDE DEF own, all
<1>6. CASE own # 0
  <2>1. own \in DOMAIN images
    BY <1>2, <1>5, <1>6
  <2> QED BY <1>1, <1>2, <1>4, <1>6, <2>1
<1>7. CASE own = 0 /\ all # 0
  <2>1. all \in DOMAIN images
    BY <1>3, <1>5, <1>7
  <2>2. ImageWord(f, c, x) \in Broken \cup {NoImage}
    BY <1>1, <1>2, <1>5, <1>7
  <2> QED BY <1>1, <1>3, <1>4, <1>7, <2>1, <2>2
<1>8. CASE own = 0 /\ all = 0
  <2>1. /\ ImageWord(f, c, x) \in Broken \cup {NoImage}
        /\ ImageWord(f, c, AnyOutput) \in Broken \cup {NoImage}
    BY <1>1, <1>2, <1>3, <1>5, <1>8
  <2> QED BY <1>4, <1>8, <2>1
<1> QED
  BY <1>6, <1>7, <1>8

-----------------------------------------------------------------------------
\* The inductive invariant: in each phase the settings are those of the
\* options that have been read.

PathAsWritten ==
  path = IF \E i \in DOMAIN cli : cli[i].kind = "config" THEN "given"
         ELSE IF files["home"] # NoFile THEN "home"
         ELSE IF files["xdg"] # NoFile THEN "xdg"
         ELSE IF files["sysconf"] # NoFile THEN "sysconf" ELSE NoFile

Scanning ==
  /\ next <= Len(cli) + 1
  /\ path = IF \E i \in 1 .. next - 1 : cli[i].kind = "config" THEN "given"
            ELSE NoFile
  /\ SettingsFrom(<<>>, <<>>)

ReadingFile ==
  /\ next <= Len(Lines) + 1
  /\ \A i \in 1 .. next - 1 : ~Rejected(Lines[i])
  /\ PathAsWritten
  /\ SettingsFrom(SubSeq(Lines, 1, next - 1), <<>>)

ReadingCli ==
  /\ next <= Len(cli) + 1
  /\ PathAsWritten
  /\ SettingsFrom(Obeyed, SubSeq(cli, 1, next - 1))

OptionsInv ==
  /\ phase \in {"scan", "file", "cli", "done", "exited"}
  /\ cli \in Seq(Option)
  /\ files \in [{"given", "home", "xdg", "sysconf"} -> {NoFile} \cup Seq(Option)]
  /\ path \in {"given", "home", "xdg", "sysconf", NoFile}
  /\ next \in Nat \ {0}
  /\ phase = "scan" => Scanning
  /\ phase = "file" => ReadingFile
  /\ phase = "cli" => ReadingCli
  /\ SettingsAsWritten

LEMMA PrefixIs ==
  \A s \in Seq(Option) :
    /\ SubSeq(s, 1, 0) = <<>>
    /\ SubSeq(s, 1, Len(s)) = s
    /\ \A n \in 1 .. Len(s) :
         /\ s[n] \in Option
         /\ SubSeq(s, 1, n - 1) \in Seq(Option)
         /\ SubSeq(s, 1, n) \in Seq(Option)
         /\ SubSeq(s, 1, n) = Append(SubSeq(s, 1, n - 1), s[n])
<1> SUFFICES ASSUME NEW s \in Seq(Option)
             PROVE  /\ SubSeq(s, 1, 0) = <<>>
                    /\ SubSeq(s, 1, Len(s)) = s
                    /\ \A n \in 1 .. Len(s) :
                         /\ s[n] \in Option
                         /\ SubSeq(s, 1, n - 1) \in Seq(Option)
                         /\ SubSeq(s, 1, n) \in Seq(Option)
                         /\ SubSeq(s, 1, n) = Append(SubSeq(s, 1, n - 1), s[n])
  OBVIOUS
<1>1. SubSeq(s, 1, 0) = <<>> /\ SubSeq(s, 1, Len(s)) = s
  OBVIOUS
<1>2. ASSUME NEW n \in 1 .. Len(s)
      PROVE  /\ s[n] \in Option
             /\ SubSeq(s, 1, n - 1) \in Seq(Option)
             /\ SubSeq(s, 1, n) \in Seq(Option)
             /\ SubSeq(s, 1, n) = Append(SubSeq(s, 1, n - 1), s[n])
  OBVIOUS
<1> QED
  BY <1>1, <1>2

BadLine(s) == SelectInSeq(s, Rejected)

LEMMA FirstRejected ==
  \A s \in Seq(Option) : \A n \in 1 .. Len(s) + 1 :
    (\A i \in 1 .. n - 1 : ~Rejected(s[i])) =>
      /\ n <= Len(s) /\ Rejected(s[n]) => BadLine(s) = n
      /\ n = Len(s) + 1 => BadLine(s) = 0
<1> SUFFICES ASSUME NEW s \in Seq(Option), NEW n \in 1 .. Len(s) + 1,
                    \A i \in 1 .. n - 1 : ~Rejected(s[i])
             PROVE  /\ n <= Len(s) /\ Rejected(s[n]) => BadLine(s) = n
                    /\ n = Len(s) + 1 => BadLine(s) = 0
  OBVIOUS
<1> DEFINE I == {i \in 1 .. Len(s) : Rejected(s[i])}
<1>1. BadLine(s) = IF I # {} THEN Min(I) ELSE 0
  BY DEF BadLine, SelectInSeq
<1>2. Len(s) \in Nat
  OBVIOUS
<1>3. CASE n = Len(s) + 1
  <2>1. I = {}
    BY <1>2, <1>3
  <2> QED BY <1>1, <1>2, <1>3, <2>1
<1>4. CASE n <= Len(s) /\ Rejected(s[n])
  <2>1. n \in I /\ I \in SUBSET Nat
    BY <1>2, <1>4
  <2>2. \A i \in I : n <= i
    BY <1>2
  <2>3. Min(I) \in I /\ \A i \in I : Min(I) <= i
    <3> HIDE DEF I
    <3> QED BY <2>1, FirstIndex
  <2>4. Min(I) = n
    <3> HIDE DEF I
    <3>1. Min(I) \in Nat /\ n \in Nat /\ Min(I) <= n /\ n <= Min(I)
      BY <1>2, <2>1, <2>2, <2>3
    <3> QED BY <3>1
  <2> QED BY <1>1, <1>2, <1>4, <2>1, <2>4
<1> QED
  BY <1>2, <1>3, <1>4

LEMMA InitialSettings ==
  ASSUME args = set_default_colors, mode = "FILL", line_mode = "LINE",
         images = <<>>
  PROVE  SettingsFrom(<<>>, <<>>)
<1>1. \A kind, name, default : LastWord(<<>>, <<>>, kind, name, default) = default
  BY NoWord
<1>2. FieldsFrom(<<>>, <<>>, args)
  BY <1>1 DEF FieldsFrom, set_default_colors
<1>3. LineFrom(<<>>, <<>>, line_mode) /\ ModeFrom(<<>>, <<>>, mode)
  <2>1. LineFrom(<<>>, <<>>, line_mode)
    <3>1. LastWord(<<>>, <<>>, "line", "any", [mode |-> "LINE"]).mode = "LINE"
      BY NoWord
    <3> QED BY <3>1 DEF LineFrom
  <2>2. ModeFrom(<<>>, <<>>, mode)
    <3>1. LastWord(<<>>, <<>>, "scaling", "any", [mode |-> "FILL"]).mode = "FILL"
      BY NoWord
    <3> QED BY <3>1 DEF ModeFrom, Modes
  <2> QED BY <2>1, <2>2
<1>4. ImagesFrom(<<>>, <<>>, images)
  <2>1. \A x : ImageWord(<<>>, <<>>, x) = NoImage
    BY <1>1 DEF ImageWord
  <2> QED BY <2>1 DEF ImagesFrom, OnePerOutput
<1> QED
  BY <1>2, <1>3, <1>4 DEF SettingsFrom

LEMMA OptionsInitInv == OptionsInit => OptionsInv
<1> SUFFICES ASSUME OptionsInit PROVE OptionsInv
  OBVIOUS
<1>1. SettingsFrom(<<>>, <<>>)
  BY InitialSettings DEF OptionsInit
<1>2. cli \in Seq(Option)
      /\ files \in [{"given", "home", "xdg", "sysconf"} -> {NoFile} \cup Seq(Option)]
  BY OptionsAssumption DEF OptionsInit
<1>3. Scanning
  BY <1>1, <1>2 DEF OptionsInit, Scanning
<1> QED
  BY <1>2, <1>3 DEF OptionsInit, OptionsInv, SettingsAsWritten

LEMMA LinesAre ==
  ASSUME OptionsInv
  PROVE  Lines \in Seq(Option)
<1>1. CASE path = NoFile
  BY <1>1 DEF Lines
<1>2. CASE path # NoFile
  <2>1. files[path] \in {NoFile} \cup Seq(Option)
    BY <1>2 DEF OptionsInv
  <2> QED BY <1>2, <2>1 DEF Lines
<1> QED
  BY <1>1, <1>2

LEMMA ObeyedIs ==
  ASSUME OptionsInv
  PROVE  Obeyed \in Seq(Option)
<1> DEFINE bad == SelectInSeq(Lines, Rejected)
           I == {i \in 1 .. Len(Lines) : Rejected(Lines[i])}
<1>1. Lines \in Seq(Option)
  BY LinesAre
<1>2. bad = IF I # {} THEN Min(I) ELSE 0
  BY DEF SelectInSeq
<1>3. I # {} => Min(I) \in I
  <2>1. I \in SUBSET Nat
    OBVIOUS
  <2> HIDE DEF I
  <2> QED BY <2>1, FirstIndex
<1>4. bad \in 0 .. Len(Lines)
  BY <1>1, <1>2, <1>3
<1>5. Obeyed = SubSeq(Lines, 1, IF bad = 0 THEN Len(Lines) ELSE bad)
  BY DEF Obeyed
<1> HIDE DEF bad
<1>6. CASE bad = 0
  BY <1>1, <1>5, <1>6, PrefixIs
<1>7. CASE bad # 0
  <2>1. bad \in 1 .. Len(Lines)
    BY <1>1, <1>4, <1>7
  <2> QED BY <1>1, <1>5, <1>7, <2>1, PrefixIs
<1> QED
  BY <1>6, <1>7

LEMMA ConfigPathIs ==
  get_config_path = IF files["home"] # NoFile THEN "home"
                    ELSE IF files["xdg"] # NoFile THEN "xdg"
                    ELSE IF files["sysconf"] # NoFile THEN "sysconf" ELSE NoFile
<1> DEFINE I == {i \in 1 .. Len(Paths) : files[Paths[i]] # NoFile}
           found == IF I # {} THEN Min(I) ELSE 0
<1>1. /\ Len(Paths) = 3
      /\ Paths[1] = "home" /\ Paths[2] = "xdg" /\ Paths[3] = "sysconf"
  BY DEF Paths
<1>2. get_config_path = IF found = 0 THEN NoFile ELSE Paths[found]
  BY DEF get_config_path, SelectInSeq
<1>3. \A i : i \in I <=> i \in {1, 2, 3} /\ files[Paths[i]] # NoFile
  BY <1>1
<1>4. I # {} => Min(I) \in I /\ \A i \in I : Min(I) <= i
  <2>1. I \in SUBSET Nat
    BY <1>3
  <2> HIDE DEF I
  <2> QED BY <2>1, FirstIndex
<1> HIDE DEF I
<1>5. CASE I = {}
  BY <1>1, <1>2, <1>3, <1>5
<1>6. CASE I # {}
  <2>1. found \in {1, 2, 3} /\ files[Paths[found]] # NoFile
    BY <1>3, <1>4, <1>6
  <2>2. \A i \in {1, 2, 3} : files[Paths[i]] # NoFile => found <= i
    BY <1>3, <1>4, <1>6
  <2> HIDE DEF found
  <2> QED BY <1>1, <1>2, <2>1, <2>2
<1> QED
  BY <1>5, <1>6

-----------------------------------------------------------------------------
\* Every step keeps the invariant.

LEMMA ScanInv ==
  OptionsInv /\ ScanOption => OptionsInv'
<1> SUFFICES ASSUME OptionsInv, ScanOption PROVE OptionsInv'
  OBVIOUS
<1> USE DEF written, settings
<1>1. next \in 1 .. Len(cli) /\ Len(cli) \in Nat /\ cli' = cli /\ files' = files
      /\ phase = "scan" /\ next' = next + 1 /\ phase' \in {"scan", "exited"}
  BY DEF ScanOption, OptionsInv
<1>2. \A i : i \in 1 .. next <=> i \in 1 .. next - 1 \/ i = next
  BY <1>1
<1>3. path' = IF \E i \in 1 .. next' - 1 : cli[i].kind = "config" THEN "given"
              ELSE NoFile
  <2>1. path = IF \E i \in 1 .. next - 1 : cli[i].kind = "config" THEN "given"
               ELSE NoFile
    BY <1>1 DEF OptionsInv, Scanning
  <2>2. path' = IF cli[next].kind = "config" THEN "given" ELSE path
    BY DEF ScanOption
  <2>3. next' - 1 = next
    BY <1>1
  <2> QED BY <1>2, <2>1, <2>2, <2>3
<1>4. SettingsFrom(<<>>, <<>>)'
  BY <1>1 DEF OptionsInv, Scanning, ScanOption, SettingsFrom
<1>5. Scanning'
  BY <1>1, <1>3, <1>4 DEF Scanning
<1> QED
  BY <1>1, <1>3, <1>5 DEF OptionsInv, SettingsAsWritten

LEMMA OpenInv ==
  OptionsInv /\ OpenConfig => OptionsInv'
<1> SUFFICES ASSUME OptionsInv, OpenConfig PROVE OptionsInv'
  OBVIOUS
<1> USE DEF written, settings
<1>1. /\ cli' = cli /\ files' = files /\ phase = "scan"
      /\ next' = 1 /\ phase' = "file" /\ UNCHANGED settings
      /\ next = Len(cli) + 1 /\ Len(cli) \in Nat
      /\ DOMAIN cli = 1 .. Len(cli)
  BY DEF OpenConfig, OptionsInv, Scanning
<1>2. PathAsWritten'
  <2>1. path = IF \E i \in DOMAIN cli : cli[i].kind = "config" THEN "given"
               ELSE NoFile
    <3>1. 1 .. next - 1 = DOMAIN cli
      BY <1>1
    <3> QED BY <1>1, <3>1 DEF OptionsInv, Scanning
  <2>2. path' = IF path = "given" THEN path ELSE get_config_path
    BY DEF OpenConfig
  <2>3. NoFile # "given"
    BY OptionsAssumption
  <2> QED BY <1>1, <2>1, <2>2, <2>3, ConfigPathIs DEF PathAsWritten
<1>3. path' \in {"given", "home", "xdg", "sysconf", NoFile}
  BY <1>2 DEF PathAsWritten
<1>4. Lines' \in Seq(Option)
  <2>1. CASE path' = NoFile
    BY <2>1 DEF Lines
  <2>2. CASE path' # NoFile
    <3>1. files'[path'] \in {NoFile} \cup Seq(Option)
      BY <1>1, <1>3, <2>2 DEF OptionsInv
    <3> QED BY <2>2, <3>1 DEF Lines
  <2> QED BY <2>1, <2>2
<1>5. SettingsFrom(SubSeq(Lines, 1, next - 1), <<>>)'
  <2>1. SubSeq(Lines', 1, 0) = <<>>
    BY <1>4, PrefixIs
  <2>2. next' - 1 = 0
    BY <1>1
  <2>3. SettingsFrom(<<>>, <<>>)
    BY <1>1 DEF OptionsInv, Scanning
  <2> QED BY <1>1, <2>1, <2>2, <2>3 DEF SettingsFrom
<1>6. ReadingFile'
  BY <1>1, <1>2, <1>4, <1>5 DEF ReadingFile
<1> QED
  BY <1>1, <1>3, <1>6 DEF OptionsInv, SettingsAsWritten

\* A step that leaves what was written and the path alone.
LEMMA StillWritten ==
  ASSUME OptionsInv, cli' = cli, files' = files, path' = path
  PROVE  /\ Lines' = Lines /\ Obeyed' = Obeyed
         /\ PathAsWritten => PathAsWritten'
         /\ cli' \in Seq(Option)
         /\ files' \in [{"given", "home", "xdg", "sysconf"} ->
                         {NoFile} \cup Seq(Option)]
         /\ path' \in {"given", "home", "xdg", "sysconf", NoFile}
BY DEF OptionsInv, Lines, Obeyed, PathAsWritten

LEMMA ConfigLineInv ==
  OptionsInv /\ ConfigLine => OptionsInv'
<1> SUFFICES ASSUME OptionsInv, ConfigLine PROVE OptionsInv'
  OBVIOUS
<1> DEFINE o == Lines[next]
           seen == SubSeq(Lines, 1, next - 1)
           all == SubSeq(Lines, 1, next)
<1>1. /\ cli' = cli /\ files' = files /\ path' = path
      /\ phase = "file" /\ Apply(o) /\ next <= Len(Lines)
      /\ phase' = IF o.kind = "version" THEN "exited"
                  ELSE IF Rejected(o) THEN "cli" ELSE "file"
      /\ next' = IF Rejected(o) THEN 1 ELSE next + 1
  BY DEF ConfigLine, written
<1>2. Lines \in Seq(Option)
  BY LinesAre
<1>3. next \in 1 .. Len(Lines) /\ Len(Lines) \in Nat
  BY <1>1, <1>2 DEF OptionsInv
<1>4. o \in Option /\ seen \in Seq(Option) /\ all \in Seq(Option)
      /\ all = Append(seen, o)
  BY <1>2, <1>3, PrefixIs
<1>5. /\ \A i \in 1 .. next - 1 : ~Rejected(Lines[i])
      /\ PathAsWritten
      /\ SettingsFrom(seen, <<>>)
  BY <1>1 DEF OptionsInv, ReadingFile
<1>6. /\ FieldsFrom(all, <<>>, args')
      /\ LineFrom(all, <<>>, line_mode')
      /\ ModeFrom(all, <<>>, mode')
      /\ ImagesFrom(all, <<>>, images')
  <2>1. <<>> \in Seq(Option) /\ Follows(all, <<>>, seen, <<>>, o)
    BY <1>4 DEF Follows
  <2> HIDE DEF o, seen, all
  <2> QED BY <1>1, <1>4, <1>5, <2>1, ApplyStep
<1>7. /\ Lines' = Lines /\ Obeyed' = Obeyed
      /\ PathAsWritten'
      /\ cli' \in Seq(Option)
      /\ files' \in [{"given", "home", "xdg", "sysconf"} ->
                      {NoFile} \cup Seq(Option)]
      /\ path' \in {"given", "home", "xdg", "sysconf", NoFile}
  BY <1>1, <1>5, StillWritten
<1>8. CASE Rejected(o)
  <2>1. Obeyed = all
    <3>1. BadLine(Lines) = next
      BY <1>2, <1>3, <1>5, <1>8, FirstRejected
    <3>2. Obeyed = SubSeq(Lines, 1, IF BadLine(Lines) = 0 THEN Len(Lines)
                                    ELSE BadLine(Lines))
      BY DEF Obeyed, BadLine
    <3> QED BY <1>3, <3>1, <3>2
  <2>2. SubSeq(cli', 1, next' - 1) = <<>>
    <3>1. next' - 1 = 0
      BY <1>1, <1>8
    <3> QED BY <1>7, <3>1, PrefixIs
  <2>3. ReadingCli'
    <3>1. SettingsFrom(Obeyed, SubSeq(cli, 1, next - 1))'
      <4> HIDE DEF all
      <4> QED BY <1>6, <1>7, <2>1, <2>2 DEF SettingsFrom
    <3>2. next' <= Len(cli') + 1
      <4>1. Len(cli') \in Nat
        BY <1>7
      <4> QED BY <1>1, <1>8, <4>1
    <3> QED BY <1>7, <3>1, <3>2 DEF ReadingCli
  <2>4. phase' \in {"cli", "exited"} /\ next' = 1
    BY <1>1, <1>8
  <2> QED BY <1>7, <2>3, <2>4 DEF OptionsInv, SettingsAsWritten
<1>9. CASE ~Rejected(o)
  <2>1. next' = next + 1 /\ next' - 1 = next
    BY <1>1, <1>3, <1>9
  <2>2. SettingsFrom(SubSeq(Lines, 1, next - 1), <<>>)'
    BY <1>6, <1>7, <2>1 DEF SettingsFrom
  <2>3. \A i \in 1 .. next' - 1 : ~Rejected(Lines'[i])
    <3>1. \A i \in 1 .. next : i = next \/ i \in 1 .. next - 1
      BY <1>3
    <3> QED BY <1>5, <1>7, <1>9, <2>1, <3>1
  <2>4. ReadingFile'
    BY <1>3, <1>7, <2>1, <2>2, <2>3 DEF ReadingFile
  <2>5. phase' \in {"file", "exited"} /\ next' \in Nat \ {0}
    BY <1>1, <1>3, <1>9, <2>1
  <2> QED BY <1>7, <2>4, <2>5 DEF OptionsInv, SettingsAsWritten
<1> QED
  BY <1>8, <1>9

LEMMA ConfigEndInv ==
  OptionsInv /\ ConfigEnd => OptionsInv'
<1> SUFFICES ASSUME OptionsInv, ConfigEnd PROVE OptionsInv'
  OBVIOUS
<1>1. /\ cli' = cli /\ files' = files /\ path' = path
      /\ phase = "file" /\ phase' = "cli" /\ next' = 1 /\ ~(next <= Len(Lines))
      /\ args' = args /\ mode' = mode /\ line_mode' = line_mode
      /\ images' = images
  <2>1. next > Len(Lines) => ~(next <= Len(Lines))
    BY LinesAre DEF OptionsInv
  <2> QED BY <2>1 DEF ConfigEnd, written, settings
<1>2. Lines \in Seq(Option)
  BY LinesAre
<1>3. next = Len(Lines) + 1 /\ Len(Lines) \in Nat
  BY <1>1, <1>2 DEF OptionsInv, ReadingFile
<1>4. /\ \A i \in 1 .. next - 1 : ~Rejected(Lines[i])
      /\ PathAsWritten
      /\ SettingsFrom(SubSeq(Lines, 1, next - 1), <<>>)
  BY <1>1 DEF OptionsInv, ReadingFile
<1>5. Obeyed = SubSeq(Lines, 1, next - 1)
  <2>1. BadLine(Lines) = 0
    <3>1. Len(Lines) + 1 \in 1 .. Len(Lines) + 1
      BY <1>3
    <3> QED BY <1>2, <1>3, <1>4, <3>1, FirstRejected
  <2>2. next - 1 = Len(Lines)
    BY <1>3
  <2>3. Obeyed = SubSeq(Lines, 1, IF BadLine(Lines) = 0 THEN Len(Lines)
                                  ELSE BadLine(Lines))
    BY DEF Obeyed, BadLine
  <2> QED BY <2>1, <2>2, <2>3
<1>6. /\ Obeyed' = Obeyed
      /\ PathAsWritten'
      /\ cli' \in Seq(Option)
      /\ files' \in [{"given", "home", "xdg", "sysconf"} ->
                      {NoFile} \cup Seq(Option)]
      /\ path' \in {"given", "home", "xdg", "sysconf", NoFile}
  BY <1>1, <1>4, StillWritten
<1>7. SubSeq(cli', 1, next' - 1) = <<>>
  <2>1. next' - 1 = 0
    BY <1>1
  <2> QED BY <1>6, <2>1, PrefixIs
<1>8. SettingsFrom(Obeyed, SubSeq(cli, 1, next - 1))'
  BY <1>1, <1>4, <1>5, <1>6, <1>7 DEF SettingsFrom
<1>9. ReadingCli'
  <2>1. Len(cli') \in Nat
    BY <1>6
  <2> QED BY <1>1, <1>6, <1>8, <2>1 DEF ReadingCli
<1> QED
  BY <1>1, <1>6, <1>9 DEF OptionsInv, SettingsAsWritten

LEMMA CliOptionInv ==
  OptionsInv /\ CliOption => OptionsInv'
<1> SUFFICES ASSUME OptionsInv, CliOption PROVE OptionsInv'
  OBVIOUS
<1> DEFINE o == cli[next]
           seen == SubSeq(cli, 1, next - 1)
           all == SubSeq(cli, 1, next)
<1>1. /\ cli' = cli /\ files' = files /\ path' = path
      /\ phase = "cli" /\ Apply(o) /\ next <= Len(cli)
      /\ phase' = IF Rejected(o) THEN "exited" ELSE "cli"
      /\ next' = next + 1
  BY DEF CliOption, written
<1>2. cli \in Seq(Option)
  BY DEF OptionsInv
<1>3. next \in 1 .. Len(cli) /\ Len(cli) \in Nat
  BY <1>1, <1>2 DEF OptionsInv
<1>4. o \in Option /\ seen \in Seq(Option) /\ all \in Seq(Option)
      /\ all = Append(seen, o)
  BY <1>2, <1>3, PrefixIs
<1>5. PathAsWritten /\ SettingsFrom(Obeyed, seen)
  BY <1>1 DEF OptionsInv, ReadingCli
<1>6. Obeyed \in Seq(Option)
  BY ObeyedIs
<1>7. /\ FieldsFrom(Obeyed, all, args')
      /\ LineFrom(Obeyed, all, line_mode')
      /\ ModeFrom(Obeyed, all, mode')
      /\ ImagesFrom(Obeyed, all, images')
  <2>1. Follows(Obeyed, all, Obeyed, seen, o)
    BY <1>4 DEF Follows
  <2> HIDE DEF o, seen, all
  <2> QED BY <1>1, <1>4, <1>5, <1>6, <2>1, ApplyStep
<1>8. /\ Obeyed' = Obeyed
      /\ PathAsWritten'
      /\ cli' \in Seq(Option)
      /\ files' \in [{"given", "home", "xdg", "sysconf"} ->
                      {NoFile} \cup Seq(Option)]
      /\ path' \in {"given", "home", "xdg", "sysconf", NoFile}
  BY <1>1, <1>5, StillWritten
<1>9. next' - 1 = next /\ next' \in Nat \ {0} /\ next' <= Len(cli) + 1
  BY <1>1, <1>3
<1>10. SettingsFrom(Obeyed, SubSeq(cli, 1, next - 1))'
  BY <1>1, <1>7, <1>8, <1>9 DEF SettingsFrom
<1>11. ReadingCli'
  BY <1>1, <1>8, <1>9, <1>10 DEF ReadingCli
<1> QED
  BY <1>1, <1>8, <1>9, <1>11 DEF OptionsInv, SettingsAsWritten

\* What is wanted does not depend on how far swaylock has come.
LEMMA StillWanted ==
  ASSUME OptionsInv, cli' = cli, files' = files, path' = path
  PROVE  /\ \A f : Wanted(f)' = Wanted(f)
         /\ WantedLine' = WantedLine
         /\ WantedMode' = WantedMode
         /\ \A x : WantedImage(x)' = WantedImage(x)
<1>1. Obeyed' = Obeyed
  BY StillWritten
<1> QED
  BY <1>1 DEF Wanted, WantedLine, WantedMode, WantedImage, Word

LEMMA StillSelected ==
  ASSUME images' = images
  PROVE  \A x : select_image(x)' = select_image(x)
<1> SUFFICES ASSUME NEW x PROVE select_image(x)' = select_image(x)
  OBVIOUS
<1> QED
  BY DEF select_image, SelectInSeq, SelectLastInSeq

LEMMA UseLineModeInv ==
  OptionsInv /\ UseLineMode => OptionsInv'
<1> SUFFICES ASSUME OptionsInv, UseLineMode PROVE OptionsInv'
  OBVIOUS
<1>1. /\ cli' = cli /\ files' = files /\ path' = path /\ next' = next
      /\ mode' = mode /\ line_mode' = line_mode /\ images' = images
      /\ phase = "cli" /\ phase' = "done" /\ next > Len(cli)
  BY DEF UseLineMode, written
<1>2. cli \in Seq(Option) /\ Obeyed \in Seq(Option)
  BY ObeyedIs DEF OptionsInv
<1>3. PathAsWritten /\ SettingsFrom(Obeyed, cli)
  <2>1. /\ PathAsWritten /\ next <= Len(cli) + 1
        /\ SettingsFrom(Obeyed, SubSeq(cli, 1, next - 1))
    BY <1>1 DEF OptionsInv, ReadingCli
  <2>2. next - 1 = Len(cli)
    <3>1. Len(cli) \in Nat /\ next \in Nat
      BY <1>2 DEF OptionsInv
    <3> QED BY <1>1, <2>1, <3>1
  <2> QED BY <1>2, <2>1, <2>2, PrefixIs
<1>4. /\ Obeyed' = Obeyed
      /\ PathAsWritten'
      /\ cli' \in Seq(Option)
      /\ files' \in [{"given", "home", "xdg", "sysconf"} ->
                      {NoFile} \cup Seq(Option)]
      /\ path' \in {"given", "home", "xdg", "sysconf", NoFile}
  BY <1>1, <1>3, StillWritten
<1>5. args = [x \in Fields |-> Wanted(x)]
  BY <1>3 DEF SettingsFrom, FieldsFrom, Wanted, Word
<1>6. /\ \A f \in Fields \ {"line"} : args'[f] = Wanted(f)
      /\ args'["line"] = WantedLine
  <2>1. args' = CASE line_mode = "INSIDE" -> [args EXCEPT !["line"] = args["inside"]]
                  [] line_mode = "RING"   -> [args EXCEPT !["line"] = args["ring"]]
                  [] OTHER                -> args
    BY DEF UseLineMode
  <2>2. line_mode = Word("line", "any", [mode |-> "LINE"]).mode
    BY <1>3 DEF SettingsFrom, LineFrom, Word
  <2>3. {"line", "inside", "ring"} \subseteq Fields
    BY DEF Fields
  <2>4. CASE line_mode = "INSIDE"
    <3>1. args' = [args EXCEPT !["line"] = args["inside"]]
      BY <2>1, <2>4
    <3>2. WantedLine = Wanted("inside")
      BY <2>2, <2>4 DEF WantedLine
    <3> QED BY <1>5, <2>3, <3>1, <3>2
  <2>5. CASE line_mode = "RING"
    <3>1. args' = [args EXCEPT !["line"] = args["ring"]]
      BY <2>1, <2>5
    <3>2. WantedLine = Wanted("ring")
      BY <2>2, <2>5 DEF WantedLine
    <3> QED BY <1>5, <2>3, <3>1, <3>2
  <2>6. CASE line_mode # "INSIDE" /\ line_mode # "RING"
    <3>1. args' = args
      BY <2>1, <2>6
    <3>2. WantedLine = Wanted("line")
      BY <2>2, <2>6 DEF WantedLine
    <3> QED BY <1>5, <2>3, <3>1, <3>2
  <2> QED BY <2>4, <2>5, <2>6
<1>7. mode = WantedMode
  BY <1>3 DEF SettingsFrom, ModeFrom, WantedMode, Word
<1>8. \A x \in Outputs :
        select_image(x) = IF WantedImage(x) # NoImage THEN WantedImage(x)
                          ELSE WantedImage(AnyOutput)
  <2>1. ImagesFrom(Obeyed, cli, images)
    BY <1>3 DEF SettingsFrom
  <2>2. \A x \in Outputs :
          select_image(x) =
            IF ImageWord(Obeyed, cli, x) \notin Broken \cup {NoImage}
            THEN ImageWord(Obeyed, cli, x)
            ELSE IF ImageWord(Obeyed, cli, AnyOutput) \in Broken THEN NoImage
            ELSE ImageWord(Obeyed, cli, AnyOutput)
    BY <1>2, <2>1, SelectsImage
  <2>3. \A x : WantedImage(x) = IF ImageWord(Obeyed, cli, x) \in Broken
                                THEN NoImage ELSE ImageWord(Obeyed, cli, x)
    BY DEF WantedImage, Word, ImageWord
  <2> QED BY <2>2, <2>3
<1>9. \A x : select_image(x)' = select_image(x)
  BY <1>1, StillSelected
<1>10. SettingsAsWritten'
  <2>1. \A f \in Fields \ {"line"} : args'[f] = Wanted(f)'
    BY <1>1, <1>6, StillWanted
  <2>2. args'["line"] = WantedLine' /\ mode' = WantedMode'
    BY <1>1, <1>6, <1>7, StillWanted
  <2>3. \A x \in Outputs :
          select_image(x)' = IF WantedImage(x)' # NoImage THEN WantedImage(x)'
                             ELSE WantedImage(AnyOutput)'
    BY <1>1, <1>8, <1>9, StillWanted
  <2> QED BY <1>4, <2>1, <2>2, <2>3 DEF SettingsAsWritten, PathAsWritten
<1> QED
  BY <1>1, <1>4, <1>10 DEF OptionsInv

LEMMA OptionsStutterInv ==
  OptionsInv /\ UNCHANGED optionVars => OptionsInv'
<1> SUFFICES ASSUME OptionsInv, UNCHANGED optionVars PROVE OptionsInv'
  OBVIOUS
<1>1. /\ cli' = cli /\ files' = files /\ path' = path /\ next' = next
      /\ args' = args /\ mode' = mode /\ line_mode' = line_mode
      /\ images' = images /\ phase' = phase
  BY DEF optionVars
<1>2. /\ Lines' = Lines /\ Obeyed' = Obeyed
      /\ PathAsWritten => PathAsWritten'
      /\ \A f : Wanted(f)' = Wanted(f)
      /\ WantedLine' = WantedLine
      /\ WantedMode' = WantedMode
      /\ \A x : WantedImage(x)' = WantedImage(x)
      /\ \A x : select_image(x)' = select_image(x)
  BY <1>1, StillWritten, StillWanted, StillSelected
<1>3. SettingsAsWritten'
  BY <1>1, <1>2 DEF OptionsInv, SettingsAsWritten
<1>4. \A f, c : SettingsFrom(f, c) => SettingsFrom(f, c)'
  BY <1>1 DEF SettingsFrom
<1>5. /\ phase = "scan" => Scanning'
      /\ phase = "file" => ReadingFile'
      /\ phase = "cli" => ReadingCli'
  BY <1>1, <1>2, <1>4
  DEF OptionsInv, Scanning, ReadingFile, ReadingCli, SettingsFrom
<1> QED
  BY <1>1, <1>3, <1>5 DEF OptionsInv

-----------------------------------------------------------------------------
\* Whatever is written on the command line and in the files, the settings
\* of each phase are those of the options read so far.
THEOREM OptionsInvariance == OptionsSpec => []OptionsInv
<1>1. OptionsInit => OptionsInv
  BY OptionsInitInv
<1>2. OptionsInv /\ [OptionsNext]_optionVars => OptionsInv'
  BY ScanInv, OpenInv, ConfigLineInv, ConfigEndInv, CliOptionInv,
     UseLineModeInv, OptionsStutterInv DEF OptionsNext
<1> QED
  BY <1>1, <1>2, PTL DEF OptionsSpec

\* The settings main() goes on with are those the user wrote: the command
\* line over the file, the later over the earlier (main.c, parse_options(),
\* load_config(), load_image(), select_image()).
THEOREM SettingsCorrect == OptionsSpec => []SettingsAsWritten
<1>1. OptionsInv => SettingsAsWritten
  BY DEF OptionsInv
<1> QED
  BY <1>1, OptionsInvariance, PTL

=============================================================================
