---------------------------- MODULE DaemonProofs ----------------------------
(* Theorems about Daemon for every set of process ids and every length of    *)
(* the interval, the deadlines and the sleeps.  The first half is about      *)
(* Daemon, the second about the stopwatches of DaemonTimed: what is left of  *)
(* each deadline and of each blocking call bounds what they show.            *)
EXTENDS DaemonTimed, TLAPS

USE NoPidAssumption, ReminderTicksAssumption, DaemonTicksAssumption
  DEF NoPidAssumption, ReminderTicksAssumption, DaemonTicksAssumption

-----------------------------------------------------------------------------
(* Type correctness                                                          *)

\* The steps of reminder.c keep its state well typed.
LEMMA StartReminderType ==
    ASSUME NEW p \in Pids, ReminderTypeOK, StartReminder(p)
    PROVE  ReminderTypeOK'
  <1>1. child' \in [Pids -> ChildStates] /\ sig' \in [Pids -> Signals]
    BY DEF ReminderTypeOK, StartReminder, ChildStates, Signals
  <1>2. SleepTicks + MarginTicks \in Nat
    OBVIOUS
  <1> QED BY <1>1, <1>2 DEF ReminderTypeOK, StartReminder

\* So does cgk_poll_reminder,
LEMMA PollReminderType ==
    ASSUME ReminderTypeOK, PollReaps \/ PollTerminates \/ PollKills \/ PollWaits
    PROVE  ReminderTypeOK'
  <1>1. CASE PollReaps
    BY <1>1 DEF ReminderTypeOK, PollReaps, ReapIfFinished, ChildStates, Signals
  <1>2. CASE PollTerminates
    BY <1>2 DEF ReminderTypeOK, PollTerminates, KillChild, Signals
  <1>3. CASE PollKills
    BY <1>3 DEF ReminderTypeOK, PollKills, KillChild, ChildStates, Signals
  <1>4. CASE PollWaits
    BY <1>4 DEF ReminderTypeOK, PollWaits, reminderVars
  <1> QED BY <1>1, <1>2, <1>3, <1>4

\* cgk_stop_reminder,
LEMMA StopReminderType ==
    ASSUME ReminderTypeOK,
           \/ StopNeedless \/ StopTerminates \/ StopReapsInTime
           \/ StopKills \/ StopReapsAtLast
    PROVE  ReminderTypeOK'
  <1>1. CASE StopNeedless
    BY <1>1 DEF ReminderTypeOK, StopNeedless, reminderVars
  <1>2. CASE StopTerminates
    BY <1>2 DEF ReminderTypeOK, StopTerminates, KillChild, Signals, structVars
  <1>3. CASE StopReapsInTime
    BY <1>3 DEF ReminderTypeOK, StopReapsInTime, ReapIfFinished, ChildStates,
                Signals
  <1>4. CASE StopKills
    BY <1>4 DEF ReminderTypeOK, StopKills, KillChild, Signals, structVars
  <1>5. CASE StopReapsAtLast
    BY <1>5 DEF ReminderTypeOK, StopReapsAtLast, ReapIfFinished, ChildStates,
                Signals
  <1> QED BY <1>1, <1>2, <1>3, <1>4, <1>5

\* and the child.
LEMMA ChildStepType ==
    ASSUME NEW p \in Pids, ReminderTypeOK, ChildStep(p)
    PROVE  ReminderTypeOK'
  BY DEF ReminderTypeOK, ChildStep, Exec, ExecFails, SwallowTerm, OverlayExits,
         KillDelivered, Become, ChildStates, Signals, structVars

\* What follows a call of cgk_stop_reminder keeps main.c's state well typed.
LEMMA ResumeType ==
    ASSUME TypeOK, ReminderTypeOK', NEW k \in Callers, Resume(k),
           UNCHANGED locked, after' \in Callers
    PROVE  TypeOK'
  <1>1. \A l \in Locations : BlockingTicks(l) \in Nat
    BY DEF BlockingTicks
  <1>2. \A l \in Locations : Goto(l) => pc' \in Locations /\ nap' \in Nat
    BY <1>1 DEF Goto
  <1>3. CASE ExitWith(69) /\ UNCHANGED <<state, should_stop, remaining>>
    BY <1>2, <1>3 DEF TypeOK, ExitWith, Locations, ExitFailures
  <1>4. CASE /\ state' = "locked"
             /\ Goto("control")
             /\ UNCHANGED <<should_stop, remaining, exit_code>>
    BY <1>2, <1>4 DEF TypeOK, Locations, States
  <1>5. CASE /\ RestartCount
             /\ Goto("timer")
             /\ UNCHANGED <<should_stop, exit_code>>
    BY <1>2, <1>5 DEF TypeOK, RestartCount, Locations, States
  <1>6. CASE /\ should_stop' = TRUE
             /\ Goto("final")
             /\ UNCHANGED <<state, remaining, exit_code>>
    BY <1>2, <1>6 DEF TypeOK, Locations
  <1>7. CASE ExitWith(0) /\ UNCHANGED <<state, should_stop, remaining>>
    BY <1>2, <1>7 DEF TypeOK, ExitWith, Locations
  <1> QED BY <1>3, <1>4, <1>5, <1>6, <1>7 DEF Resume

LEMMA StopIfRemindingType ==
    ASSUME TypeOK, NEW k \in Callers, StopIfReminding(k)
    PROVE  TypeOK'
  <1>1. CASE state = "reminding" /\ StopNeedless /\ Resume(k)
             /\ UNCHANGED <<after, locked>>
    <2>1. ReminderTypeOK'
      BY <1>1, StopReminderType DEF TypeOK
    <2> QED BY <1>1, <2>1, ResumeType DEF TypeOK
  <1>2. CASE /\ StopTerminates
             /\ after' = k
             /\ Goto("stopWait")
             /\ UNCHANGED <<state, should_stop, remaining, exit_code, locked>>
    <2>1. ReminderTypeOK'
      BY <1>2, StopReminderType DEF TypeOK
    <2> QED BY <1>2, <2>1 DEF TypeOK, Goto, BlockingTicks, Locations
  <1>3. CASE Resume(k) /\ UNCHANGED <<reminderVars, after, locked>>
    <2>1. ReminderTypeOK'
      BY <1>3 DEF TypeOK, ReminderTypeOK, reminderVars
    <2> QED BY <1>3, <2>1, ResumeType DEF TypeOK
  <1> QED BY <1>1, <1>2, <1>3 DEF StopIfReminding, StopReminder

\* Every step of the daemon and of its surroundings keeps the type invariant.
LEMMA NextType == TypeOK /\ [Next]_vars => TypeOK'
  <1> SUFFICES ASSUME TypeOK, [Next]_vars
               PROVE  TypeOK'
    OBVIOUS
  <1>1. UNCHANGED reminderVars => ReminderTypeOK'
    BY DEF TypeOK, ReminderTypeOK, reminderVars
  <1>2. \A l \in Locations : Goto(l) => pc' \in Locations /\ nap' \in Nat
    BY DEF Goto, BlockingTicks
  <1>3. ASSUME NEW n \in Nat
        PROVE  Countdown(n) \in Nat
    BY <1>3 DEF Countdown
  <1>4. CASE Boot
    BY <1>1, <1>2, <1>4 DEF Boot, TypeOK, Locations, States
  <1>5. CASE BootFails
    BY <1>1, <1>2, <1>5 DEF BootFails, ExitWith, TypeOK, Locations
  <1>6. CASE LeaveLoop
    BY <1>1, <1>2, <1>6 DEF LeaveLoop, TypeOK, Locations
  <1>7. CASE LockReadFails
    BY <1>7, StopIfRemindingType DEF LockReadFails, Callers
  <1>8. CASE LockSeen
    BY <1>8, StopIfRemindingType DEF LockSeen, Callers
  <1>9. CASE UnlockSeen
    BY <1>1, <1>2, <1>9 DEF UnlockSeen, RestartCount, TypeOK, Locations, States
  <1>10. CASE NoLockChange
    BY <1>1, <1>2, <1>10 DEF NoLockChange, TypeOK, Locations
  <1>11. ASSUME NEW request \in Requests, HandleRequest(request)
         PROVE  TypeOK'
    <2>1. CASE RequestIgnored(request)
      BY <1>1, <1>2, <2>1 DEF RequestIgnored, TypeOK, Locations
    <2>2. CASE Dismiss(request)
      BY <2>2, StopIfRemindingType DEF Dismiss, StopIfReminding, Callers
    <2>3. CASE Quit(request)
      BY <2>3, StopIfRemindingType DEF Quit, Callers
    <2>4. CASE Trigger(request)
      <3>1. ReminderTypeOK'
        BY <1>1, <2>4, StartReminderType
           DEF Trigger, StartReminderFails, TypeOK
      <3> QED BY <1>2, <2>4, <3>1 DEF Trigger, TypeOK, Locations, States
    <2> QED BY <1>11, <2>1, <2>2, <2>3, <2>4 DEF HandleRequest
  <1>12. CASE TimerIdle
    BY <1>1, <1>2, <1>12 DEF TimerIdle, TypeOK, Locations
  <1>13. CASE TimerFires
    <2>1. ReminderTypeOK'
      BY <1>1, <1>13, StartReminderType
         DEF TimerFires, StartReminderFails, TypeOK
    <2> QED BY <1>2, <1>13, <2>1
            DEF TimerFires, RestartCount, TypeOK, Locations, States
  <1>14. CASE PollReminder
    <2>1. ReminderTypeOK'
      BY <1>14, PollReminderType DEF PollReminder, TypeOK
    <2> QED BY <1>2, <1>14, <2>1
            DEF PollReminder, RestartCount, TypeOK, Locations, States
  <1>15. CASE Wake
    BY <1>1, <1>2, <1>15 DEF Wake, TypeOK, Locations
  <1>16. CASE Final
    BY <1>16, StopIfRemindingType DEF Final, Callers
  <1>17. CASE StopWaitReaps
    BY <1>17, StopReminderType, ResumeType DEF StopWaitReaps, TypeOK
  <1>18. CASE StopWaitExpires
    <2>1. ReminderTypeOK'
      BY <1>18, StopReminderType DEF StopWaitExpires, TypeOK
    <2> QED BY <1>2, <1>18, <2>1 DEF StopWaitExpires, TypeOK, Locations
  <1>19. CASE StopReapReaps
    BY <1>19, StopReminderType, ResumeType DEF StopReapReaps, TypeOK
  <1>20. CASE Signal
    <2>1. nap' \in Nat
      BY <1>20 DEF Signal, BlockingTicks
    <2> QED BY <1>1, <1>20, <2>1 DEF Signal, TypeOK
  <1>21. CASE SessionLocks \/ SessionUnlocks
    BY <1>1, <1>21 DEF SessionLocks, SessionUnlocks, TypeOK
  <1>22. ASSUME NEW p \in Pids, Child(p)
         PROVE  TypeOK'
    BY <1>22, ChildStepType DEF Child, TypeOK
  <1>23. CASE Tick
    <2>1. ReminderTypeOK'
      BY <1>3, <1>23 DEF Tick, ReminderTick, TypeOK, ReminderTypeOK
    <2> QED BY <1>3, <1>23, <2>1 DEF Tick, TypeOK
  <1>24. CASE UNCHANGED vars
    BY <1>1, <1>24 DEF vars, TypeOK
  <1> QED
    BY <1>4, <1>5, <1>6, <1>7, <1>8, <1>9, <1>10, <1>11, <1>12, <1>13, <1>14,
       <1>15, <1>16, <1>17, <1>18, <1>19, <1>20, <1>21, <1>22, <1>23, <1>24
       DEF Next, DaemonStep, Environment

LEMMA InitType == Init => TypeOK
  <1> SUFFICES ASSUME Init
               PROVE  TypeOK
    OBVIOUS
  <1>1. child \in [Pids -> ChildStates] /\ sig \in [Pids -> Signals]
    BY DEF Init, ReminderInit, ChildStates, Signals
  <1>2. ReminderTypeOK
    BY <1>1 DEF Init, ReminderInit, ReminderTypeOK
  <1> QED BY <1>2 DEF Init, TypeOK, Locations, States, Callers

\* Every variable keeps its type, for every interval, sleep and deadline: the
\* countdowns never fall below zero, and what cgk_daemon_main returns is one of
\* the exit codes of config.h (main.c:163-306, reminder.c:304-432).
THEOREM TypeCorrect == Spec => []TypeOK
  BY InitType, NextType, PTL DEF Spec

-----------------------------------------------------------------------------
(* Supervision                                                               *)

NoneUnkilled == \A p \in Pids : ~Unkilled(p)

\* Waiting for the tracked overlay leaves no unkilled one, if there was no other.
LEMMA ReapLeavesNone ==
    ASSUME TypeOK, Supervised, ReapIfFinished
    PROVE  NoneUnkilled'
  BY DEF TypeOK, ReminderTypeOK, Supervised, ReapIfFinished, NoneUnkilled,
         Unkilled, Live

\* So does killing it.
LEMMA KillLeavesNone ==
    ASSUME TypeOK, Supervised, KillChild("kill"), UNCHANGED child
    PROVE  NoneUnkilled'
  BY DEF TypeOK, ReminderTypeOK, Supervised, KillChild, NoneUnkilled, Unkilled,
         Live

\* Without a recorded pid, or in another state than reminding, there is none.
LEMMA NothingToStop ==
    ASSUME TypeOK, Supervised, pid = NoPid \/ state # "reminding",
           UNCHANGED reminderVars
    PROVE  NoneUnkilled'
  BY DEF TypeOK, ReminderTypeOK, Supervised, NoneUnkilled, Unkilled, Live,
         reminderVars

\* A started overlay is the only unkilled one.
LEMMA StartMakesOne ==
    ASSUME TypeOK, Supervised, state # "reminding", NEW p \in Pids,
           StartReminder(p)
    PROVE  \A q \in Pids : Unkilled(q)' => q = pid'
  BY DEF TypeOK, ReminderTypeOK, Supervised, StartReminder, Unkilled, Live

\* SIGTERM and the child's own steps add no unkilled overlay.
LEMMA NoneAdded ==
    ASSUME TypeOK,
           \/ KillChild("term") /\ UNCHANGED <<child, pid>> /\ pid # NoPid
           \/ \E p \in Pids : ChildStep(p)
           \/ UNCHANGED reminderVars
    PROVE  \A q \in Pids \ {pid} : Unkilled(q)' => Unkilled(q)
  <1>1. CASE KillChild("term") /\ UNCHANGED <<child, pid>> /\ pid # NoPid
    BY <1>1 DEF TypeOK, ReminderTypeOK, KillChild, Unkilled, Live
  <1>2. ASSUME NEW p \in Pids, ChildStep(p)
        PROVE  \A q \in Pids : Unkilled(q)' => Unkilled(q)
    BY <1>2 DEF TypeOK, ReminderTypeOK, ChildStep, Exec, ExecFails, SwallowTerm,
                OverlayExits, KillDelivered, Become, Unkilled, Live
  <1>3. CASE UNCHANGED reminderVars
    BY <1>3 DEF Unkilled, Live, reminderVars
  <1> QED BY <1>1, <1>2, <1>3

LEMMA StopIfRemindingSupervised ==
    ASSUME TypeOK, Supervised, NEW k \in Callers, StopIfReminding(k)
    PROVE  Supervised'
  <1>1. CASE state = "reminding" /\ StopNeedless
    BY <1>1, NothingToStop DEF StopNeedless, NoneUnkilled, Supervised
  <1>2. CASE /\ state = "reminding" /\ StopTerminates
             /\ Goto("stopWait") /\ UNCHANGED state
    <2>1. \A q \in Pids \ {pid} : Unkilled(q)' => Unkilled(q)
      BY <1>2, NoneAdded DEF StopTerminates, structVars
    <2> QED BY <1>2, <2>1 DEF Supervised, StopTerminates, structVars, Goto
  <1>3. CASE state # "reminding" /\ UNCHANGED reminderVars
    BY <1>3, NothingToStop DEF NoneUnkilled, Supervised
  <1> QED BY <1>1, <1>2, <1>3 DEF StopIfReminding, StopReminder

LEMMA NextSupervised == TypeOK /\ Supervised /\ [Next]_vars => Supervised'
  <1> SUFFICES ASSUME TypeOK, Supervised, [Next]_vars
               PROVE  Supervised'
    OBVIOUS
  <1>1. NoneUnkilled' => Supervised'
    BY DEF NoneUnkilled, Supervised
  <1>2. ASSUME UNCHANGED <<reminderVars, state>>, pc' \in Locations \ {"exited"},
               pc' # "boot" \/ UNCHANGED pc
        PROVE  Supervised'
    BY <1>2 DEF Supervised, Unkilled, Live, reminderVars
  <1>3. ASSUME UNCHANGED reminderVars,
               \/ state # "reminding" \/ pc \in {"boot", "exited"} \/ pid = NoPid
        PROVE  Supervised'
    BY <1>1, <1>3, NothingToStop
       DEF Supervised, NoneUnkilled, reminderVars, Unkilled, Live
  <1>4. CASE Boot
    BY <1>3, <1>4 DEF Boot
  <1>5. CASE BootFails
    BY <1>3, <1>5 DEF BootFails
  <1>6. CASE LeaveLoop
    BY <1>2, <1>6 DEF LeaveLoop, Goto, Locations
  <1>7. CASE LockReadFails
    BY <1>7, StopIfRemindingSupervised DEF LockReadFails, Callers
  <1>8. CASE LockSeen
    BY <1>8, StopIfRemindingSupervised DEF LockSeen, Callers
  <1>9. CASE UnlockSeen
    BY <1>3, <1>9 DEF UnlockSeen
  <1>10. CASE NoLockChange
    BY <1>2, <1>10 DEF NoLockChange, Goto, Locations
  <1>11. ASSUME NEW request \in Requests, HandleRequest(request)
         PROVE  Supervised'
    <2>1. CASE RequestIgnored(request)
      BY <1>2, <2>1 DEF RequestIgnored, Goto, Locations
    <2>2. CASE Dismiss(request)
      BY <2>2, StopIfRemindingSupervised DEF Dismiss, StopIfReminding, Callers
    <2>3. CASE Quit(request)
      BY <2>3, StopIfRemindingSupervised DEF Quit, Callers
    <2>4. CASE Trigger(request)
      <3>1. CASE state' = "reminding" /\ \E p \in Pids : StartReminder(p)
        BY <2>4, <3>1, StartMakesOne DEF Trigger, Supervised, Goto
      <3>2. CASE StartReminderFails
        BY <1>3, <2>4, <3>2 DEF Trigger, StartReminderFails
      <3> QED BY <2>4, <3>1, <3>2 DEF Trigger
    <2> QED BY <1>11, <2>1, <2>2, <2>3, <2>4 DEF HandleRequest
  <1>12. CASE TimerIdle
    BY <1>2, <1>12 DEF TimerIdle, Goto, Locations
  <1>13. CASE TimerFires
    <2>1. CASE state' = "reminding" /\ \E p \in Pids : StartReminder(p)
      BY <1>13, <2>1, StartMakesOne DEF TimerFires, Supervised, Goto
    <2>2. CASE StartReminderFails
      BY <1>3, <1>13, <2>2 DEF TimerFires, StartReminderFails
    <2> QED BY <1>13, <2>1, <2>2 DEF TimerFires
  <1>14. CASE PollReminder
    <2>1. CASE PollReaps
      BY <1>1, <2>1, ReapLeavesNone DEF PollReaps
    <2>2. CASE PollKills
      <3>1. CASE KillChild("kill") /\ UNCHANGED child
        BY <1>1, <3>1, KillLeavesNone
      <3>2. CASE /\ child' = [child EXCEPT ![pid] = "free"]
                 /\ sig' = [sig EXCEPT ![pid] = "none"]
        BY <1>1, <3>2
           DEF Supervised, NoneUnkilled, Unkilled, Live, TypeOK, ReminderTypeOK
      <3> QED BY <2>2, <3>1, <3>2 DEF PollKills
    <2>3. CASE PollTerminates /\ UNCHANGED state
      <3>1. \A q \in Pids \ {pid} : Unkilled(q)' => Unkilled(q)
        BY <2>3, NoneAdded DEF PollTerminates, Finished
      <3> QED BY <1>14, <2>3, <3>1
              DEF PollReminder, PollTerminates, Supervised, Goto
    <2>4. CASE PollWaits /\ UNCHANGED state
      BY <1>2, <1>14, <2>4 DEF PollReminder, PollWaits, Goto, Locations
    <2> QED BY <1>14, <2>1, <2>2, <2>3, <2>4 DEF PollReminder
  <1>15. CASE Wake
    BY <1>2, <1>15 DEF Wake, Goto, Locations
  <1>16. CASE Final
    BY <1>16, StopIfRemindingSupervised DEF Final, Callers
  <1>17. CASE StopWaitReaps
    BY <1>1, <1>17, ReapLeavesNone DEF StopWaitReaps, StopReapsInTime
  <1>18. CASE StopWaitExpires
    BY <1>1, <1>18, KillLeavesNone DEF StopWaitExpires, StopKills
  <1>19. CASE StopReapReaps
    BY <1>1, <1>19, ReapLeavesNone DEF StopReapReaps, StopReapsAtLast
  <1>20. CASE Signal
    BY <1>2, <1>20 DEF Signal, TypeOK
  <1>21. CASE SessionLocks \/ SessionUnlocks \/ UNCHANGED vars
    BY <1>2, <1>3, <1>21 DEF SessionLocks, SessionUnlocks, vars, TypeOK
  <1>22. ASSUME NEW p \in Pids, Child(p)
         PROVE  Supervised'
    <2>1. UNCHANGED <<pid, state, pc>>
      BY <1>22 DEF Child, ChildStep, Exec, ExecFails, SwallowTerm, OverlayExits,
                   KillDelivered, Become, structVars
    <2>2. \A q \in Pids : Unkilled(q)' => Unkilled(q)
      BY <1>22 DEF Child, ChildStep, Exec, ExecFails, SwallowTerm, OverlayExits,
                   KillDelivered, Become, Unkilled, Live, TypeOK, ReminderTypeOK
    <2> QED BY <2>1, <2>2 DEF Supervised
  <1>23. CASE Tick
    BY <1>23 DEF Tick, ReminderTick, Supervised, Unkilled, Live
  <1> QED
    BY <1>4, <1>5, <1>6, <1>7, <1>8, <1>9, <1>10, <1>11, <1>12, <1>13, <1>14,
       <1>15, <1>16, <1>17, <1>18, <1>19, <1>20, <1>21, <1>22, <1>23
       DEF Next, DaemonStep, Environment

-----------------------------------------------------------------------------
(* Targets of signals                                                        *)

Targets == SignalTargets /\ PidIsOurs

\* The steps of reminder.c that leave the blocking loops, or never enter them.
LEMMA ReminderStepTargets ==
    ASSUME TypeOK, Targets,
           \/ \E p \in Pids : StartReminder(p)
           \/ PollReaps \/ PollTerminates \/ PollKills
           \/ StopReapsInTime \/ StopReapsAtLast
           \/ UNCHANGED reminderVars
    PROVE  SignalTargets' /\ (pid' # NoPid => child'[pid'] # "free")
  <1> USE DEF Targets, SignalTargets, PidIsOurs, TypeOK, ReminderTypeOK
  <1>1. ASSUME NEW p \in Pids, StartReminder(p)
        PROVE  SignalTargets' /\ (pid' # NoPid => child'[pid'] # "free")
    BY <1>1 DEF StartReminder
  <1>2. CASE ReapIfFinished
    BY <1>2 DEF ReapIfFinished
  <1>3. CASE PollTerminates
    BY <1>3 DEF PollTerminates, KillChild, Finished
  <1>4. CASE PollKills
    BY <1>4 DEF PollKills, KillChild, Finished
  <1>5. CASE UNCHANGED reminderVars
    BY <1>5 DEF reminderVars
  <1> QED BY <1>1, <1>2, <1>3, <1>4, <1>5
          DEF PollReaps, StopReapsInTime, StopReapsAtLast

LEMMA StopIfRemindingTargets ==
    ASSUME TypeOK, Targets, NEW k \in Callers, StopIfReminding(k)
    PROVE  Targets'
  <1>1. ASSUME Resume(k), UNCHANGED reminderVars
        PROVE  Targets'
    <2>1. pc' \notin {"stopWait", "stopReap"}
      BY <1>1 DEF Resume, ExitWith, Goto
    <2> QED BY <1>1, <2>1, ReminderStepTargets DEF Targets, PidIsOurs
  <1>2. CASE StopTerminates
    BY <1>2 DEF Targets, SignalTargets, PidIsOurs, TypeOK, ReminderTypeOK,
                StopTerminates, KillChild, structVars
  <1> QED BY <1>1, <1>2 DEF StopIfReminding, StopReminder, StopNeedless

LEMMA NextTargets == TypeOK /\ Targets /\ [Next]_vars => Targets'
  <1> SUFFICES ASSUME TypeOK, Targets, [Next]_vars
               PROVE  Targets'
    OBVIOUS
  <1>1. ASSUME pc' \notin {"stopWait", "stopReap"},
               \/ \E p \in Pids : StartReminder(p)
               \/ PollReaps \/ PollTerminates \/ PollKills
               \/ StopReapsInTime \/ StopReapsAtLast
               \/ UNCHANGED reminderVars
        PROVE  Targets'
    BY <1>1, ReminderStepTargets DEF Targets, PidIsOurs
  <1>2. CASE Boot \/ BootFails \/ LeaveLoop \/ UnlockSeen \/ NoLockChange
    BY <1>1, <1>2
       DEF Boot, BootFails, LeaveLoop, UnlockSeen, NoLockChange, ExitWith, Goto
  <1>3. CASE LockReadFails \/ LockSeen \/ Final
    BY <1>3, StopIfRemindingTargets DEF LockReadFails, LockSeen, Final, Callers
  <1>4. ASSUME NEW request \in Requests, HandleRequest(request)
        PROVE  Targets'
    <2>1. CASE RequestIgnored(request)
      BY <1>1, <2>1 DEF RequestIgnored, Goto
    <2>2. CASE Dismiss(request) \/ Quit(request)
      BY <2>2, StopIfRemindingTargets
         DEF Dismiss, Quit, StopIfReminding, Callers
    <2>3. CASE Trigger(request)
      BY <1>1, <2>3 DEF Trigger, StartReminderFails, Goto
    <2> QED BY <1>4, <2>1, <2>2, <2>3 DEF HandleRequest
  <1>5. CASE TimerIdle \/ TimerFires
    BY <1>1, <1>5 DEF TimerIdle, TimerFires, StartReminderFails, Goto
  <1>6. CASE PollReminder
    BY <1>1, <1>6 DEF PollReminder, PollWaits, Goto
  <1>7. CASE Wake
    BY <1>1, <1>7 DEF Wake, Goto
  <1>8. CASE StopWaitReaps \/ StopReapReaps
    <2>1. pc' \notin {"stopWait", "stopReap"}
      BY <1>8 DEF StopWaitReaps, StopReapReaps, Resume, ExitWith, Goto
    <2> QED BY <1>1, <1>8, <2>1 DEF StopWaitReaps, StopReapReaps
  <1>9. CASE StopWaitExpires
    BY <1>9 DEF StopWaitExpires, StopKills, KillChild, Targets, SignalTargets,
                PidIsOurs, TypeOK, ReminderTypeOK, structVars
  <1>10. CASE Signal \/ SessionLocks \/ SessionUnlocks \/ UNCHANGED vars
    BY <1>10 DEF Signal, SessionLocks, SessionUnlocks, vars, reminderVars,
                 Targets, SignalTargets, PidIsOurs
  <1>11. ASSUME NEW p \in Pids, Child(p)
         PROVE  Targets'
    BY <1>11 DEF Child, ChildStep, Exec, ExecFails, SwallowTerm, OverlayExits,
                 KillDelivered, Become, structVars, Live, Targets,
                 SignalTargets, PidIsOurs, TypeOK, ReminderTypeOK
  <1>12. CASE Tick
    BY <1>12 DEF Tick, ReminderTick, Targets, SignalTargets, PidIsOurs
  <1> QED
    BY <1>2, <1>3, <1>4, <1>5, <1>6, <1>7, <1>8, <1>9, <1>10, <1>11, <1>12
       DEF Next, DaemonStep, Environment

-----------------------------------------------------------------------------
(* SIGKILL comes last                                                        *)

LEMMA StopIfRemindingKillIsLast ==
    ASSUME TypeOK, KillIsLast, pc # "stopReap", NEW k \in Callers,
           StopIfReminding(k)
    PROVE  KillIsLast'
  <1>1. ASSUME Resume(k), UNCHANGED reminderVars
        PROVE  KillIsLast'
    BY <1>1 DEF Resume, ExitWith, Goto, RestartCount, KillIsLast, reminderVars
  <1>2. CASE StopTerminates
    BY <1>2 DEF StopTerminates, KillChild, KillIsLast, structVars, TypeOK,
                ReminderTypeOK
  <1> QED BY <1>1, <1>2 DEF StopIfReminding, StopReminder, StopNeedless

LEMMA NextKillIsLast == TypeOK /\ KillIsLast /\ [Next]_vars => KillIsLast'
  <1> SUFFICES ASSUME TypeOK, KillIsLast, [Next]_vars
               PROVE  KillIsLast'
    OBVIOUS
  <1>1. ASSUME UNCHANGED reminderVars, pc # "stopReap",
               state' # "reminding" \/ UNCHANGED state
        PROVE  KillIsLast'
    BY <1>1 DEF KillIsLast, reminderVars
  <1>2. ASSUME state' # "reminding" \/ pid' = NoPid
        PROVE  KillIsLast'
    BY <1>2 DEF KillIsLast
  <1>3. ASSUME NEW p \in Pids, StartReminder(p)
        PROVE  KillIsLast'
    BY <1>3 DEF StartReminder, KillIsLast, TypeOK, ReminderTypeOK
  <1>4. CASE Boot \/ BootFails \/ LeaveLoop \/ UnlockSeen \/ NoLockChange
    BY <1>1, <1>4
       DEF Boot, BootFails, LeaveLoop, UnlockSeen, NoLockChange, RestartCount
  <1>5. CASE LockReadFails \/ LockSeen \/ Final
    BY <1>5, StopIfRemindingKillIsLast
       DEF LockReadFails, LockSeen, Final, Callers
  <1>6. ASSUME NEW request \in Requests, HandleRequest(request)
        PROVE  KillIsLast'
    <2>1. CASE RequestIgnored(request)
      BY <1>1, <2>1 DEF RequestIgnored
    <2>2. CASE Dismiss(request) \/ Quit(request)
      BY <2>2, StopIfRemindingKillIsLast
         DEF Dismiss, Quit, StopIfReminding, Callers
    <2>3. CASE Trigger(request)
      BY <1>1, <1>3, <2>3 DEF Trigger, StartReminderFails
    <2> QED BY <1>6, <2>1, <2>2, <2>3 DEF HandleRequest
  <1>7. CASE TimerIdle \/ TimerFires \/ Wake
    BY <1>1, <1>3, <1>7
       DEF TimerIdle, TimerFires, Wake, StartReminderFails, RestartCount
  <1>8. CASE PollReminder
    <2>1. CASE state' = "counting"
      BY <1>2, <2>1
    <2>2. CASE PollTerminates
      BY <2>2 DEF PollTerminates, KillChild, Finished, KillIsLast, TypeOK,
                  ReminderTypeOK
    <2>3. CASE PollWaits /\ UNCHANGED state
      BY <1>1, <1>8, <2>3 DEF PollReminder, PollWaits
    <2> QED BY <1>8, <2>1, <2>2, <2>3 DEF PollReminder, RestartCount
  <1>9. CASE StopWaitReaps \/ StopReapReaps
    BY <1>2, <1>9 DEF StopWaitReaps, StopReapReaps, StopReapsInTime,
                      StopReapsAtLast, ReapIfFinished
  <1>10. CASE StopWaitExpires
    BY <1>10 DEF StopWaitExpires, Goto, KillIsLast
  <1>11. CASE Signal \/ SessionLocks \/ SessionUnlocks \/ UNCHANGED vars
    BY <1>11 DEF Signal, SessionLocks, SessionUnlocks, vars, reminderVars,
                 KillIsLast
  <1>12. ASSUME NEW p \in Pids, Child(p)
         PROVE  KillIsLast'
    BY <1>12 DEF Child, ChildStep, Exec, ExecFails, SwallowTerm, OverlayExits,
                 KillDelivered, Become, structVars, KillIsLast, TypeOK,
                 ReminderTypeOK
  <1>13. CASE Tick
    BY <1>13 DEF Tick, ReminderTick, KillIsLast
  <1> QED
    BY <1>4, <1>5, <1>6, <1>7, <1>8, <1>9, <1>10, <1>11, <1>12, <1>13
       DEF Next, DaemonStep, Environment

-----------------------------------------------------------------------------
(* The inductive invariant, and what follows from it                         *)

LEMMA InitInv == Init => Inv
  <1> SUFFICES ASSUME Init
               PROVE  Inv
    OBVIOUS
  <1>1. TypeOK
    BY InitType
  <1>2. Supervised
    BY DEF Init, ReminderInit, Supervised, Unkilled, Live
  <1>3. SignalTargets /\ PidIsOurs
    BY DEF Init, ReminderInit, SignalTargets, PidIsOurs
  <1>4. KillIsLast
    BY DEF Init, KillIsLast
  <1> QED BY <1>1, <1>2, <1>3, <1>4 DEF Inv

LEMMA NextInv == Inv /\ [Next]_vars => Inv'
  BY NextType, NextSupervised, NextTargets, NextKillIsLast DEF Inv, Targets

\* The inductive invariant of the daemon holds throughout.
THEOREM Invariance == Spec => []Inv
  BY InitInv, NextInv, PTL DEF Spec

\* No overlay outlives the reminder it belongs to: over every lock, dismiss,
\* quit, signal, timeout and failing lock read, for any timing (main.c:163-306).
THEOREM OverlaysAreSupervised == Spec => []Supervised
  BY Invariance, PTL DEF Inv

\* No signal of the daemon reaches a process that is not, or no longer, its
\* unreaped child (reminder.c:380-432).
THEOREM SignalsAreAimed == Spec => []SignalTargets
  BY Invariance, PTL DEF Inv

-----------------------------------------------------------------------------
(* Refinement                                                                *)

Mode == IF pc \in {"boot", "exited"} THEN "off" ELSE state
Overlay == \E p \in Pids : Unkilled(p)

\* A step that stays within a reminder adds no overlay.
LEMMA RemindingAddsNone ==
    ASSUME Inv, [Next]_vars, Mode = "reminding", Mode' = "reminding",
           NEW q \in Pids, Unkilled(q)'
    PROVE  Unkilled(q)
  <1> USE DEF Mode
  <1>1. ASSUME KillChild("term"), UNCHANGED <<child, pid>>, pid # NoPid,
               pc # "stopReap"
        PROVE  Unkilled(q)
    BY <1>1 DEF Inv, KillIsLast, TypeOK, ReminderTypeOK, KillChild, Unkilled, Live
  <1>2. ASSUME UNCHANGED reminderVars
        PROVE  Unkilled(q)
    BY <1>2 DEF Unkilled, Live, reminderVars
  <1>3. ASSUME ReapIfFinished
        PROVE  Unkilled(q)
    BY <1>3, ReapLeavesNone DEF Inv, NoneUnkilled
  <1>4. ASSUME NEW k \in Callers, StopIfReminding(k), pc # "stopReap"
        PROVE  Unkilled(q)
    BY <1>1, <1>2, <1>4
       DEF StopIfReminding, StopReminder, StopNeedless, StopTerminates, structVars
  <1>5. CASE Boot \/ BootFails \/ LeaveLoop \/ UnlockSeen \/ NoLockChange
    BY <1>2, <1>5 DEF Boot, BootFails, LeaveLoop, UnlockSeen, NoLockChange
  <1>6. CASE LockReadFails \/ LockSeen \/ Final
    BY <1>4, <1>6 DEF LockReadFails, LockSeen, Final, Callers
  <1>7. ASSUME NEW request \in Requests, HandleRequest(request)
        PROVE  Unkilled(q)
    BY <1>2, <1>4, <1>7
       DEF HandleRequest, RequestIgnored, Dismiss, Quit, Trigger,
           StopIfReminding, Callers
  <1>8. CASE TimerIdle \/ TimerFires \/ Wake
    BY <1>2, <1>8 DEF TimerIdle, TimerFires, Wake
  <1>9. CASE PollReminder
    BY <1>1, <1>2, <1>9
       DEF PollReminder, PollTerminates, PollWaits, RestartCount, Finished
  <1>10. CASE StopWaitReaps \/ StopReapReaps
    BY <1>3, <1>10
       DEF StopWaitReaps, StopReapReaps, StopReapsInTime, StopReapsAtLast
  <1>11. CASE StopWaitExpires
    BY <1>11, KillLeavesNone DEF StopWaitExpires, StopKills, Inv, NoneUnkilled
  <1>12. CASE Signal \/ SessionLocks \/ SessionUnlocks \/ UNCHANGED vars
    BY <1>2, <1>12 DEF Signal, SessionLocks, SessionUnlocks, vars
  <1>13. ASSUME NEW p \in Pids, Child(p)
         PROVE  Unkilled(q)
    BY <1>13 DEF Child, ChildStep, Exec, ExecFails, SwallowTerm, OverlayExits,
                 KillDelivered, Become, Unkilled, Live, Inv, TypeOK,
                 ReminderTypeOK
  <1>14. CASE Tick
    BY <1>14 DEF Tick, ReminderTick, Unkilled, Live
  <1> QED
    BY <1>5, <1>6, <1>7, <1>8, <1>9, <1>10, <1>11, <1>12, <1>13, <1>14
       DEF Next, DaemonStep, Environment

\* A reminder begins only while counting, and with an overlay.
LEMMA RemindingFromCounting ==
    ASSUME Inv, [Next]_vars, Mode # "reminding", Mode' = "reminding"
    PROVE  Mode = "counting" /\ Overlay'
  <1> USE DEF Mode
  <1>1. ASSUME NEW p \in Pids, StartReminder(p)
        PROVE  Overlay'
    <2>1. Unkilled(p)'
      BY <1>1 DEF StartReminder, Unkilled, Live, Inv, TypeOK, ReminderTypeOK
    <2> QED BY <2>1 DEF Overlay
  <1>2. ASSUME NEW k \in Callers, StopIfReminding(k), pc \notin {"boot", "exited"}
        PROVE  FALSE
    BY <1>2 DEF StopIfReminding, Resume, ExitWith, RestartCount, Goto
  <1>3. CASE Boot \/ BootFails \/ LeaveLoop \/ UnlockSeen \/ NoLockChange
    BY <1>3 DEF Boot, BootFails, LeaveLoop, UnlockSeen, NoLockChange, ExitWith,
                RestartCount, Goto
  <1>4. CASE LockReadFails \/ LockSeen \/ Final
    BY <1>2, <1>4 DEF LockReadFails, LockSeen, Final, Callers
  <1>5. ASSUME NEW request \in Requests, HandleRequest(request)
        PROVE  Mode = "counting" /\ Overlay'
    BY <1>1, <1>2, <1>5
       DEF HandleRequest, RequestIgnored, Dismiss, Quit, Trigger, Callers
  <1>6. CASE TimerIdle \/ TimerFires \/ Wake
    BY <1>1, <1>6 DEF TimerIdle, TimerFires, Wake, RestartCount
  <1>7. CASE PollReminder \/ StopWaitExpires
    BY <1>7 DEF PollReminder, StopWaitExpires
  <1>8. CASE StopWaitReaps \/ StopReapReaps
    BY <1>8 DEF StopWaitReaps, StopReapReaps, Resume, ExitWith, RestartCount
  <1>9. CASE Signal \/ SessionLocks \/ SessionUnlocks \/ Tick \/ UNCHANGED vars
    BY <1>9 DEF Signal, SessionLocks, SessionUnlocks, Tick, vars
  <1>10. ASSUME NEW p \in Pids, Child(p)
         PROVE  FALSE
    BY <1>10 DEF Child
  <1> QED
    BY <1>3, <1>4, <1>5, <1>6, <1>7, <1>8, <1>9, <1>10
       DEF Next, DaemonStep, Environment

\* The daemon shows overlays only the way ReminderPolicy allows: every step of
\* it is a step of the policy, or none that the user would notice
\* (main.c:163-306, reminder.c:304-432).
THEOREM DaemonRefinesPolicy == Spec => Policy!PolicySafety
  <1> USE DEF Policy!Modes
  <1>1. Init => Policy!PolicyInit
    <2> SUFFICES ASSUME Init
                 PROVE  Policy!PolicyInit
      OBVIOUS
    <2>1. \A p \in Pids : ~Unkilled(p)
      BY DEF Init, ReminderInit, Unkilled, Live
    <2> QED BY <2>1 DEF Init, Policy!PolicyInit
  <1>2. Inv /\ Inv' /\ [Next]_vars => [Policy!PolicyNext]_Policy!policyVars
    <2> SUFFICES ASSUME Inv, Inv', [Next]_vars
                 PROVE  [Policy!PolicyNext]_Policy!policyVars
      OBVIOUS
    <2>1. /\ Overlay => Mode = "reminding"
          /\ Overlay' => Mode' = "reminding"
      BY DEF Inv, Supervised, Overlay, Mode
    <2>2. Mode \in {"off"} \union States /\ Mode' \in {"off"} \union States
      BY DEF Inv, TypeOK, Mode, States
    <2>3. CASE Mode = "reminding" /\ Mode' = "reminding"
      <3>1. Overlay' => Overlay
        BY <2>3, RemindingAddsNone DEF Overlay
      <3> QED BY <2>3, <3>1
              DEF Policy!PolicyNext, Policy!Vanish, Policy!policyVars, Mode, Overlay
    <2>4. CASE Mode = "reminding" /\ Mode' # "reminding"
      BY <2>1, <2>2, <2>4
         DEF Policy!PolicyNext, Policy!EndReminder, Mode, Overlay, States
    <2>5. CASE Mode # "reminding" /\ Mode' = "reminding"
      BY <2>5, RemindingFromCounting
         DEF Policy!PolicyNext, Policy!Remind, Mode, Overlay
    <2>6. CASE Mode # "reminding" /\ Mode' # "reminding"
      BY <2>1, <2>2, <2>6
         DEF Policy!PolicyNext, Policy!TurnOn, Policy!TurnOff,
             Policy!LockOrUnlock, Policy!policyVars, Mode, Overlay, States
    <2> QED BY <2>3, <2>4, <2>5, <2>6
  <1> QED BY <1>1, <1>2, Invariance, PTL DEF Spec, Policy!PolicySafety

-----------------------------------------------------------------------------
(* Deadlines                                                                 *)

\* What keeps the deadlines: the stopwatches and what is left of each deadline
\* make up the whole, and a SIGTERM that has not been handled is one of these.
Deadlines ==
    /\ age \in Nat /\ grace \in Nat /\ warned \in BOOLEAN
    /\ pc = "stopWait" => warned /\ grace + stop_deadline >= TermTicks
    /\ pid # NoPid /\ term_sent =>
           warned /\ deadline = 0 /\ grace + kill_deadline >= TermTicks
    /\ pid # NoPid => age + deadline >= SleepTicks + MarginTicks
    /\ \A p \in Pids : sig[p] = "term" =>
           /\ p = pid /\ state = "reminding" /\ pc # "boot"
           /\ term_sent \/ pc = "stopWait"

TimedInv == Inv /\ Deadlines

\* The steps of the daemon, by what they do to the reminder.
Quiet ==
    /\ UNCHANGED reminderVars
    /\ pc = "stopWait" <=> pc' = "stopWait"
    /\ pc' # "boot" \/ UNCHANGED pc
    /\ UNCHANGED state \/ state # "reminding" \/ pid = NoPid \/ pc = "boot"
Starts == state = "counting" /\ pc' # "stopWait" /\ \E p \in Pids : StartReminder(p)
Reaps ==
    /\ ReapIfFinished
    /\ UNCHANGED <<deadline, kill_deadline, term_sent, stop_deadline>>
    /\ pc' # "stopWait"
Warns == PollTerminates /\ state = "reminding" /\ state' = "reminding" /\ pc' = "sleep"
GivesUp == pc = "timer" /\ PollKills /\ pc' = "sleep"
StartsStop ==
    /\ StopTerminates
    /\ state = "reminding" /\ state' = "reminding"
    /\ pc' = "stopWait" /\ pc # "timer"
StopGivesUp == pc = "stopWait" /\ StopKills /\ pc' = "stopReap"

\* A call of cgk_stop_reminder warns a tracked overlay, or does nothing to it.
LEMMA StopIfRemindingKind ==
    ASSUME NEW k \in Callers, StopIfReminding(k), pc \notin {"stopWait", "timer"}
    PROVE  Quiet \/ StartsStop
  BY DEF StopIfReminding, StopReminder, StopNeedless, Resume, ExitWith, Goto, Quiet,
         StartsStop, RestartCount

\* There are no other steps than these.
LEMMA Kinds ==
    ASSUME DaemonStep \/ Environment \/ UNCHANGED vars
    PROVE  \/ Quiet \/ Starts \/ Reaps \/ Warns \/ GivesUp \/ StartsStop \/ StopGivesUp
           \/ \E p \in Pids : Child(p)
  <1>1. CASE Boot \/ BootFails \/ LeaveLoop \/ UnlockSeen \/ NoLockChange \/ TimerIdle
             \/ Wake
    BY <1>1 DEF Boot, BootFails, LeaveLoop, UnlockSeen, NoLockChange, TimerIdle, Wake,
                ExitWith, Goto, Quiet, RestartCount
  <1>2. CASE LockReadFails \/ LockSeen \/ Final
    BY <1>2, StopIfRemindingKind DEF LockReadFails, LockSeen, Final, Callers
  <1>3. ASSUME NEW request \in Requests, HandleRequest(request)
        PROVE  Quiet \/ Starts \/ StartsStop
    <2>1. CASE RequestIgnored(request)
      BY <2>1 DEF RequestIgnored, Goto, Quiet
    <2>2. CASE Dismiss(request) \/ Quit(request)
      BY <2>2, StopIfRemindingKind DEF Dismiss, Quit, StopIfReminding, Callers
    <2>3. CASE Trigger(request)
      BY <2>3 DEF Trigger, StartReminderFails, Goto, Quiet, Starts
    <2> QED BY <1>3, <2>1, <2>2, <2>3 DEF HandleRequest
  <1>4. CASE TimerFires
    BY <1>4 DEF TimerFires, StartReminderFails, RestartCount, Goto, Quiet, Starts
  <1>5. CASE PollReminder
    BY <1>5 DEF PollReminder, PollReaps, PollWaits, Goto, Quiet, Reaps, Warns, GivesUp
  <1>6. CASE StopWaitReaps \/ StopReapReaps
    BY <1>6 DEF StopWaitReaps, StopReapReaps, StopReapsInTime, StopReapsAtLast, Resume,
                ExitWith, Goto, Reaps
  <1>7. CASE StopWaitExpires
    BY <1>7 DEF StopWaitExpires, Goto, StopGivesUp
  <1>8. CASE Signal \/ SessionLocks \/ SessionUnlocks \/ UNCHANGED vars
    BY <1>8 DEF Signal, SessionLocks, SessionUnlocks, vars, Quiet
  <1> QED
    BY <1>1, <1>2, <1>3, <1>4, <1>5, <1>6, <1>7, <1>8 DEF DaemonStep, Environment

\* A stopwatch that runs is not set back.
LEMMA Observed ==
    ASSUME Deadlines, Observe
    PROVE  /\ age' \in Nat /\ grace' \in Nat /\ warned' \in BOOLEAN
           /\ UNCHANGED pid => UNCHANGED age
           /\ UNCHANGED pid /\ warned => warned' /\ UNCHANGED grace
           /\ UNCHANGED pid /\ (\E p \in Pids : sig'[p] = "term") => warned'
  BY DEF Deadlines, Observe

\* Every step but the clock's keeps the stopwatches in step with the deadlines,
LEMMA StepDeadlines ==
    ASSUME Inv, Deadlines, Observe, DaemonStep \/ Environment
    PROVE  Deadlines'
  <1>9. /\ age' \in Nat /\ grace' \in Nat /\ warned' \in BOOLEAN
        /\ UNCHANGED pid => UNCHANGED age
        /\ UNCHANGED pid /\ warned => warned' /\ UNCHANGED grace
        /\ UNCHANGED pid /\ (\E p \in Pids : sig'[p] = "term") => warned'
    BY Observed
  <1> USE <1>9
  <1>0. /\ age \in Nat /\ grace \in Nat
        /\ deadline \in Nat /\ kill_deadline \in Nat /\ stop_deadline \in Nat
        /\ child \in [Pids -> ChildStates] /\ sig \in [Pids -> Signals]
        /\ pid \in Pids \union {NoPid} /\ term_sent \in BOOLEAN
    BY DEF Deadlines, Inv, TypeOK, ReminderTypeOK
  <1>1. CASE Quiet
    <2>1. /\ UNCHANGED <<sig, pid, deadline, kill_deadline, term_sent, stop_deadline>>
          /\ UNCHANGED age /\ (warned => warned' /\ UNCHANGED grace)
      BY <1>1 DEF Quiet, reminderVars
    <2>2. ASSUME NEW q \in Pids, sig'[q] = "term"
          PROVE  /\ q = pid' /\ state' = "reminding" /\ pc' # "boot"
                 /\ term_sent' \/ pc' = "stopWait"
      BY <1>0, <1>1, <2>1, <2>2 DEF Quiet, Deadlines
    <2> QED BY <1>0, <1>1, <2>1, <2>2 DEF Quiet, Deadlines
  <1>2. CASE Starts
    <2>1. PICK p \in Pids : StartReminder(p)
      BY <1>2 DEF Starts
    <2>2. /\ pid' = p /\ p # pid /\ ~term_sent' /\ age' = 0
          /\ deadline' = SleepTicks + MarginTicks
      BY <2>1 DEF StartReminder, Inv, PidIsOurs, Observe
    <2>3. \A q \in Pids : sig[q] # "term"
      BY <1>2 DEF Starts, Deadlines
    <2>4. \A q \in Pids : sig'[q] # "term"
      BY <1>0, <2>1, <2>3 DEF StartReminder
    <2> QED BY <1>2, <2>2, <2>4 DEF Starts, Deadlines
  <1>3. CASE Reaps
    <2>1. pid' = NoPid /\ pc' # "stopWait"
      BY <1>3 DEF Reaps, ReapIfFinished
    <2>2. \A q \in Pids : sig'[q] # "term"
      BY <1>0, <1>3 DEF Reaps, ReapIfFinished, Deadlines
    <2> QED BY <2>1, <2>2 DEF Deadlines
  <1>4. CASE Warns
    <2>1. /\ pid # NoPid /\ pid' = pid /\ term_sent' /\ kill_deadline' = TermTicks
          /\ deadline = 0 /\ deadline' = 0 /\ pc' # "stopWait" /\ state' = "reminding"
      BY <1>4 DEF Warns, PollTerminates, Finished
    <2>2. sig' = [sig EXCEPT ![pid] = "term"]
      BY <1>0, <1>4, <2>1 DEF Warns, PollTerminates, KillChild
    <2>3. warned' /\ age' = age
      BY <1>0, <2>1, <2>2
    <2>4. \A q \in Pids : sig'[q] = "term" => q = pid'
      BY <1>0, <2>1, <2>2 DEF Deadlines
    <2>5. pc' # "boot"
      BY <1>4 DEF Warns
    <2>6. grace' \in Nat /\ warned' \in BOOLEAN /\ age + deadline >= SleepTicks + MarginTicks
      BY <2>1 DEF Deadlines
    <2>7. grace' + kill_deadline' >= TermTicks
      <3> HIDE <1>9
      <3>1. \A g \in Nat : g + TermTicks >= TermTicks
        OBVIOUS
      <3> QED BY <2>1, <2>6, <3>1
    <2>8. age' \in Nat /\ age' + deadline' >= SleepTicks + MarginTicks
      BY <1>0, <2>1, <2>3, <2>6
    <2> QED BY <2>1, <2>3, <2>4, <2>5, <2>6, <2>7, <2>8 DEF Deadlines
  <1>5. CASE GivesUp
    <2>1. /\ pc = "timer" /\ pid # NoPid /\ pc' # "stopWait" /\ term_sent'
          /\ UNCHANGED <<deadline, kill_deadline, term_sent>>
          /\ pid' \in {pid, NoPid}
      BY <1>5 DEF GivesUp, PollKills, Finished
    <2>2. \A q \in Pids : sig'[q] # "term"
      BY <1>0, <1>5, <2>1 DEF GivesUp, PollKills, KillChild, Deadlines
    <2> QED BY <2>1, <2>2 DEF Deadlines
  <1>6. CASE StartsStop
    <2>1. /\ pid # NoPid /\ UNCHANGED structVars /\ stop_deadline' = TermTicks
          /\ pc' = "stopWait" /\ state' = "reminding"
      BY <1>6 DEF StartsStop, StopTerminates
    <2>2. sig' = [sig EXCEPT ![pid] = "term"]
      BY <1>0, <1>6, <2>1 DEF StartsStop, StopTerminates, KillChild
    <2>3. warned' /\ age' = age /\ pid' = pid
      BY <1>0, <2>1, <2>2 DEF structVars
    <2>4. \A q \in Pids : sig'[q] = "term" => q = pid'
      BY <1>0, <2>1, <2>2, <2>3 DEF Deadlines
    <2>5. \A g \in Nat : g + TermTicks >= TermTicks
      OBVIOUS
    <2>6. /\ grace' + stop_deadline' >= TermTicks
          /\ UNCHANGED <<term_sent, deadline, kill_deadline>>
          /\ warned => UNCHANGED grace
      BY <2>1, <2>3, <2>5 DEF structVars
    <2> QED BY <1>0, <2>1, <2>3, <2>4, <2>6 DEF Deadlines
  <1>7. CASE StopGivesUp
    <2>1. pid # NoPid /\ UNCHANGED structVars /\ pc' = "stopReap"
      BY <1>7 DEF StopGivesUp, StopKills, Inv, PidIsOurs
    <2>2. \A q \in Pids : sig'[q] # "term"
      BY <1>0, <1>7, <2>1 DEF StopGivesUp, StopKills, KillChild, Deadlines
    <2> QED BY <2>1, <2>2 DEF Deadlines, structVars
  <1>8. CASE \E p \in Pids : Child(p)
    BY <1>8 DEF Child, ChildStep, Exec, ExecFails, SwallowTerm, OverlayExits,
                KillDelivered, Become, structVars, Deadlines, Inv, TypeOK,
                ReminderTypeOK
  <1> QED BY <1>1, <1>2, <1>3, <1>4, <1>5, <1>6, <1>7, <1>8, Kinds

\* and so does the clock's.
LEMMA TickDeadlines ==
    ASSUME Inv, Deadlines, TimedTick
    PROVE  Deadlines'
  <1>1. /\ deadline \in Nat /\ kill_deadline \in Nat /\ stop_deadline \in Nat
        /\ age \in Nat /\ grace \in Nat /\ warned \in BOOLEAN
        /\ UNCHANGED <<sig, pid, term_sent, pc, state, warned>>
        /\ deadline' = Countdown(deadline) /\ kill_deadline' = Countdown(kill_deadline)
        /\ stop_deadline' = Countdown(stop_deadline)
        /\ age' = Watch(ReminderTicks + 1, age)
        /\ grace' = IF warned THEN Watch(TermTicks, grace) ELSE 0
    BY DEF Inv, TypeOK, ReminderTypeOK, Deadlines, TimedTick, Tick, ReminderTick
  <1>2. ReminderTicks \in Nat /\ ReminderTicks >= SleepTicks + MarginTicks
    BY DEF ReminderTicks, TurnTicks
  <1>3. age' \in Nat /\ (age' = age + 1 \/ age' > SleepTicks + MarginTicks)
    BY <1>1, <1>2 DEF Watch
  <1>4. grace' \in Nat /\ (warned => grace' = grace + 1 \/ grace' >= TermTicks)
    BY <1>1 DEF Watch
  <1> QED BY <1>1, <1>3, <1>4 DEF Deadlines, Countdown

\* A timed step is a step of Daemon.
LEMMA TimedStepInv ==
    TimedInv /\ [TimedNext]_<<vars, observers>> => TimedInv' /\ [Next]_vars
  <1> SUFFICES ASSUME TimedInv, [TimedNext]_<<vars, observers>>
               PROVE  TimedInv' /\ [Next]_vars
    OBVIOUS
  <1>1. [Next]_vars
    BY DEF TimedNext, TimedStep, TimedTick, TimedUnlock, FirstSignal, Next, Environment
  <1>2. Inv'
    BY <1>1, NextInv DEF TimedInv
  <1>3. CASE TimedStep
    <2>1. Observe /\ (DaemonStep \/ Environment)
      BY <1>3 DEF TimedStep, TimedUnlock, FirstSignal, Environment
    <2> QED BY <1>1, <1>2, <2>1, StepDeadlines DEF TimedInv
  <1>4. CASE TimedTick
    BY <1>1, <1>2, <1>4, TickDeadlines DEF TimedInv
  <1>5. CASE UNCHANGED <<vars, observers>>
    BY <1>1, <1>2, <1>5
       DEF TimedInv, Deadlines, vars, reminderVars, observers
  <1> QED BY <1>3, <1>4, <1>5 DEF TimedNext

\* At first nothing is timed.
LEMMA TimedInitInv == TimedInit => TimedInv
  <1> SUFFICES ASSUME TimedInit PROVE TimedInv
    OBVIOUS
  <1>1. Inv
    BY InitInv DEF TimedInit
  <1>2. Deadlines
    BY DEF TimedInit, Init, ReminderInit, Deadlines
  <1> QED BY <1>1, <1>2 DEF TimedInv

\* SIGKILL only ever follows a SIGTERM to the same overlay by the two seconds of
\* grace, for every timing (reminder.c:389-397, 411-424).
THEOREM KillComesAfterGrace == TimedSpec => GraceBeforeKill
  <1> DEFINE Fair == \A p \in Pids : sig'[p] = "kill" /\ sig[p] # "kill" =>
                         p = pid /\ warned /\ grace >= TermTicks
  <1>1. TimedInv /\ [Next]_vars => Fair
    <2> SUFFICES ASSUME TimedInv, [Next]_vars, NEW p \in Pids,
                        sig'[p] = "kill", sig[p] # "kill"
                 PROVE  p = pid /\ warned /\ grace >= TermTicks
      OBVIOUS
    <2>1. /\ sig \in [Pids -> Signals] /\ pid \in Pids \union {NoPid}
          /\ grace \in Nat
      BY DEF TimedInv, Inv, TypeOK, ReminderTypeOK, Deadlines
    <2>2. GivesUp \/ StopGivesUp
      <3>1. ~Quiet /\ ~Tick /\ ~Warns /\ ~StartsStop
        BY <2>1 DEF Quiet, Tick, ReminderTick, Warns, PollTerminates, StartsStop,
                    StopTerminates, KillChild, reminderVars
      <3>2. ~Starts /\ ~Reaps
        BY <2>1 DEF Starts, StartReminder, Reaps, ReapIfFinished
      <3>3. ~\E q \in Pids : Child(q)
        BY <2>1 DEF Child, ChildStep, Exec, ExecFails, SwallowTerm, OverlayExits,
                    KillDelivered, Become
      <3> QED BY <3>1, <3>2, <3>3, Kinds DEF Next
    <2>3. CASE GivesUp
      BY <2>1, <2>3 DEF GivesUp, PollKills, KillChild, Finished, TimedInv, Deadlines
    <2>4. CASE StopGivesUp
      BY <2>1, <2>4
         DEF StopGivesUp, StopKills, KillChild, TimedInv, Inv, PidIsOurs, Deadlines
    <2> QED BY <2>2, <2>3, <2>4
  <1> QED BY <1>1, TimedInitInv, TimedStepInv, PTL DEF TimedSpec, GraceBeforeKill

\* Unless it is stopped, an overlay has its whole sleep and the margin, for every
\* timing (reminder.c:338, 387).
THEOREM SleepsToTheEnd == TimedSpec => NotCutShort
  <1> DEFINE Patient == pc = "timer" /\ sig' # sig /\ pid' = pid =>
                            age >= SleepTicks + MarginTicks
  <1>1. TimedInv /\ [Next]_vars => Patient
    <2> SUFFICES ASSUME TimedInv, [Next]_vars, pc = "timer", sig' # sig, pid' = pid
                 PROVE  age >= SleepTicks + MarginTicks
      OBVIOUS
    <2>1. /\ sig \in [Pids -> Signals] /\ pid \in Pids \union {NoPid}
          /\ age \in Nat
      BY DEF TimedInv, Inv, TypeOK, ReminderTypeOK, Deadlines
    <2>2. ~Quiet /\ ~Tick /\ ~StartsStop /\ ~StopGivesUp
      BY DEF Quiet, Tick, ReminderTick, StartsStop, StopGivesUp, reminderVars
    <2>3. ~Starts
      BY DEF Starts, StartReminder, TimedInv, Inv, PidIsOurs
    <2>4. ~Reaps
      BY <2>1 DEF Reaps, ReapIfFinished
    <2>5. CASE Warns
      BY <2>1, <2>5 DEF Warns, PollTerminates, Finished, TimedInv, Deadlines
    <2>6. CASE GivesUp
      BY <2>1, <2>6 DEF GivesUp, PollKills, Finished, TimedInv, Deadlines
    <2>7. ASSUME NEW p \in Pids, Child(p)
          PROVE  age >= SleepTicks + MarginTicks
      <3>1. sig[p] = "term"
        BY <2>7 DEF Child, ChildStep, Exec, ExecFails, SwallowTerm, OverlayExits,
                    KillDelivered, Become
      <3>2. pid # NoPid /\ term_sent
        BY <2>7, <3>1 DEF TimedInv, Deadlines
      <3> QED BY <2>1, <3>2 DEF TimedInv, Deadlines
    <2> QED BY <2>2, <2>3, <2>4, <2>5, <2>6, <2>7, Kinds DEF Next
  <1> QED BY <1>1, TimedInitInv, TimedStepInv, PTL DEF TimedSpec, NotCutShort

-----------------------------------------------------------------------------
(* The time a lock takes                                                     *)

\* What is left of the poll for a client, which a first signal prolongs.
ControlLeft == nap + (IF should_stop THEN 0 ELSE PollTicks)

\* What a stop takes that begins now.
StopLeft == IF state = "reminding" /\ pid # NoPid THEN TermTicks ELSE 0

\* The longest it may take from here until a lock has its effect.
LockLeft ==
    CASE pc = "control" -> ControlLeft + LoopTicks + TermTicks
      [] pc = "timer" ->
             LoopTicks + (IF state = "counting" /\ remaining > 0 THEN 0 ELSE TermTicks)
      [] pc = "sleep" -> nap + StopLeft
      [] pc \in {"loop", "final"} -> StopLeft
      [] pc = "stopWait" -> stop_deadline + (IF after = "dismiss" THEN LoopTicks ELSE 0)
      [] OTHER -> IF after = "dismiss" THEN LoopTicks ELSE 0

Bounds ==
    /\ lockedFor \in Nat
    /\ ~locked => lockedFor = 0
    /\ nap <= BlockingTicks(pc)
    /\ stop_deadline <= TermTicks
    /\ pc \in {"stopWait", "stopReap"} => state = "reminding"

Unheeded == locked /\ state # "locked" /\ pc \notin {"boot", "exited"}
LockSoon == Unheeded => lockedFor + LockLeft <= LockTicks

LockInv == TimedInv /\ Bounds /\ LockSoon

\* It never takes longer than a turn and a stop.
LEMMA LockLeftBound ==
    ASSUME TypeOK, Bounds
    PROVE  LockLeft \in Nat /\ LockLeft <= LockTicks
  BY DEF LockLeft, LockTicks, TurnTicks, ControlLeft, StopLeft, Bounds, BlockingTicks,
         TypeOK, ReminderTypeOK

\* A call of cgk_stop_reminder takes no longer than its grace.
LEMMA StopShortens ==
    ASSUME TypeOK, NEW k \in Callers, StopIfReminding(k), pc \notin {"boot", "exited"},
           Unheeded', Unheeded
    PROVE  \/ pc' = "timer" /\ k = "dismiss" /\ LockLeft' = LoopTicks
           \/ pc' = "final" /\ LockLeft' = 0
           \/ /\ pc' = "stopWait" /\ state = "reminding" /\ pid # NoPid
              /\ LockLeft' = TermTicks + (IF k = "dismiss" THEN LoopTicks ELSE 0)
  BY DEF StopIfReminding, StopReminder, StopNeedless, StopTerminates, Resume, ExitWith,
         Goto, RestartCount, LockLeft, StopLeft, Unheeded, reminderVars, structVars,
         TypeOK, ReminderTypeOK

\* While the session is locked, every step brings the effect nearer.
LEMMA LockLeftShrinks ==
    ASSUME Inv, Bounds, TimedStep, locked, Unheeded'
    PROVE  Unheeded /\ LockLeft' <= LockLeft
  <1> USE DEF Unheeded
  <1>0. /\ nap \in Nat /\ remaining \in Nat /\ stop_deadline \in Nat
        /\ should_stop \in BOOLEAN /\ after \in Callers /\ pc \in Locations
        /\ state \in States /\ pid \in Pids \union {NoPid}
        /\ stop_deadline <= TermTicks /\ nap <= BlockingTicks(pc)
    BY DEF Inv, TypeOK, ReminderTypeOK, Bounds
  <1>1. CASE Boot \/ BootFails \/ UnlockSeen \/ NoLockChange
    BY <1>1 DEF Boot, BootFails, UnlockSeen, NoLockChange, ExitWith, Goto
  <1>2. CASE LeaveLoop \/ Wake
    BY <1>0, <1>2 DEF LeaveLoop, Wake, Goto, LockLeft, StopLeft, reminderVars
  <1>3. ASSUME NEW k \in Callers, StopIfReminding(k), pc \in {"loop", "final"},
               k # "dismiss"
        PROVE  Unheeded /\ LockLeft' <= LockLeft
    <2>1. Unheeded
      BY <1>3 DEF StopIfReminding, StopReminder, Resume
    <2>2. LockLeft = StopLeft
      BY <1>3 DEF LockLeft
    <2> QED BY <1>3, <2>1, <2>2, StopShortens DEF Inv, StopLeft
  <1>4. CASE LockReadFails \/ LockSeen \/ Final
    BY <1>3, <1>4 DEF LockReadFails, LockSeen, Final, Callers
  <1>5. ASSUME NEW request \in Requests, HandleRequest(request)
        PROVE  Unheeded /\ LockLeft' <= LockLeft
    <2>1. pc = "control" /\ LockLeft >= LoopTicks + TermTicks /\ LockLeft \in Nat
      BY <1>0, <1>5 DEF HandleRequest, RequestIgnored, Dismiss, Quit, Trigger, LockLeft,
                        ControlLeft
    <2>2. CASE RequestIgnored(request) \/ Trigger(request)
      <3>1. pc' = "timer" /\ Unheeded
        BY <2>2 DEF RequestIgnored, Trigger, Goto
      <3>2. LockLeft' \in Nat /\ LockLeft' <= LoopTicks + TermTicks
        BY <3>1 DEF LockLeft
      <3> QED BY <2>1, <3>1, <3>2
    <2>3. CASE Dismiss(request) \/ Quit(request)
      <3>1. PICK k \in Callers : StopIfReminding(k)
        BY <2>3 DEF Dismiss, Quit, StopIfReminding, Callers
      <3>2. Unheeded
        BY <2>1, <2>3 DEF Dismiss, Quit, StopIfReminding, StopReminder, Resume
      <3>3. LockLeft' \in Nat /\ LockLeft' <= LoopTicks + TermTicks
        BY <2>1, <3>1, <3>2, StopShortens DEF Inv
      <3> QED BY <2>1, <3>2, <3>3
    <2> QED BY <1>5, <2>2, <2>3 DEF HandleRequest
  <1>6. CASE TimerIdle \/ TimerFires \/ PollReminder
    <2>1. pc = "timer" /\ pc' = "sleep" /\ nap' = LoopTicks /\ Unheeded
      BY <1>6 DEF TimerIdle, TimerFires, PollReminder, Goto, BlockingTicks
    <2>2. StopLeft' # 0 => ~(state = "counting" /\ remaining > 0)
      BY <1>6 DEF TimerIdle, TimerFires, PollReminder, StopLeft, RestartCount
    <2> QED BY <2>1, <2>2 DEF LockLeft, StopLeft
  <1>7. CASE StopWaitReaps \/ StopReapReaps
    <2>1. /\ pc \in {"stopWait", "stopReap"} /\ Resume(after) /\ pid' = NoPid
      BY <1>7 DEF StopWaitReaps, StopReapReaps, StopReapsInTime, StopReapsAtLast,
                  ReapIfFinished
    <2>2. Unheeded
      BY <2>1 DEF Bounds
    <2> QED
      BY <1>0, <2>1, <2>2 DEF Resume, ExitWith, Goto, RestartCount, LockLeft, StopLeft
  <1>8. CASE StopWaitExpires
    BY <1>0, <1>8 DEF StopWaitExpires, StopKills, Goto, LockLeft
  <1>9. CASE FirstSignal
    BY <1>0, <1>9 DEF FirstSignal, Signal, LockLeft, ControlLeft, StopLeft,
                      BlockingTicks, reminderVars
  <1>10. CASE SessionLocks \/ TimedUnlock
    BY <1>10 DEF SessionLocks, TimedUnlock, SessionUnlocks
  <1>11. ASSUME NEW p \in Pids, Child(p)
         PROVE  Unheeded /\ LockLeft' <= LockLeft
    <2>1. UNCHANGED <<pc, state, should_stop, remaining, nap, after, pid, stop_deadline>>
      BY <1>11 DEF Child, ChildStep, Exec, ExecFails, SwallowTerm, OverlayExits,
                   KillDelivered, Become, structVars
    <2> QED BY <2>1, LockLeftBound DEF LockLeft, ControlLeft, StopLeft, Inv
  <1> QED
    BY <1>1, <1>2, <1>4, <1>5, <1>6, <1>7, <1>8, <1>9, <1>10, <1>11
       DEF TimedStep, DaemonStep

\* The daemon never blocks for longer than the code says.
LEMMA BoundsStep ==
    ASSUME Inv, Bounds, TimedStep
    PROVE  Bounds'
  <1>1. lockedFor' \in Nat /\ (~locked' => lockedFor' = 0)
    BY DEF TimedStep, Observe, Bounds
  <1>2. \/ Goto(pc')
        \/ UNCHANGED <<pc, nap>>
        \/ FirstSignal
    <2>1. ASSUME NEW k \in Callers, StopIfReminding(k)
          PROVE  Goto(pc')
      BY <2>1 DEF StopIfReminding, StopReminder, Resume, ExitWith, Goto
    <2>2. ASSUME NEW request \in Requests, HandleRequest(request)
          PROVE  Goto(pc')
      BY <2>1, <2>2 DEF HandleRequest, RequestIgnored, Dismiss, Quit, Trigger,
                        StopIfReminding, Callers, Goto
    <2>3. CASE LockReadFails \/ LockSeen \/ Final
      BY <2>1, <2>3 DEF LockReadFails, LockSeen, Final, Callers
    <2>4. CASE StopWaitReaps \/ StopReapReaps
      BY <2>4 DEF StopWaitReaps, StopReapReaps, Resume, ExitWith, Goto
    <2>5. ASSUME NEW p \in Pids, Child(p)
          PROVE  UNCHANGED <<pc, nap>>
      BY <2>5 DEF Child
    <2> QED
      BY <2>2, <2>3, <2>4, <2>5
         DEF TimedStep, DaemonStep, Boot, BootFails, LeaveLoop, UnlockSeen, NoLockChange,
             TimerIdle, TimerFires, PollReminder, Wake, StopWaitExpires, SessionLocks,
             TimedUnlock, SessionUnlocks, ExitWith, Goto
  <1>3. nap' <= BlockingTicks(pc')
    BY <1>2 DEF Goto, FirstSignal, Signal, Bounds, BlockingTicks, Inv, TypeOK
  <1>4. \/ UNCHANGED <<stop_deadline, pc, state>>
        \/ UNCHANGED stop_deadline /\ pc' \notin {"stopWait", "stopReap"}
        \/ stop_deadline' = TermTicks /\ pc' = "stopWait" /\ state' = "reminding"
        \/ UNCHANGED <<stop_deadline, state>> /\ pc = "stopWait"
    <2>1. ASSUME NEW k \in Callers, StopIfReminding(k)
          PROVE  \/ UNCHANGED stop_deadline /\ pc' \notin {"stopWait", "stopReap"}
                 \/ stop_deadline' = TermTicks /\ pc' = "stopWait" /\ state' = "reminding"
      BY <2>1 DEF StopIfReminding, StopReminder, StopNeedless, StopTerminates, Resume,
                  ExitWith, Goto, reminderVars
    <2>2. ASSUME NEW request \in Requests, HandleRequest(request)
          PROVE  \/ UNCHANGED stop_deadline /\ pc' \notin {"stopWait", "stopReap"}
                 \/ stop_deadline' = TermTicks /\ pc' = "stopWait" /\ state' = "reminding"
      BY <2>1, <2>2 DEF HandleRequest, RequestIgnored, Dismiss, Quit, Trigger,
                        StartReminder, StartReminderFails, StopIfReminding, Callers,
                        Goto, reminderVars
    <2>3. CASE LockReadFails \/ LockSeen \/ Final
      BY <2>1, <2>3 DEF LockReadFails, LockSeen, Final, Callers
    <2>4. CASE StopWaitReaps \/ StopReapReaps
      BY <2>4 DEF StopWaitReaps, StopReapReaps, StopReapsInTime, StopReapsAtLast, Resume,
                  ExitWith, Goto
    <2>5. ASSUME NEW p \in Pids, Child(p)
          PROVE  UNCHANGED <<stop_deadline, pc, state>>
      BY <2>5 DEF Child, ChildStep, Exec, ExecFails, SwallowTerm, OverlayExits,
                  KillDelivered, Become
    <2>6. CASE PollReminder \/ TimerFires
      BY <2>6 DEF PollReminder, PollReaps, PollTerminates, PollKills, PollWaits,
                  TimerFires, StartReminder, StartReminderFails, Goto, reminderVars
    <2>7. CASE StopWaitExpires
      BY <2>7 DEF StopWaitExpires, StopKills
    <2> QED
      BY <2>2, <2>3, <2>4, <2>5, <2>6, <2>7
         DEF TimedStep, DaemonStep, Boot, BootFails, LeaveLoop, UnlockSeen, NoLockChange,
             TimerIdle, Wake, SessionLocks, TimedUnlock, SessionUnlocks, FirstSignal,
             Signal, ExitWith, Goto, reminderVars
  <1> QED BY <1>1, <1>3, <1>4 DEF Bounds

\* No step puts off the effect of a lock.
LEMMA LockStep ==
    ASSUME LockInv, TimedStep
    PROVE  Bounds' /\ LockSoon'
  <1>1. Bounds' /\ TypeOK'
    BY BoundsStep, NextType DEF LockInv, TimedInv, Inv, TimedStep, TimedUnlock,
       FirstSignal, Next, Environment
  <1>2. LockLeft' \in Nat /\ LockLeft' <= LockTicks /\ LockTicks' = LockTicks
    BY <1>1 DEF LockLeft, LockTicks, TurnTicks, ControlLeft, StopLeft, Bounds,
                BlockingTicks, TypeOK, ReminderTypeOK
  <1>3. LockLeft \in Nat /\ LockTicks \in Nat /\ lockedFor \in Nat
    BY LockLeftBound DEF LockInv, TimedInv, Inv, Bounds, LockTicks, TurnTicks
  <1>4. ASSUME Unheeded'
        PROVE  lockedFor' + LockLeft' <= LockTicks'
    <2>1. lockedFor' = lockedFor
      BY <1>4 DEF TimedStep, Observe, Unheeded
    <2>2. CASE locked
      <3>1. Unheeded /\ LockLeft' <= LockLeft
        BY <1>4, <2>2, LockLeftShrinks DEF LockInv, TimedInv
      <3>2. lockedFor + LockLeft <= LockTicks
        BY <3>1 DEF LockInv, LockSoon
      <3>3. \A a, x, y, t \in Nat : a + x <= t /\ y <= x => a + y <= t
        OBVIOUS
      <3>4. lockedFor + LockLeft' <= LockTicks
        BY <1>2, <1>3, <3>1, <3>2, <3>3
      <3> QED BY <1>2, <2>1, <3>4
    <2>3. CASE ~locked
      <3>1. lockedFor = 0
        BY <2>3 DEF LockInv, Bounds
      <3> QED BY <1>2, <2>1, <3>1
    <2> QED BY <2>2, <2>3
  <1> QED BY <1>1, <1>4 DEF LockSoon

\* The clock only runs while what is left runs out.
LEMMA TickStep ==
    ASSUME LockInv, TimedTick
    PROVE  Bounds' /\ LockSoon'
  <1>1. /\ UNCHANGED <<pc, state, should_stop, after, locked, pid>>
        /\ nap' = Countdown(nap) /\ stop_deadline' = Countdown(stop_deadline)
        /\ lockedFor' = IF locked THEN Watch(LockTicks + MinLock, lockedFor) ELSE 0
        /\ \/ pc \in {"control", "sleep"} /\ nap > 0
           \/ pc = "stopWait" /\ stop_deadline > 0
    BY DEF TimedTick, MayTick, Tick, ReminderTick
  <1>2. /\ nap \in Nat /\ stop_deadline \in Nat /\ lockedFor \in Nat
        /\ LockTicks \in Nat /\ MinLock \in Nat
        /\ nap <= BlockingTicks(pc) /\ stop_deadline <= TermTicks
        /\ pid \in Pids \union {NoPid} /\ should_stop \in BOOLEAN
    BY MinLockAssumption
       DEF LockInv, TimedInv, Inv, TypeOK, ReminderTypeOK, Bounds, LockTicks, TurnTicks,
           MinLockAssumption
  <1>3. lockedFor' \in Nat /\ lockedFor' <= lockedFor + 1
    BY <1>1, <1>2 DEF Watch
  <1>4. Bounds'
    BY <1>1, <1>2, <1>3 DEF Bounds, LockInv, Countdown, BlockingTicks
  <1>5. LockLeft' = LockLeft - 1 /\ LockLeft \in Nat
    BY <1>1, <1>2 DEF LockLeft, ControlLeft, StopLeft, Countdown
  <1>6. LockSoon'
    BY <1>1, <1>2, <1>3, <1>5 DEF LockInv, LockSoon, Unheeded, LockTicks, TurnTicks
  <1> QED BY <1>4, <1>6

\* So the lock keeps its promise,
LEMMA LockNext ==
    LockInv /\ [TimedNext]_<<vars, observers>> => LockInv'
  <1> SUFFICES ASSUME LockInv, [TimedNext]_<<vars, observers>>
               PROVE  LockInv'
    OBVIOUS
  <1>1. TimedInv'
    BY TimedStepInv DEF LockInv
  <1>2. CASE UNCHANGED <<vars, observers>>
    <2>1. UNCHANGED <<pc, state, should_stop, remaining, nap, after, pid, stop_deadline,
                      locked, lockedFor>>
      BY <1>2 DEF vars, reminderVars, observers
    <2>2. UNCHANGED <<LockLeft, LockTicks, Unheeded>>
      BY <2>1 DEF LockLeft, LockTicks, TurnTicks, ControlLeft, StopLeft, Unheeded
    <2> QED BY <1>1, <2>1, <2>2 DEF LockInv, Bounds, LockSoon, BlockingTicks
  <1> QED BY <1>1, <1>2, LockStep, TickStep DEF LockInv, TimedNext

\* from the start.
LEMMA LockInit == TimedInit => LockInv
  <1> SUFFICES ASSUME TimedInit PROVE LockInv
    OBVIOUS
  <1>1. Bounds /\ LockSoon
    BY DEF TimedInit, Init, ReminderInit, Bounds, LockSoon, Unheeded, BlockingTicks
  <1> QED BY <1>1, TimedInitInv DEF LockInv

\* A lock has its effect within a turn of the loop and a stop, for every timing and
\* whatever the daemon was doing (main.c:221-240, reminder.c:402-432).
THEOREM LockIsHeeded == TimedSpec => []LockTakesEffect
  <1>1. LockInv => LockTakesEffect
    <2> SUFFICES ASSUME LockInv, lockedFor > LockTicks
                 PROVE  /\ state = "locked" \/ pc \in {"boot", "exited"}
                        /\ \A p \in Pids : ~Unkilled(p)
      BY DEF LockTakesEffect
    <2>1. /\ lockedFor \in Nat /\ LockTicks \in Nat /\ locked
          /\ LockLeft \in Nat
      BY LockLeftBound DEF LockInv, Bounds, TimedInv, Inv, LockTicks, TurnTicks
    <2>2. ~Unheeded
      BY <2>1 DEF LockInv, LockSoon
    <2> QED BY <2>1, <2>2 DEF Unheeded, LockInv, TimedInv, Inv, Supervised
  <1> QED BY <1>1, LockInit, LockNext, PTL DEF TimedSpec

-----------------------------------------------------------------------------
(* The count                                                                 *)

\* A count is begun afresh, or goes on.
LEMMA CountSteps ==
    ASSUME TimedStep, state' = "counting", pc' \notin {"boot", "exited"}
    PROVE  \/ remaining' = Interval
           \/ UNCHANGED remaining /\ state = "counting" /\ pc \notin {"boot", "exited"}
  <1> DEFINE Afresh == remaining' = Interval
             GoesOn == /\ UNCHANGED remaining /\ state = "counting"
                       /\ pc \notin {"boot", "exited"}
  <1>1. ASSUME NEW k, Resume(k), pc \notin {"boot", "exited"}
        PROVE  Afresh \/ GoesOn
    BY <1>1 DEF Resume, ExitWith, Goto, RestartCount
  <1>2. ASSUME NEW k, StopIfReminding(k), pc \notin {"boot", "exited"}
        PROVE  Afresh \/ GoesOn
    BY <1>1, <1>2 DEF StopIfReminding, StopReminder
  <1>3. CASE LockReadFails \/ LockSeen \/ Final
    BY <1>2, <1>3 DEF LockReadFails, LockSeen, Final
  <1>4. ASSUME NEW request \in Requests, HandleRequest(request)
        PROVE  Afresh \/ GoesOn
    BY <1>2, <1>4 DEF HandleRequest, RequestIgnored, Dismiss, Quit, Trigger,
                      StopIfReminding
  <1>5. CASE StopWaitReaps \/ StopReapReaps
    BY <1>1, <1>5 DEF StopWaitReaps, StopReapReaps
  <1>6. CASE Boot \/ BootFails \/ UnlockSeen \/ TimerFires \/ PollReminder
    BY <1>6 DEF Boot, BootFails, UnlockSeen, TimerFires, PollReminder, ExitWith, Goto,
                RestartCount
  <1>7. CASE \/ LeaveLoop \/ NoLockChange \/ TimerIdle \/ Wake \/ StopWaitExpires
             \/ SessionLocks \/ TimedUnlock \/ FirstSignal
    BY <1>7 DEF LeaveLoop, NoLockChange, TimerIdle, Wake, StopWaitExpires, SessionLocks,
                TimedUnlock, SessionUnlocks, FirstSignal, Signal
  <1>8. ASSUME NEW p \in Pids, Child(p)
        PROVE  Afresh \/ GoesOn
    BY <1>8 DEF Child
  <1> QED
    BY <1>3, <1>4, <1>5, <1>6, <1>7, <1>8 DEF TimedStep, DaemonStep

\* No lock that lasts long enough is missed.
LEMMA UnlockIsSeen ==
    ASSUME LockInv, MinLock > LockTicks, TimedStep, locked, ~locked',
           pc \notin {"boot", "exited"}
    PROVE  state = "locked"
  <1>1. ASSUME NEW k, StopIfReminding(k)
        PROVE  UNCHANGED locked
    BY <1>1 DEF StopIfReminding, StopReminder
  <1>2. ASSUME NEW request \in Requests, HandleRequest(request)
        PROVE  UNCHANGED locked
    BY <1>1, <1>2 DEF HandleRequest, RequestIgnored, Dismiss, Quit, Trigger,
                      StopIfReminding
  <1>3. ASSUME NEW p \in Pids, Child(p)
        PROVE  UNCHANGED locked
    BY <1>3 DEF Child
  <1>4. TimedUnlock
    BY <1>1, <1>2, <1>3
       DEF TimedStep, DaemonStep, Boot, BootFails, LeaveLoop, LockReadFails, LockSeen,
           UnlockSeen, NoLockChange, TimerIdle, TimerFires, PollReminder, Wake, Final,
           StopWaitReaps, StopWaitExpires, StopReapReaps, SessionLocks, FirstSignal,
           Signal
  <1>5. /\ lockedFor >= MinLock /\ MinLock \in Nat /\ lockedFor \in Nat
        /\ LockTicks \in Nat /\ LockLeft \in Nat
    BY <1>4, MinLockAssumption, LockLeftBound
       DEF TimedUnlock, LockInv, TimedInv, Inv, Bounds, LockTicks, TurnTicks,
           MinLockAssumption
  <1>6. ~(lockedFor + LockLeft <= LockTicks)
    BY <1>5
  <1> QED BY <1>6 DEF LockInv, LockSoon, Unheeded

\* If a lock lasts longer than it takes to have its effect, then no overlay comes
\* before a whole interval of calm, for every timing (main.c:236-258, 270-292).
THEOREM CountOnlyCalm ==
    ASSUME MinLock > LockTicks
    PROVE  TimedSpec => []CountIsCalm
  <1> DEFINE CInv == LockInv /\ calm \in Nat /\ CountIsCalm
  <1>1. TimedInit => CInv
    BY LockInit DEF TimedInit, Init, CountIsCalm
  <1>2. CInv /\ [TimedNext]_<<vars, observers>> => CInv'
    <2> SUFFICES ASSUME CInv, [TimedNext]_<<vars, observers>>
                 PROVE  calm' \in Nat /\ CountIsCalm'
      BY LockNext
    <2>1. /\ calm \in Nat /\ remaining \in Nat /\ state \in States
          /\ Inv /\ Bounds /\ LockSoon /\ LockLeft \in Nat /\ lockedFor \in Nat
          /\ LockTicks \in Nat
      BY LockLeftBound DEF LockInv, TimedInv, Inv, TypeOK, Bounds, LockTicks, TurnTicks
    <2>2. CASE UNCHANGED <<vars, observers>>
      BY <2>1, <2>2 DEF CountIsCalm, vars, observers
    <2>3. CASE TimedTick
      <3>1. /\ UNCHANGED <<pc, state>> /\ remaining' = Countdown(remaining)
            /\ calm' = IF \E p \in Pids : Unkilled(p) THEN 0 ELSE Watch(Interval, calm)
        BY <2>3 DEF TimedTick, Tick
      <3>2. state = "counting" => ~\E p \in Pids : Unkilled(p)
        BY <2>1 DEF Inv, Supervised
      <3> QED BY <2>1, <3>1, <3>2 DEF CountIsCalm, Countdown, Watch
    <2>4. CASE TimedStep
      <3>1. calm' \in Nat
        BY <2>1, <2>4 DEF TimedStep, Observe
      <3>2. CASE remaining' = Interval
        <4>1. \A c \in Nat : c + Interval >= Interval
          OBVIOUS
        <4> QED BY <3>1, <3>2, <4>1 DEF CountIsCalm
      <3>3. CASE /\ UNCHANGED remaining /\ state = "counting"
                 /\ pc \notin {"boot", "exited"}
        <4>1. ~\E p \in Pids : Unkilled(p)
          BY <2>1, <3>3 DEF Inv, Supervised
        <4>2. locked => locked'
          BY <2>1, <2>4, <3>3, UnlockIsSeen DEF LockInv
        <4>3. UNCHANGED calm
          BY <2>4, <4>1, <4>2 DEF TimedStep, Observe
        <4> QED BY <3>3, <4>3 DEF CountIsCalm
      <3> QED BY <2>4, <3>1, <3>2, <3>3, CountSteps DEF CountIsCalm
    <2> QED BY <2>2, <2>3, <2>4 DEF TimedNext
  <1>3. CInv => CountIsCalm
    OBVIOUS
  <1> QED BY <1>1, <1>2, <1>3, PTL DEF TimedSpec

-----------------------------------------------------------------------------
(* The end of a reminder                                                     *)

\* The longest it may take from here until the timer is checked.
TimerLeft ==
    CASE pc = "control" -> ControlLeft
      [] pc = "loop" -> 2 * PollTicks
      [] pc = "sleep" -> nap + 2 * PollTicks
      [] OTHER -> 0

Showing == state = "reminding" /\ pc \in {"loop", "control", "timer", "sleep"}

FullSleep == SleepTicks + MarginTicks

\* Each deadline is noticed within a turn.
OnTime ==
    Showing =>
        /\ pid # NoPid
        /\ ~term_sent =>
               /\ age + deadline + TimerLeft <= FullSleep + TurnTicks
               /\ deadline > 0 => age + deadline <= FullSleep
        /\ term_sent =>
               /\ age + kill_deadline + TimerLeft <= ReminderTicks
               /\ kill_deadline > 0 =>
                      age + kill_deadline + TurnTicks <= ReminderTicks

EndInv == LockInv /\ OnTime

\* The timer is checked once per turn.
LEMMA TimerLeftBound ==
    ASSUME TypeOK, Bounds
    PROVE  /\ TimerLeft \in Nat /\ TimerLeft <= TurnTicks
           /\ TurnTicks \in Nat /\ FullSleep \in Nat
           /\ ReminderTicks = FullSleep + TermTicks + 2 * TurnTicks
  BY DEF TimerLeft, TurnTicks, FullSleep, ReminderTicks, ControlLeft, Bounds,
         BlockingTicks, TypeOK, ReminderTypeOK

\* A reminder that goes on: it has just been started, the timer has been checked, or
\* the next check is nearer.
LEMMA ShowingSteps ==
    ASSUME Inv, Bounds, TimedStep, Showing'
    PROVE  \/ /\ pid' \in Pids \ {pid} /\ ~term_sent'
              /\ deadline' = FullSleep
           \/ /\ Showing /\ pc = "timer" /\ PollWaits
           \/ /\ Showing /\ pc = "timer" /\ PollTerminates
           \/ /\ Showing /\ UNCHANGED <<pid, deadline, kill_deadline, term_sent>>
              /\ TimerLeft' <= TimerLeft
  <1> DEFINE Started == /\ pid' \in Pids \ {pid} /\ ~term_sent'
                        /\ deadline' = FullSleep
             Nearer == /\ Showing /\ TimerLeft' <= TimerLeft
                       /\ UNCHANGED <<pid, deadline, kill_deadline, term_sent>>
  <1> USE DEF Showing
  <1>0. /\ nap \in Nat /\ should_stop \in BOOLEAN /\ pid \in Pids \union {NoPid}
        /\ nap <= BlockingTicks(pc) /\ after \in Callers
    BY DEF Inv, TypeOK, ReminderTypeOK, Bounds
  <1>1. ASSUME NEW p \in Pids, StartReminder(p)
        PROVE  Started
    BY <1>1 DEF StartReminder, Inv, PidIsOurs, FullSleep
  <1>2. ASSUME NEW k \in Callers, StopIfReminding(k), pc \in {"loop", "control", "final"}
        PROVE  FALSE
    BY <1>2 DEF StopIfReminding, StopReminder, Resume, ExitWith, Goto, RestartCount
  <1>3. CASE Boot \/ BootFails \/ LeaveLoop \/ UnlockSeen \/ TimerIdle
    BY <1>3 DEF Boot, BootFails, LeaveLoop, UnlockSeen, TimerIdle, ExitWith, Goto,
                RestartCount
  <1>4. CASE LockReadFails \/ LockSeen \/ Final
    BY <1>2, <1>4 DEF LockReadFails, LockSeen, Final, Callers
  <1>5. CASE NoLockChange
    BY <1>5 DEF NoLockChange, Goto, BlockingTicks, TimerLeft, ControlLeft, reminderVars
  <1>6. ASSUME NEW request \in Requests, HandleRequest(request)
        PROVE  Started \/ Nearer
    <2>1. CASE RequestIgnored(request)
      BY <1>0, <2>1 DEF RequestIgnored, Goto, TimerLeft, ControlLeft, reminderVars
    <2>2. CASE Dismiss(request) \/ Quit(request)
      BY <1>2, <2>2 DEF Dismiss, Quit, StopIfReminding, Callers
    <2>3. CASE Trigger(request)
      BY <1>1, <2>3 DEF Trigger
    <2> QED BY <1>6, <2>1, <2>2, <2>3 DEF HandleRequest
  <1>7. CASE TimerFires
    BY <1>1, <1>7 DEF TimerFires, RestartCount
  <1>8. CASE PollReminder
    BY <1>8 DEF PollReminder, RestartCount
  <1>9. CASE Wake
    BY <1>0, <1>9 DEF Wake, Goto, TimerLeft, reminderVars
  <1>10. CASE StopWaitReaps \/ StopReapReaps
    BY <1>10 DEF StopWaitReaps, StopReapReaps, Resume, ExitWith, Goto, RestartCount
  <1>11. CASE StopWaitExpires
    BY <1>11 DEF StopWaitExpires, Goto
  <1>12. CASE FirstSignal
    BY <1>0, <1>12 DEF FirstSignal, Signal, TimerLeft, ControlLeft, BlockingTicks,
                       reminderVars
  <1>13. CASE SessionLocks \/ TimedUnlock
    BY <1>0, <1>13 DEF SessionLocks, TimedUnlock, SessionUnlocks, TimerLeft, ControlLeft,
                       reminderVars
  <1>14. ASSUME NEW p \in Pids, Child(p)
         PROVE  Nearer
    BY <1>0, <1>14 DEF Child, ChildStep, Exec, ExecFails, SwallowTerm, OverlayExits,
                       KillDelivered, Become, structVars, TimerLeft, ControlLeft
  <1> QED
    BY <1>3, <1>4, <1>5, <1>6, <1>7, <1>8, <1>9, <1>10, <1>11, <1>12, <1>13, <1>14
       DEF TimedStep, DaemonStep

\* A smaller summand makes a smaller sum.
LEMMA Smaller ==
    \A a, x, y, t \in Nat : a + x <= t /\ y <= x => a + y <= t
  OBVIOUS

\* Each deadline is noticed at the first check of the timer after it,
LEMMA OnTimeStep ==
    ASSUME EndInv, TimedStep
    PROVE  OnTime'
  <1>1. /\ Inv /\ Bounds /\ OnTime /\ Deadlines
        /\ age \in Nat /\ deadline \in Nat /\ kill_deadline \in Nat
        /\ TimerLeft \in Nat /\ TimerLeft <= TurnTicks
        /\ TurnTicks \in Nat /\ FullSleep \in Nat
        /\ ReminderTicks = FullSleep + TermTicks + 2 * TurnTicks
    BY TimerLeftBound DEF EndInv, LockInv, TimedInv, Inv, TypeOK, ReminderTypeOK, Deadlines
  <1>0. /\ age + deadline \in Nat /\ age + kill_deadline \in Nat
        /\ ReminderTicks \in Nat /\ FullSleep + TurnTicks \in Nat
        /\ TimerLeft \in Nat /\ TurnTicks \in Nat
    BY <1>1
  <1>2. TypeOK' /\ Bounds'
    BY <1>1, BoundsStep, NextType DEF Inv, TimedStep, TimedUnlock, FirstSignal, Next,
                                      Environment
  <1>3. TimerLeft' \in Nat /\ TimerLeft' <= TurnTicks
    BY <1>2 DEF TimerLeft, TurnTicks, ControlLeft, Bounds, BlockingTicks, TypeOK,
                ReminderTypeOK
  <1>4. age' = IF pid' \in Pids \ {pid} THEN 0 ELSE age
    BY DEF TimedStep, Observe
  <1>5. UNCHANGED <<TurnTicks, FullSleep, ReminderTicks>>
    BY DEF TurnTicks, FullSleep, ReminderTicks
  <1> SUFFICES ASSUME Showing' PROVE OnTime'
    BY DEF OnTime
  <1>6. CASE pid' \in Pids \ {pid} /\ ~term_sent' /\ deadline' = FullSleep
    <2>1. age' = 0 /\ age' + deadline' = FullSleep
      BY <1>1, <1>4, <1>6
    <2>2. age' + deadline' + TimerLeft' <= FullSleep + TurnTicks
      BY <1>1, <1>3, <2>1
    <2> QED BY <1>1, <1>5, <1>6, <2>1, <2>2 DEF OnTime
  <1>7. CASE Showing /\ pc = "timer" /\ PollWaits
    <2>1. /\ UNCHANGED <<pid, age, deadline, kill_deadline, term_sent>>
          /\ IF term_sent THEN kill_deadline > 0 ELSE deadline > 0
      BY <1>4, <1>7 DEF PollWaits, reminderVars
    <2>2. pid # NoPid
      BY <1>1, <1>7 DEF OnTime
    <2>3. CASE term_sent
      <3>1. age + kill_deadline + TurnTicks <= ReminderTicks
        BY <1>1, <1>7, <2>1, <2>3 DEF OnTime
      <3>2. age + kill_deadline + TimerLeft' <= ReminderTicks
        BY <1>0, <1>3, <3>1, Smaller
      <3> QED BY <1>5, <2>1, <2>2, <2>3, <3>1, <3>2 DEF OnTime
    <2>4. CASE ~term_sent
      <3>1. age + deadline <= FullSleep
        BY <1>1, <1>7, <2>1, <2>4 DEF OnTime
      <3>2. age + deadline + TurnTicks <= FullSleep + TurnTicks
        BY <1>1, <3>1
      <3>3. age + deadline + TimerLeft' <= FullSleep + TurnTicks
        BY <1>0, <1>3, <3>2, Smaller
      <3> QED BY <1>5, <2>1, <2>2, <2>4, <3>1, <3>3 DEF OnTime
    <2> QED BY <2>3, <2>4
  <1>8. CASE Showing /\ pc = "timer" /\ PollTerminates
    <2>1. /\ UNCHANGED <<pid, age>> /\ term_sent' /\ kill_deadline' = TermTicks
          /\ deadline = 0 /\ ~term_sent
      BY <1>4, <1>8 DEF PollTerminates
    <2>2. pid # NoPid /\ age + deadline + TimerLeft <= FullSleep + TurnTicks
      BY <1>1, <1>8, <2>1 DEF OnTime
    <2>3. age <= FullSleep + TurnTicks
      BY <1>1, <2>1, <2>2
    <2>4. age + TermTicks + TurnTicks <= ReminderTicks /\ age + TermTicks \in Nat
      BY <1>1, <2>3
    <2>5. age + TermTicks + TimerLeft' <= ReminderTicks
      BY <1>0, <1>3, <2>4, Smaller
    <2> QED BY <1>5, <2>1, <2>2, <2>4, <2>5 DEF OnTime
  <1>9. CASE /\ Showing /\ UNCHANGED <<pid, deadline, kill_deadline, term_sent>>
             /\ TimerLeft' <= TimerLeft
    <2>1. UNCHANGED age /\ pid # NoPid
      BY <1>1, <1>4, <1>9 DEF OnTime
    <2>2. /\ age + deadline + TimerLeft <= FullSleep + TurnTicks
                 => age + deadline + TimerLeft' <= FullSleep + TurnTicks
          /\ age + kill_deadline + TimerLeft <= ReminderTicks
                 => age + kill_deadline + TimerLeft' <= ReminderTicks
      BY <1>0, <1>3, <1>9, Smaller
    <2> QED BY <1>1, <1>5, <1>9, <2>1, <2>2 DEF OnTime
  <1> QED BY <1>1, <1>6, <1>7, <1>8, <1>9, ShowingSteps

\* and the clock cannot pass that check.
LEMMA OnTimeTick ==
    ASSUME EndInv, TimedTick
    PROVE  OnTime'
  <1>1. /\ UNCHANGED <<pc, state, should_stop, pid, term_sent>>
        /\ nap' = Countdown(nap)
        /\ deadline' = Countdown(deadline) /\ kill_deadline' = Countdown(kill_deadline)
        /\ age' = Watch(ReminderTicks + 1, age)
        /\ Showing => pc \in {"control", "sleep"} /\ nap > 0
    BY DEF TimedTick, MayTick, Tick, ReminderTick, Showing
  <1>2. /\ age \in Nat /\ nap \in Nat /\ deadline \in Nat /\ kill_deadline \in Nat
        /\ TimerLeft \in Nat /\ TimerLeft <= TurnTicks
        /\ TurnTicks \in Nat /\ FullSleep \in Nat
        /\ ReminderTicks = FullSleep + TermTicks + 2 * TurnTicks
        /\ OnTime /\ should_stop \in BOOLEAN /\ term_sent \in BOOLEAN
        /\ Deadlines
    BY TimerLeftBound
       DEF EndInv, LockInv, TimedInv, Inv, TypeOK, ReminderTypeOK, Deadlines
  <1>3. UNCHANGED <<TurnTicks, FullSleep, ReminderTicks>>
    BY DEF TurnTicks, FullSleep, ReminderTicks
  <1> SUFFICES ASSUME Showing' PROVE OnTime'
    BY DEF OnTime
  <1>4. Showing /\ TimerLeft' = TimerLeft - 1
    <2>1. Showing
      BY <1>1 DEF Showing
    <2> QED BY <1>1, <1>2, <2>1 DEF TimerLeft, ControlLeft, Countdown
  <1>5. age' \in Nat /\ age' <= age + 1
    BY <1>1, <1>2 DEF Watch
  <1>6. CASE term_sent
    <2>1. /\ age + kill_deadline + TimerLeft <= ReminderTicks
          /\ kill_deadline > 0 => age + kill_deadline + TurnTicks <= ReminderTicks
      BY <1>2, <1>4, <1>6 DEF OnTime
    <2>2. age' + kill_deadline' + TimerLeft' <= ReminderTicks
      BY <1>1, <1>2, <1>4, <1>5, <2>1 DEF Countdown
    <2>3. kill_deadline' > 0 => age' + kill_deadline' + TurnTicks <= ReminderTicks
      BY <1>1, <1>2, <1>5, <2>1 DEF Countdown
    <2> QED BY <1>1, <1>2, <1>3, <1>4, <1>6, <2>2, <2>3 DEF OnTime
  <1>7. CASE ~term_sent
    <2>1. /\ age + deadline + TimerLeft <= FullSleep + TurnTicks
          /\ deadline > 0 => age + deadline <= FullSleep
      BY <1>2, <1>4, <1>7 DEF OnTime
    <2>2. age' + deadline' + TimerLeft' <= FullSleep + TurnTicks
      BY <1>1, <1>2, <1>4, <1>5, <2>1 DEF Countdown
    <2>3. deadline' > 0 => age' + deadline' <= FullSleep
      BY <1>1, <1>2, <1>5, <2>1 DEF Countdown
    <2> QED BY <1>1, <1>2, <1>3, <1>4, <1>7, <2>2, <2>3 DEF OnTime
  <1> QED BY <1>6, <1>7

\* A reminder is over in time, for every timing, even if its overlay neither ends by
\* itself nor heeds SIGTERM (reminder.c:387-400, main.c:267-300).
THEOREM ReminderIsShort == TimedSpec => []ReminderInTime
  <1>1. TimedInit => EndInv
    BY LockInit DEF TimedInit, Init, EndInv, OnTime, Showing
  <1>2. EndInv /\ [TimedNext]_<<vars, observers>> => EndInv'
    <2> SUFFICES ASSUME EndInv, [TimedNext]_<<vars, observers>>
                 PROVE  OnTime'
      BY LockNext DEF EndInv
    <2>1. CASE UNCHANGED <<vars, observers>>
      <3>1. UNCHANGED <<pc, state, should_stop, nap, pid, deadline, kill_deadline,
                        term_sent, age>>
        BY <2>1 DEF vars, reminderVars, observers
      <3>2. UNCHANGED <<TimerLeft, Showing, TurnTicks, FullSleep, ReminderTicks>>
        BY <3>1 DEF TimerLeft, ControlLeft, Showing, TurnTicks, FullSleep, ReminderTicks
      <3> QED BY <3>1, <3>2 DEF EndInv, OnTime
    <2> QED BY <2>1, OnTimeStep, OnTimeTick DEF TimedNext
  <1>3. EndInv => ReminderInTime
    <2> SUFFICES ASSUME EndInv, Showing
                 PROVE  age <= ReminderTicks
      BY DEF ReminderInTime, Showing
    <2>1. /\ age \in Nat /\ deadline \in Nat /\ kill_deadline \in Nat
          /\ term_sent \in BOOLEAN
          /\ TimerLeft \in Nat /\ TurnTicks \in Nat /\ FullSleep \in Nat
          /\ ReminderTicks = FullSleep + TermTicks + 2 * TurnTicks
      BY TimerLeftBound DEF EndInv, LockInv, TimedInv, Inv, TypeOK, ReminderTypeOK,
                            Deadlines
    <2> QED BY <2>1 DEF EndInv, OnTime
  <1> QED BY <1>1, <1>2, <1>3, PTL DEF TimedSpec

-----------------------------------------------------------------------------
(* The time it takes to end                                                  *)

\* The daemon is to end: a signal has come or a quit been obeyed, or it stops the
\* overlay for a quit or because logind has failed.
Leaving ==
    should_stop \/ (pc \in {"stopWait", "stopReap"} /\ after \in {"quit", "unavailable"})

\* What may still block the daemon: a poll, the sleep behind it, and the stop of an
\* overlay.
StopTicks == PollTicks + LoopTicks + TermTicks

\* What the turn it was called in may take when cgk_stop_reminder returns.
TurnAfterStop ==
    CASE after = "dismiss" -> LoopTicks
      [] after = "locked" -> PollTicks + LoopTicks
      [] OTHER -> 0

\* The longest a daemon that is to end may block from here.
ExitLeft ==
    CASE pc = "control" -> nap + LoopTicks + (IF state = "locked" THEN 0 ELSE TermTicks)
      [] pc = "timer" ->
             LoopTicks + (IF state = "locked" \/ (state = "counting" /\ remaining > 0)
                          THEN 0 ELSE TermTicks)
      [] pc = "sleep" -> nap + StopLeft
      [] pc \in {"loop", "final"} -> StopLeft
      [] pc = "stopWait" -> stop_deadline + TurnAfterStop
      [] pc = "stopReap" -> TurnAfterStop
      [] OTHER -> 0

LEMMA ExitLeftBound ==
    ASSUME TypeOK, Bounds
    PROVE  ExitLeft \in Nat /\ ExitLeft <= StopTicks
  BY DEF ExitLeft, StopTicks, TurnAfterStop, StopLeft, Bounds, BlockingTicks, TypeOK,
         ReminderTypeOK

\* Where a call of cgk_stop_reminder leads.
LEMMA StopLeads ==
    ASSUME TypeOK, NEW k \in Callers, StopIfReminding(k)
    PROVE  \/ pc' = "exited"
           \/ pc' = "control" /\ k = "locked"
           \/ pc' = "timer" /\ k = "dismiss" /\ ExitLeft' = LoopTicks
           \/ pc' = "final" /\ k = "quit" /\ should_stop' /\ ExitLeft' = 0
           \/ /\ pc' = "stopWait" /\ state = "reminding" /\ pid # NoPid
              /\ UNCHANGED should_stop
              /\ k \in {"quit", "final"} => ExitLeft' = TermTicks
              /\ k = "dismiss" => ExitLeft' = TermTicks + LoopTicks
  BY DEF StopIfReminding, StopReminder, StopNeedless, StopTerminates, Resume, ExitWith,
         Goto, RestartCount, ExitLeft, TurnAfterStop, StopLeft, Callers, reminderVars,
         structVars, TypeOK, ReminderTypeOK

\* A daemon that is to end gets nearer to its end with every step.
LEMMA ExitLeftShrinks ==
    ASSUME Inv, Bounds, TimedStep, Leaving, pc' # "exited"
    PROVE  Leaving' /\ ExitLeft' <= ExitLeft
  <1>0. /\ nap \in Nat /\ remaining \in Nat /\ stop_deadline \in Nat
        /\ should_stop \in BOOLEAN /\ after \in Callers /\ pc \in Locations
        /\ state \in States /\ pid \in Pids \union {NoPid}
        /\ stop_deadline <= TermTicks /\ nap <= BlockingTicks(pc)
    BY DEF Inv, TypeOK, ReminderTypeOK, Bounds
  <1>1. pc \notin {"stopWait", "stopReap"} => should_stop
    BY DEF Leaving
  <1>2. ExitLeft \in Nat
    BY ExitLeftBound DEF Inv
  <1>3. CASE Boot \/ BootFails
    BY <1>0, <1>1, <1>2, <1>3
       DEF Boot, BootFails, ExitWith, Goto, ExitLeft, StopLeft, Leaving
  <1>4. CASE LeaveLoop \/ Wake
    BY <1>0, <1>1, <1>4 DEF LeaveLoop, Wake, Goto, ExitLeft, StopLeft, Leaving, reminderVars
  <1>5. ~(LockReadFails \/ LockSeen \/ UnlockSeen \/ NoLockChange)
    BY <1>1 DEF LockReadFails, LockSeen, UnlockSeen, NoLockChange
  <1>6. CASE Final
    <2>1. pc = "final" /\ should_stop /\ StopIfReminding("final") /\ ExitLeft = StopLeft
      BY <1>1, <1>6 DEF Final, ExitLeft
    <2>2. /\ pc' = "stopWait" /\ state = "reminding" /\ pid # NoPid
          /\ should_stop' /\ ExitLeft' = TermTicks
      BY <2>1, StopLeads DEF Inv, Callers
    <2> QED BY <2>1, <2>2 DEF StopLeft, Leaving
  <1>7. ASSUME NEW request \in Requests, HandleRequest(request)
        PROVE  Leaving' /\ ExitLeft' <= ExitLeft
    <2>1. /\ pc = "control" /\ should_stop
          /\ ExitLeft = nap + LoopTicks + (IF state = "locked" THEN 0 ELSE TermTicks)
      BY <1>1, <1>7 DEF HandleRequest, RequestIgnored, Dismiss, Quit, Trigger, ExitLeft
    <2>2. CASE RequestIgnored(request) \/ Trigger(request)
      <3>1. /\ pc' = "timer" /\ UNCHANGED should_stop
            /\ state = "locked" => state' = "locked"
        BY <2>2 DEF RequestIgnored, Trigger, Goto
      <3> QED BY <1>0, <2>1, <3>1 DEF ExitLeft, Leaving
    <2>3. CASE Dismiss(request)
      <3>1. StopIfReminding("dismiss") /\ state = "reminding" /\ "dismiss" \in Callers
        BY <2>3 DEF Dismiss, StopIfReminding, Callers
      <3>2. ExitLeft' \in {LoopTicks, TermTicks + LoopTicks}
        BY <3>1, StopLeads DEF Inv
      <3>3. UNCHANGED should_stop
        BY <2>3 DEF Dismiss, StopReminder, Resume
      <3> QED BY <1>0, <2>1, <3>1, <3>2, <3>3 DEF Leaving
    <2>4. CASE Quit(request)
      <3>1. StopIfReminding("quit") /\ "quit" \in Callers
        BY <2>4 DEF Quit, Callers
      <3>2. should_stop' /\ (ExitLeft' = 0 \/ (ExitLeft' = TermTicks /\ state = "reminding"))
        BY <2>1, <3>1, StopLeads DEF Inv
      <3> QED BY <1>0, <2>1, <3>2 DEF Leaving
    <2> QED BY <1>7, <2>2, <2>3, <2>4 DEF HandleRequest
  <1>8. CASE TimerIdle \/ TimerFires \/ PollReminder
    <2>1. /\ pc = "timer" /\ pc' = "sleep" /\ nap' = LoopTicks /\ UNCHANGED should_stop
          /\ should_stop
      BY <1>1, <1>8 DEF TimerIdle, TimerFires, PollReminder, Goto, BlockingTicks
    <2>2. StopLeft' # 0 =>
              ~(state = "locked" \/ (state = "counting" /\ remaining > 0))
      BY <1>8 DEF TimerIdle, TimerFires, PollReminder, StopLeft, RestartCount
    <2> QED BY <2>1, <2>2 DEF ExitLeft, StopLeft, Leaving
  <1>9. CASE StopWaitReaps \/ StopReapReaps
    <2>1. /\ pc \in {"stopWait", "stopReap"} /\ Resume(after) /\ pid' = NoPid
      BY <1>9 DEF StopWaitReaps, StopReapReaps, StopReapsInTime, StopReapsAtLast,
                  ReapIfFinished
    <2>2. ExitLeft >= TurnAfterStop
      BY <1>0, <2>1 DEF ExitLeft, TurnAfterStop
    <2>3. Leaving' /\ ExitLeft' <= TurnAfterStop
      BY <1>0, <2>1 DEF Resume, ExitWith, Goto, RestartCount, BlockingTicks, ExitLeft,
                        TurnAfterStop, StopLeft, Leaving
    <2>4. ExitLeft' \in Nat /\ TurnAfterStop \in Nat
      BY <2>1, <2>3 DEF Resume, ExitWith, Goto, RestartCount, BlockingTicks, ExitLeft,
                        TurnAfterStop, StopLeft
    <2> QED BY <1>2, <2>2, <2>3, <2>4
  <1>10. CASE StopWaitExpires
    BY <1>0, <1>10 DEF StopWaitExpires, StopKills, Goto, ExitLeft, TurnAfterStop, Leaving
  <1>11. CASE FirstSignal
    <2>1. ~should_stop /\ pc \in {"stopWait", "stopReap"}
      BY <1>1, <1>11 DEF FirstSignal
    <2>2. should_stop' /\ UNCHANGED <<pc, after, stop_deadline>>
      BY <1>11 DEF FirstSignal, Signal, reminderVars
    <2> QED BY <1>2, <2>1, <2>2 DEF ExitLeft, TurnAfterStop, Leaving
  <1>12. ASSUME UNCHANGED <<pc, state, should_stop, remaining, nap, after, pid,
                            stop_deadline>>
         PROVE  Leaving' /\ ExitLeft' <= ExitLeft
    BY <1>2, <1>12 DEF ExitLeft, TurnAfterStop, StopLeft, Leaving
  <1>13. CASE SessionLocks \/ TimedUnlock
    BY <1>12, <1>13 DEF SessionLocks, TimedUnlock, SessionUnlocks, reminderVars
  <1>14. ASSUME NEW p \in Pids, Child(p)
         PROVE  Leaving' /\ ExitLeft' <= ExitLeft
    BY <1>12, <1>14 DEF Child, ChildStep, Exec, ExecFails, SwallowTerm, OverlayExits,
                        KillDelivered, Become, structVars
  <1> QED
    BY <1>3, <1>4, <1>5, <1>6, <1>7, <1>8, <1>9, <1>10, <1>11, <1>13, <1>14
       DEF TimedStep, DaemonStep

\* A daemon that has returned does not come back.
LEMMA ExitedStays ==
    ASSUME TimedStep, pc = "exited"
    PROVE  pc' = "exited"
  BY DEF TimedStep, DaemonStep, Boot, BootFails, LeaveLoop, LockReadFails, LockSeen,
         UnlockSeen, NoLockChange, HandleRequest, RequestIgnored, Dismiss, Quit, Trigger,
         TimerIdle, TimerFires, PollReminder, Wake, Final, StopWaitReaps,
         StopWaitExpires, StopReapReaps, SessionLocks, TimedUnlock, SessionUnlocks,
         FirstSignal, Signal, Child

\* While the clock runs, so does what is left.
LEMMA ExitLeftTicks ==
    ASSUME Inv, TimedTick, Leaving
    PROVE  Leaving' /\ ExitLeft \in Nat /\ ExitLeft > 0 /\ ExitLeft' = ExitLeft - 1
  <1>1. /\ UNCHANGED <<pc, state, should_stop, after, pid>>
        /\ nap' = Countdown(nap) /\ stop_deadline' = Countdown(stop_deadline)
        /\ \/ pc \in {"control", "sleep"} /\ nap > 0
           \/ pc = "stopWait" /\ stop_deadline > 0
    BY DEF TimedTick, MayTick, Tick, ReminderTick
  <1>2. nap \in Nat /\ stop_deadline \in Nat
    BY DEF Inv, TypeOK, ReminderTypeOK
  <1> QED BY <1>1, <1>2 DEF ExitLeft, TurnAfterStop, StopLeft, Leaving, Countdown

\* Whatever ends the daemon, and wherever it is by then, it blocks for no longer than
\* a poll, a second of sleep and the grace of an overlay before it returns: `stopping`
\* is a stopwatch that runs from the signal, the quit or the failure of logind
\* (main.c:221-231, 259-265, 297-305; reminder.c:402-432).
THEOREM StopIsShort ==
    ASSUME NEW VARIABLE stopping
    PROVE  /\ TimedSpec
           /\ stopping = 0
           /\ [][stopping' = IF TimedTick /\ Leaving THEN stopping + 1 ELSE stopping]_
                    <<vars, observers, stopping>>
           => [](stopping <= StopTicks)
  <1> DEFINE Clocked == stopping' = IF TimedTick /\ Leaving THEN stopping + 1 ELSE stopping
             ExitInv ==
                 /\ stopping \in Nat /\ stopping <= StopTicks
                 /\ Leaving /\ pc # "exited" => stopping + ExitLeft <= StopTicks
                 /\ ~Leaving /\ pc # "exited" => stopping = 0
  <1>1. stopping = 0 /\ LockInv => ExitInv
    BY ExitLeftBound DEF LockInv, TimedInv, Inv, StopTicks
  <1>2. LockInv /\ LockInv' /\ ExitInv /\ [TimedNext]_<<vars, observers>>
            /\ [Clocked]_<<vars, observers, stopping>> => ExitInv'
    <2> SUFFICES ASSUME LockInv, LockInv', ExitInv, [TimedNext]_<<vars, observers>>,
                        [Clocked]_<<vars, observers, stopping>>
                 PROVE  ExitInv'
      OBVIOUS
    <2>1. /\ stopping \in Nat /\ StopTicks \in Nat /\ StopTicks' = StopTicks
          /\ ExitLeft \in Nat /\ ExitLeft' \in Nat /\ ExitLeft' <= StopTicks
      <3>1. ExitLeft' \in Nat /\ ExitLeft' <= StopTicks'
        BY DEF LockInv, TimedInv, Inv, ExitLeft, StopTicks, TurnAfterStop, StopLeft,
               Bounds, BlockingTicks, TypeOK, ReminderTypeOK
      <3> QED BY <3>1, ExitLeftBound DEF LockInv, TimedInv, Inv, StopTicks
    <2>2. CASE TimedTick /\ Leaving
      <3>1. pc \in {"control", "sleep", "stopWait"} /\ UNCHANGED pc
        BY <2>2 DEF TimedTick, MayTick, Tick
      <3>2. Leaving' /\ ExitLeft > 0 /\ ExitLeft' = ExitLeft - 1
        BY <2>2, ExitLeftTicks DEF LockInv, TimedInv
      <3>3. nap' # nap \/ stop_deadline' # stop_deadline
        BY <2>2 DEF TimedTick, MayTick, Tick, ReminderTick, Countdown, LockInv, TimedInv,
                    Inv, TypeOK, ReminderTypeOK
      <3>4. stopping' = stopping + 1
        BY <2>2, <3>3 DEF vars, reminderVars
      <3> QED BY <2>1, <2>2, <3>1, <3>2, <3>4
    <2>3. CASE ~(TimedTick /\ Leaving)
      <3>1. stopping' = stopping
        BY <2>3
      <3>2. CASE TimedTick
        <4>1. ~Leaving /\ UNCHANGED <<pc, should_stop, after>>
          BY <2>3, <3>2 DEF TimedTick, Tick
        <4>2. ~Leaving'
          BY <4>1 DEF Leaving
        <4> QED BY <2>1, <3>1, <4>1, <4>2
      <3>3. CASE TimedStep
        <4>1. pc = "exited" => pc' = "exited"
          BY <3>3, ExitedStays
        <4>2. CASE Leaving
          <5>1. pc' # "exited" => Leaving' /\ ExitLeft' <= ExitLeft
            BY <3>3, <4>2, ExitLeftShrinks DEF LockInv, TimedInv
          <5>2. pc' # "exited" => stopping + ExitLeft <= StopTicks
            BY <4>1, <4>2
          <5>3. \A n, x, y, t \in Nat : n + x <= t /\ y <= x => n + y <= t
            OBVIOUS
          <5>4. pc' # "exited" => stopping + ExitLeft' <= StopTicks
            BY <2>1, <5>1, <5>2, <5>3
          <5> QED BY <2>1, <3>1, <5>1, <5>4
        <4>3. CASE ~Leaving
          <5>1. pc' # "exited" => stopping' = 0
            BY <3>1, <4>1, <4>3
          <5>2. stopping' \in Nat /\ stopping' <= StopTicks'
            BY <2>1, <3>1
          <5>3. pc' # "exited" => stopping' + ExitLeft' <= StopTicks'
            <6>1. \A n, x, t \in Nat : n = 0 /\ x <= t => n + x <= t
              OBVIOUS
            <6> QED BY <2>1, <5>1, <5>2, <6>1
          <5> QED BY <5>1, <5>2, <5>3
        <4> QED BY <4>2, <4>3
      <3>4. CASE UNCHANGED <<vars, observers>>
        <4>1. UNCHANGED <<pc, state, should_stop, remaining, nap, after, pid,
                          stop_deadline>>
          BY <3>4 DEF vars, reminderVars
        <4>2. UNCHANGED <<Leaving, ExitLeft>>
          BY <4>1 DEF Leaving, ExitLeft, TurnAfterStop, StopLeft
        <4> QED BY <2>1, <3>1, <4>1, <4>2
      <3> QED BY <3>2, <3>3, <3>4 DEF TimedNext
    <2> QED BY <2>2, <2>3
  <1>3. ExitInv => stopping <= StopTicks
    OBVIOUS
  <1> QED BY <1>1, <1>2, <1>3, LockInit, LockNext, PTL DEF TimedSpec

=============================================================================
