-------------------------- MODULE ReminderWinProofs --------------------------
(* That the Windows supervisor touches no process but its overlays, for any  *)
(* number of processes and any deadlines.                                    *)
EXTENDS ReminderWin, TLAPS

LEMMA InitInv == Init => Inv
<1> SUFFICES ASSUME Init PROVE Inv
  OBVIOUS
<1>1. proc \in [Pids -> Ours \union {"free", "stranger"}]
  BY DEF Init
<1> QED BY <1>1 DEF Init, Inv, TypeOK, StrangersUntouched, HandlesHold

(* What the building blocks of the calls do to what they may disturb.        *)
LEMMA RequestExitKeeps ==
  ASSUME Inv, RequestExit, UNCHANGED <<proc, terminated>>
  PROVE  /\ asked' \subseteq Pids
         /\ StrangersUntouched'
  BY NoProcessAssumption
  DEF Inv, TypeOK, RequestExit, Targets, StrangersUntouched, HandlesHold,
      Ours, Overlays

LEMMA TerminateKeeps ==
  ASSUME Inv, Terminate, UNCHANGED <<proc, asked>>
  PROVE  /\ terminated' \subseteq Pids
         /\ StrangersUntouched'
  BY NoProcessAssumption
  DEF Inv, TypeOK, Terminate, Targets, StrangersUntouched, HandlesHold,
      Ours, Overlays

LEMMA ReapKeeps ==
  ASSUME Inv, Reap, UNCHANGED proc
  PROVE  /\ process' \in Pids \union {NoProcess}
         /\ handles' \subseteq Pids
         /\ HandlesHold'
  BY NoProcessAssumption
  DEF Inv, TypeOK, Reap, HandlesHold

LEMMA CountdownType == \A t \in Nat : Countdown(t) \in Nat
  BY DEF Countdown

-----------------------------------------------------------------------------
LEMMA DaemonStepInv == Inv /\ DaemonStep => Inv'
<1> SUFFICES ASSUME Inv, DaemonStep PROVE Inv'
  OBVIOUS
<1> USE NoProcessAssumption, WinTicksAssumption
<1>1. CASE ChangeMode
  BY <1>1 DEF ChangeMode, Inv, TypeOK, StrangersUntouched, HandlesHold,
              processVars
<1>2. ASSUME NEW p \in Pids, StartReminder(p) PROVE Inv'
  BY <1>2 DEF StartReminder, Return, Inv, TypeOK, StrangersUntouched,
              HandlesHold, Ours, Overlays
<1>3. CASE PollReaps
  BY <1>3, ReapKeeps DEF PollReaps, Return, Inv, TypeOK, StrangersUntouched,
                         processVars
<1>4. CASE PollRequests
  BY <1>4, RequestExitKeeps DEF PollRequests, Inv, TypeOK, HandlesHold,
                                callVars
<1>5. CASE PollTerminates
  BY <1>5, TerminateKeeps DEF PollTerminates, Inv, TypeOK, HandlesHold,
                              structVars
<1>6. CASE PollReturns
  <2>1. CASE Reap
    BY <1>6, <2>1, ReapKeeps DEF PollReturns, Return, Inv, TypeOK,
                                 StrangersUntouched, processVars
  <2>2. CASE UNCHANGED <<handles, process>>
    BY <1>6, <2>2 DEF PollReturns, Return, Inv, TypeOK, StrangersUntouched,
                      HandlesHold, processVars
  <2> QED BY <1>6, <2>1, <2>2 DEF PollReturns
<1>7. CASE StopRequests
  BY <1>7, RequestExitKeeps DEF StopRequests, Inv, TypeOK, HandlesHold,
                                structVars
<1>8. CASE StopReaps
  <2>1. /\ at' \in {"loop", "pollWait", "stopWait", "stopReap", "final"}
        /\ mode' \in {"off", "counting", "locked", "reminding"}
        /\ UNCHANGED <<wait, next_mode>>
    BY <1>8 DEF StopReaps, Resume, Return, Inv, TypeOK
  <2> QED BY <1>8, <2>1, ReapKeeps DEF StopReaps, Inv, TypeOK,
                                       StrangersUntouched, processVars
<1>9. CASE StopTerminates
  BY <1>9, TerminateKeeps DEF StopTerminates, Inv, TypeOK, HandlesHold,
                              structVars
<1>10. CASE StopNeedless
  BY <1>10 DEF StopNeedless, Return, Inv, TypeOK, StrangersUntouched,
               HandlesHold, processVars, structVars
<1> QED BY <1>1, <1>2, <1>3, <1>4, <1>5, <1>6, <1>7, <1>8, <1>9, <1>10
        DEF DaemonStep

LEMMA ProcessStepInv ==
  ASSUME NEW p \in Pids, Inv, ProcessStep(p)
  PROVE  Inv'
<1>1. CASE WindowOpens(p)
  BY <1>1 DEF WindowOpens, Become, Inv, TypeOK, StrangersUntouched,
              HandlesHold, Ours, Overlays, structVars, callVars
<1>2. CASE Ends(p)
  BY <1>2 DEF Ends, Become, Inv, TypeOK, StrangersUntouched,
              HandlesHold, Ours, Overlays, structVars, callVars
<1>3. CASE Forgotten(p)
  BY <1>3 DEF Forgotten, Become, Inv, TypeOK, StrangersUntouched,
              HandlesHold, Ours, Overlays, structVars, callVars
<1>4. CASE StrangerStarts(p)
  BY <1>4 DEF StrangerStarts, Become, Inv, TypeOK, StrangersUntouched,
              HandlesHold, Ours, Overlays, structVars, callVars
<1> QED BY <1>1, <1>2, <1>3, <1>4 DEF ProcessStep

LEMMA NextInv == Inv /\ [Next]_vars => Inv'
<1> SUFFICES ASSUME Inv, [Next]_vars PROVE Inv'
  OBVIOUS
<1>1. CASE DaemonStep
  BY <1>1, DaemonStepInv
<1>2. CASE \E p \in Pids : ProcessStep(p)
  BY <1>2, ProcessStepInv
<1>3. CASE Tick
  BY <1>3, CountdownType DEF Tick, Inv, TypeOK, StrangersUntouched,
                             HandlesHold, processVars
<1>4. CASE UNCHANGED vars
  BY <1>4 DEF vars, processVars, structVars, callVars, Inv, TypeOK,
              StrangersUntouched, HandlesHold
<1> QED BY <1>1, <1>2, <1>3, <1>4 DEF Next

\* The handles, the windows asked to close and the processes terminated are the
\* daemon's own, in every reachable state (reminder.c:116-231).
THEOREM Invariance == Spec => []Inv
  BY InitInv, NextInv, PTL DEF Spec

\* No window of another program is ever closed, no other program terminated
\* (reminder.c:116-138, 166-170, 200).
THEOREM StrangersAreSafe == Spec => []StrangersUntouched
<1>1. Inv => StrangersUntouched
  BY DEF Inv
<1> QED BY <1>1, Invariance, PTL

-----------------------------------------------------------------------------
(* The refinement of ReminderPolicy: its safety half.                        *)

LEMMA InitSupervised == Init => Supervised /\ Policy!PolicyInit
  BY DEF Init, Supervised, Unkilled, Overlays, Policy!PolicyInit

\* When the daemon finds the overlay finished or terminates it, none is left.
LEMMA NoneLeft ==
  ASSUME Supervised, UNCHANGED proc,
         \/ Finished /\ UNCHANGED terminated
         \/ Terminate
  PROVE  \A p \in Pids : ~Unkilled(p)'
<1> SUFFICES ASSUME NEW p \in Pids, Unkilled(p)' PROVE FALSE
  OBVIOUS
<1>1. Unkilled(p) /\ proc[p] # "ended"
  BY DEF Unkilled, Terminate, Overlays
<1>2. p = process /\ p \in Targets
  BY <1>1, NoProcessAssumption DEF Supervised, Targets
<1> QED BY <1>1, <1>2 DEF Finished, Terminate, Unkilled

\* An overlay only changes with its process.
LEMMA SameOverlays ==
  ASSUME UNCHANGED <<proc, terminated>>
  PROVE  \A p \in Pids : Unkilled(p)' <=> Unkilled(p)
  BY DEF Unkilled

LEMMA DaemonStepRefines ==
  ASSUME Inv, Supervised, DaemonStep
  PROVE  Supervised' /\ [Policy!PolicyNext]_(Policy!policyVars)
<1> USE DEF Policy!policyVars
<1>1. CASE ChangeMode
  <2>1. \A p \in Pids : ~Unkilled(p) /\ ~Unkilled(p)'
    BY <1>1, SameOverlays DEF ChangeMode, Supervised, processVars
  <2>2. Supervised'
    BY <1>1, <2>1 DEF ChangeMode, Supervised
  <2>3. Policy!TurnOn \/ Policy!LockOrUnlock \/ Policy!TurnOff
    BY <1>1, <2>1 DEF ChangeMode, Inv, TypeOK, Policy!TurnOn,
                      Policy!LockOrUnlock, Policy!TurnOff
  <2> QED BY <2>2, <2>3 DEF Policy!PolicyNext
<1>2. ASSUME NEW q \in Pids, StartReminder(q)
      PROVE  Supervised' /\ [Policy!PolicyNext]_(Policy!policyVars)
  <2>1. \A p \in Pids : ~Unkilled(p)
    BY <1>2 DEF StartReminder, Supervised
  <2>2. q \notin terminated
    BY <1>2 DEF StartReminder, Inv, StrangersUntouched, Overlays
  <2>3. \A p \in Pids : Unkilled(p)' <=> p = q
    BY <1>2, <2>1, <2>2 DEF StartReminder, Unkilled, Overlays, Inv, TypeOK
  <2>4. Supervised'
    BY <1>2, <2>3 DEF StartReminder, Return, Supervised
  <2>5. Policy!Remind
    BY <1>2, <2>3 DEF StartReminder, Return, Policy!Remind
  <2> QED BY <2>4, <2>5 DEF Policy!PolicyNext
<1>3. CASE PollReaps \/ PollReturns
  <2>1. \A p \in Pids : ~Unkilled(p)'
    BY <1>3, NoneLeft, SameOverlays
    DEF PollReaps, PollReturns, Reap, Supervised, processVars
  <2>2. Supervised' /\ Policy!EndReminder
    BY <1>3, <2>1 DEF PollReaps, PollReturns, Return, Supervised,
                      Policy!EndReminder
  <2> QED BY <2>2 DEF Policy!PolicyNext
<1>4. CASE PollRequests \/ StopRequests
  <2>1. \A p \in Pids : Unkilled(p)' <=> Unkilled(p)
    BY <1>4, SameOverlays DEF PollRequests, StopRequests
  <2>2. UNCHANGED <<process, mode>> /\ at \in {"loop", "final"}
    BY <1>4 DEF PollRequests, StopRequests, callVars, structVars
  <2>3. Supervised'
    BY <1>4, <2>1, <2>2 DEF PollRequests, StopRequests, Supervised, callVars
  <2> QED BY <2>1, <2>2, <2>3
<1>5. CASE PollTerminates \/ StopTerminates
  <2>1. \A p \in Pids : ~Unkilled(p)'
    BY <1>5, NoneLeft DEF PollTerminates, StopTerminates
  <2>2. mode = "reminding" /\ UNCHANGED mode
    BY <1>5 DEF PollTerminates, StopTerminates, Supervised
  <2>3. Supervised'
    BY <2>1, <2>2 DEF Supervised
  <2>4. Policy!Vanish \/ UNCHANGED <<mode, \E p \in Pids : Unkilled(p)>>
    BY <2>1, <2>2 DEF Policy!Vanish
  <2> QED BY <2>3, <2>4 DEF Policy!PolicyNext
<1>6. CASE StopReaps \/ StopNeedless
  <2>1. \A p \in Pids : ~Unkilled(p) /\ ~Unkilled(p)'
    BY <1>6, NoneLeft, SameOverlays
    DEF StopReaps, Reap, StopNeedless, Supervised, processVars
  <2>2. mode = "reminding" /\ mode' \in {"off", "counting", "locked", "reminding"}
    BY <1>6 DEF StopReaps, StopNeedless, Resume, Return, Supervised, Inv, TypeOK
  <2>3. at' # "loop" => mode' = "reminding"
    BY <1>6, <2>2 DEF StopReaps, StopNeedless, Resume, Return
  <2>4. Supervised'
    BY <2>1, <2>3 DEF Supervised
  <2>5. Policy!EndReminder \/ UNCHANGED <<mode, \E p \in Pids : Unkilled(p)>>
    BY <2>1, <2>2 DEF Policy!EndReminder
  <2> QED BY <2>4, <2>5 DEF Policy!PolicyNext
<1> QED BY <1>1, <1>2, <1>3, <1>4, <1>5, <1>6 DEF DaemonStep

LEMMA ProcessStepRefines ==
  ASSUME NEW q \in Pids, Inv, Supervised, ProcessStep(q)
  PROVE  Supervised' /\ [Policy!PolicyNext]_(Policy!policyVars)
<1>1. UNCHANGED <<process, at, mode>>
  BY DEF ProcessStep, WindowOpens, Ends, Forgotten, StrangerStarts, Become,
         structVars, callVars
<1>2. \A p \in Pids : Unkilled(p)' => Unkilled(p)
  BY DEF ProcessStep, WindowOpens, Ends, Forgotten, StrangerStarts, Become,
         Unkilled, Overlays, Inv, TypeOK
<1>3. Supervised'
  BY <1>1, <1>2 DEF Supervised
<1>4. Policy!Vanish \/ UNCHANGED <<mode, \E p \in Pids : Unkilled(p)>>
  BY <1>1, <1>2 DEF Policy!Vanish
<1> QED BY <1>3, <1>4 DEF Policy!PolicyNext, Policy!policyVars

LEMMA NextRefines ==
  ASSUME Inv, Supervised, [Next]_vars
  PROVE  Supervised' /\ [Policy!PolicyNext]_(Policy!policyVars)
<1>1. CASE DaemonStep
  BY <1>1, DaemonStepRefines
<1>2. CASE \E p \in Pids : ProcessStep(p)
  BY <1>2, ProcessStepRefines
<1>3. CASE Tick \/ UNCHANGED vars
  <2>1. UNCHANGED <<proc, terminated, process, at, mode>>
    BY <1>3 DEF Tick, vars, processVars, structVars, callVars
  <2>2. Supervised' /\ UNCHANGED <<mode, \E p \in Pids : Unkilled(p)>>
    BY <2>1 DEF Supervised, Unkilled
  <2> QED BY <2>2 DEF Policy!policyVars
<1> QED BY <1>1, <1>2, <1>3 DEF Next

\* Every step of the Windows supervisor is one the policy allows: one overlay at
\* a time, and none left when a reminder is called over (reminder.c:180-231).
THEOREM KeepsPolicy == Spec => Policy!PolicySafety
<1>1. Init => Policy!PolicyInit /\ Supervised
  BY InitSupervised
<1>2. Inv /\ Supervised /\ [Next]_vars
        => Supervised' /\ [Policy!PolicyNext]_(Policy!policyVars)
  BY NextRefines
<1> QED BY <1>1, <1>2, Invariance, PTL DEF Spec, Policy!PolicySafety
=============================================================================
