-------------------------- MODULE DeploymentProofs --------------------------
(* What the control socket gives a deployment, for any number of daemons,    *)
(* sessions and crashes: everything that is proved of it without a contest,  *)
(* up to the first one.                                                      *)
EXTENDS Deployment, ControlSocketProofs

\* Every step of a deployment is a step of ControlSocket, or leaves the control socket
\* alone.
LEMMA StepOnSocket == [DeploymentNext]_deploymentVars => [Next]_vars
<1> SUFFICES ASSUME [DeploymentNext]_deploymentVars
             PROVE  Next \/ UNCHANGED vars
  OBVIOUS
<1> USE DEF socketVars
<1>1. ASSUME NEW d \in Daemons, DaemonStep(d)
      PROVE  Next \/ UNCHANGED vars
  <2>1. CASE Check(d) \/ TryEnvSession(d) \/ TryOtherSessions(d) \/ FirstLockRead(d)
    BY <2>1 DEF Check, TryEnvSession, TryOtherSessions, FirstLockRead
  <2>2. CASE OpenBus(d)
    BY <2>2 DEF OpenBus, Next
  <2>3. CASE OpenControl(d) \/ FinishClose(d)
    BY <2>3 DEF OpenControl, FinishClose, Next
  <2>4. CASE LockReadFails(d)
    BY <2>4 DEF LockReadFails, Leave, Next
  <2> QED BY <1>1, <2>1, <2>2, <2>3, <2>4 DEF DaemonStep
<1>2. ASSUME NEW d \in Daemons, Killed(d)
      PROVE  Next \/ UNCHANGED vars
  BY <1>2 DEF Killed, Next
<1>3. ASSUME NEW d \in Daemons, StartByHand(d)
      PROVE  Next \/ UNCHANGED vars
  BY <1>3 DEF StartByHand, Launch
<1>4. ASSUME NEW d \in Daemons, QuitByHand(d)
      PROVE  Next \/ UNCHANGED vars
  BY <1>4 DEF QuitByHand, Quits, Leave, Next
<1>5. CASE UnitStarts \/ UnitEnds \/ UnitRestarts \/ UnitGivesUp
  BY <1>5 DEF UnitStarts, UnitEnds, UnitRestarts, UnitGivesUp, Launch
<1>6. CASE (\E s \in Sessions : SessionChanges(s)) \/ LogindFails
  BY <1>6 DEF SessionChanges, LogindFails
<1>7. CASE UNCHANGED deploymentVars
  BY <1>7 DEF deploymentVars, systemVars
<1> QED BY <1>1, <1>2, <1>3, <1>4, <1>5, <1>6, <1>7 DEF DeploymentNext, SystemNext

\* The invariant of the control socket holds until two daemons get in each other's way.
SocketInv == /\ contested \in BOOLEAN
             /\ Contest => contested
             /\ contested \/ Inv

LEMMA InitSocketInv == DeploymentInit => SocketInv
<1> SUFFICES ASSUME DeploymentInit
             PROVE  SocketInv
  OBVIOUS
<1>1. contested = FALSE /\ Inv
  BY InitInv DEF DeploymentInit
<1>2. ~Contest
  BY DEF DeploymentInit, Init, Contest, Settled
<1> QED BY <1>1, <1>2 DEF SocketInv

LEMMA NextSocketInv == SocketInv /\ [DeploymentNext]_deploymentVars => SocketInv'
<1> SUFFICES ASSUME SocketInv, [DeploymentNext]_deploymentVars
             PROVE  SocketInv'
  OBVIOUS
<1>1. CASE UNCHANGED deploymentVars
  <2>1. UNCHANGED <<at, sock, path, contested>>
    BY <1>1 DEF deploymentVars, systemVars, socketVars, vars
  <2> QED BY <2>1 DEF SocketInv, Contest, NobodyServes, Inv, TypeOK, Reachable,
                      OnlyWithoutServer, SocketState
<1>2. CASE DeploymentNext
  <2>1. contested' = (contested \/ Contest')
    BY <1>2 DEF DeploymentNext, Remember
  <2>2. contested' \/ Inv'
    BY <2>1, NextInv, StepOnSocket DEF SocketInv
  <2>3. Contest' \in BOOLEAN
    BY DEF Contest
  <2> QED BY <2>1, <2>2, <2>3 DEF SocketInv
<1> QED BY <1>1, <1>2

\* Whatever systemd, start.sh, crashes and logouts do, the inductive invariant of the
\* control socket holds until daemons contend for the path with nobody serving
\* (cat-gatekeeper.service:6-11, main.c:163-219, control.c:522-610).
THEOREM DeploymentInvariance == DeploymentSpec => [](contested \/ Inv)
<1>1. SocketInv => (contested \/ Inv)
  BY DEF SocketInv
<1> QED BY <1>1, InitSocketInv, NextSocketInv, PTL DEF DeploymentSpec

\* Until then whoever serves can be reached, however often daemons crash, are
\* restarted, or are started beside the one that serves (control.c:522-610, 747-757).
THEOREM DeploymentReachable == DeploymentSpec => []ReachableUnlessContested
<1>1. (contested \/ Inv) => ReachableUnlessContested
  BY DEF Inv, ReachableUnlessContested
<1> QED BY <1>1, DeploymentInvariance, PTL

\* And nobody is refused at its control socket but for the sake of a daemon that
\* serves: a restart never fails because of what a crash has left (control.c:522-606;
\* cat-gatekeeper.service:9-11).
THEOREM DeploymentRefusals == DeploymentSpec => RefusedByServer
<1>1. (contested \/ Inv) /\ [DeploymentNext]_deploymentVars =>
          [~contested => \A d \in Daemons : at[d] # "refused" /\ at'[d] = "refused" =>
               \E e \in Daemons \ {d} : at[e] = "serving"]_deploymentVars
  BY StepOnSocket, RefusalStep
<1> QED BY <1>1, DeploymentInvariance, PTL DEF DeploymentSpec, RefusedByServer

-----------------------------------------------------------------------------
(* The start-up and the unit.                                                *)

\* The history variable restricts no step.
LEMMA StepOfSystem == [DeploymentNext]_deploymentVars => [SystemNext]_systemVars
  BY DEF DeploymentNext, deploymentVars

LEMMA InitTypes == DeploymentInit => SystemTypeOK
  BY KillsAssumption, SessionsAssumption
  DEF DeploymentInit, SystemTypeOK, Phases

LEMMA ReturnTypes ==
  ASSUME SystemTypeOK, NEW d \in Daemons,
         NEW code \in {0, 64, 66, 69, 70, BySignal}, Return(d, code)
  PROVE  /\ phase' \in [Daemons -> Phases]
         /\ session_id' \in [Daemons -> Sessions \union {NoSession}]
         /\ result' \in {0, 64, 66, 69, 70, BySignal}
  BY DEF Return, SetResult, Enter, SystemTypeOK, Phases

LEMMA LeaveTypes ==
  ASSUME SystemTypeOK, NEW d \in Daemons,
         NEW code \in {0, 64, 66, 69, 70, BySignal}, Leave(d, code)
  PROVE  /\ phase' \in [Daemons -> Phases]
         /\ session_id' \in [Daemons -> Sessions \union {NoSession}]
         /\ result' \in {0, 64, 66, 69, 70, BySignal}
  BY DEF Leave, SetResult, Enter, SystemTypeOK, Phases

LEMMA NextTypes == SystemTypeOK /\ [SystemNext]_systemVars
                     => SystemTypeOK'
<1> SUFFICES ASSUME SystemTypeOK, [SystemNext]_systemVars
             PROVE  SystemTypeOK'
  OBVIOUS
<1>1. ASSUME NEW d \in Daemons, DaemonStep(d)
      PROVE  SystemTypeOK'
  <2> SUFFICES /\ phase' \in [Daemons -> Phases]
               /\ session_id' \in [Daemons -> Sessions \union {NoSession}]
               /\ result' \in {0, 64, 66, 69, 70, BySignal}
    BY <1>1 DEF DaemonStep, worldVars, SystemTypeOK
  <2>1. CASE Check(d)
    BY <2>1, ReturnTypes DEF Check, Enter, SystemTypeOK, Phases
  <2>2. CASE TryEnvSession(d)
    <3>1. CASE Matches(env_session, FALSE)
      BY <2>2, <3>1 DEF TryEnvSession, Enter, SystemTypeOK, Phases
    <3>2. CASE ~Matches(env_session, FALSE)
      BY <2>2, <3>2 DEF TryEnvSession, Enter, SystemTypeOK, Phases
    <3> QED BY <3>1, <3>2
  <2>3. CASE TryOtherSessions(d)
    <3>1. CASE Return(d, 69)
      BY <3>1, ReturnTypes
    <3>2. CASE ~Return(d, 69)
      <4>1. PICK s \in Sessions :
                /\ Enter(d, "bus")
                /\ session_id' = [session_id EXCEPT ![d] = s]
                /\ UNCHANGED result
        BY <2>3, <3>2 DEF TryOtherSessions
      <4> QED BY <4>1 DEF Enter, SystemTypeOK, Phases
    <3> QED BY <3>1, <3>2
  <2>4. CASE OpenBus(d)
    <3>1. CASE Return(d, 69)
      BY <3>1, ReturnTypes
    <3>2. CASE ~Return(d, 69)
      BY <2>4, <3>2 DEF OpenBus, Enter, SystemTypeOK, Phases
    <3> QED BY <3>1, <3>2
  <2>5. CASE OpenControl(d)
    <3>1. CASE Return(d, 70)
      BY <3>1, ReturnTypes
    <3>2. CASE ~Return(d, 70)
      BY <2>5, <3>2 DEF OpenControl, Enter, mainVars, SystemTypeOK, Phases
    <3> QED BY <3>1, <3>2
  <2>6. CASE FirstLockRead(d)
    BY <2>6 DEF FirstLockRead, Enter, SystemTypeOK, Phases
  <2>7. CASE LockReadFails(d)
    BY <2>7, LeaveTypes DEF LockReadFails
  <2>8. CASE FinishClose(d)
    <3>1. CASE Return(d, result)
      BY <3>1, ReturnTypes DEF SystemTypeOK
    <3>2. CASE ~Return(d, result)
      BY <2>8, <3>2 DEF FinishClose, mainVars, SystemTypeOK
    <3> QED BY <3>1, <3>2
  <2> QED BY <1>1, <2>1, <2>2, <2>3, <2>4, <2>5, <2>6, <2>7, <2>8 DEF DaemonStep
<1>2. ASSUME NEW d \in Daemons, Killed(d)
      PROVE  SystemTypeOK'
  <2>1. kills' \in 0..MaxKills
    BY <1>2, KillsAssumption DEF Killed, SystemTypeOK
  <2> QED BY <1>2, <2>1, ReturnTypes DEF Killed, worldVars, SystemTypeOK
<1>3. ASSUME NEW d \in Daemons, StartByHand(d)
      PROVE  SystemTypeOK'
  BY <1>3 DEF StartByHand, Launch, Enter, worldVars, SystemTypeOK, Phases
<1>4. ASSUME NEW d \in Daemons, QuitByHand(d)
      PROVE  SystemTypeOK'
  BY <1>4, LeaveTypes DEF QuitByHand, Quits, worldVars, SystemTypeOK
<1>5. CASE UnitStarts \/ UnitRestarts
  BY <1>5, ServiceAssumption
  DEF UnitStarts, UnitRestarts, Launch, Enter, worldVars, SystemTypeOK, Phases
<1>6. CASE UnitEnds
  BY <1>6 DEF UnitEnds, worldVars, SystemTypeOK
<1>7. CASE UnitGivesUp
  BY <1>7 DEF UnitGivesUp, worldVars, mainVars, SystemTypeOK
<1>8. CASE \E s \in Sessions : SessionChanges(s)
  BY <1>8 DEF SessionChanges, mainVars, SystemTypeOK
<1>9. CASE LogindFails
  BY <1>9 DEF LogindFails, mainVars, SystemTypeOK
<1>10. CASE UNCHANGED systemVars
  BY <1>10 DEF systemVars, worldVars, mainVars, SystemTypeOK
<1> QED BY <1>1, <1>2, <1>3, <1>4, <1>5, <1>6, <1>7, <1>8, <1>9, <1>10
        DEF SystemNext

\* The start-up, the unit and logind stay within their types; in particular the
\* unit knows what to do with every way the daemon ends (cat-gatekeeper.service:9-11).
THEOREM DeploymentTypes == DeploymentSpec => []DeploymentTypeOK
<1>1. SystemTypeOK /\ SocketInv => DeploymentTypeOK
  BY DEF SocketInv, DeploymentTypeOK
<1> QED BY <1>1, InitTypes, NextTypes, StepOfSystem, InitSocketInv, NextSocketInv, PTL
        DEF DeploymentSpec

-----------------------------------------------------------------------------
(* Where a daemon is in cgk_daemon_main, and what it has got hold of by then. *)

\* The control socket is opened after the bus, and closed before the return.
SocketHeld ==
    \A d \in Daemons :
        /\ phase[d] \in {"off", "checks", "env", "list", "bus"} =>
               at[d] \in {"down", "refused"}
        /\ phase[d] = "open" => at[d] \notin {"down", "leave"}
        /\ phase[d] \in {"lock", "run"} => at[d] = "serving"
        /\ phase[d] = "close" => at[d] \in {"leave", "down"}

\* From the bus on the daemon has a session of the user, before it has none.
SessionHeld ==
    \A d \in Daemons :
        session_id[d] \in
            (IF phase[d] \in {"off", "checks", "env", "list"} THEN {NoSession} ELSE Mine)

\* The unit looks after a daemon that runs, and has forgotten how the last one ended
\* when it does not.
UnitHeld == unit # "running" => phase[Service] = "off" /\ result = 0

Held == SystemTypeOK /\ at \in [Daemons -> Places] /\
        SocketHeld /\ SessionHeld /\ UnitHeld

LEMMA InitHeld == DeploymentInit => Held
<1> SUFFICES ASSUME DeploymentInit PROVE Held
  OBVIOUS
<1>1. SystemTypeOK
  BY InitTypes
<1>2. at \in [Daemons -> Places] /\ SocketHeld /\ SessionHeld /\ UnitHeld
  BY ServiceAssumption
  DEF DeploymentInit, Init, Places, SocketHeld, SessionHeld, UnitHeld
<1> QED BY <1>1, <1>2 DEF Held

\* A step of one daemon's own: it keeps what holds of it, and nobody else's.
LEMMA OwnStepHeld ==
    ASSUME Held, SystemTypeOK', NEW d \in Daemons,
           NEW p \in Phases, phase' = [phase EXCEPT ![d] = p],
           NEW place \in Places, at' = [at EXCEPT ![d] = place],
           NEW s, session_id' = [session_id EXCEPT ![d] = s],
           p \in {"off", "checks", "env", "list", "bus"} => place \in {"down", "refused"},
           p = "open" => place \notin {"down", "leave"},
           p \in {"lock", "run"} => place = "serving",
           p = "close" => place \in {"leave", "down"},
           s \in (IF p \in {"off", "checks", "env", "list"} THEN {NoSession} ELSE Mine),
           unit' # "running" => unit # "running" /\ d # Service,
           d # Service => result' = result
    PROVE  Held'
<1>1. /\ phase \in [Daemons -> Phases] /\ at \in [Daemons -> Places]
      /\ session_id \in [Daemons -> Sessions \union {NoSession}]
  BY DEF Held, SystemTypeOK
<1>2. /\ phase'[d] = p /\ at'[d] = place /\ session_id'[d] = s
      /\ \A e \in Daemons : e # d =>
             phase'[e] = phase[e] /\ at'[e] = at[e] /\ session_id'[e] = session_id[e]
  BY <1>1
<1>3. at' \in [Daemons -> Places]
  BY <1>1
<1>4. SocketHeld'
  BY <1>2 DEF Held, SocketHeld
<1>5. SessionHeld'
  BY <1>2 DEF Held, SessionHeld
<1>6. UnitHeld'
  BY <1>2, ServiceAssumption DEF Held, UnitHeld
<1> QED BY <1>3, <1>4, <1>5, <1>6 DEF Held

\* Somebody who opens or closes its socket moves itself.
LEMMA OpeningMoves ==
    ASSUME at \in [Daemons -> Places], NEW d \in Daemons, Opening(d)
    PROVE  \E place \in Places :
               /\ at' = [at EXCEPT ![d] = place]
               /\ at[d] \in {"down", "serving", "refused"} => FALSE
               /\ at[d] = "leave" => place = "down"
               /\ at[d] # "leave" => place \notin {"down", "leave"}
BY DEF Opening, Inspect, Refused, FindStale, RemoveStale, RemoveStaleFails, Bind,
       BindFails, Listen, Unlink, Move, Places

\* A daemon that runs: every step of cgk_daemon_main.
LEMMA DaemonHeld ==
    ASSUME Held, NEW d \in Daemons, DaemonStep(d)
    PROVE  Held'
<1>1. SystemTypeOK'
  BY NextTypes DEF Held, SystemNext
<1>2. /\ phase[d] \in Phases /\ at[d] \in Places /\ at = [at EXCEPT ![d] = at[d]]
      /\ phase = [phase EXCEPT ![d] = phase[d]]
      /\ session_id = [session_id EXCEPT ![d] = session_id[d]]
      /\ at \in [Daemons -> Places]
  BY DEF Held, SystemTypeOK
<1>3. /\ phase[d] # "off" => (d = Service => unit = "running")
      /\ unit' = unit
  BY DEF DaemonStep, Held, UnitHeld
<1>4. phase[d] # "off"
  BY DEF DaemonStep, Check, TryEnvSession, TryOtherSessions, OpenBus, OpenControl,
         FirstLockRead, LockReadFails, FinishClose
<1>5. unit' # "running" => unit # "running" /\ d # Service
  BY <1>3, <1>4
<1>6. ASSUME NEW code, Return(d, code), UNCHANGED socketVars,
             at[d] \in {"down", "refused"}
      PROVE  Held'
  <2>1. /\ phase' = [phase EXCEPT ![d] = "off"]
        /\ session_id' = [session_id EXCEPT ![d] = NoSession]
        /\ d # Service => result' = result
        /\ at' = [at EXCEPT ![d] = at[d]]
    BY <1>2, <1>6 DEF Return, Enter, SetResult, socketVars, vars
  <2>2. "off" \in Phases
    BY DEF Phases
  <2> QED BY <1>1, <1>2, <1>5, <1>6, <2>1, <2>2, OwnStepHeld
<1>7. ASSUME NEW p \in Phases, Enter(d, p), UNCHANGED <<result, socketVars>>,
             NEW s, session_id' = [session_id EXCEPT ![d] = s],
             s \in (IF p \in {"env", "list"} THEN {NoSession} ELSE Mine),
             \/ p \in {"env", "list", "bus"} /\ at[d] \in {"down", "refused"}
             \/ p \in {"lock", "run"} /\ at[d] = "serving"
      PROVE  Held'
  <2>1. /\ phase' = [phase EXCEPT ![d] = p]
        /\ at' = [at EXCEPT ![d] = at[d]]
        /\ result' = result
    BY <1>2, <1>7 DEF Enter, socketVars, vars
  <2> QED BY <1>1, <1>2, <1>5, <1>7, <2>1, OwnStepHeld
<1>8. CASE Check(d)
  <2>1. phase[d] = "checks" /\ at[d] \in {"down", "refused"} /\ session_id[d] = NoSession
    BY <1>8 DEF Check, Held, SocketHeld, SessionHeld
  <2>2. CASE setup = 0
    <3>1. /\ Enter(d, "env") /\ UNCHANGED <<result, socketVars>> /\ "env" \in Phases
          /\ session_id' = [session_id EXCEPT ![d] = NoSession]
      BY <1>2, <1>8, <2>1, <2>2 DEF Check, Phases
    <3> QED BY <1>7, <2>1, <3>1
  <2>3. CASE setup # 0
    BY <1>6, <1>8, <2>1, <2>3 DEF Check
  <2> QED BY <2>2, <2>3
<1>9. CASE TryEnvSession(d)
  <2>1. phase[d] = "env" /\ at[d] \in {"down", "refused"} /\ session_id[d] = NoSession
    BY <1>9 DEF TryEnvSession, Held, SocketHeld, SessionHeld
  <2>2. CASE Matches(env_session, FALSE)
    <3>1. /\ Enter(d, "bus") /\ UNCHANGED <<result, socketVars>> /\ "bus" \in Phases
          /\ session_id' = [session_id EXCEPT ![d] = env_session]
          /\ env_session \in Mine
      BY <1>9, <2>2 DEF TryEnvSession, Phases, Matches
    <3> QED BY <1>7, <2>1, <3>1
  <2>3. CASE ~Matches(env_session, FALSE)
    <3>1. /\ Enter(d, "list") /\ UNCHANGED <<result, socketVars>> /\ "list" \in Phases
          /\ session_id' = [session_id EXCEPT ![d] = NoSession]
      BY <1>2, <1>9, <2>1, <2>3 DEF TryEnvSession, Phases
    <3> QED BY <1>7, <2>1, <3>1
  <2> QED BY <2>2, <2>3
<1>10. CASE TryOtherSessions(d)
  <2>1. at[d] \in {"down", "refused"} /\ UNCHANGED socketVars
    BY <1>10 DEF TryOtherSessions, Held, SocketHeld
  <2>2. CASE Return(d, 69)
    BY <1>6, <2>1, <2>2
  <2>3. CASE ~Return(d, 69)
    <3>1. PICK s \in Sessions :
              /\ Matches(s, TRUE) /\ Enter(d, "bus") /\ UNCHANGED result
              /\ session_id' = [session_id EXCEPT ![d] = s]
      BY <1>10, <2>3 DEF TryOtherSessions
    <3>2. s \in Mine /\ "bus" \in Phases
      BY <3>1 DEF Matches, Mine, Phases
    <3> QED BY <1>7, <2>1, <3>1, <3>2
  <2> QED BY <2>2, <2>3
<1>11. CASE OpenBus(d)
  <2>1. phase[d] = "bus" /\ at[d] \in {"down", "refused"} /\ session_id[d] \in Mine
    BY <1>11 DEF OpenBus, Held, SocketHeld, SessionHeld
  <2>2. CASE Exists(session_id[d])
    <3>1. /\ phase' = [phase EXCEPT ![d] = "open"]
          /\ at' = [at EXCEPT ![d] = "inspect"]
          /\ session_id' = [session_id EXCEPT ![d] = session_id[d]]
          /\ result' = result
          /\ "open" \in Phases /\ "inspect" \in Places
      BY <1>2, <1>11, <2>2 DEF OpenBus, StartUp, Move, Enter, Phases, Places
    <3> QED BY <1>1, <1>5, <2>1, <3>1, OwnStepHeld
  <2>3. CASE ~Exists(session_id[d])
    BY <1>6, <1>11, <2>1, <2>3 DEF OpenBus
  <2> QED BY <2>2, <2>3
<1>12. CASE OpenControl(d)
  <2>1. phase[d] = "open" /\ at[d] \notin {"down", "leave"} /\ session_id[d] \in Mine
    BY <1>12 DEF OpenControl, Held, SocketHeld, SessionHeld
  <2>2. CASE Opening(d) /\ UNCHANGED mainVars
    <3>1. PICK place \in Places :
              at' = [at EXCEPT ![d] = place] /\ place \notin {"down", "leave"}
      BY <1>2, <2>1, <2>2, OpeningMoves
    <3>2. /\ phase' = [phase EXCEPT ![d] = "open"]
          /\ session_id' = [session_id EXCEPT ![d] = session_id[d]]
          /\ result' = result /\ "open" \in Phases
      BY <1>2, <2>1, <2>2 DEF mainVars, Phases
    <3> QED BY <1>1, <1>5, <2>1, <3>1, <3>2, OwnStepHeld
  <2>3. CASE at[d] = "serving" /\ Enter(d, "lock") /\
             UNCHANGED <<session_id, result, socketVars>>
    <3>1. session_id' = [session_id EXCEPT ![d] = session_id[d]] /\ "lock" \in Phases
      BY <1>2, <2>3 DEF Phases
    <3> QED BY <1>7, <2>1, <2>3, <3>1
  <2>4. CASE at[d] = "refused" /\ Return(d, 70) /\ UNCHANGED socketVars
    BY <1>6, <2>4
  <2> QED BY <1>12, <2>2, <2>3, <2>4 DEF OpenControl
<1>13. CASE FirstLockRead(d)
  <2>1. /\ at[d] = "serving" /\ session_id[d] \in Mine
        /\ Enter(d, "run") /\ UNCHANGED <<result, socketVars>> /\ "run" \in Phases
        /\ session_id' = [session_id EXCEPT ![d] = session_id[d]]
    BY <1>2, <1>13 DEF FirstLockRead, Held, SocketHeld, SessionHeld, Phases
  <2> QED BY <1>7, <2>1
<1>14. CASE LockReadFails(d)
  <2>1. /\ phase' = [phase EXCEPT ![d] = "close"]
        /\ at' = [at EXCEPT ![d] = "leave"]
        /\ session_id' = [session_id EXCEPT ![d] = session_id[d]]
        /\ d # Service => result' = result
        /\ session_id[d] \in Mine /\ "close" \in Phases /\ "leave" \in Places
    BY <1>2, <1>14 DEF LockReadFails, Leave, Close, Move, Enter, SetResult, Held,
                       SessionHeld, Phases, Places
  <2> QED BY <1>1, <1>5, <2>1, OwnStepHeld
<1>15. CASE FinishClose(d)
  <2>1. phase[d] = "close" /\ at[d] \in {"leave", "down"} /\ session_id[d] \in Mine
    BY <1>15 DEF FinishClose, Held, SocketHeld, SessionHeld
  <2>2. CASE Opening(d) /\ UNCHANGED mainVars
    <3>1. PICK place \in Places : at' = [at EXCEPT ![d] = place] /\ place = "down"
      BY <1>2, <2>1, <2>2, OpeningMoves
    <3>2. /\ phase' = [phase EXCEPT ![d] = "close"]
          /\ session_id' = [session_id EXCEPT ![d] = session_id[d]]
          /\ result' = result /\ "close" \in Phases
      BY <1>2, <2>1, <2>2 DEF mainVars, Phases
    <3> QED BY <1>1, <1>5, <2>1, <3>1, <3>2, OwnStepHeld
  <2>3. CASE at[d] = "down" /\ Return(d, result) /\ UNCHANGED socketVars
    <3>1. PICK code : code = result
      OBVIOUS
    <3> QED BY <1>6, <2>3, <3>1
  <2> QED BY <1>15, <2>2, <2>3 DEF FinishClose
<1> QED BY <1>8, <1>9, <1>10, <1>11, <1>12, <1>13, <1>14, <1>15 DEF DaemonStep

LEMMA NextHeld == Held /\ [SystemNext]_systemVars => Held'
<1> SUFFICES ASSUME Held, [SystemNext]_systemVars
             PROVE  Held'
  OBVIOUS
<1>1. SystemTypeOK'
  BY NextTypes DEF Held
<1>2. \A d \in Daemons :
          /\ phase[d] \in Phases /\ at[d] \in Places /\ at = [at EXCEPT ![d] = at[d]]
          /\ session_id = [session_id EXCEPT ![d] = session_id[d]]
  BY DEF Held, SystemTypeOK
<1>3. ASSUME NEW d \in Daemons, DaemonStep(d)
      PROVE  Held'
  BY <1>3, DaemonHeld
<1>4. ASSUME NEW d \in Daemons, Killed(d)
      PROVE  Held'
  <2>1. PICK place \in {"down", "refused"} : at' = [at EXCEPT ![d] = place]
    <3>1. CASE at[d] \in {"down", "refused"}
      BY <1>2, <1>4, <3>1 DEF Killed, socketVars, vars
    <3>2. CASE at[d] \notin {"down", "refused"}
      BY <1>4, <3>2 DEF Killed, Crash, Move
    <3> QED BY <3>1, <3>2
  <2>2. /\ phase' = [phase EXCEPT ![d] = "off"]
        /\ session_id' = [session_id EXCEPT ![d] = NoSession]
        /\ d # Service => result' = result
        /\ place \in Places /\ "off" \in Phases
    BY <1>4 DEF Killed, Return, Enter, SetResult, Places, Phases
  <2>3. unit' # "running" => unit # "running" /\ d # Service
    BY <1>4 DEF Killed, Held, UnitHeld
  <2> QED BY <1>1, <2>1, <2>2, <2>3, OwnStepHeld
<1>5. ASSUME NEW d \in Daemons, Launch(d),
             unit' # "running" => unit # "running" /\ d # Service
      PROVE  Held'
  <2>1. /\ phase[d] = "off"
        /\ phase' = [phase EXCEPT ![d] = "checks"]
        /\ at' = [at EXCEPT ![d] = at[d]]
        /\ session_id' = [session_id EXCEPT ![d] = session_id[d]]
        /\ result' = result /\ "checks" \in Phases
    BY <1>2, <1>5 DEF Launch, Enter, socketVars, vars, Phases
  <2>2. at[d] \in {"down", "refused"} /\ session_id[d] = NoSession
    BY <2>1 DEF Held, SocketHeld, SessionHeld
  <2> QED BY <1>1, <1>2, <1>5, <2>1, <2>2, OwnStepHeld
<1>6. ASSUME NEW d \in Daemons, StartByHand(d)
      PROVE  Held'
  BY <1>5, <1>6 DEF StartByHand
<1>7. CASE UnitStarts \/ UnitRestarts
  BY <1>5, <1>7, ServiceAssumption DEF UnitStarts, UnitRestarts
<1>8. ASSUME NEW d \in Daemons, QuitByHand(d)
      PROVE  Held'
  <2>1. /\ phase' = [phase EXCEPT ![d] = "close"]
        /\ at' = [at EXCEPT ![d] = "leave"]
        /\ session_id' = [session_id EXCEPT ![d] = session_id[d]]
        /\ d # Service => result' = result
        /\ session_id[d] \in Mine /\ "close" \in Phases /\ "leave" \in Places
    BY <1>2, <1>8 DEF QuitByHand, Quits, Leave, Close, Move, Enter, SetResult, Held,
                      SessionHeld, Phases, Places
  <2>2. unit' # "running" => unit # "running" /\ d # Service
    BY <1>8 DEF QuitByHand, Quits, Held, UnitHeld
  <2> QED BY <1>1, <2>1, <2>2, OwnStepHeld
<1>9. CASE UnitEnds \/ UnitGivesUp
  <2>1. /\ UNCHANGED <<phase, at, session_id>>
        /\ phase[Service] = "off" /\ result' = 0
    BY <1>9 DEF UnitEnds, UnitGivesUp, mainVars, socketVars, vars, Held, UnitHeld
  <2> QED BY <1>1, <2>1 DEF Held, SocketHeld, SessionHeld, UnitHeld
<1>10. CASE (\E s \in Sessions : SessionChanges(s)) \/ LogindFails \/
            UNCHANGED systemVars
  <2>1. UNCHANGED <<phase, at, session_id, result, unit>>
    BY <1>10 DEF SessionChanges, LogindFails, systemVars, mainVars, socketVars, vars
  <2> QED BY <1>1, <2>1 DEF Held, SocketHeld, SessionHeld, UnitHeld
<1> QED BY <1>3, <1>4, <1>6, <1>7, <1>8, <1>9, <1>10 DEF SystemNext

\* The loop of the daemon runs between the opening and the closing of the control
\* socket, for a session of the user, and the unit never looks after two daemons
\* (main.c:163-219, 305-322; logind.c:98-195; cat-gatekeeper.service:9-11).
THEOREM DeploymentHeld == DeploymentSpec => []Held
  BY InitHeld, NextHeld, StepOfSystem, PTL DEF DeploymentSpec

\* So two daemons watch the session and show overlays at once only after such a
\* contest: the control socket is the lock of the loop, over crashes, restarts and
\* starts by hand (main.c:202-219, control.c:538-543).
THEOREM DeploymentLoop == DeploymentSpec => []LoopIsExclusive
<1>1. Held /\ (contested \/ Inv) => LoopIsExclusive
  BY DEF Held, SocketHeld, Inv, Reachable, LoopIsExclusive
<1> QED BY <1>1, DeploymentHeld, DeploymentInvariance, PTL
=============================================================================
