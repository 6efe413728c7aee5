----------------------------- MODULE Deployment -----------------------------
(* Daemons over logins and crashes: the start-up of src/src/main.c and its   *)
(* exits, the choice of the logind session (src/src/logind.c), the systemd   *)
(* unit that restarts its daemon (src/systemd/cat-gatekeeper.service) and    *)
(* the daemons that start.sh starts beside it (src/tools/package-portable.sh)*)
(* on the control socket of ControlSocket, system call by system call.       *)
(*                                                                           *)
(* Nobody keeps daemons from starting and ending at the same time: contested *)
(* remembers whether they ever were in each other's way on the socket's path.*)
(* Left out: what a running daemon does, the registration of the command by  *)
(* start.sh, ids and paths that are too long.                                *)
EXTENDS ControlSocket, Naturals

CONSTANTS Service,    \* the daemon of the unit; the others are started by hand
          Sessions,   \* logind's sessions
          Seat0,      \* those that are the user's, Wayland, and on seat0
          Remote,     \* the user's other Wayland sessions
          NoSession,  \* an empty session_id, or no XDG_SESSION_ID
          MaxKills    \* bound on the crashes

ASSUME ServiceAssumption == Service \in Daemons
ASSUME KillsAssumption == MaxKills \in Nat
ASSUME SessionsAssumption ==
    Seat0 \union Remote \subseteq Sessions /\ NoSession \notin Sessions

VARIABLES setup,        \* 0, or the exit code of a check before logind's
          sessions,     \* whether it is active
          logind_up,    \* the system bus and logind answer
          env_session,  \* XDG_SESSION_ID of the daemons
          phase,        \* where each daemon is in cgk_daemon_main
          session_id,   \* logind->session_id
          result,       \* how the daemon of the unit ends or has ended
          unit,         \* the state of the unit
          kills,        \* crashes so far
          contested     \* history: there has been a Contest; no step depends on it

socketVars == vars
worldVars == <<setup, sessions, logind_up, env_session>>
mainVars == <<phase, session_id, result>>
systemVars == <<socketVars, worldVars, mainVars, unit, kills>>
deploymentVars == <<systemVars, contested>>

Mine == Seat0 \union Remote
Phases == {"off", "checks", "env", "list", "bus", "open", "lock", "run", "close"}

DeploymentInit ==
    /\ Init
    /\ setup \in {0, 64, 66, 69}
    /\ sessions = [s \in Sessions |-> "active"]
    /\ logind_up = TRUE
    /\ env_session \in Sessions \union {NoSession}
    /\ phase = [d \in Daemons |-> "off"]
    /\ session_id = [d \in Daemons |-> NoSession]
    /\ result = 0
    /\ unit = "inactive"
    /\ kills = 0
    /\ contested = FALSE

BySignal == 128  \* how a daemon that was killed ends, beside the exit codes

Enter(d, p) == phase' = [phase EXCEPT ![d] = p]

\* The result is code; nobody looks at the one of a daemon started by hand.
SetResult(d, code) == result' = IF d = Service THEN code ELSE result

\* cgk_daemon_main returns code; cgk_logind_close has cleared the session.
Return(d, code) ==
    /\ Enter(d, "off")
    /\ session_id' = [session_id EXCEPT ![d] = NoSession]
    /\ SetResult(d, code)

Exists(s) == s \in Sessions /\ logind_up /\ sessions[s] # "gone"

\* session_matches
Matches(s, require_seat0) ==
    /\ Exists(s) /\ sessions[s] = "active"
    /\ s \in (IF require_seat0 THEN Seat0 ELSE Mine)

-----------------------------------------------------------------------------
(* cgk_daemon_main of daemon d                                               *)

\* The environment, the configuration and the overlay are looked at.
Check(d) ==
    /\ phase[d] = "checks"
    /\ IF setup = 0 THEN Enter(d, "env") /\ UNCHANGED <<session_id, result>>
                    ELSE Return(d, setup)
    /\ UNCHANGED socketVars

\* find_session_id: XDG_SESSION_ID comes first, wherever that session is.
TryEnvSession(d) ==
    /\ phase[d] = "env"
    /\ IF Matches(env_session, FALSE)
       THEN /\ Enter(d, "bus")
            /\ session_id' = [session_id EXCEPT ![d] = env_session]
       ELSE Enter(d, "list") /\ UNCHANGED session_id
    /\ UNCHANGED <<result, socketVars>>

\* Then any of the user's sessions on seat0, if there is one.
TryOtherSessions(d) ==
    /\ phase[d] = "list"
    /\ \/ \E s \in Sessions :
              /\ Matches(s, TRUE)
              /\ Enter(d, "bus")
              /\ session_id' = [session_id EXCEPT ![d] = s]
              /\ UNCHANGED result
       \/ /\ \A s \in Sessions : ~Matches(s, TRUE)
          /\ Return(d, 69)
    /\ UNCHANGED socketVars

\* sd_bus_open_system and GetSession: the session may be gone again.
\* cgk_control_server_open is next.
OpenBus(d) ==
    /\ phase[d] = "bus"
    /\ IF Exists(session_id[d])
       THEN /\ StartUp(d)
            /\ Enter(d, "open")
            /\ UNCHANGED <<session_id, result>>
       ELSE Return(d, 69) /\ UNCHANGED socketVars

\* cgk_control_server_open goes on, or has returned.
OpenControl(d) ==
    /\ phase[d] = "open"
    /\ \/ Opening(d) /\ UNCHANGED mainVars
       \/ /\ at[d] = "serving" /\ Enter(d, "lock")
          /\ UNCHANGED <<session_id, result, socketVars>>
       \/ at[d] = "refused" /\ Return(d, 70) /\ UNCHANGED socketVars

\* The first cgk_logind_locked.
FirstLockRead(d) ==
    /\ phase[d] = "lock" /\ Exists(session_id[d])
    /\ Enter(d, "run")
    /\ UNCHANGED <<session_id, result, socketVars>>

\* The daemon leaves by way of cgk_control_server_close, to return code.
Leave(d, code) ==
    /\ Close(d)
    /\ Enter(d, "close")
    /\ SetResult(d, code)
    /\ UNCHANGED session_id

\* Mutant: only the first read of the lock ends the daemon when it fails.
FirstLockReadFails(d) ==
    /\ phase[d] = "lock" /\ ~Exists(session_id[d])
    /\ Leave(d, 69)

\* LockedHint cannot be read, at the start or in the loop.
LockReadFails(d) ==
    /\ phase[d] \in {"lock", "run"} /\ ~Exists(session_id[d])
    /\ Leave(d, 69)

\* quit, SIGINT or SIGTERM.
Quits(d) == phase[d] = "run" /\ Leave(d, 0)

\* The rest of cgk_control_server_close, and the return.
FinishClose(d) ==
    /\ phase[d] = "close"
    /\ \/ Opening(d) /\ UNCHANGED mainVars
       \/ at[d] = "down" /\ Return(d, result) /\ UNCHANGED socketVars

DaemonStep(d) ==
    /\ \/ Check(d) \/ TryEnvSession(d) \/ TryOtherSessions(d) \/ OpenBus(d)
       \/ OpenControl(d) \/ FirstLockRead(d) \/ LockReadFails(d)
       \/ FinishClose(d)
    /\ UNCHANGED <<worldVars, unit, kills>>

\* Wherever it is, nothing is closed in order.
Killed(d) ==
    /\ phase[d] # "off" /\ kills < MaxKills
    /\ IF at[d] \in {"down", "refused"} THEN UNCHANGED socketVars ELSE Crash(d)
    /\ Return(d, BySignal)
    /\ kills' = kills + 1
    /\ UNCHANGED <<worldVars, unit>>

-----------------------------------------------------------------------------
(* Those who start and end daemons                                           *)

Launch(d) ==
    /\ phase[d] = "off"
    /\ Enter(d, "checks")
    /\ UNCHANGED <<socketVars, worldVars, session_id, result, kills>>

\* start.sh --foreground, or start when its ctl status had no answer, be it that
\* the daemon was too slow; with an answer, start does nothing.
StartByHand(d) == d # Service /\ Launch(d) /\ UNCHANGED unit

\* start.sh quit that reaches the daemon, Ctrl-C, or kill.
QuitByHand(d) == Quits(d) /\ UNCHANGED <<worldVars, unit, kills>>

\* graphical-session.target wants the unit, or systemctl --user start.
UnitStarts ==
    /\ unit \in {"inactive", "failed"}
    /\ Launch(Service)
    /\ unit' = "running"

\* Restart=on-failure, RestartPreventExitStatus=64 66 69.
UnitEnds ==
    /\ unit = "running" /\ phase[Service] = "off"
    /\ unit' = CASE result = 0 -> "inactive"
                 [] result \in {64, 66, 69} -> "failed"
                 [] result \in {70, BySignal} -> "waiting"
    /\ result' = 0
    /\ UNCHANGED <<socketVars, worldVars, phase, session_id, kills>>

\* RestartSec=5 are over.
UnitRestarts ==
    /\ unit = "waiting"
    /\ Launch(Service)
    /\ unit' = "running"

\* systemctl --user stop, while it waits to be restarted.
UnitGivesUp ==
    /\ unit = "waiting"
    /\ unit' = "inactive"
    /\ UNCHANGED <<socketVars, worldVars, mainVars, kills>>

-----------------------------------------------------------------------------
(* logind                                                                    *)

SessionChanges(s) ==
    /\ s \in Mine /\ sessions[s] # "gone"
    /\ \E state \in {"active", "inactive", "gone"} \ {sessions[s]} :
           sessions' = [sessions EXCEPT ![s] = state]
    /\ UNCHANGED <<socketVars, setup, logind_up, env_session, mainVars,
                   unit, kills>>

LogindFails ==
    /\ logind_up /\ logind_up' = FALSE
    /\ UNCHANGED <<socketVars, setup, sessions, env_session, mainVars,
                   unit, kills>>

SystemNext ==
    \/ \E d \in Daemons :
           DaemonStep(d) \/ Killed(d) \/ StartByHand(d) \/ QuitByHand(d)
    \/ UnitStarts \/ UnitEnds \/ UnitRestarts \/ UnitGivesUp
    \/ \E s \in Sessions : SessionChanges(s)
    \/ LogindFails

Remember == contested' = (contested \/ Contest')

DeploymentNext == SystemNext /\ Remember

\* Daemons run on and systemd does what it has to; that anybody starts, stops or
\* logs out is not assumed.
DeploymentSpec ==
    /\ DeploymentInit /\ [][DeploymentNext]_deploymentVars
    /\ \A d \in Daemons : WF_systemVars(DaemonStep(d))
    /\ WF_systemVars(UnitEnds) /\ WF_systemVars(UnitRestarts)

-----------------------------------------------------------------------------
(* Properties                                                                *)

SystemTypeOK ==
    /\ setup \in {0, 64, 66, 69}
    /\ sessions \in [Sessions -> {"active", "inactive", "gone"}]
    /\ logind_up \in BOOLEAN
    /\ env_session \in Sessions \union {NoSession}
    /\ phase \in [Daemons -> Phases]
    /\ session_id \in [Daemons -> Sessions \union {NoSession}]
    /\ result \in {0, 64, 66, 69, 70, BySignal}
    /\ unit \in {"inactive", "running", "waiting", "failed"}
    /\ kills \in 0..MaxKills

DeploymentTypeOK == SystemTypeOK /\ contested \in BOOLEAN

\* Crashes, restarts, logouts and starts beside a daemon that serves never put the
\* daemon that serves out of reach: for that, two have to open or close the socket at
\* once while nobody serves (control.c:522-610, 747-757).
ReachableUnlessContested == ~contested => Reachable

\* Nor do they ever bring two daemons into the loop that watches the session and shows
\* overlays: the control socket is its lock (control.c:538-543, main.c:193-219).
LoopIsExclusive ==
    ~contested =>
        \A d, e \in Daemons :
            phase[d] \in {"lock", "run"} /\ phase[e] \in {"lock", "run"} => d = e

\* Nor is a daemon ever turned away, with exit code 70, but by one that serves: a
\* restart does not fail because of what a crash has left (control.c:522-606,
\* cat-gatekeeper.service:9-11).
RefusedByServer ==
    [][~contested => \A d \in Daemons : at[d] # "refused" /\ at'[d] = "refused" =>
           \E e \in Daemons \ {d} : at[e] = "serving"]_deploymentVars

\* As long as the unit is neither stopped nor failed for good, somebody serves,
\* again and again: after crashes, over the socket files they leave, and when the
\* daemon of the unit was refused because of one started by hand that later quits
\* (cat-gatekeeper.service:9-12, control.c:522-610, main.c:163-219).
SomebodyServes ==
    <>[](unit \in {"running", "waiting"})
        => []<>(\E d \in Daemons : phase[d] = "run")

\* When the user's sessions are gone, every daemon ends, one started by hand too,
\* and the unit is not restarted for ever (main.c:187-206, 223-231,
\* logind.c:98-195, cat-gatekeeper.service:10-12).
EndsWithSession ==
    (\A s \in Mine : sessions[s] = "gone")
        ~> /\ unit \in {"inactive", "failed"}
           /\ \A d \in Daemons : session_id[d] = NoSession
=============================================================================
