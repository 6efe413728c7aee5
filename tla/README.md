# Cat Gatekeeper in TLA+

TLA+ specifications of Cat Gatekeeper, a break reminder: a daemon in C counts the
minutes a session is unlocked, shows a full-screen cat (a Qt program of its own)
when they are up, and is controlled over a Unix socket. Every module is written
from the code; line numbers are those of this repository, the paths without a
directory are under `src/` (the C part) or `overlay/` (the C++ part).

    tlc -config Daemon.cfg MCDaemon             model-check a run (see "Runs")
    tlapm DaemonProofs.tla                      check the proofs of a module

## 1. Inventory

### Parts

| part | code | state | operations | modules |
|---|---|---|---|---|
| daemon loop | `main.c` | `state`, `count_started_ms`, `should_stop`, `reminder` | one turn: read the lock, serve one client, look at the timer or the overlay, sleep a second | `Daemon`, `DaemonTimed` |
| reminder supervisor | `reminder.c:235-432` | `pid`, `deadline_ms`, `kill_deadline_ms`, `term_sent`; the child process | start, poll, stop | `Reminder` |
| control socket | `control.c:440-610`, `747-757` | the socket file, the listening descriptor | open (with the removal of a stale file), close | `ControlSocket` |
| control session | `control.c:612-745`, `759-825`, `ctl.c`, the loop of `main.c` | the backlog, the accepted connection; the client's timeout | poll of the daemon, send of the client | `ControlSession` |
| session lock | `logind.c` | the session path | choose the session, open, read LockedHint | `Deployment`; the lock itself in `Daemon` |
| configuration | `config.c` | four numbers | load | `Config` |
| processed assets | `overlay/ProcessedAssets.cpp` | the manifest | load | `Manifest` |
| overlay main, window | `overlay/main.cpp`, `overlay/OverlayWindow.cpp` | the arguments, the screen, the backend, the timer | main, initialize, close | `OverlayStart`; timer and countdown in `FrameSequence` |
| frame sequence | `overlay/FrameSequence.cpp` | the picture shown, the last frame of each clip, `m_finished` | prepare, update | `FrameSequence` |
| video decoder | `overlay/VideoFrameDecoder.cpp` | demuxer position, codec, `m_currentFrame`, `m_draining` | open, readFrame, rewind | `VideoFrameDecoder` |
| reminder supervisor (Windows) | `reminder.c:10-233` | process handle and id, deadlines | start, poll, stop | `ReminderWin` |
| control pipe (Windows) | `control.c:9-385` | the one instance of a named pipe, its client | open, poll with reset, close; send | `ControlPipe` |
| systemd unit | `systemd/cat-gatekeeper.service` | the state of the unit | start, restart, give up | `Deployment` |
| start.sh | `tools/package-portable.sh:146-309` | the registration of the command | start, foreground, quit | its starts and quits in `Deployment` |
| log, idle stub, batch files, build | | none | | not modelled |

### How they interact

The daemon is one thread. It calls logind, the control socket and the supervisor
in turn and blocks in four places: the poll for a client's request (250 ms), the
sleep at the end of a turn (1 s), and the two loops of `cgk_stop_reminder` (up to
2 s, then without limit). The overlay is a child process that knows nothing of the
daemon: the daemon signals and reaps it, and it ends by itself after the intro and
`sleep_seconds`. Clients (`cat-gatekeeperctl`) queue up in the backlog of the
socket and are served one per turn. A second daemon first looks at the socket of
the first. Around all that, the user locks and unlocks the session, and signals
come at any time.

### What is hard

* the lock, the clients, the signals and the death of the overlay in every order
  with respect to the steps of a turn, and in the middle of a stop;
* the life of the child: forked and not yet the overlay (it still has the daemon's
  signal handler), killed and not yet a zombie, a zombie and not yet reaped, its
  process id given away;
* deadlines that race with what they wait for, twice in a row (SIGTERM, SIGKILL);
* a socket file that survives a crash, and daemons that look at it, remove it and
  create it while others do;
* clients that stall, leave, or lose patience while the daemon serves others;
* a pipe with one instance that is closed and created anew after every client, with a
  gap in which its name belongs to nobody;
* a unit that retries a daemon that was refused, beside daemons started by hand, over
  crashes, logouts and sessions that vanish between two calls to logind;
* two parsers whose limits have to agree across two programs, and whose verdict must not
  depend on the order of lines;
* process ids that Windows gives away again, and handles that outlive their reminder;
* frame arithmetic on a clock that jumps, over a decoder that can only go forward
  and hands out frames late.

`PROJECT.json` lists these hazards at their lines, with the properties that cover them.

### What makes each part correct

* daemon and supervisor: an overlay is up only while the daemon is reminding and is
  the one it tracks; signals reach children only; reminders, quits and locks are
  seen through whatever the overlay does; the interval is kept; SIGKILL is the last
  resort.
* control socket: one instance, and clients reach it; starting is refused only by
  an instance (each of them until two daemons contend for the path, which the code does not prevent), and
  among racing starts somebody wins.
* control session: a reply says what happened; a client is answered, in time unless an
  overlay is being stopped; no client can stop the daemon.
* deployment: somebody serves as long as the unit is wanted, and everybody ends with the
  session.
* configuration and manifest: exactly the well-formed files are taken, in whatever order
  their lines come, and what the daemon accepts the overlay accepts.
* Windows supervisor: the same policy as on POSIX, and no other program is touched.
* control pipe: what was acknowledged is carried out, once, unless the daemon crashes first, and nobody
  keeps the pipe who has gone.
* overlay: every frame in its time, the countdown at zero when it ends, the end on time, an error only if the video is
  really too short.

## 2. The modules

### Reminder, Daemon, ReminderPolicy

`Reminder` is the POSIX half of `reminder.c` with the processes behind it. `child[p]`
is what process id `p` is to the daemon (`free`, `forked`, `overlay`, `zombie`),
`sig[p]` the strongest signal on its way to it; `pid`, `deadline`, `kill_deadline`
and `term_sent` are `struct cgk_reminder`. A deadline is kept as the ticks left
until it. Each function is a set of actions, one per way it can return:
`PollReaps`, `PollTerminates`, `PollKills`, `PollWaits` for `cgk_poll_reminder`, and
so on. `cgk_stop_reminder` blocks, so it is cut at its two loops. `kill` on the pid
-1 signals every process in the model as it does in the kernel.

`Daemon` is `cgk_daemon_main`. `pc` says where it is; a turn is
`loop` (lock read) → `control` (a client) → `timer` → `sleep`. All that the code
does between two of these points is one step: `Dismiss`, for instance, is the whole
branch 250-258, including the call of `cgk_stop_reminder`, which either finds
nothing to stop and returns, or goes to `stopWait` and comes back by `Resume`. The
environment locks and unlocks, sends signals, and lets the child exec, fail to exec, swallow
a SIGTERM before its exec, exit, or hang. Which request a client makes is a
nondeterministic choice here. Time may pass between any two steps, so what is shown
of `Daemon` does not depend on how fast it is.

`ReminderPolicy` is what the user is promised, with two variables. `Daemon`
implements it under the mapping `Policy`: `overlay` is whether an overlay lives that
has not been sent SIGKILL.

### DaemonTimed

`Daemon` on an idle machine: no time passes except where the code blocks. Observers
measure what a stopwatch would: the time since the lock, since the last overlay was
alive, since the overlay was forked and since it was sent SIGTERM. Only steps of
`Daemon` change its variables.

### ControlSocket

Each daemon is at one of the system calls on the way through
`cgk_control_server_open` and `cgk_control_server_close`; `path` is whose socket file
is there, `sock[d]` whether the socket of `d` is bound or listening. Two
specifications share the actions: `Spec` (anything at any time) and
`StartSpec` (any number of starts at any time, nobody ends). Nothing in the code keeps daemons from being at the path
at once. `Contest` names the states in which that does harm: nobody serves, and two daemons are between the
system calls of open or close. While somebody serves, any number of starts is harmless; a crash or an exit of the one that
serves with two starts under way is a contest, as are two starts with nobody there.

### Deployment

Daemons on the control socket of `ControlSocket`, as they are started and ended. `phase[d]` is where
daemon `d` is in `cgk_daemon_main`: the checks, the two halves of `find_session_id`, the
opening of the bus, the control socket (whose steps are those of `ControlSocket`), the first
read of the lock, the loop, the close. Logind answers for every session whether it is
active, inactive or gone, and may change its mind between any two calls, or fail. One
daemon belongs to the systemd unit, which restarts it by its exit code; the others are started by hand or by
`start.sh`, which starts one whenever its `status` got no answer. A crash
leaves the socket file where it is. `setup` is how the checks of this installation
come out. Daemons open and close their sockets whenever they get there: neither the unit nor start.sh
serialises them. The history variable `contested` remembers whether there has ever been a `Contest`; it is written
beside every step (`Remember`) and read by none. What the socket gives as a lock is stated for the time before:
`ReachableUnlessContested`, `LoopIsExclusive`, `RefusedByServer`. Each of them is false without that condition, by the
races that `control_socket_reach` shows; the liveness properties hold without it.

### ControlSession, ControlService

The daemon accepts the head of `queue`, waits for its request, answers, and only then
does what was asked: `HandleRequest` is main.c:247-278. If that stops an overlay, as
a lock or the end of the loop may too, it serves nobody until the stop is
over. A client connects, sends, waits and gives up. `reply[c]` is what it can read,
`executed[c]` what became of its request. What a client has sent stays readable after it
has gone, and writing to a client that has gone raises SIGPIPE. `SigpipeIgnored` holds the
dispositions the daemon may have inherited: systemd ignores it, `nohup` does not.
A client may stop at any point. `held` remembers who waited during a stop.

`ControlService` is what the programs that use the interface are promised, without sockets, pipes or
time: what becomes of each request (`fate`) and what its client is told (`heard`). A request is refused
or accepted, an accepted one is carried out unless the service crashes first (`Break`, which only the pipe needs), success is only
reported of one that was accepted, and one promise is kept before the next is made.
`ControlSession` implements it under the mapping `Service`, where `fate` comes from `executed`,
`reply` and `sent`: a request that was carried out twice would have no fate.

### ControlPipe

The Windows counterpart of the last two, in one module, because there the pipe is both the
instance lock and the channel. `owner` is the daemon that has the instance of the pipe and
`peer` the client connected to it; `at[d]` is where a daemon is. `Reset` is
`FlushFileBuffers`, `DisconnectNamedPipe` and the closing of the handle, `Recreate` the
creation of the next instance; between the two the name is free. The reply OK is written before all that
(`ReadRequest`); the request waits in `pending` until `cgk_control_poll` has returned and `HandleRequest`, which is
main.c:249-278, carries it out. A crash in between loses it after the client has been told OK: `lost` remembers that,
as history. `FlushFileBuffers` waits
without limit for a client that does not read, so the daemon may hang there as
long as the client stays. The waits with a limit (250 ms for a request, 3 s for the
pipe) end when they like: nothing is shown about how long anything takes. Clients use the pipe
once, may be interrupted anywhere, and need not go on. With one daemon at a time the same `ControlService` is implemented
under its own mapping `Service`. With two it is not: one that has lost its name to the other while it reset its pipe still
has a promise to keep when the other makes one. `OkIsKept` and `PromiseIsKept` hold of any number.

### ReminderWin

The Windows half of `reminder.c` under the calls of `main.c`. `proc[p]` is what process id
`p` stands for: nothing, an overlay without or with a window, an overlay that has ended, or another program; an id is
given away again once its process has ended and nobody has a handle of it. `asked` and
`terminated` are the requests on their way. `WM_CLOSE` goes to the windows of the process
id, so it reaches whoever has that id, and nobody while the overlay has no window. The poll
that terminates returns after a second whether or not the process could be reaped, and
the next start overwrites its handle. `ReminderPolicy` is the same as for POSIX.

### KeyValue, Config, Manifest, OverlayStart

`Config` is `cgk_config_load` and `Manifest` is `loadAssets`, both one line at a time over
the lines of `KeyValue`. `OverlayStart` composes them: the daemon reads its configuration and
starts the overlay with two of its numbers, or somebody types a command line; the overlay
checks it, loads the manifest, and sets up its window on a desktop that has screens or
not, layer-shell or not. Its exit codes are those of `main.cpp`.

### VideoFrameDecoder, FrameSequence, Playback

`VideoFrameDecoder` has `readFrame` cut into the turns of the loop in
`decodeNextFrame`: a frame comes out of the codec and is skipped or returned, a
packet goes in, the codec is drained, or the video ends. The codec holds frames by
their number, so that the model can tell whether the frame returned is the one asked
for; the code only counts. `FrameSequence` adds `update` with the arithmetic of
126-139 and the three ways a frame is fetched, and the 16 ms timer that calls it. Time passes while a
frame is decoded, without limit. The two decoders of the code never exist at once
(the intro's is reset before the other opens, `FrameSequence.cpp:50`), so the model
has one, with `m_path`. `Playback` is the promise: a frame is shown only in its
time, and the overlay is finished at the end and not before. `PlaysOnTime` is the
refinement. `remainingSeconds` is the countdown that is painted over the cat, in whole
seconds, rounded up from the same clock.

## 3. Runs

| run | module, cfg | bounds | states | shows |
|---|---|---|---|---|
| daemon | MCDaemon, Daemon | 2 pids, every time 1 tick | 26462 | `Supervised`, `SignalTargets`, `Inv`, `ImplementsPolicy`, `ReminderEnds`, `StopHonoured`, `LockHonoured`, `DueIsServed` |
| daemon_timed | MCDaemonTimed, DaemonTimed | 2 pids, times 1 to 8 ticks | 830000 | `CountIsCalm`, `LockTakesEffect`, `ReminderInTime`, `GraceBeforeKill`, `NotCutShort` |
| deployment | MCDeployment, Deployment | 2 daemons, 3 sessions, 1 crash | 357582 | `ReachableUnlessContested`, `LoopIsExclusive`, `RefusedByServer`, `SomebodyServes`, `EndsWithSession` |
| control_socket_race | MCControlSocket, ControlSocketRace | 3 daemons | 1011 | `StartRaceHasWinner`, `SomebodyIsThere` |
| control_socket_reach | MCControlSocket, ControlSocketReach | 2 daemons | | violates `Reachable` |
| control_session | MCControlSession, ControlSession | 2 clients, backlog 1 | 671536 | `OkMeansExecuted`, `ExecutedAtMostOnce`, `GivesUpOnlyDuringStop`, `ImplementsService`, `EveryoneIsAnswered` |
| control_session_sigpipe | MCControlSession, ControlSessionSigpipe | 1 client | | violates `RefusedStartIsHarmless` |
| control_pipe | MCControlPipe, ControlPipe | 2 daemons, 2 clients | 58597 | `OkIsKept`, `ExecutedAtMostOnce`, `PipeIsFreed`, `PromiseIsKept` |
| control_pipe_listens | MCControlPipe, ControlPipeListens | 2 daemons, 1 client | | violates `KeepsListening` |
| overlay_start | MCOverlayStart, OverlayStart | configurations of 2 lines and 2 longer ones, 51 manifests, 96 command lines, 2 screens | 414194 | `ConfigExact`, `ManifestExact`, `OverlayStarts` |
| reminder_win | MCReminderWin, ReminderWin | 3 pids, every time 1 tick | 132234 | `StrangersUntouched`, `ImplementsPolicy` |
| frame_sequence | MCFrameSequence, FrameSequence | 4 + 3 frames (one of the intro missing), 26 units of time | 40068 | `TypeOK`, `InStep`, `CountdownIsHonest`, `EndsOnlyIfTooShort`, `PlaysOnTime`, `OverlayEnds` |

Why the bounds are enough:

* `Pids`: an overlay that was killed and not reaped keeps its id while the next one
  runs under the second. When both are taken every start fails, which is `fork` failing. The
  safety properties are proved for any number of ids.
* `SleepTicks`, `MarginTicks`, `TermTicks`, `Interval`, `LoopTicks`, `PollTicks`: in
  `Daemon` time passes between any two steps, so one tick already gives every order of
  deadlines and steps. `DaemonTimed` needs ratios: an overlay outlives several turns, a
  stop is longer than a turn, the interval is longer than both.
* `MinLock` (DaemonTimed): how long a lock lasts at least. 8 is more than a turn and
  a stop together. `CountIsCalm` rests on it: the lock is read once per turn
  (`main.c:223`), so a session that is locked and unlocked between two reads keeps its count.
* `Daemons`: the race of a start needs one daemon per role (owner, remover, winner). In a
  deployment two are enough for one that is refused and one that refuses it, and for a contest; a daemon that
  has come to its end may start again, and without the condition `~contested` each of the three safety properties is violated
  within these bounds.
* `Sessions` (Deployment): one of the user on seat0, one elsewhere, one that is not the
  user's. `MaxKills` bounds the crashes; with the file that may be there at first, a
  stale one is met twice. The safety properties are proved for any number of each.
* `Backlog` is 8 in the code; with 1 and two clients one already blocks in `connect`.
* `TurnTicks`, `PollTicks`, `PatienceTicks` are 1, 1, 3 ticks of a second, the poll of 250 ms
  rounded up. With two clients, the last one served waits for two turns and a poll at most;
  `GivesUpOnlyDuringStop` is about that many clients and is false of a larger crowd.
* `ConfigFiles`, `Manifests` (OverlayStart): every pair of lines, so that every line meets every other in both
  orders, over both ends of each range and the values next to them; the manifest of the
  repository with one line missing, doubled, unparsable or at an end of its range, and
  both formats.
* `Pids` (ReminderWin): the overlay that was terminated and is not reaped, the next one, and a stranger.
* `ControlPipe`: a daemon that resets its pipe, one that takes the name in the gap, a client
  that is answered, and one that comes between the two.
* `fps`, `Second`, `Frames`: 3 frames per 7 units, so that frames start between two units
  and every rounding of 126-139 matters; the sleep lasts 14 units, twice the clip of 7,
  so the wrap is met twice. `MaxElapsed` is where the clock of the model stops, 3 units
  after the end. `HeldBack` is 2: a codec that delays frames and is drained at the end of a clip.
  `VideoFrames` lacks the last frame of the intro: a video that is on time there gives up, one that
  is late enough to skip that frame, and the image formats, go on to the end.

Symmetry is used over `Pids` and `Daemons` in runs that check no liveness,
and those sets appear in no `CHOOSE`. `CHECK_DEADLOCK FALSE` stands where the system stops:
all clients served after a quit, the overlay up or ended, no daemon left to start.

### Fairness

`Daemon`: weak fairness of the daemon (it is scheduled), of the clock, and of SIGKILL.
Nothing is assumed of the overlay, the clients, the session or the signals: `ReminderEnds`
holds for an overlay that hangs. `ControlSocket`: a daemon inside open or
close goes on. `ControlSession`: the daemon and the clock; clients may stop. `ControlPipe`:
each running daemon; clients may stop, also while the daemon waits for them to read. `FrameSequence`:
the timer fires, `update` returns, the clock runs; that is Qt's event loop and a decoder
that terminates. `ReminderWin`: polls, stops and the clock go on, and a terminated process ends.
`Deployment`: each daemon goes on, by weak fairness, and systemd ends and
restarts its unit; nobody is obliged to start, stop or log out. `SomebodyServes` therefore
says: if from some point on the unit is neither stopped nor failed.

### What the violated runs show

* `control_socket_reach`: two daemons started (or one started and one ended) at the same
  time. The clean-up of a failed `bind` (`control.c:597`, 753-754), the removal of a stale
  file (545) and the clean-up of a quit (754) unlink whatever file is there, also the one another daemon
  has just bound. That daemon then serves a socket nobody can find (DESIGN.md:122-126), and
  a third one starts beside it.
* `control_session_sigpipe`: a daemon that does not ignore SIGPIPE (started by start.sh)
  writes "ERR empty request" (`control.c:717`) to the probe of a second daemon (538-541), which
  has closed its end, and dies. The second one has just reported "another instance is
  already running".
* `control_pipe_listens`: DESIGN.md:128 has one daemon that listens on one pipe. The reset
  after a client (`control.c:221-234`) closes the only instance, and a daemon started in that gap
  gets it; the first one logs "cannot recreate control pipe", never tries again, and goes on
  counting and reminding beside the second, out of reach of every client.

## 4. Proofs

`DaemonProofs`, `ControlSocketProofs`, `DeploymentProofs`, `ControlSessionProofs`, `FrameSequenceProofs`,
`OverlayStartProofs`, `ReminderWinProofs`, `ControlPipeProofs`; all constants are arbitrary
under the named assumptions of the modules.

* **Daemon.** `Inv == TypeOK /\ Supervised /\ SignalTargets /\ PidIsOurs /\ KillIsLast`
  is inductive. `Supervised` alone is not: a step of `cgk_stop_reminder` needs
  to know that the pid it signals is a child (`PidIsOurs`), and a SIGTERM must not
  follow a SIGKILL, or an overlay counted as done for would live again (`KillIsLast`).
  `TypeCorrect`, `OverlaysAreSupervised` and `SignalsAreAimed` follow. `DaemonRefinesPolicy` shows, from the
  same invariant, that every step is a step of `ReminderPolicy` or a stutter.
* **DaemonTimed**, in the second half of `DaemonProofs`, for all times: `Deadlines` adds the stopwatches to what is
  left of each deadline, so that a deadline at 0 means that the whole has gone by (`KillComesAfterGrace`,
  `SleepsToTheEnd`). The other way round, `LockLeft` and `TimerLeft` are the longest it may take from each place of the
  loop to the next look at the lock and at the timer; no step makes them grow past what has been
  used up (`LockSoon`, `OnTime`), and every tick takes one off. `LockIsHeeded` and `ReminderIsShort`
  follow, and `CountOnlyCalm` for locks that last longer than `LockTicks`, which none of them then
  misses. `StopIsShort` is about the end: `ExitLeft` is the longest a daemon that is to end may still block, from each
  place and on each of the ways out (a signal, a quit, a logind that fails); no step makes it grow and each tick
  takes one off, so that with a stopwatch of its own (an arbitrary variable that counts those ticks) it
  shows at most a poll, a sleep and the grace of one stop: never two stops, whatever comes together. `DaemonTimed` lets one
  signal come, since each further one would start the poll afresh.
  What the module assumes of the machine (code takes no time, SIGKILL works at once) is assumed here too.
* **ControlSocket.** `Inv == TypeOK /\ Reachable /\ OnlyWithoutServer /\ SocketState` is inductive under every step
  of `Spec` that neither starts nor ends in a `Contest`: whoever serves is behind the path, so whoever finds nobody there, and goes on,
  knows that nobody serves, and without a contest is alone at the path and knows what it names at each system call.
  `UncontestedInvariance` (`Spec /\ []~Contest => []Inv`), `UncontestedInstance` and the action property `UncontestedRefusals` follow, for any number of
  daemons. `Contest` does not mention the invariant, and a start beside a daemon that serves, in any number, is none.
  For the race of `StartSpec`, `Race`: until somebody has bound its socket, no file has been removed
  but by a daemon that is about to bind; whoever has bound serves. `RaceHasSurvivor` follows.
* **Deployment.** Every step of a deployment is a step of `ControlSocket` or leaves
  the socket alone, and every contest is remembered. `DeploymentInvariance` (`contested \/ Inv`) follows from the lemmas about
  `ControlSocket`, and with it `DeploymentReachable` and `DeploymentRefusals`, for any number of
  daemons, sessions and crashes: up to the first contest, whoever serves can be reached and no start is refused for the sake of anything else.
  `Held`, which needs no such condition, joins the two halves: in each phase of `cgk_daemon_main` the socket is where that phase
  needs it (`SocketHeld`), the session is one of the user from the bus on (`SessionHeld`), and a unit that
  does not run its daemon has none (`UnitHeld`). Together they give `DeploymentLoop`: up to the first contest the control
  socket is the lock of the main loop, so two daemons never watch the session, and show overlays, at once. After a contest they may, and
  nothing is proved.
* **ControlSession.** `IInv == Types /\ QueuedOnce /\ QueuedUnserved /\ IdleUnserved /\ CurrentServed /\
  RepliesTrue /\ ExecutedAtMostOnce` is inductive: nobody is in the queue twice, nothing has been done for who is in it
  or has not connected, the client being handled has been told OK and has not been
  executed, and an OK was true of everybody else. `OkIsTrue` and `ExecutedOnce` follow, for any number of
  clients, backlog and times. With `Untold` (only who has ended has heard anything) `SessionKeepsService` shows each
  step to be one of `ControlService` or a stutter.
  Patience: `PInv` says that the patience of a client outlasts the turns of those before it in the queue and what is left of the
  present turn (`QueueInTime`, `CurrentInTime`; a turn is `PollTicks + TurnTicks`), unless it is one of `held`, and that a stop
  under way holds everybody who waits (`NobodyForgotten`). It is inductive as long as a newcomer finds few enough before it, and the
  theorems say when: `PatienceSuffices` for a crowd with crowd × (poll + turn) < patience, `SmallBacklog` if the
  backlog is such, as it is in the run (1 × 2 < 3), `FewClients` if there are no more clients than that, because nobody is in
  the queue twice. The times of the code, 1 s and 250 ms against 3 s, cover two clients, and not its backlog of 8: a larger
  crowd does run into the timeout.
* **ReminderWin.** `Inv == TypeOK /\ StrangersUntouched /\ HandlesHold`: the struct holds an open handle, and a
  handle keeps its id from being given away, so that a WM_CLOSE or a TerminateProcess finds the overlay
  or nothing. With `Supervised` (the only overlay not terminated is the one in the struct, while
  the daemon reminds), `KeepsPolicy` shows every step to be one of `ReminderPolicy` or a stutter.
* **OverlayStart.** `ConfigInv` and `ManifestInv` say what has been read so far: the lines are good, the
  keys seen are those met, and the settings are what those lines say. At the end of the file that is
  `ConfigExact` and `ManifestExact`. `OverlayTakesOver` adds that settings are always in their
  ranges, which are those the overlay asks for.
* **FrameSequence.** `IInv == TypeOK /\ InStep /\ Loading /\ Showing` (the last
  two in the proof module): the codec holds the frames after `m_currentFrame` in order, a
  frame being decoded is the one that was due when `update` was called, and the picture
  shown is the one `m_lastFrame` says. From it `OverlayPlaysOnTime`: the overlay
  implements `Playback` for every frame rate, clip length, duration, codec delay and resolution of
  the clock, including the nonlinear arithmetic of the frame numbers. `CountdownEndsInTime`
  needs less: once finished, the clock is not before the end, and it only goes on. `VideoEndsTooShort` adds
  that `readFrame` is after the frame of the latest `update` (`Fetching`): with the codec
  drained and empty, `InStep` says that the whole video has been seen.
* **ControlPipe.** `IInv == TypeOK /\ PipeHeld /\ Unanswered /\ PendingHeld /\ RepliesTrue`: whoever is connected has the pipe
  of a daemon that is not between closing and creating it, and is told nothing before it is connected or twice; a request that waits
  for the reset of the pipe is in the hands of one daemon, answered and not carried out (`PendingHeld`); and OK was written exactly to those whose request has been carried
  out, is in such hands, or went with a daemon that crashed. `OkIsTrue` and `ExecutedOnce` follow, for any number of
  daemons and clients. `PipeKeepsService` shows, for daemons that run one at a time and crash wherever they are, each step to be one of the service of `ControlSession` or a stutter: the
  reply is the promise, the execution its keeping, and only a crash breaks it. `SingleDaemonListens` shows that
  `KeepsListening` fails only for want of the name: with one daemon `owner` follows from where it is.

Only model-checked: everything under fairness (`ReminderEnds`, `StopHonoured`, `LockHonoured`,
`DueIsServed`, the liveness half of both `ImplementsPolicy`, `StartRaceHasWinner`, `EveryoneIsAnswered`, `SomebodyServes`,
`EndsWithSession`, `OverlayEnds`, `PipeIsFreed`, `PromiseIsKept`, and the liveness half of `ImplementsService`), which is beyond the prover.
Every invariant and action property of the passing runs is proved. The other way round, `PipeKeepsService`, `DeploymentHeld`,
`UncontestedInvariance` and what follows from it, and `StopIsShort` are proved and no run checks them.

## 5. Not modelled

* The kernel and libraries are modelled by what the code relies on: `fork`, `exec`, `waitpid`,
  `kill`, Unix sockets, logind's LockedHint, FFmpeg's demuxer and codec.
* Failures for lack of resources in `cgk_control_server_open` other than `bind`, peers of another user, requests
  that arrive in pieces; on Windows, a failure to wait on an open handle.
* Time in the calls of the system bus: an answer of logind takes none in `DaemonTimed` and `ControlSession`, so
  `LockTakesEffect` and the patience of clients are bounds for a logind that answers at once.
* A packet that `avcodec_send_packet` turns down with EAGAIN, which `decodeNextFrame` drops: the codec of the model takes
  every packet it is given once it has no frame to hand out.
* Splitting, trimming and number parsing of the two files, `--help`, and where the configuration
  is looked for.
* Pixels, the log, the wording of replies, the status numbers: no state hangs on them.
* `idle.c` (a stub), the registration of the command by start.sh, packaging, batch files and the build.
* An overlay that a killed daemon leaves behind: it ends by itself (`OverlayEnds`), and the
  next daemon knows nothing of it.

## 6. Plan

Done: the daemon with its supervisor and policy on both systems, the control socket and its deployment,
the control session, the control pipe, the two files and the start of the overlay, its frames, countdown and
decoder; the proofs above.

1. A composition of `Daemon` and `Deployment`: the overlay a crashed daemon leaves beside that of its successor.
2. How long a client waits for its answer, as a function of those before it and of the stops: `PInv` has what it takes.
3. The registration of start.sh.
