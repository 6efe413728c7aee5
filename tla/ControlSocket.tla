--------------------------- MODULE ControlSocket ---------------------------
(* The control socket in the file system: how cgk_control_server_open and    *)
(* cgk_control_server_close of src/src/control.c (POSIX part) share one path *)
(* among every daemon of a user, over any number of starts, ends and crashes.*)
(*                                                                           *)
(* Each system call on the path is a step of its own.  The socket file is    *)
(* named after the daemon that bound it: a daemon binds at most once in its  *)
(* life, and only where no file is, so that no two files are confused.       *)
(*                                                                           *)
(* Left out: that socket, fcntl or listen fail for lack of resources         *)
(* (control.c:582-590, 602-606), and that unlink fails for another reason    *)
(* than that there is no file.                                               *)
CONSTANTS Daemons,  \* the daemon processes
          NoFile    \* there is no control.sock

ASSUME NoFileAssumption == NoFile \notin Daemons

VARIABLES at,     \* where each daemon is
          sock,   \* its listening socket, server->fd
          path    \* whose socket file $XDG_RUNTIME_DIR/.../control.sock is

vars == <<at, sock, path>>

Places ==
    {"down",      \* not running, or done with the control socket
     "refused",   \* ended with exit code 70 by cgk_control_server_open
     "inspect",   \* remove_stale_socket_if_needed: lstat
     "connect",   \*   connect_to_socket_path
     "unlink",    \*   unlink
     "bind",      \* socket and bind
     "listen",    \* listen
     "serving",   \* cgk_control_server_open has returned 0
     "giveUp",    \* bind failed: cgk_control_server_close, its unlink
     "leave"}     \* the end of the daemon: the same

TypeOK ==
    /\ at \in [Daemons -> Places]
    /\ sock \in [Daemons -> {"none", "bound", "listening"}]
    /\ path \in Daemons \union {NoFile}

\* A crash in the past may have left a socket file.
Init ==
    /\ at = [d \in Daemons |-> "down"]
    /\ sock = [d \in Daemons |-> "none"]
    /\ path \in Daemons \union {NoFile}

Move(d, place) == at' = [at EXCEPT ![d] = place]
SetSocket(d, s) == sock' = [sock EXCEPT ![d] = s]

\* connect(2) on the path finds somebody: a bound socket alone refuses.
Answered == \E e \in Daemons : path = e /\ sock[e] = "listening"

-----------------------------------------------------------------------------
(* cgk_control_server_open                                                   *)

StartUp(d) ==
    /\ at[d] \in {"down", "refused"}
    /\ Move(d, "inspect")
    /\ UNCHANGED <<sock, path>>

Inspect(d) ==
    /\ at[d] = "inspect"
    /\ Move(d, IF path = NoFile THEN "bind" ELSE "connect")
    /\ UNCHANGED <<sock, path>>

\* Mutant: any connect counts as an answer, a refused one too.
RefusedAnyway(d) ==
    /\ at[d] = "connect"
    /\ Move(d, "refused")
    /\ UNCHANGED <<sock, path>>

\* Mutant: the error path closes the server, and so unlinks the path.
RefusedUnlinks(d) ==
    /\ at[d] = "connect" /\ Answered
    /\ path' = NoFile
    /\ Move(d, "refused")
    /\ UNCHANGED sock

\* "another instance is already running", and exit code 70.
Refused(d) ==
    /\ at[d] = "connect" /\ Answered
    /\ Move(d, "refused")
    /\ UNCHANGED <<sock, path>>

\* Mutant: the socket file is taken to be stale without asking.
FindStaleBlindly(d) ==
    /\ at[d] = "connect"
    /\ Move(d, "unlink")
    /\ UNCHANGED <<sock, path>>

\* Nobody answers: the socket file is taken to be stale.
FindStale(d) ==
    /\ at[d] = "connect" /\ ~Answered
    /\ Move(d, "unlink")
    /\ UNCHANGED <<sock, path>>

\* Mutant: unlink is forgotten.
RemoveStaleNot(d) ==
    /\ at[d] = "unlink" /\ path # NoFile
    /\ Move(d, "bind")
    /\ UNCHANGED <<sock, path>>

RemoveStale(d) ==
    /\ at[d] = "unlink" /\ path # NoFile
    /\ path' = NoFile
    /\ Move(d, "bind")
    /\ UNCHANGED sock

\* Somebody else has removed it: unlink fails, exit code 70.
RemoveStaleFails(d) ==
    /\ at[d] = "unlink" /\ path = NoFile
    /\ Move(d, "refused")
    /\ UNCHANGED <<sock, path>>

Bind(d) ==
    /\ at[d] = "bind" /\ path = NoFile
    /\ path' = d
    /\ SetSocket(d, "bound")
    /\ Move(d, "listen")

\* EADDRINUSE: the descriptor is closed, the path not yet unlinked.
BindFails(d) ==
    /\ at[d] = "bind" /\ path # NoFile
    /\ Move(d, "giveUp")
    /\ UNCHANGED <<sock, path>>

Listen(d) ==
    /\ at[d] = "listen"
    /\ SetSocket(d, "listening")
    /\ Move(d, "serving")
    /\ UNCHANGED path

-----------------------------------------------------------------------------
(* cgk_control_server_close                                                  *)

Close(d) ==
    /\ at[d] = "serving"
    /\ SetSocket(d, "none")
    /\ Move(d, "leave")
    /\ UNCHANGED path

\* The path is unlinked whatever file it names by now.
Unlink(d) ==
    /\ at[d] \in {"giveUp", "leave"}
    /\ path' = NoFile
    /\ Move(d, IF at[d] = "giveUp" THEN "refused" ELSE "down")
    /\ UNCHANGED sock

\* The daemon dies: the descriptor is closed, the file stays.
Crash(d) ==
    /\ at[d] \notin {"down", "refused"}
    /\ SetSocket(d, "none")
    /\ Move(d, "down")
    /\ UNCHANGED path

-----------------------------------------------------------------------------
Opening(d) ==
    \/ Inspect(d)
    \/ Refused(d)
    \/ FindStale(d)
    \/ RemoveStale(d)
    \/ RemoveStaleFails(d)
    \/ Bind(d)
    \/ BindFails(d)
    \/ Listen(d)
    \/ Unlink(d)

Next ==
    \E d \in Daemons : StartUp(d) \/ Opening(d) \/ Close(d) \/ Crash(d)

\* A daemon that opens or closes its socket goes on with it.
Fairness == \A d \in Daemons : WF_vars(Opening(d))

\* Daemons are started and ended by whoever likes, at any time.
Spec == Init /\ [][Next]_vars

StartNext == \E d \in Daemons : StartUp(d) \/ Opening(d)

\* Daemons are started at any time, and neither ended nor crashed.
StartSpec == Init /\ [][StartNext]_vars /\ Fairness

-----------------------------------------------------------------------------
(* Properties                                                                *)

\* A serving daemon is the one that clients reach over the path
\* (control.c:553-610, 747-757; DESIGN.md:122-126).
Reachable == \A d \in Daemons : at[d] = "serving" => path = d

\* There is never a second instance (control.c:538-543).
SingleInstance ==
    \A d, e \in Daemons : at[d] = "serving" /\ at[e] = "serving" => d = e

\* Neither opening nor closing the socket.
Settled == {"down", "refused", "serving"}

NobodyServes == \A d \in Daemons : at[d] # "serving"

\* The race that nothing in the code prevents: nobody serves, and two daemons are
\* between the system calls on the path at once.  Any number of starts beside a
\* daemon that serves is no contest.
Contest ==
    /\ NobodyServes
    /\ \E d, e \in Daemons : d # e /\ at[d] \notin Settled /\ at[e] \notin Settled

\* Whoever goes on beyond the connect, or leaves, knows that nobody serves.
OnlyWithoutServer ==
    (\E d \in Daemons : at[d] \notin Settled \union {"inspect", "connect"})
        => NobodyServes

\* What each daemon may rely on between two system calls.
SocketState ==
    \A d \in Daemons :
        /\ sock[d] = "listening" <=> at[d] = "serving"
        /\ at[d] \in {"connect", "unlink"} => path # NoFile
        /\ at[d] = "bind" => path = NoFile
        /\ at[d] = "listen" => path = d
        /\ at[d] # "giveUp"

\* Inductive as long as there is no contest.
Inv == TypeOK /\ Reachable /\ OnlyWithoutServer /\ SocketState

\* A start-up is only ever refused because of an instance that serves: a socket
\* file left by a crash does not stand in its way (control.c:522-551).
RefusedOnlyIfServed ==
    [][\A d \in Daemons : at[d] # "refused" /\ at'[d] = "refused" =>
           \E e \in Daemons \ {d} : at[e] = "serving"]_vars

\* However many daemons are started at the same time, with or without a stale
\* socket file, one of them ends up serving (control.c:522-610).
StartRaceHasWinner ==
    (\E d \in Daemons : at[d] = "inspect")
        ~> \E d \in Daemons : at[d] = "serving"

\* Racing daemons never refuse each other all at once: when one has given up,
\* another is still under way or serving (control.c:538-606).
SomebodyIsThere ==
    (\E d \in Daemons : at[d] = "refused") =>
        \E d \in Daemons : at[d] \notin {"down", "refused"}

=============================================================================
