---------------------------- MODULE OverlayStart ----------------------------
(* From config.conf to the cat on the screen: the daemon reads its           *)
(* configuration (Config) and starts cat-gatekeeper-overlay with it          *)
(* (cgk_start_reminder, src/src/reminder.c:304-334), or somebody starts the  *)
(* overlay by hand.  The overlay checks its arguments, loads the manifest    *)
(* (Manifest), and sets up its window (src/overlay/main.cpp:97-133,          *)
(* src/overlay/OverlayWindow.cpp:69-192, the part for Linux; --help is left  *)
(* out).                                                                     *)
EXTENDS Config, Manifest

CONSTANTS HandArguments,  \* what may be typed by hand
          MaxScreens

ASSUME MaxScreensAssumption == MaxScreens \in Nat

VARIABLES caller,     \* "daemon" or "user"
          stage,      \* how far the overlay has come
          arguments,  \* its command line
          desk,       \* the desktop it meets
          shown_on,   \* the screen it covers
          exit_code   \* of the overlay; 0 until it ends

overlayVars == <<caller, stage, arguments, desk, shown_on, exit_code>>
vars == <<configVars, manifestVars, overlayVars>>

\* A command line: whether it can be read, and what it says.
Arguments ==
    [readable : BOOLEAN, sleep : Int, screen : Int,
     backend : {"auto", "layer-shell", "window", "unknown"}]

\* A desktop: its screens, whether it is GNOME and has layer-shell, whether a
\* native window can be made and the clips can be played there.
Desks ==
    [screens : 0..MaxScreens, gnome : BOOLEAN, layerShell : BOOLEAN,
     native : BOOLEAN, playable : BOOLEAN]

noArguments == [readable |-> TRUE, sleep |-> 0, screen |-> 0, backend |-> "auto"]

\* To somebody at a terminal the configuration does not matter.
Init ==
    /\ ConfigInit /\ ManifestInit
    /\ caller \in {"daemon", "user"}
    /\ caller = "user" => config_file = <<>>
    /\ stage = "none"
    /\ arguments = noArguments
    /\ desk = [screens |-> 0, gnome |-> FALSE, layerShell |-> FALSE,
               native |-> FALSE, playable |-> FALSE]
    /\ shown_on = 0
    /\ exit_code = 0

ReadConfig ==
    /\ caller = "daemon" /\ ConfigNext
    /\ UNCHANGED <<manifestVars, overlayVars>>

\* The daemon leaves the backend to the overlay.
commandLine ==
    [readable |-> TRUE, sleep |-> config["sleep_seconds"],
     screen |-> config["screen_index"], backend |-> "auto"]

\* cgk_start_reminder.
DaemonStarts ==
    /\ caller = "daemon" /\ config_result = "ok" /\ stage = "none"
    /\ arguments' = commandLine
    /\ stage' = "arguments"
    /\ UNCHANGED <<configVars, manifestVars, caller, desk, shown_on, exit_code>>

UserStarts ==
    /\ caller = "user" /\ stage = "none"
    /\ arguments' \in HandArguments
    /\ stage' = "arguments"
    /\ UNCHANGED <<configVars, manifestVars, caller, desk, shown_on, exit_code>>

\* Mutant: the overlay's limit of the sleep is not the one of the configuration.
UsableShort(args) ==
    /\ args.readable
    /\ args.sleep >= 1 /\ args.sleep < 3600
    /\ args.screen >= 0
    /\ args.backend # "unknown"

Usable(args) ==
    /\ args.readable
    /\ args.sleep >= 1 /\ args.sleep <= 3600
    /\ args.screen >= 0
    /\ args.backend # "unknown"

CheckArguments ==
    /\ stage = "arguments"
    /\ \/ Usable(arguments) /\ stage' = "manifest" /\ UNCHANGED exit_code
       \/ ~Usable(arguments) /\ stage' = "exited" /\ exit_code' = 2
    /\ UNCHANGED <<configVars, manifestVars, caller, arguments, desk, shown_on>>

LoadManifest ==
    /\ stage = "manifest" /\ ManifestNext
    /\ UNCHANGED <<configVars, overlayVars>>

ManifestUnusable ==
    /\ stage = "manifest" /\ manifest_result \in {"invalid", "missing"}
    /\ stage' = "exited" /\ exit_code' = 3
    /\ UNCHANGED <<configVars, manifestVars, caller, arguments, desk, shown_on>>

-----------------------------------------------------------------------------
(* The window                                                                *)

screenByIndex(index, screens) == IF index < screens THEN index ELSE 0

selectedBackend(backend, gnome) ==
    IF backend # "auto" THEN backend
    ELSE IF gnome THEN "window" ELSE "layer-shell"

\* Only layer-shell may be missing, and it may only if it was asked for by name.
backendFound(backend, d) ==
    selectedBackend(backend, d.gnome) = "layer-shell" =>
        d.layerShell \/ backend = "auto"

\* initialize: the screen, the native window, the backend, the clips.
initialize(d) ==
    d.screens > 0 /\ d.native /\ backendFound(arguments.backend, d) /\ d.playable

OpenWindow ==
    /\ stage = "manifest" /\ manifest_result = "ok"
    /\ desk' \in Desks
    /\ \/ /\ initialize(desk')
          /\ stage' = "shown"
          /\ shown_on' = screenByIndex(arguments.screen, desk'.screens)
          /\ UNCHANGED exit_code
       \/ /\ ~initialize(desk')
          /\ stage' = "exited" /\ exit_code' = 4
          /\ UNCHANGED shown_on
    /\ UNCHANGED <<configVars, manifestVars, caller, arguments>>

Next ==
    \/ ReadConfig
    \/ DaemonStarts
    \/ UserStarts
    \/ CheckArguments
    \/ LoadManifest
    \/ ManifestUnusable
    \/ OpenWindow

Spec == Init /\ [][Next]_vars

-----------------------------------------------------------------------------
TypeOK ==
    /\ ConfigTypeOK /\ ManifestTypeOK
    /\ caller \in {"daemon", "user"}
    /\ stage \in {"none", "arguments", "manifest", "shown", "exited"}
    /\ arguments \in Arguments
    /\ desk \in Desks
    /\ shown_on \in Nat
    /\ exit_code \in {0, 2, 3, 4}

\* Whatever configuration the daemon accepts, the overlay accepts its command line;
\* it then fails only for its manifest or where no window can be shown at all, never
\* for the screen or the backend, and covers a screen that exists, the configured
\* one if there is such a screen (config.c:184-199; main.cpp:113-129;
\* OverlayWindow.cpp:131-171).
OverlayStarts ==
    caller = "daemon" =>
        /\ stage = "exited" =>
               \/ exit_code = 3 /\ manifest_result \in {"invalid", "missing"}
               \/ exit_code = 4 /\ ~(desk.screens > 0 /\ desk.native /\ desk.playable)
        /\ stage = "shown" =>
               /\ shown_on < desk.screens
               /\ config["screen_index"] < desk.screens =>
                      shown_on = config["screen_index"]

=============================================================================
