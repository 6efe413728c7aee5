------------------------------- MODULE Config -------------------------------
(* cgk_config_load of src/src/config.c, one line of the file at a time.      *)
EXTENDS KeyValue

CONSTANT ConfigFiles  \* the configuration files there may be

ASSUME ConfigFilesAssumption == ConfigFiles \subseteq Seq(Line)

VARIABLES config_file,    \* the user's file; one that is missing says as much
                          \* as one that is empty
          line_number,    \* the lines read so far
          seen,           \* the keys met so far
          config,         \* struct cgk_config
          config_result   \* what cgk_config_load has to say; invalid and
                          \* unreadable are both CGK_EXIT_CONFIG

configVars == <<config_file, line_number, seen, config, config_result>>

INT_MAX == 2147483647

ranges ==
    [interval_minutes   |-> 1..1440,
     sleep_seconds      |-> 1..3600,
     screen_index       |-> 0..INT_MAX,
     idle_reset_seconds |-> 0..86400]

defaults ==
    [interval_minutes   |-> 30,
     sleep_seconds      |-> 300,
     screen_index       |-> 0,
     idle_reset_seconds |-> 0]

Names == {"interval_minutes", "sleep_seconds", "screen_index", "idle_reset_seconds"}

parse_int_range(l) == l.parses /\ l.value \in ranges[l.key]

ConfigInit ==
    /\ config_file \in ConfigFiles
    /\ line_number = 0
    /\ seen = {}
    /\ config = defaults
    /\ config_result = "reading"

-----------------------------------------------------------------------------
CurrentLine == config_file[line_number + 1]

MoreLines == config_result = "reading" /\ line_number < Len(config_file)

\* Mutant: a key that comes again overrides.
TakeLineAgain ==
    /\ MoreLines /\ IsEntry(CurrentLine, Names)
    /\ parse_int_range(CurrentLine)
    /\ seen' = seen \union {CurrentLine.key}
    /\ config' = [config EXCEPT ![CurrentLine.key] = CurrentLine.value]
    /\ line_number' = line_number + 1
    /\ UNCHANGED <<config_file, config_result>>

\* A new known key with a value in its range.
TakeLine ==
    /\ MoreLines /\ IsEntry(CurrentLine, Names)
    /\ CurrentLine.key \notin seen /\ parse_int_range(CurrentLine)
    /\ seen' = seen \union {CurrentLine.key}
    /\ config' = [config EXCEPT ![CurrentLine.key] = CurrentLine.value]
    /\ line_number' = line_number + 1
    /\ UNCHANGED <<config_file, config_result>>

\* Nothing on it, or a key that is unknown.
SkipLine ==
    /\ MoreLines /\ CurrentLine.kind # "malformed"
    /\ ~IsEntry(CurrentLine, Names)
    /\ line_number' = line_number + 1
    /\ UNCHANGED <<config_file, seen, config, config_result>>

\* The file is rejected at this line.
RejectLine ==
    /\ MoreLines
    /\ \/ CurrentLine.kind = "malformed"
       \/ /\ IsEntry(CurrentLine, Names)
          /\ CurrentLine.key \in seen \/ ~parse_int_range(CurrentLine)
    /\ config_result' = "invalid"
    /\ UNCHANGED <<config_file, line_number, seen, config>>

\* fopen or fgets fails.
CannotRead ==
    /\ config_result = "reading"
    /\ config_result' = "unreadable"
    /\ UNCHANGED <<config_file, line_number, seen, config>>

EndOfConfig ==
    /\ config_result = "reading" /\ line_number = Len(config_file)
    /\ config_result' = "ok"
    /\ UNCHANGED <<config_file, line_number, seen, config>>

ConfigNext ==
    \/ TakeLine
    \/ SkipLine
    \/ RejectLine
    \/ CannotRead
    \/ EndOfConfig

-----------------------------------------------------------------------------
ConfigTypeOK ==
    /\ config_file \in ConfigFiles
    /\ line_number \in 0..Len(config_file)
    /\ seen \subseteq Names
    /\ config \in [Names -> Int]
    /\ config_result \in {"reading", "ok", "invalid", "unreadable"}

\* The settings are those of the first n lines, and the defaults where they say
\* nothing.
Says(file, n, settings) ==
    \A k \in Names :
        /\ k \notin Met(file, n, Names) => settings[k] = defaults[k]
        /\ \A i \in 1..n : IsEntry(file[i], {k}) => settings[k] = file[i].value

ValidConfig(file, n) == WellFormed(file, n, Names, parse_int_range)

\* A file is accepted exactly if every line is good and no known key comes twice,
\* in whatever order, and the settings are then what it says (config.c:132-209;
\* DESIGN.md:93-106).
ConfigExact ==
    /\ config_result = "ok" =>
           /\ ValidConfig(config_file, Len(config_file))
           /\ Says(config_file, Len(config_file), config)
    /\ config_result = "invalid" => ~ValidConfig(config_file, Len(config_file))

=============================================================================
