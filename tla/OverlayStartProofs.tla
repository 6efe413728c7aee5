------------------------- MODULE OverlayStartProofs -------------------------
(* What config.conf, the command line and the manifest guarantee, for every  *)
(* file and every desktop.                                                   *)
EXTENDS OverlayStart, TLAPS

(***************************************************************************)
(* Files                                                                   *)
(***************************************************************************)

\* What one more line adds to the keys met.
LEMMA MetNext ==
    ASSUME NEW file, NEW n \in Nat, NEW keys
    PROVE  Met(file, n + 1, keys) =
               Met(file, n, keys) \union
               (IF IsEntry(file[n + 1], keys) THEN {file[n + 1].key} ELSE {})
<1>1. 1..(n + 1) = (1..n) \union {n + 1}
  OBVIOUS
<1> QED
  BY <1>1, Zenon DEF Met

\* A line that is no entry adds none.
LEMMA MetSkip ==
    ASSUME NEW file, NEW n \in Nat, NEW keys, ~IsEntry(file[n + 1], keys)
    PROVE  Met(file, n + 1, keys) = Met(file, n, keys)
<1>1. Met(file, n + 1, keys) = Met(file, n, keys) \union {}
  BY MetNext
<1> QED
  BY <1>1

\* A key is met if some line is an entry of it.
LEMMA MetByLine ==
    ASSUME NEW file, NEW n \in Nat, NEW keys, NEW k
    PROVE  k \in Met(file, n, keys) <=>
               \E i \in 1..n : IsEntry(file[i], keys) /\ file[i].key = k
BY DEF Met

(***************************************************************************)
(* The configuration                                                       *)
(***************************************************************************)

\* The lines read so far are good, and what they say is what has been taken.
ConfigInv ==
    /\ ConfigTypeOK
    /\ seen = Met(config_file, line_number, Names)
    /\ ValidConfig(config_file, line_number)
    /\ Says(config_file, line_number, config)
    /\ \A k \in Names : config[k] \in ranges[k]
    /\ config_result = "ok" => line_number = Len(config_file)
    /\ config_result = "invalid" => ~ValidConfig(config_file, Len(config_file))

\* The defaults are in their ranges.
LEMMA DefaultsInRange == \A k \in Names : defaults[k] \in ranges[k]
<1>1. defaults["interval_minutes"] \in ranges["interval_minutes"]
  <2>1. defaults["interval_minutes"] = 30
    BY SMT DEF defaults
  <2>2. ranges["interval_minutes"] = 1..1440
    BY SMT DEF ranges
  <2>3. 30 \in 1..1440
    BY SMT
  <2> QED
    BY ONLY <2>1, <2>2, <2>3, SMT
<1>2. defaults["sleep_seconds"] \in ranges["sleep_seconds"]
  <2>1. defaults["sleep_seconds"] = 300
    BY SMT DEF defaults
  <2>2. ranges["sleep_seconds"] = 1..3600
    BY SMT DEF ranges
  <2>3. 300 \in 1..3600
    BY SMT
  <2> QED
    BY ONLY <2>1, <2>2, <2>3, SMT
<1>3. defaults["screen_index"] \in ranges["screen_index"]
  <2>1. defaults["screen_index"] = 0
    BY SMT DEF defaults
  <2>2. ranges["screen_index"] = 0..INT_MAX
    BY SMT DEF ranges
  <2>3. INT_MAX \in Nat
    BY SMT DEF INT_MAX
  <2> QED
    BY <2>1, <2>2, <2>3, SMT
<1>4. defaults["idle_reset_seconds"] \in ranges["idle_reset_seconds"]
  <2>1. defaults["idle_reset_seconds"] = 0
    BY SMT DEF defaults
  <2> DEFINE day == 86400
  <2>2. ranges["idle_reset_seconds"] = 0..day /\ day \in Nat
    BY SMT DEF ranges
  <2> HIDE DEF day
  <2> QED
    BY <2>1, <2>2, SMT
<1> QED
  BY <1>1, <1>2, <1>3, <1>4 DEF Names

\* Nothing has been read, and the defaults are in their ranges.
LEMMA ConfigInitially == ConfigInit => ConfigInv
<1> SUFFICES ASSUME ConfigInit PROVE ConfigInv
  OBVIOUS
<1>1. ConfigTypeOK
  BY ConfigFilesAssumption DEF ConfigInit, ConfigTypeOK, defaults, Names
<1>2. seen = Met(config_file, line_number, Names)
  BY DEF ConfigInit, Met
<1>3. ValidConfig(config_file, line_number) /\ Says(config_file, line_number, config)
  BY DEF ConfigInit, ValidConfig, WellFormed, Says
<1>4. \A k \in Names : config[k] \in ranges[k]
  BY DefaultsInRange DEF ConfigInit
<1> QED
  BY <1>1, <1>2, <1>3, <1>4 DEF ConfigInv, ConfigInit

\* Every line of a file is a line.
LEMMA ConfigLineType ==
    ASSUME ConfigTypeOK, MoreLines
    PROVE  /\ CurrentLine \in Line
           /\ config_file \in Seq(Line)
           /\ line_number \in Nat /\ Len(config_file) \in Nat
           /\ line_number + 1 \in 1..Len(config_file)
BY ConfigFilesAssumption DEF ConfigTypeOK, MoreLines, CurrentLine

\* A line that is taken keeps the invariant.
LEMMA TakeLineKeeps == ConfigInv /\ TakeLine => ConfigInv'
<1> SUFFICES ASSUME ConfigInv, TakeLine PROVE ConfigInv'
  OBVIOUS
<1> DEFINE n == line_number
           l == CurrentLine
<1>0. /\ l \in Line /\ config_file \in Seq(Line)
      /\ n \in Nat /\ Len(config_file) \in Nat
      /\ n + 1 \in 1..Len(config_file)
  BY ConfigLineType DEF ConfigInv, TakeLine
<1>1. /\ l = config_file[n + 1]
      /\ IsEntry(l, Names) /\ l.key \in Names /\ l.key \notin seen
      /\ parse_int_range(l) /\ l.value \in ranges[l.key]
      /\ config' = [config EXCEPT ![l.key] = l.value]
      /\ line_number' = n + 1 /\ config_file' = config_file
      /\ config_result' = config_result /\ config_result = "reading"
  BY DEF TakeLine, MoreLines, CurrentLine, IsEntry, parse_int_range
<1>2. ConfigTypeOK'
  <2>1. l.value \in Int
    BY <1>0 DEF Line
  <2> QED
    BY <1>0, <1>1, <2>1 DEF ConfigInv, ConfigTypeOK, TakeLine
<1>3. (seen = Met(config_file, line_number, Names))'
  BY <1>0, <1>1, MetNext DEF ConfigInv, TakeLine
<1>4. \A j \in 1..n : IsEntry(config_file[j], Names) => config_file[j].key # l.key
  BY <1>0, <1>1, MetByLine DEF ConfigInv
<1>5. ValidConfig(config_file, n + 1)
  <2> SUFFICES ASSUME NEW i \in 1..(n + 1)
               PROVE  /\ config_file[i].kind # "malformed"
                      /\ IsEntry(config_file[i], Names) =>
                             /\ parse_int_range(config_file[i])
                             /\ \A j \in 1..(i - 1) :
                                    IsEntry(config_file[j], Names) =>
                                        config_file[j].key # config_file[i].key
    BY DEF ValidConfig, WellFormed
  <2>1. CASE i \in 1..n
    BY <2>1 DEF ConfigInv, ValidConfig, WellFormed
  <2>2. CASE i = n + 1
    <3>1. config_file[i] = l /\ i - 1 = n /\ l.kind # "malformed"
      BY <2>2, <1>0, <1>1 DEF IsEntry
    <3> QED
      BY <3>1, <1>1, <1>4
  <2> QED
    BY <2>1, <2>2, <1>0
<1>6. Says(config_file, n + 1, config')
  <2> SUFFICES ASSUME NEW k \in Names
               PROVE  /\ k \notin Met(config_file, n + 1, Names) =>
                             config'[k] = defaults[k]
                      /\ \A i \in 1..(n + 1) : IsEntry(config_file[i], {k}) =>
                             config'[k] = config_file[i].value
    BY DEF Says
  <2>1. CASE k = l.key
    <3>1. config'[k] = l.value
      BY <2>1, <1>1 DEF ConfigInv, ConfigTypeOK
    <3>2. k \in Met(config_file, n + 1, Names)
      BY <2>1, <1>0, <1>1, MetNext
    <3>3. \A i \in 1..n : ~IsEntry(config_file[i], {k})
      BY <2>1, <1>4 DEF IsEntry
    <3>4. ASSUME NEW i \in 1..(n + 1), IsEntry(config_file[i], {k})
          PROVE  config'[k] = config_file[i].value
      <4>1. i = n + 1
        BY <3>3, <3>4, <1>0
      <4> QED
        BY <4>1, <3>1, <1>1
    <3> QED
      BY <3>2, <3>4
  <2>2. CASE k # l.key
    <3>1. config'[k] = config[k]
      BY <2>2, <1>1 DEF ConfigInv, ConfigTypeOK
    <3>2. ~IsEntry(l, {k})
      BY <2>2 DEF IsEntry
    <3>3. k \in Met(config_file, n + 1, Names) <=> k \in Met(config_file, n, Names)
      BY <2>2, <1>0, <1>1, MetNext
    <3>4. ASSUME NEW i \in 1..(n + 1), IsEntry(config_file[i], {k})
          PROVE  config'[k] = config_file[i].value
      <4>1. i \in 1..n
        BY <3>2, <3>4, <1>0, <1>1
      <4> QED
        BY <4>1, <3>1, <3>4 DEF ConfigInv, Says
    <3> QED
      BY <3>1, <3>3, <3>4 DEF ConfigInv, Says
  <2> QED
    BY <2>1, <2>2
<1>7. (\A k \in Names : config[k] \in ranges[k])'
  BY <1>1 DEF ConfigInv, ConfigTypeOK
<1> QED
  BY <1>1, <1>2, <1>3, <1>5, <1>6, <1>7 DEF ConfigInv

\* A line that says nothing keeps it.
LEMMA SkipLineKeeps == ConfigInv /\ SkipLine => ConfigInv'
<1> SUFFICES ASSUME ConfigInv, SkipLine PROVE ConfigInv'
  OBVIOUS
<1> DEFINE n == line_number
           l == CurrentLine
<1>0. /\ l \in Line /\ config_file \in Seq(Line)
      /\ n \in Nat /\ Len(config_file) \in Nat
      /\ n + 1 \in 1..Len(config_file)
  BY ConfigLineType DEF ConfigInv, SkipLine
<1>1. /\ l = config_file[n + 1] /\ ~IsEntry(l, Names) /\ l.kind # "malformed"
      /\ UNCHANGED <<config_file, seen, config, config_result>>
      /\ line_number' = n + 1 /\ config_result = "reading"
  BY DEF SkipLine, MoreLines, CurrentLine
<1>2. ConfigTypeOK'
  BY <1>0, <1>1 DEF ConfigInv, ConfigTypeOK
<1>3. Met(config_file, n + 1, Names) = Met(config_file, n, Names)
  <2>1. ~IsEntry(config_file[n + 1], Names)
    BY <1>1
  <2> QED
    BY <2>1, <1>0, MetSkip
<1>4. ValidConfig(config_file, n + 1)
  BY <1>0, <1>1 DEF ConfigInv, ValidConfig, WellFormed
<1>5. Says(config_file, n + 1, config)
  BY <1>0, <1>1, <1>3 DEF ConfigInv, Says, IsEntry
<1> QED
  BY <1>1, <1>2, <1>3, <1>4, <1>5 DEF ConfigInv

\* A file is rejected only at a line for which it is not valid.
LEMMA RejectLineKeeps == ConfigInv /\ RejectLine => ConfigInv'
<1> SUFFICES ASSUME ConfigInv, RejectLine PROVE ConfigInv'
  OBVIOUS
<1> DEFINE n == line_number
           l == CurrentLine
<1>0. /\ config_file \in Seq(Line) /\ n \in Nat /\ Len(config_file) \in Nat
      /\ n + 1 \in 1..Len(config_file)
  BY ConfigLineType DEF ConfigInv, RejectLine
<1>1. /\ l = config_file[n + 1]
      /\ UNCHANGED <<config_file, line_number, seen, config>>
      /\ config_result' = "invalid"
  BY DEF RejectLine, CurrentLine
<1>2. ~ValidConfig(config_file, Len(config_file))
  <2>1. CASE l.kind = "malformed"
    BY <2>1, <1>0, <1>1 DEF ValidConfig, WellFormed
  <2>2. CASE IsEntry(l, Names) /\ l.key \in seen
    <3>1. PICK j \in 1..n : IsEntry(config_file[j], Names) /\ config_file[j].key = l.key
      BY <2>2, <1>0, MetByLine DEF ConfigInv
    <3> QED
      BY <2>2, <3>1, <1>0, <1>1 DEF ValidConfig, WellFormed
  <2>3. CASE IsEntry(l, Names) /\ ~parse_int_range(l)
    BY <2>3, <1>0, <1>1 DEF ValidConfig, WellFormed
  <2> QED
    BY <2>1, <2>2, <2>3 DEF RejectLine
<1> QED
  BY <1>1, <1>2 DEF ConfigInv, ConfigTypeOK

\* Every step of the loader keeps the invariant.
LEMMA ConfigStep == ConfigInv /\ [ConfigNext]_configVars => ConfigInv'
<1> SUFFICES ASSUME ConfigInv, [ConfigNext]_configVars PROVE ConfigInv'
  OBVIOUS
<1>1. CASE TakeLine
  BY <1>1, TakeLineKeeps
<1>2. CASE SkipLine
  BY <1>2, SkipLineKeeps
<1>3. CASE RejectLine
  BY <1>3, RejectLineKeeps
<1>4. CASE CannotRead
  BY <1>4 DEF CannotRead, ConfigInv, ConfigTypeOK
<1>5. CASE EndOfConfig
  BY <1>5 DEF EndOfConfig, ConfigInv, ConfigTypeOK
<1>6. CASE UNCHANGED configVars
  BY <1>6 DEF configVars, ConfigInv, ConfigTypeOK
<1> QED
  BY <1>1, <1>2, <1>3, <1>4, <1>5, <1>6 DEF ConfigNext

(***************************************************************************)
(* The manifest                                                            *)
(***************************************************************************)

\* What has been taken of the manifest is what its lines say.
Taken ==
    \A k \in Used :
        /\ k \notin Met(manifest, lineNumber, STRING) => assets[k] = 0
        /\ \A i \in 1..lineNumber :
               IsEntry(manifest[i], {k}) => assets[k] = manifest[i].value

ManifestInv ==
    /\ ManifestTypeOK
    /\ WellFormed(manifest, lineNumber, STRING, ValueIsGood)
    /\ Taken
    /\ manifest_result = "ok" => lineNumber = Len(manifest) /\ Complete
    /\ manifest_result = "invalid" => ~Acceptable(manifest)

\* Nothing has been read.
LEMMA ManifestInitially == ManifestInit => ManifestInv
<1> SUFFICES ASSUME ManifestInit PROVE ManifestInv
  OBVIOUS
<1>1. ManifestTypeOK
  BY ManifestsAssumption DEF ManifestInit, ManifestTypeOK
<1>2. WellFormed(manifest, lineNumber, STRING, ValueIsGood) /\ Taken
  BY DEF ManifestInit, WellFormed, Taken
<1> QED
  BY <1>1, <1>2 DEF ManifestInv, ManifestInit

\* Every line of a manifest is a line.
LEMMA ManifestLineType ==
    ASSUME ManifestTypeOK, LinesLeft
    PROVE  /\ ThisLine = manifest[lineNumber + 1]
           /\ ThisLine \in Line
           /\ manifest \in Seq(Line)
           /\ lineNumber \in Nat /\ Len(manifest) \in Nat
           /\ lineNumber + 1 \in 1..Len(manifest)
BY ManifestsAssumption DEF ManifestTypeOK, LinesLeft, ThisLine

\* A line that is read keeps the invariant.
LEMMA ReadLineKeeps == ManifestInv /\ ReadLine => ManifestInv'
<1> SUFFICES ASSUME ManifestInv, ReadLine PROVE ManifestInv'
  OBVIOUS
<1> DEFINE n == lineNumber
           l == ThisLine
           entry == l.kind = "entry"
<1>0. /\ l = manifest[n + 1] /\ l \in Line
      /\ n \in Nat /\ n + 1 \in 1..Len(manifest)
  BY ManifestLineType DEF ManifestInv, ReadLine
<1>1. /\ lineNumber' = n + 1 /\ manifest' = manifest
      /\ manifest_result' = manifest_result /\ manifest_result = "reading"
      /\ ~entry => assets' = assets
      /\ entry => /\ l.key \notin Met(manifest, n, STRING) /\ ValueIsGood(l)
                  /\ assets' = [k \in Used |->
                         IF k = l.key THEN l.value ELSE assets[k]]
      /\ l.kind # "malformed"
  BY DEF ReadLine, LinesLeft, SeenBefore
<1>2. IsEntry(l, STRING) <=> entry
  BY <1>0 DEF IsEntry, Line
<1>3. entry => \A j \in 1..n :
          IsEntry(manifest[j], STRING) => manifest[j].key # l.key
  BY <1>0, <1>1, MetByLine
<1>4. ManifestTypeOK'
  <2>1. l.value \in Int
    BY <1>0 DEF Line
  <2> QED
    BY <1>0, <1>1, <2>1 DEF ManifestInv, ManifestTypeOK
<1>5. WellFormed(manifest, n + 1, STRING, ValueIsGood)
  <2> SUFFICES ASSUME NEW i \in 1..(n + 1)
               PROVE  /\ manifest[i].kind # "malformed"
                      /\ IsEntry(manifest[i], STRING) =>
                             /\ ValueIsGood(manifest[i])
                             /\ \A j \in 1..(i - 1) :
                                    IsEntry(manifest[j], STRING) =>
                                        manifest[j].key # manifest[i].key
    BY DEF WellFormed
  <2>1. CASE i \in 1..n
    BY <2>1 DEF ManifestInv, WellFormed
  <2>2. CASE i = n + 1
    <3>1. manifest[i] = l /\ i - 1 = n
      BY <2>2, <1>0
    <3> QED
      BY <3>1, <1>1, <1>2, <1>3
  <2> QED
    BY <2>1, <2>2, <1>0
<1>6. Taken'
  <2> SUFFICES ASSUME NEW k \in Used
               PROVE  /\ k \notin Met(manifest, n + 1, STRING) => assets'[k] = 0
                      /\ \A i \in 1..(n + 1) : IsEntry(manifest[i], {k}) =>
                             assets'[k] = manifest[i].value
    BY <1>1 DEF Taken
  <2>1. CASE entry /\ k = l.key
    <3>1. assets'[k] = l.value
      BY <2>1, <1>1
    <3>2. k \in Met(manifest, n + 1, STRING)
      BY <2>1, <1>0, <1>2, MetByLine
    <3>3. ASSUME NEW i \in 1..(n + 1), IsEntry(manifest[i], {k})
          PROVE  assets'[k] = manifest[i].value
      <4>1. k \in STRING
        BY <2>1, <1>0 DEF Line
      <4>2. IsEntry(manifest[i], STRING) /\ manifest[i].key = l.key
        BY <2>1, <3>3, <4>1 DEF IsEntry
      <4>3. i = n + 1
        BY <2>1, <4>2, <1>0, <1>3
      <4> QED
        BY <4>3, <3>1, <1>0
    <3> QED
      BY <3>2, <3>3
  <2>2. CASE ~(entry /\ k = l.key)
    <3>1. assets'[k] = assets[k]
      BY <2>2, <1>1 DEF ManifestInv, ManifestTypeOK
    <3>2. ~IsEntry(l, {k})
      BY <2>2 DEF IsEntry
    <3>3. k \in Met(manifest, n, STRING) => k \in Met(manifest, n + 1, STRING)
      BY <1>0, MetByLine
    <3>4. ASSUME NEW i \in 1..(n + 1), IsEntry(manifest[i], {k})
          PROVE  assets'[k] = manifest[i].value
      <4>1. i \in 1..n
        BY <3>2, <3>4, <1>0
      <4> QED
        BY <4>1, <3>1, <3>4 DEF ManifestInv, Taken
    <3> QED
      BY <3>1, <3>3, <3>4 DEF ManifestInv, Taken
  <2> QED
    BY <2>1, <2>2
<1> QED
  BY <1>1, <1>4, <1>5, <1>6 DEF ManifestInv

\* A manifest is rejected at a line only if no manifest with that line will do.
LEMMA RejectManifestKeeps == ManifestInv /\ RejectManifest => ManifestInv'
<1> SUFFICES ASSUME ManifestInv, RejectManifest PROVE ManifestInv'
  OBVIOUS
<1> DEFINE n == lineNumber
           l == ThisLine
<1>0. /\ l = manifest[n + 1] /\ l \in Line
      /\ n \in Nat /\ Len(manifest) \in Nat /\ n + 1 \in 1..Len(manifest)
  BY ManifestLineType DEF ManifestInv, RejectManifest
<1>1. /\ UNCHANGED <<manifest, lineNumber, assets>>
      /\ manifest_result' = "invalid"
  BY DEF RejectManifest
<1>2. l.kind = "entry" => IsEntry(l, STRING)
  BY <1>0 DEF IsEntry, Line
<1>3. ~WellFormed(manifest, Len(manifest), STRING, ValueIsGood)
  <2>1. CASE l.kind = "malformed"
    BY <2>1, <1>0 DEF WellFormed
  <2>2. CASE l.kind = "entry" /\ SeenBefore
    <3>1. PICK j \in 1..n : IsEntry(manifest[j], STRING) /\ manifest[j].key = l.key
      BY <2>2, <1>0, MetByLine DEF SeenBefore
    <3> QED
      BY <2>2, <3>1, <1>0, <1>2 DEF WellFormed
  <2>3. CASE l.kind = "entry" /\ ~ValueIsGood(l)
    BY <2>3, <1>0, <1>2 DEF WellFormed
  <2> QED
    BY <2>1, <2>2, <2>3 DEF RejectManifest
<1>4. ~Acceptable(manifest)
  BY <1>3 DEF Acceptable
<1> QED
  BY <1>1, <1>4 DEF ManifestInv, ManifestTypeOK, Taken

\* A complete manifest is acceptable, and its numbers are in their ranges.
LEMMA CompleteIsAcceptable ==
    ASSUME ManifestInv, lineNumber = Len(manifest), Complete
    PROVE  /\ Acceptable(manifest)
           /\ assets["fps"] \in Rates
           /\ \A k \in Frames : assets[k] \in Counts
<1> DEFINE format == assets["asset_format"]
           met == Met(manifest, Len(manifest), STRING)
<1>0. lineNumber \in Nat /\ manifest \in Seq(Line) /\ Len(manifest) \in Nat
  BY ManifestsAssumption DEF ManifestInv, ManifestTypeOK
<1>1. required(format) \subseteq met
  BY DEF Complete
<1>2. \A k \in met : \E i \in 1..lineNumber :
          /\ IsEntry(manifest[i], {k}) /\ manifest[i].key = k
          /\ ValueIsGood(manifest[i])
  BY <1>0, MetByLine DEF ManifestInv, WellFormed, IsEntry
<1>3. format \in {png_sequence, video_alpha}
  <2>1. CASE "asset_format" \in met
    <3>1. PICK i \in 1..lineNumber :
              /\ IsEntry(manifest[i], {"asset_format"})
              /\ manifest[i].key = "asset_format" /\ ValueIsGood(manifest[i])
      BY <2>1, <1>2
    <3>2. format = manifest[i].value
      BY <3>1 DEF ManifestInv, Taken, Used
    <3> QED
      BY <3>1, <3>2 DEF ValueIsGood
  <2>2. CASE "asset_format" \notin met
    <3>1. format = 0
      BY <2>2 DEF ManifestInv, Taken, Used
    <3> QED
      BY <3>1 DEF png_sequence
  <2> QED
    BY <2>1, <2>2
<1>4. Acceptable(manifest)
  <2>1. \A i \in 1..Len(manifest) :
            IsEntry(manifest[i], {"asset_format"}) => manifest[i].value = format
    BY DEF ManifestInv, Taken, Used
  <2> QED
    BY <1>1, <1>3, <2>1 DEF Acceptable, ManifestInv
<1>5. assets["fps"] \in Rates
  <2>1. "fps" \in met
    BY <1>1 DEF required
  <2>2. PICK i \in 1..lineNumber :
            /\ IsEntry(manifest[i], {"fps"}) /\ manifest[i].key = "fps"
            /\ ValueIsGood(manifest[i])
    BY <2>1, <1>2
  <2>3. assets["fps"] = manifest[i].value
    BY <2>2 DEF ManifestInv, Taken, Used
  <2>4. manifest[i].value \in Rates
    BY <2>2 DEF ValueIsGood
  <2> QED
    BY <2>3, <2>4
<1>6. ASSUME NEW k \in Frames
      PROVE  assets[k] \in Counts
  <2>1. k \in met
    BY <1>1 DEF required
  <2>2. PICK i \in 1..lineNumber :
            /\ IsEntry(manifest[i], {k}) /\ manifest[i].key = k
            /\ ValueIsGood(manifest[i])
    BY <2>1, <1>2
  <2>3. assets[k] = manifest[i].value
    BY <2>2 DEF ManifestInv, Taken, Used
  <2>4. manifest[i].value \in Counts
    BY <2>2 DEF ValueIsGood
  <2> QED
    BY <2>3, <2>4
<1> QED
  BY <1>4, <1>5, <1>6

\* A manifest that lacks a key is not acceptable in either format.
LEMMA IncompleteIsNot ==
    ASSUME ManifestInv, lineNumber = Len(manifest), ~Complete
    PROVE  ~Acceptable(manifest)
<1> SUFFICES ASSUME Acceptable(manifest) PROVE FALSE
  OBVIOUS
<1> DEFINE met == Met(manifest, Len(manifest), STRING)
<1>0. Len(manifest) \in Nat
  BY ManifestsAssumption DEF ManifestInv, ManifestTypeOK
<1>1. PICK format \in {png_sequence, video_alpha} :
          /\ required(format) \subseteq met
          /\ \A i \in 1..Len(manifest) :
                 IsEntry(manifest[i], {"asset_format"}) =>
                     manifest[i].value = format
  BY DEF Acceptable
<1>2. assets["asset_format"] = format
  <2>1. CASE "asset_format" \in met
    <3>1. PICK i \in 1..Len(manifest) : IsEntry(manifest[i], {"asset_format"})
      BY <2>1, <1>0, MetByLine DEF IsEntry
    <3>2. assets["asset_format"] = manifest[i].value
      BY <3>1 DEF ManifestInv, Taken, Used
    <3> QED
      BY <3>1, <3>2, <1>1
  <2>2. CASE "asset_format" \notin met
    <3>1. assets["asset_format"] = png_sequence
      BY <2>2 DEF ManifestInv, Taken, Used, png_sequence
    <3>2. format = png_sequence
      BY <2>2, <1>1 DEF required
    <3> QED
      BY <3>1, <3>2
  <2> QED
    BY <2>1, <2>2
<1> QED
  BY <1>1, <1>2 DEF Complete

\* Every step of the loader keeps the invariant.
LEMMA ManifestStep == ManifestInv /\ [ManifestNext]_manifestVars => ManifestInv'
<1> SUFFICES ASSUME ManifestInv, [ManifestNext]_manifestVars PROVE ManifestInv'
  OBVIOUS
<1>1. CASE ReadLine
  BY <1>1, ReadLineKeeps
<1>2. CASE RejectManifest
  BY <1>2, RejectManifestKeeps
<1>3. CASE EndOfManifest
  <2>1. /\ lineNumber = Len(manifest)
        /\ UNCHANGED <<manifest, lineNumber, assets>>
        /\ Complete' = Complete
    BY <1>3 DEF EndOfManifest, Complete
  <2>2. CASE Complete
    BY <1>3, <2>1, <2>2 DEF EndOfManifest, ManifestInv, ManifestTypeOK, Taken
  <2>3. CASE ~Complete
    BY <1>3, <2>1, <2>3, IncompleteIsNot
      DEF EndOfManifest, ManifestInv, ManifestTypeOK, Taken
  <2> QED
    BY <2>2, <2>3
<1>4. CASE NoManifest
  BY <1>4 DEF NoManifest, ManifestInv, ManifestTypeOK, Taken
<1>5. CASE UNCHANGED manifestVars
  BY <1>5 DEF manifestVars, ManifestInv, ManifestTypeOK, Taken, Complete
<1> QED
  BY <1>1, <1>2, <1>3, <1>4, <1>5 DEF ManifestNext

(***************************************************************************)
(* The overlay                                                             *)
(***************************************************************************)

\* A command line that the daemon wrote says what the configuration says, and
\* the property holds.
StartInv ==
    /\ caller = "daemon" /\ stage # "none" =>
           /\ config_result = "ok"
           /\ arguments = commandLine
    /\ OverlayStarts

Inv == ConfigInv /\ ManifestInv /\ StartInv

\* The initial states satisfy the invariant.
LEMMA Initially == Init => Inv
<1> SUFFICES ASSUME Init PROVE Inv
  OBVIOUS
<1>1. ConfigInv /\ ManifestInv
  BY ConfigInitially, ManifestInitially DEF Init
<1>2. StartInv
  BY DEF Init, StartInv, OverlayStarts
<1> QED
  BY <1>1, <1>2 DEF Inv

\* What an accepted configuration says can be passed on: the overlay takes it.
LEMMA ConfigIsUsable ==
    ASSUME ConfigInv, StartInv, caller = "daemon", stage = "arguments"
    PROVE  Usable(arguments)
<1>1. /\ arguments.readable = TRUE /\ arguments.backend = "auto"
      /\ arguments.sleep = config["sleep_seconds"]
      /\ arguments.screen = config["screen_index"]
  BY DEF StartInv, commandLine
<1>2. PICK sleep : sleep = config["sleep_seconds"] /\ sleep \in 1..3600
  <2>1. ranges["sleep_seconds"] = 1..3600
    BY SMT DEF ranges
  <2>2. PICK sleep : sleep = config["sleep_seconds"]
    OBVIOUS
  <2>3. sleep \in ranges["sleep_seconds"]
    BY <2>2 DEF ConfigInv, Names
  <2>4. sleep \in 1..3600
    BY ONLY <2>1, <2>3, SMT
  <2> QED
    BY <2>2, <2>4
<1>3. PICK screen : screen = config["screen_index"] /\ screen \in Nat
  <2>1. ranges["screen_index"] = 0..INT_MAX
    BY SMT DEF ranges
  <2>2. INT_MAX \in Nat
    BY SMT DEF INT_MAX
  <2>3. PICK screen : screen = config["screen_index"]
    OBVIOUS
  <2>4. screen \in ranges["screen_index"]
    BY <2>3 DEF ConfigInv, Names
  <2>5. screen \in Nat
    BY ONLY <2>1, <2>2, <2>4, SMT
  <2> QED
    BY <2>3, <2>5
<1>4. /\ arguments.sleep = sleep /\ sleep >= 1 /\ sleep <= 3600
      /\ arguments.screen = screen /\ screen >= 0
  <2>1. sleep \in 1..3600 /\ screen \in Nat
    BY <1>2, <1>3
  <2>2. sleep >= 1 /\ sleep <= 3600 /\ screen >= 0
    BY ONLY <2>1, SMT
  <2> QED
    BY <1>1, <1>2, <1>3, <2>2
<1> QED
  BY <1>1, <1>4 DEF Usable

\* Every step keeps the invariant.
LEMMA Inductive == Inv /\ [Next]_vars => Inv'
<1> SUFFICES ASSUME Inv, [Next]_vars PROVE Inv'
  OBVIOUS
<1> USE DEF Inv
<1>1. CASE ReadConfig
  <2>1. ConfigInv'
    BY <1>1, ConfigStep DEF ReadConfig
  <2>2. ManifestInv'
    BY <1>1, ManifestStep DEF ReadConfig
  <2>3. stage = "none"
    BY <1>1 DEF ReadConfig, StartInv, ConfigNext, TakeLine, SkipLine, RejectLine,
                CannotRead, EndOfConfig, MoreLines
  <2>4. StartInv'
    BY <1>1, <2>3 DEF ReadConfig, StartInv, OverlayStarts, overlayVars
  <2> QED
    BY <2>1, <2>2, <2>4
<1>2. CASE DaemonStarts
  <2>1. ConfigInv' /\ ManifestInv'
    BY <1>2, ConfigStep, ManifestStep DEF DaemonStarts
  <2>2. StartInv'
    BY <1>2 DEF DaemonStarts, StartInv, OverlayStarts, configVars, commandLine
  <2> QED
    BY <2>1, <2>2
<1>3. CASE UserStarts
  <2>1. ConfigInv' /\ ManifestInv'
    BY <1>3, ConfigStep, ManifestStep DEF UserStarts
  <2>2. StartInv'
    BY <1>3 DEF UserStarts, StartInv, OverlayStarts
  <2> QED
    BY <2>1, <2>2
<1>4. CASE CheckArguments
  <2>1. ConfigInv' /\ ManifestInv'
    BY <1>4, ConfigStep, ManifestStep DEF CheckArguments
  <2>2. caller = "daemon" => stage' = "manifest"
    BY <1>4, ConfigIsUsable DEF CheckArguments
  <2>3. StartInv'
    BY <1>4, <2>2 DEF CheckArguments, StartInv, OverlayStarts, configVars, commandLine
  <2> QED
    BY <2>1, <2>3
<1>5. CASE LoadManifest
  <2>1. ConfigInv' /\ ManifestInv'
    BY <1>5, ConfigStep, ManifestStep DEF LoadManifest
  <2>2. StartInv'
    BY <1>5 DEF LoadManifest, StartInv, OverlayStarts, configVars, overlayVars,
                commandLine
  <2> QED
    BY <2>1, <2>2
<1>6. CASE ManifestUnusable
  <2>1. ConfigInv' /\ ManifestInv'
    BY <1>6, ConfigStep, ManifestStep DEF ManifestUnusable
  <2>2. StartInv'
    BY <1>6 DEF ManifestUnusable, StartInv, OverlayStarts, configVars, manifestVars,
                commandLine
  <2> QED
    BY <2>1, <2>2
<1>7. CASE OpenWindow
  <2>1. ConfigInv' /\ ManifestInv'
    BY <1>7, ConfigStep, ManifestStep DEF OpenWindow
  <2>2. UNCHANGED <<config, config_result, caller, arguments>>
    BY <1>7 DEF OpenWindow, configVars
  <2>3. OverlayStarts'
    <3> SUFFICES ASSUME caller = "daemon" PROVE OverlayStarts'
      BY <2>2 DEF OverlayStarts
    <3>1. arguments.backend = "auto" /\ arguments.screen = config["screen_index"]
      BY <1>7 DEF OpenWindow, StartInv, commandLine
    <3>2. CASE initialize(desk')
      <4>1. desk'.screens \in Nat /\ desk'.screens > 0
        BY <1>7, <3>2, MaxScreensAssumption DEF OpenWindow, Desks, initialize
      <4> QED
        BY <1>7, <2>2, <3>1, <3>2, <4>1
          DEF OpenWindow, OverlayStarts, screenByIndex
    <3>3. CASE ~initialize(desk')
      <4>1. backendFound(arguments.backend, desk')
        BY <3>1 DEF backendFound
      <4> QED
        BY <1>7, <2>2, <3>3, <4>1 DEF OpenWindow, OverlayStarts, initialize
    <3> QED
      BY <3>2, <3>3
  <2>4. StartInv'
    BY <1>7, <2>2, <2>3 DEF OpenWindow, StartInv, commandLine
  <2> QED
    BY <2>1, <2>4
<1>8. CASE UNCHANGED vars
  <2>1. ConfigInv' /\ ManifestInv'
    BY <1>8, ConfigStep, ManifestStep DEF vars
  <2>2. StartInv'
    BY <1>8 DEF vars, configVars, manifestVars, overlayVars, StartInv, OverlayStarts,
                commandLine
  <2> QED
    BY <2>1, <2>2
<1> QED
  BY <1>1, <1>2, <1>3, <1>4, <1>5, <1>6, <1>7, <1>8 DEF Next

(***************************************************************************)
(* The theorems                                                            *)
(***************************************************************************)

\* The invariant holds for every set of files and of desktops (config.c:107-221;
\* ProcessedAssets.cpp:102-310; main.cpp:97-133).
THEOREM Invariance == Spec => []Inv
BY Initially, Inductive, PTL DEF Spec

\* Exactly the good configuration files are accepted, for what they say
\* (config.c:130-211).
THEOREM ConfigIsExact == Spec => []ConfigExact
<1>1. Inv => ConfigExact
  BY DEF Inv, ConfigInv, ConfigExact
<1> QED
  BY <1>1, Invariance, PTL

\* Exactly the acceptable manifests are used, and the overlay computes with numbers
\* that are in their ranges (ProcessedAssets.cpp:117-299).
THEOREM ManifestIsExact == Spec => []ManifestExact
<1>1. Inv => ManifestExact
  BY CompleteIsAcceptable DEF Inv, ManifestInv, ManifestExact
<1> QED
  BY <1>1, Invariance, PTL

\* The overlay takes every command line the daemon writes, and fails only for its
\* manifest or its desktop (reminder.c:307-331; main.cpp:105-130).
THEOREM OverlayTakesOver == Spec => []OverlayStarts
<1>1. Inv => OverlayStarts
  BY DEF Inv, StartInv
<1> QED
  BY <1>1, Invariance, PTL

=============================================================================
