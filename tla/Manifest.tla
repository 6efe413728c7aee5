------------------------------ MODULE Manifest ------------------------------
(* loadAssets of src/overlay/ProcessedAssets.cpp, one line of the manifest   *)
(* at a time.                                                                *)
EXTENDS KeyValue

CONSTANT Manifests  \* the manifests there may be

ASSUME ManifestsAssumption == Manifests \subseteq Seq(Line)

VARIABLES manifest,         \* manifest.conf
          lineNumber,       \* the lines read so far
          assets,           \* the members of ProcessedAssets that the overlay
                            \* computes with
          manifest_result   \* what loadBundled has to say

manifestVars == <<manifest, lineNumber, assets, manifest_result>>

png_sequence == 0
video_alpha == 1

Sizes == {"width", "height", "clip1_frame_width", "clip1_frame_height",
          "clip2_frame_width", "clip2_frame_height"}
Offsets == {"clip1_offset_x", "clip1_offset_y", "clip2_offset_x", "clip2_offset_y"}
Frames == {"clip1_frames", "clip2_frames"}

\* Mutant: the numbers of frames are not asked for.
requiredNotFrames(format) ==
    {"fps", "global_opacity"} \union Sizes \union Offsets
    \union IF format = png_sequence
           THEN {"clip1_dir", "clip2_dir"}
           ELSE {"asset_format", "clip1_video", "clip2_video"}

required(format) ==
    {"fps", "global_opacity"} \union Frames \union Sizes \union Offsets
    \union IF format = png_sequence
           THEN {"clip1_dir", "clip2_dir"}
           ELSE {"asset_format", "clip1_video", "clip2_video"}

Versions == 1..3
Rates == 1..240
Extents == 1..16384
Shifts == -16384..16384
Counts == 1..100000

\* The names of directories and files, opacities and booleans parse or do not.  A
\* key that is unknown, or a name of a clip, takes any value.
ValueIsGood(l) ==
    /\ l.parses
    /\ l.key = "version" => l.value \in Versions
    /\ l.key = "asset_format" => l.value \in {png_sequence, video_alpha}
    /\ l.key = "fps" => l.value \in Rates
    /\ l.key \in Sizes => l.value \in Extents
    /\ l.key \in Offsets => l.value \in Shifts
    /\ l.key \in Frames => l.value \in Counts

Used == {"asset_format", "fps"} \union Frames

ManifestInit ==
    /\ manifest \in Manifests
    /\ lineNumber = 0
    /\ assets = [k \in Used |-> 0]
    /\ manifest_result = "reading"

-----------------------------------------------------------------------------
ThisLine == manifest[lineNumber + 1]

LinesLeft == manifest_result = "reading" /\ lineNumber < Len(manifest)

\* Unknown keys must not come twice either.
SeenBefore == ThisLine.key \in Met(manifest, lineNumber, STRING)

ReadLine ==
    /\ LinesLeft
    /\ \/ ThisLine.kind = "blank" /\ UNCHANGED assets
       \/ /\ ThisLine.kind = "entry" /\ ~SeenBefore /\ ValueIsGood(ThisLine)
          /\ assets' = [k \in Used |->
                 IF k = ThisLine.key THEN ThisLine.value ELSE assets[k]]
    /\ lineNumber' = lineNumber + 1
    /\ UNCHANGED <<manifest, manifest_result>>

RejectManifest ==
    /\ LinesLeft
    /\ \/ ThisLine.kind = "malformed"
       \/ ThisLine.kind = "entry" /\ (SeenBefore \/ ~ValueIsGood(ThisLine))
    /\ manifest_result' = "invalid"
    /\ UNCHANGED <<manifest, lineNumber, assets>>

Complete ==
    required(assets["asset_format"]) \subseteq Met(manifest, lineNumber, STRING)

\* If no key is missing, what is left is whether the pictures or videos are there.
EndOfManifest ==
    /\ manifest_result = "reading" /\ lineNumber = Len(manifest)
    /\ \/ Complete /\ manifest_result' \in {"ok", "missing"}
       \/ ~Complete /\ manifest_result' = "invalid"
    /\ UNCHANGED <<manifest, lineNumber, assets>>

\* manifest.conf cannot be opened.
NoManifest ==
    /\ manifest_result = "reading" /\ lineNumber = 0
    /\ manifest_result' = "missing"
    /\ UNCHANGED <<manifest, lineNumber, assets>>

ManifestNext == ReadLine \/ RejectManifest \/ EndOfManifest \/ NoManifest

-----------------------------------------------------------------------------
ManifestTypeOK ==
    /\ manifest \in Manifests
    /\ lineNumber \in 0..Len(manifest)
    /\ assets \in [Used -> Int]
    /\ manifest_result \in {"reading", "ok", "missing", "invalid"}

Acceptable(file) ==
    /\ WellFormed(file, Len(file), STRING, ValueIsGood)
    /\ \E format \in {png_sequence, video_alpha} :
           /\ required(format) \subseteq Met(file, Len(file), STRING)
           /\ \A i \in 1..Len(file) :
                  IsEntry(file[i], {"asset_format"}) => file[i].value = format

\* A manifest is used exactly if it is acceptable, in whatever order its lines come
\* and whichever of the two formats they are for; the overlay then divides by a
\* frame rate that is not zero and counts to numbers of frames that are in range
\* (ProcessedAssets.cpp:117-299; FrameSequence.cpp:126-139, OverlayWindow.cpp:252).
ManifestExact ==
    /\ manifest_result = "ok" =>
           /\ Acceptable(manifest)
           /\ assets["fps"] \in Rates
           /\ \A k \in Frames : assets[k] \in Counts
    /\ manifest_result = "invalid" => ~Acceptable(manifest)

=============================================================================
