--------------------------- MODULE MCOverlayStart ---------------------------
(* The files and command lines that OverlayStart is checked with.            *)
EXTENDS OverlayStart, FiniteSets

Blank == [kind |-> "blank", key |-> "", parses |-> FALSE, value |-> 0]
Malformed == [Blank EXCEPT !.kind = "malformed"]
Entry(k, v) == [kind |-> "entry", key |-> k, parses |-> TRUE, value |-> v]
Unparsable(k) == [Entry(k, 0) EXCEPT !.parses = FALSE]

\* Both ends of each range, and what is next to them.
ConfigLines ==
    {Blank, Malformed, Unparsable("sleep_seconds"), Entry("colour", 7)}
    \union {Entry("interval_minutes", v) : v \in {0, 1, 1440, 1441}}
    \union {Entry("sleep_seconds", v) : v \in {0, 1, 3600, 3601}}
    \union {Entry("screen_index", v) : v \in {-1, 0, 1, 2, INT_MAX}}
    \union {Entry("idle_reset_seconds", v) : v \in {-1, 0, 86400, 86401}}

\* Every file of at most two lines, and two that set everything.
AllSettings ==
    <<Entry("interval_minutes", 1440), Blank, Entry("sleep_seconds", 3600),
      Entry("screen_index", 1), Entry("idle_reset_seconds", 86400)>>

MCConfigFiles ==
    UNION {[1..n -> ConfigLines] : n \in 0..2}
    \union {AllSettings, Append(AllSettings, Entry("screen_index", 0))}

-----------------------------------------------------------------------------
\* The manifest of the repository (assets/manifest.conf).
Bundled ==
    <<Entry("version", 3), Entry("asset_format", video_alpha), Entry("fps", 30),
      Entry("width", 1920), Entry("height", 1080), Entry("global_opacity", 1),
      Entry("background_opacity", 0),
      Entry("clip1_name", 0), Entry("clip1_video", 0), Entry("clip1_frames", 329),
      Entry("clip1_loop", 0), Entry("clip1_frame_width", 1920),
      Entry("clip1_frame_height", 1080), Entry("clip1_offset_x", 0),
      Entry("clip1_offset_y", 0),
      Entry("clip2_name", 0), Entry("clip2_video", 0), Entry("clip2_frames", 239),
      Entry("clip2_loop", 1), Entry("clip2_frame_width", 1920),
      Entry("clip2_frame_height", 1080), Entry("clip2_offset_x", 0),
      Entry("clip2_offset_y", 0)>>

Replace(i, l) == [Bundled EXCEPT ![i] = l]
Without(i) == Replace(i, Blank)
Lines == DOMAIN Bundled

\* One that asks for pictures, and says so only by default or in so many words.
Pictures(format) ==
    [[[Bundled EXCEPT ![2] = format]
        EXCEPT ![9] = Entry("clip1_dir", 0)]
        EXCEPT ![17] = Entry("clip2_dir", 0)]

MCManifests ==
    {Bundled, Pictures(Blank), Pictures(Entry("asset_format", png_sequence)),
     Pictures(Entry("asset_format", video_alpha)), <<>>,
     Replace(1, Malformed), Replace(3, Malformed)}
    \union {Without(i) : i \in Lines}
    \union {Append(Bundled, Bundled[i]) : i \in {2, 3, 10, 18}}
    \union {Replace(i, Unparsable(Bundled[i].key)) : i \in {3, 6, 11}}
    \union {Append(Append(Bundled, Entry("author", 1)), Entry(k, 2)) :
                k \in {"author", "licence"}}
    \union {Replace(3, Entry("fps", v)) : v \in {0, 1, 240, 241}}
    \union {Replace(10, Entry("clip1_frames", v)) : v \in {0, 1, 100000, 100001}}
    \union {Replace(23, Entry("clip2_offset_y", v)) :
                v \in {-16385, -16384, 16384, 16385}}

MCHandArguments ==
    {[readable |-> r, sleep |-> s, screen |-> d, backend |-> b] :
        r \in BOOLEAN, s \in {0, 1, 3600, 3601}, d \in {-1, 0, 2},
        b \in {"auto", "layer-shell", "window", "unknown"}}
=============================================================================
