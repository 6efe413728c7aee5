\* The bundled assets, as videos with a frame missing at the end of the intro, or as
\* images.  The intro lasts 9 units, the sleep 14: twice round the sleep clip, with a
\* rewind at each end.  The codec keeps two frames back.  The overlay exits at the end.
CONSTANTS
    Clips <- MCClips
    VideoFrames <- MCVideoFrames
    Frames <- MCFrames
    HeldBack = 2
    fps = 3
    Second = 7
    sleepSeconds = 2
    MaxElapsed = 26
SPECIFICATION Spec
CHECK_DEADLOCK FALSE
INVARIANTS
    TypeOK
    InStep
    CountdownIsHonest
    EndsOnlyIfTooShort
PROPERTIES
    PlaysOnTime
    OverlayEnds
