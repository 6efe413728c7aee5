\* The overlay is up, or has ended, and that is all.
CONSTANTS
    ConfigFiles <- MCConfigFiles
    Manifests <- MCManifests
    HandArguments <- MCHandArguments
    MaxScreens = 2
SPECIFICATION Spec
CHECK_DEADLOCK FALSE
INVARIANTS
    ConfigExact
    ManifestExact
    OverlayStarts
