SPECIFICATION Spec
CONSTANTS
    Unit = 3
    Buckets = 3
    Width = 23
    Regulation = 2
    Resolution = 2
    Airtimes = {1, 3}
    MaxFrames = 4
INVARIANTS Remembered WaitsExactly
