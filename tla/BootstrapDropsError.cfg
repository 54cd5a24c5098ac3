CONSTANTS
    MaxFaults = 1
    Entries = 3
    Current = 3
SPECIFICATION Spec
INVARIANT GethHasWholeArchive
