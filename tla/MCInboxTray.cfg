\* The daemon with the nightly full sync, and a kurultai index beside it.
SPECIFICATION FairSpec
CONSTANTS
    note1 = note1
    note2 = note2
    junk = junk
    broken = broken
    NoFile = NoFile
    daemon = daemon
    Process = {daemon, command}
    Daemon = daemon
    Dump = {note1, note2, broken}
    Name = {"note.md", "log.txt", "rows.json"}
    NameOf <- MCNameOf
    Bad = {broken}
    Junk = {note2}
    MovedIn = {note2}
    SavesOver = TRUE
    Nightly = TRUE
    MaxFaults = 1
INVARIANTS
    TypeOK
    NoDumpVanishes
    FiledAfterWritten
PROPERTIES
    TrayDrains
