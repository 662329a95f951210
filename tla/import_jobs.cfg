\* Two accounts, two permits, every fault.
SPECIFICATION FairSpec
CONSTANTS
    Users = {ana, bob}
    Jobs = {j1, j2}
    Requests = {r1, r2}
    Slots = 2
    SlowTasks = TRUE
INVARIANTS
    TypeOK
    SlotsAccounted
    OneTaskPerAccount
PROPERTIES
    CompletedImportIsFinal
    NoImportStuck
