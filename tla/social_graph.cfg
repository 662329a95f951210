\* Three members, two requests in flight, room for one pending request.
SPECIFICATION Spec
CONSTANTS
    Users = {1, 2, 3}
    Requests = {r1, r2}
    Pairs <- AboutThree
    Nonces = {n1}
    MaxFollows = 2
    MaxPending = 1
    MaxBlocks = 1
SYMMETRY RequestSymmetry
INVARIANTS
    TypeOK
    BlockSevers
    PublicHasNoPending
    NoDeadlock
PROPERTIES
    MessagesBetweenMutuals
