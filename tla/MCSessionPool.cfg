\* Two workers over a pool of one idle slot and one overflow slot, pre-ping on.
CONSTANTS
    Worker = {w1, w2}
    Session = {s1, s2}
    Unit = {u1, u2}
    NoSession = NoSession
    NoUnit = NoUnit
    PoolSize = 1
    PrePing = TRUE
SYMMETRY Symmetry
SPECIFICATION Spec
INVARIANTS
    NothingLeaked
    IdleClean
    NoResurrection
    Durability
    FailedCommitEndsTransaction
    OwnWorkOnly
    LostOnlyToDeadAutocommit
PROPERTIES
    InvalidationJustified
    DeadNotPooled
\* When every slot is lost (LostOnlyToDeadAutocommit says how) no worker can
\* check out a connection any more: the application really stops.
CHECK_DEADLOCK FALSE
