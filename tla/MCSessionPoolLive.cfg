\* The abstract contract and liveness, without pre-ping and without overflow.
CONSTANTS
    Worker = {w1, w2}
    Session = {s1}
    Unit = {u1, u2}
    NoSession = NoSession
    NoUnit = NoUnit
    PoolSize = 1
    PrePing = FALSE
SPECIFICATION FairSpec
PROPERTIES
    Returned
    Implements
\* The slot may be lost for good: see MCSessionPool.cfg.
CHECK_DEADLOCK FALSE
