SPECIFICATION Spec
CONSTANTS
    n1 = n1
    n2 = n2
    n3 = n3
    u1 = u1
    u2 = u2
    g1 = g1
    g2 = g2
    c1 = c1
    p1 = p1
    NoNode = NoNode
    NoClone = NoClone
    Nodes = {n1, n2, n3}
    UnitIds = {u1, u2}
    Groups = {g1, g2}
    Collections = {c1}
    Scopes = {p1}
    MaxProgress = 1
    ThePayload <- Retokenize
    UnitToNode <- TwoOwners
    Setups <- SafetySetups
    maxCompletedCallbackAttempts = 2
INVARIANTS
    TypeOK
    FinishedIsComplete
    FlipNeedsEveryAck
    CutoverNotTorn
    SwapBehindBarrier
    AcksAreHonest
    CleanedStaysClean
