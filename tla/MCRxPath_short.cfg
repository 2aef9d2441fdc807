SPECIFICATION Spec
CONSTANTS
    m0 = m0
    m1 = m1
    m2 = m2
    mb = mb
    self <- MCSelf
    peer <- MCPeer
    Broadcast = mb
    MACs <- MCMACs
    Frames <- MCFrames
INVARIANT LengthsInFrame
