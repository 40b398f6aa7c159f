SPECIFICATION Spec
CONSTANTS
    s1 = s1
    s2 = s2
    h1 = h1
    h2 = h2
    a1 = a1
    a2 = a2
    c1 = c1
    c2 = c2
    k1 = k1
    k2 = k2
    NULL = NULL
    Servers <- MCOneServer
    Hashes <- MCOneHash
    ServerOf <- MCOneOf
    Seeds <- MCOneSeed
    Conns <- MCConns
    Sockets <- MCOneSocket
    Cursors <- MCCursors
    CursorIds = {1, 2}
    MaxDocs = 2
    Limits = {0, 1}
SYMMETRY MCSymmetry
VIEW MCView
INVARIANTS
    SessionsAreSound
    LimitIsRespected
PROPERTIES
    OnlyEndedSessionsAreKilled
