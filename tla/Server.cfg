SPECIFICATION ServerSpec
CONSTANTS
    Addresses = {a1, a2}
    RotationMs = 2
    MaxTime = 6
    MaxIssued = 2
    Infohashes = {h1, h2}
    Ports = {0, 1, 2}
    MaxInfohashes = 1
    MaxPeersPerInfohash = 2
    PeerTtlMs = 2
INVARIANTS TokensLast PeerCountExact AnnouncedByHolder
