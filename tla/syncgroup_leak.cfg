CONSTANTS
    va = va  vb = vb  vc = vc
    la = la  lb = lb  lc = lc  la2 = la2  lbc = lbc
    sab = sab  sa = sa  sc = sc  ta = ta  tc = tc
    Instances = {va, vb}
    Sync = {va, vb}
    Owners = {}
    HandleTimeout = {}
    Links = {la, lb}
    LinkFlag <- MCLinkFlag
    Scripts = {sab, sa}
    Trackers = {}
    TrackedBy <- MCTrackedBy
    Reverse <- NoReverse
    InitFail = {}
    Rise = 1
    Fall = 1
    UINT_MAX = 7
    MaxTrackFault = 3
    MaxFrames = 0
SPECIFICATION Spec
INVARIANTS FaultOnlyIfDown
