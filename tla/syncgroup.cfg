CONSTANTS
    va = va  vb = vb  vc = vc
    la = la  lb = lb  lc = lc  la2 = la2  lbc = lbc
    sab = sab  sa = sa  sc = sc  ta = ta  tc = tc
    Instances = {va, vb, vc}
    Sync = {va, vb}
    Owners = {vc}
    HandleTimeout = {vc}
    Links = {la, lb, lc}
    LinkFlag <- MCLinkFlag
    Scripts = {sab, sc}
    Trackers = {tc}
    TrackedBy <- MCTrackedBy
    Reverse <- ReverseTC
    InitFail = {}
    Rise = 2
    Fall = 2
    UINT_MAX = 7
    MaxTrackFault = 3
    MaxFrames = 8
SPECIFICATION Spec
INVARIANT CountersExact
INVARIANT FaultHolds
INVARIANT VipOnlyOnMaster
INVARIANT UpOnlyIfAllUp
INVARIANT FaultOnlyIfDown
