CONSTANTS
    va = va  vb = vb  vc = vc
    la = la  lb = lb  lc = lc  la2 = la2  lbc = lbc
    sab = sab  sa = sa  sc = sc  ta = ta  tc = tc
    Instances = {va, vb, vc}
    Sync = {va, vb, vc}
    Owners = {}
    HandleTimeout = {}
    Links = {la, lb, lc}
    LinkFlag <- MCLinkFlag
    Scripts = {sab}
    Trackers = {ta}
    TrackedBy <- MCTrackedBy
    Reverse <- NoReverse
    InitFail = {sab}
    Rise = 2
    Fall = 2
    UINT_MAX = 7
    MaxTrackFault = 3
    MaxFrames = 0
SPECIFICATION Spec
INVARIANT IndInv
INVARIANT MembersAgree
