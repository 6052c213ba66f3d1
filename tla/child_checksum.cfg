SPECIFICATION MCSpec
CONSTANT PacketPairs <- OldPairs
CONSTANT Vip = {"v1", "v2"}
CONSTANT Route = {"r"}
CONSTANT Rule = {"u"}
CONSTANT StaticAddr = {"sa"}
CONSTANT StaticRoute = {"sr"}
CONSTANT NoSrc = "none"
CONSTANT HasOif = {"r"}
CONSTANT MaxQueue = 3
CONSTANT Setups <- MCSetups
CONSTANT Parts = {"packet"}
INVARIANT AcceptedAsAgreed
CHECK_DEADLOCK FALSE
