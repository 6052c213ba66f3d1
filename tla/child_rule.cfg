SPECIFICATION MCSpec
CONSTANT PacketPairs <- AllPairs
CONSTANT Vip = {"v1", "v2"}
CONSTANT Route = {"r"}
CONSTANT Rule = {"u"}
CONSTANT StaticAddr = {"sa"}
CONSTANT StaticRoute = {"sr"}
CONSTANT NoSrc = "none"
CONSTANT HasOif = {"r"}
CONSTANT MaxQueue = 3
CONSTANT Setups <- RuleSetups
CONSTANT Parts = {"kernel"}
INVARIANT FaultIsObeyed
CHECK_DEADLOCK FALSE
