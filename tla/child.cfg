SPECIFICATION MCSpec
CONSTANT PacketPairs <- AllPairs
CONSTANT Vip = {"v1", "v2"}
CONSTANT Route = {"r"}
CONSTANT Rule = {"u"}
CONSTANT StaticAddr = {"sa"}
CONSTANT StaticRoute = {"sr"}
CONSTANT NoSrc = "none"
CONSTANT HasOif = {"r"}
CONSTANT MaxQueue = 3
CONSTANT Setups <- MCSetups
CONSTANT Parts = {"kernel", "config", "check", "loop", "links", "text", "packet", "tree", "process", "track", "garp", "servers", "mail", "bfd", "global"}
INVARIANT KernelAsState
INVARIANT AcceptedIsSound
INVARIANT ConversationSound
INVARIANT SchedulerSound
INVARIANT LinksSettle
INVARIANT ReadAsWritten
INVARIANT AcceptedAsAgreed
INVARIANT TreeSound
INVARIANT TrackedExactly
PROPERTY VerdictEarned
CHECK_DEADLOCK FALSE
