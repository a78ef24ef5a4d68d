SPECIFICATION SpecPart
CONSTANT None = None
INVARIANTS AccessSafety CopySafety DiscoverySafety ParticipantSafety
PROPERTIES PlatformSteps PlatformLiveness
CHECK_DEADLOCK FALSE
