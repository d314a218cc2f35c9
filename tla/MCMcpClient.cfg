SPECIFICATION McpFairSpec
CONSTANTS
  Callers = {c1, c2}
  Servers = {p1, p2, p3}
  Loop = loop
  Closer = closer
  None = none
INVARIANTS OneServer RepliesAreTaken
PROPERTIES DeadIsReplaced CallsEnd CloseEndsLoop
