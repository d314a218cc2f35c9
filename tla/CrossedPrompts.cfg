SPECIFICATION Spec
CONSTANTS
  Askers = {"main", "worker"}
  Main = "main"
  Requests = {"ls", "rm"}
  Bash = {"ls", "rm"}
  ReadOnly = {"ls"}
  Sandboxed = {"bash"}
INVARIANT FallbacksAreMeant
CHECK_DEADLOCK FALSE
