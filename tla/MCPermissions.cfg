SPECIFICATION FairSpec
CONSTANTS
  Askers = {"main", "worker"}
  Main = "main"
  Requests = {"ls", "rm"}
  Bash = {"ls", "rm"}
  ReadOnly = {"ls"}
  Sandboxed = {"bash"}
INVARIANTS HostRunsAreApproved GrantsAreMeant
PROPERTIES EscEndsRun
CHECK_DEADLOCK FALSE
