SPECIFICATION FairSpec
CONSTANTS
  VMs = {v1, v2}
  None = none
  MaxCalls = 2
INVARIANTS VmIsManaged RunsOnce EndIsReported
PROPERTIES SandboxCallsEnd CancelledCommandsEnd
