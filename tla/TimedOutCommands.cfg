SPECIFICATION FairSpec
CONSTANTS
  VMs = {v1}
  None = none
  MaxCalls = 1
PROPERTY TimedOutCommandsEnd
