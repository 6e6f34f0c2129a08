\* An automatic bus is opened for the first time.
SPECIFICATION FairSpec
CONSTANTS
  Proc <- MCProc
  Bus = {"auto", "direct"}
  AutoBus = {"auto"}
  Kinds = {"Toomoss", "CanalystII"}
  Candidates <- MCCandidates
  Misfit = {"Other"}
  Device = {d1, d2, d3}
  None = None
  MaxCalls <- Calls33
PROPERTY ErrorsChannelKept
CHECK_DEADLOCK FALSE
