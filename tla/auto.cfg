\* An automatic bus and one over a device of its own open and close.
SPECIFICATION Spec
CONSTANTS
  Proc <- MCProc
  Bus = {"auto", "direct"}
  AutoBus = {"auto"}
  Kinds = {"Toomoss", "CanalystII"}
  Candidates <- MCCandidates
  Misfit = {"Other"}
  Device = {d1, d2, d3}
  None = None
  MaxCalls <- Calls33
SYMMETRY MCSymmetry
INVARIANTS TypeOK SessionExclusive NothingLeaks OpenHasDevice
CHECK_DEADLOCK FALSE
