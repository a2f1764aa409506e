CONSTANTS
  Task = {1}
  Deps <- NoDeps
  Needs <- AfterApproval
  Runner = {"mac", "box", "air"}
  Executor = {"claude", "codex"}
  SpecRunner <- Pins
  SpecExecutor <- Claude
  Lists <- MCLists
  Unset = Unset
  Nowhere = Nowhere
  Talk = {"progress", "command", "output"}
  MaxEvents = 5
  MaxCalls = 1
  MaxFaults = 1
SPECIFICATION Spec
PROPERTIES TranscriptGrows PollingSeesTheEnd PickedMachineCanRun
CHECK_DEADLOCK FALSE
