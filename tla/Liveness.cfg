SPECIFICATION FairSpec
CONSTANTS
  a = a
  b = b
  None = None
  Unparsable = Unparsable
  Names = {a}
  Pids = {p1, p2}
  Configs <- AllConfigs
  ConfigFiles <- ChangeFiles
  ExitStatuses <- OneExit
  MaxId = 1
  UserSignals = {1}
  Ops = {"Stop", "Start", "Restart"}
  Faults = {}
  FifoCap = 1
  Descendants = FALSE
PROPERTIES
  StopCompletes
  RestartHappens
