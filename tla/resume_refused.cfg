SPECIFICATION ConvertSpec
CONSTANTS
  c1 = c1
  c2 = c2
  p1 = p1
  host1 = host1
  host2 = host2
  app = app
  Converts = {c1, c2}
  Plans = {p1}
  Procs = {host1, host2, app}
  ProcOf <- MCProcOf
  t1 = t1
  t2 = t2
  Tiles = {t1, t2}
  Turn <- MCTurn
  MaxKills = 1
  MaxPbf = 2
  Overlaps = "never"
PROPERTIES
  ResumeNotRefused
CHECK_DEADLOCK FALSE
