SPECIFICATION TaskSpec
CONSTANTS
  p1 = p1
  p2 = p2
  check1 = check1
  task1 = task1
  check2 = check2
  d1 = d1
  d2 = d2
  r1 = r1
  r2 = r2
  c1 = c1
  c2 = c2
  github = github
  gitee = gitee
  Processes = {p1, p2}
  Updaters = {check1, task1, check2}
  Forced = {task1}
  Of <- MCOf
  Sources = {github, gitee}
  First <- MCFirst
  Nowhere = nowhere
  Newest = 2
  MaxFaults = 1
  Nobody = nobody
  Downloads = {d1, d2}
  MaxMessages = 3
  Requests = {r1, r2}
  Conns = {c1, c2}
  NoConn = noConn
  MaxSwitches = 1
  MaxFresh = 2
INVARIANTS
  TasksTypeOK
  ExclusiveUpdate
  ResultIsTrue
  PoliteDashboardIsServed
  RetriesAreExplained
  ConnectionsAreAccounted
PROPERTIES
  ForwardPerSource
  UpdatesArrive
  CommandEnds
  StreamsEnd
  
