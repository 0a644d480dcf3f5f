CONSTANTS
  d1 = d1
  d2 = d2
  d3 = d3
  d4 = d4
  p1 = p1
  p2 = p2
  old = old
  new = new
  edited = edited
  Sql <- McSql
  MaxVersion = 2
  NoSql = NoSql
  Absent = Absent
  Empty = Empty
  NoPort = NoPort
  NoPid = NoPid
  Pid = {d1, d2}
  Port = {p1}
  Build = {old}
  Cli = {c1}
SPECIFICATION Spec
INVARIANTS
  StopStops
CHECK_DEADLOCK FALSE
