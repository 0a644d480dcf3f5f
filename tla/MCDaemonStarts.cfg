CONSTANTS
  d1 = d1
  d2 = d2
  d3 = d3
  d4 = d4
  p1 = p1
  p2 = p2
  old = old
  new = new
  edited = edited
  Sql <- McSql
  MaxVersion = 2
  NoSql = NoSql
  Absent = Absent
  Empty = Empty
  NoPort = NoPort
  NoPid = NoPid
  Pid = {d1, d2, d3}
  Port = {p1, p2}
  Build = {old, new, edited}
  Cli = {}
SPECIFICATION McSpec
INVARIANTS
  SchemaInv
  ServesOwnSchema
PROPERTIES
  MigratedOnce
  SomeoneServes
CHECK_DEADLOCK FALSE
