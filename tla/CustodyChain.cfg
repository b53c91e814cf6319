\* Two writers over two cases, a clock two units to the stored one: rows whose
\* stamps are exact and rows whose stamps are rounded both occur.  No symmetry,
\* which liveness does not allow.
CONSTANTS
  Writers = {w1, w2}
  NoWriter = NoWriter
  Cases = {c1, c2}
  NoCase = NoCase
  Ids <- MCIds
  Tick = 2
  MaxTime = 3
  MaxEvents = 3
SPECIFICATION FairSpec
INVARIANTS LinksToLatest BreakNeedsDisorder ForkNeedsDisorder ReportAgrees
PROPERTIES LogSpec WaiterServed
\* A server to which no request comes stops.
CHECK_DEADLOCK FALSE
