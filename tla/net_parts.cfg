SPECIFICATION NetSpec
CONSTANTS
  None = None
  d1 = d1
  d2 = d2
  dx = dx
  Devices = {d1, d2}
  Allowed <- MCAllowed
  Endpoint0 <- MCEndpoint0
  Home <- MCHome
  Addrs = {"a1", "b1"}
  Inner <- MCInner
  WindowSize = 2
  MaxIndex = 4
  MaxPacket = 3
  MaxClock = 1
  MaxClose = 1
  MaxMove = 0
CHECK_DEADLOCK FALSE
INVARIANTS
  PlanKept
  TextKept
  TableHolds
  PacketsArrive
  TunnelHolds
