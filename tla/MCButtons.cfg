SPECIFICATION Spec
CONSTANTS
  Pins = {p1}
  Invert = {}
  MaxReports = 2
  Byte = 4
  Retransmit = 1
  MaxUp = 1
  MaxHosts = 2
INVARIANTS
  AsleepNothingWoken
  ButtonsHeard
PROPERTY ReportsGetThrough
CONSTRAINT CountKept
