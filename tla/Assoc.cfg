SPECIFICATION Spec
CONSTANTS
  Devices = {d1, d2, d3}
  None = None
  EndDeviceNum = 2
  MaxScanResults = 2
  Lqi = {1}
  MaxCycles = 1
INVARIANTS AddressAgreed TablesAligned SendsToKnown
PROPERTIES Served
