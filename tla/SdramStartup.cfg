CONSTANTS
  TRC_MIN = 3
  TRP_MIN = 2
  startup_refresh_max = 127
  sdram_startup_cycles = 30
  cycles_per_refresh = 30
  cycles_per_row = 100
  cycles_per_hbl = 40
  credit_max = 15
  MaxBusy = 3
  PllUnlocks = FALSE
  VideoStops = FALSE
SPECIFICATION Spec
INVARIANTS RowsClosedFirst
