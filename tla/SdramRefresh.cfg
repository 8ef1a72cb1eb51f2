CONSTANTS
  TRC_MIN = 3
  TRP_MIN = 2
  startup_refresh_max = 40
  sdram_startup_cycles = 20
  cycles_per_refresh = 15
  cycles_per_row = 50
  cycles_per_hbl = 24
  credit_max = 4
  MaxBusy = 2
  PllUnlocks = TRUE
  VideoStops = TRUE
SPECIFICATION Spec
INVARIANTS TypeOK RefreshesKeepUp RefreshInBlank
