CONSTANTS
  Bank = {0, 1, 2}
  BURST_LENGTH = 2
  CAS_LATENCY = 2
  TRC_MIN = 6
  TRRD_MIN = 2
  TRCD_MIN = 2
  TRP_MIN = 2
  TWR_MIN = 2
  TRAS_MIN = 4
  Loads <- BusyOrPaced
SPECIFICATION FairSpec
INVARIANTS TypeOK TimingRespected NoCommandLost DataBusExact ReadyAnswers
PROPERTIES EveryRequestReady
