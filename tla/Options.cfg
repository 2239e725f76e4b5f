SPECIFICATION NegSpec
CONSTANTS
  MIN_SEGSIZE = 2
  SEGSIZE = 4
  MAX_SEGSIZE = 9
  Overhead = 2
  Mtu = {7, 12}
  MIN_TIMEOUT_SEC = 1
  MAX_TIMEOUT_SEC = 3
  USEC_PER_SEC = 4
  MIN_TIMEOUT = 2
  DEF_TIMEOUT = 4
  TFTP_MAX_COOKIE = 2
  Configs <- AllConfigs
  ClientConfigs <- ClientSizes
  Requests <- AllRequests
  Replies <- AllReplies
INVARIANTS
  Agreement
  GrantIsKept
CHECK_DEADLOCK FALSE
