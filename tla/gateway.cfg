SPECIFICATION FairSpec
CONSTANTS
  a = a
  b = b
  c1 = c1
  c2 = c2
  c3 = c3
  Gateways = {a, b}
  Callers = {c1, c2, c3}
  GatewayOf <- TwoGateways
  Prompts = {p, q}
  Adapter <- BothAdapters
  Responses = {r}
  Statuses = {404, 503}
  MaxConcurrency = 1
  MaxRetries = 1
  MaxChats <- Chats
PROPERTY ChatsEnd
INVARIANTS LedgerInv SlotsHeldAtProvider AnsweredIsCached
CHECK_DEADLOCK FALSE
