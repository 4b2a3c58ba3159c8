SPECIFICATION Spec
CONSTANTS
  Clients = {"auth-fetch-cli", "dns-token-cli"}
  Words <- MCWords
  MaxArgs = 3
  Number <- MCNumber
INVARIANTS
  TypeOK
  ParsedAsTabled
CHECK_DEADLOCK FALSE
