SPECIFICATION Spec
CONSTANTS
  Clients = {"auth-fetch-cli"}
  Words <- FewWords
  MaxArgs = 3
  Number <- FewNumber
INVARIANT
  ParsedAsDocumented
CHECK_DEADLOCK FALSE
