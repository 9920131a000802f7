SPECIFICATION Spec
CONSTANTS
  Tenant = {"tenant", "tenant2"}
  AppIdUri = {"app", "app2"}
  Skew = 1
  Horizon = 2
  Account = {1, 2}
  Letter = {1, 2}
  Partition = {1, 2}
  NoIssuer = NoIssuer
  NoTime = NoTime
  Unreadable = Unreadable
  Malformed = Malformed
  NoRole = NoRole
  Requests <- SomeRequests
  Responses <- SomeResponses
  OurTenant = "tenant"
  OurApp = "app"
  Height = 2
  MaxQuery = 2
  NoAssertion = NoAssertion
  Nothing = Nothing
INVARIANTS
  TypeOK
  AcceptsTheValid
  OffersTheLastPairs
  NeverReplacedSilently
