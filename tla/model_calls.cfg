\* Two calls of one run and one of another process on a day and past midnight,
\* each request tried once more when it fails, and two callers in line before a model or a service.
SPECIFICATION MCSpec
CONSTANTS
  c1 = c1
  c2 = c2
  c3 = c3
  r1 = r1
  r2 = r2
  own = own
  shared = shared
  elsewhere = elsewhere
  teacher = teacher
  app = app
  large = large
  small = small
  text = text
  picture = picture
  Calls = {c1, c2, c3}
  Runs = {r1, r2}
  Queues = {own, shared, elsewhere}
  Owners = {teacher, app}
  Models = {large, small}
  Vision = {large}
  Inputs = {text, picture}
  Images = {picture}
  Days = {0, 1}
  MaxRetries = 2
  NoCall = NoCall
  NoRow = NoRow
  RunOf <- MCRunOf
  Route <- MCRoute
  Owner <- MCOwner
  Input <- OwnInputs
  Pool <- MCPool
  Quota <- WideQuota
  Before <- LoweredBefore
  Alias <- TightAlias
  g1 = g1
  g2 = g2
  Callers = {g1, g2}
  model = model
  provider = provider
  Services = {model, provider}
  Metered = {model}
  Window = 2
  Budget = 3
  Sizes = {2, 4}
  Profiles <- MCProfiles
  Cooldowns = {1, 2}
  Old = 3
INVARIANTS
  OneBuys EndsForAReason BudgetRespected
PROPERTIES
  CallSettles SendingPaced
CHECK_DEADLOCK FALSE
