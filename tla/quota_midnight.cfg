SPECIFICATION Spec
CONSTANTS
  c1 = c1
  c2 = c2
  c3 = c3
  r1 = r1
  r2 = r2
  own = own
  shared = shared
  elsewhere = elsewhere
  teacher = teacher
  app = app
  large = large
  small = small
  text = text
  picture = picture
  Calls = {c1, c2, c3}
  Runs = {r1, r2}
  Queues = {own, shared, elsewhere}
  Owners = {teacher, app}
  Models = {large, small}
  Vision = {large}
  Inputs = {text, picture}
  Images = {picture}
  Days = {0, 1}
  MaxRetries = 2
  NoCall = NoCall
  NoRow = NoRow
  RunOf <- MCRunOf
  Route <- MCRoute
  Owner <- MCOwner
  Input <- SameInput
  Pool <- MCPool
  Quota <- MCQuota
  Before <- MCBefore
  Alias <- MCAlias
SYMMETRY Symmetry
INVARIANTS
  HeldOnlyIfRefused
CHECK_DEADLOCK FALSE
