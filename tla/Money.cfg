SPECIFICATION Spec
CONSTANTS
  Routes = "routes"
  Worker = "worker"
  Reminding = "reminders"
  OneFunction = f
  OneIntent = i
  Periods = {1, 2}
  Charges = {1, 2, 3, 4}
  Price <- Prices
  DueOn <- DueDays
  Ahead = 1
  Grace = 1
  AutopayDays = {4}
  LastDay = 4
  Intents = {i, j}
  Events = {"booking", "linking", "refunding"}
  Functions = {f, g}
  MaxRepeats = 1
  MaxFaults = 1
  Bills = {b1, b2}
  People = {p}
  Billed = p
  Ticks = {t1, t2}
  Opens <- AtOnce
  LastWindow = 1
  MaxMishaps = 1
INVARIANTS TypeOK BookedOnce MoneyAddsUp SplitOldestFirst ChargedOnce RemindedOnce
CHECK_DEADLOCK FALSE
PROPERTY DuesGetCharged
