SPECIFICATION Spec
CONSTANTS
  Proposals = "proposals"
  Wallet = "wallet"
  Actions = {a1, a2}
  Restoring = {a1}
  Outbound = {}
  Payloads = {p, q}
  Original = orig
  NoUndo = noundo
  Requests = {r1, r2}
  MaxProposals = 1
  MaxStarts = 2
  MaxFaults = 1
  Purchases = {b}
  Pack = 2
  Included = 2
  Costs = {3}
  Invocations = {i, j}
  MaxCalls = 3
  MaxMishaps = 1
  Exporting = "exporting"
  Handing = "handing"
  agency = agency
  manager = manager
  board = board
  Communities = {ours, other}
  Ours = ours
  MaxExports = 2
  MaxAsks = 2
  MaxJobs = 1
  MaxExportFaults = 2
  Members = {agency, manager, board}
  Staff = {agency}
  Accounts = {agency, board}
  FirstRole <- MCFirstRole
  Handovers = {h}
  Nobody = nobody
  MaxHandovers = 2
  Onboards = "onboards"
  Addresses = {person}
  NoLogin = nologin
  Visits = {v1, v2}
  MaxRoster = 2
  MaxInvitations = 2
  MaxJoins = 1
  MaxArrivals = 4
  Asking = "asking"
  Residents = {m, n}
  Things = {pet}
  Nothing = nothing
  Changes = {c}
  Reviews = {rv, rw}
  MaxEdits = 2
  MaxStops = 1
INVARIANTS TypeOK RowTellsWhatRan UndoReverts
  PurchasesStand LedgerCoversTheWallet SomeoneRunsIt
  InvitedHaveOneSeat MadeOnce ApprovedIsMade
PROPERTIES PendingEnds PaidArrives ExportEnds
CHECK_DEADLOCK FALSE
