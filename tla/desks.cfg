SPECIFICATION Spec
CONSTANTS
  c1 = c1
  c2 = c2
  Applicants = {c1, c2}
  Reviewers = {op1, op2}
  MaxCases = 3
  SerialSubmissions = TRUE
  NoCase = NoCase
  MaxThreads = 2
  Images = {i1}
  MaxMessages = 3
  Requests = {c1, c2}
  OneAtATime = TRUE
  StopsAnywhere = FALSE
  Nothing = Nothing
  Texts = {hi, bye}
  MaxSends = 3
  Empty = Empty
  Owners = {c1, c2}
  Addresses = {adr1, adr2}
  Claimed = {adr1}
  MaxNonces = 2
  Links = {c1, c2}
  NoRow = NoRow
  Accounts = {c1, c2}
  Tokens = {1, 2, 3}
  MaxLost = 2
  MaxForgetFails = 1
  None = None
  Releasing = Releasing
  Records = {1, 2, 3, 4}
  Instants = {1, 2}
  FirstPage = 1
  NextPage = 2
  Unfiled = Unfiled
  Notices = {n1}
  Operators = {c1, c2}
  MaxTime = 3
  ZoneLag = 1
  NoNotice = NoNotice
  NoTime = NoTime
  NoMove = NoMove
SYMMETRY MCSymmetry
INVARIANTS DesksTypeOK OneCasePerCustomer SummaryTellsTranscript ImageOnOneMessage NothingTypedIsLost NonceProvesOnce VerifiedWasSigned RemovalIsRetried FeedReachesEveryRow ShowsWhatWasChosen
PROPERTY DecisionIsFinal
CHECK_DEADLOCK FALSE
