\* The three scenarios of MCHireDaemon: two requests for two agreements, by relay and over HTTP, and
\* room for one.
CONSTANTS
  h1 = h1
  h2 = h2
  a1 = a1
  a2 = a2
  p1 = p1
  p2 = p2
  Hires = {h1, h2}
  Agreements = {a1, a2}
  AgreementOf <- OneAgreementEach
  RelayLog <- BothMessages
  Polls = {p1, p2}
  MaxConcurrentAgreements = 1
  MaxConcurrentJobs = 1
  AutoAccept = TRUE
  MaxHandlers = 2
  MaxCrashes = 1
SPECIFICATION MCSpec
CHECK_DEADLOCK FALSE
INVARIANT HireAccounted
PROPERTY MessagesHandled
