SPECIFICATION Spec
CONSTANTS
  None = None
  Blank = Blank
  Garbled = Garbled
  Jobs <- Reports
  Sensitive <- SensitiveHeaders
  CleanSchemes <- Schemes
  CleanHosts <- Hosts
CHECK_DEADLOCK FALSE
INVARIANT MaskedIsUnreadable
INVARIANT OnlyDenotedChanges
INVARIANT BaseUrlEvidence
