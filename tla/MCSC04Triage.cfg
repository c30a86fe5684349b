SPECIFICATION FairSpec
CONSTANTS
  Docs = {"a", "b"}
  InboxRuns = {r1}
  UploadRuns = {r2}
  Inbox <- TwoDocuments
  People = {p1}
  MaxAttempts = 1
  Threshold = 1
  Confidences = {0, 1}
  Faults = {"lost", "timeout", "storage", "classifier", "unhandled", "refuse", "web"}
  MaxFaults = 1
INVARIANTS
  TypeOK
  OneVerdict
  AutomaticIsCertain
  RoutedIsStored
  IntakeMirrorsDocument
  RunMirrorsDocuments
PROPERTY DocumentsSettle
CHECK_DEADLOCK FALSE
