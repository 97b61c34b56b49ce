SPECIFICATION Spec
CONSTANTS
  Messages <- MCMessages
  Strange <- MCStrange
  FrameSizes <- MCFrameSizes
  Highs = {0, 1, 16777216}
  Packages <- MCPackages
  Cuts = {0, 1, 2, 3, 5, 100}
  Masks <- MCMasks
  Stales <- MCStales
  Values <- MCValues
  Characters <- MCCharacters
  Wholes = {0, 7, 10, 305}
  Powers = {0, 1, 3}
  Players <- MCPlayers
  Texts <- MCTexts
  Keys <- MCKeys
CHECK_DEADLOCK FALSE
INVARIANTS
  MessageRoundTrip
  FrameExact
  PackageDelivered
  JsonForms
  AnswerDelivered
  AcceptKeyStandard
