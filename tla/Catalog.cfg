CONSTANTS
  Ids <- MCIds
  Tag <- MCTag
  LowerOf <- MCLowerOf
  Requests <- MCRequests
  Configs <- MCConfigs
  Infos <- MCInfos
  MaxTime = 1
  Files <- MCFiles
  Statics <- MCStatics
  ModelIds = {"m", "n"}
  Evidence <- MCEvidence
  MaxEdits = 2
SPECIFICATION MCSpec
INVARIANTS
  TypeOK
  WithinBoundary
  HiddenBehindAlias
  RawIsExact
  ListedNamesResolve
  SettingsInForce
PROPERTY DatesKept
