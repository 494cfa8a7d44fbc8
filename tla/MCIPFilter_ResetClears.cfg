CONSTANTS
  eAll = eAll
  eHost = eHost
  eHostAlt = eHostAlt
  eBad = eBad
  lDefB = lDefB
  lDefW = lDefW
  lOwnB = lOwnB
  lOwnW = lOwnW
  lTrB = lTrB
  lTrW = lTrW
  lNoB = lNoB
  lShared = lShared
  dDefault = dDefault
  dOwn = dOwn
  dTrusted = dTrusted
  dNoWhite = dNoWhite
  dShared = dShared
  W = 2
  MaxListLen = 2
  ValueError = ValueError
  Entries = {eAll, eHost, eBad}
  Net <- MCNet
  Lists <- MCLists
  DictMap <- MCDictMap
  DefaultDict = dDefault
  OwnDict = dOwn
  InitLists <- MCInitLists
  Loadable <- LoadableDefault
SPECIFICATION Spec

PROPERTIES ResetClears
