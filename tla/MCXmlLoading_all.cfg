SPECIFICATION Spec
CONSTANTS
  Lvr = Lvr
  Svr = Svr
  LVR = LVR
  LvrMixed = LvrMixed
  SVR = SVR
  EmptyText = EmptyText
  NoText = NoText
  NoDocument = NoDocument
  short = short
  long = long
  cut = cut
  ext = ext
  extDotted = extDotted
  Lower <- MCLower
  Stem <- MCStem
  Clip <- MCClip
  Documents <- MCDocuments
  Messages <- MCMessages
  UnsignedRange = 16
  LongRange = 4
  FileCount = 2
INVARIANTS
  TypeOK
  AnswersMatchFiles
  PropertyAgrees
