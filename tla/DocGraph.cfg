CONSTANTS
  Segment <- MCSegment
  Fold <- MCFold
  Key <- MCKey
  Place <- MCPlace
  Written <- MCWritten
  Shelves <- MCStores
  Filter <- MCFilter
  Form <- MCForm
  Texts <- MCTexts
  MaxSteps = 1
  MaxTargets = 1
SPECIFICATION Spec
INVARIANTS TypeOK IndexIsExact ScopedIsRestricted DirectionsAgree
PROPERTIES RenameFollows NothingBreaks
CHECK_DEADLOCK FALSE
