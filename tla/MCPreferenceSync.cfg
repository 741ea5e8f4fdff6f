SPECIFICATION FairSpec
CONSTANTS
  Tabs = {t1, t2}
  Plain = {theme}
  Entries = {gpu}
  PanelState = PanelState
  Values = {0, 1, 2}
  Bad = {2}
  NoDocument = NoDocument
  NoCall = NoCall
  MaxActs = 2
  MaxLost = 1
CHECK_DEADLOCK FALSE
INVARIANTS Consistent LoneTabForgetsNothing
PROPERTIES UnsavedIsKept OthersSurvive EditsAreSaved
