SPECIFICATION FairSpec
CONSTANTS
  home = home
  metricsPage = metricsPage
  added = added
  m1 = m1
  m2 = m2
  Windows = {1, 2}
  DefaultWindow = 1
  MaxCatalog = 2
  Pages = {home, metricsPage, added}
  CustomPages = {added}
  HomePage = home
  ExplorerPage = metricsPage
  Metrics = {m1, m2}
  DefaultPanels <- MCDefaultPanels
  Documents <- MCDocuments
  NoPanel = NoPanel
  MaxPoints = 2
  Answers = {1}
  Requests = {1, 2}
  MaxSelections = 2
CHECK_DEADLOCK FALSE
INVARIANTS  ChartsMatchSelection ExplorerMatchesWindow
PROPERTIES ChartsSettle
