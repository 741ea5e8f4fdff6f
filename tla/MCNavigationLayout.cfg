SPECIFICATION Spec
CONSTANTS
  overview = overview
  metrics = metrics
  layouts = layouts
  chartPages = chartPages
  bottom = bottom
  gpu = gpu
  sectionsPanel = sectionsPanel
  Navigation <- MCNavigation
  Overview = overview
  BuiltIn <- MCBuiltIn
  NewPages = {extra, more}
  NewSections = {mine}
  NewPanels = {custom}
  MetricLimit <- MCMetricLimit
  SectionLimit = 2
  PageLimit = 1
  NoEditor = NoEditor
  MaxOps = 3
CHECK_DEADLOCK FALSE
INVARIANTS LayoutOK ReloadChangesNothing
PROPERTIES PanelsAreKept
SYMMETRY Symmetry
