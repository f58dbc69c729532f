SPECIFICATION Spec
CONSTANT Scenes <- MCScenes
CHECK_DEADLOCK FALSE
INVARIANTS
  RoundTrip
  FillIsACopy
  EveryInfluenceHasItsEdge
  CyclesExact
  RecalcSettles
  PreviewCoversChanges
  AuditNamesEveryRoot
  TwinsAgree
