SPECIFICATION FairSpec
CONSTANTS
  api = api  mcp = mcp  r1 = r1  r2 = r2
  default = default  model = model  none = none
  Host = {api, mcp}
  Request = {r1, r2}
  DefaultDimensions = default
  ModelDimensions = model
  None = none
INVARIANTS TypeOK ServingHasCollection IndexIsOnItsWay OneInference
PROPERTIES ExecutorStays HostsServe QuestionsEnd
CHECK_DEADLOCK FALSE
