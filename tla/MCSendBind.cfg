\* Up to three runs of up to two events, of which there are two; two wrappers, two nodes.
CONSTANTS
  OtherEvents = {"TaskRun"}
  MaxEvents = 2
  MaxIterations = 3
  Hash <- MCHash
  Values = {v1, v2}
  Nodes = {1, 2}
SYMMETRY MCSymmetry
SPECIFICATION BindSpec
INVARIANTS ValidatedPrefix NoFalseAlarm AllRunsCompared HomeThread HomeNode PinKept
