\* Two simulators, one of them a PerNode, three nodes, calls nested up to three deep.
CONSTANTS
  Types = {Plain, Listed}
  PerNode = {Listed}
  MaxNodes = 3
  MaxDepth = 3
SPECIFICATION Spec
INVARIANTS TypeOK SlotsExact RegistryExact PerNodeComplete ViewsAgree TeardownOrder
PROPERTY CleanupSucceeds
