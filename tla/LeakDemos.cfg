SPECIFICATION DemoSpec
CONSTANTS
  nullptr = nullptr
  MaxCalls = 3
INVARIANTS
  OnlyLiveBlocks
PROPERTIES
  LeaksAsAnnounced
