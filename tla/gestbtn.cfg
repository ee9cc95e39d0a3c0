SPECIFICATION Spec
CONSTANT kMaxDebounceCount = 5
INVARIANT TypeOK
INVARIANT RestsOnStableLevel
PROPERTY OneEventPerStableRun
PROPERTY ImplementsButtonEvents
