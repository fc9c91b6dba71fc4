SPECIFICATION SSpec
CONSTANTS
    Interval = 5
    Slack = 2
    Origin = 4
    MaxTime = 42
    SampleInterval = 6
    Created = 0
INVARIANTS
    TypeOK
    OnGrid
    RoundsAreSpaced
    SkipsAreNeeded
    LagIsSkipped
PROPERTIES
    SamplesAreSpaced
