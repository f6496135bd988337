CONSTANTS
    c1 = c1
    c2 = c2
    c3 = c3
    Charts <- ThreeCharts
    PoolSize = 2
SPECIFICATION SandboxSpec
INVARIANT SoloImageIsOwn
PROPERTY ChartCallsEnd
CHECK_DEADLOCK FALSE
