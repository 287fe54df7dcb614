SPECIFICATION MCSpec
CONSTANTS
    t1 = t1
    t2 = t2
    t3 = t3
    k1 = k1
    k2 = k2
    Triggers = {t1, t2, t3}
    Keys = {k1, k2}
    KeyOf <- MCKeyOf
    MaxActivations = 5
    i1 = i1
    i2 = i2
    l1 = l1
    Items = {i1, i2}
    Urgent = {i1}
    Reserve = 1
    Lists = {l1}
    MaxCalls = 2
    Window = 2
    Day = 3
    Capacity = 1
    Period = 2
    Slack = 1
    Lifetime = 3
    Margin = 1
    MaxTime = 4
    None = None
INVARIANTS
    CountsMatchUsers
    EmitsAtMostOnce
    MarksMatchTheSdk
    WindowCap
    RetryIsHonest
    ThrottleBound
PROPERTIES
    ClientOutlivesItsUsers
    TokenValidAtSend
CHECK_DEADLOCK FALSE
