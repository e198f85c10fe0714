\* Two clients of one server, two requests at a time, arriving in two minutes out
\* of three; transactions fail and the local map goes over its threshold.
CONSTANTS
    s1 = s1
    q1 = q1
    q2 = q2
    k1 = k1
    k2 = k2
    Servers = {s1}
    Requests = {q1, q2}
    Keys = {k1, k2}
    Limit = 1
    Threshold = 1
    WithRedis = TRUE
    Faults = TRUE
    MaxMinute = 2
    MaxSeen = 2
SYMMETRY Interchangeable
SPECIFICATION Spec
INVARIANTS
    TypeOK
    AdmittedBounded
    StaleBucketsBounded
    RefusalsEarned
    ResetsAreFresh
