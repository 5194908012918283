\* The code's own thresholds and times, with ticks of 30 s: 60 s of rest, 60 s
\* to a minute, 60 s after a failure and 30 s after a 429; the 10 s of a probe
\* are rounded up.  A day of 5 ticks is longer than every cooldown.  The small
\* limits let every counter pass its own, every minute and day roll over while
\* calls are in flight, and probes be spent on requests turned away.
SPECIFICATION FairHistorySpec
CONSTANTS
    Callers = {c1, c2}
    MaxAttempts = 3
    Tokens = {0, 2}
    MaxTokens = 2
    FailThresh = 5
    OpenSecs = 2
    ProbeTimeout = 1
    RpmLimit = 2
    RpdLimit = 3
    TpdLimit = 3
    RpmWindow = 2
    FailCooldown = 2
    RateCooldown = 1
    DayLength = 5
INVARIANTS
    TypeOK
    BreakerConsistent
    RpmBounded
    RpdBounded
    TpdBounded
PROPERTIES
    KeepsGatePromise
    CooldownServed
    QuotaLockoutServed
    Recovers
