CONSTANTS
    Events = 4
    ChannelSize = 1
    maxBufferedEvents = 3
    maxPostBatch = 2
    postBackoffBase = 1
    postBackoffMax = 3
    MaxStreak = 3
    MaxRestarts = 1

    ProbeRuns = {p1, p2}
    Versions = {v1, v2}
    MaxPolls = 2
    Absent = Absent

    MaxPid = 3
    Modules = {m1}
    MaxChanges = 3

    Items = {i1, i2, i3}
    Scans = {s1, s2}
    NoBaseline = NoBaseline
    Overlapping = FALSE
    MaxResets = 1
    MaxFaults = 0
SPECIFICATION Spec
INVARIANTS
    NoEventVanishes
    ResentOnlyInDoubt
    OneProbeAtATime
    RunsWholeProbe
    HiddenProcessesFound
    HiddenModulesFound
    DriftSurfaces
PROPERTIES
    ChannelSettles
    FrozenBaseline
CHECK_DEADLOCK FALSE
