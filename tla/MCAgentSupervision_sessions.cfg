SPECIFICATION Spec
CONSTANTS
    Pids = {p1, p2, p3}
    Sessions = {s1, s2}
    None = none
    MaxFaults = 2
    MaxStarts = 0
PROPERTIES ActiveSessionWatched
