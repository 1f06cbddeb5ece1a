SPECIFICATION Spec
CONSTANTS
    Pids = {p1, p2, p3, p4}
    Sessions = {s1}
    None = none
    MaxFaults = 3
    MaxStarts = 1
INVARIANTS TypeOK OneAgentPerSession RunningIsAdvertised NoChurn
 
