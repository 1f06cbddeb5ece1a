------------------------- MODULE MCDetectionPolicy -------------------------
(* The detection policy on a small instance: the results that scans remember,*)
(* and windows a few units long in the order of the code.                   *)
EXTENDS DetectionPolicy

Found(kind, label, conf) == [kind |-> kind, label |-> label, conf |-> conf]

Finding(kind, conf) == Found(kind, CHOOSE l \in Labels : TRUE, conf)

Nothing == Finding("none", 0)

Remembered ==
    {Found("hard", l, 80) : l \in Labels}
    \cup {Finding("hard", 90), Finding("art", 90), Finding("exposure", 78),
          Finding("exposure", 98), Nothing}
=============================================================================
