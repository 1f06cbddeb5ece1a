--------------------------- MODULE StateMigration ---------------------------
(***************************************************************************)
(* State.from_dict (brake/state/schema.py): what a reader makes of a       *)
(* record that an older version of the program signed.  A record is a      *)
(* function on the fields it holds; every version has a branch of its own. *)
(***************************************************************************)
EXTENDS StateSchema

SchemaVersion == 12      \* SCHEMA_VERSION

\* The fields of the model that the branch of a version reads.
Reads(v) ==
    {"pw", "enabled"}
        \cup (IF v >= 2 THEN {"duration"} ELSE {})
        \cup (IF v >= 4 THEN {"until"} ELSE {})
        \cup (IF v >= 6 THEN {"anime"} ELSE {})
        \cup (IF v >= 9 THEN {"unlockAfter"} ELSE {})
        \cup (IF v >= 10 THEN {"unlockDelay", "release", "releaseDelay"} ELSE {})
        \cup (IF v >= 11 THEN {"releaseUses", "used", "shutdown"} ELSE {})

\* Mutant: the branch of a version is copied from the one before it.
FromDictBefore(v, d) ==
    LET default == NewState(d.pw, FALSE)
        before == IF v = SchemaVersion THEN v ELSE v - 1
    IN  [f \in DOMAIN default |->
            IF f \in Reads(before) \cap DOMAIN d THEN d[f] ELSE default[f]]

\* What the branch does not read, or the record does not hold, has its default.
FromDict(v, d) ==
    LET default == NewState(d.pw, FALSE)
    IN  [f \in DOMAIN default |->
            IF f \in Reads(v) \cap DOMAIN d THEN d[f] ELSE default[f]]

\* The fields that a record of a version held ("Schema history" of schema.py).
HeldIn(v) ==
    {"pw", "enabled"}
        \cup (IF v >= 2 THEN {"duration"} ELSE {})
        \cup (IF v >= 4 THEN {"until"} ELSE {})
        \cup (IF v >= 7 THEN {"anime"} ELSE {})
        \cup (IF v >= 9 THEN {"unlockAfter"} ELSE {})
        \cup (IF v >= 10 THEN {"unlockDelay", "release", "releaseDelay"} ELSE {})
        \cup (IF v >= 11 THEN {"shutdown"} ELSE {})
        \cup (IF v >= 12 THEN {"releaseUses", "used"} ELSE {})
=============================================================================
