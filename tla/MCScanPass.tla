----------------------------- MODULE MCScanPass -----------------------------
(* One look after the other on a screen of 16 by 16 pixels, of which a      *)
(* crop needs two. *)
EXTENDS ScanPass

Part(name) == [part |-> name, quarters |-> <<>>]

\* A change in one corner, and none.
CornerOrNone ==
    {[left |-> 12, top |-> 1, right |-> 14, bottom |-> 3],
     [left |-> 0, top |-> 0, right |-> 0, bottom |-> 0]}

Found(region, class, score, fits) ==
    [region |-> region, class |-> class, score |-> score, fits |-> fits, n |-> 1]

\* Scores below and above the thresholds of a class, and an implausible box.
FindingsIn(region) ==
    {Found(region, "MALE_GENITALIA", 600, TRUE),
     Found(region, "MALE_GENITALIA", 850, TRUE),
     Found(region, "FEMALE_BREAST", 700, TRUE),
     Found(region, "FEMALE_BREAST", 800, TRUE),
     Found(region, "FEMALE_BREAST", 800, FALSE),
     Found(region, "BUTTOCKS", 700, TRUE),
     Found(region, "BELLY", 500, TRUE),
     Found(region, "FACE", 700, TRUE)}

FoundAnywhere ==
    FindingsIn(Part("full")) \cup
    {Found(Part("center"), "MALE_GENITALIA", 600, TRUE)}
=============================================================================
