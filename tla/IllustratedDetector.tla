------------------------- MODULE IllustratedDetector -------------------------
(***************************************************************************)
(* What AnimeNSFWDetector.scan (brake/detectors/anime_nsfw.py) makes of    *)
(* the classifier's scores: a cheap probe, the other regions only if the   *)
(* probe is warm, and a trigger only where regions agree.  Scores are in   *)
(* thousandths.  The classifier itself is external.                        *)
(***************************************************************************)
EXTENDS Naturals, FiniteSets, Functions

CONSTANTS ArtFull, ArtCenter, ArtChanged     \* the regions with a part in it

ArtContext == 860      \* CONTEXT_THRESHOLD
ArtTrigger == 900      \* TRIGGER_THRESHOLD
ArtSecondary == 820    \* SECONDARY_CORROBORATION_THRESHOLD
ArtExtreme == 985      \* EXTREME_SINGLE_REGION_THRESHOLD
EscalateGate == 500    \* ESCALATE_GATE

\* The changed crop alone, or the screen and its center.
Probe(regions) ==
    IF ArtChanged \in regions THEN {ArtChanged}
    ELSE regions \cap {ArtFull, ArtCenter}

\* _cascade_score: what is scored, of what every region would score.
CascadeScore(scores) ==
    LET probe == Probe(DOMAIN scores)
    IN  IF \A r \in probe : scores[r] < EscalateGate
        THEN Restrict(scores, probe) ELSE scores

Above(scores, least) == {r \in DOMAIN scores : scores[r] >= least}

\* Mutant: the changed crop counts as a region of its own.
CorroboratedByChange(scores) ==
    \/ Cardinality(Above(scores, ArtTrigger)) >= 2
    \/ /\ Above(scores, ArtExtreme) # {}
       /\ Cardinality(Above(scores, ArtSecondary)) >= 2
    \/ /\ ArtChanged \in Above(scores, ArtTrigger)
       /\ Above(scores, ArtSecondary) # {}

\* _corroborated: two regions agree, of which the changed crop is one only
\* if it is itself above the trigger.
Corroborated(scores) ==
    \/ Cardinality(Above(scores, ArtTrigger) \ {ArtChanged}) >= 2
    \/ /\ Above(scores, ArtExtreme) # {}
       /\ Cardinality(Above(scores, ArtSecondary) \ {ArtChanged}) >= 2
    \/ /\ ArtChanged \in Above(scores, ArtTrigger)
       /\ Above(scores, ArtSecondary) \ {ArtChanged} # {}

BestRegions(scores) ==
    {r \in DOMAIN scores : \A q \in DOMAIN scores : scores[q] <= scores[r]}

\* "POSSIBLE NSFW ART", "SUSPECT NSFW ART" or nothing.
ArtKind(scores) ==
    CASE Corroborated(scores) -> "POSSIBLE"
      [] ~Corroborated(scores) /\ Above(scores, ArtContext) # {} -> "SUSPECT_ART"
      [] OTHER -> "NEGATIVE"

ArtStrength(scores) ==
    CASE ArtKind(scores) = "POSSIBLE" -> 2
      [] ArtKind(scores) = "SUSPECT_ART" -> 1
      [] OTHER -> 0
=============================================================================
