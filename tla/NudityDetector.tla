--------------------------- MODULE NudityDetector ---------------------------
(***************************************************************************)
(* What NudityDetector.scan (brake/detectors/nudity.py) makes of the boxes *)
(* that NudeNet reports.  A finding is one such box: the region it was     *)
(* found in, its class, its score in thousandths, whether its geometry is  *)
(* plausible (_geometry_ok), and a number that tells it from the others.   *)
(* NudeNet itself is external.                                             *)
(*                                                                         *)
(* The code runs over a list and keeps the first of several findings with  *)
(* the best score; here any of them may be the one.                        *)
(***************************************************************************)
EXTENDS Naturals, FiniteSets, Sequences

CONSTANTS
    Classes,      \* of NudeNet
    Regions,      \* [part, quarters], see ScanRegions
    WholeScreen   \* the region "full"

\* HARD_THRESHOLDS, HARD_SOLO_CONFIDENCE_BY_CLASS and the sets of classes.
Hard == {"MALE_GENITALIA", "FEMALE_GENITALIA", "ANUS"}
Faces == {"FACE"}
Contextual == {"FEMALE_BREAST", "BUTTOCKS"}
Agreeing == Hard \cup Contextual \cup {"BELLY"}
PhotoBody == {"FEMALE_BREAST_COVERED", "BELLY"}

HardThreshold(class) == IF class = "ANUS" THEN 600 ELSE 550
SoloConfidence(class) == IF class = "FEMALE_GENITALIA" THEN 780 ELSE 820
FaceDominant == 650        \* FACE_DOMINANT_MIN_SCORE
FaceSoloConfidence == 900  \* FACE_DOMINANT_MALE_GENITALIA_SOLO_CONFIDENCE
Corroboration == 450       \* CORROBORATION_MIN_SCORE
ContextThreshold == 750    \* CONTEXT_THRESHOLDS
ContextSoft == 650         \* CONTEXT_SOFT_THRESHOLD
HardSuspicion == 450       \* HARD_SUSPICION_THRESHOLD
PhotoBodyMin == 350        \* PHOTO_BODY_CONTEXT_MIN_SCORE
MultiCount == 3            \* MULTI_FINDING_MIN_COUNT

Finding ==
    [region : Regions, class : Classes, score : 0..1000, fits : BOOLEAN, n : Nat]

-----------------------------------------------------------------------------
(* Which findings count for what, among the findings F of one scan. *)

\* _related_regions: the region, those it is a quarter of, and the screen.
Related(region) ==
    {WholeScreen} \cup
    {[region EXCEPT !.quarters = SubSeq(@, 1, n)] :
        n \in 0..Len(region.quarters)}

FaceDominates(F, region) ==
    \E f \in F : /\ f.class \in Faces /\ f.score >= FaceDominant
                 /\ f.region \in Related(region)

\* _solo_confidence_for: the score from which a finding is trusted alone.
SoloConfidenceFor(F, f) ==
    IF f.class = "MALE_GENITALIA" /\ FaceDominates(F, f.region)
    THEN FaceSoloConfidence ELSE SoloConfidence(f.class)

Candidate(f) ==
    f.class \in Hard /\ f.fits /\ f.score >= HardThreshold(f.class)

Corroborates(f) == f.class \in Agreeing /\ f.fits /\ f.score >= Corroboration

\* Mutant: exactly two classes agree, and a third one undoes it.
AgreementOfTwo(F, region) ==
    Cardinality({f.class : f \in {g \in F : g.region = region /\ Corroborates(g)}})
        = 2

\* Two exposed classes in one region.
Agreement(F, region) ==
    \E f, g \in F :
        /\ f.region = region /\ g.region = region
        /\ Corroborates(f) /\ Corroborates(g)
        /\ f.class # g.class

\* A candidate that is confident alone, or agrees with another exposed class.
Trusted(F) ==
    {f \in F : /\ Candidate(f)
               /\ \/ f.score >= SoloConfidenceFor(F, f)
                  \/ Agreement(F, f.region)}

Contexts(F) ==
    {f \in F : f.class \in Contextual /\ f.fits /\ f.score >= ContextThreshold}

\* Demoted candidates, implausible boxes and low scores alike.
HardSuspects(F) == {f \in F : f.class \in Hard /\ f.score >= HardSuspicion}

SoftContexts(F) ==
    {f \in F : f.class \in Contextual /\ f.score >= ContextSoft}

Weak(F) == HardSuspects(F) \cup SoftContexts(F)

\* Several weak findings in one region.
Crowd(F) ==
    {f \in Weak(F) :
        Cardinality({g \in Weak(F) : g.region = f.region}) >= MultiCount}

PhotoBodies(F) ==
    {f \in F : f.class \in PhotoBody /\ f.score >= PhotoBodyMin}

-----------------------------------------------------------------------------
(* The result. *)

Best(F) == {f \in F : \A g \in F : g.score <= f.score}

Severity(kind) ==
    CASE kind \in {"EXPLICIT", "SUSPECT"} -> "hard"
      [] kind = "NEGATIVE" -> "none"
      [] OTHER -> "context"

Negative(detector) ==
    [detector |-> detector, triggered |-> FALSE, severity |-> "none",
     conf |-> 0, kind |-> "NEGATIVE", region |-> WholeScreen, photo |-> FALSE]

\* A DetectionResult; photo stands for the details.
Report(kind, f, F) ==
    [detector |-> "nudity", triggered |-> kind \in {"EXPLICIT", "CONTEXT"},
     severity |-> Severity(kind), conf |-> f.score, kind |-> kind,
     region |-> f.region, photo |-> PhotoBodies(F) # {}]

\* What decides the result, in the order of the returns.
Deciding(F) ==
    CASE Trusted(F) # {} -> "EXPLICIT"
      [] Trusted(F) = {} /\ Contexts(F) # {} -> "CONTEXT"
      [] Trusted(F) = {} /\ Contexts(F) = {} /\ HardSuspects(F) # {} -> "SUSPECT"
      [] Trusted(F) = {} /\ Contexts(F) = {} /\ HardSuspects(F) = {}
         /\ Crowd(F) # {} -> "MULTIPLE"
      [] Trusted(F) = {} /\ Contexts(F) = {} /\ HardSuspects(F) = {}
         /\ Crowd(F) = {} /\ SoftContexts(F) # {} -> "SOFT"
      [] OTHER -> "NEGATIVE"

Evidence(F, kind) ==
    CASE kind = "EXPLICIT" -> Trusted(F)
      [] kind = "CONTEXT" -> Contexts(F)
      [] kind = "SUSPECT" -> HardSuspects(F)
      [] kind = "MULTIPLE" -> Crowd(F)
      [] OTHER -> SoftContexts(F)

\* Mutant: the result of a weak finding comes without the body context.
NudityResultsBare(F) ==
    LET kind == Deciding(F)
    IN  CASE kind = "NEGATIVE" ->
                 {[Negative("nudity") EXCEPT !.photo = PhotoBodies(F) # {}]}
          [] kind \in {"MULTIPLE", "SOFT"} ->
                 {[Report(kind, f, {}) EXCEPT !.photo = FALSE] :
                     f \in Best(Evidence(F, kind))}
          [] OTHER -> {Report(kind, f, F) : f \in Best(Evidence(F, kind))}

NudityResults(F) ==
    IF Deciding(F) = "NEGATIVE"
    THEN {[Negative("nudity") EXCEPT !.photo = PhotoBodies(F) # {}]}
    ELSE {Report(Deciding(F), f, F) : f \in Best(Evidence(F, Deciding(F)))}

\* How much a result asks of the watcher: two kinds of hits, suspicions.
Strength(kind) ==
    CASE kind = "EXPLICIT" -> 5
      [] kind = "CONTEXT" -> 4
      [] kind = "SUSPECT" -> 3
      [] kind = "MULTIPLE" -> 2
      [] kind = "SOFT" -> 1
      [] OTHER -> 0
=============================================================================
