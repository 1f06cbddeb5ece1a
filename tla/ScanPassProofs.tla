---------------------------- MODULE ScanPassProofs ----------------------------
(***************************************************************************)
(* Proofs about ScanPass, for every screen, every set of findings, every   *)
(* scores of the classifier and every bound on them.                       *)
(***************************************************************************)
EXTENDS ScanPass, FiniteSetTheorems, TLAPS

\* The modules of the detectors count as this one does.
LEMMA SameCardinality ==
    /\ \A S : N!Cardinality(S) = Cardinality(S)
    /\ \A S : I!Cardinality(S) = Cardinality(S)
BY DEF N!Cardinality, I!Cardinality, Cardinality

-----------------------------------------------------------------------------
(* What one more finding does to the result of the nudity detector.        *)

\* Everything that a finding counts for, it counts for among more findings
\* too, except that a face may dominate.
LEMMA MoreFindings ==
    ASSUME NEW F \in SUBSET Reportable, NEW f \in Reportable
    PROVE  LET G == F \cup {f}
           IN  /\ N!Contexts(F) \subseteq N!Contexts(G)
               /\ N!HardSuspects(F) \subseteq N!HardSuspects(G)
               /\ N!SoftContexts(F) \subseteq N!SoftContexts(G)
               /\ N!Crowd(F) \subseteq N!Crowd(G)
<1>. DEFINE G == F \cup {f}
<1>1. /\ N!Contexts(F) \subseteq N!Contexts(G)
      /\ N!HardSuspects(F) \subseteq N!HardSuspects(G)
      /\ N!SoftContexts(F) \subseteq N!SoftContexts(G)
  BY DEF N!Contexts, N!HardSuspects, N!SoftContexts
<1>2. N!Weak(F) \subseteq N!Weak(G) /\ N!Weak(G) \subseteq G
  BY <1>1 DEF N!Weak, N!HardSuspects, N!SoftContexts
<1>3. ASSUME NEW g \in N!Crowd(F) PROVE g \in N!Crowd(G)
  <2>. DEFINE A == {h \in N!Weak(F) : h.region = g.region}
              B == {h \in N!Weak(G) : h.region = g.region}
  <2>1. A \subseteq B /\ B \subseteq Reportable
    BY <1>2
  <2>2. IsFiniteSet(B) /\ Cardinality(A) <= Cardinality(B)
        /\ Cardinality(A) \in Nat /\ Cardinality(B) \in Nat
    <3>. HIDE DEF A, B
    <3>1. IsFiniteSet(B)
      BY <2>1, PassAssumption, FS_Subset
    <3>. QED
      BY <2>1, <3>1, FS_Subset, FS_CardinalityType
  <2>3. g \in N!Weak(F) /\ Cardinality(A) >= N!MultiCount
    BY SameCardinality DEF N!Crowd
  <2>4. Cardinality(B) >= N!MultiCount
    <3>. HIDE DEF A, B
    <3>. QED
      BY <2>2, <2>3 DEF N!MultiCount
  <2>. QED
    BY <1>2, <2>3, <2>4, SameCardinality DEF N!Crowd
<1>. QED
  BY <1>1, <1>3

\* What is no longer trusted beside one more finding was trusted alone, and a
\* face dominates it now.
LEMMA OnlyFacesDistract ==
    ASSUME NEW F \in SUBSET Reportable, NEW f \in Reportable,
           NEW g \in N!Trusted(F), g \notin N!Trusted(F \cup {f})
    PROVE  /\ f.class \in N!Faces /\ g.class = "MALE_GENITALIA"
           /\ ~N!Agreement(F, g.region)
<1>. DEFINE G == F \cup {f}
<1>1. g \in G /\ N!Candidate(g) /\ g.score \in 0..1000
  BY PassAssumption DEF N!Trusted
<1>2. ~N!Agreement(G, g.region)
  BY <1>1 DEF N!Trusted
<1>3. ~N!Agreement(F, g.region)
  BY <1>2 DEF N!Agreement
<1>4. g.score >= N!SoloConfidenceFor(F, g) /\ ~(g.score >= N!SoloConfidenceFor(G, g))
  BY <1>1, <1>2, <1>3 DEF N!Trusted
<1>5. /\ g.class = "MALE_GENITALIA"
      /\ N!FaceDominates(G, g.region) /\ ~N!FaceDominates(F, g.region)
  <2>1. g.class # "MALE_GENITALIA" =>
            N!SoloConfidenceFor(F, g) = N!SoloConfidenceFor(G, g)
    BY DEF N!SoloConfidenceFor
  <2>2. g.class = "MALE_GENITALIA"
    BY <1>4, <2>1
  <2>3. /\ N!SoloConfidenceFor(F, g) = IF N!FaceDominates(F, g.region) THEN 900 ELSE 820
        /\ N!SoloConfidenceFor(G, g) = IF N!FaceDominates(G, g.region) THEN 900 ELSE 820
    BY <2>2 DEF N!SoloConfidenceFor, N!FaceSoloConfidence, N!SoloConfidence
  <2>. HIDE DEF G
  <2>. QED
    BY <1>1, <1>4, <2>2, <2>3
<1>6. f.class \in N!Faces
  BY <1>5 DEF N!FaceDominates
<1>. QED
  BY <1>3, <1>5, <1>6

\* The order of the returns is the order of what they ask for.
LEMMA DecidingStrength ==
    ASSUME NEW F
    PROVE  /\ N!Strength(N!Deciding(F)) \in 0..5
           /\ (N!Strength(N!Deciding(F)) >= 5) <=> (N!Trusted(F) # {})
           /\ (N!Strength(N!Deciding(F)) >= 4)
                  <=> (N!Trusted(F) # {} \/ N!Contexts(F) # {})
           /\ (N!Strength(N!Deciding(F)) >= 3)
                  <=> \/ N!Trusted(F) # {} \/ N!Contexts(F) # {}
                      \/ N!HardSuspects(F) # {}
           /\ (N!Strength(N!Deciding(F)) >= 2)
                  <=> \/ N!Trusted(F) # {} \/ N!Contexts(F) # {}
                      \/ N!HardSuspects(F) # {} \/ N!Crowd(F) # {}
           /\ (N!Strength(N!Deciding(F)) >= 1)
                  <=> \/ N!Trusted(F) # {} \/ N!Contexts(F) # {}
                      \/ N!HardSuspects(F) # {} \/ N!Crowd(F) # {}
                      \/ N!SoftContexts(F) # {}
BY DEF N!Strength, N!Deciding

\* For all findings, and not only those of one scan.
LEMMA NoFindingWeakensAny ==
    ASSUME NEW F \in SUBSET Reportable, NEW f \in Reportable
    PROVE  \/ N!Strength(N!Deciding(F)) <= N!Strength(N!Deciding(F \cup {f}))
           \/ /\ f.class \in N!Faces
              /\ \A g \in N!Trusted(F) :
                     /\ g.class = "MALE_GENITALIA"
                     /\ ~N!Agreement(F, g.region)
<1>. DEFINE G == F \cup {f}
            x == N!Strength(N!Deciding(F))
            y == N!Strength(N!Deciding(G))
<1>1. CASE N!Trusted(F) # {} /\ N!Trusted(G) = {}
  BY <1>1, OnlyFacesDistract
<1>2. CASE N!Trusted(F) = {} \/ N!Trusted(G) # {}
  <2>1. x \in 0..5 /\ y \in 0..5
    BY DecidingStrength
  <2>2. \A k \in {1, 2, 3, 4, 5} : x >= k => y >= k
    <3>1. /\ N!Contexts(F) # {} => N!Contexts(G) # {}
          /\ N!HardSuspects(F) # {} => N!HardSuspects(G) # {}
          /\ N!SoftContexts(F) # {} => N!SoftContexts(G) # {}
          /\ N!Crowd(F) # {} => N!Crowd(G) # {}
      BY MoreFindings
    <3>2. N!Trusted(F) # {} => N!Trusted(G) # {}
      BY <1>2
    <3>3. x >= 1 => y >= 1
      BY <3>1, <3>2, DecidingStrength
    <3>4. x >= 2 => y >= 2
      BY <3>1, <3>2, DecidingStrength
    <3>5. x >= 3 => y >= 3
      BY <3>1, <3>2, DecidingStrength
    <3>6. x >= 4 => y >= 4
      BY <3>1, <3>2, DecidingStrength
    <3>7. x >= 5 => y >= 5
      BY <3>2, DecidingStrength
    <3>. QED
      BY <3>3, <3>4, <3>5, <3>6, <3>7
  <2>. HIDE DEF x, y
  <2>3. x <= y
    BY <2>1, <2>2
  <2>. QED
    BY <2>3 DEF x, y
<1>. QED
  BY <1>1, <1>2

-----------------------------------------------------------------------------
(* What the classifier's scores have to show for a trigger. *)

\* Two of anything.
LEMMA TwoOfThem ==
    ASSUME NEW S, Cardinality(S) >= 2
    PROVE  \E x, y \in S : x # y
<1>. SUFFICES ASSUME \A x, y \in S : x = y PROVE FALSE
  OBVIOUS
<1>1. CASE S = {}
  BY <1>1, FS_EmptySet
<1>2. ASSUME NEW x \in S PROVE FALSE
  <2>1. S = {x}
    BY <1>2
  <2>2. Cardinality({x}) = 1
    BY FS_Singleton
  <2>. QED
    BY <2>1, <2>2
<1>. QED
  BY <1>1, <1>2

\* Regions that agree are two of them, and not the changed crop twice.
LEMMA AgreedInTwo ==
    ASSUME NEW scored, \A r \in DOMAIN scored : scored[r] \in Nat,
           I!Corroborated(scored)
    PROVE  \E r, q \in DOMAIN scored :
               /\ r # q /\ q # R!Changed
               /\ scored[r] >= I!ArtSecondary /\ scored[q] >= I!ArtSecondary
<1>1. \A r \in I!Above(scored, I!ArtTrigger) :
          r \in DOMAIN scored /\ scored[r] >= I!ArtSecondary
  BY DEF I!Above, I!ArtTrigger, I!ArtSecondary
<1>2. \A r \in I!Above(scored, I!ArtSecondary) :
          r \in DOMAIN scored /\ scored[r] >= I!ArtSecondary
  BY DEF I!Above
<1>3. CASE I!Cardinality(I!Above(scored, I!ArtTrigger) \ {R!Changed}) >= 2
  BY <1>1, <1>3, TwoOfThem, SameCardinality
<1>4. CASE I!Cardinality(I!Above(scored, I!ArtSecondary) \ {R!Changed}) >= 2
  BY <1>2, <1>4, TwoOfThem, SameCardinality
<1>5. CASE /\ R!Changed \in I!Above(scored, I!ArtTrigger)
           /\ I!Above(scored, I!ArtSecondary) \ {R!Changed} # {}
  BY <1>1, <1>2, <1>5
<1>. QED
  BY <1>3, <1>4, <1>5 DEF I!Corroborated

\* The cascade asks for some of the regions, and changes no score.
LEMMA CascadeType ==
    ASSUME NEW regions, NEW all \in FewWarm(regions)
    PROVE  LET scored == I!CascadeScore(all)
           IN  /\ DOMAIN scored \subseteq regions
               /\ \A r \in DOMAIN scored : scored[r] \in Scores \cup {Cold}
               /\ \A r \in DOMAIN scored : scored[r] \in Nat
<1>. DEFINE scored == I!CascadeScore(all)
<1>1. DOMAIN all = regions /\ \A r \in regions : all[r] \in Scores \cup {Cold}
  BY DEF FewWarm
<1>2. I!Probe(regions) \subseteq regions
  BY DEF I!Probe
<1>3. scored = all \/ scored = [r \in I!Probe(regions) |-> all[r]]
  BY <1>1 DEF I!CascadeScore, I!Restrict
<1>4. DOMAIN scored \subseteq regions /\ \A r \in DOMAIN scored : scored[r] = all[r]
  BY <1>1, <1>2, <1>3
<1>5. Scores \cup {Cold} \subseteq Nat
  BY PassAssumption
<1>. QED
  BY <1>1, <1>4, <1>5

-----------------------------------------------------------------------------
(* The quarters of a region that the last scan knew are looked at. *)

LEMMA QuartersLookedAt ==
    ASSUME NEW profile, NEW change, NEW region, NEW last, NEW n \in last,
           n.region = region
    PROVE  /\ R!Quadrants(n, NudityMin)
                  \subseteq R!NudityRegions(profile, change, region, last)
           /\ R!Quadrants(n, ArtMin)
                  \subseteq R!ArtRegions(profile, change, region, last)
<1>1. \A least : R!Quadrants(n, least) \subseteq R!Zoomed(region, last, least)
  BY DEF R!Zoomed
<1>. QED
  BY <1>1 DEF R!NudityRegions, R!ArtRegions

-----------------------------------------------------------------------------
(* The inductive invariant.  A pass starts from nothing; what the nudity    *)
(* detector noted is what it saw; a result names a region that its detector *)
(* has just looked at, so that a confirmation knows where it is.            *)

Detectors == {"nudity", "anime_nsfw"}

Known(r) == \E n \in boxes[r.detector] : n.region = r.region

PassInv ==
    /\ pc \in {"idle", "nudity"} =>
           /\ hit = NoReport /\ suspicion = NoReport
           /\ bodies = {} /\ scores = NoScores /\ photo = FALSE
    /\ pc = "illustrated" =>
           /\ hit = NoReport /\ scores = NoScores
           /\ suspicion # NoReport => suspicion.detector = "nudity"
           /\ photo = (N!PhotoBodies(bodies) # {})
    /\ hit # NoReport => hit.detector \in Detectors /\ Known(hit)
    /\ suspicion # NoReport => suspicion.detector \in Detectors /\ Known(suspicion)

Aimed(region) ==
    /\ from.seen = {n \in boxes[from.detector] : n.region = region}
    /\ from.seen # {}

AimInv ==
    /\ from.detector \in Detectors \cup {"none"}
    /\ pc = "idle" /\ from.detector # "none" => Aimed(zoom.region)
    /\ pc = "nudity" /\ from.detector # "none" => Aimed(look.zoom)
    /\ pc = "illustrated" /\ from.detector = "anime_nsfw" => Aimed(look.zoom)

ScanInv ==
    /\ TypeOK /\ PassInv /\ AimInv
    /\ PhotoIsNoIllustration /\ IllustratedHitAgreed /\ ZoomsWhereFound

\* What the nudity detector returns.
LEMMA NudityResultType ==
    ASSUME NEW F \in SUBSET Reportable, NEW r \in N!NudityResults(F)
    PROVE  /\ r.detector = "nudity" /\ r.triggered \in BOOLEAN
           /\ r.photo = (N!PhotoBodies(F) # {})
           /\ r.triggered => r.severity # "none"
           /\ r.severity # "none" => \E f \in F : r.region = f.region
<1>1. CASE N!Deciding(F) = "NEGATIVE"
  <2>1. r = [N!Negative("nudity") EXCEPT !.photo = N!PhotoBodies(F) # {}]
    BY <1>1 DEF N!NudityResults
  <2>. QED
    BY <2>1 DEF N!Negative
<1>2. CASE N!Deciding(F) # "NEGATIVE"
  <2>1. PICK f \in N!Best(N!Evidence(F, N!Deciding(F))) :
            r = N!Report(N!Deciding(F), f, F)
    BY <1>2 DEF N!NudityResults
  <2>2. f \in F
    BY <2>1 DEF N!Best, N!Evidence, N!Trusted, N!Contexts, N!HardSuspects,
       N!Crowd, N!Weak, N!SoftContexts
  <2>3. /\ r.detector = "nudity" /\ r.region = f.region
        /\ r.photo = (N!PhotoBodies(F) # {})
        /\ r.triggered = (N!Deciding(F) \in {"EXPLICIT", "CONTEXT"})
        /\ r.severity = N!Severity(N!Deciding(F))
    BY <2>1 DEF N!Report
  <2>4. r.triggered => r.severity # "none"
    BY <2>3 DEF N!Severity
  <2>. QED
    BY <2>2, <2>3, <2>4
<1>. QED
  BY <1>1, <1>2

\* What the illustrated detector returns, after the watcher's guard.
LEMMA ArtResultType ==
    ASSUME TypeOK, NEW kind, NEW conf \in Nat, NEW region
    PROVE  LET r == ArtResult(kind, conf, region)
           IN  /\ r.detector = "anime_nsfw" /\ r.triggered \in BOOLEAN
               /\ r.triggered => /\ ~photo /\ kind = "POSSIBLE"
                                 /\ conf >= ArtExplicit
               /\ r.triggered => r.severity # "none"
               /\ r.severity # "none" => r.region = region
<1>1. CASE kind = "POSSIBLE" /\ conf >= ArtExplicit
  BY <1>1 DEF ArtResult, TypeOK
<1>2. CASE kind = "SUSPECT_ART"
  BY <1>2 DEF ArtResult
<1>3. CASE ~(kind = "POSSIBLE" /\ conf >= ArtExplicit) /\ kind # "SUSPECT_ART"
  BY <1>3 DEF ArtResult, N!Negative
<1>. QED
  BY <1>1, <1>2, <1>3

LEMMA ScanInit == Init => ScanInv
<1>. SUFFICES ASSUME Init PROVE ScanInv
  OBVIOUS
<1>1. /\ pc = "idle" /\ look.profile = "full" /\ look.change = R!NoBox
      /\ DOMAIN boxes = Detectors /\ streak = 0 /\ photo = FALSE
      /\ hit = NoReport /\ suspicion = NoReport /\ bodies = {}
      /\ scores = NoScores /\ from.detector = "none" /\ DOMAIN scores = {}
  BY DEF Init, NoLook, NoScores, Nowhere, Detectors
<1>2. NoReport.detector = "none" /\ NoReport.triggered = FALSE
  BY DEF NoReport, N!Negative
<1>3. TypeOK
  <2>1. photo \in BOOLEAN /\ look.change \in Changes
    <3>1. R!NoBox \in Changes
      BY Zenon, PassAssumption
    <3>. QED
      BY <1>1, <3>1
  <2>2. ~suspicion.triggered /\ (hit.triggered \/ hit = NoReport)
    BY <1>1, <1>2
  <2>. QED
    BY <1>1, <2>1, <2>2 DEF TypeOK, Profiles, MaxStreak, Detectors
<1>4. PassInv /\ AimInv
  BY <1>1 DEF PassInv, AimInv
<1>. QED
  BY <1>1, <1>2, <1>3, <1>4
     DEF ScanInv, PhotoIsNoIllustration, IllustratedHitAgreed, ZoomsWhereFound

\* A step after which no hit of the illustrated detector stands, and the
\* confirmation has nothing more to show.
LEMMA QuietStep ==
    ASSUME TypeOK', PassInv', AimInv', (hit.detector # "anime_nsfw")',
           pc' \notin {"illustrated", "end"} \/ (pc' = "end" /\ DOMAIN scores' = {})
    PROVE  ScanInv'
BY DEF ScanInv, PhotoIsNoIllustration, IllustratedHitAgreed, ZoomsWhereFound

LEMMA BeginInv ==
    ASSUME ScanInv, NEW profile \in Profiles, NEW change \in Changes,
           NEW art \in BOOLEAN, Begin(profile, change, art)
    PROVE  ScanInv'
<1>1. /\ pc = "idle" /\ pc' = "nudity"
      /\ look'.profile = profile /\ look'.change = change
      /\ look'.zoom = zoom.region
      /\ UNCHANGED <<boxes, streak, photo, hit, suspicion, bodies, scores, from>>
  BY DEF Begin
<1>2. TypeOK'
  BY <1>1 DEF ScanInv, TypeOK
<1>3. PassInv' /\ AimInv'
  BY <1>1 DEF ScanInv, PassInv, AimInv, Known, Aimed
<1>4. hit.detector # "anime_nsfw"
  BY <1>1 DEF ScanInv, PassInv, NoReport, N!Negative
<1>. QED
  BY <1>1, <1>2, <1>3, <1>4, QuietStep

LEMMA PauseInv == ScanInv /\ Pause => ScanInv'
<1>. SUFFICES ASSUME ScanInv, Pause PROVE ScanInv'
  OBVIOUS
<1>1. /\ pc = "idle" /\ pc' = "idle" /\ streak' = 0 /\ from'.detector = "none"
      /\ UNCHANGED <<look, boxes, photo, hit, suspicion, bodies, scores>>
  BY DEF Pause, Nowhere
<1>2. TypeOK'
  BY <1>1 DEF ScanInv, TypeOK, MaxStreak
<1>3. PassInv' /\ AimInv'
  BY <1>1 DEF ScanInv, PassInv, AimInv, Known
<1>4. hit.detector # "anime_nsfw"
  BY <1>1 DEF ScanInv, PassInv, NoReport, N!Negative
<1>. QED
  BY <1>1, <1>2, <1>3, <1>4, QuietStep

\* What each detector takes into its hands, whatever result it has.
LEMMA TakeKnown ==
    ASSUME PassInv, NEW r, Take(r), hit = NoReport,
           r.triggered \in BOOLEAN, r.detector \in Detectors,
           r.triggered \/ r.severity # "none" => Known(r)'
    PROVE  /\ hit' \in {r, NoReport} /\ suspicion' \in {r, suspicion}
           /\ r.triggered => hit' = r /\ suspicion' = suspicion
           /\ ~r.triggered => hit' = NoReport
           /\ hit' # NoReport => hit'.detector \in Detectors /\ Known(hit)'
           /\ suspicion' # suspicion =>
                  suspicion'.detector \in Detectors /\ Known(suspicion)'
<1>1. /\ suspicion' = IF /\ ~r.triggered /\ r.severity # "none"
                         /\ suspicion = NoReport \/ r.conf > suspicion.conf
                      THEN r ELSE suspicion
      /\ hit' = IF r.triggered THEN r ELSE hit
  BY DEF Take, Stronger
<1>2. hit' = r /\ r.triggered => Known(hit)'
  BY DEF Known
<1>3. suspicion' = r /\ r.severity # "none" => Known(suspicion)'
  BY DEF Known
<1>. QED
  BY <1>1, <1>2, <1>3

LEMMA NudityScanInv ==
    ASSUME ScanInv, NEW F \in SUBSET Reportable, NudityScan(F)
    PROVE  ScanInv'
<1>1. PICK r \in N!NudityResults(F) :
          /\ Take(r) /\ photo' = r.photo
          /\ pc' = IF r.triggered THEN "end" ELSE "illustrated"
  BY DEF NudityScan
<1>2. /\ pc = "nudity" /\ bodies' = F
      /\ boxes' = [boxes EXCEPT !.nudity = NudityLooksAt]
      /\ \A f \in F : f.region \in Names(NudityLooksAt)
      /\ UNCHANGED <<look, zoom, streak, scores, from>>
  BY DEF NudityScan
<1>3. /\ DOMAIN boxes' = Detectors /\ boxes'.nudity = NudityLooksAt
      /\ boxes'.anime_nsfw = boxes.anime_nsfw
  BY <1>2 DEF ScanInv, TypeOK, Detectors
<1>4. /\ hit = NoReport /\ suspicion = NoReport /\ scores = NoScores
  BY <1>2 DEF ScanInv, PassInv
<1>5. /\ r.detector = "nudity" /\ r.triggered \in BOOLEAN
      /\ r.photo = (N!PhotoBodies(F) # {})
      /\ r.triggered => r.severity # "none"
      /\ r.severity # "none" => \E f \in F : r.region = f.region
  BY NudityResultType
<1>6. r.triggered \/ r.severity # "none" => Known(r)'
  <2>. SUFFICES ASSUME r.severity # "none"
                PROVE  \E n \in boxes'.nudity : n.region = r.region
    BY <1>5 DEF Known
  <2>. QED
    BY <1>2, <1>3, <1>5 DEF Names
<1>7. /\ hit' \in {r, NoReport} /\ suspicion' \in {r, suspicion}
      /\ r.triggered => hit' = r /\ suspicion' = suspicion
      /\ ~r.triggered => hit' = NoReport
      /\ hit' # NoReport => hit'.detector \in Detectors /\ Known(hit)'
      /\ suspicion' # suspicion =>
             suspicion'.detector \in Detectors /\ Known(suspicion)'
  BY <1>1, <1>4, <1>5, <1>6, TakeKnown DEF ScanInv, Detectors
<1>8. NoReport.detector = "none" /\ NoReport.triggered = FALSE
  BY DEF NoReport, N!Negative
<1>9. TypeOK'
  <2>1. photo' \in BOOLEAN /\ pc' \in {"illustrated", "end"}
    BY <1>1, <1>5
  <2>2. (hit'.triggered \/ hit' = NoReport) /\ ~suspicion'.triggered
    BY <1>4, <1>5, <1>7, <1>8
  <2>. QED
    BY <1>2, <1>3, <2>1, <2>2 DEF ScanInv, TypeOK, Detectors
<1>10. PassInv'
  <2>1. CASE r.triggered
    <3>1. pc' = "end" /\ suspicion' = NoReport
      BY <1>1, <1>4, <1>7, <2>1
    <3>. QED
      BY <1>7, <3>1 DEF PassInv
  <2>2. CASE ~r.triggered
    <3>1. pc' = "illustrated" /\ hit' = NoReport /\ scores' = NoScores
      BY <1>1, <1>2, <1>4, <1>7, <2>2
    <3>2. suspicion' # NoReport => suspicion'.detector = "nudity"
      BY <1>4, <1>5, <1>7
    <3>3. photo' = (N!PhotoBodies(bodies') # {})
      BY <1>1, <1>2, <1>5
    <3>4. suspicion' # NoReport =>
              suspicion'.detector \in Detectors /\ Known(suspicion)'
      BY <1>4, <1>7
    <3>. QED
      BY <3>1, <3>2, <3>3, <3>4 DEF PassInv
  <2>. QED
    BY <1>5, <2>1, <2>2
<1>11. AimInv'
  <2>1. from.detector = "anime_nsfw" => Aimed(look.zoom)
    BY <1>2 DEF ScanInv, AimInv
  <2>2. from'.detector = "anime_nsfw" => Aimed(look.zoom)'
    BY <1>2, <1>3, <2>1 DEF Aimed
  <2>3. pc' \in {"illustrated", "end"} /\ from' = from
    BY <1>1, <1>2, <1>5
  <2>. QED
    BY <2>2, <2>3 DEF ScanInv, AimInv
<1>12. ZoomsWhereFound'
  <2>1. ASSUME from.detector = "nudity"
        PROVE  \E n \in from.seen : R!Quadrants(n, NudityMin) \subseteq NudityLooksAt
    <3>1. PICK n \in boxes.nudity : n \in from.seen /\ n.region = look.zoom
      BY <1>2, <2>1 DEF ScanInv, AimInv, Aimed
    <3>2. R!Quadrants(n, NudityMin) \subseteq NudityLooksAt
      BY <3>1, QuartersLookedAt DEF NudityLooksAt
    <3>. QED
      BY <3>1, <3>2
  <2>2. DOMAIN scores' = {}
    BY <1>2, <1>4 DEF NoScores
  <2>. QED
    BY <1>2, <1>3, <2>1, <2>2 DEF ZoomsWhereFound
<1>13. hit'.detector # "anime_nsfw"
  BY <1>5, <1>7, <1>8
<1>. QED
  BY <1>9, <1>10, <1>11, <1>12, <1>13
     DEF ScanInv, PhotoIsNoIllustration, IllustratedHitAgreed

LEMMA NudityFailsInv == ScanInv /\ NudityFails => ScanInv'
<1>. SUFFICES ASSUME ScanInv, NudityFails PROVE ScanInv'
  OBVIOUS
<1>1. /\ pc = "nudity" /\ pc' = "illustrated"
      /\ boxes' = [boxes EXCEPT !.nudity = NudityLooksAt]
      /\ UNCHANGED <<look, zoom, streak, photo, hit, suspicion, bodies, scores,
                     from>>
  BY DEF NudityFails
<1>2. /\ DOMAIN boxes' = Detectors /\ boxes'.nudity = NudityLooksAt
      /\ boxes'.anime_nsfw = boxes.anime_nsfw
  BY <1>1 DEF ScanInv, TypeOK, Detectors
<1>3. /\ hit = NoReport /\ suspicion = NoReport /\ scores = NoScores
      /\ bodies = {} /\ photo = FALSE
  BY <1>1 DEF ScanInv, PassInv
<1>4. TypeOK'
  BY <1>1, <1>2 DEF ScanInv, TypeOK, Detectors
<1>5. PassInv'
  <2>1. N!PhotoBodies({}) = {}
    BY DEF N!PhotoBodies
  <2>2. photo' = (N!PhotoBodies(bodies') # {})
    BY <1>1, <1>3, <2>1
  <2>. QED
    BY <1>1, <1>3, <2>2 DEF PassInv
<1>6. AimInv'
  <2>1. from'.detector = "anime_nsfw" => Aimed(look.zoom)'
    BY <1>1, <1>2 DEF ScanInv, AimInv, Aimed
  <2>. QED
    BY <1>1, <2>1 DEF ScanInv, AimInv
<1>7. ZoomsWhereFound'
  <2>1. ASSUME from.detector = "nudity"
        PROVE  \E n \in from.seen : R!Quadrants(n, NudityMin) \subseteq NudityLooksAt
    <3>1. PICK n \in boxes.nudity : n \in from.seen /\ n.region = look.zoom
      BY <1>1, <2>1 DEF ScanInv, AimInv, Aimed
    <3>2. R!Quadrants(n, NudityMin) \subseteq NudityLooksAt
      BY <3>1, QuartersLookedAt DEF NudityLooksAt
    <3>. QED
      BY <3>1, <3>2
  <2>2. DOMAIN scores' = {}
    BY <1>1, <1>3 DEF NoScores
  <2>. QED
    BY <1>1, <1>2, <2>1, <2>2 DEF ZoomsWhereFound
<1>8. hit'.detector # "anime_nsfw"
  BY <1>1, <1>3 DEF NoReport, N!Negative
<1>. QED
  BY <1>4, <1>5, <1>6, <1>7, <1>8
     DEF ScanInv, PhotoIsNoIllustration, IllustratedHitAgreed

LEMMA ArtScanInv ==
    ASSUME ScanInv, NEW all \in FewWarm(Names(ArtLooksAt)), ArtScan(all)
    PROVE  ScanInv'
<1>0. PICK r \in I!BestRegions(scores') :
          Take(ArtResult(I!ArtKind(scores'), scores'[r], r))
  BY DEF ArtScan
<1>1. PICK res : /\ res = ArtResult(I!ArtKind(scores'), scores'[r], r)
                 /\ Take(res)
  BY <1>0
<1>2. /\ pc = "illustrated" /\ pc' = "end"
      /\ boxes' = [boxes EXCEPT !.anime_nsfw = ArtLooksAt]
      /\ scores' = I!CascadeScore(all)
      /\ bodies' = N!PhotoBodies(bodies)
      /\ UNCHANGED <<look, zoom, streak, photo, from>>
  BY DEF ArtScan
<1>3. /\ DOMAIN boxes' = Detectors /\ boxes'.anime_nsfw = ArtLooksAt
      /\ boxes'.nudity = boxes.nudity
  BY <1>2 DEF ScanInv, TypeOK, Detectors
<1>4. /\ DOMAIN scores' \subseteq Names(ArtLooksAt)
      /\ \A q \in DOMAIN scores' : scores'[q] \in Scores \cup {Cold}
      /\ \A q \in DOMAIN scores' : scores'[q] \in Nat
  BY <1>2, CascadeType
<1>5. /\ hit = NoReport /\ photo = (N!PhotoBodies(bodies) # {})
      /\ suspicion # NoReport => suspicion.detector = "nudity" /\ Known(suspicion)
  BY <1>2 DEF ScanInv, PassInv
<1>6. r \in DOMAIN scores' /\ scores'[r] \in Nat
  BY <1>4 DEF I!BestRegions
<1>7. /\ res.detector = "anime_nsfw" /\ res.triggered \in BOOLEAN
      /\ res.triggered => /\ ~photo /\ I!ArtKind(scores') = "POSSIBLE"
                          /\ scores'[r] >= ArtExplicit
      /\ res.triggered => res.severity # "none"
      /\ res.severity # "none" => res.region = r
  BY <1>1, <1>6, ArtResultType DEF ScanInv
<1>8. Take(res)
  BY <1>1
<1>9. res.severity # "none" => Known(res)'
  <2>. SUFFICES ASSUME res.severity # "none"
                PROVE  \E n \in boxes'.anime_nsfw : n.region = res.region
    BY <1>7 DEF Known
  <2>1. r \in Names(ArtLooksAt)
    BY <1>4, <1>6
  <2>. QED
    BY <1>3, <1>7, <2>1 DEF Names
<1>10. /\ hit' \in {res, NoReport} /\ suspicion' \in {res, suspicion}
       /\ res.triggered => hit' = res /\ suspicion' = suspicion
       /\ ~res.triggered => hit' = NoReport
       /\ hit' # NoReport => hit'.detector \in Detectors /\ Known(hit)'
       /\ suspicion' # suspicion =>
              suspicion'.detector \in Detectors /\ Known(suspicion)'
  <2>1. /\ PassInv /\ res.detector \in Detectors
        /\ res.triggered \/ res.severity # "none" => Known(res)'
    BY <1>7, <1>9 DEF ScanInv, Detectors
  <2>. QED
    BY <1>5, <1>7, <1>8, <2>1, TakeKnown
<1>11. NoReport.detector = "none" /\ NoReport.triggered = FALSE
  BY DEF NoReport, N!Negative
<1>12. TypeOK'
  <2>1. hit'.triggered \/ hit' = NoReport
    BY <1>10
  <2>2. ~suspicion'.triggered
    <3>1. ~suspicion.triggered
      BY DEF ScanInv, TypeOK
    <3>. QED
      BY <1>7, <1>10, <1>11, <3>1
  <2>3. bodies' \subseteq Reportable
    BY <1>2 DEF ScanInv, TypeOK, N!PhotoBodies
  <2>. QED
    BY <1>2, <1>3, <1>4, <2>1, <2>2, <2>3 DEF ScanInv, TypeOK, Detectors
<1>13. PassInv'
  <2>1. suspicion # NoReport => suspicion.detector \in Detectors /\ Known(suspicion)
    BY DEF ScanInv, PassInv
  <2>2. suspicion' = suspicion /\ suspicion # NoReport => Known(suspicion)'
    BY <1>3, <1>5 DEF Known
  <2>3. suspicion' # NoReport =>
            suspicion'.detector \in Detectors /\ Known(suspicion)'
    BY <1>10, <2>1, <2>2
  <2>. QED
    BY <1>2, <1>10, <2>3 DEF PassInv
<1>14. AimInv'
  BY <1>2 DEF ScanInv, AimInv
<1>15. PhotoIsNoIllustration'
  <2>. SUFFICES ASSUME hit'.detector = "anime_nsfw"
                PROVE  N!PhotoBodies(bodies') = {}
    BY DEF PhotoIsNoIllustration
  <2>1. res.triggered
    BY <1>10, <1>11
  <2>2. N!PhotoBodies(bodies) = {}
    BY <1>5, <1>7, <2>1
  <2>. QED
    BY <1>2, <2>2 DEF N!PhotoBodies
<1>16. IllustratedHitAgreed'
  <2>. SUFFICES ASSUME hit'.detector = "anime_nsfw"
                PROVE  (/\ \E q \in DOMAIN scores : scores[q] >= I!ArtTrigger
                        /\ \E p, q \in DOMAIN scores :
                               /\ p # q /\ q # R!Changed
                               /\ scores[p] >= I!ArtSecondary
                               /\ scores[q] >= I!ArtSecondary)'
    BY DEF IllustratedHitAgreed
  <2>1. res.triggered
    BY <1>10, <1>11
  <2>2. I!Corroborated(scores') /\ scores'[r] >= I!ArtTrigger
    BY <1>7, <2>1 DEF I!ArtKind, ArtExplicit, I!ArtTrigger
  <2>3. \E p, q \in DOMAIN scores' :
            /\ p # q /\ q # R!Changed
            /\ scores'[p] >= I!ArtSecondary /\ scores'[q] >= I!ArtSecondary
    BY <1>4, <2>2, AgreedInTwo
  <2>. QED
    BY <1>6, <2>2, <2>3
<1>17. ZoomsWhereFound'
  <2>1. ASSUME from.detector = "anime_nsfw"
        PROVE  \E n \in from.seen : R!Quadrants(n, ArtMin) \subseteq ArtLooksAt
    <3>1. PICK n \in boxes.anime_nsfw : n \in from.seen /\ n.region = look.zoom
      BY <1>2, <2>1 DEF ScanInv, AimInv, Aimed
    <3>2. R!Quadrants(n, ArtMin) \subseteq ArtLooksAt
      BY <3>1, QuartersLookedAt DEF ArtLooksAt
    <3>. QED
      BY <3>1, <3>2
  <2>. QED
    BY <1>2, <1>3, <2>1 DEF ZoomsWhereFound
<1>. QED
  BY <1>12, <1>13, <1>14, <1>15, <1>16, <1>17 DEF ScanInv

\* A scan in which the illustrated detector had nothing to say.
LEMMA NothingSaidInv ==
    ASSUME ScanInv, ArtSkipped \/ ArtFails \/ ScanRaises
    PROVE  ScanInv'
<1>1. /\ pc \in {"nudity", "illustrated"} /\ pc' = "end"
      /\ \/ boxes' = boxes
         \/ pc = "illustrated" /\ boxes' = [boxes EXCEPT !.anime_nsfw = ArtLooksAt]
      /\ UNCHANGED <<look, zoom, streak, photo, hit, suspicion, bodies, scores,
                     from>>
  BY DEF ArtSkipped, ArtFails, ScanRaises
<1>2. DOMAIN boxes' = Detectors /\ boxes'.nudity = boxes.nudity
  BY <1>1 DEF ScanInv, TypeOK, Detectors
<1>3. /\ hit = NoReport /\ scores = NoScores
      /\ suspicion # NoReport => suspicion.detector = "nudity" /\ Known(suspicion)
  BY <1>1 DEF ScanInv, PassInv
<1>4. NoReport.detector = "none" /\ DOMAIN NoScores = {}
  BY DEF NoReport, N!Negative, NoScores
<1>5. TypeOK'
  BY <1>1, <1>2 DEF ScanInv, TypeOK, Detectors
<1>6. PassInv'
  BY <1>1, <1>2, <1>3 DEF PassInv, Known, Detectors
<1>7. AimInv'
  BY <1>1 DEF ScanInv, AimInv
<1>. QED
  BY <1>1, <1>3, <1>4, <1>5, <1>6, <1>7, QuietStep

LEMMA EndInv ==
    ASSUME ScanInv, NEW wants \in BOOLEAN, NEW native \in BOOLEAN,
           End(wants, native)
    PROVE  ScanInv'
<1>1. /\ pc = "end" /\ pc' = "idle" /\ look' = NoLook /\ photo' = FALSE
      /\ hit' = NoReport /\ suspicion' = NoReport
      /\ bodies' = {} /\ scores' = NoScores /\ boxes' = boxes
  BY DEF End
<1>2. NoReport.detector = "none" /\ NoReport.triggered = FALSE /\ DOMAIN NoScores = {}
  BY DEF NoReport, N!Negative, NoScores
<1>3. ASSUME NEW r, NEW region, Confirm(r, region),
             r.detector \in Detectors, Known(r),
             region \in {r.region, NoRegion}
      PROVE  streak' \in 0..MaxStreak /\ AimInv'
  <2>1. streak \in 0..MaxStreak /\ streak < MaxStreak /\ streak' = streak + 1
        /\ zoom'.region = region
    BY <1>3 DEF Confirm, ScanInv, TypeOK
  <2>2. streak' \in 0..MaxStreak
    BY <2>1 DEF MaxStreak
  <2>3. CASE region = NoRegion
    BY <1>1, <1>3, <2>2, <2>3 DEF Confirm, AimInv, Nowhere
  <2>4. CASE region # NoRegion
    <3>1. /\ from'.detector = r.detector /\ zoom'.region = r.region
          /\ from'.seen = {n \in boxes[r.detector] : n.region = r.region}
      BY <1>3, <2>1, <2>4 DEF Confirm
    <3>2. from'.seen # {}
      BY <1>3, <3>1 DEF Known
    <3>. QED
      BY <1>1, <1>3, <2>2, <3>1, <3>2 DEF AimInv, Aimed
  <2>. QED
    BY <2>3, <2>4
<1>4. ASSUME NoConfirm PROVE streak' \in 0..MaxStreak /\ AimInv'
  BY <1>1, <1>4 DEF NoConfirm, AimInv, Nowhere, ScanInv, TypeOK, MaxStreak
<1>5. streak' \in 0..MaxStreak /\ AimInv'
  <2>1. CASE hit # NoReport /\ Confirm(hit, IF native /\ hit.detector = "anime_nsfw"
                                            THEN NoRegion ELSE hit.region)
    BY <1>3, <2>1 DEF ScanInv, PassInv
  <2>2. CASE suspicion # NoReport /\ Confirm(suspicion, suspicion.region)
    BY <1>3, <2>2 DEF ScanInv, PassInv
  <2>3. CASE NoConfirm
    BY <1>4, <2>3
  <2>. QED
    BY <2>1, <2>2, <2>3 DEF End
<1>6. TypeOK'
  <2>1. look'.profile \in Profiles /\ look'.change \in Changes
    BY <1>1, PassAssumption DEF NoLook, Profiles
  <2>2. photo' \in BOOLEAN
    BY <1>1
  <2>3. /\ pc' \in {"idle", "nudity", "illustrated", "end"}
        /\ DOMAIN boxes' = {"nudity", "anime_nsfw"}
        /\ bodies' \subseteq Reportable
        /\ \A r \in DOMAIN scores' : scores'[r] \in Scores \cup {Cold}
    BY <1>1, <1>2 DEF ScanInv, TypeOK
  <2>4. (hit'.triggered \/ hit' = NoReport) /\ ~suspicion'.triggered
    BY <1>1, <1>2
  <2>. QED
    BY <1>5, <2>1, <2>2, <2>3, <2>4 DEF TypeOK
<1>7. PassInv'
  BY <1>1 DEF PassInv
<1>. QED
  BY <1>1, <1>2, <1>5, <1>6, <1>7, QuietStep

LEMMA ScanStep == ScanInv /\ [Next]_vars => ScanInv'
<1>. SUFFICES ASSUME ScanInv, [Next]_vars PROVE ScanInv'
  OBVIOUS
<1>1. \A F \in FewFindings : F \in SUBSET Reportable
  BY DEF FewFindings, kSubset
<1>2. CASE UNCHANGED vars
  BY <1>2 DEF vars, ScanInv, TypeOK, PassInv, Known, AimInv, Aimed,
     PhotoIsNoIllustration, IllustratedHitAgreed, ZoomsWhereFound
<1>. QED
  BY <1>1, <1>2, BeginInv, PauseInv, NudityScanInv, NudityFailsInv, ArtScanInv,
     NothingSaidInv, EndInv DEF Next

LEMMA ScanInvariant == Spec => []ScanInv
BY ScanInit, ScanStep, PTL DEF Spec

-----------------------------------------------------------------------------
(* The invariants of the run. *)

\* A pass stays in its types, and confirmations come to an end.
THEOREM TypeCorrect == Spec => []TypeOK
BY ScanInvariant, PTL DEF ScanInv

\* No further finding makes the result of the nudity detector weaker, except
\* that a face may keep male genitalia that nothing agrees with from being
\* trusted alone.
THEOREM NothingFoundWeakens == Spec => []NoFindingWeakens
<1>1. ScanInv => NoFindingWeakens
  BY NoFindingWeakensAny DEF ScanInv, TypeOK, NoFindingWeakens
<1>. QED
  BY <1>1, ScanInvariant, PTL

\* Where NudeNet saw a photographed body and did not trigger, the illustrated
\* classifier does not trigger either.
THEOREM PhotoNeverIllustration == Spec => []PhotoIsNoIllustration
BY ScanInvariant, PTL DEF ScanInv

\* An illustrated hit is seen in two regions, of which the changed crop alone
\* is not one, for all scores and however many regions there are.
THEOREM IllustratedAlwaysAgreed == Spec => []IllustratedHitAgreed
BY ScanInvariant, PTL DEF ScanInv

\* A confirmation takes the quarters of the very box in which the finding was
\* seen, on every screen.
THEOREM AlwaysZoomsWhereFound == Spec => []ZoomsWhereFound
BY ScanInvariant, PTL DEF ScanInv
=============================================================================
