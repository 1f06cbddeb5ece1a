------------------------------ MODULE ScanPass ------------------------------
(***************************************************************************)
(* One look at the screen (Watcher._scan_once and the end of a pass of its *)
(* loop, brake/service/watcher.py): the regions are chosen, the nudity      *)
(* detector and then the illustrated one look at them, and what they       *)
(* report decides where the next pass zooms in.                            *)
(*                                                                         *)
(* What NudeNet finds in a region and how the classifier scores it are     *)
(* inputs; so are what the pacer asks for and, where there is a hit,       *)
(* whether the policy wants it confirmed (FramePacer, DetectionPolicy).    *)
(***************************************************************************)
EXTENDS Integers, FiniteSets, FiniteSetsExt, Sequences

CONSTANTS
    Width, Height, TileFrom, NudityMin, NudityShare, ArtMin, ArtShare,
    Changes,       \* the changed boxes that the pacer reports, NoBox among them
    Reportable,    \* what NudeNet can report: findings
    MaxFindings,   \* bound on the findings of one scan
    Cold,          \* the score of a region that shows nothing
    Scores,        \* the classifier's other scores
    MaxWarm        \* bound on the regions of one scan that are not cold

R == INSTANCE ScanRegions

Names(named) == {n.region : n \in named}

Profiles == {"full", "targeted"}
N == INSTANCE NudityDetector WITH
    Classes <- {f.class : f \in Reportable},
    Regions <- {f.region : f \in Reportable},
    WholeScreen <- R!Full

I == INSTANCE IllustratedDetector WITH
    ArtFull <- R!Full, ArtCenter <- R!Center, ArtChanged <- R!Changed

ASSUME PassAssumption ==
    /\ Width \in Nat \ {0} /\ Height \in Nat \ {0} /\ TileFrom \in Nat
    /\ NudityMin \in Nat \ {0} /\ ArtMin \in Nat \ {0}
    /\ NudityShare \in 0..100 /\ ArtShare \in 0..100
    /\ Changes \subseteq R!Boxes \cup {R!NoBox} /\ R!NoBox \in Changes
    /\ IsFiniteSet(Reportable)
    /\ \A f \in Reportable : f.score \in 0..1000 /\ f.fits \in BOOLEAN
    /\ MaxFindings \in Nat
    /\ Scores \subseteq 0..1000 /\ Cold \in 0..1000 /\ MaxWarm \in Nat

NoRegion == R!Part("")            \* a confirmation of no region in particular
NoReport == N!Negative("none")

VARIABLES
    pc,          \* "idle", "nudity", "illustrated", "end"
    look,        \* what this scan was asked for
    boxes,       \* _last_boxes of the two detectors
    zoom,        \* pending_zoom
    streak,      \* confirm_streak
    photo,       \* the photo-body note of nudity_result
    hit, suspicion,
    bodies,      \* history: the findings of NudeNet in this scan; those of
                 \* photographed bodies once the classifier has looked
    scores,      \* history: the scores that the classifier was asked for
    from         \* history: the detector and the boxes that pending_zoom names

vars == <<pc, look, boxes, zoom, streak, photo, hit, suspicion, bodies, scores,
          from>>

MaxStreak == 2          \* FAST_RESCAN_MAX_STREAK
ArtExplicit == 900      \* ANIME_EXPLICIT_CONFIDENCE

NoZoom == [set |-> FALSE, region |-> NoRegion]
NoLook == [profile |-> "full", change |-> R!NoBox, zoom |-> NoRegion,
           art |-> FALSE]
NoScores == [r \in {} |-> 0]
Nowhere == [detector |-> "none", seen |-> {}]

Init ==
    /\ pc = "idle" /\ look = NoLook
    /\ boxes = [nudity |-> {}, anime_nsfw |-> {}]
    /\ zoom = NoZoom /\ streak = 0 /\ photo = FALSE
    /\ hit = NoReport /\ suspicion = NoReport
    /\ bodies = {} /\ scores = NoScores /\ from = Nowhere

\* A pass that scans: a zoomed confirmation is always a targeted sweep.
Begin(profile, change, art) ==
    /\ pc = "idle"
    /\ zoom.set => profile = "targeted"
    /\ pc' = "nudity"
    /\ look' = [profile |-> profile, change |-> change, zoom |-> zoom.region,
                art |-> art]
    /\ zoom' = NoZoom
    /\ UNCHANGED <<boxes, streak, photo, hit, suspicion, bodies, scores, from>>

\* Protection is off, or a lockout is on or has just been released.
Pause ==
    /\ pc = "idle" /\ zoom.set
    /\ zoom' = NoZoom /\ streak' = 0 /\ from' = Nowhere
    /\ UNCHANGED <<pc, look, boxes, photo, hit, suspicion, bodies, scores>>

-----------------------------------------------------------------------------
(* The detectors. *)

\* The strongest result that is not a hit; the first of equals.
Stronger(r) ==
    IF /\ ~r.triggered /\ r.severity # "none"
       /\ suspicion = NoReport \/ r.conf > suspicion.conf
    THEN r ELSE suspicion

Take(r) ==
    /\ suspicion' = Stronger(r)
    /\ hit' = IF r.triggered THEN r ELSE hit

NudityLooksAt == R!NudityRegions(look.profile, look.change, look.zoom, boxes.nudity)

\* Mutant: the boxes of a targeted scan are not remembered.
NudityScanForgets(F) ==
    /\ pc = "nudity"
    /\ \A f \in F : f.region \in Names(NudityLooksAt)
    /\ boxes' = [boxes EXCEPT !.nudity = IF look.profile = "full"
                                        THEN NudityLooksAt ELSE @]
    /\ bodies' = F
    /\ \E r \in N!NudityResults(F) :
           /\ Take(r)
           /\ photo' = r.photo
           /\ pc' = IF r.triggered THEN "end" ELSE "illustrated"
    /\ UNCHANGED <<look, zoom, streak, scores, from>>

\* NudityDetector.scan: a hit ends the scan.
NudityScan(F) ==
    /\ pc = "nudity"
    /\ \A f \in F : f.region \in Names(NudityLooksAt)
    /\ boxes' = [boxes EXCEPT !.nudity = NudityLooksAt]
    /\ bodies' = F
    /\ \E r \in N!NudityResults(F) :
           /\ Take(r)
           /\ photo' = r.photo
           /\ pc' = IF r.triggered THEN "end" ELSE "illustrated"
    /\ UNCHANGED <<look, zoom, streak, scores, from>>

\* NudeNet raised: as if nothing had been found.
NudityFails ==
    /\ pc = "nudity" /\ pc' = "illustrated"
    /\ boxes' = [boxes EXCEPT !.nudity = NudityLooksAt]
    /\ UNCHANGED <<look, zoom, streak, photo, hit, suspicion, bodies, scores,
                   from>>

ArtLooksAt == R!ArtRegions(look.profile, look.change, look.zoom, boxes.anime_nsfw)

\* Illustrations are looked for in wide sweeps and in zoomed confirmations.
LooksForArt == look.art /\ (look.profile = "full" \/ look.zoom # NoRegion)

\* _apply_anime_mode, then _apply_illustrated_photo_guard: a confident trigger
\* is an explicit one, unless NudeNet saw a photographed body and no nudity.
ArtResult(kind, conf, region) ==
    CASE kind = "POSSIBLE" /\ conf >= ArtExplicit ->
             [detector |-> "anime_nsfw", triggered |-> ~photo,
              severity |-> IF photo THEN "context" ELSE "hard",
              conf |-> conf,
              kind |-> IF photo THEN "SUSPECT_ART" ELSE "EXPLICIT_ART",
              region |-> region, photo |-> FALSE]
      [] kind = "SUSPECT_ART" ->
             [detector |-> "anime_nsfw", triggered |-> FALSE,
              severity |-> "context", conf |-> conf, kind |-> "SUSPECT_ART",
              region |-> region, photo |-> FALSE]
      [] OTHER -> N!Negative("anime_nsfw")

\* AnimeNSFWDetector.scan, if every region would score as all does.
ArtScan(all) ==
    /\ pc = "illustrated" /\ pc' = "end"
    /\ LooksForArt
    /\ DOMAIN all = Names(ArtLooksAt)
    /\ boxes' = [boxes EXCEPT !.anime_nsfw = ArtLooksAt]
    /\ scores' = I!CascadeScore(all)
    /\ \E r \in I!BestRegions(scores') :
           Take(ArtResult(I!ArtKind(scores'), scores'[r], r))
    /\ bodies' = N!PhotoBodies(bodies)
    /\ UNCHANGED <<look, zoom, streak, photo, from>>

\* It is skipped; or its model is missing or does not load.
ArtSkipped ==
    /\ pc = "illustrated" /\ pc' = "end"
    /\ UNCHANGED <<look, boxes, zoom, streak, photo, hit, suspicion, bodies,
                   scores, from>>

\* The classifier raised: as if nothing had been found.
ArtFails ==
    /\ pc = "illustrated" /\ pc' = "end"
    /\ LooksForArt
    /\ boxes' = [boxes EXCEPT !.anime_nsfw = ArtLooksAt]
    /\ UNCHANGED <<look, zoom, streak, photo, hit, suspicion, bodies, scores,
                   from>>

\* _scan_once raised, as it does when NudeNet cannot be loaded.
ScanRaises ==
    /\ pc = "nudity" /\ pc' = "end"
    /\ UNCHANGED <<look, boxes, zoom, streak, photo, hit, suspicion, bodies,
                   scores, from>>

-----------------------------------------------------------------------------
(* The end of the pass. *)

\* Mutant: there is no end to the confirmations.
ConfirmEveryTime(r, region) ==
    /\ streak' = streak + 1
    /\ zoom' = [set |-> TRUE, region |-> region]
    /\ from' = Nowhere

\* The suspicion or, if the policy wants it, the hit is looked at again in
\* the next pass, closer where its region is known; a native fullscreen
\* illustration is looked at again as a whole.
Confirm(r, region) ==
    /\ streak < MaxStreak
    /\ streak' = streak + 1
    /\ zoom' = [set |-> TRUE, region |-> region]
    /\ from' = IF region = NoRegion THEN Nowhere
               ELSE [detector |-> r.detector,
                     seen |-> {n \in boxes[r.detector] : n.region = region}]

NoConfirm ==
    /\ zoom' = NoZoom /\ from' = Nowhere
    /\ streak' = IF hit = NoReport /\ suspicion = NoReport THEN 0 ELSE streak

End(wants, native) ==
    /\ pc = "end" /\ pc' = "idle"
    /\ \/ /\ hit # NoReport /\ wants
          /\ Confirm(hit, IF native /\ hit.detector = "anime_nsfw"
                          THEN NoRegion ELSE hit.region)
       \/ /\ hit = NoReport /\ suspicion # NoReport
          /\ Confirm(suspicion, suspicion.region)
       \/ /\ \/ hit # NoReport /\ ~wants
             \/ hit = NoReport /\ suspicion = NoReport
             \/ streak = MaxStreak
          /\ NoConfirm
    /\ look' = NoLook /\ photo' = FALSE
    /\ hit' = NoReport /\ suspicion' = NoReport
    /\ bodies' = {} /\ scores' = NoScores
    /\ UNCHANGED boxes

FewFindings == UNION {kSubset(n, Reportable) : n \in 0..MaxFindings}

FewWarm(regions) ==
    UNION {{[r \in regions |-> IF r \in warm THEN f[r] ELSE Cold] :
                f \in [warm -> Scores]} :
           warm \in UNION {kSubset(n, regions) : n \in 0..MaxWarm}}

Next ==
    \/ \E profile \in Profiles, change \in Changes, art \in BOOLEAN :
           Begin(profile, change, art)
    \/ Pause
    \/ \E F \in FewFindings : NudityScan(F)
    \/ NudityFails
    \/ pc = "illustrated" /\ LooksForArt
       /\ \E all \in FewWarm(Names(ArtLooksAt)) : ArtScan(all)
    \/ ArtSkipped
    \/ ArtFails
    \/ ScanRaises
    \/ \E wants, native \in BOOLEAN : End(wants, native)

Spec == Init /\ [][Next]_vars

-----------------------------------------------------------------------------
(* Correctness. *)

TypeOK ==
    /\ pc \in {"idle", "nudity", "illustrated", "end"}
    /\ look.profile \in Profiles /\ look.change \in Changes
    /\ DOMAIN boxes = {"nudity", "anime_nsfw"}
    /\ streak \in 0..MaxStreak /\ photo \in BOOLEAN
    /\ bodies \subseteq Reportable
    /\ \A r \in DOMAIN scores : scores[r] \in Scores \cup {Cold}
    /\ hit.triggered \/ hit = NoReport
    /\ ~suspicion.triggered

\* No further finding makes NudeNet's result weaker, whichever of the returns
\* it falls under, except that a face (as in a talking head) may keep male
\* genitalia that nothing agrees with from being trusted alone.
NoFindingWeakens ==
    pc = "illustrated" \/ hit.detector = "nudity" =>
        \A f \in Reportable :
            \/ N!Strength(N!Deciding(bodies))
                  <= N!Strength(N!Deciding(bodies \cup {f}))
            \/ /\ f.class \in N!Faces
               /\ \A g \in N!Trusted(bodies) :
                      /\ g.class = "MALE_GENITALIA"
                      /\ ~N!Agreement(bodies, g.region)

\* "If NudeNet sees this kind of photographic body context and still refuses
\* to trigger, the illustrated/general NSFW classifier should not overrule
\* it by itself" (nudity.py): whichever way the nudity detector returned.
PhotoIsNoIllustration ==
    hit.detector = "anime_nsfw" => N!PhotoBodies(bodies) = {}

\* An illustrated hit is seen in two regions, of which the changed crop alone
\* is not one: "never enough by itself" (anime_nsfw.py).
IllustratedHitAgreed ==
    hit.detector = "anime_nsfw" =>
        /\ \E r \in DOMAIN scores : scores[r] >= I!ArtTrigger
        /\ \E r, q \in DOMAIN scores :
               /\ r # q /\ q # R!Changed
               /\ scores[r] >= I!ArtSecondary /\ scores[q] >= I!ArtSecondary

\* A confirmation looks closer at the very box in which the finding was seen:
\* the detector that reported it takes the quarters of that box, in the
\* second confirmation too, though the other detector may have looked, failed
\* or been skipped in between.
ZoomsWhereFound ==
    /\ (pc = "illustrated" /\ from.detector = "nudity") =>
           \E n \in from.seen : R!Quadrants(n, NudityMin) \subseteq boxes.nudity
    /\ (pc = "end" /\ from.detector = "anime_nsfw" /\ DOMAIN scores # {}) =>
           \E n \in from.seen : R!Quadrants(n, ArtMin) \subseteq boxes.anime_nsfw

\* "Nothing that could become a suspect or trigger is ever gated out"
\* (anime_nsfw.py): the quarters of the region that a suspicion of the
\* illustrated detector names are scored when it is looked at again.
ZoomIsScored ==
    (/\ pc = "end" /\ from.detector = "anime_nsfw"
     /\ DOMAIN scores # {}) =>
        \A n \in UNION {R!Quadrants(m, ArtMin) : m \in from.seen} :
            n.region \in DOMAIN scores
=============================================================================
