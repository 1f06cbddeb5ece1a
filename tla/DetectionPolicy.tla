-------------------------- MODULE DetectionPolicy --------------------------
(***************************************************************************)
(* What the watcher makes of its scans (brake/service/watcher.py): which   *)
(* results are remembered, which of them start a lockout, and when a       *)
(* zoomed confirmation scan follows.                                       *)
(*                                                                         *)
(* A scan's result is an input: the detectors decide what is on the screen *)
(* and the pacer why it is looked at.  The reasons of the pacer fall into  *)
(* three: "fresh" pixels (startup, burst, sustained, settle, window), the  *)
(* "periodic" sweep of an unchanged screen, and the zoomed "confirm" scan  *)
(* of the same content.  One pass of the watcher's loop is one action; it  *)
(* is the only thread that touches this state.  The pause of a lockout is  *)
(* LockoutLifecycle's; here it begins with Lock and ends at any time.      *)
(***************************************************************************)
EXTENDS Naturals, FiniteSets, FiniteSetsExt

CONSTANTS
    Results,          \* what a scan can yield
    Labels,
    Natives,          \* is a fullscreen program other than a browser or a
                      \* player in front?
    HardWindow,       \* HARD_CONFIRM_WINDOW
    ArtWindow,        \* ILLUSTRATED_NATIVE_FULLSCREEN_WINDOW
    ArtSpan,          \* ILLUSTRATED_NATIVE_FULLSCREEN_MIN_SPAN
    ExposureWindow,   \* CONTEXT_EXPOSURE_WINDOW_SECONDS
    ExposureSpan,     \* CONTEXT_EXPOSURE_MIN_SPAN_SECONDS
    FastSpan,         \* CONTEXT_EXPOSURE_FAST_MIN_SPAN_SECONDS
    CleanReset,       \* CONTEXT_EXPOSURE_CLEAN_RESET_SECONDS
    MaxTime,          \* bound of the clock
    MaxScans          \* bound on the number of scans

HardImmediate == 90   \* HARD_IMMEDIATE_CONFIDENCE, in hundredths
ExposureMin == 78     \* CONTEXT_EXPOSURE_MIN_CONFIDENCE, and the average
FastAverage == 88     \* CONTEXT_EXPOSURE_FAST_MIN_AVG_CONFIDENCE
ExposureHits == 3     \* CONTEXT_EXPOSURE_MIN_HITS
FastHits == 2         \* CONTEXT_EXPOSURE_FAST_MIN_HITS
EvidentialHits == 2   \* CONTEXT_EXPOSURE_MIN_EVIDENTIAL_HITS
ArtStrikes == 3       \* ILLUSTRATED_NATIVE_FULLSCREEN_STRIKES
MaxStreak == 2        \* FAST_RESCAN_MAX_STREAK

Reasons == {"fresh", "periodic", "confirm"}
Sweeps == {"full", "targeted"}

\* Nothing (or a scan that failed), a score below the thresholds, a photo
\* of hard content, an illustration (after the 0.90 threshold and the photo
\* guard), exposure in context, and other context.
Kinds == {"none", "suspicion", "hard", "art", "exposure", "context"}

Result == [kind : Kinds, label : Labels, conf : 0..100]

ASSUME PolicyAssumption ==
    /\ Results \subseteq Result /\ Labels # {}
    /\ Natives \subseteq BOOLEAN
    /\ {HardWindow, ArtWindow, ArtSpan, ExposureWindow, ExposureSpan,
        FastSpan, CleanReset, MaxTime, MaxScans} \subseteq Nat
    /\ FastSpan <= ExposureSpan

VARIABLES
    now,          \* the monotonic clock
    locked,       \* _lockout_until is not reached
    strike,       \* _last_hard_pending_label, _at and _hard_strike_count
    exposures,    \* _context_exposure_events
    lastExposure, \* _last_context_exposure_at, 0 if reset
    art,          \* _illustrated_native_fullscreen_first_at and _strikes
    streak,       \* confirm_streak
    zoom,         \* pending_zoom is set
    scans,        \* counts the scans
    seen,         \* history: the hits since the last lockout, the exposures
                  \* also since protection was off
    rescans       \* history: confirmations since a scan without a finding

memory == <<strike, exposures, lastExposure, art>>
vars == <<now, locked, memory, streak, zoom, scans, seen, rescans>>

NoStrike == [armed |-> FALSE, label |-> CHOOSE l \in Labels : TRUE, at |-> 0]
NoArt == [first |-> 0, strikes |-> 0]

Init ==
    /\ now = 1 /\ locked = FALSE
    /\ strike = NoStrike /\ exposures = {} /\ lastExposure = 0 /\ art = NoArt
    /\ streak = 0 /\ zoom = FALSE /\ scans = 0 /\ seen = {} /\ rescans = 0

-----------------------------------------------------------------------------
(* Hard hits. *)

\* A scan's result with what the handlers know of the scan.
HitOf(r, reason, native) ==
    [n |-> scans, at |-> now, kind |-> r.kind, label |-> r.label,
     conf |-> r.conf, reason |-> reason, native |-> native]

\* _apply_hard_lockout, and the strike that every caller clears.
Lock ==
    /\ locked' = TRUE
    /\ strike' = NoStrike
    /\ exposures' = {} /\ lastExposure' = 0

Within(window, at) == now <= at + window

Immediate(h) ==
    h.kind = "hard" /\ h.conf >= HardImmediate /\ h.reason # "periodic"

\* A pending strike, and a second one with its label: but not from a rescan
\* of unchanged pixels, which returns before.
SecondStrike(h) ==
    /\ h.reason # "periodic"
    /\ strike.armed /\ strike.label = h.label /\ Within(HardWindow, strike.at)

\* Mutant: a rescan of unchanged pixels takes the place of the strike.
HardHitRearmed(h) ==
    /\ IF Immediate(h) \/ SecondStrike(h) THEN Lock
       ELSE /\ strike' = [armed |-> TRUE, label |-> h.label, at |-> now]
            /\ UNCHANGED <<locked, exposures, lastExposure>>
    /\ art' = NoArt

\* _handle_hard.
HardHit(h) ==
    /\ IF Immediate(h) \/ SecondStrike(h) THEN Lock
       ELSE /\ strike' = IF h.reason = "periodic" /\ strike.armed THEN strike
                         ELSE [armed |-> TRUE, label |-> h.label, at |-> now]
            /\ UNCHANGED <<locked, exposures, lastExposure>>
    /\ art' = NoArt

-----------------------------------------------------------------------------
(* Illustrations over a native fullscreen surface. *)

\* The strikes with the one of now; an old first strike starts them over.
ArtNext ==
    IF art.first = 0 \/ ~Within(ArtWindow, art.first)
    THEN [first |-> now, strikes |-> 1]
    ELSE [art EXCEPT !.strikes = @ + 1]

ArtConfirmed ==
    ArtNext.strikes >= ArtStrikes /\ now >= ArtNext.first + ArtSpan

\* _handle_illustrated_native_fullscreen: counts fresh pixels only.
ArtHit(h) ==
    IF h.reason # "fresh" THEN UNCHANGED <<locked, memory>>
    ELSE IF ArtConfirmed THEN Lock /\ art' = NoArt
    ELSE art' = ArtNext /\ UNCHANGED <<locked, strike, exposures, lastExposure>>

-----------------------------------------------------------------------------
(* Persistent exposure in context. *)

Recent == {e \in exposures : Within(ExposureWindow, e.at)}

\* Mutant: a new exposure forgets the ones before it.
ExposuresAlone(h) == {h}

ExposuresNext(h) == Recent \cup {h}

Average(events, least) ==
    MapThenSumSet(LAMBDA e : e.conf, events) >= least * Cardinality(events)

Spans(events, span) == \E e \in events : now >= e.at + span

\* Mutant: hits on unchanged pixels are evidence too.
ConfirmedByAny(events) ==
    \/ /\ Cardinality(events) >= ExposureHits
       /\ Spans(events, ExposureSpan) /\ Average(events, ExposureMin)
    \/ /\ Cardinality(events) >= FastHits
       /\ Spans(events, FastSpan) /\ Average(events, FastAverage)

\* Three hits of which two are fresh, or two fresh and very confident ones,
\* over a minimum span.
Confirmed(events) ==
    /\ Cardinality({e \in events : e.reason = "fresh"}) >= EvidentialHits
    /\ \/ /\ Cardinality(events) >= ExposureHits
          /\ Spans(events, ExposureSpan) /\ Average(events, ExposureMin)
       \/ /\ Cardinality(events) >= FastHits
          /\ Spans(events, FastSpan) /\ Average(events, FastAverage)

Counts(h) == h.kind = "exposure" /\ h.conf >= ExposureMin

\* _handle_context_exposure, for a hit that counts.
ExposureHit(h) ==
    /\ IF Confirmed(ExposuresNext(h)) THEN Lock
       ELSE /\ exposures' = ExposuresNext(h)
            /\ lastExposure' = now
            /\ UNCHANGED <<locked, strike>>
    /\ art' = NoArt

-----------------------------------------------------------------------------
(* One pass of the loop that scans. *)

Hit(h) == h.kind \in {"hard", "art", "exposure", "context"}

\* A scan without a finding: a clean period forgets the exposures, a wide
\* sweep the fullscreen strikes.
CleanScan(sweep) ==
    /\ art' = IF sweep = "full" THEN NoArt ELSE art
    /\ IF lastExposure > 0 /\ now >= lastExposure + CleanReset
       THEN exposures' = {} /\ lastExposure' = 0
       ELSE UNCHANGED <<exposures, lastExposure>>
    /\ UNCHANGED <<locked, strike>>

Handle(h, sweep) ==
    CASE h.kind = "none" -> CleanScan(sweep)
      [] h.kind = "art" /\ h.native -> ArtHit(h)
      [] h.kind = "hard" \/ (h.kind = "art" /\ ~h.native) -> HardHit(h)
      [] Counts(h) -> ExposureHit(h)
      [] OTHER -> /\ art' = NoArt
                  /\ UNCHANGED <<locked, strike, exposures, lastExposure>>

\* What asks for a confirmation: a finding that did not lock.
Wants(h) == h.kind # "none" /\ ~(h.kind = "art" /\ h.native) /\ ~locked'

\* Mutant: the streak counts what asks for a confirmation, not what gets one.
RescanCounted(h) ==
    /\ zoom' = (Wants(h) /\ streak < MaxStreak)
    /\ streak' = CASE h.kind = "none" -> 0
                   [] Wants(h) -> streak + 1
                   [] OTHER -> streak

\* Mutant: one confirmation too many.
RescanOnceMore(h) ==
    /\ zoom' = (Wants(h) /\ streak <= MaxStreak)
    /\ streak' = CASE h.kind = "none" -> 0
                   [] zoom' -> streak + 1
                   [] OTHER -> streak

\* A finding that did not lock is looked at again in the next pass, at most
\* MaxStreak times in a row.
Rescan(h) ==
    /\ zoom' = (Wants(h) /\ streak < MaxStreak)
    /\ streak' = CASE h.kind = "none" -> 0
                   [] zoom' -> streak + 1
                   [] OTHER -> streak

\* A confirmation is due before anything else and looks at a region; a
\* periodic sweep is wide; illustrations are looked for in wide sweeps and
\* in confirmations, and only for them does the surface matter.
Possible(h, sweep) ==
    /\ zoom <=> h.reason = "confirm"
    /\ h.reason = "confirm" => sweep = "targeted"
    /\ h.reason = "periodic" => sweep = "full"
    /\ h.kind = "art" => sweep = "full" \/ h.reason = "confirm"
    /\ h.native => h.kind = "art"

Scan(h, sweep) ==
    /\ ~locked /\ scans < MaxScans
    /\ Possible(h, sweep)
    /\ Handle(h, sweep)
    /\ Rescan(h)
    /\ scans' = scans + 1
    /\ seen' = IF locked' THEN {} ELSE IF Hit(h) THEN seen \cup {h} ELSE seen
    /\ rescans' = CASE h.kind = "none" -> 0
                    [] h.kind # "none" /\ h.reason = "confirm" -> rescans + 1
                    [] OTHER -> rescans
    /\ UNCHANGED now

-----------------------------------------------------------------------------
(* The passes that do not scan. *)

\* Protection is off.  Strikes are kept, their window still running.
PassOff ==
    /\ zoom' = FALSE /\ streak' = 0 /\ rescans' = 0
    /\ exposures' = {} /\ lastExposure' = 0
    /\ seen' = {h \in seen : h.kind # "exposure"}
    /\ UNCHANGED <<now, locked, strike, art, scans>>

\* A lockout is on.
PassPaused ==
    /\ locked
    /\ zoom' = FALSE /\ streak' = 0 /\ rescans' = 0
    /\ exposures' = {} /\ lastExposure' = 0
    /\ art' = NoArt
    /\ UNCHANGED <<now, locked, strike, scans, seen>>

\* The lockout is over, possibly before a pass has seen it.
Unlock == locked /\ locked' = FALSE /\ UNCHANGED <<now, memory, streak, zoom,
                                                   scans, seen, rescans>>

Tick ==
    /\ now < MaxTime
    /\ now' = now + 1
    /\ UNCHANGED <<locked, memory, streak, zoom, scans, seen, rescans>>

Next ==
    \/ \E r \in Results, reason \in Reasons, native \in Natives,
          sweep \in Sweeps : Scan(HitOf(r, reason, native), sweep)
    \/ PassOff \/ PassPaused \/ Unlock \/ Tick

Spec == Init /\ [][Next]_vars

-----------------------------------------------------------------------------
(* Correctness, in terms of the scans since the last lockout. *)

HitType == [n : Nat, at : Nat, kind : Kinds, label : Labels, conf : 0..100,
            reason : Reasons, native : BOOLEAN]

TypeOK ==
    /\ now \in Nat /\ locked \in BOOLEAN
    /\ strike \in [armed : BOOLEAN, label : Labels, at : Nat]
    /\ exposures \subseteq HitType
    /\ lastExposure \in Nat
    /\ art \in [first : Nat, strikes : Nat]
    /\ streak \in 0..MaxStreak /\ zoom \in BOOLEAN
    /\ scans \in 0..MaxScans /\ rescans \in Nat
    /\ seen \subseteq HitType

\* The two sources of strikes.
Striking(h) == h.kind = "hard" \/ (h.kind = "art" /\ ~h.native)

\* What may justify a lockout at hit h, from the hits before it.
TwoStrikes(h) ==
    /\ Striking(h) /\ h.reason # "periodic"
    /\ \E g \in seen : /\ Striking(g) /\ g.label = h.label
                        /\ Within(HardWindow, g.at)

ArtPersists(h) ==
    LET fresh == {g \in seen \cup {h} :
                    /\ g.kind = "art" /\ g.native /\ g.reason = "fresh"
                    /\ Within(ArtWindow, g.at)}
    IN  h \in fresh /\ Cardinality(fresh) >= ArtStrikes /\ Spans(fresh, ArtSpan)

ExposurePersists(h) ==
    \E hits \in SUBSET {g \in seen \cup {h} :
                          Counts(g) /\ Within(ExposureWindow, g.at)} :
        /\ h \in hits
        /\ Cardinality({g \in hits : g.reason = "fresh"}) >= EvidentialHits
        /\ \/ Cardinality(hits) >= ExposureHits /\ Spans(hits, ExposureSpan)
           \/ Spans(hits, FastSpan) /\ Average(hits, FastAverage)

\* A lockout never starts without its evidence: a near-certain hit on changed
\* pixels, two hits of one label within the window of which the second is not
\* a rescan of an unchanged screen, or hits that persist over a minimum span
\* with enough of them on fresh pixels; and no evidence counts for two
\* lockouts, whatever ended the first.
LockNeedsEvidence ==
    [][~locked /\ locked'
       => \A r \in Results, reason \in Reasons, native \in Natives :
            LET h == HitOf(r, reason, native)
            IN  (\E sweep \in Sweeps : Scan(h, sweep))
                => \/ Immediate(h) \/ TwoStrikes(h)
                   \/ ArtPersists(h) \/ ExposurePersists(h)]_vars

\* A second strike is never missed: no hit on changed pixels or in a
\* confirmation passes without a lockout while it repeats the label of the
\* last strike within its window, whatever clean scans, other findings,
\* sweeps and passes without protection came between.
SecondStrikeLocks ==
    [][\A h \in seen' \ seen :
         Striking(h) /\ h.reason # "periodic"
         => LET strikes == {g \in seen : Striking(g) /\ g.reason # "periodic"}
            IN  ~\E g \in strikes : /\ \A k \in strikes : k.n <= g.n
                                   /\ g.label = h.label
                                   /\ Within(HardWindow, g.at)]_vars

\* Nor is persistent exposure: the third of three exposures of which two are
\* fresh, none a clean period after the one before, locks once they span the
\* minimum, whatever was scanned between them.
PersistentExposureLocks ==
    [][\A h \in seen' \ seen :
         Counts(h)
         => ~\E f, g \in seen :
                /\ Counts(f) /\ Counts(g) /\ f.n < g.n
                /\ Within(ExposureWindow, f.at)
                /\ now < g.at + CleanReset /\ g.at < f.at + CleanReset
                /\ now >= f.at + ExposureSpan
                /\ Cardinality({e \in {f, g, h} : e.reason = "fresh"})
                       >= EvidentialHits]_vars

\* However a borderline screen keeps its findings coming, confirmation scans
\* are limited until a scan finds nothing.
ConfirmationsBounded == rescans <= MaxStreak
=============================================================================
