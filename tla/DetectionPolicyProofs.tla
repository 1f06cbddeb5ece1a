------------------------ MODULE DetectionPolicyProofs ------------------------
(***************************************************************************)
(* Proofs about DetectionPolicy, for every set of results and labels, every *)
(* window and span, and every bound of the clock and of the scans.         *)
(***************************************************************************)
EXTENDS DetectionPolicy, FiniteSetTheorems, WellFoundedInduction, TLAPS

Evident(h) == h.reason # "periodic"

\* The hits that count for an illustration over a native fullscreen surface.
FreshArt(h) == h.kind = "art" /\ h.native /\ h.reason = "fresh"

ArtSince(first) == {g \in seen : FreshArt(g) /\ g.at >= first}

\* Hits are numbered, and lie in the past.
SeenNumbered ==
    /\ IsFiniteSet(seen) /\ now >= 1
    /\ \A g \in seen : g.n < scans /\ g.at <= now

\* A pending strike was seen, and is not older than the last one on changed
\* pixels or in a confirmation.
StrikeSeen ==
    strike.armed => \E g \in seen : /\ Striking(g) /\ g.label = strike.label
                                    /\ g.at = strike.at

LastStrikePends ==
    \A g \in seen :
        /\ Striking(g) /\ Evident(g)
        /\ \A k \in seen : Striking(k) /\ Evident(k) => k.n <= g.n
        => strike.armed /\ strike.label = g.label /\ strike.at = g.at

\* The exposures that are remembered are hits that were seen and count.
ExposuresSeen == \A e \in exposures : e \in seen /\ Counts(e)

\* The fullscreen strikes are hits since the first of them.
ArtSeen ==
    art.first > 0 =>
        /\ Cardinality(ArtSince(art.first)) >= art.strikes
        /\ \E g \in ArtSince(art.first) : g.at = art.first

\* A confirmation that is done, or asked for, is counted in the streak.
ConfirmationsCounted ==
    /\ rescans <= streak
    /\ zoom => rescans < streak

MemoryInv == SeenNumbered /\ StrikeSeen /\ LastStrikePends /\ ExposuresSeen /\ ArtSeen
PolicyInv == TypeOK /\ MemoryInv /\ ConfirmationsCounted

-----------------------------------------------------------------------------
(* What one scan does. *)

\* The input of a scan has the type of a hit.
LEMMA HitOfType ==
    ASSUME TypeOK, NEW r \in Results, NEW reason \in Reasons, NEW native \in Natives
    PROVE  /\ HitOf(r, reason, native) \in HitType
           /\ HitOf(r, reason, native).n = scans
           /\ HitOf(r, reason, native).at = now
<1>1. r.kind \in Kinds /\ r.label \in Labels /\ r.conf \in 0..100
  BY PolicyAssumption DEF Result
<1>2. native \in BOOLEAN
  BY PolicyAssumption
<1>. QED
  BY <1>1, <1>2 DEF HitOf, HitType, TypeOK

\* Which handler a hit goes to.
LEMMA HandledBy ==
    ASSUME NEW h \in HitType, NEW sweep, Handle(h, sweep)
    PROVE  /\ h.kind = "none" => CleanScan(sweep)
           /\ h.kind = "art" /\ h.native => ArtHit(h)
           /\ Striking(h) => HardHit(h)
           /\ Counts(h) => ExposureHit(h)
           /\ h.kind \notin {"none", "art", "hard"} /\ ~Counts(h) =>
                  /\ art' = NoArt
                  /\ UNCHANGED <<locked, strike, exposures, lastExposure>>
<1>1. h.native \in BOOLEAN
  BY DEF HitType
<1>2. CASE h.kind = "none"
  BY <1>2 DEF Handle, Striking, Counts
<1>3. CASE h.kind = "art" /\ h.native
  BY <1>3 DEF Handle, Striking, Counts
<1>4. CASE Striking(h)
  BY <1>4 DEF Handle, Striking, Counts
<1>5. CASE Counts(h)
  BY <1>5 DEF Handle, Striking, Counts
<1>6. CASE h.kind \notin {"none", "art", "hard"} /\ ~Counts(h)
  BY <1>6 DEF Handle, Striking, Counts
<1>. QED
  BY <1>1, <1>2, <1>3, <1>4, <1>5, <1>6 DEF Striking

\* The five cases of it.
LEMMA HitCases ==
    ASSUME NEW h \in HitType
    PROVE  \/ h.kind = "none"
           \/ h.kind = "art" /\ h.native
           \/ Striking(h)
           \/ Counts(h)
           \/ h.kind \notin {"none", "art", "hard"} /\ ~Counts(h)
BY DEF HitType, Striking, Counts

\* A lockout comes from a second strike or a near-certain hit, from persistent
\* art, or from persistent exposure; and it forgets everything.
LEMMA ScanLocks ==
    ASSUME TypeOK, NEW h \in HitType, NEW sweep, Scan(h, sweep), locked'
    PROVE  /\ locked' = TRUE
           /\ strike' = NoStrike /\ exposures' = {} /\ lastExposure' = 0
           /\ art' = NoArt
           /\ \/ Striking(h) /\ (Immediate(h) \/ SecondStrike(h))
              \/ FreshArt(h) /\ ArtConfirmed
              \/ Counts(h) /\ Confirmed(ExposuresNext(h))
<1>1. locked = FALSE /\ locked' # locked
  BY DEF Scan, TypeOK
<1>2. Handle(h, sweep)
  BY DEF Scan
<1>3. CASE h.kind = "none"
  BY <1>1, <1>2, <1>3, HandledBy DEF CleanScan
<1>4. CASE h.kind = "art" /\ h.native
  <2>1. ArtHit(h)
    BY <1>2, <1>4, HandledBy
  <2>2. h.reason = "fresh" /\ ArtConfirmed /\ Lock /\ art' = NoArt
    BY <1>1, <2>1 DEF ArtHit
  <2>. QED
    BY <1>4, <2>2 DEF Lock, FreshArt
<1>5. CASE Striking(h)
  <2>1. HardHit(h)
    BY <1>2, <1>5, HandledBy
  <2>2. (Immediate(h) \/ SecondStrike(h)) /\ Lock /\ art' = NoArt
    BY <1>1, <2>1 DEF HardHit
  <2>. QED
    BY <1>5, <2>2 DEF Lock
<1>6. CASE Counts(h)
  <2>1. ExposureHit(h)
    BY <1>2, <1>6, HandledBy
  <2>2. Confirmed(ExposuresNext(h)) /\ Lock /\ art' = NoArt
    BY <1>1, <2>1 DEF ExposureHit
  <2>. QED
    BY <1>6, <2>2 DEF Lock
<1>7. CASE h.kind \notin {"none", "art", "hard"} /\ ~Counts(h)
  BY <1>1, <1>2, <1>7, HandledBy
<1>. QED
  BY <1>3, <1>4, <1>5, <1>6, <1>7, HitCases

\* A scan that does not lock arms a strike, adds an exposure, counts an
\* illustration, or forgets.
LEMMA ScanKeeps ==
    ASSUME TypeOK, NEW h \in HitType, NEW sweep, Scan(h, sweep), ~locked'
    PROVE  /\ locked' = FALSE
           /\ Striking(h) => ~SecondStrike(h)
           /\ strike' \in {strike, [armed |-> TRUE, label |-> h.label, at |-> now]}
           /\ Striking(h) /\ (Evident(h) \/ ~strike.armed)
                  => strike' = [armed |-> TRUE, label |-> h.label, at |-> now]
           /\ ~(Striking(h) /\ (Evident(h) \/ ~strike.armed)) => strike' = strike
           /\ exposures' \subseteq exposures \cup {e \in {h} : Counts(e)}
           /\ lastExposure' \in {0, now, lastExposure}
           /\ art' \in {NoArt, art} \/ (FreshArt(h) /\ art' = ArtNext)
<1>1. locked = FALSE
  BY DEF Scan, TypeOK
<1>2. Handle(h, sweep)
  BY DEF Scan
<1>0. ASSUME Lock PROVE FALSE
  BY <1>0 DEF Lock
<1>3. CASE h.kind = "none"
  <2>1. CleanScan(sweep)
    BY <1>2, <1>3, HandledBy
  <2>2. ~Striking(h)
    BY <1>3 DEF Striking
  <2>. QED
    BY <1>1, <2>1, <2>2 DEF CleanScan
<1>4. CASE h.kind = "art" /\ h.native
  <2>1. ArtHit(h)
    BY <1>2, <1>4, HandledBy
  <2>2. ~Striking(h)
    BY <1>4 DEF Striking
  <2>3. UNCHANGED <<locked, strike, exposures, lastExposure>>
    BY <1>0, <2>1 DEF ArtHit, memory
  <2>4. art' = art \/ (h.reason = "fresh" /\ art' = ArtNext)
    BY <1>0, <2>1 DEF ArtHit, memory
  <2>5. art' \in {NoArt, art} \/ (FreshArt(h) /\ art' = ArtNext)
    BY <1>4, <2>4 DEF FreshArt
  <2>. QED
    BY <1>1, <2>2, <2>3, <2>5
<1>5. CASE Striking(h)
  <2>1. HardHit(h)
    BY <1>2, <1>5, HandledBy
  <2>2. /\ ~SecondStrike(h)
        /\ strike' = IF h.reason = "periodic" /\ strike.armed THEN strike
                     ELSE [armed |-> TRUE, label |-> h.label, at |-> now]
        /\ UNCHANGED <<locked, exposures, lastExposure>>
        /\ art' = NoArt
    BY <1>0, <2>1 DEF HardHit
  <2>. QED
    BY <1>1, <1>5, <2>2 DEF Evident
<1>6. CASE Counts(h)
  <2>1. ExposureHit(h)
    BY <1>2, <1>6, HandledBy
  <2>2. ~Striking(h)
    BY <1>6 DEF Striking, Counts
  <2>3. /\ exposures' = ExposuresNext(h) /\ lastExposure' = now
        /\ UNCHANGED <<locked, strike>> /\ art' = NoArt
    BY <1>0, <2>1 DEF ExposureHit
  <2>. QED
    BY <1>1, <1>6, <2>2, <2>3 DEF ExposuresNext, Recent
<1>7. CASE h.kind \notin {"none", "art", "hard"} /\ ~Counts(h)
  <2>1. /\ art' = NoArt
        /\ UNCHANGED <<locked, strike, exposures, lastExposure>>
    BY <1>2, <1>7, HandledBy
  <2>2. ~Striking(h)
    BY <1>7 DEF Striking
  <2>. QED
    BY <1>1, <2>1, <2>2
<1>. QED
  BY <1>3, <1>4, <1>5, <1>6, <1>7, HitCases

-----------------------------------------------------------------------------
(* Types. *)

\* The memory keeps its type whatever was scanned.
LEMMA ScanType ==
    ASSUME TypeOK, SeenNumbered, NEW h \in HitType, NEW sweep, Scan(h, sweep)
    PROVE  TypeOK'
<1>. USE DEF TypeOK
<1>0. NoStrike \in [armed : BOOLEAN, label : Labels, at : Nat]
  BY PolicyAssumption DEF NoStrike
<1>1. h.kind \in Kinds /\ h.label \in Labels
  BY DEF HitType
<1>2. locked' \in BOOLEAN
  <2>1. CASE locked'
    BY <2>1, ScanLocks
  <2>2. CASE ~locked'
    BY <2>2, ScanKeeps
  <2>. QED
    BY <2>1, <2>2
<1>3. ArtNext \in [first : Nat, strikes : Nat] /\ NoArt \in [first : Nat, strikes : Nat]
  BY DEF ArtNext, NoArt
<1>4. /\ strike' \in [armed : BOOLEAN, label : Labels, at : Nat]
      /\ art' \in [first : Nat, strikes : Nat]
  <2>1. CASE locked'
    BY <1>0, <1>3, <2>1, ScanLocks
  <2>2. CASE ~locked'
    <3>1. strike' \in {strike, [armed |-> TRUE, label |-> h.label, at |-> now]}
      BY <2>2, ScanKeeps
    <3>2. art' \in {NoArt, art, ArtNext}
      BY <2>2, ScanKeeps
    <3>3. [armed |-> TRUE, label |-> h.label, at |-> now]
              \in [armed : BOOLEAN, label : Labels, at : Nat]
      BY <1>1
    <3>4. strike' \in [armed : BOOLEAN, label : Labels, at : Nat]
      BY <3>1, <3>3
    <3>. QED
      BY <1>3, <3>2, <3>4
  <2>. QED
    BY <2>1, <2>2
<1>5. exposures' \subseteq HitType /\ lastExposure' \in Nat
  <2>1. CASE locked'
    BY <2>1, ScanLocks
  <2>2. CASE ~locked'
    <3>1. exposures' \subseteq exposures \cup {e \in {h} : Counts(e)}
      BY <2>2, ScanKeeps
    <3>2. lastExposure' \in {0, now, lastExposure}
      BY <2>2, ScanKeeps
    <3>. QED
      BY <3>1, <3>2
  <2>. QED
    BY <2>1, <2>2
<1>6. streak' \in 0..MaxStreak /\ zoom' \in BOOLEAN
  <2>1. Rescan(h)
    BY DEF Scan
  <2>2. zoom' \in BOOLEAN
    BY <2>1 DEF Rescan
  <2>3. zoom' => streak < MaxStreak
    BY <2>1 DEF Rescan
  <2>. QED
    BY <2>1, <2>2, <2>3 DEF Rescan, MaxStreak
<1>7. now' \in Nat /\ scans' \in 0..MaxScans
  BY PolicyAssumption DEF Scan
<1>8. seen' \subseteq HitType
  BY DEF Scan
<1>9. rescans' \in Nat
  BY DEF Scan
<1>. QED
  BY <1>2, <1>4, <1>5, <1>6, <1>7, <1>8, <1>9

\* Every step keeps the types.
LEMMA TypeStep == TypeOK /\ SeenNumbered /\ [Next]_vars => TypeOK'
<1>. SUFFICES ASSUME TypeOK, SeenNumbered, [Next]_vars PROVE TypeOK'
  OBVIOUS
<1>1. ASSUME NEW r \in Results, NEW reason \in Reasons, NEW native \in Natives,
             NEW sweep \in Sweeps, Scan(HitOf(r, reason, native), sweep)
      PROVE  TypeOK'
  BY <1>1, HitOfType, ScanType
<1>2. CASE PassOff
  <2>0. zoom' \in BOOLEAN
    BY <1>2 DEF PassOff
  <2>1. /\ streak' \in 0..MaxStreak /\ rescans' \in Nat
        /\ exposures' \subseteq HitType /\ lastExposure' \in Nat
        /\ seen' \subseteq HitType
    BY <1>2 DEF PassOff, TypeOK, MaxStreak
  <2>2. /\ now' \in Nat /\ scans' \in 0..MaxScans
        /\ strike' \in [armed : BOOLEAN, label : Labels, at : Nat]
        /\ art' \in [first : Nat, strikes : Nat]
    BY <1>2 DEF PassOff, TypeOK
  <2>3. locked' \in BOOLEAN
    BY <1>2 DEF PassOff, TypeOK
  <2>. QED
    BY <2>0, <2>1, <2>2, <2>3 DEF TypeOK
<1>3. CASE PassPaused
  <2>0. zoom' \in BOOLEAN
    BY <1>3 DEF PassPaused
  <2>1. /\ streak' \in 0..MaxStreak /\ rescans' \in Nat
        /\ exposures' \subseteq HitType /\ lastExposure' \in Nat
        /\ art' \in [first : Nat, strikes : Nat]
    BY <1>3 DEF PassPaused, MaxStreak, NoArt
  <2>2. /\ now' \in Nat /\ scans' \in 0..MaxScans
        /\ strike' \in [armed : BOOLEAN, label : Labels, at : Nat]
        /\ seen' \subseteq HitType
    BY <1>3 DEF PassPaused, TypeOK
  <2>3. locked' \in BOOLEAN
    BY <1>3 DEF PassPaused, TypeOK
  <2>. QED
    BY <2>0, <2>1, <2>2, <2>3 DEF TypeOK
<1>4. CASE Unlock
  BY <1>4 DEF Unlock, TypeOK, memory
<1>5. CASE Tick
  BY <1>5 DEF Tick, TypeOK, memory
<1>6. CASE UNCHANGED vars
  BY <1>6 DEF vars, TypeOK, memory
<1>. QED
  BY <1>1, <1>2, <1>3, <1>4, <1>5, <1>6 DEF Next

-----------------------------------------------------------------------------
(* What a scan does to the history. *)

\* A hit that does not lock is added to what was seen; a lockout clears it.
LEMMA ScanSeen ==
    ASSUME TypeOK, NEW h \in HitType, NEW sweep, Scan(h, sweep)
    PROVE  /\ locked' => seen' = {}
           /\ ~locked' => seen' = IF Hit(h) THEN seen \cup {h} ELSE seen
           /\ now' = now /\ scans' = scans + 1 /\ locked = FALSE
<1>1. locked = FALSE
  BY DEF Scan, TypeOK
<1>. QED
  BY <1>1 DEF Scan

\* What counts is a hit.
LEMMA StrikesAreHits ==
    ASSUME NEW h
    PROVE  /\ Striking(h) => Hit(h)
           /\ FreshArt(h) => Hit(h)
           /\ Counts(h) => Hit(h)
BY DEF Striking, FreshArt, Counts, Hit

\* The hits of one kind are finitely many, and more of them are more.
LEMMA MoreArt ==
    ASSUME NEW S, NEW T, IsFiniteSet(T), S \subseteq T
    PROVE  /\ IsFiniteSet(S) /\ Cardinality(S) \in Nat /\ Cardinality(T) \in Nat
           /\ Cardinality(S) <= Cardinality(T)
BY FS_Subset, FS_CardinalityType

\* The fullscreen strikes still stand for hits after one of now is counted.
LEMMA ArtCounted ==
    ASSUME TypeOK, SeenNumbered, ArtSeen, NEW h \in HitType, FreshArt(h),
           h.n = scans, h.at = now
    PROVE  /\ ArtNext.first \in Nat /\ ArtNext.first >= 1 /\ ArtNext.strikes \in Nat
           /\ LET hits == {g \in seen \cup {h} :
                             FreshArt(g) /\ g.at >= ArtNext.first}
              IN  /\ Cardinality(hits) >= ArtNext.strikes
                  /\ h \in hits
                  /\ \E g \in hits : g.at = ArtNext.first
<1>. DEFINE hits == {g \in seen \cup {h} : FreshArt(g) /\ g.at >= ArtNext.first}
<1>1. IsFiniteSet(seen \cup {h})
  BY FS_AddElement DEF SeenNumbered
<1>2. IsFiniteSet(hits) /\ Cardinality(hits) \in Nat
  BY <1>1, MoreArt
<1>3. CASE art.first = 0 \/ ~Within(ArtWindow, art.first)
  <2>1. ArtNext = [first |-> now, strikes |-> 1]
    BY <1>3 DEF ArtNext
  <2>2. h \in hits
    BY <2>1 DEF TypeOK
  <2>3. Cardinality({h}) = 1 /\ {h} \subseteq hits
    BY <2>2, FS_Singleton
  <2>4. Cardinality(hits) >= 1
    BY <1>2, <2>3, MoreArt
  <2>. QED
    BY <2>1, <2>2, <2>4 DEF SeenNumbered, TypeOK
<1>4. CASE ~(art.first = 0 \/ ~Within(ArtWindow, art.first))
  <2>1. /\ ArtNext.first = art.first /\ ArtNext.strikes = art.strikes + 1
        /\ art.first \in Nat /\ art.strikes \in Nat /\ art.first >= 1
    BY <1>4 DEF ArtNext, TypeOK
  <2>. DEFINE before == ArtSince(art.first)
  <2>2. Cardinality(before) >= art.strikes /\ \E g \in before : g.at = art.first
    BY <2>1 DEF ArtSeen
  <2>3. IsFiniteSet(before)
    BY FS_Subset DEF SeenNumbered, ArtSince
  <2>4. h \notin seen
    BY DEF SeenNumbered, TypeOK, HitType
  <2>5. h \notin before
    BY <2>4 DEF ArtSince
  <2>6. \E g \in before : g.at <= now /\ g.at = art.first
    BY <2>2 DEF SeenNumbered, ArtSince
  <2>7. h \in hits
    BY <2>1, <2>6
  <2>8. before \cup {h} \subseteq hits
    BY <2>1, <2>7 DEF ArtSince
  <2>9. Cardinality(before \cup {h}) = Cardinality(before) + 1
    BY <2>3, <2>5, FS_AddElement
  <2>10. Cardinality(before) \in Nat
    BY <2>3, FS_CardinalityType
  <2>11. Cardinality(before \cup {h}) <= Cardinality(hits)
    BY <1>2, <2>8, MoreArt
  <2>12. Cardinality(hits) >= ArtNext.strikes
    BY <1>2, <2>1, <2>2, <2>9, <2>10, <2>11
  <2>13. \E g \in hits : g.at = ArtNext.first
    BY <2>1, <2>6, <2>8
  <2>. QED
    BY <2>1, <2>7, <2>12, <2>13
<1>. QED
  BY <1>3, <1>4

-----------------------------------------------------------------------------
(* The memory after a scan. *)

\* After a scan that does not lock, the memory still stands for hits.
LEMMA ScanMemory ==
    ASSUME TypeOK, MemoryInv, NEW h \in HitType, h.n = scans, h.at = now,
           NEW sweep, Scan(h, sweep), ~locked'
    PROVE  MemoryInv'
<1>. USE DEF MemoryInv
<1>1. seen' = IF Hit(h) THEN seen \cup {h} ELSE seen
  BY ScanSeen
<1>2. now' = now /\ scans' = scans + 1
  BY ScanSeen
<1>3. SeenNumbered'
  <2>1. IsFiniteSet(seen')
    BY <1>1, FS_AddElement DEF SeenNumbered
  <2>2. \A g \in seen : g.n < scans /\ g.at <= now /\ g.n \in Nat
    BY DEF SeenNumbered, TypeOK, HitType
  <2>3. \A g \in seen' : g.n < scans + 1 /\ g.at <= now
    BY <1>1, <2>2 DEF TypeOK
  <2>. QED
    BY <1>2, <2>1, <2>3 DEF SeenNumbered
<1>4. h \notin seen /\ \A g \in seen : g.n < h.n
  BY DEF SeenNumbered, TypeOK, HitType
<1>5. strike' \in {strike, [armed |-> TRUE, label |-> h.label, at |-> now]}
  BY ScanKeeps
<1>6. Striking(h) /\ (Evident(h) \/ ~strike.armed)
          => strike' = [armed |-> TRUE, label |-> h.label, at |-> now]
  BY ScanKeeps
<1>7. ~(Striking(h) /\ (Evident(h) \/ ~strike.armed)) => strike' = strike
  BY ScanKeeps
<1>8. StrikeSeen'
  <2>1. CASE strike' = strike
    BY <1>1, <2>1 DEF StrikeSeen
  <2>2. CASE strike' # strike
    <3>1. Striking(h) /\ h \in seen'
      BY <1>1, <1>7, <2>2, StrikesAreHits
    <3>2. strike'.label = h.label /\ strike'.at = h.at
      BY <1>5, <2>2
    <3>. QED
      BY <3>1, <3>2 DEF StrikeSeen
  <2>. QED
    BY <2>1, <2>2
<1>9. LastStrikePends'
  <2>. SUFFICES ASSUME NEW g \in seen', Striking(g), Evident(g),
                       \A k \in seen' : Striking(k) /\ Evident(k) => k.n <= g.n
                PROVE  /\ strike'.armed
                       /\ strike'.label = g.label /\ strike'.at = g.at
    BY DEF LastStrikePends
  <2>1. CASE Striking(h) /\ Evident(h)
    <3>1. h \in seen' /\ h.n <= g.n
      BY <1>1, <2>1, StrikesAreHits
    <3>2. h.n \in Nat /\ \A k \in seen : k.n \in Nat
      BY DEF TypeOK, HitType
    <3>3. g = h
      BY <1>1, <1>4, <3>1, <3>2
    <3>. QED
      BY <1>6, <2>1, <3>3
  <2>2. CASE ~(Striking(h) /\ Evident(h))
    <3>1. g \in seen /\ \A k \in seen : Striking(k) /\ Evident(k) => k.n <= g.n
      BY <1>1, <2>2
    <3>2. strike.armed /\ strike.label = g.label /\ strike.at = g.at
      BY <3>1 DEF LastStrikePends
    <3>3. strike' = strike
      BY <1>7, <2>2, <3>2
    <3>. QED
      BY <3>2, <3>3
  <2>. QED
    BY <2>1, <2>2
<1>10. ExposuresSeen'
  <2>1. exposures' \subseteq exposures \cup {e \in {h} : Counts(e)}
    BY ScanKeeps
  <2>2. ASSUME NEW e \in exposures' PROVE e \in seen' /\ Counts(e)
    BY <1>1, <2>1, <2>2, StrikesAreHits DEF ExposuresSeen
  <2>. QED
    BY <2>2 DEF ExposuresSeen
<1>11. ArtSeen'
  <2>1. art' = NoArt \/ art' = art \/ (FreshArt(h) /\ art' = ArtNext)
    BY ScanKeeps
  <2>2. CASE art' = NoArt
    BY <2>2 DEF ArtSeen, NoArt
  <2>3. CASE art' = art
    <3>. SUFFICES ASSUME art.first > 0
                  PROVE  /\ Cardinality(ArtSince(art.first)') >= art.strikes
                         /\ \E g \in ArtSince(art.first)' : g.at = art.first
      BY <2>3 DEF ArtSeen, ArtSince
    <3>1. /\ Cardinality(ArtSince(art.first)) >= art.strikes
          /\ \E g \in ArtSince(art.first) : g.at = art.first
      BY DEF ArtSeen
    <3>2. ArtSince(art.first) \subseteq ArtSince(art.first)'
      BY <1>1, <2>3 DEF ArtSince
    <3>3. IsFiniteSet(ArtSince(art.first)')
      BY <1>3, <2>3, FS_Subset DEF SeenNumbered, ArtSince
    <3>4. /\ Cardinality(ArtSince(art.first)) \in Nat
          /\ Cardinality(ArtSince(art.first)') \in Nat
          /\ Cardinality(ArtSince(art.first)) <= Cardinality(ArtSince(art.first)')
      BY <3>2, <3>3, MoreArt
    <3>5. art.strikes \in Nat
      BY DEF TypeOK
    <3>. QED
      BY <3>1, <3>2, <3>4, <3>5
  <2>4. CASE FreshArt(h) /\ art' = ArtNext
    <3>1. seen' = seen \cup {h}
      BY <1>1, <2>4, StrikesAreHits
    <3>2. ArtSince(art.first)' = {g \in seen \cup {h} :
                                    FreshArt(g) /\ g.at >= ArtNext.first}
      BY <2>4, <3>1 DEF ArtSince
    <3>3. /\ Cardinality(ArtSince(art.first)') >= ArtNext.strikes
          /\ \E g \in ArtSince(art.first)' : g.at = ArtNext.first
      BY <2>4, <3>2, ArtCounted
    <3>. QED
      BY <2>4, <3>3 DEF ArtSeen
  <2>. QED
    BY <2>1, <2>2, <2>3, <2>4
<1>. QED
  BY <1>3, <1>8, <1>9, <1>10, <1>11

\* After a lockout there is nothing to stand for.
LEMMA LockMemory ==
    ASSUME TypeOK, MemoryInv, NEW h \in HitType, NEW sweep, Scan(h, sweep), locked'
    PROVE  MemoryInv'
<1>1. seen' = {} /\ now' = now
  BY ScanSeen
<1>2. strike' = NoStrike /\ exposures' = {} /\ art' = NoArt
  BY ScanLocks
<1>3. ~(NoStrike.armed) /\ NoArt.first = 0
  BY DEF NoStrike, NoArt
<1>4. SeenNumbered'
  BY <1>1, FS_EmptySet DEF SeenNumbered, MemoryInv
<1>. QED
  BY <1>1, <1>2, <1>3, <1>4 DEF MemoryInv, StrikeSeen, LastStrikePends,
     ExposuresSeen, ArtSeen

\* Every step leaves a memory of hits that were seen.
LEMMA MemoryStep == TypeOK /\ MemoryInv /\ [Next]_vars => MemoryInv'
<1>. SUFFICES ASSUME TypeOK, MemoryInv, [Next]_vars PROVE MemoryInv'
  OBVIOUS
<1>. USE DEF MemoryInv
<1>1. ASSUME NEW r \in Results, NEW reason \in Reasons, NEW native \in Natives,
             NEW sweep \in Sweeps, Scan(HitOf(r, reason, native), sweep)
      PROVE  MemoryInv'
  BY <1>1, HitOfType, ScanMemory, LockMemory
<1>2. CASE PassOff
  <2>1. /\ seen' = {h \in seen : h.kind # "exposure"}
        /\ exposures' = {} /\ UNCHANGED <<now, strike, art, scans>>
    BY <1>2 DEF PassOff
  <2>2. SeenNumbered'
    BY <2>1, FS_Subset DEF SeenNumbered
  <2>3. \A g \in seen : Striking(g) \/ FreshArt(g) => g \in seen'
    BY <2>1 DEF Striking, FreshArt
  <2>4. StrikeSeen' /\ LastStrikePends'
    BY <2>1, <2>3 DEF StrikeSeen, LastStrikePends
  <2>5. ArtSince(art.first)' = ArtSince(art.first)
    BY <2>1, <2>3 DEF ArtSince
  <2>. QED
    BY <2>1, <2>2, <2>4, <2>5 DEF ExposuresSeen, ArtSeen
<1>3. CASE PassPaused
  <2>1. exposures' = {} /\ art' = NoArt /\ UNCHANGED <<now, strike, scans, seen>>
    BY <1>3 DEF PassPaused
  <2>. QED
    BY <2>1 DEF SeenNumbered, StrikeSeen, LastStrikePends, ExposuresSeen,
       ArtSeen, NoArt
<1>4. CASE Unlock \/ UNCHANGED vars
  <2>1. UNCHANGED <<now, strike, exposures, art, scans, seen>>
    BY <1>4 DEF Unlock, vars, memory
  <2>. QED
    BY <2>1 DEF SeenNumbered, StrikeSeen, LastStrikePends, ExposuresSeen,
       ArtSeen, ArtSince
<1>5. CASE Tick
  <2>1. now' = now + 1 /\ UNCHANGED <<strike, exposures, art, scans, seen>>
    BY <1>5 DEF Tick, memory
  <2>2. \A g \in seen : g.at \in Nat
    BY DEF TypeOK, HitType
  <2>3. SeenNumbered'
    BY <2>1, <2>2 DEF SeenNumbered, TypeOK
  <2>. QED
    BY <2>1, <2>3 DEF StrikeSeen, LastStrikePends, ExposuresSeen,
       ArtSeen, ArtSince
<1>. QED
  BY <1>1, <1>2, <1>3, <1>4, <1>5 DEF Next

-----------------------------------------------------------------------------
(* The invariant. *)

\* The streak counts every confirmation and the one that is due.
LEMMA ConfirmationsStep ==
    TypeOK /\ ConfirmationsCounted /\ [Next]_vars => ConfirmationsCounted'
<1>. SUFFICES ASSUME TypeOK, ConfirmationsCounted, [Next]_vars
              PROVE  ConfirmationsCounted'
  OBVIOUS
<1>0. streak \in Nat /\ rescans \in Nat /\ zoom \in BOOLEAN
  BY DEF TypeOK, MaxStreak
<1>1. ASSUME NEW r \in Results, NEW reason \in Reasons, NEW native \in Natives,
             NEW sweep \in Sweeps, Scan(HitOf(r, reason, native), sweep)
      PROVE  ConfirmationsCounted'
  <2>. DEFINE h == HitOf(r, reason, native)
  <2>1. zoom <=> h.reason = "confirm"
    BY <1>1 DEF Scan, Possible
  <2>2. /\ zoom' = (Wants(h) /\ streak < MaxStreak)
        /\ streak' = CASE h.kind = "none" -> 0
                       [] zoom' -> streak + 1
                       [] OTHER -> streak
        /\ rescans' = CASE h.kind = "none" -> 0
                        [] h.kind # "none" /\ h.reason = "confirm" -> rescans + 1
                        [] OTHER -> rescans
    BY <1>1 DEF Scan, Rescan
  <2>. HIDE DEF h
  <2>3. CASE h.kind = "none"
    <3>1. ~zoom' /\ streak' = 0 /\ rescans' = 0
      BY <2>2, <2>3 DEF Wants
    <3>. QED
      BY <3>1 DEF ConfirmationsCounted
  <2>4. CASE h.kind # "none"
    <3>1. rescans' <= streak /\ rescans' \in Nat
      BY <1>0, <2>1, <2>2, <2>4 DEF ConfirmationsCounted
    <3>2. CASE zoom'
      <4>1. streak' = streak + 1
        BY <2>2, <2>4, <3>2
      <4>. QED
        BY <1>0, <3>1, <4>1 DEF ConfirmationsCounted
    <3>3. CASE ~zoom'
      <4>1. streak' = streak
        BY <2>2, <2>4, <3>3
      <4>. QED
        BY <3>1, <3>3, <4>1 DEF ConfirmationsCounted
    <3>. QED
      BY <3>2, <3>3
  <2>. QED
    BY <2>3, <2>4
<1>2. CASE PassOff \/ PassPaused
  <2>1. zoom' = FALSE /\ streak' = 0 /\ rescans' = 0
    BY <1>2 DEF PassOff, PassPaused
  <2>. QED
    BY <2>1 DEF ConfirmationsCounted
<1>3. CASE Unlock \/ Tick \/ UNCHANGED vars
  <2>1. streak' = streak /\ rescans' = rescans
    BY <1>3 DEF Unlock, Tick, vars
  <2>2. zoom' = zoom
    BY <1>3 DEF Unlock, Tick, vars
  <2>. QED
    BY <2>1, <2>2 DEF ConfirmationsCounted
<1>. QED
  BY <1>1, <1>2, <1>3 DEF Next

\* Nothing is remembered at first.
LEMMA PolicyInit == Init => PolicyInv
<1>. SUFFICES ASSUME Init PROVE PolicyInv
  OBVIOUS
<1>1. NoStrike \in [armed : BOOLEAN, label : Labels, at : Nat]
  BY PolicyAssumption DEF NoStrike
<1>2. NoArt \in [first : Nat, strikes : Nat] /\ NoArt.first = 0
  BY DEF NoArt
<1>3. ~NoStrike.armed
  BY DEF NoStrike
<1>4. TypeOK
  <2>1. locked \in BOOLEAN /\ zoom \in BOOLEAN
    BY DEF Init
  <2>2. /\ strike \in [armed : BOOLEAN, label : Labels, at : Nat]
        /\ art \in [first : Nat, strikes : Nat]
    BY <1>1, <1>2 DEF Init
  <2>3. MaxScans \in Nat
    BY PolicyAssumption
  <2>4. /\ now \in Nat /\ exposures \subseteq HitType /\ lastExposure \in Nat
        /\ streak \in 0..MaxStreak /\ scans \in 0..MaxScans /\ rescans \in Nat
        /\ seen \subseteq HitType
    BY <2>3 DEF Init, MaxStreak
  <2>. QED
    BY <2>1, <2>2, <2>4 DEF TypeOK
<1>5. MemoryInv
  BY <1>2, <1>3, FS_EmptySet DEF Init, MemoryInv, SeenNumbered, StrikeSeen,
     LastStrikePends, ExposuresSeen, ArtSeen
<1>6. ConfirmationsCounted
  BY DEF Init, ConfirmationsCounted
<1>. QED
  BY <1>4, <1>5, <1>6 DEF PolicyInv

\* The inductive invariant: the watcher's memory is the one that the history
\* of its scans gives, however strikes, exposures, pauses and switches mix.
THEOREM PolicyInvariant == Spec => []PolicyInv
<1>1. PolicyInv /\ [Next]_vars => PolicyInv'
  BY TypeStep, MemoryStep, ConfirmationsStep DEF PolicyInv, MemoryInv
<1>. QED
  BY <1>1, PolicyInit, PTL DEF Spec

-----------------------------------------------------------------------------
(* The theorems. *)

\* Every variable keeps its type.
THEOREM TypesKept == Spec => []TypeOK
<1>1. PolicyInv => TypeOK
  BY DEF PolicyInv
<1>. QED
  BY <1>1, PolicyInvariant, PTL

\* At most MaxStreak confirmations follow each other, whatever the scans find
\* (confirm_streak of Watcher._run_loop).
THEOREM ConfirmationsLimited == Spec => []ConfirmationsBounded
<1>1. PolicyInv => ConfirmationsBounded
  BY DEF PolicyInv, ConfirmationsCounted, ConfirmationsBounded, TypeOK, MaxStreak
<1>. QED
  BY <1>1, PolicyInvariant, PTL

\* The scan that starts a lockout has its evidence.
LEMMA EvidenceStep ==
    ASSUME PolicyInv, ~locked, locked',
           NEW r \in Results, NEW reason \in Reasons, NEW native \in Natives,
           NEW sweep \in Sweeps, Scan(HitOf(r, reason, native), sweep)
    PROVE  LET h == HitOf(r, reason, native)
           IN  Immediate(h) \/ TwoStrikes(h) \/ ArtPersists(h) \/ ExposurePersists(h)
<1>. USE DEF PolicyInv, MemoryInv
<1>. DEFINE h == HitOf(r, reason, native)
<1>1. h \in HitType /\ h.n = scans /\ h.at = now
  BY HitOfType
<1>. HIDE DEF h
<1>2. \/ Striking(h) /\ (Immediate(h) \/ SecondStrike(h))
      \/ FreshArt(h) /\ ArtConfirmed
      \/ Counts(h) /\ Confirmed(ExposuresNext(h))
  BY <1>1, ScanLocks DEF h
<1>3. ASSUME Striking(h), SecondStrike(h) PROVE TwoStrikes(h)
  <2>1. /\ h.reason # "periodic" /\ strike.armed /\ strike.label = h.label
        /\ Within(HardWindow, strike.at)
    BY <1>3 DEF SecondStrike
  <2>2. \E g \in seen : Striking(g) /\ g.label = strike.label /\ g.at = strike.at
    BY <2>1 DEF StrikeSeen
  <2>. QED
    BY <1>3, <2>1, <2>2 DEF TwoStrikes
<1>4. ASSUME FreshArt(h), ArtConfirmed PROVE ArtPersists(h)
  <2>. DEFINE hits == {g \in seen \cup {h} :
                         FreshArt(g) /\ g.at >= ArtNext.first}
              fresh == {g \in seen \cup {h} :
                         /\ g.kind = "art" /\ g.native /\ g.reason = "fresh"
                         /\ Within(ArtWindow, g.at)}
  <2>1. /\ ArtNext.first \in Nat /\ ArtNext.first >= 1 /\ ArtNext.strikes \in Nat
        /\ Cardinality(hits) >= ArtNext.strikes /\ h \in hits
        /\ \E g \in hits : g.at = ArtNext.first
    BY <1>1, <1>4, ArtCounted
  <2>2. ArtNext.strikes >= 3 /\ now >= ArtNext.first + ArtSpan
    BY <1>4 DEF ArtConfirmed, ArtStrikes
  <2>3. now <= ArtNext.first + ArtWindow
    BY <2>2, PolicyAssumption DEF ArtNext, Within, TypeOK
  <2>4. \A g \in seen \cup {h} : g.at \in Nat
    BY <1>1 DEF TypeOK, HitType
  <2>5. now \in Nat /\ ArtWindow \in Nat /\ ArtSpan \in Nat
    BY PolicyAssumption DEF TypeOK
  <2>6. \A g \in hits : now <= g.at + ArtWindow
    BY <2>1, <2>3, <2>4, <2>5
  <2>7. hits \subseteq fresh
    BY <2>6 DEF FreshArt, Within
  <2>8. IsFiniteSet(fresh)
    <3>1. IsFiniteSet(seen \cup {h})
      BY FS_AddElement DEF SeenNumbered
    <3>. QED
      BY <3>1, FS_Subset
  <2>9. Cardinality(hits) \in Nat /\ Cardinality(fresh) \in Nat
        /\ Cardinality(hits) <= Cardinality(fresh)
    BY <2>7, <2>8, MoreArt
  <2>10. Cardinality(fresh) >= ArtStrikes
    BY <2>1, <2>2, <2>9 DEF ArtStrikes
  <2>11. Spans(fresh, ArtSpan)
    BY <2>1, <2>2, <2>7 DEF Spans
  <2>12. h \in fresh
    BY <2>1, <2>7
  <2>. QED
    BY <2>10, <2>11, <2>12 DEF ArtPersists
<1>5. ASSUME Counts(h), Confirmed(ExposuresNext(h)) PROVE ExposurePersists(h)
  <2>. DEFINE hits == ExposuresNext(h)
  <2>1. hits \subseteq {g \in seen \cup {h} :
                          Counts(g) /\ Within(ExposureWindow, g.at)}
    <3>1. \A g \in Recent : g \in seen /\ Counts(g) /\ Within(ExposureWindow, g.at)
      BY DEF Recent, ExposuresSeen
    <3>2. Within(ExposureWindow, h.at)
      BY <1>1, PolicyAssumption DEF Within, TypeOK
    <3>. QED
      BY <1>5, <3>1, <3>2 DEF ExposuresNext
  <2>2. h \in hits
    BY DEF ExposuresNext
  <2>3. /\ Cardinality({g \in hits : g.reason = "fresh"}) >= EvidentialHits
        /\ \/ Cardinality(hits) >= ExposureHits /\ Spans(hits, ExposureSpan)
           \/ Spans(hits, FastSpan) /\ Average(hits, FastAverage)
    BY <1>5 DEF Confirmed
  <2>. HIDE DEF hits
  <2>. QED
    BY <2>1, <2>2, <2>3 DEF ExposurePersists
<1>6. Immediate(h) \/ TwoStrikes(h) \/ ArtPersists(h) \/ ExposurePersists(h)
  BY <1>2, <1>3, <1>4, <1>5
<1>. QED
  BY <1>6 DEF h

\* No lockout without its evidence, for every threshold in time, and none by
\* the evidence of another (_handle_hard, _handle_context_exposure,
\* _handle_illustrated_native_fullscreen).
THEOREM LockAlwaysEvident == Spec => LockNeedsEvidence
<1>1. PolicyInv /\ [Next]_vars =>
        [~locked /\ locked'
         => \A r \in Results, reason \in Reasons, native \in Natives :
              LET h == HitOf(r, reason, native)
              IN  (\E sweep \in Sweeps : Scan(h, sweep))
                  => \/ Immediate(h) \/ TwoStrikes(h)
                     \/ ArtPersists(h) \/ ExposurePersists(h)]_vars
  BY EvidenceStep
<1>. QED
  BY <1>1, PolicyInvariant, PTL DEF Spec, LockNeedsEvidence

\* No second strike passes: what happens between the two cannot lose the first
\* (_handle_hard with the strike it remembers).
THEOREM SecondStrikeAlwaysLocks == Spec => SecondStrikeLocks
<1>1. ASSUME PolicyInv, [Next]_vars, NEW h \in seen' \ seen,
             Striking(h), h.reason # "periodic"
      PROVE  LET strikes == {g \in seen : Striking(g) /\ g.reason # "periodic"}
             IN  ~\E g \in strikes : /\ \A k \in strikes : k.n <= g.n
                                    /\ g.label = h.label
                                    /\ Within(HardWindow, g.at)
  <2>. USE DEF PolicyInv, MemoryInv
  <2>1. ~PassOff /\ ~PassPaused /\ ~Unlock /\ ~Tick /\ ~UNCHANGED vars
    BY <1>1 DEF PassOff, PassPaused, Unlock, Tick, vars
  <2>2. PICK r \in Results, reason \in Reasons, native \in Natives,
             sweep \in Sweeps : Scan(HitOf(r, reason, native), sweep)
    BY <1>1, <2>1 DEF Next
  <2>. DEFINE hit == HitOf(r, reason, native)
  <2>3. hit \in HitType
    BY <1>1, HitOfType
  <2>. HIDE DEF hit
  <2>4. Scan(hit, sweep)
    BY <2>2 DEF hit
  <2>5. ~locked' /\ h = hit
    BY <1>1, <2>3, <2>4, ScanSeen
  <2>6. ~SecondStrike(h)
    BY <1>1, <2>3, <2>4, <2>5, ScanKeeps
  <2>7. ASSUME NEW g \in seen, Striking(g), g.reason # "periodic",
               \A k \in seen : Striking(k) /\ k.reason # "periodic" => k.n <= g.n,
               g.label = h.label, Within(HardWindow, g.at)
        PROVE  FALSE
    <3>1. strike.armed /\ strike.label = g.label /\ strike.at = g.at
      BY <1>1, <2>7 DEF LastStrikePends, Evident
    <3>. QED
      BY <1>1, <2>6, <2>7, <3>1 DEF SecondStrike
  <2>. QED
    BY <2>7
<1>2. PolicyInv /\ [Next]_vars =>
        [\A h \in seen' \ seen :
           Striking(h) /\ h.reason # "periodic"
           => LET strikes == {g \in seen : Striking(g) /\ g.reason # "periodic"}
              IN  ~\E g \in strikes : /\ \A k \in strikes : k.n <= g.n
                                     /\ g.label = h.label
                                     /\ Within(HardWindow, g.at)]_vars
  BY <1>1
<1>. QED
  BY <1>2, PolicyInvariant, PTL DEF Spec, SecondStrikeLocks

-----------------------------------------------------------------------------
(* Sums over sets of hits. *)

\* The points a set of hits is worth, as a set: the number i stands under a
\* hit whose confidence is at least i.
Points(s) == {p \in s \X (1..100) : p[2] <= p[1].conf}

\* A hit adds its confidence.
LEMMA PointsOfOneMore ==
    ASSUME NEW s, IsFiniteSet(s), \A e \in s : e.conf \in 0..100, NEW x \in s
    PROVE  /\ IsFiniteSet(Points(s)) /\ IsFiniteSet(Points(s \ {x}))
           /\ Cardinality(Points(s)) = x.conf + Cardinality(Points(s \ {x}))
<1>. DEFINE rest == s \ {x}
            own == {x} \X (1..x.conf)
<1>0. x.conf \in 0..100 /\ x.conf \in Nat
  OBVIOUS
<1>1. IsFiniteSet(rest) /\ IsFiniteSet({x}) /\ Cardinality({x}) = 1
  BY FS_RemoveElement, FS_Singleton
<1>2. /\ IsFiniteSet(1..100) /\ IsFiniteSet(1..x.conf)
      /\ Cardinality(1..x.conf) = x.conf
  <2>1. x.conf \in Int /\ x.conf >= 0 /\ 1 \in Int /\ 100 \in Int
    OBVIOUS
  <2>2. IsFiniteSet(1..100)
    BY <2>1, FS_Interval
  <2>3. /\ IsFiniteSet(1..x.conf)
        /\ Cardinality(1..x.conf) = IF 1 > x.conf THEN 0 ELSE x.conf - 1 + 1
    BY <2>1, FS_Interval
  <2>. QED
    BY <2>1, <2>2, <2>3
<1>3. IsFiniteSet(s \X (1..100)) /\ IsFiniteSet(rest \X (1..100))
  BY <1>1, <1>2, FS_Product
<1>4. IsFiniteSet(Points(s)) /\ IsFiniteSet(Points(rest))
  BY <1>3, FS_Subset DEF Points
<1>5. /\ IsFiniteSet({x} \X (1..x.conf))
      /\ Cardinality({x} \X (1..x.conf)) = Cardinality({x}) * Cardinality(1..x.conf)
  BY <1>1, <1>2, FS_Product
<1>6. IsFiniteSet(own) /\ Cardinality(own) = x.conf
  <2>1. Cardinality(own) = 1 * x.conf
    BY <1>1, <1>2, <1>5
  <2>. QED
    BY <1>0, <1>5, <2>1
<1>7. Points(s) = own \cup Points(rest) /\ own \cap Points(rest) = {}
  BY DEF Points
<1>8. Cardinality(own \cup Points(rest))
          = Cardinality(own) + Cardinality(Points(rest))
            - Cardinality(own \cap Points(rest))
  BY <1>4, <1>6, FS_Union
<1>9. Cardinality(Points(rest)) \in Nat /\ Cardinality({}) = 0
  BY <1>4, FS_CardinalityType, FS_EmptySet
<1>. HIDE DEF own, rest
<1>10. Cardinality(Points(s)) = x.conf + Cardinality(Points(rest))
  <2>1. Cardinality(Points(s))
            = Cardinality(own) + Cardinality(Points(rest)) - Cardinality({})
    BY <1>7, <1>8, Zenon
  <2>2. Cardinality(Points(s)) = x.conf + Cardinality(Points(rest)) - 0
    BY <1>6, <1>9, <2>1, Zenon
  <2>. QED
    BY <1>0, <1>9, <2>2
<1>. QED
  BY <1>4, <1>10 DEF rest

\* What one element adds to the sum over a set.
AddsUp(it, S) ==
    it = [s \in SUBSET S |->
            IF s = {} THEN 0
            ELSE LET x == CHOOSE x \in s : TRUE IN x.conf + it[s \ {x}]]

\* There is such a function, so that MapThenSumSet is one.
LEMMA SumAddsUp ==
    ASSUME NEW S, IsFiniteSet(S), \A e \in S : e.conf \in 0..100
    PROVE  \E it : AddsUp(it, S) /\ MapThenSumSet(LAMBDA e : e.conf, S) = it[S]
<1>. DEFINE points == [s \in SUBSET S |-> Cardinality(Points(s))]
            it == CHOOSE f : f = [s \in SUBSET S |->
                     IF s = {} THEN 0
                     ELSE LET x == CHOOSE x \in s : TRUE IN x.conf + f[s \ {x}]]
<1>1. ASSUME NEW s \in SUBSET S
      PROVE  points[s] = IF s = {} THEN 0
                         ELSE LET x == CHOOSE x \in s : TRUE
                              IN  x.conf + points[s \ {x}]
  <2>1. CASE s = {}
    <3>1. Points(s) = {}
      BY <2>1 DEF Points
    <3>. QED
      BY <2>1, <3>1, FS_EmptySet
  <2>2. CASE s # {}
    <3>. DEFINE x == CHOOSE x \in s : TRUE
    <3>1. x \in s
      BY <2>2
    <3>2. IsFiniteSet(s) /\ \A e \in s : e.conf \in 0..100
      BY FS_Subset
    <3>. HIDE DEF x
    <3>3. Cardinality(Points(s)) = x.conf + Cardinality(Points(s \ {x}))
      BY <3>1, <3>2, PointsOfOneMore
    <3>4. points[s] = x.conf + points[s \ {x}]
      BY <3>3
    <3>. QED
      BY <2>2, <3>4 DEF x
  <2>. QED
    BY <2>1, <2>2
<1>2. points = [s \in SUBSET S |->
                  IF s = {} THEN 0
                  ELSE LET x == CHOOSE x \in s : TRUE IN x.conf + points[s \ {x}]]
  BY <1>1
<1>3. MapThenSumSet(LAMBDA e : e.conf, S) = it[S]
  BY DEF MapThenSumSet, MapThenFoldSet
<1>. HIDE DEF points
<1>4. AddsUp(it, S)
  BY <1>2 DEF AddsUp
<1>. QED
  BY <1>3, <1>4

\* Exposures that count have an average that counts: a smallest set whose sum
\* were too low would have one hit to take out and still be too low.
LEMMA AverageOfCounting ==
    ASSUME NEW S, IsFiniteSet(S),
           \A e \in S : e.conf \in 0..100 /\ e.conf >= ExposureMin
    PROVE  Average(S, ExposureMin)
<1>1. PICK it : AddsUp(it, S) /\ MapThenSumSet(LAMBDA e : e.conf, S) = it[S]
  BY SumAddsUp
<1>. DEFINE Low == {s \in SUBSET S :
                      ~(it[s] \in Nat /\ it[s] >= ExposureMin * Cardinality(s))}
<1>2. SUFFICES ASSUME Low # {} PROVE FALSE
  <2>1. S \in SUBSET S /\ S \notin Low
    BY <1>2
  <2>2. it[S] >= ExposureMin * Cardinality(S)
    BY <2>1
  <2>. QED
    BY <1>1, <2>2 DEF Average
<1>3. IsWellFoundedOn(StrictSubsetOrdering(S), SUBSET S)
  BY FS_StrictSubsetOrderingWellFounded, FS_FiniteSubsetsOfFinite
<1>4. Low \subseteq SUBSET S
  OBVIOUS
<1>. HIDE DEF Low
<1>5. PICK s \in Low : \A t \in Low : ~(<<t, s>> \in StrictSubsetOrdering(S))
  BY <1>2, <1>3, <1>4, WFMin
<1>6. s \in SUBSET S /\ IsFiniteSet(s)
  BY <1>4, <1>5, FS_Subset
<1>7. ~(it[s] \in Nat /\ it[s] >= ExposureMin * Cardinality(s))
  BY <1>5 DEF Low
<1>8. CASE s = {}
  <2>1. it[s] = 0 /\ Cardinality(s) = 0
    BY <1>1, <1>6, <1>8, FS_EmptySet DEF AddsUp
  <2>. QED
    BY <1>7, <2>1 DEF ExposureMin
<1>9. CASE s # {}
  <2>. DEFINE x == CHOOSE x \in s : TRUE
              rest == s \ {x}
  <2>1. x \in s /\ rest \in SUBSET S
    BY <1>6, <1>9
  <2>2. it[s] = x.conf + it[rest]
    BY <1>1, <1>6, <1>9 DEF AddsUp
  <2>3. x.conf \in Nat /\ x.conf >= ExposureMin
    BY <1>6, <2>1
  <2>. HIDE DEF x
  <2>4. <<rest, s>> \in StrictSubsetOrdering(S)
    BY <1>6, <2>1 DEF StrictSubsetOrdering
  <2>5. it[rest] \in Nat /\ it[rest] >= ExposureMin * Cardinality(rest)
    BY <1>5, <2>1, <2>4 DEF Low
  <2>6. Cardinality(rest) = Cardinality(s) - 1 /\ Cardinality(s) \in Nat
    BY <1>6, <2>1, FS_RemoveElement, FS_CardinalityType
  <2>. HIDE DEF rest
  <2>. QED
    BY <1>7, <2>2, <2>3, <2>5, <2>6 DEF ExposureMin
<1>. QED
  BY <1>8, <1>9

-----------------------------------------------------------------------------
(* Exposures that are not forgotten. *)

LockedForgets == locked => seen = {}

SeenInOrder == \A f, g \in seen : f.n < g.n => f.at <= g.at

ExposuresDated == \A g \in exposures : g.at <= lastExposure

\* An exposure is remembered for its window if no clean period has passed since.
LastExposureKept ==
    \A g \in seen :
        Counts(g) /\ Within(ExposureWindow, g.at) /\ now < g.at + CleanReset
        => g \in exposures

\* So is one before it, if no clean period lies between them.
EarlierExposureKept ==
    \A f, g \in seen :
        /\ Counts(f) /\ Counts(g) /\ f.n < g.n /\ g.at < f.at + CleanReset
        /\ g \in exposures /\ Within(ExposureWindow, f.at)
        => f \in exposures

ExposureInv == LockedForgets /\ SeenInOrder /\ ExposuresDated
               /\ LastExposureKept /\ EarlierExposureKept

\* A scan that does not lock remembers an exposure that counts and confirms
\* nothing, or forgets all after a clean period, or leaves the memory alone.
LEMMA ScanExposes ==
    ASSUME TypeOK, NEW h \in HitType, NEW sweep, Scan(h, sweep), ~locked'
    PROVE  \/ /\ Counts(h) /\ ~Confirmed(ExposuresNext(h))
              /\ exposures' = ExposuresNext(h) /\ lastExposure' = now
           \/ /\ ~Counts(h) /\ now >= lastExposure + CleanReset
              /\ exposures' = {} /\ lastExposure' = 0
           \/ ~Counts(h) /\ UNCHANGED <<exposures, lastExposure>>
<1>1. Handle(h, sweep)
  BY DEF Scan
<1>2. ASSUME Lock PROVE FALSE
  BY <1>2 DEF Lock
<1>3. CASE h.kind = "none"
  BY <1>1, <1>3, HandledBy DEF CleanScan, Counts
<1>4. CASE h.kind = "art" /\ h.native
  <2>1. UNCHANGED <<exposures, lastExposure>>
    BY <1>1, <1>2, <1>4, HandledBy DEF ArtHit, memory
  <2>. QED
    BY <1>4, <2>1 DEF Counts
<1>5. CASE Striking(h)
  <2>1. UNCHANGED <<exposures, lastExposure>>
    BY <1>1, <1>2, <1>5, HandledBy DEF HardHit
  <2>. QED
    BY <1>5, <2>1 DEF Counts, Striking
<1>6. CASE Counts(h)
  <2>1. ExposureHit(h)
    BY <1>1, <1>6, HandledBy
  <2>. QED
    BY <1>2, <1>6, <2>1 DEF ExposureHit
<1>7. CASE h.kind \notin {"none", "art", "hard"} /\ ~Counts(h)
  BY <1>1, <1>7, HandledBy
<1>. QED
  BY <1>3, <1>4, <1>5, <1>6, <1>7, HitCases

\* The times that exposures are compared by are numbers.
LEMMA ExposureTimes ==
    ASSUME PolicyInv
    PROVE  /\ now \in Nat /\ lastExposure \in Nat
           /\ ExposureWindow \in Nat /\ CleanReset \in Nat
           /\ \A g \in seen : g.at \in Nat /\ g.n \in Nat
                              /\ g.at <= now /\ g.n < scans
           /\ \A g \in exposures : g \in seen /\ Counts(g)
BY PolicyAssumption DEF PolicyInv, TypeOK, MemoryInv, SeenNumbered,
   ExposuresSeen, HitType

\* After a scan without a lockout the exposures that must not be forgotten
\* are there.
LEMMA ScanExposures ==
    ASSUME PolicyInv, ExposureInv, NEW h \in HitType, NEW sweep,
           Scan(h, sweep), ~locked', h.n = scans, h.at = now
    PROVE  ExposureInv'
<1>. USE DEF ExposureInv
<1>0. TypeOK /\ scans \in Nat
  BY PolicyAssumption DEF PolicyInv, TypeOK
<1>1. seen' \subseteq seen \cup {h} /\ now' = now
  BY <1>0, ScanSeen
<1>2. LockedForgets'
  BY DEF LockedForgets
<1>3. SeenInOrder'
  BY <1>0, <1>1, ExposureTimes DEF SeenInOrder
<1>4. CASE /\ Counts(h)
           /\ exposures' = ExposuresNext(h) /\ lastExposure' = now
  <2>1. exposures' = {e \in exposures : now <= e.at + ExposureWindow} \cup {h}
    BY <1>4 DEF ExposuresNext, Recent, Within
  <2>2. ExposuresDated'
    BY <1>4, <2>1, ExposureTimes DEF ExposuresDated
  <2>3. LastExposureKept'
    BY <1>1, <2>1 DEF LastExposureKept, Within
  <2>4. EarlierExposureKept'
    <3>. SUFFICES ASSUME NEW f \in seen', NEW g \in seen', Counts(f), Counts(g),
                         f.n < g.n, g.at < f.at + CleanReset, g \in exposures',
                         now <= f.at + ExposureWindow
                  PROVE  f \in exposures'
      BY <1>1 DEF EarlierExposureKept, Within
    <3>1. CASE f = h
      BY <2>1, <3>1
    <3>2. CASE f # h /\ g = h
      <4>1. f \in seen /\ now < f.at + CleanReset
        BY <1>1, <3>2
      <4>2. f \in exposures
        BY <4>1 DEF LastExposureKept, Within
      <4>. QED
        BY <2>1, <4>2
    <3>3. CASE f # h /\ g # h
      <4>1. f \in seen /\ g \in seen /\ g \in exposures
        BY <1>1, <2>1, <3>3
      <4>2. f \in exposures
        BY <4>1 DEF EarlierExposureKept, Within
      <4>. QED
        BY <2>1, <4>2
    <3>. QED
      BY <3>1, <3>2, <3>3
  <2>. QED
    BY <1>2, <1>3, <2>2, <2>3, <2>4
<1>5. CASE /\ ~Counts(h) /\ now >= lastExposure + CleanReset
           /\ exposures' = {} /\ lastExposure' = 0
  <2>1. ASSUME NEW g \in seen, Counts(g), now <= g.at + ExposureWindow,
               now < g.at + CleanReset
        PROVE  FALSE
    <3>1. g \in exposures
      BY <2>1 DEF LastExposureKept, Within
    <3>2. g.at <= lastExposure
      BY <3>1 DEF ExposuresDated
    <3>. QED
      BY <1>5, <2>1, <3>2, ExposureTimes
  <2>2. LastExposureKept'
    BY <1>1, <1>5, <2>1 DEF LastExposureKept, Within
  <2>. QED
    BY <1>2, <1>3, <1>5, <2>2 DEF ExposuresDated, EarlierExposureKept
<1>6. CASE ~Counts(h) /\ UNCHANGED <<exposures, lastExposure>>
  <2>1. \A g \in seen' : Counts(g) => g \in seen
    BY <1>1, <1>6
  <2>. QED
    BY <1>1, <1>2, <1>3, <1>6, <2>1 DEF ExposuresDated, LastExposureKept,
       EarlierExposureKept, Within
<1>. QED
  BY <1>0, <1>4, <1>5, <1>6, ScanExposes

\* Every step keeps what must not be forgotten.
LEMMA ExposureStep == PolicyInv /\ ExposureInv /\ [Next]_vars => ExposureInv'
<1>. SUFFICES ASSUME PolicyInv, ExposureInv, [Next]_vars PROVE ExposureInv'
  OBVIOUS
<1>. USE DEF ExposureInv
<1>0. TypeOK
  BY DEF PolicyInv
<1>1. ASSUME NEW r \in Results, NEW reason \in Reasons, NEW native \in Natives,
             NEW sweep \in Sweeps, Scan(HitOf(r, reason, native), sweep)
      PROVE  ExposureInv'
  <2>. DEFINE h == HitOf(r, reason, native)
  <2>1. h \in HitType /\ h.n = scans /\ h.at = now
    BY <1>0, HitOfType
  <2>2. Scan(h, sweep)
    BY <1>1
  <2>. HIDE DEF h
  <2>3. CASE locked'
    <3>1. seen' = {} /\ exposures' = {}
      BY <1>0, <2>1, <2>2, <2>3, ScanSeen, ScanLocks
    <3>. QED
      BY <3>1 DEF LockedForgets, SeenInOrder, ExposuresDated, LastExposureKept,
         EarlierExposureKept
  <2>. QED
    BY <2>1, <2>2, <2>3, ScanExposures
<1>2. CASE PassOff
  <2>1. /\ seen' = {h \in seen : h.kind # "exposure"} /\ exposures' = {}
        /\ locked' = locked
    BY <1>2 DEF PassOff
  <2>2. \A g \in seen' : g \in seen /\ ~Counts(g)
    BY <2>1 DEF Counts
  <2>. QED
    BY <2>1, <2>2 DEF LockedForgets, SeenInOrder, ExposuresDated,
       LastExposureKept, EarlierExposureKept
<1>3. CASE PassPaused
  <2>1. seen' = {} /\ exposures' = {}
    BY <1>3 DEF PassPaused, LockedForgets
  <2>. QED
    BY <2>1 DEF LockedForgets, SeenInOrder, ExposuresDated, LastExposureKept,
       EarlierExposureKept
<1>4. CASE Unlock \/ UNCHANGED vars
  <2>1. /\ UNCHANGED <<now, seen, exposures, lastExposure>>
        /\ locked' => locked
    BY <1>4 DEF Unlock, vars, memory
  <2>. QED
    BY <2>1 DEF LockedForgets, SeenInOrder, ExposuresDated, LastExposureKept,
       EarlierExposureKept, Within
<1>5. CASE Tick
  <2>1. /\ UNCHANGED <<locked, seen, exposures, lastExposure>>
        /\ now' = now + 1
    BY <1>5 DEF Tick, memory
  <2>2. \A g \in seen : /\ now + 1 <= g.at + ExposureWindow
                                => now <= g.at + ExposureWindow
                        /\ now + 1 < g.at + CleanReset => now < g.at + CleanReset
    BY ExposureTimes
  <2>3. LockedForgets' /\ SeenInOrder' /\ ExposuresDated'
    BY <2>1 DEF LockedForgets, SeenInOrder, ExposuresDated
  <2>4. LastExposureKept' /\ EarlierExposureKept'
    BY <2>1, <2>2 DEF LastExposureKept, EarlierExposureKept, Within
  <2>. QED
    BY <2>3, <2>4
<1>. QED
  BY <1>1, <1>2, <1>3, <1>4, <1>5 DEF Next

\* Three exposures that persist are enough evidence, whatever else is
\* remembered with them.
LEMMA PersistentIsConfirmed ==
    ASSUME NEW events, IsFiniteSet(events), events \subseteq HitType,
           \A e \in events : Counts(e),
           NEW f \in events, NEW g \in events, NEW h \in events,
           f # g, f # h, g # h, now >= f.at + ExposureSpan,
           Cardinality({e \in {f, g, h} : e.reason = "fresh"}) >= EvidentialHits
    PROVE  Confirmed(events)
<1>1. IsFiniteSet({f, g, h}) /\ Cardinality({f, g, h}) = 3
  <2>1. IsFiniteSet({f}) /\ Cardinality({f}) = 1 /\ g \notin {f}
    BY FS_Singleton
  <2>2. /\ IsFiniteSet({f} \cup {g})
        /\ Cardinality({f} \cup {g}) = Cardinality({f}) + 1
    BY <2>1, FS_AddElement
  <2>3. {f} \cup {g} = {f, g} /\ h \notin {f, g} /\ {f, g} \cup {h} = {f, g, h}
    OBVIOUS
  <2>4. IsFiniteSet({f, g}) /\ Cardinality({f, g}) = 2
    BY <2>1, <2>2, <2>3
  <2>5. /\ IsFiniteSet({f, g} \cup {h})
        /\ Cardinality({f, g} \cup {h}) = Cardinality({f, g}) + 1
    BY <2>3, <2>4, FS_AddElement
  <2>. QED
    BY <2>3, <2>4, <2>5
<1>2. Cardinality({f, g, h}) <= Cardinality(events) /\ Cardinality(events) \in Nat
  BY MoreArt
<1>3. Cardinality(events) >= ExposureHits
  BY <1>1, <1>2 DEF ExposureHits
<1>4. Cardinality({e \in events : e.reason = "fresh"}) >= EvidentialHits
  <2>. DEFINE few == {e \in {f, g, h} : e.reason = "fresh"}
              all == {e \in events : e.reason = "fresh"}
  <2>1. few \subseteq all
    OBVIOUS
  <2>2. IsFiniteSet(all)
    BY FS_Subset
  <2>. HIDE DEF all
  <2>3. /\ Cardinality(few) \in Nat /\ Cardinality(all) \in Nat
        /\ Cardinality(few) <= Cardinality(all)
    BY <2>1, <2>2, MoreArt
  <2>4. Cardinality(few) >= EvidentialHits
    OBVIOUS
  <2>. HIDE DEF few
  <2>5. Cardinality(all) >= EvidentialHits
    BY <2>3, <2>4 DEF EvidentialHits
  <2>. QED
    BY <2>5 DEF all
<1>5. Spans(events, ExposureSpan)
  BY DEF Spans
<1>6. Average(events, ExposureMin)
  <2>1. \A e \in events : e.conf \in 0..100 /\ e.conf >= ExposureMin
    BY DEF HitType, Counts
  <2>. QED
    BY <2>1, AverageOfCounting
<1>. QED
  BY <1>3, <1>4, <1>5, <1>6 DEF Confirmed

\* No exposure that persists passes: neither clean scans shorter than the
\* reset nor other findings lose the ones before it
\* (_handle_context_exposure with the deque it keeps).
THEOREM PersistentExposureAlwaysLocks == Spec => PersistentExposureLocks
<1>1. ASSUME PolicyInv, ExposureInv, [Next]_vars, NEW h \in seen' \ seen, Counts(h),
             NEW f \in seen, NEW g \in seen,
             Counts(f), Counts(g), f.n < g.n, Within(ExposureWindow, f.at),
             now < g.at + CleanReset, g.at < f.at + CleanReset,
             now >= f.at + ExposureSpan,
             Cardinality({e \in {f, g, h} : e.reason = "fresh"}) >= EvidentialHits
      PROVE  FALSE
  <2>. USE DEF ExposureInv
  <2>0. TypeOK
    BY <1>1 DEF PolicyInv
  <2>1. ~PassOff /\ ~PassPaused /\ ~Unlock /\ ~Tick /\ ~UNCHANGED vars
    BY <1>1 DEF PassOff, PassPaused, Unlock, Tick, vars
  <2>2. PICK r \in Results, reason \in Reasons, native \in Natives,
             sweep \in Sweeps : Scan(HitOf(r, reason, native), sweep)
    BY <1>1, <2>1 DEF Next
  <2>. DEFINE hit == HitOf(r, reason, native)
  <2>3. hit \in HitType /\ hit.n = scans
    BY <2>0, HitOfType
  <2>. HIDE DEF hit
  <2>4. Scan(hit, sweep)
    BY <2>2 DEF hit
  <2>5. ~locked' /\ h = hit
    <3>1. ~locked'
      BY <1>1, <2>0, <2>3, <2>4, ScanSeen
    <3>2. seen' \subseteq seen \cup {hit}
      BY <2>0, <2>3, <2>4, <3>1, ScanSeen
    <3>. QED
      BY <1>1, <3>1, <3>2
  <2>6. ~Confirmed(ExposuresNext(h))
    BY <1>1, <2>0, <2>3, <2>4, <2>5, ScanExposes
  <2>7. f \in Recent /\ g \in Recent
    <3>1. f.at <= g.at
      BY <1>1 DEF SeenInOrder
    <3>2. Within(ExposureWindow, g.at)
      BY <1>1, <3>1, ExposureTimes DEF Within
    <3>3. g \in exposures
      BY <1>1, <3>2 DEF LastExposureKept
    <3>4. f \in exposures
      BY <1>1, <3>3 DEF EarlierExposureKept
    <3>. QED
      BY <1>1, <3>2, <3>3, <3>4 DEF Recent
  <2>. DEFINE events == ExposuresNext(h)
  <2>8. f \in events /\ g \in events /\ h \in events
    BY <2>7 DEF ExposuresNext
  <2>9. IsFiniteSet(events)
    <3>1. IsFiniteSet(seen)
      BY <1>1 DEF PolicyInv, MemoryInv, SeenNumbered
    <3>2. Recent \subseteq seen
      BY <1>1, ExposureTimes DEF Recent
    <3>3. IsFiniteSet(Recent)
      BY <3>1, <3>2, FS_Subset
    <3>. QED
      BY <3>3, FS_AddElement DEF ExposuresNext
  <2>10. events \subseteq HitType /\ \A e \in events : Counts(e)
    BY <1>1, <2>0, <2>3, <2>5, ExposureTimes DEF ExposuresNext, Recent, TypeOK
  <2>11. f # g /\ f # h /\ g # h
    BY <1>1, <2>3, <2>5, ExposureTimes
  <2>. HIDE DEF events
  <2>12. Confirmed(events)
    BY <1>1, <2>8, <2>9, <2>10, <2>11, PersistentIsConfirmed
  <2>. QED
    BY <2>6, <2>12 DEF events
<1>2. PolicyInv /\ ExposureInv /\ [Next]_vars =>
        [\A h \in seen' \ seen :
           Counts(h)
           => ~\E f, g \in seen :
                  /\ Counts(f) /\ Counts(g) /\ f.n < g.n
                  /\ Within(ExposureWindow, f.at)
                  /\ now < g.at + CleanReset /\ g.at < f.at + CleanReset
                  /\ now >= f.at + ExposureSpan
                  /\ Cardinality({e \in {f, g, h} : e.reason = "fresh"})
                         >= EvidentialHits]_vars
  BY <1>1
<1>3. Init => ExposureInv
  BY DEF Init, ExposureInv, LockedForgets, SeenInOrder, ExposuresDated,
     LastExposureKept, EarlierExposureKept
<1>. QED
  BY <1>2, <1>3, ExposureStep, PolicyInvariant, PTL DEF Spec, PersistentExposureLocks
=============================================================================
