----------------------------- MODULE ScanRegions -----------------------------
(***************************************************************************)
(* The parts of a screen capture that the detectors look at                *)
(* (brake/detectors/nudity.py and anime_nsfw.py).  A box is the pixels from *)
(* left to right and from top to bottom, the last ones excluded; None is    *)
(* NoBox.  A region is a name of the code: a part of the screen, and the    *)
(* quarters that were taken of it ("center~q1" is [part |-> "center", quarters *)
(* |-> <<1>>]).                                                             *)
(***************************************************************************)
EXTENDS Integers, Sequences

CONSTANTS
    Width, Height,    \* of the capture, in pixels
    TileFrom,         \* the least side of a capture that is tiled, 500
    NudityMin,        \* _MIN_REGION_PX of nudity.py, 48
    NudityShare,      \* _MIN_CHANGED_FRACTION, in hundredths: 15
    ArtMin,           \* the same of anime_nsfw.py, 96
    ArtShare          \* and 20

NoBox == [left |-> 0, top |-> 0, right |-> 0, bottom |-> 0]

Box(l, t, r, b) == [left |-> l, top |-> t, right |-> r, bottom |-> b]

Boxes == {b \in [left : 0..Width, top : 0..Height,
                 right : 0..Width, bottom : 0..Height] :
              b.left < b.right /\ b.top < b.bottom}

Part(name) == [part |-> name, quarters |-> <<>>]
Full == Part("full")
Center == Part("center")
Video == Part("video_center")
Changed == Part("changed")

-----------------------------------------------------------------------------
(* _pad_and_clamp: the crop around a change. *)

\* One side of it: from lo to hi, at least as long as least.
Padding(lo, hi, least) ==
    IF hi - lo < least THEN (least - (hi - lo)) \div 2 + 1 ELSE 0

PadLow(lo, hi, least) ==
    LET low == lo - Padding(lo, hi, least) IN IF low < 0 THEN 0 ELSE low

PadHigh(lo, hi, least, size) ==
    LET high == hi + Padding(lo, hi, least)
    IN  IF high > size THEN size ELSE high

Padded(b, share) ==
    LET w == (Width * share) \div 100
        h == (Height * share) \div 100
    IN  Box(PadLow(b.left, b.right, w), PadLow(b.top, b.bottom, h),
            PadHigh(b.left, b.right, w, Width),
            PadHigh(b.top, b.bottom, h, Height))

\* Too small a crop is noise, and none at all is taken.
PadAndClamp(b, share, least) ==
    LET p == Padded(b, share)
    IN  IF b = NoBox \/ p.right - p.left < least \/ p.bottom - p.top < least
        THEN NoBox ELSE p

-----------------------------------------------------------------------------
(* The named boxes. *)

Intersect(a, b) ==
    /\ a.left < b.right /\ b.left < a.right
    /\ a.top < b.bottom /\ b.top < a.bottom

Whole == Box(0, 0, Width, Height)

\* A box of this width and height in the middle of the screen.
Middle(w, h) ==
    LET x == (Width - w) \div 2
        y == (Height - h) \div 2
    IN  Box(x, y, x + w, y + h)

VideoBox == Middle((Width * 70) \div 100, (Height * 70) \div 100)
HalfW == Width \div 2
HalfH == Height \div 2

Corners ==
    [name \in {"top_left", "top_right", "bottom_left", "bottom_right"} |->
        CASE name = "top_left" -> Box(0, 0, HalfW, HalfH)
          [] name = "top_right" -> Box(Width - HalfW, 0, Width, HalfH)
          [] name = "bottom_left" -> Box(0, Height - HalfH, HalfW, Height)
          [] OTHER -> Box(Width - HalfW, Height - HalfH, Width, Height)]

Tileable == Width >= TileFrom /\ Height >= TileFrom

Named(region, box) == [region |-> region, box |-> box]

Tiles ==
    {Named(Part(name), Corners[name]) : name \in DOMAIN Corners}
        \cup {Named(Video, VideoBox), Named(Center, Middle(HalfW, HalfH))}

\* _quadrants, of a box that is large enough.
Quadrants(n, least) ==
    LET b == n.box
        x == (b.left + b.right) \div 2
        y == (b.top + b.bottom) \div 2
        Quarter(q, box) == Named([n.region EXCEPT !.quarters = Append(@, q)], box)
    IN  IF x - b.left < least \/ y - b.top < least THEN {}
        ELSE {Quarter(0, Box(b.left, b.top, x, y)),
              Quarter(1, Box(x, b.top, b.right, y)),
              Quarter(2, Box(b.left, y, x, b.bottom)),
              Quarter(3, Box(x, y, b.right, b.bottom))}

\* The quadrants of the region to zoom into, if the last scan knew it.
Zoomed(zoom, lastBoxes, least) ==
    UNION {Quadrants(n, least) : n \in {m \in lastBoxes : m.region = zoom}}

Crop(box) == IF box = NoBox THEN {} ELSE {Named(Changed, box)}

\* NudityDetector._region_boxes.
NudityRegions(profile, change, zoom, lastBoxes) ==
    LET crop == PadAndClamp(change, NudityShare, NudityMin)
        tiles == CASE ~Tileable -> {}
                   [] Tileable /\ profile = "targeted" -> {Named(Video, VideoBox)}
                   [] OTHER -> {t \in Tiles : crop = NoBox \/ Intersect(t.box, crop)}
    IN  {Named(Full, Whole)} \cup tiles \cup Crop(crop)
            \cup Zoomed(zoom, lastBoxes, NudityMin)

\* AnimeNSFWDetector._region_boxes.
ArtRegions(profile, change, zoom, lastBoxes) ==
    LET center == IF profile # "targeted" /\ Tileable
                  THEN {Named(Center, Middle(HalfW, HalfH))} ELSE {}
    IN  {Named(Full, Whole)} \cup center
            \cup Crop(PadAndClamp(change, ArtShare, ArtMin))
            \cup Zoomed(zoom, lastBoxes, ArtMin)
=============================================================================
