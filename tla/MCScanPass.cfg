SPECIFICATION Spec
CONSTANTS
    Width = 16
    Height = 16
    TileFrom = 8
    NudityMin = 2
    NudityShare = 15
    ArtMin = 3
    ArtShare = 20
    Changes <- CornerOrNone
    Reportable <- FoundAnywhere
    MaxFindings = 3
    Cold = 300
    Scores = {850, 920, 990}
    MaxWarm = 2
INVARIANTS TypeOK NoFindingWeakens   
