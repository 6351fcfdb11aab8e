CONSTANTS
    NoNode = NoNode
    Tables = {t1, t2}
    Kinds = {k1}
    Widgets = {w1}
    Layers = {1, 2, 3}
    MaxLetter = 4
    MaxLayers = 3
    MaxSequence = 2
    MaxNodes = 3
VIEW Shape
SPECIFICATION CarefulSpec
INVARIANTS
    TypeOK
    SourcesExist
    AnalysesOfLayers
    WidgetsRead
PROPERTIES
    MeaningKept
    AddedAsAsked
