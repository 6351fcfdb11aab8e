CONSTANTS
    NoNode = NoNode
    Tables = {t1}
    Kinds = {k1}
    Widgets = {}
    Layers = {1, 2, 3}
    MaxLetter = 4
    MaxLayers = 3
    MaxSequence = 2
    MaxNodes = 3
VIEW Shape
SPECIFICATION FoldSpec
PROPERTY
    DeletionKeeps
