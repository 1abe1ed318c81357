CONSTANTS
    None = None
    Handle = {f, g}
    Name = {a, b}
    Rider = {r, s}
    Inode = {i1, i2, i3, i4}
    Item <- Items
    Continued = {1}
    WordLen = 2
    Amount = {1, 3}
    MaxLen = 2
    Usage = {}
SYMMETRY Symmetry
SPECIFICATION Spec
CONSTRAINT FewTexts
INVARIANTS
    FilesInv
PROPERTIES
    FilesPromised
