CONSTANTS
    Name = {a, b, i}
    Predeclared = {i}
    MaxLevel = 1
    MaxNode = 3
    MaxOpen = 2
SYMMETRY Symmetry
CONSTRAINT FewDeclared
SPECIFICATION Spec
CHECK_DEADLOCK FALSE
INVARIANTS
    DeclarationsInv
PROPERTIES
    DeclaredOnce
