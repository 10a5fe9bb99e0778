SPECIFICATION TreeSpec
CONSTANTS
    Radix = 2
    OrgIds = {o1, o2, o3, o4}
    BadIds = {}
    Width <- MCWidth
    NoParent <- MCNoParent
SYMMETRY Symmetry
CONSTRAINT FewSiblings
INVARIANT RangeSelectsSelf
CHECK_DEADLOCK FALSE
