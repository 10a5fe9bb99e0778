SPECIFICATION TreeSpec
CONSTANTS
    Radix = 2
    OrgIds = {o1, o2, o3, o4, o5, o6}
    BadIds = {}
    Width <- MCWidth
    NoParent <- MCNoParent
SYMMETRY Symmetry
CONSTRAINT FewSiblings
INVARIANTS RangeIsSubtree DepthMatchesType TemplatesVisible
CHECK_DEADLOCK FALSE
