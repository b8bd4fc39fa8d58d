SPECIFICATION Spec
CONSTANTS
    Names = {a, b}
    Sizes = {1, 2, 3}
    HEAP_INIT_SIZE = 12
    Limit = 24
SYMMETRY Renamings
INVARIANT ContentsPreserved
