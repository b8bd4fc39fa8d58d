SPECIFICATION Spec
CONSTANTS
    Names = {a, b, c}
    Sizes = {1, 2, 7}
    HEAP_INIT_SIZE = 11
    Limit = 22
SYMMETRY Renamings
INVARIANTS HeapTiled FreeListExact
PROPERTIES ImplementsAllocator SpoiledOnlySlidingDown
