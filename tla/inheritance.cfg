SPECIFICATION Spec
CONSTANTS
    child = child
    mid = mid
    base = base
    inc = inc
    lay = lay
    x = x
    y = y
    None = None
    Names = {child, mid, base, inc, lay}
    Blocks = {x, y}
    Start = child
    Async = FALSE
    Programs <- MCPrograms
INVARIANTS
    TypeOK
    ExtendsKnownRight
    BlocksFollowChain
    RendersChain
CHECK_DEADLOCK FALSE
