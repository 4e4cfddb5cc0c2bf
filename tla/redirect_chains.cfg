CONSTANTS
    None = None
    Categories = {c1, c2}
    Slugs = {a, b}
    MaxDepth = 3
    Curators = {u1}
    MaxMoves = 2
SPECIFICATION TreeSpec
CHECK_DEADLOCK FALSE
INVARIANT RedirectsAreDirect
