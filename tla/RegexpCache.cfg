SPECIFICATION Spec
CONSTANTS
    Goroutines = {g1, g2}
    Patterns = {p1, p2, bad}
    ValidPatterns = {p1, p2}
    Nil = Nil
    reCacheMaxSize = 1
INVARIANTS TypeOK CacheSound CacheBounded
PROPERTY Transparent
