\* Names, written by translation requests or by mutations of objects too, their caches, deletions and restorations.
SPECIFICATION Spec
CONSTANTS
    o1 = o1  o2 = o2  o3 = o3  g1 = g1  g2 = g2  en = en  ru = ru
    Object = {o1, o2, o3}
    Gist = {g1, g2}
    GistOf <- Gists
    Common = {g2}
    Atom = {a1, a2}
    Locale = {en, ru}
    Fallback <- EnRu
    Content = {x, y}
    Missing = Missing
SYMMETRY Symmetry
INVARIANTS TypeOK AtomsFollowGist DeletedGistIsBare CacheCoherent
