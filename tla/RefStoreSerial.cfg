\* One process that writes, deletes and packs, one that reads, one death.
SPECIFICATION Spec
CONSTANTS
    Writers = {m}
    Deleters = {m}
    Packers = {m}
    Readers = {r}
    Ref = {main, tag}
    Tags = {tag}
    Id = {id1, id2}
    Symref = {sym}
    NoTarget = NoTarget
    Empty = Empty
    NoFile = NoFile
    NoRef = NoRef
    MaxDeaths = 1
SYMMETRY Symmetry
INVARIANTS
    TypeOK
    ReadsAreAtomic
PROPERTIES
    DeletedRefIsGone
    RefinesMap
