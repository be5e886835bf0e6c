\* Two writers, a deleter and a packer at once; one of them may die or fail to write.
SPECIFICATION Spec
CONSTANTS
    Writers = {w1, w2}
    Deleters = {d}
    Packers = {k}
    Readers = {}
    Ref = {main, tag}
    Tags = {tag}
    Id = {id1}
    Symref = {}
    NoTarget = NoTarget
    Empty = Empty
    NoFile = NoFile
    NoRef = NoRef
    MaxDeaths = 1
SYMMETRY Symmetry
INVARIANTS
    OnlyWrittenValues
PROPERTIES
    ResolvedNeverVanishes
