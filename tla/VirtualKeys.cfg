\* Two keys can overwrite each other; the third is there to come later.
SPECIFICATION Spec
CONSTANTS
    k1 = k1
    k2 = k2
    k3 = k3
    Ids <- MCIds
    Admin = "keys.virtual_keys"
    Gateway = "chimera.keys.virtual_keys"
SYMMETRY IdSymmetry
INVARIANTS
    TypeOK
    FileTold
PROPERTIES
    RevokedForGood
