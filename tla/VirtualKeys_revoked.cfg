\* The shortest way to a revoked key that is let in.
SPECIFICATION Spec
CONSTANTS
    k1 = k1
    k2 = k2
    k3 = k3
    Ids <- MCIds
    Admin = "keys.virtual_keys"
    Gateway = "chimera.keys.virtual_keys"
INVARIANTS
    RevokedRefused
