CONSTANTS
    a1 = a1
    a2 = a2
    v1 = v1
    v2 = v2
    v3 = v3
    v4 = v4
    e1 = e1
    e2 = e2
    None = None
    Articles = {a1}
    Versions = {v1, v2}
    Editors = {e1}
SPECIFICATION Spec
SYMMETRY Symmetry
PROPERTIES SyncNeverDowngrades
