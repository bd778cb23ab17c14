SPECIFICATION Spec
CONSTANTS
    Claims = {c1, c2}
    Devices = {gpu0, gpu1}
    Nil = Nil
INVARIANTS
    TypeOK
    Readable
    Faithful
