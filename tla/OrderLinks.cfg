CONSTANTS
    Token = {2, 3, 4, 5, 6}
    MaxConnections = 5
    None = None
SPECIFICATION Spec
INVARIANTS
    Represents
