CONSTANTS
    Charge = {c1, c2, c3}
    Receiver = {w1, w2}
    Conn = {i1, i2}
    Nobody = Nobody
    Sizes = {0, 1, 2}
    Capacity = 2
SPECIFICATION Spec
INVARIANTS
    AccountExact
    NoLostRefund
