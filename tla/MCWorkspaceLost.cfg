SPECIFICATION Spec
CONSTANTS
    Clients = {c1, c2}
    Kinds = {"industry", "topic", "feed"}
    MaxEdits = 3
    None = None
INVARIANTS ConflictIsRefused
