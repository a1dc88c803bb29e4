SPECIFICATION Spec
CONSTANT MaxResponses = 2
INVARIANT OpenConnectionGetsAll
