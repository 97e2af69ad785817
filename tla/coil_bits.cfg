SPECIFICATION Spec
INVARIANTS ImageIsCoils
