SPECIFICATION Spec
CONSTANT Salts = {1, 2}
INVARIANT LinkedRoutesForItsRole
CHECK_DEADLOCK FALSE
