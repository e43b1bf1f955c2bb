SPECIFICATION Spec
CONSTANTS
  Workers = {w1, w2, w3}
  MaxConns = 3
  Names = {n1}
  Passwords = {p1, p2}
  MaxCalls = 5
INVARIANTS
  ConnsConserved
  SemCountsFree
  EnoughForAll
  RegistrationKept
SYMMETRY Symmetry
CHECK_DEADLOCK FALSE
