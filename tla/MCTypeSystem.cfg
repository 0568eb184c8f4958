CONSTANTS
  HalfInt = 32
  Half <- MCHalf
  Double <- MCDouble
  Operands <- MCOperands
  Stamps <- MCStamps
  RowTypes <- MCRowTypes
  RowValues <- MCRowValues
  MaxColumns = 3
SPECIFICATION Spec
INVARIANTS
  ArithmeticExact
  CompareConsistent
  CastExact
  FactoryAgrees
  TextsReadBack
  RowKeepsValues
