CONSTANTS
  HalfInt = 100000000
  Half <- MCHalf
  Double <- MCDouble
  Tables <- MCTables
  Lowered <- MCLowered
  TableRows <- MCTableRows
  MaxDepth = 4
  MaxRows = 4
  BatchSizes = {1, 2, 3}
  Queries <- MCQueries
SPECIFICATION Spec
INVARIANTS
  PlanMeansStatement
  OptimizerKeepsMeaning
  ExecutionExact
  NamesFound
PROPERTIES
  BatchesFilled
