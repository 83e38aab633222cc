SPECIFICATION Spec
CONSTANTS
  NoClass = NoClass
  Base = Base
  Derived = Derived
  Other = Other
  Classes <- ModelClasses
  Parent <- ModelParent
  TypesOf <- ModelTypesOf
  FieldsOf <- ModelFields
  Leaves <- ModelLeaves
  Targets <- ModelTargets
  Arguments <- ModelArguments
  Patterns <- ModelPatterns
INVARIANTS WellTyped KeepsCommonValues OrderDoesNotMatter TablesAgree OperandsKept
CHECK_DEADLOCK FALSE
