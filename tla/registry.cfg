SPECIFICATION Spec
CONSTANTS
  Ranges <- SmallRanges
INVARIANTS
  TypeOK
  MappingsDontOverlap
  LookupsAreRight
