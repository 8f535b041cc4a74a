\* Two of the three names collide; three scopes at most.
CONSTANTS
  Names = {"a", "b", "c"}
  Kinds = {"global", "local"}
  NBuckets = 2
  Hash <- MCHash
  MaxScopes = 3
SPECIFICATION MCSpec
INVARIANTS
  LookupIsInnermost
PROPERTY ImplementsScopedMap
