CONSTANTS
  Classes <- MCClasses
  Chain <- MCChain
  Native = {"Nat"}
  Has <- MCHas
  Containers = {"List", "Dict"}
  Dict = "Dict"
  Objects <- MCObjects
  TypeOf <- MCTypeOf
  Sites = {"read", "call"}
  OpOf <- MCOpOf
SPECIFICATION MCSpec
INVARIANTS ContextKeptUndisturbed BodiesOnceUndisturbed
PROPERTY LookupsExactUndisturbed
VIEW View
CONSTRAINT OneKind
