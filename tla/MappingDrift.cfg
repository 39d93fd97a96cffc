SPECIFICATION Spec
CONSTANTS
  Strings = {"x", "y"}
  Names = {"a", "b"}
  Labels = {l}
  Methods <- SomeMethods
  Types <- SomeTypes
  Unknown = 9
  Rest = {plain, custom}
  Written <- SomeParameters
  Left <- SomeClusters
INVARIANTS DriftIsExact StatusTellsDrift
PROPERTY OneWriteSettles
