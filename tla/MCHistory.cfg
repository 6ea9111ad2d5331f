SPECIFICATION Spec
CONSTANTS
  Tokens <- MCTokens
  Namespaces <- MCNamespaces
  Names <- MCNames
  Resources <- MCResources
  Slash = "/"
  Samples <- MCSamples
  Unwritten = Unwritten
  RequestedCapacity = 3
  DefaultHistoryCapacity = 4
  MaxSnapshot = 2
INVARIANTS TypeOK RingsWellFormed
PROPERTIES ImplementsSampleLog
