SPECIFICATION Spec
CONSTANTS
  ModuleRates <- MCModuleRates
INVARIANTS
  ErrorRestoresHost
  CleanCallReaches
PROPERTIES
  OkMeansReachable
