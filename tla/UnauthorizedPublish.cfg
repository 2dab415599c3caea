SPECIFICATION Spec
CONSTANTS
  Apps <- MCApps
  Mro <- MCMro
  MaxInvocations = 3
  Routes <- MCRoutes
  Globals = 1
  CorsEnabled = TRUE
  AllowedOrigins = {"a.example"}
  Requests <- MCRequests
  Bodies <- MCBodies
  StatusOf <- MCStatusOf
  Calls <- MCCalls
CHECK_DEADLOCK FALSE
INVARIANT UnauthorizedRejects
