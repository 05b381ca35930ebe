\* Two deployments of a stack, one cancellation, and two incidents: requests to stop,
\* start or archive it, failures, lost callbacks.  Three writers of the list of routes.
SPECIFICATION Spec
CONSTANTS
  u1 = u1
  u2 = u2
  u3 = u3
  MaxStackDeployments = 2
  UrlsOf <- TwoUrls
  MaxStackCancels = 1
  MaxIncidents = 2
  Services = {service}
  Stacks = {stack}
  Registries = {registry}
  Urls = {u1, u2}
  MaxProxyRequests = 3
  MaxProxyRuns = 2
INVARIANTS
  
  StackUrlsServed
  FinishedAwake
  
  ProxyInv
PROPERTIES
  StackQueueServed
  StackCancelHonoured
CHECK_DEADLOCK FALSE
