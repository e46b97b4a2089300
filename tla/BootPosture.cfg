SPECIFICATION Spec
CONSTANT
  Deployments <- MCDeployments
INVARIANTS
  OffTheMachineVerified
  ServesOnlyConfigured
  InheritedGrantsNothing
  BindFollowsGuard
