SPECIFICATION Spec
CONSTANTS
  r1 = r1  r2 = r2  r3 = r3  r4 = r4  t1 = t1  t2 = t2  u1 = u1
  Anonymous = Anonymous
  Requests = {r1, r2, r3, r4}
  Tenants = {t1, t2}
  Users = {u1}
  TenantOf <- MCTenantOf
  UserOf <- MCUserOf
  DegradeAllowed = {r2, r3}
  Cost = 7
  TTL = 3
  TenantLimit <- MCTenantLimit
  UserEnabled = FALSE
  UserLimit <- MCUserLimit
  FailOpen = FALSE
PROPERTY RefusedOnlyAtCap
