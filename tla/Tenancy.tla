------------------------------ MODULE Tenancy -------------------------------
(* The values tenant_id takes in src/gateway/events.py, tenant.py and the  *)
(* tables of src/gateway/memory.py.                                        *)
CONSTANTS
  Tenants,
  NoTenant,     \* None
  All           \* "__all__", or no filter at all

ASSUME TenancyAssumption ==
  NoTenant \notin Tenants /\ All \notin Tenants \union {NoTenant}
=============================================================================
