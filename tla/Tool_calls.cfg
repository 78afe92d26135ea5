SPECIFICATION ToolsSpec
CONSTANTS
  Items <- MCItems
  Tenants = {"t1"}
  All = "all"
  Contents = {"u", "v", "w", "y"}
  Unsafe = {"v"}
  Cleaned <- MCCleaned
  Invalid = {"y"}
  OfferValues <- MCOfferValues
  Writable <- MCWritable
  FirstOffers <- MCFirstOffers
  None = none
  Asked = asked
  MaxChanges = 1
  MaxEdits = 1
  Keys <- MCKeys
  MaxEntries = 1
  Ttl <- MCTtl
  MaxTtl = 2
  Bypassed = {"bypassed"}
  Callers = {c1}
  ItemsOf <- MCItemsOf
  CallTime = 1
  MaxStops = 1
INVARIANT Fresh
PROPERTY Told
