SPECIFICATION CatalogueSpec
CONSTANTS
  Entries <- MCEntries
  Templated = {"p", "q"}
  NameOf <- MCNameOf
  ModelOrder <- MCModelOrder
  Scores = {30, 85}
  Tiers = {"tier0"}
  ByHand = {"a"}
  None = none
  Asked = asked
  FirstOffers <- MCFirstOffers
  MaxChanges = 1
  MaxEdits = 2
INVARIANTS Unambiguous
PROPERTY Mirrors
