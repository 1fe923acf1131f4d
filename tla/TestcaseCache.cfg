CONSTANTS
  Ids <- MCIds
  Lens <- MCLens
  MAX_FILE = 3
  max_cache_size = 7
  max_entries_init = 4
  Seeds = 2
SPECIFICATION Spec
INVARIANTS  FreeSlotsFound InBounds CurrentPinned
PROPERTY GetReturns
