CONSTANTS
  Files = {f1, f2}
  MaxVersion = 3
  Procs = {p1}
  Sharded = FALSE
  TrackErrors = FALSE
  WritesMayFail = TRUE
  MaxFaults = 1
SPECIFICATION FairSpec
INVARIANTS TrustedDataIsCurrent ServedMatchesSignature ManifestNeverAhead NeverStale
PROPERTIES CacheIsInvisible EventuallyServed
