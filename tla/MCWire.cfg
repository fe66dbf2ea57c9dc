\* Up to two changes to a payload; a locator has at most two hashes.
CONSTANTS
  HashSize = 2
  kMaxLocatorHashes = 2
  Symbol = {0, 1, 2, 3, 9}
  Value <- MCValue
  MaxDamage = 2
SPECIFICATION Spec
INVARIANT RoundTrip
INVARIANT OneEncoding
CHECK_DEADLOCK FALSE
