SPECIFICATION MemorySpec
CONSTANTS
  Conversations = {"c"}
  Notes = {"short", "plain", "wordy", "long"}
  Size <- Sizes
  Queries = {"docs", "other"}
  Overlap <- Overlaps
  MaxChars = 81
  Most <- Bounds
INVARIANTS MemoryTypeOK BoundedOvershoot MostRelevantFirst SpecificFirst
