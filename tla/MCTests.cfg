\* The instruction tests, and procedures called and uncalled, on 16-bit words.
SPECIFICATION TestSpec
CONSTANTS
  label_t = label_t
  label_top = label_top
  label_bot = label_bot
  label_data = label_data
  label_value = label_value
INVARIANTS
  ExpectedResults
  UncallUndoesCall
CHECK_DEADLOCK FALSE
