CONSTANTS
  Keys = {k1}
  MaxStarts = 3
  Tabs = {t1}
  MaxTokens = 2
  MaxDrops = 1
SPECIFICATION CliSpec
INVARIANTS CliTypeOK ProcessIsListed KeyNamesNewest CliAttachedIsOpen
CHECK_DEADLOCK FALSE
