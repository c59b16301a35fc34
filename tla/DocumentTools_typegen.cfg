SPECIFICATION ToolsSpec
CONSTANTS
  Components = {1, 2, 3}
  Inlines = {4, 5, 6, 7, 8}
  None = None
  DefaultLimit = 2
  Documents <- MCMaps
  Revisions <- MCMaps
  Others <- MCOthers
  Depths <- MCDepths
  Filters <- MCFilters
  Words = {21, 22, 24}
  Tags = {31, 32}
  Limits <- MCLimits
  Offsets <- MCOffsets
INVARIANTS MentionedIsDeclared
