SPECIFICATION LiveToolsSpec
CONSTANTS
  Components = {1, 2, 3}
  Inlines = {4, 5, 6, 7, 8}
  None = None
  DefaultLimit = 2
  Documents <- MCDocuments
  Revisions <- MCRevisions
  Others <- MCOthers
  Depths <- MCDepths
  Filters <- MCFilters
  Words = {21, 22, 24}
  Tags = {31, 32}
  Limits <- MCLimits
  Offsets <- MCOffsets
INVARIANTS NamedOnce NamesAreExpanded AnswerCoversReferences TagTypesAreClosed FlatTypesAreClosed TwiceIsRecursive ListingParity SearchParity TagCountsMatchListing DiffAccountsForListings PagesAreTheListing
PROPERTIES EveryCallEnds
