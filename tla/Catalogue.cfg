SPECIFICATION CatalogueSpec
CONSTANTS
    None = None
    Assets = {1, 2, 3}
    Seeds <- SeedsMC
    Forms <- FormsMC
    Edits <- EditsMC
    Capacities = {0}
    Tickets = {1000}
    Offered <- OfferedMC
    PageSize = 1
    Shown = 2
    MaxChanges = 2
    BelowHalf <- BelowHalfMC
INVARIANTS CardsFollowFilters ShortlistKeepsAnswers
PROPERTIES AddressSettles
