SPECIFICATION DeskSpec
CONSTANTS
    super = super  ib = ib  agent = agent  l1 = l1  l2 = l2  i1 = i1  None = None
    Supers = {super}  Ibs = {ib}  Agents = {agent}  Lead = {l1, l2}  Investor = {i1}
    Team <- TeamMC
    Start <- StartMC
    Stages = {"unqualified"}
    StaleAfter = 0
    FeedLimit = 1
    Overfetch = 2
    MaxNow = 1
    MaxWrites = 2
INVARIANTS CardsMatchLists SelectionShown
PROPERTIES PagesAreScoped
CHECK_DEADLOCK FALSE
