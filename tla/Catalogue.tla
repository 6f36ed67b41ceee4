------------------------------ MODULE Catalogue ------------------------------
(***************************************************************************)
(* The opportunities a visitor may look at.  A super admin authors drafts, *)
(* publishes and closes them and sets what they hope to raise; investments *)
(* fill them.  A visitor reads a snapshot of what is published, either in  *)
(* the catalogue, whose filters, order and page live in the address, or in *)
(* the four questions of "Help me choose".  A change of the address is a   *)
(* navigation: it takes time, the last one wins, and it brings new cards.  *)
(* Assets are numbers in the order of their names; money is in euros.      *)
(* Yields are in hundredths of a percent, which tells them from the tenths *)
(* a card shows, and shares of income in tenths.  A term is the years its  *)
(* label names: one number, the two ends of a range, or none at all.       *)
(* Stories, pictures, labels and the wording of forms are left out, and so *)
(* are the annual and monthly incomes: one function both builds and checks *)
(* them.                                                                   *)
(***************************************************************************)
EXTENDS Integers, FiniteSets, Sequences, FiniteSetsExt, Functions

CONSTANTS
  Assets,      \* the assets there may be, numbered in the order of their names
  Seeds,       \* the catalogues the program may start from
  Forms,       \* the inputs a super admin may type for a new opportunity
  Edits,       \* the sets of fields changed in one edit of a draft
  Capacities,  \* the amounts an opportunity may hope to raise
  Tickets,     \* the amounts invested at once
  Offered,     \* the values of each filter a visitor chooses from
  PageSize,    \* cards on a page (12 in the code)
  Shown,       \* opportunities on a shortlist (3 in the code)
  MaxChanges,  \* bound on the changes of the catalogue
  BelowHalf,   \* yields half way between two tenths, a little less as a double
  None

VARIABLES
  asset,       \* the rows: asset -> row, or None when it does not exist
  committed,   \* the sum of the active holdings of every asset
  form,        \* the open form: the row it edits and its first input
  changes,     \* how often the catalogue has changed
  view,        \* what the visitor looks at
  cards,       \* the cards of her page, as the server sent them
  url,         \* the address of her page
  next,        \* the address she is on the way to, or None
  step,        \* the question of the chooser
  answers,     \* her answers
  done         \* the shortlist is shown

admin == <<asset, committed, form, changes>>
chooser == <<step, answers, done>>
catalogueVars == <<asset, committed, form, changes, view, cards, url, next, step, answers, done>>

Statuses == {"draft", "published", "closed"}
OptionIds == {"standard", "premium", "green"}
Streams == {"vehicle_parking", "ev_charging", "bicycle_storage", "parcel_lockers",
            "car_sharing", "micromobility_charging", "last_mile_logistics",
            "vehicle_cleaning", "fleet_parking"}
Provenance == {"contracted", "modelled", "withheld"}
SiteTypes == {"airport", "city", "retail", "station"}
Filters == {"city", "min", "yield", "type", "features", "funding"}
NoFilters == [f \in Filters |-> IF f = "funding" THEN None ELSE "all"]
Sorts == {"min_asc", "yield_desc", "name_asc"}
Questions == <<"budget", "place", "term", "figures">>
Answers == [ budget |-> {"under10", "10to25", "over25"}, place |-> SiteTypes,
             term |-> {"le11", "eq12", "ge13"}, figures |-> {"simpler", "mixed"} ]
NoAnswers == [q \in DOMAIN Answers |-> None]

\* A mix maps its streams to percentages, options map ids to terms.
IsMix(mix) == DOMAIN mix \subseteq Streams /\ mix \in [DOMAIN mix -> Int]
Terms == [min : Int, yield : Int, recommended : BOOLEAN]
\* The standard option is there, and one is recommended: both the form and the
\* seeds are checked for it.  A row from before there were options is left out.
IsOptions(options) ==
  /\ DOMAIN options \subseteq OptionIds /\ options \in [DOMAIN options -> Terms]
  /\ "standard" \in DOMAIN options
  /\ \E id \in DOMAIN options : options[id].recommended

Fields(extra) == {"city", "place", "spaces", "lease", "visitors", "revenue", "mix", "capacity"} \cup extra
IsRow(row) ==
  /\ row = [k \in Fields({"status", "options"}) |-> row[k]]
  /\ row.status \in Statuses /\ row.place \in {None} \cup SiteTypes
  /\ row.spaces \in Int /\ row.capacity \in {None} \cup Nat
  /\ {row.visitors, row.revenue} \subseteq Provenance
  /\ IsMix(row.mix) /\ IsOptions(row.options)

\* A form may hold what a row does not: nothing chosen, or values to refuse.
FormOption == [min : Int, yield : Int]
IsForm(f) ==
  /\ f = [k \in Fields({"standard", "premium", "green"}) |-> f[k]]
  /\ f.place \in {None} \cup SiteTypes /\ f.spaces \in Int /\ f.capacity \in Nat
  /\ {f.visitors, f.revenue} \subseteq {None} \cup Provenance
  /\ IsMix(f.mix)
  /\ f.standard \in FormOption
  /\ {f.premium, f.green} \subseteq {None} \cup FormOption

Values == {None, "all"} \cup UNION {Offered[f] : f \in Filters}
Url == [filters : [Filters -> Values], sort : Sorts, page : Nat \ {0}]

ASSUME CatalogueAssumption ==
  /\ Assets \subseteq Nat /\ IsFiniteSet(Assets)
  /\ \A s \in Seeds : DOMAIN s = Assets /\ \A a \in Assets : s[a] = None \/ IsRow(s[a])
  /\ \A f \in Forms : IsForm(f)
  /\ PageSize \in Nat \ {0} /\ Shown \in Nat \ {0} /\ MaxChanges \in Nat
  /\ \A c \in Capacities : c \in Nat
  /\ \A t \in Tickets : t \in Nat \ {0}
  /\ BelowHalf \subseteq {y \in Nat : y % 10 = 5}

-----------------------------------------------------------------------------
(* Authoring *)

\* income-streams.ts validateIncomeMix: half a percent of the whole may be off.
ValidIncomeMix(mix) ==
  /\ \A s \in DOMAIN mix : mix[s] > 0
  /\ SumFunction(mix) \in 995 .. 1005
  /\ "vehicle_parking" \in DOMAIN mix
  /\ \A s \in DOMAIN mix : mix[s] <= mix["vehicle_parking"]

IsMultiIncome(mix) == DOMAIN mix # {"vehicle_parking"}

\* investment-options.ts supportsGreenOption
SupportsGreen(mix) == DOMAIN mix \cap {"ev_charging", "micromobility_charging"} # {}

\* investment-options.ts validateInvestmentOption: options map ids to terms.
ValidInvestmentOption(options, id, mix) ==
  /\ id = "green" => SupportsGreen(mix)
  /\ options[id].min >= 1000
  /\ options[id].yield > 0

\* validateInvestmentOptions
ValidInvestmentOptions(options, mix) ==
  LET has(id) == id \in DOMAIN options
      pays(id, other) == options[id].yield >= options[other].yield
  IN /\ \A id \in DOMAIN options : ValidInvestmentOption(options, id, mix)
     /\ has("standard")
     /\ Cardinality({id \in DOMAIN options : options[id].recommended}) = 1
     /\ has("premium") => pays("premium", "standard")
     /\ has("green") /\ has("premium") => pays("green", "premium")
     /\ has("green") /\ ~has("premium") => pays("green", "standard")

\* asset-form.tsx: the part of the form with the EV option.
GreenEligible(f) == SupportsGreen(f.mix)

\* What the browser sends: the EV option only when its part of the form shows.
InputFromForm(f) == [f EXCEPT !.green = IF GreenEligible(f) THEN @ ELSE None]

\* The options of a form; the standard one is always the recommended one.
FormOptions(f) ==
  [ id \in {"standard"} \cup {i \in {"premium", "green"} : f[i] # None} |->
      [min |-> f[id].min, yield |-> f[id].yield, recommended |-> id = "standard"] ]

ValidForm(f) ==
  /\ f.place \in SiteTypes \cup {None}
  /\ f.spaces > 0
  /\ f.lease # None
  /\ {f.visitors, f.revenue} \subseteq Provenance
  /\ ValidIncomeMix(f.mix)
  /\ \A id \in {"standard", "premium", "green"} :
       f[id] # None => f[id].min > 0 /\ f[id].yield \in 1 .. 10000
  /\ ValidInvestmentOptions(FormOptions(f), f.mix)

\* advisory-capacity.ts parseAdvisoryCapacityInput: blank and zero clear it.
ParseCapacity(c) == IF c = 0 THEN None ELSE c

\* asset-form.ts validateAssetForm: the values written.
FormValues(f) ==
  [ status |-> "draft", city |-> f.city, place |-> f.place, spaces |-> f.spaces,
    lease |-> f.lease, visitors |-> f.visitors, revenue |-> f.revenue,
    mix |-> f.mix, options |-> FormOptions(f),
    capacity |-> ParseCapacity(f.capacity) ]

\* asset-form.ts assetToFormInput
AssetToFormInput(row) ==
  LET option(id) == IF id \in DOMAIN row.options
                      THEN [min |-> row.options[id].min, yield |-> row.options[id].yield]
                      ELSE None
  IN [ city |-> row.city, place |-> row.place, spaces |-> row.spaces,
       lease |-> row.lease, visitors |-> row.visitors, revenue |-> row.revenue,
       mix |-> row.mix, standard |-> option("standard"),
       premium |-> option("premium"), green |-> option("green"),
       capacity |-> IF row.capacity = None THEN 0 ELSE row.capacity ]

Rows == {a \in Assets : asset[a] # None}
Change == changes < MaxChanges /\ changes' = changes + 1
VisitorWaits == UNCHANGED <<view, cards, url, next, chooser>>

\* The form of a new opportunity, sent: a name that is taken, or a field that
\* is refused, leaves the form as it is.
CreateAsset(a, f) ==
  /\ Change
  /\ a \notin Rows
  /\ ValidForm(InputFromForm(f))
  /\ asset' = [asset EXCEPT ![a] = FormValues(InputFromForm(f))]
  /\ UNCHANGED <<committed, form>> /\ VisitorWaits

\* The edit page of a draft.
OpenEdit(a) ==
  /\ form = None /\ changes < MaxChanges
  /\ a \in Rows /\ asset[a].status = "draft"
  /\ form' = [asset |-> a, input |-> AssetToFormInput(asset[a])]
  /\ UNCHANGED <<asset, committed, changes>> /\ VisitorWaits

\* The fields of an open form keep what they were opened with unless changed;
\* a refresh of the page does not change them.
Typed(f, fields) == [k \in DOMAIN f |-> IF k \in fields THEN f[k] ELSE form.input[k]]

\* The form of a draft, sent.  All its values are written, so a capacity saved
\* since it was opened, even on the same page, is undone.
UpdateDraftAsset(f, fields) ==
  LET sent == InputFromForm(Typed(f, fields))
  IN /\ Change
     /\ form # None
     /\ asset[form.asset].status = "draft"
     /\ ValidForm(sent)
     /\ asset' = [asset EXCEPT ![form.asset] = FormValues(sent)]
     /\ form' = None
     /\ UNCHANGED committed /\ VisitorWaits

LeaveForm ==
  /\ form # None
  /\ form' = None
  /\ UNCHANGED <<asset, committed, changes>> /\ VisitorWaits

\* admin-actions.ts setAssetStatus, which compares and sets the status it has
\* read.  Pending interests may refuse an unpublication: see InterestIntake.
MaySetStatus(a, status) ==
  /\ a \in Rows
  /\ asset[a].status # "closed"
  /\ status = "published" => asset[a].spaces > 0

\* The buttons of a row offer the other states, closing only what is published.
SetAssetStatus(a, status) ==
  /\ Change
  /\ a \in Rows /\ asset[a].status # status
  /\ status = "closed" => asset[a].status = "published"
  /\ MaySetStatus(a, status)
  /\ asset' = [asset EXCEPT ![a].status = status]
  /\ UNCHANGED <<committed, form>> /\ VisitorWaits

\* The table has this form for what is no draft, the edit page for its draft;
\* the server asks for no status.
UpdateAssetCapacity(a, c) ==
  /\ Change
  /\ a \in Rows
  /\ asset[a].status = "draft" => form # None /\ form.asset = a
  /\ asset' = [asset EXCEPT ![a].capacity = ParseCapacity(c)]
  /\ UNCHANGED <<committed, form>> /\ VisitorWaits

\* A holding becomes active (InterestConfirm) within the capacity.
Invest(a, t) ==
  /\ Change
  /\ a \in Rows /\ asset[a].status = "published"
  /\ asset[a].capacity # None => committed[a] + t <= asset[a].capacity
  /\ committed' = [committed EXCEPT ![a] = @ + t]
  /\ UNCHANGED <<asset, form>> /\ VisitorWaits

-----------------------------------------------------------------------------
(* Cards *)

\* funding.ts fundingFromAmounts
FundingOpen(a) == asset[a].capacity = None \/ committed[a] < asset[a].capacity

\* What the server sends with a page: every published row and its funding.
ListPublishedAssets ==
  [ a \in {b \in Rows : asset[b].status = "published"} |->
      [row |-> asset[a], funded |-> ~FundingOpen(a)] ]

\* opportunity-status.ts resolveOpportunityStatus
OpportunityStatus(c) ==
  CASE c.row.status = "closed"    -> "closed"
    [] c.row.status = "draft"     -> "unavailable"
    [] c.row.status = "published" -> IF c.funded THEN "fully_funded" ELSE "open"

Yields(c) == {c.row.options[id].yield : id \in DOMAIN c.row.options}

\* investment-options.ts findOption, without an id
Recommended(c) ==
  CHOOSE id \in DOMAIN c.row.options : c.row.options[id].recommended

\* The figures a card shows ("From ...", "Up to ..."): the minimum as it is
\* (presentation.ts resolveMinTicket), the highest target to the nearest tenth
\* (investment-options.ts formatYieldCeiling).
MinTicketDisplay(c) == c.row.options[Recommended(c)].min
ToTenths(y) == (y + (IF y \in BelowHalf THEN 4 ELSE 5)) \div 10
YieldDisplay(c) == ToTenths(Max(Yields(c)))

\* catalogue-view.ts: the figures by which cards are filtered and sorted.
CatalogueMinBasis(c) ==
  IF \E id \in DOMAIN c.row.options : c.row.options[id].recommended
    THEN c.row.options[Recommended(c)].min
    ELSE c.row.options["standard"].min
\* MUTANT: the target of the recommended option.
CatalogueYieldBasis_Recommended(c) == c.row.options[Recommended(c)].yield

CatalogueYieldBasis(c) == Max(Yields(c))

MatchesMinBand(min, band) ==
  CASE band = "under10" -> min < 10000
    [] band = "10to25"  -> min \in 10000 .. 25000
    [] band = "over25"  -> min > 25000
    [] OTHER            -> TRUE
MatchesYieldBand(yield, band) ==
  CASE band = "under8" -> yield < 800
    [] band = "8to9"   -> yield \in 800 .. 900
    [] band = "over9"  -> yield > 900
    [] OTHER           -> TRUE

-----------------------------------------------------------------------------
(* The catalogue *)

\* Without a value in the address only open opportunities are listed.
FundingFilter(u) == IF u.filters["funding"] = None THEN "open" ELSE u.filters["funding"]

\* opportunities-catalogue.tsx `filtered`
Matches(c, u) ==
  LET value(f) == u.filters[f] IN
  /\ value("city") # "all" => c.row.city = value("city")
  /\ value("type") # "all" => c.row.place = value("type")
  /\ value("features") = "yes" => "ev_charging" \in DOMAIN c.row.mix
  /\ value("features") = "multi" => IsMultiIncome(c.row.mix)
  /\ FundingFilter(u) = "open" => OpportunityStatus(c) = "open"
  /\ FundingFilter(u) = "full" => OpportunityStatus(c) = "fully_funded"
  /\ MatchesMinBand(CatalogueMinBasis(c), value("min"))
  /\ MatchesYieldBand(CatalogueYieldBasis(c), value("yield"))

Filtered(u) == {a \in DOMAIN cards : Matches(cards[a], u)}

\* The cards come by name, and a sort is stable: "a" has before it what has a
\* smaller key, and of its own key what has an earlier name.
Before(S, key, a) == {b \in S : key[b] < key[a] \/ (key[b] = key[a] /\ b < a)}
InOrder(S, key) ==
  [i \in 1 .. Cardinality(S) |-> CHOOSE a \in S : Cardinality(Before(S, key, a)) = i - 1]

\* sortCatalogueAssets
SortCatalogueAssets(S, sort) ==
  InOrder(S, [a \in S |-> CASE sort = "min_asc"    -> CatalogueMinBasis(cards[a])
                            [] sort = "yield_desc" -> -CatalogueYieldBasis(cards[a])
                            [] sort = "name_asc"   -> 0])

\* catalogue-pagination.ts catalogueTotalPages
TotalPages(n) == Max({1, (n + PageSize - 1) \div PageSize})
SafePage(u) == Min({u.page, TotalPages(Cardinality(Filtered(u)))})

\* cataloguePageSlice
PageSlice(u) ==
  LET sorted == SortCatalogueAssets(Filtered(u), u.sort)
      first  == (SafePage(u) - 1) * PageSize + 1
  IN SubSeq(sorted, first, Min({first + PageSize - 1, Len(sorted)}))

\* The filters named above the list, each with a button that removes it.  The
\* list of open opportunities is the default and is named only when asked for.
Chips(u) ==
  {f \in Filters \ {"funding"} : u.filters[f] # "all"}
    \cup {f \in {"funding"} : u.filters[f] \notin {None, "all"}}

\* setParams: a patch of the address as it is, not as it is about to be.
SetParams(patch) ==
  next' = [url EXCEPT !.filters = [f \in Filters |-> IF f \in DOMAIN patch THEN patch[f] ELSE @[f]],
                      !.page = 1]

\* MUTANT: the page is only cut, the address stays.
Clamp_Never(u, cs) == next' = None

\* The effect that runs when a page has been drawn: an address past the last
\* page is replaced.  With nothing published the list is not drawn at all.
Clamp(u, cs) ==
  LET n == Cardinality({a \in DOMAIN cs : Matches(cs[a], u)})
  IN next' = IF DOMAIN cs # {} /\ u.page > TotalPages(n)
               THEN [u EXCEPT !.page = TotalPages(n)] ELSE None

CatalogueStays == UNCHANGED <<admin, chooser>>

\* The list is opened, perhaps by an old link to one of its pages.
OpenCatalogue(page) ==
  LET u == [filters |-> NoFilters, sort |-> "min_asc", page |-> page] IN
  /\ view = "none"
  /\ view' = "list"
  /\ cards' = ListPublishedAssets
  /\ url' = u
  /\ Clamp(u, ListPublishedAssets)
  /\ CatalogueStays

\* A select of the filter bar.
ChooseFilter(f, value) ==
  /\ view = "list" /\ DOMAIN cards # {}
  /\ value # (IF f = "funding" THEN FundingFilter(url) ELSE url.filters[f])
  /\ SetParams([x \in {f} |-> value])
  /\ UNCHANGED <<view, cards, url>> /\ CatalogueStays

ChooseSort(sort) ==
  /\ view = "list" /\ DOMAIN cards # {}
  /\ sort # url.sort
  /\ next' = [url EXCEPT !.sort = sort, !.page = 1]
  /\ UNCHANGED <<view, cards, url>> /\ CatalogueStays

\* The button of a chip.
ClearChip(f) ==
  /\ view = "list" /\ f \in Chips(url)
  /\ SetParams([x \in {f} |-> "all"])
  /\ UNCHANGED <<view, cards, url>> /\ CatalogueStays

ClearFilters ==
  /\ view = "list" /\ Chips(url) # {}
  /\ SetParams([f \in Filters |-> "all"])
  /\ UNCHANGED <<view, cards, url>> /\ CatalogueStays

\* "Previous" and "Next".
ChangePage(page) ==
  /\ view = "list"
  /\ page \in {SafePage(url) - 1, SafePage(url) + 1}
  /\ page \in 1 .. TotalPages(Cardinality(Filtered(url)))
  /\ next' = [url EXCEPT !.page = page]
  /\ UNCHANGED <<view, cards, url>> /\ CatalogueStays

\* The navigation ends: the page is drawn for the new address with new cards.
Navigate ==
  /\ view = "list" /\ next # None
  /\ url' = next
  /\ cards' = ListPublishedAssets
  /\ Clamp(next, ListPublishedAssets)
  /\ UNCHANGED view /\ CatalogueStays

-----------------------------------------------------------------------------
(* Help me choose *)

\* help-me-choose.ts parseLeaseYears, doubled: of a range the middle counts, and
\* of a label without a number ("until further notice") nothing does.
LeaseYears(row) ==
  IF row.lease = << >> THEN None ELSE row.lease[1] + row.lease[Len(row.lease)]

ClassifyTermYears(twice) ==
  CASE twice <= 22 -> "le11"
    [] twice >= 26 -> "ge13"
    [] OTHER       -> "eq12"

ParkingLed(row) == row.mix["vehicle_parking"] >= 800
Modelled(row) == "modelled" \in {row.visitors, row.revenue}

TermScore(row, term) ==
  LET band == ClassifyTermYears(LeaseYears(row)) IN
  IF term = None \/ LeaseYears(row) = None THEN 0
  ELSE CASE band = term -> 2
         [] band # term /\ "eq12" \in {band, term} -> 1
         [] OTHER -> 0

FiguresScore(row, figures) ==
  CASE figures = "simpler" ->
         (IF ParkingLed(row) THEN 2 ELSE IF IsMultiIncome(row.mix) THEN 0 ELSE 1)
           + (IF Modelled(row) THEN 0 ELSE 1)
    [] figures = "mixed" ->
         (IF IsMultiIncome(row.mix) THEN 2 ELSE 0) + (IF Modelled(row) THEN 1 ELSE 0)
    [] OTHER -> 0

SoftScore(row, ans) == TermScore(row, ans.term) + FiguresScore(row, ans.figures)

\* buildReasons: which lines stand under a card of the shortlist.
Reasons(row, ans) ==
  LET because(q, why) == IF ans[q] = None THEN {} ELSE {why}
      figures == CASE ans.figures = "simpler" -> IF ParkingLed(row) THEN "parking" ELSE "clearer"
                   [] ans.figures = "mixed"   ->
                        CASE IsMultiIncome(row.mix) -> "mixed"
                          [] ~IsMultiIncome(row.mix) /\ Modelled(row) -> "modelled"
                          [] OTHER -> "open to mixed"
                   [] OTHER -> None
      said == because("budget", "budget") \cup because("place", "place")
                \cup (IF LeaseYears(row) = None THEN {} ELSE because("term", "years"))
                \cup because("figures", figures)
  IN IF said = {} THEN {"starter"} ELSE said

OpenPool == {a \in DOMAIN cards : OpportunityStatus(cards[a]) = "open"}

\* MUTANT: the budget only orders.
FilterHard_AnyBudget(S, budget, place) ==
  {a \in S : place # None => cards[a].row.place = place}

FilterHard(S, budget, place) ==
  {a \in S : /\ budget # None => MatchesMinBand(CatalogueMinBasis(cards[a]), budget)
             /\ place # None => cards[a].row.place = place}

\* The best by score, equal ones by name, and only the first few.
RankAndTake(S, ans) ==
  LET ranked == InOrder(S, [a \in S |-> -SoftScore(cards[a].row, ans)])
      best == SubSeq(ranked, 1, Min({Shown, Len(ranked)}))
  IN [i \in 1 .. Len(best) |-> [asset |-> best[i], reasons |-> Reasons(cards[best[i]].row, ans)]]

\* matchHelpMeChoose: the place is given up when it leaves nothing.
MatchHelpMeChoose(ans) ==
  LET found   == FilterHard(OpenPool, ans.budget, ans.place)
      relaxed == ans.place # None /\ found = {}
      used    == IF relaxed THEN [ans EXCEPT !.place = None] ELSE ans
  IN [ results |-> RankAndTake(FilterHard(OpenPool, used.budget, used.place), used),
       relaxedPlace |-> relaxed ]

Question == Questions[step]
ChooserStays == UNCHANGED <<admin, view, cards, url, next>>

OpenChooser ==
  /\ view = "none"
  /\ view' = "chooser"
  /\ cards' = ListPublishedAssets
  /\ UNCHANGED <<admin, url, next, chooser>>

SetAnswer(value) ==
  /\ view = "chooser" /\ ~done
  /\ value # answers[Question]
  /\ answers' = [answers EXCEPT ![Question] = value]
  /\ UNCHANGED <<step, done>> /\ ChooserStays

GoNext ==
  IF step = Len(Questions) THEN done' = TRUE /\ UNCHANGED step
                           ELSE step' = step + 1 /\ UNCHANGED done

Skip ==
  /\ view = "chooser" /\ ~done
  /\ answers' = [answers EXCEPT ![Question] = None]
  /\ GoNext /\ ChooserStays

ContinueStep ==
  /\ view = "chooser" /\ ~done
  /\ answers[Question] # None
  /\ GoNext
  /\ UNCHANGED answers /\ ChooserStays

GoBack ==
  /\ view = "chooser" /\ ~done /\ step > 1
  /\ step' = step - 1
  /\ UNCHANGED <<answers, done>> /\ ChooserStays

\* "Try again" keeps the answers.
ChangeAnswers ==
  /\ view = "chooser" /\ done
  /\ done' = FALSE /\ step' = 1
  /\ UNCHANGED answers /\ ChooserStays

Leave ==
  /\ view # "none"
  /\ view' = "none" /\ cards' = << >> /\ url' = None /\ next' = None
  /\ step' = 1 /\ answers' = NoAnswers /\ done' = FALSE
  /\ UNCHANGED admin

-----------------------------------------------------------------------------
CatalogueInit ==
  /\ asset \in Seeds
  /\ committed = [a \in Assets |-> 0]
  /\ form = None /\ changes = 0
  /\ view = "none" /\ cards = << >> /\ url = None /\ next = None
  /\ step = 1 /\ answers = NoAnswers /\ done = FALSE

Author ==
  \/ \E a \in Assets, f \in Forms : CreateAsset(a, f)
  \/ \E a \in Assets : OpenEdit(a)
  \/ \E f \in Forms, fields \in Edits : UpdateDraftAsset(f, fields)
  \/ LeaveForm
  \/ \E a \in Assets, s \in Statuses : SetAssetStatus(a, s)
  \/ \E a \in Assets, c \in Capacities : UpdateAssetCapacity(a, c)
  \/ \E a \in Assets, t \in Tickets : Invest(a, t)

Browse ==
  \/ \E page \in 1 .. Cardinality(Assets) : OpenCatalogue(page)
  \/ \E f \in Filters : \E value \in Offered[f] : ChooseFilter(f, value)
  \/ \E sort \in Sorts : ChooseSort(sort)
  \/ \E f \in Filters : ClearChip(f)
  \/ ClearFilters
  \/ \E page \in 1 .. Cardinality(Assets) : ChangePage(page)
  \/ Navigate

Choose ==
  \/ OpenChooser
  \/ \E value \in UNION {Answers[q] : q \in DOMAIN Answers} :
       view = "chooser" /\ value \in Answers[Question] /\ SetAnswer(value)
  \/ Skip \/ ContinueStep \/ GoBack \/ ChangeAnswers

CatalogueNext == Author \/ Browse \/ Choose \/ Leave

\* A navigation that has begun ends: the browser does not wait for the visitor.
Fairness == WF_catalogueVars(Navigate)

CatalogueSpec == CatalogueInit /\ [][CatalogueNext]_catalogueVars /\ Fairness

-----------------------------------------------------------------------------
CatalogueTypeOK ==
  /\ DOMAIN asset = Assets /\ \A a \in Rows : IsRow(asset[a])
  /\ committed \in [Assets -> Nat] /\ changes \in 0 .. MaxChanges
  /\ form = None \/ (form.asset \in Assets /\ IsForm(form.input))
  /\ view \in {"none", "list", "chooser"}
  /\ DOMAIN cards \subseteq Assets
  /\ \A a \in DOMAIN cards : /\ IsRow(cards[a].row) /\ cards[a].row.status = "published"
                             /\ cards[a].funded \in BOOLEAN
  /\ IF view = "list" THEN url \in Url /\ next \in {None} \cup Url ELSE url = None /\ next = None
  /\ step \in 1 .. Len(Questions) /\ done \in BOOLEAN
  /\ DOMAIN answers = DOMAIN Answers
  /\ \A q \in DOMAIN answers : answers[q] \in Answers[q] \cup {None}

\* What a card shows does not belie the filter and the order it is listed by
\* (catalogue-view.ts and presentation.ts compute the figures apart): the minimum
\* is the one they went by, the yield the one they went by to the nearest tenth,
\* so at the end of a band it may show the end itself.  And a page shows cards
\* whenever any match.
NearYieldBand(tenths, band) ==
  CASE band = "under8" -> tenths <= 80
    [] band = "8to9"   -> tenths \in 80 .. 90
    [] band = "over9"  -> tenths >= 90
    [] OTHER           -> TRUE
CardsFollowFilters ==
  view = "list" =>
    LET sorted == SortCatalogueAssets(Filtered(url), url.sort)
        minOf(i) == MinTicketDisplay(cards[sorted[i]])
        upTo(i) == YieldDisplay(cards[sorted[i]])
    IN /\ sorted # << >> => PageSlice(url) # << >>
       /\ \A i \in DOMAIN sorted : /\ MatchesMinBand(minOf(i), url.filters["min"])
                                  /\ NearYieldBand(upTo(i), url.filters["yield"])
       /\ \A i \in DOMAIN sorted : \A j \in DOMAIN sorted : i < j =>
            CASE url.sort = "min_asc"    -> minOf(i) <= minOf(j)
              [] url.sort = "yield_desc" -> upTo(i) >= upTo(j)
              [] url.sort = "name_asc"   -> sorted[i] < sorted[j]

\* What catalogue-view.ts:2-5 says, that the figure on the card is the figure sort
\* and filter use, is not kept: 9.04 percent is over 9 and its card says 9.0.
CardShowsBasis ==
  view = "list" =>
    \A a \in Filtered(url) : MatchesYieldBand(10 * YieldDisplay(cards[a]), url.filters["yield"])

\* A shortlist holds open opportunities of the budget, of the place asked for
\* unless there is none in that budget, and never says "place" under a card of
\* another one; what it leaves out scores no higher than what it shows
\* (help-me-choose.ts matchHelpMeChoose).
ShortlistKeepsAnswers ==
  view = "chooser" /\ done =>
    LET match == MatchHelpMeChoose(answers)
        fits(a) == /\ OpportunityStatus(cards[a]) = "open"
                   /\ answers.budget # None =>
                        MatchesMinBand(MinTicketDisplay(cards[a]), answers.budget)
        there(a) == answers.place = None \/ cards[a].row.place = answers.place
        listed == {match.results[i].asset : i \in DOMAIN match.results}
        eligible == LET all == {a \in DOMAIN cards : fits(a)}
                        near == {a \in all : there(a)}
                    IN IF near = {} THEN all ELSE near
    IN /\ listed \subseteq eligible
       /\ Cardinality(listed) = Min({Shown, Cardinality(eligible)})
       /\ match.relaxedPlace <=> answers.place # None /\ \A a \in DOMAIN cards : ~(fits(a) /\ there(a))
       /\ \A i \in DOMAIN match.results :
            /\ "place" \in match.results[i].reasons => there(match.results[i].asset)
            /\ \A a \in eligible \ listed :
                 SoftScore(cards[match.results[i].asset].row, answers) >= SoftScore(cards[a].row, answers)

\* An address past the last page does not stay: opportunities that fill or are
\* closed between two navigations make pages vanish.
PastTheEnd ==
  view = "list" /\ DOMAIN cards # {} /\ url.page > TotalPages(Cardinality(Filtered(url)))
AddressSettles == PastTheEnd ~> ~PastTheEnd

=============================================================================
