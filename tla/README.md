# A TLA+ model of Parkwise

Parkwise is an investor platform: people apply or are brought in as leads, are
approved and invited, complete onboarding and customer checks, and express interest
in real-estate assets; staff confirm the interests, keep the ledger of payments and
close the agreements.  It is a Next.js application (`src/apps/web`) over one Postgres
database.  This directory models the parts in which several requests, tabs or people
can get into each other's way, checks the models with TLC on small instances and
proves their main properties with TLAPS for all instances.

Paths below are relative to `src/apps/web/lib/` unless they begin with `src/`.

## 1. The system

### How the code runs

Every operation is a server action or the loading of a page.  They run concurrently,
in any number, and share nothing but the database, a file store and, for the public
forms, a counter in the memory of the process.  Nearly all actions have the same
shape, and that shape is what makes them hard:

1. a *fast path*: unlocked reads, and early returns for everything that is plainly
   not allowed;
2. a *transaction* (READ COMMITTED) that locks rows with `SELECT ... FOR UPDATE`,
   reads some of it again, and writes, often by an `UPDATE` whose `WHERE` repeats
   the expected status; the audit row is written in the same transaction;
3. *after the commit*, best-effort emails and cache revalidation.

Anything may commit between 1 and 2, and between two transactions of one action.
What step 2 reads again is safe; what it does not read again is only as good as
the moment of step 1.  A process may die, or the connection may be lost, anywhere.
The models have one action for each of these steps, never for a whole server
action, and remember in a request slot (`req`) what a step carries to the next.
Pages are several statements without a transaction, and are modelled likewise.

### Inventory

| Component | State | Operations | What makes it hard | What makes it correct | Module |
|---|---|---|---|---|---|
| Interest desk (`interests/admin-actions.ts`, `four-eyes.ts`, `claim-pending.ts`) | `interests.status`, `interest_confirmation_approvals`, `holdings`, audit log | `confirmInterest`, `declineInterest`, `withdrawInterest` | two transactions per confirmation, rechecks under three locks, two approvers racing | two super admins for material tickets; one decision per interest; holdings match decisions; no asset over capacity; decided only for cleared investors in one's own book | `InterestConfirm`, `FourEyes` |
| Payment ledger (`portfolio/admin-distributions.ts`, `four-eyes.ts`) | `distributions.status`, idempotency key, `distribution_approvals` | `recordDistribution`, `cancelDistribution`, batches | retries hit a unique key; approvals of two actions on one posting; guarded update on a status read earlier | two super admins for material postings and cancellations; the ledger only moves forward | `Distributions`, `FourEyes` |
| Interest intake (`interests/actions.ts`, `rate-limit.ts`) | `interests` rows and `created_at` | `createInterest`, `withdrawInterest` | gates read before the transaction; a lock wait across midnight | one pending interest per investor and asset; a daily limit | `InterestIntake` |
| Asset catalogue (`assets/`, `components/catalogue-*`, `help-me-choose.ts`) | `assets` rows, holdings against capacity; the visitor's address, cards and answers | authoring, publication, closing, capacity; filters, order, pages, the chooser | compare-and-set on a status read earlier; navigations overtake each other and the snapshot ages; two computations of one figure | closed is terminal; cards follow the filters of the address; a shortlist keeps to the answers | `Catalogue`, `InterestIntake` |
| Access switches (`platform-settings/actions.ts`, `investors/admin-actions.ts`) | pool access per investor and for the platform | two switches | read by others before their transactions | no one enters a pool without access | `InterestIntake` (partly) |
| Agreements (`contracts/*.ts`) | `contracts.state`, `contract_signers`, `contract_signature_events`, `signed_document_id`, stored files | review, callbacks, manual signatures, upload and publication, retraction | callbacks late, twice and out of order; a file store outside the transaction | in force exactly when both signed; the latest callback counts; a published copy stays | `Contracts` |
| Customer checks (`kyc/`, `aml/`) | `investors.kyc_status`, `kyc_checks`, documents | upload, submit, review, screening | document set against status; files against rows | nobody approved without the required documents | `InvestorDocuments`, `InterestConfirm` (partly) |
| Documents and storage (`documents/`, `storage/local.ts`) | `documents`, objects in a store | upload, retract, download | store and database are not one transaction | no row without its object | `InvestorDocuments` (partly) |
| Erasure and export (`privacy/`) | personal columns of every table, files | erase, export | acts on what it read before its transaction | one erasure takes effect; nothing is exported off the record | `InvestorDocuments`, `PersonalRecord` |
| Onboarding (`onboarding/`, `admin/assisted-*`) | answers, completion, acceptances, phone | the investor's form, the panel for staff | two writers of one row, each with an older copy of it | whoever reaches the portal is complete; completed once | `PersonalRecord` |
| Staff and ownership (`staff/`, `investors/`, `leads/assign/`) | `staff_profiles`, `leads.assigned_*`, `investors.ib_id`, `agent_id`, assignment history | promote, demote, transfer, assign, link, convert | row locks in different orders; owners are copied from lead to investor | owners are active staff of the right role; the history is exact | `Ownership` |
| Applications and invites (`apply/`, `auth/investor.ts`) | applications, invites, users and credentials, `investors.user_id` | apply, approve, reject, contact, re-invite, set password, sign in | two decisions race; a token used twice; a row claimed twice; an orphan user adopted | one open application; one live invite; approval gives access; a password is set once | `Applications` |
| Leads (`leads/`) | stage, owner, linked investor | pipeline moves, bulk moves, conversion, linking, upload, calls | unlocked bulk updates against conversion | a converted lead has one investor and an account | `Applications`, `Ownership` |
| Public forms (`components/apply-wizard.tsx`, `apply/actions.ts`, `community-spaces/actions.ts`, `apply/ip-throttle.ts`) | the tab's step and data, requests on their way, a map of counters | continue, back, submit; count and refuse; confirm by email | a lost connection and another try; the window's border; a cap read before the write | at most less than twice the limit in an hour; one confirmation for a row; a tab that says "received" tells the truth | `PublicForms` |
| Staff pages and queries (`admin/`, `leads/queries.ts`, `components/admin-*`, `leads-bulk-table.tsx`) | the page as put together so far, the table's selection | dashboard, lists, record pages, feed, bulk change | a page is several statements; records move between them; figures are counted in several places | nothing of another's book; a card counts what its list shows; the selection is on the screen | `StaffDesk` |
| Community-space moderation (`community-spaces/`) | one submission at a time | forms | nothing across rows | - | not modelled |
| Two-factor and sign-in (`auth/`) | the authentication library's | calls into the library, audit rows | the library's | the library's | not modelled |
| Portal pages, pages, copy, email | none | reads of one's own rows, texts, best-effort messages | - | - | not modelled |
| Schema (`db/schema.ts`) | unique indexes, defaults | - | they are the last guard in several races | part of the modules that rely on them | partly |
| Tests and scripts | - | - | - | - | not part of the running system |

How they interact: applications and leads make the investors and accounts on which
everything else acts; intake creates the pending interests the desk decides; the
desk reads customer checks, ownership and the asset, and its holdings are what the
ledger posts against and what fills the catalogue; agreements are created from
interests; reassignment, demotion and transfer change whose book a record is in,
which every staff action and page reads again.  All interaction is through rows: the
other component's step is an action that may come between any two of one's own.  Each
module therefore contains the others' steps as it sees them, one step for a whole
transaction, and leaves their inner interleaving to the module whose subject it is.

### The hazards

`PROJECT.json` lists them with the line at which each one bites and the properties
that would catch it.  Two have none, because the code does what they warn of: the
clean-up after a commit that was not heard of, and the next step that the panel of a
record offers (section 4).

## 2. The modules

| Module | What it is |
|---|---|
| `FourEyes` | abstract: what the four-eyes control promises |
| `InterestConfirm` | the interest desk; implements `FourEyes` |
| `Distributions` | the payment ledger; implements `FourEyes` |
| `InterestIntake` | creation of interests, and the asset's life |
| `Contracts` | one agreement from review to published copy |
| `InvestorDocuments` | the documents of one investor: uploads, KYC pack, retraction, erasure |
| `Ownership` | staff, leads and investors and who owns whom, with row locks |
| `Applications` | from a lead or a form to an account |
| `PersonalRecord` | the personal data of one investor and its four writers |
| `PublicForms` | the public forms, their throttle, cap and confirmations |
| `StaffDesk` | what staff see and work on while records move |
| `Catalogue` | opportunities, the visitor's catalogue and chooser |
| `...Proofs` | the theorems about all of these, see section 5 |
| `MC...` | rows and values for TLC, and symmetry |

Definitions that start with the comment `MUTANT:` are deliberately wrong variants
of the operation that follows.  No specification uses them; each shows that a
property notices a plausible mistake in the code.

Four proof modules are about two components each.
The second one of a pair therefore has names of its own for what the others call
`Init`, `Next`, `Spec` and `TypeOK`: `RecordSpec` (`PersonalRecord`), `FormsSpec`
(`PublicForms`), `DeskSpec` (`StaffDesk`) and `CatalogueSpec` (`Catalogue`).

### FourEyes

An item (a confirmation, a posting, a cancellation) can be carried out once.  A
guarded item needs an endorsement by one super admin, used up when another one
carries the item out.  `TwoPersonRule` and `EndorsementsAreUsedOnce` follow.  Two
pieces of code implement this control independently
(`interests/four-eyes.ts`, `portfolio/four-eyes.ts`), so it is stated once and both
are shown to refine it.

### InterestConfirm

| Code | Model |
|---|---|
| `loadInterestWithContext`, early returns of `confirmInterest` (`interests/admin-actions.ts:70-134`) | `LoadForConfirm` |
| first-approval transaction (`:137-235`), `findOrRecordFirstApproval` | `RecordFirstApproval`, `ContinueAsSecond` |
| claim transaction (`:243-365`): the locks on investor and asset and what is read under them | `LockForClaim`, guarded by `ClaimLocks` and `MayClaim` |
| its update of the interest, `claimPendingInterest`, and its commit | `ClaimInterest` |
| `declineInterest` (`:434-560`) | `LoadForDecline`, `DeclineInterest` |
| `withdrawInterest`, the insert of `createInterest` | `WithdrawInterest`, `CreateInterest` |
| `setKycStatus`, `submitKycForReview`, `recordScreening`, `assignInvestor`, `setAssetStatus`, `updateAssetCapacity` | one action each, as the desk sees them |
| any rejection, exception or crash | `RequestFails`: an open transaction leaves nothing, a committed first approval stays |

The claim is two actions, because it is long and holds two locks: between them
(`Locked`) every action that needs the investor's row (`InvestorFree`) or the asset's
(`AssetFree`) waits, while the investor may still withdraw, which needs neither.  The
other transactions are a single action each: they lock the investor row first and
then the interest or the asset, and everything they recheck is covered by those locks
or part of a guarded `UPDATE`.  An interest's investor, asset and amount never
change, so they are constants of its id.  What is committed to an asset is counted
euro by euro (`Euros`), which is a sum the prover can reason about.

### Distributions

A posting is its idempotency key: the code derives it from holding, type, status,
amount and payment reference, so the same data is the same posting.  `Load`,
`RecordFirstApproval`, `ContinueAsSecond` are as above; `PostDistribution` inserts,
`AdoptExisting` is the branch that catches the unique violation and answers with the
existing row, `CancelDistribution` is the update guarded by the status read at the
beginning (`seen`).  Recording and cancelling a posting are two items with an
approval each.  A batch calls the same function for one holding after another, so
it is covered by single recordings.

### InterestIntake

`ExpressInterest` is the fast path of `createInterest` with all its gates.
`BeginInsert` is the start of the transaction, which fixes `created_at`;
`InsertInterest` comes after the wait for the investor's lock and reads the clock
again.  `ReadAsset` and `SetAssetStatus` are the two halves of `setAssetStatus`;
`UpdateDraftAsset` counts edits of the terms; `NextDay` is midnight.  A decision is
one step here; `InterestConfirm` has its details.

### Contracts

`Advance` is how far one signature takes the agreement within one transaction (out
of review, to the counter-signature, into force).  `BeginEvent` is the start of a
callback's transaction, which fixes `received_at`, before the lock;
`RecordStaleEvent`, `RecordUnsigned` and `RecordSigned` are its outcomes under the
lock.  `RecordManualSignature` is the same transaction by hand.  `CheckUpload`,
`PutObject`, `Publish` are the three steps of
`storeAndPublishSignedContractDocument`; `RequestFails` removes the stored file or
fails to; `PublishUnheard` is a commit whose answer is lost, after which the code
removes the file all the same.  The states `superseded` and `withdrawn`, and the
version, are left out because no code enters or changes them.  `Attached` are the
review documents an agreement is created with.  `createContract` accepts any, its only
caller passes none (section 4): the run has both, so that the whole life of an
agreement is covered.  They are assumed not to be retracted during the review.

### InvestorDocuments

A document is its storage key, with the row (`absent`, `active`, `retracted`,
`deleted`) and the file behind it as separate state.  The four uploads
(`uploadKycDocument`, `assistedKycUpload`, `adminUploadDocument`,
`storeAndPublishSignedContractDocument`) have the same three steps `CheckUpload`,
`PutObject`, `InsertDocument` and differ in their gates, so they are kinds of
document.  `RequestFails` and `InsertUnheard` are as in `Contracts`.

| Code | Model |
|---|---|
| gates on the session's row, then again under the lock (`kyc/actions.ts:78-117`, `:133-163`) | `CheckUpload`, `Insert`, both by `MayUpload` |
| `removeKycDocument` | `LoadRemoval`, `RemoveKycDocument` |
| `submitKycForReview`, with the rows of the pack locked for share | `SubmitKycForReview` |
| `setKycStatus` | `SetKycStatus` |
| `retractDocument` | `RetractDocument` |
| the reads of `eraseInvestorAction` and `eraseInvestorPii` | `LoadErasure` |
| its transaction, with the foreign key from `contracts` | `EraseRows`, `Deletable` |
| its loop over the files | `UnlinkFile` |

A removal reads the status before it looks whether the document exists, as the
code does, so a document may even appear in between.  A decision does not look at
the pack again, so an approved investor's document may be retracted;
`DecidedPackIsKept` says that its row stays on file then.

### Ownership

A transaction is a request with a stage; each statement that locks rows, explicitly,
by an update or by a foreign key, is a set of wanted locks (`want`) that `Acquire`
grants one by one and that end with the transaction.  `Conflict` is the
compatibility of Postgres' row locks.  A statement's rows are those of its snapshot,
and its condition is evaluated again once the locks are there, as READ COMMITTED
does.  Rows are numbers in the order of their ids, in which `ORDER BY id FOR UPDATE`
takes locks.

| Code | Model |
|---|---|
| `assignLeadToAgent`, `assignLeadToIb`, `assignAllLeadsInList`, the removals (`leads/assign/`) | `AssignLeads`, `CheckAssignment`, `WriteAssignment` |
| `assignInvestor` (`investors/admin-actions.ts:16`) | `AssignInvestor`, `LockAgent`, `CheckAgent`, `WriteInvestor` |
| `demoteAgent` (`staff/demote-actions.ts:17`) | `DemoteAgent`, `LockProfiles`, `RefreshLeads`, `Handover`, `LockInvestors`, `CommitDemotion` |
| `demoteIb` (`:277`) | `DemoteIb`, `LockTeam`, `OwnedLeads`, `LockAgents`, `CommitIbDemotion` |
| `transferAgentToIb`, `promoteToAgent`, `promoteToIb` | `TransferAgent`, `MovedInvestors`, `CommitTransfer`; `Promote`, `WritePromotion` |
| `linkLeadOnInvestorCreate`, `convertLeadToInvestorInvite` | `LinkLead` ... `CommitLink`; `ConvertLead`, `CommitConversion` |

### Applications

A person is an email address: investors, users and the leads of a list are unique by
it.  `Lock` and `Free` are the lock of the investor row: transactions that take it
read under it and write what follows from it; everything else that writes the row, or
refers to it by a foreign key, waits.  `ApproveAndInvite` is therefore its unlocked
read (`ReadForApproval`), the creation of the user by the authentication library
(`Approve`), the search for and adoption of an orphan (`FindOrphan`, `AdoptOrphan`),
and the invite (`CreateInvite`); `SubmitApplication`, `SetPasswordWithInvite`,
`EnsureInvestor` (a sign-in) and `ConvertLead` are taken apart in the same way.  A
lead's stage is written by staff at once (`WriteStage`), without a lock on the
investor.  An expired invite is one whose request fails.

### PersonalRecord

One investors row and everything that holds personal data beside it.  Its writers are
the onboarding form (`OpenForm`, `Continue`, `Finish`, then `ReadSelf` and
`WriteSelf` of `completeOnboarding`), the panel for staff (`OpenPanel`, `ClickSave`,
`ReadForSave`, `SaveProfile`, `ReadForAccept`, `AcceptDeclarations`), a new
application by the same email (`ReadForApply`, `Reapply`) and erasure
(`BeginErasure`, `FindLinkedLeads`, `FindApplications`, `Erase`).  The export reads
the row, then the rest, then writes its audit event, then answers
(`CollectInvestor`, `CollectRecords`, `AuditExport`, `Disclose`).  A value is
abstracted to whether it is there, except the phone, which staff may leave blank.

### PublicForms

A tab posts and waits; the server goes on with a request whose connection is lost
(`ConnectionLost`), so a person who is told to try again may have two on the way.
`IpThrottle` is the in-memory map with its sweep, its window that starts with the
first request and its cap on keys; `Restart` empties it.  `Submit` is the cap read
before the write, `PersistApplication` and `PersistHost` the write,
`SendConfirmation` the email after it, `ShowResult` what the tab then tells.

### StaffDesk

One reader loads a page part by part, and the owner is read again for each part as
in the code; meanwhile others write, one step for a transaction.  `page.shown` is
what the page has told so far.  `Cards` are the dashboard's numbers, `Behind` what
the pages they link to list, each by its own query; `ActionPlan` is the panel's next
step, `RunPrimary` its button; `table` is the table of leads with
its selection, which the component adjusts when its rows change (`Selection`).
An assignment, a demotion and a transfer write history and thereby count as a lead's
last activity, on which the list of stale leads depends.

### Catalogue

The super admin's form (`InputFromForm`, `ValidForm`, `FormValues`), `CreateAsset`,
`UpdateDraftAsset`, `SetAssetStatus`, `UpdateAssetCapacity`, and `Invest`, which
fills an opportunity.  The visitor's page has cards of the moment it was sent and an
address; `SetParams` starts a navigation from the address of the last render, so a
second one may overtake the first; `Navigate` ends it, with new cards; `Clamp`
replaces an address past the last page.  The figure a card shows (`MinTicketDisplay`,
`YieldDisplay`) and the figure it is filtered and sorted by (`CatalogueMinBasis`,
`CatalogueYieldBasis`) are different functions in the code and in the model.  The
minimum is the same figure.  The yield is shown to the nearest tenth (`ToTenths`) and
filtered and sorted as it is, in the model in hundredths; a yield half way between two
tenths goes up or down as the double that stands for it does (`BelowHalf`).
`CardsFollowFilters` therefore allows a card to show the end of its band.  A row
recommends exactly one option, because the form (`assets/asset-form.ts`) and the
seeds (`src/apps/web/scripts/seed-assets.ts:105`) make sure of it; rows from before
there were options (`src/apps/web/drizzle/0010_productization_options.sql:8`) are left
out.  A list is sorted by saying of each card how many come before it (`InOrder`).  The
chooser's ranking (`FilterHard`, `SoftScore`, `RankAndTake`, `Reasons`) is checked
against what a shortlist must satisfy.

## 3. The runs

All bounds are constants of the `.cfg` files.  Every passing run explores its whole
state space.

| Run | States | Question and answer |
|---|---|---|
| `InterestConfirm` | 1 115 832 | Two investors, one with a plain and one with a material interest in the same asset, two staff requests at a time, while KYC, screening, ownership, asset status and capacity change: the safety properties and the refinement of `FourEyes` hold.  The tickets (1 and 2) compete for a capacity of 2 (or 0, none): both are confirmed at the same time, under different investor locks, and only the lock on the asset keeps the second from seeing the room of the first. |
| `Distributions` | 62 616 | A plain and a material posting are recorded, retried and cancelled by two requests at a time: the properties and the refinement hold. |
| `InterestIntake` | 282 992 | Four interests on one asset, two requests, one midnight, limit 1: one pending interest, and the daily limit is exceeded by no more than the transactions open at midnight. |
| `Contracts` | 480 373 | Three callbacks of two signers, signatures by hand, reviews and two uploads, two requests at a time: in force exactly when both have signed, a signer is left as the latest callback says, a published copy stays. |
| `InvestorDocuments` | 578 918 | Two KYC files of one kind, an address proof from staff and a signed copy; cap 1, two requests: files never go before rows, the cap holds, the submitted pack is frozen, decided evidence stays on file. |
| `Ownership` | 772 636 | Any two transactions over four staff (two of them IBs), two leads and one investor, statement by statement: no lead is left with a deactivated agent, an investor only by a copied owner, and the history is exact. |
| `Applications` | 1 971 663 | Any four requests, two at a time, of two people and staff, with a lead from the form and an uploaded one: one open application, one live invite, approval gives access, passwords are set once and by the newest invite. |
| `RejectionOverwritten` | violated | the finding in section 4 |
| `PersonalRecord` | 820 450 | Any three of the form, the panel, a new application, an export and an erasure at the same time: nobody reaches the portal incomplete, completion and erasure are on record once, no export is off the record. |
| `PublicForms` | 950 164 | One tab that posts twice and loses connections, hints, restarts, limit 2 in a window of 2 ticks: less than twice the limit in any hour, one confirmation for a row, "received" is true. |
| `StaffDesk` | 571 701 | One person of each role opens a page or works on the table of two leads while two transactions of others move records: pages tell nothing that was not in the reader's book when it was read, cards match lists, the selection is on the screen. |
| `Catalogue` | 783 751 | Up to three opportunities, one card on a page, two on a shortlist, two changes while a visitor filters, sorts, pages or chooses: cards do not belie the filters and the order (one has a yield of 9.04, one a term that names no years), shortlists keep to the answers, and, with fairness, an address past the end does not stay. |

Why the bounds are enough.  Each race in these components is between two requests;
a third one adds an interleaving, not a kind of interference, because every step
is guarded by the rows alone.  Two requests with unboundedly many runs one after
another (slots are reused) already give the three and more calls that a stale
first approval or a retried posting need; where `MaxBegun` bounds the runs, four
requests are an application, its approval, a second invite and an activation, and
three are two writers of the personal record against a third.  Two super admins and an
agent are the smallest staff in which somebody may and somebody may not approve; two
IBs with agents are the smallest in which a demotion has a successor.  The instances
have an item on either side of the threshold, a capacity that fits each ticket but
not all, a callback for either signer and two callbacks of one signer in the wrong
order.  `MaxClock` = 4 deliveries leaves one callback to be delivered twice.
A cap of 1 is reached by the first of the two KYC files, so that the second one
meets the border.  `InterestIntake` needs `MaxPerDay` + requests + 1 = 4 interests,
or the daily limit could not be exceeded at all.  `MaxNow` = 3 with `Window` = 2 is
the shortest time that has the end of one window and the beginning of the next
within an hour.  In `StaffDesk` one write moves a record between two parts of a page
and a second one moves it back; the feed of one line with two events read is its
overfetch at its border.  With one card on a page and three opportunities, a change
of any of them makes or removes a page.  The proofs do not depend on any of these
bounds.

`CHECK_DEADLOCK FALSE` is set where the system, or its bounded history, really ends:
in `InvestorDocuments` when all storage keys are used up, the investor is erased and
the pack decided on; in `Contracts` when the copy is published, retracted and all
deliveries are used up; in `Ownership`, `Applications`, `PersonalRecord`,
`PublicForms` and `StaffDesk` when the requests, posts or writes of the bound are
used up.  In `Ownership` two transactions may besides wait for each other, which
Postgres resolves by aborting one (`RequestFails`).  Symmetry is used over staff,
request slots, interests and applications that the instance treats alike, and not in
the runs that check liveness.

### Fairness

Only `Catalogue` assumes any: a navigation that has begun ends (`WF_vars(Navigate)`);
the browser does not wait for the visitor.  Nothing is assumed of the visitor or the
super admin.

## 4. Where the code and its words disagree

With a run: `RejectionOverwritten`.  Approving reads the application before its
transaction and writes by id alone (`apply/admin-actions.ts:108`), so an approval may
overwrite a rejection, although a comment in `rejectApplication` says the terminal
transition cannot be overwritten (`apply/admin-actions.ts:389-390`).

Stated as a definition of its module, and not kept by the code.  TLC finds a
counterexample to each when it is put in the place of the run's properties:

| Definition | What happens |
|---|---|
| `RetriesFindTheirPosting` (`Distributions`) | Recording a posting again after it was cancelled answers ok with the id of the cancelled row (`portfolio/admin-distributions.ts:311`): the caller believes a payment is recorded that the ledger has as cancelled. |
| `NothingPostedYet` (`Distributions`) | A third submission of a material posting that is already on the ledger records a new first approval and reports that a second one is awaited (`portfolio/admin-distributions.ts:178`). |
| `PendingKeepsItsTerms` (`InterestIntake`) | An interest inserted between the check for pending interests and the update of `setAssetStatus` is pending on a draft whose terms may be edited (`assets/admin-actions.ts:58`). |
| `ConfirmedWithPoolAccess` (`InterestIntake`) | The preflight lists pool access as a condition of a confirmation; `confirmInterest` does not read it (`interests/confirm-preflight.ts:57`). |
| `StaleCallbackKeepsSignature` (`Contracts`) | A callback about an earlier time undoes a signature recorded by hand, because callbacks are compared with callbacks only (`contracts/service.ts:662`). |
| `ErasureCoversAllDocuments` (`InvestorDocuments`) | Erasure lists the documents before its transaction (`privacy/erasure.ts:89`).  What is uploaded in between keeps its file, and its row too if the list was empty; the already-erased guard refuses another try. |
| `TeamsHaveActiveIb` (`Ownership`) | A promotion checks the IB before its transaction (`staff/promote-actions.ts:128`), and the demotion of that IB locks the team it has at that moment (`staff/demote-actions.ts:306-307`): the agent who joins meanwhile has an inactive IB. |
| `NoDeadlock` (`Ownership`) | Locks on leads, staff and investors are taken in different orders by assignment, demotion, promotion and linking; Postgres aborts one of two that wait for each other. |
| `LinkedIsConverted` (`Applications`) | A bulk change reads the stages and then writes them (`leads/assign/bulk-status.ts:83`), so a lead converted in between leaves the converted stage, against the comment at `:72-73`. |
| `ErasedStaysErased` (`PersonalRecord`) | Erasure finds the applications before its transaction (`privacy/erasure.ts:84`), although it means to anonymise them in all cases (`:77`); one on its way, inserted in between or afterwards, stays. |
| `CompletedProfileIsValid` (`PersonalRecord`) | A new application that changes the account type leaves a completed profile that no longer validates. |
| `BlankPhoneIsKept` (`PersonalRecord`) | A blank phone keeps the value that was read before the transaction (`onboarding/assisted-actions.ts:76`), which may be older than the one on the row. |
| `CapIsAuthoritative` (`PublicForms`) | The cap on applications of one email is read before the write, so requests that overlap may exceed it. |
| `EveryCardMatches` (`StaffDesk`) | The card "Identity checks" counts checks under review while its page lists submitted ones, and "Leads awaiting assignment" links to a list that has also the leads of queues and those that are done with. |
| `PrimaryIsAccepted` (`StaffDesk`) | The panel of an approved record offers "Regenerate invite" to every role (`investors/next-action.ts:78-81`); the server makes one for a super admin only and tells others "Forbidden.". |
| `CardShowsBasis` (`Catalogue`) | `assets/catalogue-view.ts:2-5` says that "the figure on the card is the figure sort/filter use".  The card rounds it to a tenth (`assets/investment-options.ts:221-227`): a yield of 9.04 is over 9 and shown as 9.0% under "Over 9%", one of 7.96 as 8.0% under "Under 8%". |
| `FailedStaySelected` (`StaffDesk`) | What a bulk change could not change "remains selected", but rows that come or go empty the selection (`components/leads-bulk-table.tsx:83-88`, `:124-139`). |

Seen while modelling:

- *Agreements and documents.*  `contracts.signed_document_id` refers to `documents`
  without a cascade (`src/apps/web/drizzle/0029_contract_lifecycle.sql:19`), so a full
  erasure fails for every investor who has a published signed copy; only one under a
  legal hold succeeds (`Deletable`, `SignedCopiesStay`).  A full erasure deletes all
  documents owned by the investor, not only KYC ones (`privacy/erasure.ts:184`), and
  documents kept under a legal hold cannot be erased later, because the guard refuses
  a second erasure (`ErasedOnce`).  Staff uploads through `adminUploadDocument` are
  neither capped nor refused while a pack is under review (`documents/actions.ts:166`),
  and they count against the cap of KYC uploads.  Retracting the signed copy leaves the
  agreement in `signed_documents_available` (`documents/actions.ts:302`), which
  `src/docs/contract-lifecycle.md:15` defines by copies the investor can download, and
  no other copy can be put in its place.  When a commit's answer is lost the published
  file is removed (`contracts/service.ts:472`).  A review read before another one may
  move `agreement_viewed` back to `summary_viewed` (`contracts/actions.ts:247`).
  Agreements are created from an interest only, and without review documents
  (`contracts/admin-create.ts:108-127`): their review cannot begin, the investor's
  signature cannot be recorded from `ready_to_review`, and they never come into force.
- *Interests.*  The comment at `interests/admin-actions.ts:97` says that resubmitting
  moves the status off `approved`; no code does (`KycTransitions`, `Editable`).  The
  preflight says "Room remains for this ticket." whenever the asset is open at all
  (`interests/confirm-preflight.ts:96-98`), while the claim asks whether this ticket
  fits (`interests/admin-actions.ts:301`).  `created_at` is the start of the transaction
  and the day's limit is counted on the clock after the lock wait
  (`interests/actions.ts:163`), so transactions open at midnight may put more rows on a
  day than the limit; `DailyLimitUpToMidnight` says how many.
- *Checks and roles.*  The time of a screening is taken before the lock
  (`aml/actions.ts:28`), so the one inserted last may not be the latest.  A role is
  resolved once per request (`auth/staff.ts:52`).
- *Leads and applications.*  Erasure locks the investor and then its leads, a new
  application its lead and then the investor.  A conversion looks for any
  application and inserts one in a statement of its own (`leads/convert-actions.ts:152`):
  of an investor who is active already and has none, two conversions may each insert an
  open one.  `PendingHasOneOpen` speaks of those who wait for access only.  Converting
  a lead whose investor is approved and claimed ends in "Forbidden." for anybody but a
  super admin, because a new invite is the super admin's, after the lead has been
  linked.
- *Onboarding.*  The panel for staff takes onboarding as done by its status alone
  (`components/admin-assisted-kyc.tsx:76`), the gate also asks for both acceptances.
  The eligibility answers are written as what was read plus what is new.
- *Public forms.*  A fixed window that starts with the first request admits up to one
  less than twice its limit within an hour (`ThrottleBound`).
- *Catalogue.*  The edit page of a draft puts capacity and cover image back after "Save
  draft" until it is loaded again; a premium minimum may be lower than the standard one;
  closed rows still show "Publish"; two quick changes of filters lose the first; the
  chooser says that it shows matches across other places even when it shows none, that
  the last answers only change the order though three are shown at most, and gives
  "Clearer figures" as the reason for any match that is not led by parking.

## 5. The proofs

The theorems hold for all values of the constants that satisfy the named
assumptions (`ConfirmAssumption`, `StartAssumption`, `LedgerAssumption`,
`IntakeAssumption`, `ContractsAssumption`, `DocumentsAssumption`,
`OwnershipAssumption`, `ApplicationsAssumption`, `PersonalRecordAssumption`,
`PublicFormsAssumption`, `StaffDeskAssumption`, `CatalogueAssumption`).  These say that
the constants are of their type, that limits, windows and page sizes are positive,
that the null values are none of the others, that sets which are counted (requests,
leads, opportunities) are finite, that nobody is both super admin and desk staff, for
`Ownership` that rows are distinct positive numbers, and of the rows a run starts from
what the code has established of every row: an investor approved is linked to a user
(one update does both, `apply/admin-actions.ts:94-111`), an opportunity recommends one
of its options.  TLC evaluates them in the runs.

| Module | About | Proved |
|---|---|---|
| `RecordProofs` | `FourEyes` | `TwoPersonRule`, `EndorsementsAreUsedOnce` |
| | `PersonalRecord` | `RecordTypeOK`, `PortalMeansComplete`, `AuditTrail` |
| `InterestConfirmProofs` | `InterestConfirm` | `TypeOK`, `TwoSuperAdmins`, `HoldingsMatchDecisions`, `DecisionsAreFinal`, `ClearedAtConfirmation`, `DecidedInScope`, `NeverOverCommitted`, `ImplementsFourEyes` |
| `DistributionsProofs` | `Distributions` | `TypeOK`, `MaterialTakesTwo`, `LedgerMatchesDone`, `LedgerOnlyForward`, `CarriedOutInScope`, `ImplementsFourEyes` |
| `IntakeProofs` | `InterestIntake` | `TypeOK`, `OnePendingPerAsset`, `DailyLimitUpToMidnight`, `ClosedIsTerminal` |
| | `PublicForms` | `FormsTypeOK`, `ThrottleBound`, `ConfirmedOnce`, `ReceivedIsOnFile` |
| `OfferProofs` | `Contracts` | `TypeOK`, `EffectiveIsSigned`, `SignedIsEffective`, `PublishedFileExists`, `LatestEventDecides` |
| | `Catalogue` | `CatalogueTypeOK`, `CardsFollowFilters`, `ShortlistKeepsAnswers` |
| `DeskProofs` | `InvestorDocuments` | `TypeOK`, `RowsHaveFiles`, `WithinCap`, `DecidedPackIsKept`, `PackIsFrozen`, `ErasedOnce`, `SignedCopiesStay` |
| | `StaffDesk` | `DeskTypeOK`, `SelectionShown`, `PagesAreScoped`, `CardsMatchLists` |
| `OwnershipProofs` | `Ownership` | `TypeOK`, `LeadAgentsActive`, `StaleOwnersAreCarried`, `HistoryIsExact` |
| `ApplicationsProofs` | `Applications` | `TypeOK`, `PendingHasOneOpen`, `OneLiveInvite`, `ApprovedHasAccess`, `PasswordSetOnce`, `NewestInviteActivates`, `ApprovalStands` |

For each component the proof gives its inductive invariant (`IInv`; `ControlInv` of
`FourEyes`, `RecordInv`, `FormsInv`, `DeskInv`; of `Catalogue` it is the types), shows
that every action preserves it, in one lemma or in one per conjunct, and ends with the
theorems that it implies.

- **Two persons.**  `TwoSuperAdmins` is not inductive: whether a claim is safe
  depends on what its request remembered one transaction ago.  `RequestsTrusted`
  says that a remembered first approver is another super admin, that the audit log
  has the approval, and that *while the interest is pending* it is still the one on
  record.  The last part is the heart of it: approvals are removed only by the
  confirmation that decides the interest, so a stale memory and a pending interest
  exclude each other.  `ApprovalsLogged` adds that approvals exist only for
  existing, material, unconfirmed interests, which gives the second half of
  `HoldingsMatchDecisions`.  The ledger has the same argument with "not carried
  out" for "pending"; there approvals may be on record for postings that are done
  (`NothingPostedYet` is not kept), so the invariant is weaker and still enough.
- **The capacity.**  The sum a claim read is still the sum when it commits because no
  other claim on the asset is under way: of two claims that hold a lock on the same
  asset or investor, one is the other, and a claim that has its locks still passes its
  rechecks (`ClaimsLocked`).  The sum itself is a cardinality: the euros of a new
  holding are none of those counted before, so the new sum is at most the old one and
  the ticket (`SumGrows`).
- **Refinement.**  With `IInv` each claim is an `ExecuteGuarded` or `ExecutePlain`
  of `FourEyes`, each recorded approval an `Endorse`, and every other step a
  stutter.
- **In force exactly when signed.**  `SignedLeavesReview`: an investor's signature is
  on record only after the review, and no transaction ends in `investor_signed`.
- **The copy stays.**  `UploadsOwnFiles`: uploads in flight have distinct files, none
  of them the published one, so one request's clean-up cannot reach another's file.
- **The latest callback counts.**  `LatestDecides` is `LatestEventDecides` made
  inductive together with the fact that a stale callback leaves the signer alone
  and does not become the latest.
- **One pending interest.**  `PendingIsUnique` states the property without counting;
  the partial unique index is the guard of the only step that makes an interest
  pending.  `ClosedAsked`: a request that read a closed asset asks for closed.
- **The daily limit.**  `DailyLimitUpToMidnight` does not know which requests may
  still add to a day.  `DayCount` is exact while the day lasts, and afterwards counts
  the rows together with the transactions that began on that day (`Late`): a late
  insert moves a request from the second set to the first, none joins the second one,
  and at midnight it is no larger than the set of requests.  `NothingAfterToday` gives
  the first case for a day that has not begun.
- **The throttle.**  `Paced`: the bucket of an address counts its last passes, and its
  window began with the first of them; of the passes before, the one that is a whole
  allowance earlier is a window older.  Therefore any two passes that lie twice the
  allowance less one apart lie a window apart, which is the bound.  A bucket is swept
  only when it has expired (`PacedDropped`), and a restart begins the count anew.
- **Confirmations and answers.**  `RowsCoverMails`: confirmations sent and requests
  that still have one to send (`Mailing`) are together no more than rows.
  `AnswersTrue`: whoever is answered "received", or will be, is on file, and whoever
  ever filed is, so that the answer of the cap is true as well (`OnFile`).
- **Files before rows.**  A file is removed in three places: after a failed upload,
  after a commit that was not heard of, and by an erasure.  `UploadsOwnTheirKey`
  says that an upload's key has no row and no other upload; `ErasuresListRows` says
  that an erasure that removes files has already deleted the rows it listed, and
  that keys once used never become free again (`RowsMove`).  The second conjunct
  also says that under a legal hold the list is empty, which `DecidedPackIsKept`
  needs.
- **The cap.**  The recount is over all active documents, the bound is on the KYC
  ones among them, so the cap holds although staff uploads are not capped.
- **The personal record.**  `PortalMeansComplete` is inductive with the types: a
  request gets to the portal only past the write that completes, or the check that
  finds it done (`SlotArrives`), and no writer takes a completion back.  `AuditTrail`
  follows from `RecordedOnce` (an event is written by the transaction that changes the
  row, and what it has changed stops the second one) and `ExportsOnRecord` (an export
  that is about to answer has committed its event).
- **The desk.**  `BookKept`: while a page is put together, the book it remembers
  contains the reader's book of now and everything that was checked or listed for a
  read that is still to come.  `PagesAreScoped` follows for every later read, although
  records leave the reader's book in between.  `RowsKept`: what is selected, posted or
  failed has a row on the screen.  `CardsMatchLists` needs no history: it compares two
  queries over the same rows, and the proof takes one card after another.
- **The catalogue.**  `InOrderSorts`: in a finite set ordered strictly and totally, to
  be before another element is to have fewer elements before it, so positions are
  distinct, and by counting they are exactly 1 to the number of elements.  Hence a
  sorted list has each card once.  `CardFigures`: since a row recommends one of at
  most three options, the minimum by which a card is filtered is the one it shows, and
  the yield is so before it is rounded.  `Rounding`: to round keeps an order and the
  side of a band's ends, except for the end itself.
  `PageHasCards`: an address past the end is clamped to a page that has cards whenever
  any match.  `RankTakesBest`: the shortlist is a part of the options that pass every
  hard answer, and none of those left out scores more.
- **Owners.**  No two transactions hold conflicting locks (`Exclusive`), and `ReqInv`
  says, for each operation, which locks it holds at each of its stages and what it
  therefore knows: the leads it has refreshed are all the agent's leads
  (`NoneMissed`), the profile it has checked is still active, the owners it replaces
  are those on record.  A lemma of stability says that a row somebody holds does not
  change under anybody else's step, so each conjunct survives others' steps for one
  reason.  That an agent's assignment holds the profile's lock until its commit, and
  that a demotion takes the same lock before it looks for leads, is then all that
  `LeadAgentsActive` needs; linking takes neither, hence `StaleOwnersAreCarried`.
- **Access.**  A request carries three kinds of knowledge.  What it *names* exists and
  goes on existing (`Names`).  What it *found* and nobody takes back (`Found`) rests on
  a lemma that accounts, users and claims only grow.  What it read *under its lock* is
  the row as it is (`RowLocked`), because writers of a locked row wait.  On these rests
  `PersonInv`, the conjunction per person: at most one open application, a credential
  behind every claim, an approved application only with an active and claimed account,
  and no live invite but the last.

Proved but not run on the instance, since the same theorems cover them: the type
invariants of these modules, `LedgerMatchesDone`,
`CarriedOutInScope`, `ClosedIsTerminal`, `ErasedOnce`, `SignedCopiesStay`,
`ApprovalStands`.

Only model-checked: `AddressSettles` (liveness under fairness is outside the prover's
reach).  Every other property of
the passing runs is a theorem.  Counterexamples need no proof.

What the proofs changed.  TLC takes the first alternative of a `CASE` that is true;
to the prover overlapping alternatives leave the value open, so decisions of the
code that go from first to last (`StaffDesk`'s roster, its panel and the chooser's
scores) are now written so that one alternative is true.  The failure of an
application request in `PersonalRecord` is told apart by what the request was doing.
The search for an invariant of `StaffDesk` showed that a lead's last activity was not
set by assignments, demotions and transfers; it is now.

## 6. What is not modelled

- Contents of forms and their validation beyond the classes that guards tell apart,
  money beyond what a threshold or a capacity compares, notes, the texts of emails,
  revalidation, presentation, migrations.
- Verification of signatures and parsing of callbacks; parsing of uploaded lists.
- Two-factor and sessions: kept by the authentication library.  The actions
  around it call the library and write audit rows; a reset locks the actor's row and
  then the target's, so two mutual resets wait for each other.
- Moderation of community spaces: one row at a time, with no invariant across rows.
- Portal pages: reads of one investor's own rows.
- The order of screenings by their time: `InterestConfirm` has a screening as one
  step, so what a confirmation sees is always the latest.
- Documents of assets, holdings and the platform, encryption, and who may download
  beyond what `StaffDesk` lists.
- Platform settings other than the pool switch.
- A role taken away while its request runs: in `Ownership` the actor's role is fixed
  when the request begins, as in the code.
- Postgres' detection of deadlocks: a transaction that waits may fail at any time.
- Suspended accounts: some code looks for them, no code sets an account to suspended;
  erasure too leaves the account's status and user as they are
  (`privacy/erasure.ts:115-134`).

`PROJECT.json` lists every component with its status.

## 7. Plan

Done, each with its proofs: `FourEyes`, `InterestConfirm`, `Distributions`,
`InterestIntake`, `Contracts`, `InvestorDocuments`, `Ownership`, `Applications`,
`PersonalRecord`, `PublicForms`, `StaffDesk`, `Catalogue`.

What would add most next:

1. An abstract specification of an invite as a one-shot capability, and `Applications`
   shown to implement it, as `FourEyes` is by the desk and the ledger.
2. The screening order: `aml/`, with the time taken before the lock, to be shown to
   implement the KYC and screening actions `InterestConfirm` assumes.
3. Agreements of more than one investor signer, once the code creates them.
