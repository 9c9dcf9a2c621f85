# Rondo Money in TLA+

Rondo Money is a zero-based envelope budget: accounts hold transactions, transactions land in
categories (envelopes), and whatever is in no envelope is Ready to Assign. This directory is the
formal companion of its code: modules that state what the API and the forms of the web client do
step by step, the TLC configurations that check them on small instances, and the proofs that
carry the central results to every instance. Paths below are relative to the repository root, `src/`.

Almost everything that can go wrong here goes wrong between two requests. Postgres runs every
write at READ COMMITTED, each write is several statements, and whether a check still holds when
the row is written depends on which lock was taken before which read. That is what the modules
keep: every statement that reads or writes shared rows is a step of its own, every lock has its
holder, and a transaction may end at any point without a trace. The web client adds its own races:
an answer that is lost, a key sent again, a reading older than what was just written.

## Inventory

| Part | Code | State it keeps | What makes it correct |
| --- | --- | --- | --- |
| mutation point | `apps/api/src/mutations` | idempotency keys with a fingerprint and a stored result | one effect per key, a replay that is true, nothing left behind by a failure |
| accounts, transactions, transfers | `apps/api/src/{accounts,transactions,transfers}` | account rows, records, mirrored legs | an archived account takes no write and holds nothing; an opening is frozen by the first record; legs stay mirrored; no deadlock |
| the feed of records | `transactions.service.ts` (list), `money-flow.tsx` | pages below a cursor | a row once, whole days, own writes shown |
| categories, groups | `apps/api/src/categories/categor{ies,y-groups}.service.ts` | rows, hidden markers, sort orders | what is hidden is empty, keeps its marker, and a group's marker leads back to its categories |
| moves | `apps/api/src/moves` | assignments per category and month | money is moved, never made, and never in or out of a hidden envelope |
| budgets | `apps/api/src/budgets` | budgets, the active mark | exactly one active, names distinct, nobody fails on an index |
| category goals | `category-targets.service.ts`, `target-window.ts` | goals with start, due and end month | one runs at a time, past months keep theirs, a closed one stays closed |
| paid marks | `category-paid.service.ts` | (category, month) marks | the answer agrees with the rows |
| request context and scoping | `apps/api/src/request-context`, `prisma`, `raw-sql` | per request: user, memoised active budget, open mutation | one budget per request, nothing written outside the mutation's client |
| budget copy | `apps/api/src/budgets/budget-copy.ts` | none | what is copied fits together |
| budget view | `apps/api/src/budget-view` | none (aggregates) | Ready to Assign plus envelopes is the money held; what a goal asks adds up |
| net worth | `apps/api/src/net-worth` | assets, liabilities | totals agree with rows |
| me, user settings | `apps/api/src/me`, `user-settings` | everything of a user | an erasure is whole or not at all |
| calendar and money | `packages/types/src` | none | months, zones and amounts are exact at their edges |
| web client | `apps/web/src` | forms, idempotency keys, cached reads | one opening of a form writes once; forms open on figures that hold what was done |
| database schema | `packages/db/prisma` | unique indexes, foreign keys | the last line of defence of the above |
| generated client, ui, auth, validation, openapi | the rest | none | plumbing |

How they interact. The web client mints an idempotency key when a form opens and sends it with the
form; the answer, or its loss, decides whether the key is kept and what is read again. In the API
a request enters through a controller, which gives the user to the request context. A read goes
straight through the scoped Prisma client; a write calls a service, which asks which budget is
active, and hands its work to `MutationService.run`. That opens one transaction, claims the
caller's key in it, runs the work and stores the result in the claim. The work asks again whether
the same budget is active, locks rows by raw SQL (`account-lock.query.ts`,
`category-available.query.ts`, `budget-lock.query.ts`), sums or reads, and writes through the
scoped client, whose extension adds the user and, from a memo filled at the first such call, the
active budget. Services share no memory; they meet in the rows and in the locks. So every API
module below is about the rows of one family of services, `MutationPoint` about what all of them
run inside, and `MoveDesk` and `FormDesk` about a client that relies on no more than what
`MutationPoint` is shown to promise: that a result and a recorded refusal are true. An error it
hears tells it nothing, for it may stand for a write that was made.

## Modules

### MutationPoint, ExactlyOnce, KeyProofs

`MutationPoint` is `MutationService.run`. An attempt is one call; its `phase` is where the call
stands, `draft` the claim its open transaction has written, `claims` and `applied` what is
committed, `answer` what the caller heard. Each awaited statement is an action: `TakeClaim` or
`KeyConflict` (the insert of the key, which waits while another transaction holds the same unique
value), `Work` or `RowConflict` (a work may break a unique index of its own, with the same error
code), `Settle`, `Commit`, `Respond`, and after a conflict the lookup outside the transaction:
`Replay`, `RefuseOther`, `Rethrow`. `Abort` is `run` throwing, in any phase: a refusal, a failure
or the transaction timeout before the commit, which leave nothing; after it a commit whose
acknowledgement was lost, or a stored result that `decode` will not take, which leave the write.
`Crash` is the end of the server or of the caller's connection, in any phase as well. Keys stand
for (user, key) pairs and requests for what the fingerprint identifies; the blank-key error and
what is decoded are left out.

`ExactlyOnce` is what an idempotent write promises without a word about transactions: of all
attempts under one key at most one takes effect, every result and every refusal speaks of that
effect, and an error speaks of nothing. `KeepsThePromise` says that `MutationPoint` implements it.

### AccountLedger, AccountLedgerProofs

One transaction of `AccountsService`, `TransactionsService` or `TransfersService` per element of
`Txs`. `op` is the operation; `want` and `held` are the accounts it has still to lock and has
locked, one row at a time in id order; `plan` says what every entry is to become; `written` are
the entry rows already written, which stay locked until the end. `ReadRow` and `ReadPair` read
the row to be edited *before* any lock, as the code does. `Alone` separates the operations that
judge an account (FOR UPDATE) from those that only write on it (FOR SHARE). `WriteRow` writes in
id order (`inLegWriteOrder`) and `Commit` publishes. Dates, payees and the category of a draft
are abstracted: a draft refused for one of them ends in `GiveUp`, which any operation may take
at any moment. The reads of the active budget are left out here; they are `ActiveBudget`'s.

### Envelopes, EnvelopesProofs

Categories, their groups, the money assigned to them and the records filed under them. A hidden
marker is named by the transaction that set it, since what matters of `hiddenAt` is which rows
share it. `ReadCategory`, `OpenGroup`, `ReadGroup`, `ReadInside`, `ReadRecord` and `ReadDraft`
are the unlocked reads, `Lock` one row of `lockCategories` or of the updates of an unhide,
`Judge` the sum over all months and the refusals, and the remaining actions the last write of
each operation together with its commit. `Checked` is the foreign key of a new record, which
waits for FOR UPDATE and for nothing weaker. Months are summed away, because a hide asks for the
sum over all of them. Names, looks, default accounts, the creation of groups and records without a
category are left out; sort orders are the functions of `Orders`.

### BudgetBook, ActiveBudget, CallerProofs

`BudgetBook` is the abstract specification: a book of named budgets of which one is open, with
three operations of one step each. `ActiveBudget` is the code: `TakeGate` is the advisory lock
keyed on the user, `HoldRows` the `SELECT ... FOR UPDATE` of the budgets, `Judge` the reads and
refusals, `Write` the updates and the commit, where both unique indexes are applied, so that a
run in which two requests got past the gate would show what an index does to them. A request that
writes into the active budget asks for it before the transaction (`Intend`), inside it (`Enter`)
and once more when the scoping extension needs it (`Resolve`); its new row's foreign key waits for
the budget rows (`Record`). A new row's share of that key lock is merged with its commit. What
`POST /budgets` copies from a template is `BudgetCopy`'s; here the template only has to be there.
The starter set is not modelled. `answer` is how the request that ended last ended.

### CategoryTargets, CategoryTargetsProofs

The goals of one category. `goals` has at most one row per starting month, as the unique index
demands. `ShownIn` and `LiveIn` are `activeInMonth` and `liveTarget`; `Kept`, `Replaced`,
`Overwrites` are the branches of `targetWrite`; `AfterSet` and `AfterClose` the rows they leave.
A request reads the month (`clock`) in `Enter`, waits for the category's row lock in `TakeLock`,
reads the history through the scoped client in `Read` and writes in `Write`. What it writes is
computed from what it read, and applied to the rows that are there. `home` says whether the
category's budget is the active one: `Seen` is the scoped read, empty when it is not. `Hide` is
a whole hide or unhide (they hold the same row lock from their check to their commit). The month
turns (`Tick`) and the user switches budgets (`Switch`) at any moment. A request that writes for a
month that has turned since it read it, or over the history of another budget (`strays`), breaks
what is claimed of goals (departures 4 and 5): from that write on (`overtaken`) nothing is.
Amounts are left out: no branch depends on one.

### RequestScope, ReadingProofs

One request: `BudgetOnce`, `Settle` and `Wake` are `budgetOnce`, its `then` and what waited for
it; `RunInMutation`, `UseBudgetSource`, `Returns`, `Throws` the marker and the source a mutation
opens and takes back; `Issue` an operation up to its first await with the refusals of the scoping
extension and of `ScopedRawRepository`; `Query` its statement. A *store* is the AsyncLocalStorage
scope an operation was issued in, a *client* the injected one or a mutation's transaction; both
outlive their mutation in whatever it left running. `SwitchElsewhere` is another request of the
same user. The caller's identity and the columns each Prisma operation is given are left out.

### Erase, CallerProofs

`MeService.erase` as its twelve deletes, row by row, each under a snapshot of its own. A writer is
any other mutation seen from the database: it claims its key, locks a row (`Hold`) or all a table
has (`Take`, as the creation of a budget does), inserts rows whose foreign keys lock or miss their
parents (`Insert`, `Check`), writes the one row of settings whether it is there or not (an upsert,
also by `Take`), and commits. `Refuses` is the restricting foreign key, `Deadlock` the victim
Postgres picks, on either side. Each writer may retry once under its key, and the erase may be sent
again. An erase whose own key another erase has deleted (`Loses`) is refused when it stores its
answer.

### BudgetView, MonthProofs

The statement of `budget-view.query.ts` and `targetProgress` as functions of the assignments and
the records: `Upto`, `Before` and `SinceStart` are its ranges of months, `ReadyToAssign` its pool,
`Answer` the four kinds of goal. Of a `Row`, `OfTheMonth` are the month's own numbers; Ready to
Assign and what is available over all time are the same whichever month is read, and a later
month's assignment changes them. The actions are the writes the sums are taken over: `Move`, `Keep`
(a create or an edit of a record) and `Drop`. Reading is one statement, so no step falls inside
it. Which rows are listed and their order, looks, paid marks and the month's instants in the
budget's zone are left out.

### MoveDesk, MonthProofs

The month screen (`budget-month.tsx`) while money is moved. `OpenMove`, `EditMove`, `CommitMove`,
`Retry`, `Dismiss`, `Discard`, `GoToMonth` and `BrowserHistory` are what its user does;
`Succeeds`, `Refused`, `Breaks`, `Mishears` (an error of a move that was made) and `Lost` the
answers, through `saveFailureKind`; `FetchReads`, `FetchLands` and `FetchFails` the reading of the
month, whose snapshot is taken at the server and lands later. A re-read begins a reading anew when
there are figures already and joins the one under way when there are none, as TanStack Query does.
`shown` is its cache and `onScreen` what the screen holds, which outlives the cache (`held` in the
code) and may be the month before's. `DropOrder` is a drag, which puts the new order into the cached
figures and so clears the error of their last reading; the refresh of `Dismiss` clears the cache and
every error in it, and keeps the screen. `SettlesElsewhere` is a drag, a mark taken off or an
envelope emptied as it settles, with any kind of failure. The ghost `astray` has the months whose
error was cleared in one of these two ways, `misheard` the keys that moved money and were answered
an error. The server is external: one effect per key, a repeated answer to a repeat, requests of one
key taken in the order they were sent.

### FormDesk, KeyProofs

Every other form that writes. A form is a record of its fields, each `free`, shut while `sending`, or
`held` once its request was lost, and of when it mints another key. A *desk* is one screen with its
forms, of which one is open at a time. `OpenForm`, `Type`, `Send`, `Close` are the reader's;
`Succeeds` and `Fails` follow the handlers of each screen (`EntrySaved`, `NameSaved`, `Swept`,
`StaysUntilRead`, `Settled`), `Mishears` is an error of a write that was made (remembered in
`misheard`), and `Channels` keeps the ledger's two failures apart. Answers arrive whether their form
is still open or not. Left out: what the fields hold beyond one of two intents, drag and drop, the
filters, routes and the onboarding gate.

### Feed, ReadingProofs

`TransactionsService.list` and the infinite query that walks it. A page is two statements
(`ReadRows`, `ReadTotals`) with no transaction round them; a walk reads page after page below the
cursor of the one before. `Answer` is a write's answer and `RereadList` the moment its
`rereadEntries` comes to the list, the accounts and the month having been read before it. `Reread`
begins the walk again with as many pages as are shown, and cancels what is in flight; while
there is no page yet it joins the first loading instead. `ReachEdge` asks for the next page and
cancels a re-read in flight. The ghost `missed` says that the last re-read asked for was joined or
cancelled in one of these ways. Records are written, re-dated and removed by this client
and by others meanwhile. One filter is in force; a record it does not take is `Gone`.

### Calendar, Amounts, PureProofs

The pure functions of `packages/types` and of the amount field. `Calendar` has months, the days a
database column stores, and the moment a month begins in a time zone, which is any function from
instants to offsets: `Candidates` and `RealOnes` are the three offsets `monthStartInstant` tries
and those that hold where they lead. `Amounts` has the texts of amounts (`toDecimalString`,
`parseDecimalString`, by sign, whole part, fraction and scale), rounding, and the sums and
products of the field (`readTerm`, `readProduct`, `Total`, `readAmount`) with their faults in the
order the code finds them.

### BudgetCopy, PureProofs

What a new budget takes over from a template, as sets of rows: `Groups`, `Categories`, `Accounts`
and `Live` are what is read, `WrittenGroups` to `WrittenOpenings` what is written, and `CopyOf`,
`GroupAt`, `CategoryAt` how a row just written is found again, by the order written into it or,
for accounts, by its place among the ids sorted. `AccountsMatch`, `CategoriesHang` and
`GoalsHang` say that nothing is attached to the wrong row.

### Orders

The order of categories and groups from a drop to its next reading: `reordered`, `shownOrder` and
`storedOrder` are the screen's (what is paid for is shown behind the rest, but keeps its place),
`wholeOrder`, `inWriteOrder` and `AfterReorder` the API's, `ReadBack` the order of the statement
that lists them.

These four are functions without a state. TLC evaluates what is claimed of `Amounts` and `Orders`
in the assumptions of `MCMoveDesk`, of `BudgetCopy` in those of `MCActiveBudget`, over every
small input; `Calendar`, parts of `Amounts` and `BudgetCopy` are also proved.

## Runs

Every run is complete: TLC explores all reachable states of the instance. Deadlock checking is off
where all attempts or transactions of an instance may have ended, or a bound stops its user, and
on elsewhere.

| Run | Instance | What it shows |
| --- | --- | --- |
| `mutation_point` | 3 attempts, 2 keys, 3 requests, 2 of which write one unique row | one effect per key, true answers, every attempt ends, refinement of `ExactlyOnce` |
| `ledger` | 3 transactions, 3 accounts, three books (records that stay, records and a transfer that move, one record edited and archived under) with the operations each gives room for | legs stay mirrored, an archived account is settled, a reconciliation settles exactly once, nothing lands on an archived account, an opening is frozen, no deadlock |
| `ledger_stale` | the third of those books | a record read before the lock can change an archived account (a finding) |
| `budgets_race` | 2 requests at once, 3 budgets, 3 names, every consistent book to start from | refinement of `BudgetBook`, one active, no failure on an index, everyone is answered |
| `envelopes_hide` | 3 transactions, 2 groups, 3 categories and a fourth to create, 14 operations | a hide and a move never cross, markers stay, what is hidden is empty, no deadlock |
| `targets_kept` | 2 requests at once, 3 months, a plain kind and one with a due month, with the month turning and the user switching budgets at any point | until a request is overtaken: history is kept, a closed goal is gone, one goal runs, nobody meets the index |
| `request_scope` | 3 operations of every kind, 2 budgets, one mutation that commits or fails | one budget scopes a request, a rolled-back one never does, writes stay in their transaction |
| `erase` | 2 writers, each with a retry, of eleven kinds of write | nothing half is left, a key that survives answers for rows that do |
| `budget_view` | 2 envelopes, 3 months, 3 writes, 6 goals of the 4 kinds | a dated goal is met by whoever follows it, in even shares; a month keeps its own numbers whatever is written later; all money has a place |
| `move_desk` | 2 months, 2 keys, 2 requests | one move per opening, one intent per key, forms open on fresh figures, saving ends |
| `form_desk` | 8 screens, 3 keys, 3 requests, 2 saves | one write per opening, no success told that was not, net worth opens fresh, an answer closes its own form |
| `feed` | 3 records (2 made at one moment), 2 days, pages of one, 2 writes, 4 fetches | rows nobody wrote to come once, days are whole, at rest own writes are shown |

Why the bounds are enough to be worth running. A race of these transactions needs two actors, a
circle of waiting or a read that has gone stale twice needs three; two suffice for budgets, whose
gate lets one through, and for goals, whose lock does. Three accounts let a transfer move from
and to an account that a third operation archives. Three months give a goal a past, a present and
a future; a dated goal is laid over one, two and three of them, with a remainder to round. Two
keys and two requests are a move sent, lost, and sent again under its key or under another; three
of each let a form that writes be sent again under a third, and two saves are what a form kept for
another record needs. Pages of one put every record on a page boundary. The
erase needs two writers for one to wait for it while the other commits. Amounts are small integers
chosen so that balances meet zero. The menus (`Menu`, `HideMenu`, `MCPlans`, ...) name every
operation a run may use, and are the only bound on what is asked. Symmetry is used only in runs
without liveness.

Three constants hold back what the code does not withstand, and each is named in the departures
below: `RetriesOnce` and `StaysPut` (MoveDesk, 11 and 12) and `OneAtATime` (FormDesk, 6). Where only
some steps break a property, those steps are in the run and a ghost marks what they broke, which the
property then excepts: `misheard` (9), `astray` (10), `missed` (7) and `overtaken` (4, 5). Without
its exception each of these properties is violated.

Two runs also evaluate assumptions about pure functions before they start. `move_desk`: rounding
is to the nearest, what the field shows is read back, a fraction is scaled or refused, a product is
rounded once, a drop is kept in the stored order, and a reordering reads back as it was sent with
the unlisted behind it (amounts up to 1010 at scales 1 to 1000, every list of four, every way
five rows can tie). `budgets_race`: every small template, with hidden and archived rows and
orders that tie nowhere, is copied with everything attached to its own copy.

Every property of a passing run has a mutant: a plausible mistake in the mapped definition
(marked `mutant of` in the module) under which the same run violates the property.

## Fairness

`MutationPoint!FairSpec` assumes weak fairness of `Progress` for each attempt: Node runs the
continuation of a settled promise, and Postgres wakes a waiter whose holder ended. Opening an
attempt, aborting and crashing are nobody's duty, so `EveryAttemptEnds` holds without the
transaction timeout. `ActiveBudget!Fairness` assumes the same of a request's own steps, and
strong fairness of the two lock waits, because Postgres grants an advisory or a row lock in the
order of its queue: a waiter cannot be passed over for ever by requests that come later.
`MoveDesk!Fairness` assumes of the browser that a reading is answered or fails and that a request
without an answer is given up in the end, and nothing of the server or of the reader; under that,
`Settles` says that the screen never stays frozen by a save or by a discarded one. The other
modules state no liveness; `AccountLedger` and `Envelopes` state instead that no set of
transactions waits in a circle (`NoDeadlock`).

## Proofs

Proved for every number of requests, keys, accounts, entries, envelopes, budgets, names, months,
kinds and amounts, from the assumptions the modules name on their constants (which TLC evaluates
in every run): identifiers are distinct from the marks for their absence, sets of rows and of
transactions are finite, ids of accounts and rows are ordered, an operation names what its endpoint
accepts, and a seed is a book the program can have written. No proof uses fairness. The properties
themselves are never inductive; each goes through an invariant that is.

- **KeyProofs**, the server: `TypeCorrect`, `EffectAtMostOnce`, `AnswersAreTrue`, `ClaimsAgree`,
  `ClaimsAreFinal`, `Refinement`. At most one effect needs three facts about who is where: whoever
  holds a claim is alone and before any committed one (`HoldersInv`), a committed work stands under
  its own claim (`AppliedInv`), and a claim points back at it (`ClaimsInv`). `AnswersInv` carries what
  a caller was told as a result or a refusal, `RowsInv` does for the work's own index what
  `HoldersInv` does for keys. Nothing is said of an error, which may follow a commit (the abstract
  `Fail` asks nothing of the effect). The refinement maps `asked` to `intent` and `reply` to `answer`.
- **KeyProofs**, the forms: `OneWritePerOpening`, `WhatIsToldIsDone`, `WorthOpensFresh`,
  `AnswersCloseTheirOwn`, `FormTypesHold`, each under `OneAtATime`. A write answered an error is not
  counted (`misheard`). A *mark* is what stands under a
  key anywhere: in a request, in the server's record, on the form. Marks of one key are of one save
  (`MarkInv`), and a save has at most one *live* key, one that has written or still may
  (`OnceInv`). What keeps that is that a form changes its key only once the old one can write no
  more, and each kind of form knows it for another reason: a held form by the failure it shows
  (`HeldInv`), a question because nothing can be typed into it, the name and the switch because
  their one request is the open form's (`HomeInv`, `NameInv`, `SwitchInv`); the others are the ones
  `WritesOnce` excepts. `WorthInv`: what is owed to the figures of net worth is in them, or a
  reading is on its way and holds the screen back. How a step may move the form is said once
  (`Steady`, `FormMoves`), and `MarksKeep` and `OnceKeeps` serve every action.
- **AccountLedgerProofs**: `TypesHold`, `LocksAlwaysHold`, `NothingEverLands`, `PairsStayMirrored`,
  `NeverInACircle`, `ArchivedStaysSettled`, `OpeningStaysFrozen`, `ReconciledIsDeclared`. Four
  layers. `IInv` is about account locks: a locked account is open and its lock excludes what it
  should (`HeldInv`), whatever a row is planned to become, its account is locked or still to be
  (`PlanInv`), and both stand on the order lock, judge, write (`QuietInv`). `RowInv` is about rows:
  fresh ids are unknown to everyone else (`FreshInv`), an edit leaves a row the leg, the opening or
  the record it was (`EditInv`), and a written row is its writer's until the end (`WrittenInv`).
  `PairInv`: whoever is about to write legs will leave each pair mirrored, since the first leg
  written keeps everyone else off the second. `SettledInv`: between a judgement and its commit the
  sum that was judged does not change.
- **EnvelopesProofs**: `TypesHold`, `HiddenMoneyStays`, `MarkersStay`, `NeverInACircle`,
  `EmptyWhenHidden`. `JudgedInv`: from its judgement on, what a hide or a move names is locked and
  shown; that needs that nobody but the holder changes a locked row's marker (lemma `Gentle`), which
  needs `KnownInv` and `PathInv` to say which operation can stand where. `EmptyInv`: what is about
  to be hidden is empty, which needs that a record about to be inserted is nowhere yet (`FreshInv`)
  and leaves out the edits of records that were there, as the property does.
- **Waiting** (both `NeverInACircle`). Locks are taken by id, so whoever waits for a lock waits for
  somebody who holds a greater one than any the waiter holds, or who is past the locks and waits
  for a row; written rows go by id as well. In a finite set of waiters somebody has the greatest, and
  there is nobody for them to wait for (`OrderInv`, and the maximum of a finite set).
- **CallerProofs**, the budgets: `OneIsActive`, `NobodyFails`, `KeepsTheBook`. `GateInv`: who is past
  the gate is alone. So what was judged still holds at the write (`JudgedInv`), the writes of a
  judged request satisfy both indexes (lemma `WritesFit`), and each commit is an operation of
  `BudgetBook`. `FreshInv` keeps the ids of creations under way new.
- **CallerProofs**, the erase: `NothingIsLeftHalf`, `KeysThatSurviveAnswer`. `SweepInv`: the
  statements so far reached every row that was there when the erase began, and of a write whose row
  one of them reached the later ones missed nothing. What is left of a write half of which was
  deleted therefore lies behind the statement that reached the other half; it points at a budget
  that is being deleted, and a foreign key refuses the erase (lemma `HalfIsRefused`).
- **ReadingProofs**: `TypeCorrect`, `OneBudgetARequest`, `RollbackIsForgotten`,
  `WritesStayInside`, `AbsenceIsForgotten`. The memo and the lookup in flight agree: as long as no
  mutation fails, whatever was filtered, or waits, was filtered by the one memoised budget or waits
  for the one lookup that may still fill it, and a superseded lookup can only answer those that
  already waited for it, with nothing. For a rollback: a lookup begun on a transaction belongs to
  a mutation that is still open or has been forgotten with it. For writes: only the marked store
  of the open mutation admits one, and it is handed no client but its own.
- **ReadingProofs**, the feed: `PageEdgesHold`, `TotalsAreOfWholeDays` and `OwnWritesAreShown`,
  without a hypothesis, and `NothingIsListedTwice` for a reader whose records nobody else writes. The
  last two are about rest, which a re-read joined or cut off does not bring (`missed`). A walk is
  proved about as one list, the pages laid end to end. `ListInv`: its rows are in order, those nobody
  wrote to since its first page are as the table has them, and none of these is missing down to its
  next cursor. A page read below a cursor is in order, older than the cursor and leaves out nothing
  down to its own next one (`PageIs`); a write only takes a record out of what is claimed
  (`WalkStirs`), and a landing page adds to it (`WalkGrows`). `DaysInv` says of each day that the
  first total found for it is of the whole day; `PageInv` says the same two of the page between its
  statements. At rest: once no answer has still to reach the list, a re-read under way was begun after
  the last one (`CaughtInv`); when nobody else writes, nothing was written since that answer's write
  (`OwnInv`), so what is shown is as it was read (`UnmovedInv`) and ordered rows of it cannot repeat.
- **CategoryTargetsProofs**: `HistoryStays`, `ClosedGoes`, `OneRuns`, without a hypothesis, whenever
  the month turns or the user switches; each speaks of the time before a request is overtaken
  (`RowsInv`). `ReadInv`: the lock makes the history a request read the history it writes over, or
  the request a stray. `LastRuns`, the heart: only
  the last goal started can be running. From it follow that the row a set edits is the only live
  one, that a close leaves none that could come back, and that no set meets the unique index.
- **MonthProofs**, the figures: `NoMoneyIsLost`, `ThePastStands`, `SavedWhenDue`. The pool is the
  money of the accounts less what the envelopes hold, sum by sum: in each month what is ready to
  assign, in an envelope or assigned to a later month is all the money there is by then.
  `ThePastStands` is about the month's own numbers. A dated goal asks each month for its share,
  rounded down, of what is missing over the months left. Whoever follows it (`Followed`, a recursive
  function, solved by induction on the month) is left after each month with what an even split leaves
  (`LeftAfter`), whose rounded-down share is the even one again (`SharesAreEven`), and the last month
  asks for all that is left.
- **MonthProofs**, the screen: `DeskTypesHold`, `OneMovePerForm`, `OneIntentUnderAKey` under
  `RetriesOnce`, `OpensOnFreshFigures` under `StaysPut` as well, a move answered an error
  (`misheard`) and a month whose error was cleared (`astray`) excepted. One request at most is without an
  answer (`CallInv`), it is the open form's (`FormInv`), a form has at most one live key
  (`OnceInv`), and what was sent under the form's key is what it still says (`IntentInv`). What is
  owed to a month is in its figures, or the screen knows why not, or the month is astray
  (`FreshInv`); what stands on the screen is what the cache has of that month, or the month is astray
  (`ScreenInv`).
- **PureProofs**: sums over a finite set first, `SumFunctionOnSet` being what balances and the view are
  made of: the empty sum, one element more or less, two sums that agree point by point, the sum of a
  sum. The community modules define them by choosing a function that solves a recursive equation, so
  that there is one has to be shown: by induction, stated over sets of numbers and taken from the
  well-foundedness of < (`WFMin`, `NatLessThanWellFounded`), since no induction rule that takes a
  predicate can be used. Then `MonthsAreAdjacent`, `MonthBeginsAtTheFirstInstant`, `BoundsAgree`,
  `DecimalsRoundTrip`, `RoundsToTheNearest`. For the moment a month begins: in a zone that turns
  once, the offsets a day before and a day after the wanted midnight are the two it has, so the
  candidates are the one or two they lead to; the one that holds is the midnight, the earlier of two
  that hold, and where the clocks skip it the later is the moment they do. That needs the offset to
  be within a day of UTC and the jump not to begin before midnight and end after it (`JumpsOver`).
  And `AccountsAreMatched`, `CategoriesFollow`, `GoalsFollow`, for every template that has ids and
  orders of its own (`IsTemplate`) and ids that ascend with what they were made for (`IsMint`, the
  version 7 of `uuid(7)`). The ids of the copies stand in the order of their accounts, so the one
  with n smaller ones is the copy of the account with n before it; the number of them is carried
  over by a bijection.

Hypotheses that are not about the constants' shape restrict the reader, and are those of the runs:
`RetriesOnce`, `StaysPut` and `OneAtATime`. Only `NothingIsListedTwice`, which no run checks, asks for
more, that nobody writes `Elsewhere`.

Every invariant and action property of the passing runs is proved. Only model-checked: liveness
(`EveryAttemptEnds`, `EveryoneIsAnswered`, `Settles`), which is beyond the prover, and `Orders` with
the sums and products of `Amounts`, whose recursion over sequences it cannot follow for every
input. `ledger_stale` shows what does not hold.

## Findings

`transactions.service.ts:219` (also 178 and `transfers.service.ts:228`): the row to edit is read
before its account is locked. If it moves and its new account is archived in between, the write
changes an archived account's balance (`ledger_stale`, two requests and an archive; the passing
`ledger` run states the same of every operation that was not overtaken in this way).

## Departures

What a document, a comment or a name in the code promises and the code does not do in some corner.
Each is a property of a module that no run checks because it does not hold, with the constants to
see it with, or what the exception of a checked property stands for.

1. `category-groups.service.ts:103`: two hides of one group both pass an unlocked check, and the
   second moves the group's marker away from its categories', which `unhide` then cannot find;
   api README 238: "Hiding what is already hidden is refused rather than repeated: a second marker
   would move the first" (`Envelopes!GroupMarkersStayPut`, with `Menu <- GroupMenu`).
2. `categories.service.ts:292`: a category is created in, placed into or brought back in a group
   that is being hidden, and stays shown inside it; line 297 refuses this because "a category put
   inside it would leave the screen carrying whatever it holds" (`HiddenGroupsHideAll`, same menu).
3. `transactions.service.ts:361`: a new record lands in a category hidden after it was read
   (`HiddenTakesNoNew`, with `Menu <- RecordMenu`).
4. `request-context.service.ts:103`: the active budget is looked up once more after the service
   resolved it, so one request can work in two budgets although line 74 says it "is resolved once per
   request" (`ActiveBudget!ResolvedOncePerRequest`, the constants of `budgets_race`). For goals this
   starts a second one beside the first, lets an older one come back after a close, or fails on the
   index (`CategoryTargets!OneGoalRuns` and `ClosedIsGone` without `overtaken`); a move's upsert
   (`moves.service.ts:147`) and a paid mark (`category-paid.service.ts:85`) stand on the same lookup.
5. `category-targets.service.ts:97`: the month is read before the lock is waited for; over midnight
   a goal is written into the month before, beside one a faster request has started in the new
   month, and what a month now past is shown changes (`OneGoalRuns`, `ClosedIsGone` and `HistoryIsKept`
   without `overtaken`).
6. `money-flow.tsx:253`: a late failure is shown by whichever form is open by then
   (`FormDesk!OpensClean`, with `Desks = {"ledger"}`), and a late success on the ledger and the
   month screens closes whatever form is open (why `ClosesItsOwn` leaves those two out, and
   `OneAtATime` is assumed of their readers).
7. `money-flow.tsx:145`: the watcher of the list's edge fetches the next page over a re-read in
   flight and cancels it; and `reread-entries.ts:16`, while a first page is loading, joins that
   loading, whose rows may be older than the write. At rest a record just written can then be missing
   or listed twice, although web README 173-174 calls this "what a written record makes stale, reread
   the same way by every screen that writes one" (`Feed!CaughtUp` and `RowsOnceAtRest` without
   `missed`).
8. `target-progress.ts:43`: after money was taken back from an envelope a goal can ask for money
   although nothing of it remains (`BudgetView!NeededOnlyWhileUnmet`);
   `budget-view.response.ts` says of `needed` "What is still to be assigned this month for the
   goal to be met".
9. `mutation.service.ts:95`: `$transaction` also rejects when the commit went through and its
   acknowledgement was lost, and `decode` at 110 can throw after it, so an error is answered for a
   write that was made. The forms take every such answer for one that wrote nothing and mint another
   key (`save-failure.ts:38`; web README 190-191, of the erase's key: "a lost request keeps its key and a
   recorded refusal does not", and this answer is neither): the same press again writes twice
   (`MoveDesk!NoDoubleMove` and `FormDesk!WritesOnce` without `misheard`).
10. `budget-month.tsx:892` and `:915`: a drag's `setQueryData` clears the error of a failed reading and
    leaves its stale figures, and the refresh at 558 clears it while the old figures stay on screen.
    The screen then no longer says "The month did not load. Reload the page." (`en.ts:40`), `openMove`
    no longer returns early on `behind` (509), and a form opens on figures older than a move the
    reader was told of (`MoveDesk!FreshOpen` without `astray`).
11. `budget-month.tsx:547`: the banner's Retry sends the lost move again without asking whether it is
    being sent already, and its button is not disabled. Pressed twice, an error in answer to the first
    lets the form go on under another key while the second is still out, and the money can be moved
    twice (`NoDoubleMove` with `RetriesOnce = FALSE`).
12. `budget-month.tsx:228`: a move's answer re-reads the month on the screen by then, and waits for no
    other. A month left before its write has settled keeps its figures, and a form opened on coming back,
    before it has been read anew, is filled from them (`FreshOpen` with `StaysPut = FALSE`).

Smaller observations made while modelling, without a property: a category's or a goal's dialog
never changes its key, so a lost answer followed by a changed field is refused as another
request's for as long as the dialog is open (`target-dialog.tsx:98`); the forms of onboarding and
the name of a budget do mint another key after any failure they show, the lost answer included,
once something is typed, which is why `WritesOnce` excepts what was retyped; a write that commits
behind the erase's statement over its table survives while its key does not, so its retry is made
again; a budget created while the erase is between its statements over budgets and over settings
outlives it, while the row of settings written with it does not; assigning ahead in later months
is not seen by what an earlier month is asked for; and where clocks jump from before midnight to
after it (say from 23:30 to 00:30), `monthStartInstant` answers a later instant than the first that
the new day has, which is why
`MonthBeginsAtTheFirstInstant` excludes `JumpsOver` (packages/types README 64-69: it "answers with
the first instant that day does have"; no zone in use today jumps so at the start of a month).

## Not modelled

- **Paid marks**: one row under the goals' lock; what is hard about them is departure 4.
- **The starter set** of a budget without a template is a constant list, and the assets and
  liabilities a copy takes along are copied by name alone.
- **Net worth** (API): single-row writes under an idempotency key and totals of one statement. Its
  screen and its erasure are in `FormDesk` and `Erase`.
- **User settings** beyond their one row, whose upsert and deletion are steps in `Erase`: what the
  row holds, and the creation of it on the first read.
- **Names, looks, default accounts** of categories and groups: no other state depends on them. The
  transactions of the two reorderings: `Orders` has what they write; two of
  them at once write their rows in the order of their ids, so they do not wait in a circle.
- **Texts** of dates and amounts: their patterns, groups of digits and locales. The rules of time
  zones are data of the runtime; 64-bit overflow of amounts is excluded by validation.
- **Web client** beyond its forms and its feed: rendering, translations, routes, filters, drag and
  drop, the gates of onboarding.
- The component library, the API client and the OpenAPI document (generated), token verification
  (Clerk's), DTO validation (declarative) and the migrations.

The definitions stand for about a seventh of the repository's lines. A quarter of the rest is
generated (client, types, schemas), and nearly all that remains is without a state that outlives a
call: markup and styling, three tables of messages, controllers, DTOs, responses and decoders.

`PROJECT.json` lists them all with the reason. Postgres is modelled from how the code uses it:
READ COMMITTED statements, row locks and their conflicts, foreign keys taking a share of their
parent's key, unique indexes that make a second insert wait for the first.

## What could follow

An abstract account book of one-step operations with `AccountLedger` as its implementation, as
`BudgetBook` is for budgets; the two hazards of groups that no property covers, once the checks of
`category-groups.service.ts` are made under a lock; paid marks and net worth as modules, for what
their screens assume of them.
