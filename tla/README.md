# Verification of wandrly-backend

TLA+ models, model-checking runs and machine-checked proofs for the wandrly API: a trip planner's backend
with a shared expense ledger, collaborative itineraries, invitations, public links and background jobs
(TypeScript, Express, Drizzle over PostgreSQL at READ COMMITTED). `src/...` below is the repository;
`PROJECT.json` holds the same facts in a form tools can read (runs, mutants, the map from definitions to source
lines, findings, hazards, theorems).

## How the system is put together

An HTTP request passes `validate`, authentication, `withTripAccess` (which loads the caller's role and participant
id **once**, before any transaction) and, on six mutating routes, the idempotency middleware. The handler is a
method of a service; most open one transaction (`withTransaction`), read, decide, write and append an activity row,
and broadcast to the realtime hub after the commit. Nothing in the code uses SERIALIZABLE: what two handlers can do to
each other is decided by row locks, by constraints, and by two deferred triggers. Jobs (pg-boss, or a cron route)
purge and sweep at night.

| part | state it keeps | operations | what is hard about it |
|---|---|---|---|
| ledger (`modules/ledger`) | `trip_participants`, `expenses`, `expense_shares`, `expense_payments`, `settlements` | add / remove / reassign participant, create / delete / restore expense, record / confirm / void settlement | six-statement reassignments interleaving with creations; reads that decide a later write; rows changed while an expense is deleted |
| money layer (`money`, `split.resolver.ts`) | none | allocate, convert, resolve a split, simplify, pairwise debts | leftover units, refunds, adjustments, two currencies |
| ledger invariants (`drizzle/0003`) | deferred triggers, CHECKs, UNIQUEs | run at COMMIT | what they do not look at: deleted expenses, restored ones |
| idempotency (`platform/http/idempotency.ts`) | `idempotency_keys` | claim, look up, store, release, purge | every statement can fail, retries overlap, instances die |
| policy (`platform/policy`) | none | `can(access, action, resource)` | -any and -own variants; access loaded before the transaction |
| canvas (`modules/canvas`) | variants, days, blocks | fork, promote, delete variants; add, delete, copy, reorder days; add, edit, move, reorder, delete, restore blocks | only day numbers have a lock, only an edit has a version; promotion racing deletion |
| collaboration (`modules/collab`) | members, invites, comments, suggestions | change role, transfer ownership, remove, invite, accept, decline, revoke, review, withdraw | exactly one owner; placeholder claims; half of the handlers have no transaction |
| trips (`modules/trips`) | trips, folders | create, update dates, delete, restore, duplicate, file, archive, look up | date changes against day edits; copies of a plan that moves; a folder of one person on a row of all |
| sharing (`modules/sharing`) | share links, guest comments | publish, change settings, revoke, resolve, comment | a settings change writes back the whole row; the page and the editor have each their own main plan |
| notifications (`modules/notifications`) | notifications, preferences | notify, unsubscribe, sweep the digest | reads members, then preferences; rows staged in a transaction |
| realtime (`platform/realtime`) | rooms of sockets, in memory | register, broadcast, deferred broadcast, clean up, shut down | events and commits; a room replaced under a handler that still refers to the old one |
| panels (`modules/panels`) | packing items, notes | add, tick, delete, seed; save the notes | seeding twice; the first save has no version to compare |
| media (`modules/media`, `platform/storage`) | `media_assets`, objects in a store | upload, import from a search, remove | two systems and no transaction over both; a quota read early |
| jobs (`platform/jobs`) | none | purge, sweep, reconcile, refresh rates | one statement that fails as a whole |
| places, maps, search, exports, auth, email | caches | see `PROJECT.json` | input and output outside the core |

## What is right, part by part

* **Ledger.** An expense's shares and payments sum to its amount; balances of a trip sum to zero; a settlement is a
  positive transfer between two people and its history is permanent; a removal loses nobody's money.
* **Money.** No split loses a minor unit; a weighted split is fair; suggested transfers clear the balances.
* **Idempotency.** One key, one change; an answer reports a change that was made; a retry finds the answer.
* **Canvas.** Days of a variant are numbered 1..n, and only a reorder changes their order; nobody's edit of a block is lost;
  no expense points at a deleted block; the order of a day is settled. The two records of the main plan agree.
* **Collaboration.** A trip has exactly one owner; each member is somebody in the ledger; an invitation, once answered, keeps
  its answer; a suggestion is decided once and makes one block.
* **Trips.** A copy has every block once; what is deleted can be restored for thirty days and then goes; a trip lies in a folder of
  its owner's, and a member who looks it up finds it.
* **Sharing.** A closed link opens only to somebody who asked for that; a page shows the plan the editor shows.
* **Telling people.** An event follows its commit, once, and reaches each connection that was there; nobody is notified of what
  was rolled back or of what they did themselves, or mailed once they have unsubscribed.
* **Panels and media.** No text of the notes is lost; the starter list comes once; rows and bytes agree; the quota holds.

Several of these the code keeps only as long as requests do not overlap. The properties then say exactly which
overlap breaks them (a request that was *overtaken* between its read and its write), so that anything else that
broke them would be found.

## Modules

| module | models | variables |
|---|---|---|
| `Policy` | `actions.ts` MATRIX and `policy/index.ts` `can()`: `May`, `MayOn` | none |
| `Sums` | no code: the laws of sums over finite sets that the proofs on amounts and sizes use | |
| `Ledger`, `LedgerProofs` | `ledger.service.ts`, `ledger.repository.ts`, the triggers and constraints | `person`, `expense`, `row`, `settlement` are the tables; `pc`, `job`, `wrote`, `draft` are the open transactions; `undone` is history |
| `Money` | `currency.ts`, `allocate.ts`, `split.resolver.ts` as operators | none |
| `SettleUp` (uses `Money`), `SettleUpProofs` | createExpense after createExpense, balances, both settle-up algorithms, recording advice | `bills`, `settled`, `attempt` |
| `OnceOnly` | the promise of an idempotency key, abstractly | `ask`, `applied`, `exposed`, `reply` |
| `Idempotency` (proofs in `LedgerProofs`) | the middleware around a handler; it implements `OnceOnly` | the same, and `entry`, `stage` |
| `DayNumbers`, `DayNumbersProofs` | day operations of `canvas.service.ts`, the date strategies of `trips.service.ts`, the UNIQUE on numbers | `number`, `lock`, `job`; `raced` and `drifted` are history |
| `Membership` (uses `Policy`), `MembershipProofs` | members and invitations of `collab.service.ts`, the rows `trips.create` makes | `role`, `ownerId`, `listed`, `holder`, `active`, `invite` are the tables; `job`; `displaced`, `late` are history |
| `Variants` (proofs in `SharingProofs`) | plans of `canvas.service.ts`, the link and the page of `sharing.service.ts`, what `duplicate` copies of the main plan | `variant`, `pointer`, `link` are the tables; `job`; `torn` is history |
| `Canvas`, `CanvasProofs` | blocks of `canvas.service.ts`, suggestions of `collab.service.ts`, the block of an expense | `present`, `row`, `suggestion`, `expense` are the tables; `job` |
| `Trips` (proofs in `PartsProofs`) | delete, restore, duplicate, fork and the purge job | `trip`, `present`, `block`, `place` are the tables; `purge`, `job` |
| `Shelf` (proofs in `PartsProofs`) | folders, the archive, owners, `findForUser` | `tour`, `cabinet` are the tables; `client`; `astray` is history |
| `Publication` | what a trip's realtime channel promises, abstractly | `committed`, `announced`, `heard` |
| `Delivery` (proofs in `SharingProofs`) | a comment, `activity.service.ts`, `hub.ts`, the digest sweep; it implements `Publication` | `members`, `mail`, `change`, `rows`, `room`, `conns`, `socket`, `heard`; `overtaken` is history |
| `Media` (proofs in `PartsProofs`) | `media.service.ts`, `image-search.service.ts`, the store | `asset`, `bytes` are the two systems; `results` is the cache; `creation`, `removal`; `history` |
| `Panels` (proofs in `PartsProofs`) | `panels.service.ts` | `item`, `notes` are the tables; `seen`, `save`, `task` |
| `MC...` | instances for TLC | |

**Conventions.** In most modules a request reads in one step and commits its writes in a later one (`job[r]` holds what it has
read), which is what READ COMMITTED without locks amounts to; where other statements can meet it in between it has more
steps. A flag `overtaken` in a job says that another request committed since the read. It, and every variable
called history above (and `doubled`, `faulty`, `emptied`, `due`, `muted`, `audience`, and `of` in a block), does not exist in the
code: it decides no step and only lets a property speak of the past. A request that fails or is
refused goes back to rest without a change.

**Composition.** `Membership` takes the role matrix from `Policy`, `SettleUp` the arithmetic from `Money`. `Delivery` puts
members, preferences, a transaction, the notifications and the hub together, `Canvas` blocks, suggestions and expenses,
`Variants` plans and links, `Trips` plans, trips and the purge. `MCParts` puts `Trips`, `Shelf`, `Media` and `Panels` into one run although
they share no state: its variable `part` names the one whose steps a behaviour takes, so the state spaces add up instead
of multiplying and each is explored in full. Of `Panels` and `Shelf` it takes the two halves (packing and notes, filing and
finding) separately, as neither reads what the other writes.

### Ledger

A handler that reads first and writes later is a request with a program counter: `addParticipant` and `createExpense` count
and read in one step and insert in another; `removeParticipant` reads the balance, or runs the statements of
`reassign` one by one, and deactivates. `wrote[r]` are the share and payment rows an open transaction has written: their
locks. A statement that meets a lock waits (its action is disabled); `update ... from` is two steps because at READ
COMMITTED its join sees the statement's snapshot while a locked target row is read again in its latest version. `Abort`
stands for every error, deadlock and lost connection. Handlers that decide and write in one guarded statement are one action.

The deferred triggers and COMMIT are one step. That is sound here: two transactions never hold a written cell in common,
so each one's change of a sum is the same whether or not the other has committed, and the trigger of each demands that the
sum is right with its own change. The amounts are base-currency amounts; the native ones obey the same statements and sums.

### Money and SettleUp

An allocation is a function from participants to integers; ids are integers because the code breaks ties by comparing
ids. A rate is a fraction. `CreateExpense` keeps the outcome of the resolver in `attempt` whether or not the
database accepts it, so a property can speak of what the resolver produced. `RecordSuggestion` is a member paying one
suggested transfer and recording it. The bodies are those the contracts and `assertParticipantsBelong` let through
(`IsBody`): people on the trip, each named once, a total that is not zero, weights that `allocate` does not refuse.

A sorted list is the one list of a set in the code's order (`Listed`: largest first, then by id in `Ranked`; by id in `ById`). The two
loops are recursive functions of the number of turns: `Matched` repeats `Turn`, the `while` of `simplify`; `PairwiseOf` repeats
`Draw`, the `for` over the sharers of `pairwiseDebts`. `Simplify` gives no advice where `assertBalanced` throws.

### Idempotency

Each statement of the middleware is a step, and each may fail the way the code's catch blocks expect. A body stands for the
request hash, a key for `userId:key`. `stage` is how far the middleware has come with a request. `exposed` collects the keys for which the code openly gives the promise up: a run
without a claim (claim or look-up failed, or the look-up found no row) and a COMMIT whose acknowledgement was lost.
`Crash(S)` ends an instance with the requests it serves.

### DayNumbers

`number` is the column `days.day_number` of one variant, 0 where there is no row. `lock` is the variant's row taken FOR
UPDATE by `lockVariantForNumbering`; `job[r]` is what a request is doing and what it has read. addDay counts under the
lock. deleteDay and duplicateDay read their day's number **before** they take it. reorderDays and a change of trip
dates (TRUNCATE, EXTEND) never take it; only EXTEND waits for it, because the foreign key of a new day takes the
variant's row FOR KEY SHARE. A renumbering UPDATE or DELETE chooses its rows in one step (its snapshot) and tests its condition
again when it writes them, which is part of `Commit`, with the deferred UNIQUE check. The one row lock that another
request meets before that is the deleted day's (`Held`). A date change needs the version the client sent to be the latest
(`current`). A length of 0 stands for an end before the start: neither leaves a day.

`raced` and `drifted` do not exist in the code; they say when a promise is off: a lockless renumbering committed under the
lock, a request committed on a count, a match or a number that no longer held. A reorder that names every day clears `drifted`.

### Membership

The access of a request is loaded when it starts, with the role its caller has then. `changeRole`, `removeMember`, `sendInvites` and
`declineInvite` have no transaction, so each of their statements is a step; `transferOwnership` and `acceptInvite` have one,
and a step is what lies between two statements another request could see or influence. A member row is followed by an
identity in the ledger: a participant row of one's own (`listed`) or a placeholder somebody had added by name
(`holder`). Once made, a participant row stays when its member is removed, and `participants_trip_user_uq` then refuses
a second one: the acceptance that would bring that person back is aborted by the constraint.
Whoever answers an invitation, or its expiry, makes the requests that had found it open `late`: they write their own answer by the
row's id all the same. A request that finds it closed is not late, it is refused; `ClosedInvitesStayClosed` fails if it is not.
Time (`Expire`) and the ledger's deactivation of a placeholder are actions of their own.

### Variants

The main plan is kept twice: `variant[v] = "main"` is `is_main`, which the editor reads, `pointer` is `trips.main_variant_id`,
which the public page reads. `promoteVariant` reads the main rows and clears those; the partial unique index and the foreign key of
`pointer` (ON DELETE SET NULL) are part of the commits. `upsertLink` writes back every field of the row it read, so
`patch` holds that row as it will be written. `duplicate` copies the trip with the pointer it read in one statement (`named`) and the marks
it reads in the next; a copy whose source changed its pointer in between is `torn` until a plan of it is promoted. The
module follows one trip, and where it is duplicated goes on with the copy or stays with the source: the plans keep their names, the links stay
behind. `Lapse` is the passing of a link's expiry. `PagePlan` and `EditorPlans` are what
the two readers make of the tables.

### Canvas

No statement asks for a lock. Only `updateBlock` compares a version; a move, a reorder, a deletion and a restore name rows by id. `sort` counts in units of
`SORT_STEP`. A move and a reorder carry the list they computed from what they read; two that rewrite the same rows meet on
the row locks and commit one after the other. A deletion is two UPDATEs: `DeleteUnlink` is the second one's view of the expenses, and
until `DeleteCommit` nobody sees the block deleted, other writers of the row wait (`Held`), but an expense that points to it goes in, as the
foreign key asks for a weaker lock. `review` reads the suggestion's status, then
writes block and decision. `DropDay` is the deletion of a day, which takes its blocks with it. `Blocks` are ids: one of a row that
went with its day may be drawn again, but not while a request still names it (`FreeIds`), since the code never draws an id twice.

### Trips

`block[b]` and `trip` go from live to deleted, expired (more than thirty days) and gone. The purge is two steps, the snapshot of
its statement and its writes; it fails as a whole when a trip goes with it, because the cascade meets the append-only trigger of the
activity log, and every trip has at least the event of its creation. A fork reads the blocks of all selected days in one statement, a duplicate day by
day: `left` are the days to come, `copies` counts what has been copied. `there` and `still` are the blocks that stayed where the
copy could see them, or did not move at all.

### Shelf

A folder is one person's (`cabinet`), `folder_id` is one column for all members of the trip. Filing is a check of the
folder, a check of the trip and a write, each a step. `findForUser` asks the dashboard, the archive and the
shared view one after the other. `astray` records how a trip came to lie in the folder it lies in.

### Delivery and Publication

A change is a comment. A member's is made in one transaction: `notify` reads the members (`told`), then the preferences, and stages
notification rows (`staged`), once for the crew and once for whom the comment mentions; the transaction commits, and its
event is flushed afterwards. A guest's comment is in no transaction: it is in the database at once, and telling the crew may fail. The process may
stop anywhere, also between a commit and its flush (`lost`).

The hub is modelled by reference, as in JavaScript: `room` is the Set object the map holds, `conns` what each object contains, and each
socket's handlers keep the object they were made with. `cleanup` runs on error and again on close. `Publishes` says that an event follows
its commit, once, and that nobody hears of a change that was rolled back; `HearUnlessOvertaken` says who must hear it.

### Media

An upload is a read of the quota, a put into the store and an insert; an import looks for an earlier import first and downloads. A
removal deletes the bytes, then the row, and goes on when the store refuses. A request may die between any two of these.

### Panels

An item is ticked by a write that follows a read. Seeding counts, or deletes what it saw, and inserts in two statements.
`notes` pretends to be at version 1 when there is no row; the first save inserts, and the primary key lets one of two through. `seen[m]` is
what a member was last given.

## Runs

| run | instance | shows | outcome |
|---|---|---|---|
| `ledger` | 3 participants, 2 expenses, 1 settlement, 2 requests, an owner and a contributor, three bills | balances are answerable, an expense never restored stays balanced, settlements sound and permanent, removals conserve | 141 000 states, passes |
| `settle_up` | 4 people, some seventy bodies over five methods and two rates, up to 2 expenses and their settlement | exact, fair splits; advice that clears and converges | 17 000 states, passes |
| `idempotency` | 3 requests, 1 key, 2 bodies, every fault | refines `OnceOnly`; answers stored first; abandoned claims freed | 141 000 states, passes |
| `day_numbers` | 5 ids, 2 requests, up to 3 days, lengths 1 and 3 | what the lock protects, when numbers are contiguous, only a reorder reorders | 29 000 states, passes |
| `membership` | 3 accounts, 2 invitations, 1 placeholder, 2 requests, a limit of 2 members | how ownership is lost, who is in the ledger, that only a late answer changes an answer | 3 900 000 states, passes |
| `variants` | 3 plans with a limit of 2, 2 links, 2 requests | the two main plans agree but in a torn copy; when one is lost; when a link opens | 1 100 000 states, passes |
| `canvas` | 2 blocks, 2 days, 1 suggestion, 1 expense, 2 texts, 2 requests, 1 block per day | no edit is lost; a suggestion points to what it made; which overlaps leave dead links, second decisions, ties | 1 800 000 states, passes |
| `parts` | 2 blocks, 2 days, 1 copy; 2 people, 2 trips, 1 folder, 2 requests; 3 assets, 2 owners, 1 photo, 2 calls; 3 items, 2 members, 4 versions, 2 tasks | exact copies; folders of owners and found trips; store and database; seeding and notes | 404 000 states, passes |
| `delivery` | 2 users, 1 comment, 3 sockets | who hears and who is notified; refines `Publication` | 697 000 states, passes |
| `restore` | as `ledger`, 1 expense, 3 requests, only the owner | a restored expense can be live and unbalanced | violated |
| `purge` | 1 block, 2 days, 1 request, with fairness | an expired trip keeps every other row from being purged | violated |
| `rooms` | as `delivery`, 2 sockets | a live socket is left out of every broadcast | violated |

**Bounds.** Two requests are the least that overlap, and each handler here decides on one read, which one other request can
make stale; a request that finishes starts again, except in `Ledger`, where each runs once, so longer histories occur. (`restore` has three, as a removal must
overlap a removal and a third request restores.) Three participants or accounts are the least with a person removed,
a successor and a bystander; two expenses let one transaction write both; bills hold uneven payments, a refund and a bill
the triggers must refuse. In `settle_up`, totals of 10 and rates 1 and 1/3 make every kind of remainder occur, and two expenses give
chains of debt. Three requests under one key are the first with which a release, a late look-up and a new claim meet. In
`day_numbers` three days are the least with a day before, at and after the one that moves, and `Highest` caps a number, as each stale
request can widen a gap; with `Highest` at 4 there are 416 000 states and it passes as well. A limit (members, plans, blocks per day, quota) is one
below what the ids allow, so that it is met and, by overlapping requests, passed. `variants` has a plan to spare over
that, the least with which a plan is deleted and one made while two are there. In `canvas`, versions and places go up to 2: one edit overtaken by another, two blocks out of order.
Three sockets are one that fails, one that opens the next room and one that suffers. Three assets are
two imports of one photo and an upload. `Batches`, `Grants`, `Settings`, `MaxSize`, `MaxVersion` and `MaxSort` bound what one request may ask. Larger instances
were tried once where the run leaves them out: two folders in `Shelf` (3 300 000 states), two photos in `Media` (943 000); both pass.

Symmetry sets are used only with safety properties and action properties over whole sets; `idempotency` and `purge`, which have
liveness, use none. Deadlock is not checked where requests come to rest or ids run out (`ledger`, `settle_up`, `idempotency`, `day_numbers`,
`membership`, `parts`); elsewhere it is.

`TypeOK` is checked by the runs `ledger`, `day_numbers` and `delivery`, as `CallsTypeOK` by `idempotency`, and proved for every module
that has one; adding it to another cfg checks it there as well. What the tables of `SettleUp` hold is part of its proved invariant
(`BooksSound`), which says more.

**Fairness.** `idempotency` assumes that every callback that can run does run (Node's event loop) and that the purge runs every night
(pg-boss). `purge` assumes that the cron tick keeps coming and its statement ends (`WF` on its two steps). Nothing is assumed of
clients, and no other run assumes anything.

**Refinement.** `Idempotency` implements `OnceOnly` (`KeepsPromise`, checked and proved) and `Delivery` implements `Publication`
(`Publishes`, checked and proved): `committed`, `announced` and `heard` are read off the state of each change and of each socket.

## What is proved

TLAPS proves every invariant and every action property of the passing runs, and both refinements, for every value of the constants;
what remains is liveness (see the end). The theorems rest on the
named assumptions beside each module's CONSTANTS: the null values are no ids, limits are numbers, and (`FiniteAssumption`, or `IsFiniteSet` in
`ConstantsAssumption`) the sets that are counted or summed over are finite. Nothing is assumed of how many requests, people,
plans, days or blocks there are. Each theorem has the same outline: the invariant holds initially, every action keeps it (a lemma for each action or
group of actions), it implies the property.

What makes these invariants inductive is always the same question: what does a request still know of what it read some steps
ago? The answer is one conjunct per module, given in bold.

**Sums.** The fold the modules sum with takes an element off at a time, whichever `CHOOSE` gives. The library proves nothing about it, and its induction over finite
sets takes an operator; so `Sums` proves an induction of its own, on a set of subsets (`SubsetInduction`), that the sum does not depend
on which element is taken off first (`PartialSplits`), and from it the laws: splitting, equality, addition, order, parts, a bound, exchange.

**Ledger.**
* `LedgerTypeOK`, one action at a time; the statements of `reassign` share lemmas about `Write`.
* `LedgerSettlementsSound`: CHECK `settlements_distinct` is what carries the step of a reassignment.
* `LedgerHistoryPermanent`: only confirm, void and reassign touch an existing row, and the first two demand an open one.
* `LedgerBalanced`: `UntouchedExpensesBalanced` is inductive with `TypeOK` alone: an expense whose rows a commit does not
  change keeps its sums (`SameSum`), one whose rows it changes passed the trigger.
* `LedgerNeverRefuses`: with every live expense balanced, what all people paid and what all owe are both the sum of the live totals: summing by
  person or by expense is the same (`SumExchange`, `TotalsMeet`). What is sent and what is received are both the sum of the open settlements
  (`MovesMeet`), since **both ends of a settlement are people** (`EndsKnown`), also after a reassignment. So the nets cancel (`NetsCancel`).
* `LedgerRemovalConserves`: the nets cancel before a removal commits and after it (the triggers have passed: `CommitBalanced`), and it
  **has written rows of its two people only** (`WroteKnown`), so nobody else's net changes (`OthersKeep`); what is left, the joint net of the two, is the same.

**Money and SettleUp** (`SettleUpProofs`). The assumption here is that request bodies are those the contracts let through.
* `AllocateExactAndFair`: the parts come to the total, are within a unit of their proportion and follow the weights. The
  remainders, ties broken by id, are a strict total order (`RemaindersOrdered`), and such an order places n people on 0 .. n - 1,
  one each (`PlacesFill`). The units left over are fewer than the people (`LeftoverSmall`), so giving one to each of the first places gives out
  exactly those units (`ExtraSums`).
* `SplitsAlwaysExactAndFair`: each of the five methods yields exact shares in both currencies (`ResolveSplitExact`), payments likewise
  (`ResolvePaymentsExact`). What carries it through the state is **that `attempt` is what the resolver made of some body** (`AttemptSound`).
* `SimplifyWorks`: on balances that cancel, the greedy loop squares everybody, by positive transfers from debtors to creditors and fewer than
  people with a balance. Two invariants over its turns (`LoopSound`, `MadeSound`): **the debtors left hold together what the creditors left
  hold**, whoever was passed over is square, the transfers made account for what each person has moved, and they are fewer than the places passed.
  Equal sums are why the two lists run out together (`DoneTogether`), so the code's check of both pointers leaves nobody behind.
* `BooksSound` is the inductive invariant of the tables: **every stored expense is amounts of people on the trip, in the base currency its shares and its
  payments both come to its total**. It makes the balances cancel (`BalancesNetToZero`), so `assertBalanced` never throws here.
* `SuggestionsAlwaysConverge`: a recorded suggestion is at most what its two ends owe and are owed.
* `MatrixExact`: what `ledger.service.ts:727` claims, "both dimensions come out exact by construction", is true of every expense of one sign: each
  sharer's row of the matrix is their share and each payer's column their payment, whatever the rounding. The invariant of the loop over
  the sharers (`DrawSound`): **what the payers have left is what the sharers to come owe**, and nobody's part is below zero. The hard lemma is
  that a portion is never more than its payer has left (`AllocateFits`, `PortionFits`).
* `AdviceAlwaysClears`: both algorithms. For unsimplified advice, netting the pairs changes nobody's total (`SumPairs`, `NettedMoves`), so a person's
  transfers come to their shares less their payments. It is stated, as the code keeps it, while nothing is settled.
* The loops are inductions over turns. The library's induction takes an operator, so `UpTo` proves one on sets of numbers from the fact that < is
  well-founded; `Recursion` proves with it that a recursive function exists and takes its values turn by turn, and the set of turns
  at which an invariant holds contains the first and with each the next.

**Idempotency** (at the end of `LedgerProofs`).
* `IdempotencyInvariant`: the inductive invariant `IInv`. `OnceOnly` alone is not inductive: one must know that a
  request between claim and release **holds** its entry (`HolderInv`), so that nobody else releases or answers it; that
  nothing was changed under a free key or before the holder has run (`UntouchedInv`); that a run without a claim is exposed
  (`BareInv`); and that a success on its way, or on record, was made (`AppliedInv`).
* `IdempotencyKeepsPromise`: the refinement. Receive is Submit, Commit is Apply, a failed bookkeeping read is Expose, Send and
  a replay are Succeed or Refuse, Crash is Refuse, Purge is Forget, the rest stutters.
* `IdempotencyStoredFirst` and `IdempotencyAnswersKept`: the two action properties.

**Day numbers.**
* `DaysInvariant`, `DaysTypeOK`: every step looks, commits or aborts (`StepKinds`), and each invariant is proved by these three
  cases. The invariant says what a handler **knows of its own reads** and that the lock is exactly in the hands of the locking
  request whose statement has run.
* `DaysLockProtects`: a request that commits beside the holder neither locks nor extends, so it reorders or truncates.
* `DaysOnlyReorderReorders`: every other statement moves rows by at most one place and all one way; two rows a step of one
  apart could meet but not cross, and the deferred UNIQUE refuses that they meet. Nothing need be fresh.
* `DaysContiguous`: distinct numbers that reach exactly m number m days (`Fills`); one lemma per operation finds m and the day
  for each number. A reorder is the hard one: it may name a day twice and miss another, yet distinct numbers that do not exceed
  the number of days leave no gap (`FillsByCounting`).

**Membership** (`MembershipInv`).
* `MembershipIdentity`: two acceptances past the insertion of the member are never of one person (**`OneClaim`**, from the unique
  index on members), and one still before it is not of a member (**`JobSound`**); so what an acceptance takes for its placeholder, it takes from nobody
  but an overtaken one.
* `MembershipRemovedStayOut`: whatever is under way, the row a removal leaves behind refuses the second one.
* `MembershipOwner`: with an owner there and agreed on, every write of `role` or `owner_id` whose request still finds what it checked leaves it so;
  that a member acts on somebody else (`JobSound`) is what it takes.
* `MembershipAnswers` (`LateInv`): a request that is not late still finds its invitation pending, and for an acceptance unexpired (**`StillOpen`**):
  it looked before it went on, and whatever closes the invitation afterwards makes it late. So only the late ones change an answer.

**Variants** (`VariantsInv`).
* `VariantsAgree`: at most one plan is marked, and the pointer names it unless the copy is torn; a promotion commits the
  mark and the pointer together, and the partial unique index refuses it when somebody else's mark is still there.
* `VariantsMainLost`, `VariantsLinksClosed`: the action properties, from what an overtaken request need not know: a deletion knows that its plan is not the main one
  (**`FreshDelete`**), an upsert that the fields it writes back are the link's (**`FreshUpsert`**).

**Canvas** (`CanvasInv`).
* `CanvasEdits`: a version determines the text (**`KnowsText`**): versions only grow, so an edit that meets its version meets its text.
* `CanvasLinks`, `CanvasDecided`: what a request not overtaken has read is still so (**`Seen`**): the block is live, the suggestion pending, the
  expenses a deletion unlinks are all that point to its block, the list names each block of the day once, the place is above all others. A pending
  suggestion has no block made from it, and a pointer is to one that was (`PointersRight`).
* `CanvasOrder`: an unsettled day arises from none of the writers. A move or reorder gives the places of its list, which names the
  day's blocks once each; that it leaves none out, because it has as many entries as there are blocks, is a counting argument (`ListedOnce`, `ListedAll`).

**Delivery.**
* `DeliveryPublishes`: the refinement of `Publication`. Committing is Commit, a flush Announce, each socket reached Hear; everything else
  stutters, also the loss of a staged event in a crash.
* `DeliveryHear` (`HearInv`): an open socket is in **the room object the map holds** (`InMap`), unless a late cleanup took that room away; an audience is of
  sockets that were connected.
* `DeliveryInboxes` (`MailInv`): who is due a row is **a member, then read, then staged, then in the table** (`Knows`), and staged rows are one for each
  recipient and kind.
* `DeliveryTypes` has one clause that is more than a type: each connection is in one room object at most.

**Trips, Shelf, Media, Panels** (`PartsProofs`).
* `TripsCopiesExact` (`TripsInv`): a block that stayed in sight has been copied once exactly if **the day it was on has been read**.
* `ShelfFiledWithOwner`, `ShelfFound` (`ShelfInv`): what a folder check found holds until the write, as the person a folder belongs to never changes and a
  folder deleted in between fails the foreign key; a trip that is looked up is where **the views that are left** will find it (`KnowsFolder`, `KnowsOwner`, `KnowsPlace`).
* `MediaStorageAgrees`, `MediaOnePhotoOneRow` (`MediaInv`): **how far the requests on an id are** says where its row and bytes are (`Progress`: no bytes
  before the put, bytes before the row, no removal before the row); an import beside a row of its photo has been marked.
* `MediaQuota` (`QuotaInv`): the sum of the rows is not inductive; the sum of the rows and of **what has passed the quota's reading and has no row yet**
  (`Taken`) is. Only the reading raises it, by a size that fits beside the rows, and the others under way, fewer than `Calls`,
  have at most `MaxSize` each (`OthersTake`).
* `PanelsSeededOnce` (`PackingInv`), `PanelsNoTextLost` (`NotesInv`): a seeding nobody overtook **clears every starter list there is**; the
  notes a member was given are the present ones or of an earlier version.

Only model-checked: liveness, `AbandonedClaimFreed` in `idempotency` and `ExpiredPurged` in `purge`, which needs fairness and ENABLED and is beyond this
prover; and the violations, which are counterexamples by nature.

## What the code does that its text does not say

Three runs are violated on purpose; `PROJECT.json` quotes the line each contradicts.

* `restore`: restoring an expense bypasses the triggers (`ledger.service.ts:364`), so rows rewritten while it was deleted are live and
  unbalanced.
* `purge`: the purge is one statement (`maintenance.jobs.ts:25`), and a trip in it meets the append-only trigger; from the
  first expired trip on nothing is purged any more.
* `rooms`: the second cleanup of a socket drops the room another socket has opened since (`hub.ts:82`).

Further disagreements met while modelling. Where it can happen in a model, the property there names it as the exception.

* Ledger: a removal's balance check is stale at commit, so a removed person can owe (`ledger.service.ts:178`). The sign of a refund
  is applied twice to exact amounts (`split.resolver.ts:203`), so such refunds cannot be recorded. Adjustments that cancel
  are lost in base currency (`split.resolver.ts:160`). Unsimplified advice ignores settlements (`ledger.service.ts:727`). A change of base
  currency leaves the frozen amounts in the old one (`contracts/trips.ts:47`).
* Idempotency: a retry that looks its key up just after a release runs without a claim.
* Canvas: a reorder that overlaps a deletion leaves a gap in the day numbers, where the next addition can collide. The limits on blocks, plans and
  members are counted without a lock (`canvas.service.ts:97`). A truncation of dates deletes its blocks softly, to be undone, but
  then drops their days. A duplicate made while blocks move misses or doubles them. An expense that commits between the unlinking and the
  commit of a deletion, or later with an older read, keeps a link that `canvas.service.ts:568` says it must lose.
* Collaboration: ownership is lost when a transfer, a removal or a change of role commits on an access that is no longer so. A removed
  member cannot come back. An acceptance that read its invitation before a revocation or the expiry is admitted after it, and a refusal
  overwrites an answer likewise (`collab.service.ts:485`, `:531`). Two reviewers who both read PENDING both make a block, despite "has already been
  reviewed" (`collab.service.ts:757`). The mark EXPIRED is undone by the error that follows it.
* Trips: an editor files the owner's trip through PATCH /trips/:id although `trips.service.ts:584` says only the owner does; a
  duplicate and a transfer leave a trip in another person's folder; a look-up answers 404 for a trip taken out of the archive between two queries.
* Plans: a plan promoted between the check and the write of its deletion is deleted, although "the main variant cannot be deleted without
  promoting another" (`canvas.service.ts:266`). A duplicate of a trip whose main plan changes between two of its statements has a pointer and a mark that disagree
  (`trips.service.ts:398`): the page shows another plan than the editor, and the plan it shows can be deleted as any other.
* Sharing: an upsert undoes a concurrent one (`sharing.service.ts:106`). A link that had expired and is extended again shows its old guest comments.
* Notifications: rows of kind MENTION stay PENDING and are never mailed, although `collab.service.ts` says that mentions notify
  immediately; the unsubscribe page promises a switch in Settings that no code has (`notifications.routes.ts:150`).
* Media: one photo is imported twice by overlapping requests despite "idempotent, not a duplicate" (`image-search.service.ts:115`). Bytes without a row are never
  collected: `purgeOrphanMedia` deletes PENDING rows, which nothing inserts.

## Not modelled, and why

* Listings, exports and search are reads: they change no state and their output is layout.
* Editing, resolving and deleting a comment, and presence: single guarded writes nothing else reads to decide.
* Exchange rates, authentication, email, places, maps, geocoding: calls to the outside, with a cache. A rate is an input of `SettleUp`.
* Background writes (a presence stamp, a view counter): nothing reads them to decide.
* Serving of media, alternative texts and the REFERENCE mode, which the one provider does not use.
* Pins and the order of trips, names, labels, categories and other plain fields.
* Seed data, migrations and scripts: they run once.
* Abstractions to know of: `confirmSettlement`'s payee check and its guarded update are one action although a reassignment may
  fall between them. Two requests with one hash on two trips are one body in `Idempotency`. No request outlives the 24 hours of a
  key: statements time out after 15 s. An edit of the plan is one step in `Trips`; `Canvas` has the races of edits.

## Plan

Comments (edit, resolve, delete) beside their notifications, and the password and counter of a link, should they come to decide anything.
