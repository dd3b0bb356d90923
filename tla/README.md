# Fynancee core: a TLA+ model

Fynancee core is a NestJS API with one background worker. Controllerships
(tenants) look after clients; financial data of a client enters through the API
or as CSV files; the API projects cash flow and takes monthly and quarterly
closings. Postgres keeps everything but the CSV files, which are in an Azure
blob container, and RabbitMQ carries one job per file to the worker.

This directory holds TLA+ models of that code, the TLC runs that check them and
the TLAPS proofs about them. Paths below are relative to `src/`.

## 1. Inventory

| Component | State | Operations | Correct when |
|---|---|---|---|
| CSV import (`src/finance/finance.service.ts` 448-586, `src/worker/import-worker.ts`, `src/infra`) | `import_batches`, `import_rows`, the blob container, the queue, the API's cached channel, the running handlers | `createCsvImport`, `publishImportJob`, `uploadBuffer`, the consumer, `processBatch`, `shutdown`, `getImportDetails`, `listImports`, `listImportRows` | a batch shown as processed is complete; rows never have gaps; a job finds what it needs; every upload ends; a redelivery does no harm |
| Closings (`finance.service.ts` 762-929) | `closings`, unique per client, type, start and end | `createClosing`, `listClosings` | one closing per period, of the ledger as it was; closings of a client fit together; its totals, short day and health agree |
| Cash-flow projection and indicators (400-446, 588-760) | none (they read the ledger) | `getCashflow`, `getIndicators` | days are consecutive and each once; balances, months, runway and day of shortage agree with the movements; nothing stale is shown |
| Ledger and patrimonial records (170-398) | `entries`, `provisions`, `balances`, `stocks`, `reserves` | create and list each | what was recorded is in the lists whose dates contain it, and in no other |
| Sign-in, invitations, resets (`src/auth/auth.service.ts`) | `auth_invitations`, `password_resets`, `users` | `signInWithPassword`, `signInWithGoogle`, `create*Invitation`, `acceptInvitation`, `requestPasswordReset`, `resetPassword` | an accepted invitation has given password and membership; a call repeated after a failure completes; no password is lost |
| Tenants, clients, users, memberships (`src/tenants`, `src/clients`, `src/users`) | `tenants`, `clients`, `tenant_users`, `client_users`, `users` | create, update, `addTenantUser`, `addClientUser`, `update*User` | the type of a user fits its membership; a call left alone does what it promises or nothing |
| Request scope and roles (`src/auth/guards/access.guard.ts`, `src/common/utils`) | fields of the request | `canActivate`, `resolveTenantId`, `resolveClientId`, `requireClientAccess` | the tenant and client a handler uses are the token's, and the token's own requests are served |
| Owner bootstrap (`src/scripts/bootstrap-owner.ts`) | `tenants`, `users`, `tenant_users` | one script of four find-or-create steps | running it again changes nothing and completes what a crash left |
| HTTP shell, DTOs, hashing; migrations | none | routing, validation, hashing; schema scripts | not modelled: no state of their own. The unique indexes the migrations create are part of the models of their tables |

How they interact: the API handler of an import writes a batch row, a blob, the
row's key and a queue message, in that order and without a transaction; the
worker, another process, reads all four and writes the rows and the status;
pages read row and batch in separate queries meanwhile. Closings and cash flow
read the ledger in several queries while it is written. `AccessGuard` runs
before each handler and hands it a scope. Memberships are written by the tenant
and client services, by `acceptInvitation` and by the bootstrap script, each
with checks of its own, and read when a token is signed.

What is hard: the queue delivers a job again after a crash or a closed channel,
and in the second case while the first handler still runs; any of the remote
calls may fail after it took effect; nothing is in a transaction, so every
check-then-write of the services can interleave with another; days are computed
in local time and written as UTC. `PROJECT.json` lists these as hazards, line by
line.

## 2. Modules

| Module | Models |
|---|---|
| `ImportPipeline` | API handler, queue and worker of the CSV import, in full |
| `ImportLedger` | the abstract specification: what the two tables promise to a reader |
| `ImportReads` | `listImports`, `listImportRows`, `getImportDetails` over tables that change as `ImportLedger` allows |
| `Calendar` | instants, local days, UTC days, `getPeriodRange`, `setMonth` |
| `Ledger` | entries, provisions, balances, stocks, reserves: create, list, add up (EXTENDS `Calendar`) |
| `Closings` | `createClosing` and `listClosings` beside ledger writes and other calls (EXTENDS `Ledger`) |
| `Reports` | `getCashflow` and `getIndicators` beside ledger writes (EXTENDS `Ledger`) |
| `Accounts` | every handler that writes users, memberships, invitations or resets, query by query, and the bootstrap script |
| `Access` | tokens, `AccessGuard`, the roles of every route and what the services look up |
| `ImportPipelineProofs` | type correctness, safety, the refinement of `ImportLedger` |
| `ImportCalmProofs` | what holds of the import as long as nothing has failed |
| `ImportReadsProofs` | every property of the readers |
| `LedgerProofs` | sums over finite sets, induction along sets and intervals, keys of days, the growing ledger |
| `ClosingsProofs` | every property of closings (EXTENDS `LedgerProofs`) |
| `ReportsProofs` | every property of projections, indicators and lists (EXTENDS `LedgerProofs`) |
| `AccountsProofs` | what overlapping and failing handlers keep of users, memberships and tokens, and what one alone does |
| `AccessProofs` | scope safety of `Access`, and that the token's own requests are served |
| `MCImportPipeline`, `MCImportReads`, `MCClosings`, `MCReports`, `MCAccounts`, `MCAccess` | instances for TLC |

### ImportPipeline

State and code:

- `request[b]` is the point `createCsvImport` has reached for upload `b`. `saved`,
  `stored` and `keyed` are its three awaits done; `failing` is its catch block;
  then `replied` (201), `refused` (400, after the catch) or `abandoned` (an error
  the catch does not see, or the process died).
- `channel` is the `channel` field of `RabbitMqService`. `publishImportJob`
  looks only at whether the field is set, and nothing ever resets it, so once the
  broker has closed the channel `sendToQueue` throws until the process is
  restarted.
- `blobs`, `batch`, `rows` are the container and the two tables, `ready` the
  messages waiting in the queue.
- `worker[w]` is a worker process, `task[w][b]` the consumer callback that runs job
  `b` there: `find` (findOne), `download`, `stream` (the loop and the final
  flush), `failing` (the catch that writes `failed`), `ack`. `flushed` counts the
  records inserted so far, which fixes `rowIndex` and the buffer.

A step is what runs between two awaits that reach shared state. Each remote
call has a second action in which it rejects, with or without its effect
(`UploadBlobFails`, `InsertChunkFails`, ...). `CloseChannel` is a graceful
shutdown or a channel closed by the broker: its unacknowledged jobs go back to the queue
while their handlers run on, until `Exit`. A handler whose ack meets the closed
channel throws, is not caught, and takes the process down: that is `Exit` too.
`Crash` is any other death. An insert that was committed while the process died
is `InsertChunkFails` with its effect followed by `Crash`, and an ack lost on the
way is `Crash` just before `Ack`.

A reader may check these modelling decisions:

- *The queue is a set.* Jobs are persistent and the queue durable, so the
  broker keeps them; the order is left open, which covers requeued jobs.
- *`Publish` and the reply are one step.* There is no await between them.
- *`sendToQueue` has no confirm*, so `PublishLost` loses a buffered message.
- *`InsertChunk`* is one multi-row INSERT under the unique index on
  `(batchId, rowIndex)`: all rows or none.
- *`ParseError` at any point of the loop.* A CSV that breaks after record
  `n` may raise the error before records the parser had buffered are
  consumed, so any number of full chunks may have been inserted. An error of the
  download stream is not forwarded by `pipe`; it is unhandled and is a `Crash`.
- *`StorageKey` and `FindBatch`* keep the fallbacks of the code (no row, no
  key) although `JobIsDownloadable` shows that they are never taken.
- Record contents, file names, headers and `processedAt` are left out. `rowCount`
  and `errorCount` are kept.

Assumed of the libraries, from how the code uses them: amqplib throws on a
closed channel and emits `close` for a graceful one; RabbitMQ requeues
unacknowledged messages when a channel goes away and respects the prefetch;
Postgres makes each statement atomic.

### ImportLedger and ImportReads

`ImportLedger` has three functions (status, stored rows, count) and four actions:
a batch is registered, rows are appended to a gap-free prefix, it is announced
while all of a well-formed file is stored, it is rejected. Each is enabled
after any failure, so the ledger allows what redelivery really does (a processed
batch may become failed, and a failed one processed), and forbids what
must never happen: a row deleted, overwritten or out of order, an announcement over a
partial import, a count of an incomplete one. `ImportPipeline!Ledger` maps the
tables to it.

`ImportReads` composes with the abstract ledger, not with the pipeline: `Import` is
any step of `ImportLedger`. Because the pipeline implements the ledger (proved), what holds
of these readers holds beside the real pipeline, in an eighth of the states. `list` is one
caller: the offset asked for, the items of the page, the total, and as history the items
of all its pages (`got`) and the batches there were at its first (`known`).
`Find` and `Count` are the two queries of TypeORM's `findAndCount`, which skips the
second when a short page tells the total. `getImportDetails` reads the batch and then its sample.

### Calendar and Ledger

A `Date` is an instant. Periods begin and end at local midnights; `normalizeToDate`
writes each as the UTC day it falls in, so east of UTC every key is the day before.
`Offset` gives the lead of local time when each local day begins, so it may change
within a run; months have any lengths. `Skips` are the days that have no midnight because
clocks went forward at it (São Paulo, Santiago, Beirut and Cairo have had such days), `Repeats` those
whose last hour runs twice because clocks went back at midnight, `Hour` by how much.
The assumptions on these constants are what a real calendar satisfies: every local day is longer than an hour
(a zone that skipped a whole day, to cross the date line, is left out), no offset exceeds a day, and the calendar
reaches over the dates that are asked for (`Covers`; `CoverageAssumption`, `HorizonAssumption`, `ListAssumption`).

`setDate` and `setMonth` keep a Date's time of day. So the cursor of a loop over days that once stood
on a day without a midnight, at 01:00, stays at 01:00 (`Moved`, `Cursor`); and a loop that runs while
`cursor <= end`, where `end` is a midnight, does not come to its last day any more. Likewise `endOfDay` is
`setHours(23, 59, 59, 999)`, not the instant before the next midnight: where the last hour runs twice it
ends with the first run (`LastTick`, `EndOfDay`).

`movements` are the rows of entries and provisions (each of a UTC day), `marks` those of
balances, stocks and reserves (each of an instant). Rows are only inserted. Amounts are integers
(cents); the code adds binary fractions, and a balance of exactly zero may come out just
below it. `LatestOf` is `findOne` by `recordedAt DESC`: of two rows of one instant,
either. Lists are sets; their order is left out, and so is the client, whose id is
in the condition of every query.

### Closings

`closings[p]` is the row of period `p` (the unique index identifies rows with periods; an
ASSUME checks that the index's three columns do), and `call[c]` one run of the handler:
`read` (the two queries of `Promise.all`, in either order), `balance`, `find`, then `insert`,
or `load` and `update`. Those last two are TypeORM's `save` of an entity with an id: it
selects the row, and then updates the columns that differ from what it selected.
`Fails` is a query that rejects or a process that dies, with the write applied or not.
`Summary` computes the row as the code does, day by day in the loop; `Exact` states the
same row without the loop, from the ledger. `LoopDays` are the days the cursor comes to and `Key` the date it writes
there; `LastSeen` says without the loop which day is the last: the one before the period's last if a day of the
period has no midnight (and is not that last day itself). The totals come from the queries and count the lost day; the day of
cash shortage, the low days and with them the health do not look at it. `quiet` is a history variable inside
`call[c]`: the ledger has not changed since the call began. `generatedAt` and
`createdByUserId` are left out.

### Reports

`query` is one request: a projection reads its two tables in either order and then the
balance, the indicators their three parts in any order. A report writes nothing, so one
request at a time stands for any number. `Projection` is the loop of `getCashflow` (days,
months, runway, day of shortage), `Exact` the same answer stated day by day without it. `endDate` is made by
`setMonth` and `setDate` from `startDate`, so it too may stand at 01:00 (`EndDate`); `Turns` are the days whose cursor has not
passed it. `LosesLast` says when it passes it a day too early, `Seen` which dates the answer then has.
`runway.months`, a rounding of `runway.days`, is left out.

### Accounts

`users`, `members`, `tokens` are the tables; `members[s, e]` is the row of `tenant_users` or
`client_users` for a scope `s` (a tenant or a client) and a user of email `e`, `tokens[k]`
a row of `auth_invitations` or `password_resets`. `call[c]` is a handler at its next query.
Each query is one action (`FindUser`, `InsertUser`, `FindMember`, ...), taken with the place where
that handler goes on, and a handler is the disjunction of its queries, so `addTenantUser`,
`acceptInvitation` and the bootstrap script share what they share in the code. `SaveMember`
and the last two steps of `UpdateUser` are TypeORM's `save`, a read and an update of the columns that
differ. `Fails` stops a call at any query. Unique indexes make the inserts
refuse. The time of a token is the action `Expire`.

`Promised` says what each handler does as one step from the tables where it began;
`AloneIsAtomic` compares. Left out: names, `lastLoginAt` (all that `signInWithPassword` writes),
`oauthProvider`, and that a Google subject is unique over all users.

### Access

`session` is what the token in use says, `members[s][u]` as above, `clientOf` the tenant
of each client. `Requests` is every route (with the roles of its decorators) with every choice
of ids in the headers, the path and the body. A header may also be `Empty`: `x-tenant-id:` without an id. The guard takes
such a header as not given (it tests `headerTenantId && ...`), while `tenant.util.ts:28` resolves with `??`, for which it
is given and wins over path and token (`FirstGiven`, beside `Agree`). Wherever the resolved id is used a
`ParseUUIDPipe` or a look-up refuses it, but for `GET /v1/tenants`, whose `findAllForTenant('')` lists
every tenant (`FindAllForTenant`). `Guard` is `canActivate`, `Found` the look-ups of the
service, `Handled` both. Every call is one step: the interleavings of the writes are in `Accounts`.
"owner" stands for owner and admin, which every decorator names together. An invitation is accepted as it is
made, since what accepting writes was fixed then. A token stays valid whatever happens
to its membership, as the code has it. The routes that read, and `updateTenant`,
`updateClient`, `updateUser`, are among the requests but change nothing that is kept here.

## 3. Runs

The runs of the pipeline set `CHECK_DEADLOCK FALSE`: a system whose uploads are all answered
and whose disruptions are spent really stops. So does `accounts`, where the calls are
counted by `MaxCalls`.

| Run | Instance | Question |
|---|---|---|
| `pipeline_safety` | a file of 3 records and a malformed one of 2, chunks of 2, two workers of prefetch 2, 3 disruptions | the safety properties and `ImplementsLedger` |
| `pipeline_live` | the same files, prefetch 1, 2 disruptions, fairness | `JobsDrain`, `UndisturbedImportEnds` |
| `import_reads` | a file of 3 records, an empty and a malformed one, pages and samples of 2 | readers beside the import |
| `acked_unsettled` | 1 disruption | violated, see findings |
| `closings_alone` | one caller, one month of three days whose second has no midnight, 5 movements (one outside, one on the day the loop loses), 3 balances (one too late), ahead of UTC by half a day and then three quarters, 2 failures | the closing is right when nobody closes beside it |
| `closings_resting` | two callers, months of two and three days and their quarters, every ledger of 3 movements and a balance, UTC, 1 failure | overlapping calls over a ledger at rest; periods |
| `closings_torn` | two callers, ledger written meanwhile | violated, see findings |
| `closings_west` | half a day west of UTC, every half day of two quarters | violated, see findings |
| `reports` | months of four and two days in quarters of a day, local time ahead by three quarters of a day but by half a day on days 1 to 3, the last hour of day 0 repeated and day 3 without a midnight, 3 movements, 6 marks, horizons of 1 and 2 months, two instants to ask at | projections, indicators and lists |
| `accounts` | one user, two tenants and a client, one token, two calls at once, three in all, one failure | what overlapping or broken calls may leave |
| `access` | two tenants, two clients, two controllers and a customer | which requests are handled |
| `new_tenant_shut` | the same | violated, see findings |

Why the bounds are enough. Three records in chunks of two give a full chunk, a partial
one and the flush after the loop; the empty file skips both (`import_reads`, and the
proofs). Batches meet only in the queue, the prefetch and the channel, so two of them show
all they can do to each other. Two workers are needed to have two handlers of one job. The
longest known trouble takes two disruptions (a closed channel, then a failed insert whose effect
was applied beside the other handler); three leave room for one more. The
proofs below do not depend on any of these numbers.

Months of two and three days have a first and a last day, and one between for the skipped midnight to take the
last, so an off-by-one at either end shows. The expenses and openings make the balance negative in some ledgers and
not in others, on any day, with a net total of either sign. Two callers are all that one row needs to be torn.
In `reports` a month of four days before one of two makes `setMonth` overflow, and quarters of a day give a day's
first instant, its last and one inside, and an hour before its end to run twice. The two instants asked at are in
the day before the skipped midnight, from where a projection loses its last day, and in the day without one, from
where `endDate` is as late as the cursor and none is lost. A zone whose offset changes from zero to ahead of UTC is
left out: there two days of the loop have one key and its movements are counted twice (see the hazard at
`finance.service.ts` 696 in `PROJECT.json`).

In `accounts` users never meet except in the tenant table, so one is enough; two tenants
are needed for "belongs to another tenant", a client for a mismatch of types. Three calls are two that
overlap and one before or after them, from tables any of them left. In `access` two of each
make a wrong tenant, a wrong client, a client of another tenant and a user of two tenants;
the proofs cover the rest.

The deeper properties, in words:

- `ProcessedIsComplete`: a processed batch has all the rows of a file that parsed to the
  end and its counts say so, whatever was delivered twice.
- `OneWriter`: when two handlers run one job, at most one ever gets rows stored. The unique
  index decides it: both start at row 1.
- `RefusedIsUnpublished`: an upload answered with an error is never imported later.
- `UndisturbedImportSettles` and `ProcessedIsFinalUndisturbed`: as long as nothing failed,
  an acknowledged job has the right final status, and a processed batch stays
  processed. Under disruptions neither holds: a redelivery after the `processed` update
  meets the unique index and marks a complete batch as failed. The model shows this as
  ordinary behaviour; no document of the repository denies it.
- `RowPagesJoin`, `TotalCoversPages`, `NoImportMissed`, `AnswerIsConsistent`: rows inserted or imports
  created between pages and queries make a caller miss nothing, and a batch shown as processed
  comes with its rows. An import may be met twice.
- `QuietClosingIsExact`: if the ledger was at rest while a call ran, the row it leaves is
  the one defined by the ledger, short day, low days and health included, over the days the loop
  comes to (`LastSeen`, above). A closing
  taken while the ledger is written may mix moments; the model has that too.
- `RetryIsNotRefused`: a call repeated after a lost answer finds the row and updates it.
- `TotalsNeverDrop`: an append-only ledger never makes a later closing smaller. It holds for calls
  that do not overlap; overlapping ones may overwrite a newer closing with an older.
- `RestingClosingsAreExact`: over a ledger at rest overlap and failures do no harm. Checked in UTC, proved for one side of it.
- `PeriodsFit`: no day is in two closings of one type and months nest in quarters.
- `ProjectionIsConsistent` and `QuietProjectionIsExact`: a projection is exact for the movements its queries met,
  and for the ledger if that was at rest, over the dates it comes to (`Seen`, above). Its starting balance is the
  latest up to the end of the projection; one recorded for a future day counts as today's.
- `RunwayEndsFirst`: the two running sums of the loop agree on what comes first.
- `IndicatorsNeverGoBack`: indicators that mix moments still show nothing older than the request.
- `ListsTile`: lists by adjacent dates leave no gap and never overlap, in local time that keeps ahead of UTC
  or behind it, but for what is recorded in the second run of an hour before midnight: `endOfDay` comes before it
  (`InSecondRun`). Where it crosses UTC (the Azores: an hour behind in winter, level in summer) a local day may hold
  the UTC midnight of no date or of two, and its rows are in no list or in two; the run leaves such zones out.
- `MembersFit`: a membership always belongs to a user of the scope's type. The check is on a row read
  queries earlier; it suffices because a user's type never changes and a refused insert stops the call.
- `AcceptedIsMember`: an invitation marked accepted has given password and membership; that the membership is still
  active is not claimed, since it may have been ended.
- `PasswordsSurvive`: no overlap takes a password away. `updateUser` saves a user it read before, and
  only the columns it selected, which the password is not one of.
- `AloneIsAtomic`: a call that meets no other does all it promises or nothing, even from the tables that
  overlapping or broken calls left. So whatever failed may be asked for again, the bootstrap script included.
  Two overlapping `addTenantUser` calls may put one user in two tenants, and two overlapping accepts or
  resets of one token both succeed; the model has that, and no document denies it.
- `HandledInScope`: whatever ids a request carries, its handler works in the token's tenant or client. There is one
  exception, named in the property: the list of tenants asked for with an empty tenant header.
- `OwnScopeIsServed`: a request in its token's scope, of an allowed role, is never refused.
- `OnlyBootstrapOpensATenant`: `createTenant` leaves a tenant that no request can enter. `CreatorAddsUsers`, which
  `new_tenant_shut` refutes, is what README.md:45 expects instead.

Fairness (`FairSpec`): a handler that was called runs on (node's event loop), a
stopped worker is started again and a draining one exits (the supervisor), and a
waiting job is delivered to a worker with room (the broker). Nothing obliges a user
to upload, the API's handlers to succeed or a disruption to happen or not.
`UndisturbedImportEnds` starts when the batch row exists and assumes a behaviour
without disruptions, because with one it is false (`acked_unsettled`). The other modules
state no liveness: their handlers are straight lines of queries that end unless one rejects.

## 4. Findings

- `acked_unsettled`: `processBatch` looks up the batch and downloads the blob before
  its `try`, and the consumer acknowledges after any error
  (`import-worker.ts` 38-68, 155-160). One failed query or download leaves the
  batch `uploaded` for ever, with no job. README.md:56 says that the batch's status is
  updated.
- `closings_torn`: README.md:39 calls a closing a snapshot with its summary and health. Two
  overlapping calls for a period already closed both load the same row; each then
  updates only the columns that differ from it. When one of them has read a newer ledger, the row
  ends with the income and expense of one and the net total and health of the other.
- `closings_west`: a `referenceDate` such as `2024-03-01` is UTC midnight; `getPeriodRange`
  reads it with local getters. With a process in a zone west of UTC the closing
  made is February's.
- `new_tenant_shut`: README.md:45 has the controllership create its tenant and the tenant's users. `createTenant`
  writes no membership, and the guard compares every path with the token's tenant: its creator is refused by
  `POST /tenants/:tenantId/users`, and no later sign-in helps.

Met while modelling, part of the models, and without a run of their own:

- `GET /v1/tenants` with an empty `x-tenant-id` lists every tenant (`tenant.util.ts:28`, `tenants.service.ts:33-36`).
  `HandledInScope` is false of the code without its exception.
- The last day of a closing or a projection is not looked at when a day before it has no midnight
  (`finance.service.ts` 846-850, 691-695). The exactness properties are false of the code without `LastSeen` and `LosesLast`.
- What is recorded in the second run of the last hour of a day is missing from the lists that end with that day
  (145-149). `ListsTile` is false of the code without `InSecondRun`.
- README.md:53-54 stores the file first and then creates the batch; the code inserts the batch first, so that a
  failed upload or a crash leaves a batch without a blob. `JobIsDownloadable` and `RefusedIsUnpublished` hold all the same.

## 5. Proofs

`ImportPipelineProofs` proves, for all uploads, workers, file lengths, chunk sizes,
prefetches and numbers of disruptions, and from `ImportAssumption` alone:
`TypeCorrect`, `NoGaps`, `ProcessedComplete`, `SingleWriter`, `JobsDownloadable`,
`RefusedUnpublished` and `Implements` (`Spec => Ledger!Spec`).

None of the invariants is inductive by itself. `IInv` adds what the argument needs:

- `RequestOrder`: what each stage of the handler has already written.
- `JobOrigin`: jobs and rows exist only for answered requests. This is why a refused
  upload has none: nothing after `Publish` can throw.
- `WriterAtEnd`: a handler with `flushed > 0` is in its loop and the stored rows are
  exactly `1 .. flushed`. Hence a second handler of the same job starts at row 1, clashes
  with the index and fails; hence rows stay a prefix, and a handler that
  reaches `Complete` has `1 .. Rows[b]` stored. An insert applied but reported as
  failed leaves its handler in `failing` with `flushed = 0`.
- `CountedIsComplete`: a `rowCount` other than 0 was written over complete rows, so a
  later `failed` and `processed` cannot disagree with them.

The three facts (initial, inductive, implies the property) are `Invariance` and the
`*Step` lemmas, one per conjunct, with one step per action. The refinement maps
`InsertChunk` to `Append`, `Complete` to `Announce`, the catches to `Reject`, and the
rest to stuttering.

`ImportCalmProofs` adds `CalmInv`, the state of the system while `disruptions = 0`:
the channel is open, no worker drains, a job is in exactly one place, and the stage of
its handler tells what the tables hold. It gives `UndisturbedSettles` and
`ProcessedFinal`.

`AccessProofs` proves, for any numbers of tenants, clients and users and from `AccessAssumption` alone,
`HandledRequestsStayInScope` (`Spec => []HandledInScope`) and `TenantsAreOpenedByBootstrap` (`Spec =>
OnlyBootstrapOpensATenant`), the first with the exception of the list of tenants under an empty header. Neither
follows from the guard alone: a token must name a scope that exists and in which its user has a row, so the
invariant `Inv` adds to the types of the rows that the token was issued for a membership and that a membership is
never removed (`SessionOK`). `RequestParts` says which ids each kind of request can carry, `ResolvedIsOwn` that the
tenant a handled request of a controller resolves to is the token's or the empty one, `UsedIsOwn` that no look-up
finds the empty one. A tenant without members then has no token, and every route that adds a member is handled only
under a token of that tenant. `RequestsInScopeAreHandled` (`Spec => []OwnScopeIsServed`) is the converse: with the
same invariant, none of the guard's refusals and of the look-ups' misses applies to a request in its token's own
scope.

`ImportReadsProofs` proves all five properties of the readers, for any files, page and sample sizes. Its invariant
relates what a caller holds to tables that have changed since it read them: the rows its pages showed are the first ones, in
order, and still stored (`RowsOK`); an import that existed at the first page and is not shown yet lies behind the
pages shown, counted from the newest, and another page will be asked for (`ImportsOK`); a batch once seen processed or
counted has had all its rows since (`DetailsOK`). It rests on the ledger only appending, which `Implements` above proves
of the pipeline.

`AccountsProofs` proves `TypeOK`, `MembersFit`, `AcceptedIsMember` and `PasswordsSurvive` for any users, scopes,
tokens and overlapping calls and any failures. The invariant says what each handler knows at each of its queries (a
user it has found exists and has the type it was found with; a membership it goes on to mark exists) and that these
facts are stable under every query of every other call: a user's type never changes, rows are never removed, a
password once set stays.

It also proves `AloneIsAtomic` (`CallsAreAtomicAlone`), for every handler and from any tables that the calls before
have left. Its invariant `AloneInv` compares the tables with those from before the call: at each query `Made` is
the part of the promise that the handler has done by then (nothing, the tenant, the user too, the membership too),
and the rows it holds and the checks it has passed are of the tables from before. Every query then adds the next
part or ends the call. It needs that null is no role and no value of `active` (`NullAssumption`): `None` stands for
an argument that is not given, which `Object.assign` skips.

`LedgerProofs` is the theory under the next two. The library's induction theorems take a formula as parameter, which
no installed prover can instantiate. Here the formula is a set, that of the counterexamples, of which there would be a
smallest: among the subsets of a finite set (`SmallestSubset`, from the library's well-foundedness of strict inclusion) or
among the naturals (`SmallestNumber`, `AlongInterval`). That suffices for what the models compute: `SumFunction` of
the community modules takes elements in an order that nobody knows, and `SumTakesAny`, `TotalGains`, `TotalSplits` and
`SumMeasures` show that it does not matter; `FollowsExists` that a loop over days has a value; `KeysFollow` that
the keys of local days follow one another.

`ClosingsProofs`. `IInv` types the rows and says of each call that it has counted rows of its period, and has
loaded a row of it, whoever writes. What it gives and from which hypotheses:

- `TypeCorrect`: none.
- `ClosingsAddUp`, `LoneIsNotRefused`, `TotalsKeep`: `LoneCaller`, one call at a time. With two,
  `closings_torn` refutes the first. `AloneInv` adds that each stored row adds up from some set of movements that are still
  there, which the call in progress has counted too if it has read both tables; it survives a failure
  after the write.
- `QuietClosingsAreExact`: `LoneCaller` and `OneSideOfUtc` (local time is ahead of UTC at every midnight, by at
  most a day, or at none; and where midnights are skipped, the hour after any midnight is still of the same UTC
  day). The row is exact but for the last day that the loop loses. Outside of it two days of the loop may share a
  key, whose movements are then added twice. The loops of `Summary` are shown equal to the definition without loops
  by induction along the days, after `LoopIsInterval` and `LoopFacts` have found which days they are.
- `ClosingsFitTogether`: `OneSideOfUtc`, for any calls.
- `PeriodsHoldReferences`: `AtUtc`, in UTC and without skipped midnights (`closings_west` refutes it elsewhere).
- `RestingRowsAreExact`: `OneSideOfUtc`, a finite ledger and `NoTies` (balances recorded at one instant have one
  amount), for any number of overlapping and failing calls. All calls then compute one and the same row, so that what they
  write over each other is equal; of three balances of one instant two calls could pick two, and tear the row.

`ReportsProofs`. `IInv` says of a projection that it has counted rows of its dates and of the tables it has read,
all of them if nobody wrote; of the indicators that what they have found is no older than what there was at the
request.

- `TypeCorrect`, `AnswersGoForward`, `QuietIndicators`, `RunwayBeforeShortage`: no hypothesis. The
  fourth compares the two running sums turn by turn (`SpentIsLess`).
- `ConsistentProjections`, `QuietProjections`: `OneSideOfUtc`, for the reason given above. `TurnsAre` finds the days the loop
  comes to, the last one lost or not; `AnswerIsExact` is the heart:
  every field of the answer, the months included, is what `Exact` says without the loops.
- `ListsFitTogether`: `KeepsAheadOrBehind`, for all that is not recorded in the second run of an hour.
  `KeepsAheadOrBehind` came out of the proof: the property was thought to hold in any zone, the step from a date to
  the next failed, and TLC then found a zone that crosses UTC to violate it (see `ListsTile` above).

Each hypothesis is satisfied by the instances of the passing runs that check the property.

Only model-checked: `JobsDrain` and `UndisturbedImportEnds` (liveness under fairness is out of TLAPS's
reach here), and the violations.

## 6. Plan

1. Done: the CSV import with its abstract ledger, its readers and its proofs.
2. Done: `Calendar`, `Ledger`, `Closings`, `Reports`.
3. Done: `Accounts` with the bootstrap script, `Access` with its proofs.
4. Done: the safety and the action properties of every module proved.
5. To prove: weaker hypotheses where the code allows: `TotalsNeverDrop` and `RetryIsNotRefused` for callers that close different
   periods.

## 7. Not modelled

- HTTP start-up, DTO validation, password and token hashing: no state. What validation forbids is not
  among the inputs of the models.
- Migrations and the data source: schema scripts run once. The unique indexes they create are in the models
  of their tables.
- The order of the lists of the ledger and of closings; `findAllClients`, `findAllUsers` and
  the other single reads of the services, which appear only as routes in `Access`.
- `signInWithPassword` and `getProfile`: the first writes `lastLoginAt` only; the membership that a token is
  issued for is `SignIn` of `Access`.
- `updateClient`, which changes a name and a document.
- Binary rounding of amounts.
