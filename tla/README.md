# TLA+ models of the Tenant Library Catalog Service

TLA+ modules, TLC configurations and TLAPS proofs for the service under `src/`: a multi-tenant
catalog that ingests books from Open Library in the background and takes reading lists from
patrons. `PROJECT.json` lists the components, the runs, the mutants, the source lines every
definition stands for, the findings, the hazards and the theorems.

Run from this directory: `tlc -workers 2 -config <run>.cfg MC<Module>.tla` and
`tlapm <Module>Proofs.tla`, for FairScheduler, IngestionJobs, IngestionPipeline, CatalogIngestion,
ReadingLists, RateLimit, Tenants and Pagination.

## 1. The system

| Component | Source | State | Operations |
|---|---|---|---|
| fair scheduler | `app/tasks/fair_scheduler.py` | Redis: a list per tenant, the set `fairq:tenants`, the dispatch lock | `enqueue_task(_async)`, `dispatch_fair_batch` |
| Celery | `app/tasks/celery_app.py`, `docker-compose.yml` | the `celery` list in Redis, messages being run | Beat's schedule, fetch, late acknowledgement, retry |
| ingestion jobs and tasks | `app/api/v1/ingestion.py`, `app/tasks/ingestion_tasks.py` | `ingestion_jobs`, `ingestion_logs` | `trigger_ingestion`, `ingest_works`, `refresh_all_catalogs` |
| ingestion service | `app/services/ingestion_service.py` | `books`, `authors`, `book_authors`, `book_subjects`, the log row | `ingest`, `_enrich_and_store`, `_upsert_author` |
| Open Library client | `app/clients/openlibrary.py` | per client: semaphore, time of the last request | `_rate_limited_get` and the calls built on it |
| reading lists | `app/services/reading_list_service.py`, `app/api/v1/reading_lists.py` | `reading_lists`, `reading_list_items` | `submit`, `_resolve_book` |
| API rate limit | `app/middleware/rate_limit.py` | Redis: a counter per tenant and minute | `dispatch` |
| tenants | `app/api/v1/tenants.py`, `app/api/deps.py`, `app/seed.py` | `tenants` | `create_tenant`, `seed_tenants`, `list_tenants` |
| book queries, lists | `app/services/book_service.py`, list endpoints | none, reads only | `list_books`, `get_book`, pages of jobs, logs and reading lists |
| PII | `app/services/pii.py` | none | `hash_pii`, `mask_email`, `mask_name` |
| schema, settings, start-up | `alembic/`, `app/models/`, `app/config.py`, `app/main.py` | | declarative |
| chat export | `export_chat.py` | | no part of the service |

How they interact: `POST /ingestion` (and the daily refresh) inserts a job row and enqueues a task
in the fair scheduler. Every five seconds Beat publishes `run_fair_dispatch`; the worker that
fetches it moves tasks from the tenants' lists to the Celery queue. The worker runs `ingest_works`,
which calls the ingestion service, which calls the Open Library client and writes books and the log
row. One worker process runs dispatches and jobs in turn. `POST /reading-lists` runs in the API process, reads the books and calls the client, too. The
middleware counts every tenant-scoped request in Redis. Before the API server starts, its container
migrates the schema and seeds the default tenants.

What is hard, and what makes each part correct:

* **Scheduler.** Redis calls of several processes interleave; a worker may die between any two;
  the lock has a TTL and no owner; a popped task is in no queue until it is sent. Correct: no job
  twice, none lost without a failure, FIFO per tenant, a bounded Celery queue, one dispatch at a
  time, nobody starved.
* **Jobs.** Row, task message and log row live in two stores and three transactions; messages are
  redelivered, retried and overtake each other. Correct: the worker finds the row, "completed" has a
  log row, every job is settled in its row, no run is multiplied.
* **Ingestion.** Many works in one transaction, each able to fail; the same works are ingested
  again with other gaps. Correct: the log counts what the catalog has, no book is lost and none
  changes without the log, names and keys of authors stay together.
* **Client.** Pacing and retries share a clock. Correct: interval kept, calls end, one kind of error.
* **Reading lists.** Read-then-write transactions under READ COMMITTED with HTTP calls in between.
  Correct: atomic, the newest submission replaces, one creator, no deadlock, items linked rightly.
* **Rate limit.** Clock windows, key expiry, concurrent counting, two readings of the clock. Correct:
  bounded per minute, refused only for one's own use, headers that hold within the minute.
* **Tenants.** Check, then insert, against two unique columns; seeding at every start. Correct: every
  answer is true, no insert waits for ever, the server can always be started.
* **Listings.** Count, page and related rows are three statements over rows that come, move and leave.
  Correct: a page shows the tenant's rows, none twice, holds what the total promises; a full walk
  misses nothing that stayed in its place.
* **PII.** Correct: the hash identifies a patron however the address is spelt; a mask gives away the
  ends of a word and no more.

## 2. Modules

Each specification `M` has an `MCM` module that only names model values and functions for TLC.
Definitions commented "Wrong variant" are plausible bugs: each property is violated when one of
them replaces the definition below it (`mutants` in `PROJECT.json`).

**TenantQueues** is abstract: `pending` (one FIFO per tenant), `handed` (jobs in Celery), and a
budget of failures; `Accept`, `HandOver`, `Start`, `Lose`, `HarmlessFault`.

**FairScheduler** has one action per Redis call. `queue`, `members`, `lock` and `celery` are the
Redis keys; `pc[w]` is the call worker `w` makes next, and `slots`, `todo`, `cur`, `job` are the
locals of `dispatch_fair_batch`. `CallFails` (no effect), `ReplyLost` (effect, then an exception),
`Crash` and `LockExpires` are its failures; an exception runs the inner `finally`. `OtherMessage` is
any message the scheduler did not send: a retry, a redelivery, the daily refresh. Such a message is
not tracked as a job. Refinement: `pending[t]` is the popped job, if any, followed by `queue[t]`;
`handed` is the jobs among `celery`.

**IngestionJobs** sees scheduler and broker as one bag of messages (retries wait for a countdown, so
the order is lost anyway). `row` is the status, with `"flushed"` for a row the refresh has not
committed yet. `usable` is whether the SQLAlchemy session accepts statements: after a failed flush it
does not, and nobody rolls back; `rejected` is the history of the jobs this happened to. One worker runs, as
`docker-compose.yml` prescribes
(`--concurrency=1`). `ChildKilled` is the loss of the worker's child process, which Celery
acknowledges; `Crash` the loss of the whole container, after which the message returns.

**CatalogIngestion** is `service.ingest` from the inside: `db` is committed, `session` is what the
open transaction sees, `log` the log row with its three counts kept as sets of works. One action per
work, since only this process writes these tables and nothing of a work is visible before the commit.
A name stands for the author who bears it, and search results are built with gaps: `Listings`
drops names and keys independently, `NamesRead` drops the authors whose page cannot be read. What is
known of a book (`Known`) is its title and one of the optional columns, which an update treats differently
(`StoredFields`): it keeps an optional column that the new values lack (`ingestion_service.py:131-135`) and takes
the title as it comes (line 130); without the field "title" a book bears the client's "Unknown"
(`openlibrary.py:153`) or an empty one. A work fails in one of four ways: before anything is written
(`WorkUnreadable`), at a flush that the database refuses (`WorkRejected`), in the session that this leaves
behind (`WorkRefused`), or at a subject that the driver refuses when book and authors are flushed already and will be
committed (`WorkHalfStored`). The
history variable `gapMet` remembers that a list lacked more than its tail. Lists may name an author
twice: the second occurrence finds the row that the first one added (`MissingAuthors`). The random keys
of authors without one are numbered in the order they are made up, so that each is new.

**OpenLibraryClient** counts time in ticks and keeps only what is left to sleep and how long ago
the last request was. `Tick` waits for everything that is due.

**ReadingLists** has one action per SQL statement of `submit`, split in two for the DELETE
(snapshot, then the end of its waits). PostgreSQL is modelled from how it is used: a statement sees
what is committed when it starts; INSERT waits for an open insert of its unique key, UPDATE and DELETE
for open writers of their rows. **BookResolution** is one reference within a submission, while
ingestion commits new books between the lookups; `ReadingLists!ResolveBook` abstracts it.

The columns of a list come from **PII**: words are sequences of characters, HMAC is the identity on
what it is given after trimming and lower-casing, and the masks are translated literally. `Patron[s]`
is the unique key (tenant, hash of the address); `Changed(s)` is the set of columns the ORM writes,
those that differ from what it loaded.

**RateLimit** separates reading the clock, counting (one MULTI/EXEC in Redis) and writing a 429, which
reads the clock again. A tick is a second.

**Tenants** has the rows, the start of the API container (`server`, `unseeded`, `added`) and one action
per statement of `create_tenant`. An INSERT enters the index on name first and the one on slug next, and
waits at each for an open transaction with the same value (`holding`). `"rejected"` is the IntegrityError
that nobody handles (a 500), `"ambiguous"` the MultipleResultsFound of the lookup.

**Pagination** is any of the four listings: `place` is a row's rank in the ORDER BY column, `Hidden` when
the filters leave it out, `version` counts the changes of a row and of what is related to it. Between
COUNT, SELECT and the SELECT of related rows anything may commit. A client walks page by page until one
is not full; `disturbed` and `departed` are history variables of what happened to the rows meanwhile.

**IngestionPipeline** composes FairScheduler and IngestionJobs, instantiating both: an action of one that
touches the messages is conjoined with the step of the other (`EnqueueJob` is `FS!Submit` and
`IJ!EnqueueJob`, `StartJob` is `FS!Fetch` and `IJ!Fetch`), the others leave the other part unchanged. The
jobs of the scheduler are the messages of the jobs. Retries bypass the scheduler; the worker takes them
off the queue and keeps them (`eta`) until their countdown is over. Refinement mapping: the bag
`messages` of IngestionJobs counts each message in its tenant's list, in the dispatcher's hands, in the
Celery queue and in `eta`.

The theorems about `M` are in `MProofs`. Those about PII and BookResolution are in **ReadingListsProofs**: a
submission masks what it stores and resolves its references. Those about OpenLibraryClient are in
**CatalogIngestionProofs**: an ingestion asks through a client. Since these modules extend two specifications
each, the initial states, steps and types of BookResolution bear the prefix `Lookup`, those of OpenLibraryClient
the prefix `Client`. **IngestionPipelineProofs** instantiates FairSchedulerProofs and IngestionJobsProofs and
uses their theorems.

## 3. Runs

| Run | What it shows | Bounds |
|---|---|---|
| FairSchedulerSafe | `TypeOK`, `MutualExclusion`, `SingleCopy`, `ImplementsTenantQueues` | 2 tenants, 3 jobs (2+1), 2 workers, depth 2, 1 dispatch waiting, 1 fault |
| FairSchedulerLive | `ServedOnceEarlierTenantsDrain` | 1 worker, `SlowDispatch`, depth 3, 2 dispatches waiting, 1 fault |
| IngestionJobs | `TypeOK`, `SubmittedRowExists`, `IngestedOncePerDelivery`, `QueuedIsPending`, `JobsSettle` | 2 jobs, 2 retries, 2 faults, 1 lost message, 1 refresh |
| IngestionPipeline | `RequestsAreNew`, `ImplementsIngestionJobs`, `EveryJobEnds` | 1 worker, 2 tenants with a job each, depth 2, 1 dispatch waiting, 1 retry, 1 outage or crash, 1 failure around the queues |
| ReadingLists | `ListsAreWhole`, `LaterReplacesEarlier`, `OneCreator`, `EveryoneAnswered` | 4 submissions of one patron (2 spellings of the address, 2 of one name, 2 names), 1 to another tenant, 2 books |
| BookResolution | `LookupTypeOK`, `CatalogFirst`, `ItemsAreRight` | 2 works, 1 unknown key, 2 ISBNs, every catalog and reference |
| CatalogIngestion | `TypeOK`, `CatalogConsistent`, `LogMatchesCatalog`, `AuthorsRightWithoutGaps`, `ChangesAreLogged` | 2 works with a common author, 2 runs, 1 fault, all gaps |
| OpenLibraryClient | `ClientTypeOK`, `ClientSpacing`, `CallsEnd` | 2 clients, 3 attempts, interval 2 ticks, second 1 tick |
| RateLimit | `TypeOK`, `LimitPerMinute`, `HeadersHold`, `RefusedOnlyWhenUsedUp` | limit 2, 5 requests of 2 tenants, minute of 2 ticks, 3 minutes, 1 fault |
| Tenants | `TypeOK`, `AnswersAreTrue`, `DefaultsServed`, `EveryoneAnswered` | 2 default tenants, 5 requests that form a chain of collisions, 1 restart, 1 lost connection |
| Pagination | `TypeOK`, `AnswersAreSound`, `PagesHoldTheTotal`, `NothingMissed` | 3 rows of the tenant, 1 of another, 3 places, pages of 1 row, 1 change of each row |

FairSchedulerListed is expected to violate `PendingTenantsListed` ("set of tenant IDs with pending work",
`fair_scheduler.py:10`): a job is enqueued between LLEN and SREM (or an empty LPOP and SREM); it is on its
list while its tenant is not in the set, so that no dispatch looks at it until the tenant submits again.

`RequestsAreNew` of IngestionPipeline justifies a guard: FairScheduler submits only jobs that are not in the system,
as the ids of `POST /ingestion` are new, and in the pipeline no earlier message, retry or redelivery of the job is
about when its request enqueues it.

The type invariants of ReadingLists and IngestionPipeline are not part of a run: `ListsTypeCorrect` and
`PipelineTypeCorrect` prove them.

**Conditions inside properties.** `QueuedIsPending` and `JobsSettle` say nothing of behaviours that
lose a message (`lossesLeft` tells), which loses a job by nature, and nothing of those in which more faults struck
than a task has retries (the last attempt may then have ended before it touched the row). `JobsSettle` does not assume that
messages are delivered, which the scheduler does not guarantee: a list may be stranded (FairSchedulerListed), a
tenant starved (`NoStarvation`, section 4). It says that a job is settled or has a message that stays undelivered for
ever; the worker loses none. With the real queues `EveryJobEnds` shows that the messages arrive, unless the tenant stays
stranded; each tenant submits one job there, so that none starves the other. Behaviours with rejected works are not
excluded: such a job comes to its end as well, but its row may be left as running: `NoneLeftRunning` (section 4).
`ChangesAreLogged` lets a title be lost, with a log row that counts the work, and lets that row count it as failed:
that both happen is `TitlesKept` and `FailedWorksUntouched` (section 4).
`LimitPerMinute` and `HeadersHold` speak of requests that Redis counted, or that were refused, in the minute
they had read from the clock; a later one lands on a key of the past. `EveryJobEnds` leaves out tenants that
stay stranded for ever, which is what FairSchedulerListed finds. `NothingMissed` leaves out rows that moved,
lost a predecessor or share a place, `AuthorsRightWithoutGaps` catalogs that a gap has reached; section 4
has what happens to those. `ServedOnceEarlierTenantsDrain` needs a slot
that no waiting `run_fair_dispatch` takes: `MaxBacklog < MaxDepth`.

**Why the bounds are enough.** Every hazard needs at most two actors and one failure between two
of their steps; two tenants (one that sorts first), two jobs of one tenant (order), two workers and a
queue of `MAX_CELERY_QUEUE_DEPTH = 2` give all of them. `MaxBacklog`, `MaxFaults`, `MaxLosses`,
`MaxRefreshes`, `MaxRuns`, `MaxNow`, `MaxRetryAfter`, `MaxCrashes`, `MaxOutages` and `MaxVersion` are the
bounds of otherwise unlimited behaviour, all in guards. Three rival submissions give a DELETE that waits for
a DELETE while a third one commits, four a list that two of them resubmit concurrently. A minute of two ticks
distinguishes the beginning and the end of it. Three inserts of which the second collides with the first in
the name and with the third in the slug are the longest chain two constraints can make wait. A row between
two others, on pages of one, can move in either direction across a page that was read.

**Deadlock** is checked except in IngestionJobs, ReadingLists, CatalogIngestion, RateLimit, Tenants and
Pagination, where a behaviour is over when every job, submission, run or request has been dealt with or a bound
is reached. In FairScheduler
and OpenLibraryClient something can always happen; BookResolution stutters at its end. That a
ReadingLists or a Tenants transaction never waits for ever is `EveryoneAnswered`.

**Symmetry** is used in runs without temporal properties only.

## 4. Known counterexamples beyond the runs

The modules state further promises, most of them in the repository's own words, that the code does not
keep. They are no runs of their own; with the property alone in the named configuration (and no SYMMETRY),
TLC prints the behaviour.

| Property | Configuration | What happens |
|---|---|---|
| `MutualExclusion` | FairSchedulerSafe, `SlowDispatch = TRUE` | a dispatch outlasts its lock of ten seconds (`fair_scheduler.py:113`), the next one starts, and the first deletes the other's lock; "short-lived lock to prevent concurrent dispatches" (`fair_scheduler.py:11`) |
| `EndedRunsLogged` | IngestionJobs | the transaction that a rejected work spoils takes the log row along (`ingestion_service.py:70`); "Record every ingestion operation" (`assignment.txt:33`) |
| `Lifecycle` | IngestionJobs | a retry or a redelivery makes a failed or completed job run again (`ingestion_tasks.py:47`); "queued → running → completed/failed" (`plan.md:84`) |
| `NoStarvation` | FairSchedulerLive, `MaxDepth = 2`, `MaxFaults = 0`, `SlowDispatch = FALSE` | every dispatch starts with the tenant that sorts first (`fair_scheduler.py:89`); with one slot left, one that keeps submitting is served every time; "preventing any single tenant from starving others" (`fair_scheduler.py:5`) |
| `NoneLeftRunning` | IngestionJobs, or `Spec` with one job, one retry and no fault, loss or refresh | the database rejects a work and the loop of `ingest` goes on (`ingestion_service.py:55`) in a session that needs a rollback: the commit raises, and so does the status update in the task's `except` (`ingestion_tasks.py:77`), whose failure is only logged; when the retries are used up the row says running for ever; "queued → running → completed/failed" (`plan.md:84`) |
| `OneSubmissionPerList` | ReadingLists | two concurrent resubmissions both stay in the list, since neither DELETE sees the other's items (`reading_list_service.py:64`); "replaces the previous reading list items rather than appending" (`README.md:51`) |
| `NameIsOneSubmissions` | ReadingLists | of two rivals one gives another name, the other the old one in another case, which changes the mask and not the hash: the ORM writes the mask alone, and the list has the hash of one name and the mask of the other (`reading_list_service.py:60`) |
| `NameMatchesBooks` | ReadingLists | the name is written only if it differs from the one loaded (`reading_list_service.py:60`): one submission's name, the other's books |
| `LookupsAnswer` | BookResolution | two books of one ISBN make `scalar_one_or_none` raise (`reading_list_service.py:172`) and the submission fail |
| `AuthorsRight` | CatalogIngestion | an unreadable author page shifts names against keys (`ingestion_service.py:100`) |
| `TitlesKept` | CatalogIngestion | an update takes the title as it comes (`ingestion_service.py:130`) while it keeps the other columns; a work that comes back without one is renamed to "Unknown" (`openlibrary.py:153`), which also keeps the title of the work's own page out (`ingestion_service.py:88`) |
| `FailedWorksUntouched` | CatalogIngestion | a subject that is no string is refused after book and authors are flushed (`ingestion_service.py:150`), and the session stays usable: the work counts as failed, and the final commit makes its book, authors and links permanent |
| `NoAuthorRepeated` | CatalogIngestion | the random key of an author without one (`ingestion_service.py:139`) adds the author again with every ingestion |
| `DuplicatesAre409` | Tenants | the name of one tenant and the slug of another: `scalar_one_or_none` raises (`tenants.py:23`), a 500 instead of the 409 of "Check for duplicate slug or name" (`tenants.py:19`) |
| `TotalPagesSuffice` | Pagination | a row is added between COUNT and SELECT: the client that stops at `total_pages` misses the last one (`book_service.py:73`) |
| `NoneMissedAmongEquals` | Pagination | rows of one `created_at`, or books of one title, come in any order in each query: one is shown twice, the other never (`book_service.py:79`) |
| `RetryAfterIsAWait` | RateLimit | a refusal written after the end of its minute has a `Retry-After` of zero or less (`rate_limit.py:54`) |
| `SystemSpacing` | OpenLibraryClient | a reading list's client and the worker's send at once (`openlibrary.py:70`) |
| `FailuresAreOpenLibraryErrors` | OpenLibraryClient | a refused or broken connection is not translated (`openlibrary.py:100`) |

Met while modelling and not stated as properties: `mask_email` raises IndexError on an address whose first
domain label is empty (`a@.b.c`, `pii.py:31`), which the schema's pattern lets through; a word of one letter is
its own mask (`pii.py:46`); a resubmission returns a new `email_masked` and does not store it
(`reading_list_service.py:59`); an author's page without a name gives an author called "Unknown".

## 5. Fairness

* `FairScheduler`: Beat, the expiry of a key with a TTL, and the workers' steps are weakly fair.
  Nothing forces a submission or a fault. Without `SlowDispatch` the time constants are taken at
  their word: no dispatch lasts ten seconds, so the lock expires only when its owner is gone, and Beat
  publishes a second dispatch only while the workers are busy with other tasks.
* `IngestionJobs`: the worker goes on with the task it runs, and the API with the request it serves. That a worker
  fetches a message is not assumed, nor that a particular message is ever delivered: whether it is depends on the
  scheduler (section 3).
* `OpenLibraryClient`: time passes, what is due runs, and a request ends by the HTTP timeout.
* `ReadingLists`: an accepted request goes on; PostgreSQL wakes a waiting statement when the lock is
  free. Weak fairness is enough, since a lock that is released for a waiter stays
  free or the waiter's turn ends in a conflict.
* `Tenants`: seeding and the statements of accepted requests are weakly fair, for the same reason.
* `IngestionPipeline`: Beat, the lock's TTL, the API and the worker's own steps are weakly fair. A retry that
  is due is strongly fair: the worker's pool runs it before what is fetched later. Nothing is assumed of the
  messages in the queues: that they arrive, which `JobsSettle` leaves open, is `EveryJobEnds`.

## 6. Proofs

Every theorem holds for all values of the constants that satisfy the named assumptions of its module. Those
are ranges (a limit is positive), that sets of rows and of requests are finite, and that values standing for
"none" or for a made-up key are none of the proper ones. None of the properties is inductive by itself, but
for the first two of FairScheduler: each follows from an inductive invariant, a conjunction of
named parts that every action keeps. Below is what the parts say and why they are needed.

**FairScheduler**

* `TypeCorrect`: `TypeOK` is inductive as it stands because it contains that a popped job exists exactly at
  `send`, and that `send` is reached with a slot left.
* `NoJobDuplicated`: with `TypeOK`, `SingleCopy` is inductive. `NothingAdded` (a step that adds no job to a
  list, to Celery or to a worker's hands preserves it) settles most actions, `SendingKeepsSingleCopy` the move
  to Celery. The rest is `Submit` (the job is in no place) and `PopTask` (head and tail of a list without
  repetition).
* `OneDispatchAtATime`, with `~SlowDispatch`. `LockBacksDispatch` (a dispatch under way has the lock set) keeps
  the next one out; only the dispatch under way deletes the key, and it expires only when there is none.
* `SchedulerImplementsTenantQueues`, with `~SlowDispatch`: every step is a step of TenantQueues or a
  stutter (`StepImplements`, action by action). `SlotsCoverJobs` bounds the jobs in Celery by the depth less the
  slots left, so that `SendTask` is a `HandOver` within the capacity; with mutual exclusion one worker at most holds a job of
  a tenant (`PendingHasShape`). `JobsIn` is a recursive function, of which `JobsInProjects` shows
  what one more message does to it.

**IngestionJobs**

* `JobsTypeCorrect`; `SubmittedJobFound`: the row is committed before the task is enqueued, and no row vanishes.
* `IngestedOnce`: `Accounted` counts, for each job, its log rows, the copies of its messages, the request that
  will enqueue it and the run that has not committed yet: together at most one more than the faults. A retry
  or an ingestion turns one into another, only a redelivery adds one, and that costs a fault.
* `QueuedJobsArePending`: `AttemptsFaulted` says that while a row says queued every attempt that ended was ended
  by a fault. So as long as faults do not outnumber the retries one attempt is left (`AttemptToCome`).

**IngestionPipeline**

* The inductive invariant `Inv` has the type invariant of FairScheduler and the conjunct `Alone` of IngestionJobs (its
  types, and that only the refresh holds rows that are not committed), and `Listed`: a list has messages of its own
  tenant only, what is kept back are retries, the worker is busy exactly while a job runs. Without the owners a
  message could lie in a list where the mapping does not count it.
* The bag is the sum of four numbers, the copies in the tenant's list, in the dispatcher's hands, in the Celery queue
  and among the kept retries. The lemmas `Count...` say what `Append`, `Tail` and removal do to the copies in a list, and
  for each action a lemma `...Moved` adds up what it does to the four: a dispatch moves a copy from one to the next,
  a fetch takes one out, a retry or a redelivery puts one in, a failure takes one at most. `InvStep` combines them.
* `PipelineTypeCorrect` follows, and `PipelineImplementsIngestionJobs`: every step is a step of IngestionJobs or
  a stutter. So the theorems of IngestionJobs hold of the pipeline, with the messages where they
  really are: `PipelineKeepsJobs`, and `RequestsAreFirst` (from `RequestFirst` of IngestionJobs).
* Actions of both parts are conjoined, and a conjunction might forbid what the code does. `MovesAreDeliveries`
  shows that it does not: given `Inv`, the scheduler's part of each such action already gives the bag that the
  jobs' part asks for. `RunsWhatItTakes`: the two agree which message it is that starts.
* Assumed: every job has a tenant (`OwnerOfAssumption`), bounds are natural numbers (`BoundsAssumption`), and the
  messages of dispatches and other tasks are none of a job (`MessagesAssumption`).

**CatalogIngestion**

* `CatalogStaysConsistent`: `Consistent` of the open transaction and of the committed catalog; a made-up key is
  new because they are `Numbered` without gaps.
* `LogIsTrue`, `ChangesStayLogged`: `StoredWorks` says that transaction and database differ only in works that
  the log row counts as stored or failed (`WorkHalfStored` changes a work and counts it as failed), `Ahead` that the
  transaction keeps books and optional fields (titles it may overwrite), `Counts` that fetched works
  are stored, failed or still to do.
* `AuthorsStayRight`: `AuthorsAgree` states it of all rows, linked or not, in the transaction too. Without gaps
  the name and the key at one position belong to one author (`KeyAt`, `AuthorAt`).

**BookResolution** (in ReadingListsProofs)

* `LookupTypeCorrect`; `CatalogIsAskedFirst`: a work's page is asked for at one place, which is reached only when
  the catalog was looked at for this work and missed it (`Asked`).
* `ItemsStayRight`: a work key that the reference lacks is that of an edition of its ISBN, whether the catalog or
  Open Library gave it, and a book found in the catalog is still there when the item is stored, since ingestion
  only adds (`Known`).

**OpenLibraryClient** (in CatalogIngestionProofs)

* `ClientTypeCorrect`; `ClientKeepsInterval`: who is about to send has to sleep for what is missing to the
  interval at least (`SleepCoversInterval`), and a tick takes from the sleep what it adds to the time since the last request.

**ReadingLists** and **PII**

* `ListHasOneCreator`: an insert holds its key until its transaction ends (`Holders`), and a list that is there
  has a creator (`Creators`).
* `NoListIsTorn`: `WholeSubmissions` extends wholeness to what a waiting DELETE has in its snapshot and what it
  has deleted, so that every step moves all items of a submission or none.
* `LaterWins`: `Replacing` follows the items of an earlier submission through snapshot, DELETE and commit;
  `Columned` says that without a rival the list has the columns that the submission loaded.
* `NameMaskHides`, `EmailMaskHides`: names, or addresses, that agree in initials, ends and lengths have one
  mask, for any alphabet and words of any length; proved pointwise about functions.

**RateLimit**

* `LimitIsKept`, `RefusalIsEarned`: up to the limit a counter counts only requests that were let through, above it
  the limit has been let through (`Counts`). A key does not expire before its minute is over (`KeysLast`).
* `HeadersAreReliable`: `Places` reads the header as a place in the count, which the counter does not fall
  below within the minute; so no two are told the same (`PlacesDiffer`). The lemmas about `\div` are about any
  length of a minute.

**Tenants**

* `NamesAndSlugsUnique`: a value that a transaction has entered into a unique index it holds until it ends,
  and no committed row has it (`EntriesHeld`); with `Exclusive` (no two transactions hold one value) a commit adds a
  row that meets no other.
* `AlwaysServed`: `FirstOrAgain` says why seeding cannot fail: the first start finds an empty table and adds all
  defaults, every later one finds them all; requests are taken only in between (`ServedWhenUp`).
* `AnswersTrue`: `TrueSoFar` states it with the answer "ambiguous" in terms of two rows; `TwoInConflict` leads
  back to the number of rows the query finds: never more than two, one by name and one by slug.

**Pagination**

* `AnswersStaySound`: the rows of an order are distinct and selected, and versions only grow (`Answers`).
* `PagesKeepTheTotal`: the rows that were counted are still selected or have departed (`Counted`), and a page up
  to `total_pages` begins before the total (`PageWithinTotal`).
* `NothingIsMissed`: `Walk` says that an undisturbed row that was not seen lies behind the pages
  read so far. Writers leave the rows before it before it (`WriteKeepsInv`), and since it has its place for
  itself, every order puts it right after those (`PositionOfRow`): a SELECT shows it or reads a full page before it.

What the proofs changed: `QueuedIsPending` was false for more faults than retries, which no run has; the
numbering of made-up keys could give a number again; `MissingAuthors` did not say what happens to an
author listed twice; and `MaxVersion = 0` contradicted the type invariant of Pagination.

**Only model-checked.** Liveness, since the prover cannot reason about fairness: `ServedOnceEarlierTenantsDrain`,
`JobsSettle`, `EveryJobEnds`, `CallsEnd` and `EveryoneAnswered` (twice). Every other property of a passing run
is a theorem. With `SlowDispatch`, `TypeCorrect` and
`NoJobDuplicated` hold, the other two theorems of FairScheduler need `~SlowDispatch`.

## 7. Not modelled

* Of the ingestion service: subjects, and the columns that are kept like the one optional field that is modelled
  (year, ISBN, cover, description);
  of the client: text extraction, cover URLs, query parameters.
* The SQL of the filters of a listing: a row satisfies them or not, and may cease to.
* Migrations, settings and start-up are declarative, but for the order in which a container migrates, seeds and
  serves, which is in Tenants. `export_chat.py` is a developer's script.
* A result that Celery stores, and a loss of Redis's data as a whole; a lost message stands for the latter in
  IngestionJobs. More than one worker process is modelled in FairScheduler only, which does not depend on the
  deployment.
* The Redis client does not repeat a call whose answer was lost. This is so in redis-py up to 5; version 6 repeats by
  default, and `requirements.txt:11` (`redis>=5.0.0`) allows it. A repeated push of `enqueue_task` would enqueue a job
  twice, as `IngestionJobs!EnqueueJobAgain` does.

## 8. Plan

Done, in this order: TenantQueues and FairScheduler (the core: every tenant depends on it), its first proofs,
IngestionJobs, ReadingLists, OpenLibraryClient, CatalogIngestion, RateLimit, BookResolution; then Tenants,
Pagination, IngestionPipeline, PII, the columns of ReadingLists, the headers of RateLimit, the proofs of
Tenants and PII; then the refinement of TenantQueues and the proofs of RateLimit, IngestionJobs, ReadingLists,
CatalogIngestion, OpenLibraryClient, Pagination and BookResolution; last the
proofs of IngestionPipeline, the refinement of IngestionJobs among them.

Every invariant and every action or refinement property of the passing runs is proved. Liveness under fairness stays
with TLC: the prover cannot reason about ENABLED.
