# rmg-creator-os: TLA+ models and proofs

`rmg-creator-os` turns a topic into published video. A React dashboard talks to
one Fastify gateway; the gateway keeps its state in Postgres, stores media in
Google Drive, pays HeyGen and Higgsfield for renders and hands finished posts to
Postiz. This directory models the parts of it whose correctness depends on the
order in which requests, workers and outside services act, checks the models
with TLC on small instances, and proves the properties that matter most for
every instance with TLAPS.

Contents: [inventory](#1-inventory) · [modules](#2-modules) ·
[runs](#3-runs) · [proofs](#4-proofs) · [disagreements](#5-where-the-code-and-its-documentation-disagree)
· [abstractions](#6-assumptions-and-abstractions) · [plan](#7-plan).

## 1. Inventory

| Component | State it keeps | Operations | Talks to |
|---|---|---|---|
| Production job queue (`packages/db/src/queue.ts`, `routes/queue.ts`) | `production_jobs` rows: status, attempt, lease, result, idempotency key | enqueue, claim, recover, look up completed work, cancel, retry | worker, A-Roll and B-Roll routes, operators |
| Worker tick (`apps/gateway/src/worker.ts`) | which row a tick has in hand; whether a ticker run is in flight | recover, claim, look up, dispatch, record, back off | queue, HeyGen, renderer registry |
| Governance ledger (`0024_governance_primitives.sql`, `transitions.ts`) | `approval_evidence`, `signing_keys`, `workflow_transitions` | insert, supersede, revoke; constraint and deferred triggers | backfill, publication intents |
| Publication intents (same migration) | `publication_intents` rows | claim a slot, transmit, close | governance ledger |
| Final video pin (same migration) | `productions.final_video_row_id`, `videos.production_id` | pin, unpin, move, rename | video renders |
| Legacy backfill (`legacyApprovalBackfill.ts`) | none of its own | at every boot: read productions and evidence, insert what is missing | governance ledger, delivery approvals |
| HeyGen submission (`packages/integrations/src/heygen.ts`) | none of its own; the provider's keys and history | search, buy with or without a key, replay, adopt | HeyGen; nothing in the repository calls it yet (A-Roll, Studio and the worker call `generateVideo` itself) |
| Video renders (`server.ts`, `studioRender` and final render) | `videos` rows, their files in Drive, background renders in memory | buy, poll, copy to Drive, shelve, tag, approve, delete, assemble | HeyGen, Higgsfield, Drive, final pin |
| Delivery and publishing (`routes/delivery.ts`, `approval.ts`, `postiz.ts`, `server.ts`) | `delivery_approvals` and `delivery_checklist` JSON, `posts` | approve per brand, tick off, compose, publish | Postiz, backfill |
| Ad index, posters, final cuts (`routes/delivery.ts`) | `ad_index`, four columns of `productions`, the files in Drive | issue a code, approve a poster, set a cover, re-upload a cut | Drive |
| B-Roll scenes (`routes/atelier_broll.ts`) | `broll_scenes` JSON, `broll_library` | add, edit, render, approve, discard | queue |
| Sign-in and step-up (`auth.ts`, `stepup.ts`, `founder.ts`, `workerAuth.ts`; `StepUp.tsx`, `authClient.ts`) | signed cookies; the prompt of the page | sign in, step up, gate, send the refused write again | every route, the worker tick |
| Script, direction, voice (`server.ts`) | the production's text, acceptance, stage, lock and takes; `assets` rows | edit, accept, direct, speak, upload, attach, remove, buy | ALLEN, ElevenLabs, Drive |
| Word art (`packages/wordart`) | none (pure) | score, annotate, plan, validate, compile, render | render compositor |
| Ask Allen (`AskAllen.tsx`, `allen.ts`, routes of `server.ts`) | the page's conversation, gate and microphone; `allen_memories` | type, dictate, re-run, meet, list and edit memories | language model |
| Dashboard (`apps/dashboard`) | component state | poll, submit, route | gateway |
| Allie, feeds, YouTube; configuration; clients; types | single-row or none | request and response | — |

`PROJECT.json` lists the same components with what is and is not modelled, and
the hazards of each at the line where they bite.

**What makes each correct.** The queue: a job is executed by one worker at a
time, finitely often, never reported done without work behind it, and always
comes to rest; work whose outcome is unknown is not repeated behind an
operator's back. The ledger: every subject with a history has exactly one live
decision and it is the newest. Intents: a post that may be out keeps its slot.
The pin: it never names another production's video. Submission: an attempt is
paid for again only when all it paid for has failed. Renders: a row never claims
what its render did not do, and in the end says what it did. Delivery: nothing is posted that nobody approved, no
state is invented, and "published" is called what was sent, or what a caller says was. The ad index: codes are numbered
without gaps and never change hands. B-Roll: a scene names real jobs and does not forget one it paid for. Sign-in:
what is let through was proven recently, by somebody who may, and no write waits
for ever. Scripts: an accepted text stands, a stage is earned. Word art: a
validated plan is readable, and a model's hint is evidence only. Ask Allen: a
reply belongs to the message before it.

**What makes them hard.** Each SQL statement is atomic; a request of several
statements is not. Two gateways, a ticker, `POST /worker/tick` and operators
touch the same rows. Workers die between a paid call and the statement that
records it, or outlive their lease. Answers come back out of order. JSON columns
are read, merged and written back whole.

## 2. Modules

### ProductionQueue

`ProductionQueue.tla` models `packages/db/src/queue.ts`,
`apps/gateway/src/worker.ts` and `apps/gateway/src/routes/queue.ts`. Each action
is one SQL statement or one provider call.

| Variable | In the code |
|---|---|
| `req[j]` | the immutable columns of row `j`: capability, idempotency key, priority, max attempts; `Null` before the row exists |
| `status`, `attempt`, `result` | the columns of that name (`result_id`) |
| `lock` | `locked_until`, as the statements compare it with `now()`: NULL, `future`, `past` |
| `pc`, `stale`, `claim`, `got` | a lane's place in `runWorkerTick` or `runWorkerRecover`, the rows its sweep selected, the row it claimed as it was then, the result id it holds |
| `pending` | the row a retry request has read and not yet written |
| `paid`, `runs`, `unsure` | history: paid calls, claims in this life of the row, rows whose executor died without recording an outcome |

| Action | In the code |
|---|---|
| `Enqueue` | `enqueueJob`; the partial unique index on the key decides |
| `SelectStale`, `RecoverOne` | `recoverStaleJobs`: the SELECT, then one UPDATE per row, by id and `status = 'running'` |
| `Claim`, `Leave` | `claimNextJob`'s single UPDATE; nothing to claim |
| `Lookup` | `findCompletedByIdempotencyKey` before a keyed dispatch |
| `DispatchPaid`, `DispatchThrows`, `DispatchStub` | `dispatch`'s branches |
| `RecordDone`, `RecordError` | the completion UPDATE; the catch block with backoff or failure |
| `TryStatementFails`, `TickRejects`, `Crash` | a statement rejects inside or outside the try block; the process dies |
| `LockPasses` | `locked_until` is overtaken by the clock |
| `Cancel` | `cancelJob`'s conditional UPDATE |
| `RetryRead`, `RetryWrite` | `POST /queue/:id/retry`: the check, then the UPDATE by id alone |

A lane is one run of a tick at a time. One element of `TickLane` is the
in-process ticker, which `createNonOverlappingRunner` keeps from overlapping
itself; a second is `POST /worker/tick` or a second gateway.

### JobLifecycle

The abstract specification of what the queue promises about one job: it is
submitted, tried at most `tries` times, executed only while running, comes to
rest as done, failed or cancelled, and only an operator wakes it again. It knows
nothing of leases, keys, statements or sweeps. `ProductionQueue!Lifecycle`
substitutes the rows for it.

### EvidenceLedger, PublicationIntents, FinalVideoPin

The governance tables of migration 0024, as transactions meet them. The clients
are any sessions issuing any statements: what a constraint or trigger refuses is
not enabled, and the session may roll back. Nothing is assumed of the callers,
because today there is hardly one: the backfill writes evidence,
`recordWorkflowTransition` writes transitions, nothing uses
`publication_intents`, and nothing sets the pin.

| Module | Variables | Actions |
|---|---|---|
| `EvidenceLedger` | `ledger`, `log`, `keys`: committed `approval_evidence`, `workflow_transitions`, `signing_keys`; `touched`, `mine`, `cites`: what each session has written and not committed | `Insert`, `Supersede` (the two columns an UPDATE may change), `RecordTransition`, `Commit` (with the deferred triggers), `Rollback`, `RegisterKey`, `UpdateKey` |
| `PublicationIntents` (extends the ledger) | `intents`: the rows | `InsertIntent`, `UpdateIntent`, `DeleteIntent` |
| `FinalVideoPin` | `pin`, `owner`: the committed columns; `myPins`, `myVideos`: a session's versions, its row locks | `SetPin`, `Rename`, `SetOwner`, `DeleteVideo`, `DeleteProduction`, `Commit`, `Rollback` |

Sessions run READ COMMITTED: a statement sees committed rows and its own. A
unique index also meets the uncommitted entries of others (`Indexed`); a
statement that would wait for another session's lock or entry is not enabled
until that one ends.

### Publishing

`routes/delivery.ts` (approvals, checklist), `approval.ts`, the posts and publish
routes of `server.ts`, `postiz.ts`, and the backfill every boot runs. One action
is one SQL statement or one call to Postiz; `req[r]` is a request between its
statements, with what it read.

| Variable | In the code |
|---|---|
| `approvals`, `checklist` | `productions.delivery_approvals`, `delivery_checklist` |
| `posts` | the statuses of the `posts` rows of a production and platform (no unique key: there may be several): `published`, or any other text |
| `evidence` | the decision in `approval_evidence` for (production, brand) |
| `req`, `boot` | requests in flight; each gateway's boot |
| `sent` | what Postiz accepted |
| `asked`, `claimed` | history: the states some PATCH asked for; the posts some PUT declared published |

| Action | In the code |
|---|---|
| `ApprovalRead`/`Write`, `ChecklistRead`/`Write` | the SELECT and the UPDATE of the whole column |
| `PostRead`, `PostWrite` | the SELECT of one row, the UPDATE or INSERT |
| `PublishGate`, `PublishPrepare` | `checkDeliveryApproval` on the row read; platforms and connected channels |
| `PublishAccepted`, `PublishAnswerLost`, `PublishNote` | `createPost`, with or without its answer; the loop that sets the statuses |
| `BootCompute`, `BootFilter`, `BootInsert`, `Restart` | `backfillLegacyApprovals`' two SELECTs and its INSERT, which the live index may refuse; `process.exit(1)`, a crash or a deployment |
| `RequestEnds` | a statement or call fails, or the process dies |

### AdIndex

The rest of `routes/delivery.ts`. `index` is `ad_index`; `adIndexCode`,
`thumbnail`, `finalVideo` and `complete` are columns of `productions`; `cuts` are
the uploads that became a videos row; `folder` is where a file is in Drive;
`configured` are the folders the environment names, which does not change while the
gateway runs. A gateway without an approved folder moves no poster and marks the index
all the same (`FirstMove`).
`Issue*`, `Poster*` and `Cut*` are the statements and Drive calls of the three
routes in their order, `Cover` is `PATCH .../cover`, `RequestEnds` stops a
request anywhere. `DriveMethods` is what the Drive client can do: the routes
declare one type (delivery.ts:15-20) and are passed another (server.ts:2889).

### HeyGenSubmission and PaidRender

`reconcileBeforeRetry` and `generateVideo` of
`packages/integrations/src/heygen.ts`, with HeyGen as it is used. A title stands
for an attempt; `Keyed` are the attempts submitted with an idempotency key.

| Variable | In the code |
|---|---|
| `paid`, `failed`, `key`, `busy` | HeyGen's side: renders bought under a title, those that failed, what a key replays, keys whose first request is still open (a 409) |
| `aged` | attempts older than the replay window, whose keys HeyGen may have forgotten |
| `call` | a call between its requests: searching (page, and the renders no page has shown yet), sending, waiting for the answer |
| `answers` | history: which render was reported for which attempt |

`Begin` decides between searching and sending; `Page` is one page of the history
with the three ways a page may say whether there is more (`PageState`); `Buy`,
`Replay` and `Conflict` are the provider's answers to a generation; `Answered` and
`Lose` end a call; `Settle`, `Forget` and `FailRender` are HeyGen's own steps.
`PaidRender` is what the protocol promises: an attempt is paid for again only when
everything it paid for has failed. `HeyGenSubmission!PaidOnce` is the refinement.

### VideoRenders

The `videos` table of `server.ts`, its files in Drive and the renders that run inside
the gateway. `rows` is the table, `job` the truth about a render, `rendering` the
background renders alive in this process, `req` a request between two statements
with what it read, `files` Drive; `killed` and `raced` are history.

| Actions | In the code |
|---|---|
| `Buy`, `Record` | the submission routes: the paid call, then the INSERT |
| `Poll`, `Ask`, `Answer`, `GiveUp`, `Copy`, `FileCopy` | `GET /heygen/videos/:id`: the SELECT, the status call, the UPDATE by id, the copy to Drive and the UPDATE that files it |
| `Shelve`, `ShelveUpload`, `ShelveRecord`; `Tag`, `TagRecord` | saving to the b-roll library; tagging |
| `Approve`, `Clear`, `SetApproved` | the check, the UPDATE that clears the rivals, the UPDATE that approves |
| `Discard`, `DeleteCopy`, `Drop` | `DELETE`: the file first, then the row |
| `AddStock`, `Import` | the clips that need no render: found stock, and an import of whatever source the request names (`AddReady`) |
| `StartBackground`, `BackgroundUpload`, `BackgroundDone`, `BackgroundFails` | custom and final renders |
| `JobEnds`, `Restart` | the provider ends a render; the process dies with the requests and background renders in it |

### ScriptPipeline

A production from its draft to the paid call. `prod` is its row (text, acceptance,
stage, lock, the take of each voice version), `assets` the files of its `assets` rows,
`files` Drive, `req` a request between two steps; `earned`, `removed`, `named`, `spent`,
`disturbed` are history. `Edit`/`EditWrite` is PATCH, `Accept`/`AcceptWrite` the
acceptance, `Direct`/`DirectWrite` the direction with its call of the language model
in between, `Speak`, `SpeakStore`, `SpeakRecord`, `SpeakPoint` the four steps of a
voice take, `Upload*`, `Attach`, `Remove*` the asset routes, `Host*` and `Buy` the
A-Roll submission with `hostVoiceTrack`, `Die` a step that fails. `Attach` takes any
file, as its route checks none: one of the shared library, another asset's own (`named`
remembers which), or one that is not there. A caller of the submission that names a file
of its own passes the takes over (`Host`).

### BrollScenes

`routes/atelier_broll.ts`. `scenes` and `library` are the two JSON columns, `jobs` the
takes with a row in the queue, `req` the document a request will write back; `stale` are
the requests whose read another write has overtaken, `overwrote` says that one of them
wrote all the same.
`AddScene`, `PatchScene`, `DeleteScene`, `RenderScene`, `DiscardTake`, `ApproveTake`
read and change; `Enqueue` is one `enqueueJob` of a render; `Write` is the UPDATE all
routes end with; `Die` is a request that ends before it.

### Sessions

`auth.ts`, `stepup.ts`, `founder.ts`, `workerAuth.ts`, and the page's side,
`StepUp.tsx` and `authClient.ts`. `config` is what the gateway was started with,
`session` the browser's cookie, `stepups` the step-up payloads signed so far, `write`
the state of each gated write, `waiter` the write the visible prompt will answer,
`popup`, `busy`, `minting` the prompt's own state; `logins`, `overtaken`, `admitted`
are history. `Serve` is the whole gate with the cookie the request carried, which may
be any ever signed; `Submit`, `OpenPopup`, `PopupAnswers`, `StepUp`, `Cancel` are the
prompt and the write it sends again; `Restart` changes the configuration.

### AskAllen

`AskAllen.tsx` with `allen.ts` and the routes behind it. `turns`, `chatting`,
`dormant`, `brand`, `shown` are the page's state, `voice` what the microphone's handler
closed over when it was installed, `calls` the requests in flight, `table`
`allen_memories`, `meetings` what was saved. `Type`, `Heard`, `Rerun`, `Record`,
`ToggleGate`, `ChooseBrand`, `EndMeeting`, `ChangeMemory` are what the user does;
`Serve*` the gateway's handlers, with the memory operations a reply may carry;
`Reply`, `Listed`, `MemorySaved`, `MeetingSaved`, `Lost` the answers, in any order.

### WordArt

The pure pipeline of `packages/wordart`, as operators (`HeroScore`, `EventValid`,
`PlanValid`, `Motion`) and the steps that use them: `Annotate`, `Build` (a plan from
the transcript), `Propose` (one from outside), `Review` (Gate 2), `Compile`, `Render`.
`Heroes` are the segments that reach the threshold and `Nth(n)` the n-th of them;
`Follows(m, n, places)` is the neighbourhood Gate 2 compares in, among all places of a
plan and among its cinematic ones. `ConstantsTyped` is all it asks of configuration and
input: no order of the segments, no range of a hint, no direction of a curve.

### Compositions

Several parts share no state with one another. Three modules run them side by side, so
that one instance checks all of them, and theorems speak of the whole:
`MCRenders` (submission, videos, script), `MCStudio` (pin, videos, b-roll, word art),
`MCPages` (ad index, sessions, Ask Allen). The steps of different parts commute, so an
initial state chooses with `part` which of them runs; the theorems of section 4 hold
for it as for any interleaving, because each part's proof is about all its behaviours.
What parts do share is inside one module: `PublicationIntents` extends the ledger,
`Publishing` holds the approvals, the posts and the backfill's evidence,
`VideoRenders` the table, Drive and the background renders.

### MC modules

`MCProductionQueue` gives the enqueue calls the repository makes (A-Roll with a
key, B-Roll without), the governed capability that can be enqueued and not
executed, a paid job without a key (which `enqueueJob` accepts), and the fault
sets. `MCEvidenceLedger` and `MCPublicationIntents` give contents of decisions,
among them ones the CHECKs refuse; `MCEvidenceLedger` runs the ledger with two choices
of inputs, of which `part` names one. `MCAdIndex` gives the two Drive clients and the
environments with all folders and with none, `MCPublishing` the brands and a symmetry. Of the three compositions above, `MCStudio`
also gives word art's transcripts, hints, proposed plans and motion profile, which its
cfg gives to the constants of those names, and assumes their types (`ArtAssumption`).

### Proof modules

`ProductionQueueProofs`, `GovernanceProofs` (ledger and intents), `PublishingProofs`,
`VideoRendersProofs`, `ScriptPipelineProofs`, `RendersProofs` (submission, and
`MCRenders`), `StudioProofs` (pin, b-roll, word art, and `MCStudio`), `PagesProofs` (ad index,
sessions, Ask Allen, and `MCPages`): section 4.

## 3. Runs

| Run | Instance | What it shows |
|---|---|---|
| `q_races` | 2 rows of any kind, 2 tick lanes, 1 retry, 1 crash or lost statement, leases may be outlived | `AttemptsBounded`, `DoneIsBacked`, `NoCompletedTwin`: attempts are bounded, done rows have work behind them, the key lookup never hits |
| `q_lane` | 2 rows, 1 lane, 3 faults, 2 retries | `HolderOwnsRow`, `UnsureUnkeyedStops`, `Lifecycle`: the lane owns its row, uncertain unkeyed work waits for an operator, `JobLifecycle` is implemented |
| `q_live` | 2 rows, 1 lane, 2 faults of any kind, fairness | `EverySubmissionSettles`, `AbandonedIsMoved` |
| `l_ledger` | 2 sessions, 1 key; 3 rows of one subject in 2 scopes; or 2 rows of 2 subjects, signed and backfilled, and transitions that cite them | `OneLiveAndNewest`, `HistoryIsKept`, `TransitionsCohere`, `AssertionsUnique`: one live decision per slot, the newest; what is decided is kept; a transition cites its own subject's evidence; no assertion is recorded twice |
| `i_slots` | 2 intents, 2 posts, 2 rows, 2 scopes, 1 session | `IntentsCohere`, `KnownPostIsKept`, `SlotReleasedByOutcome`: an intent cites its own decision, a known post is kept, and the next publication of a slot starts only once the one before has ended |
| `d_publish` | 1 production, 2 brands, 1 check, 1 platform, 2 posts rows, 2 requests, 1 gateway | `SentWasApproved`, `StoredWasAsked`, `PublishedWasSent`: nothing unapproved goes out, merges and boots invent nothing, "published" was sent or a caller said so |
| `v_renders` | submission: 2 attempts (one keyed), 2 renders, 2 calls, 2 pages; videos: 2 rows, 1 production, 2 requests, 2 files, 1 restart, three kinds of source; script: 2 texts, 2 assets, 1 file, which both may name, 2 requests | `OneLiveRender`, `PaidOnce` (the refinement of `PaidRender`), `RowTellsTheTruth`, `OneApproved`, `StageIsEarned`, `AssetsAreBacked`, `AcceptedStands` |
| `g_studio` | pin: 2 productions, 2 videos, 2 transactions; videos: 1 row, 2 requests, 1 restart, fairness; b-roll: 1 scene, 2 takes, 1 provider, 2 requests; word art: 2 segments with any hint, or a plan of up to 3 events in several orders, compiled for 1 target with 1 profile | `PinIsOwned`, `TakesAreReal`, `OnlyOverwritesLose`, `PlacedApart`, `EvidenceOnlyBlends`, and `EveryRenderIsTold` under fairness |
| `g_pages` | ad index: 2 productions, 1 slot, 2 versions, a poster and a cut, 2 requests, all folders or none, the declared client; sessions: 2 emails, 2 configurations, 2 writes, a window of 1 of 2 ticks; Ask Allen: 2 messages, 1 memory, 1 brand, 4 turns, 2 calls | `VersionsDense`, `CodeNamesItsProduction`, `CutsAreOwn`, `MarkedPosterIsFiled`, `AuthorityIsProven`, `NobodyHangs`, `ReplyFollowsQuestion`, `ListIsCurrent` |
| `q_doc_rerun`, `a_doc_cut`, `b_doc_library` | as small | section 5 |

Bounds. `MaxJobs`, `MaxFaults`, `MaxRetries`, `MaxSeq`, `MaxRows`, `MaxAsked`,
`MaxSent`, `MaxVersion`, `MaxPages`, `MaxRestarts`, `MaxTime`, `MaxTurns` and
`MaxCalls` are the only ones, and each is a conjunct of a guard or a range of an
input. Two rows are the fewest that compete for a claim, a slot, a sweep's limit or an
approval; three decisions the fewest in which a chain has a middle; two lanes, sessions, calls
or requests the fewest that race, and every race in the code is between two.
`maxAttempts = 2` is the schema's default, so one fault reaches the boundary and two
pass it. Two versions of one slot are enough for a stale read and a gap. Two brands
are needed because a wrong gate or a lost merge shows only with the other brand's
state. Three events are the fewest with a pair that Gate 2 never compares. Two pages are the fewest that a search can stop between; a second restart meets
nothing the first did not leave. A step-up window of one tick out of two lets a
step-up be too young, at its limit and too old. Four turns hold a question, its reply
and a re-run in the middle. The proofs remove the bounds from the safety properties.

Symmetry is over sets whose elements no definition names: lanes, sessions,
requests, rows, intents, calls, renders, files, texts and videos. The runs with a liveness property use
none.

Fairness. `q_live`: `WF(LaneStep(l))` for every ticker lane: `setInterval` fires, and a
statement or provider call that was sent returns (the HTTP client has default
timeouts). `WF(LockPasses(j))`: the clock moves. No fairness for callers,
operators, `POST /worker/recover` or faults. `MaxFaults` bounds how often the
environment interferes; a gateway that crashes for ever settles nothing.
`g_studio`: a handler that started goes on (`WF(Finish(q))`), a provider and the
renderer end their renders (`WF`), and the dashboard, which polls what is processing
every few seconds, gets its poll served and answered again and again though other
requests keep both request slots busy at times (`SF`). No fairness for approvals,
deletions, shelving or restarts. The other parts promise nothing about progress: every
request may end anywhere.

Deadlock is checked except in `v_renders`, and in `g_studio` and `b_doc_library`, whose parts may really
stop: all renders the instance has are bought and settled, or the one transcript is
rendered.

## 4. Proofs

**`ProductionQueueProofs`** holds for every instance, with every race and fault
the model has.

- `Typing`: the type invariant, including that rows in hand exist.
- `AttemptsStayBounded`, by adding to `AttemptsBounded` that snapshots held by
  lanes and sweeps carry attempts that were legal when read: recovery and the
  catch block write `snapshot + 1`.
- `RunningRowsAreLeased`: only `Claim` makes a row running, and only statements
  that move it out of running clear its lease.
- `LookupNeverHits`, from: two rows never share a key.
- `DoneRowsAreBacked`, by adding that what a lane is about to record is backed;
  the twin branch of `Lookup` is excluded by the previous theorem.

The rest of it assumes the deployment the code describes
(`Deployment`: no worker outlives its lease; one lane, or no faults; one
operator). With several lanes and no faults it covers concurrent ticks for any
number of rows and lanes.

- `HolderAlwaysOwnsRow` rests on `HoldInv`: only a sweeping lane has rows its
  SELECT found stale; a retry past its check still finds the row stopped; and
  without faults every running row is in somebody's hands under a live lease, so
  no sweep finds anything.
- `RunsStayBounded` rests on `RunInv`: the runs of this life are at most
  `attempt` for a queued row and `attempt + 1` for a running one, and a stale
  row that is still running carries the attempt its sweep read.
- `UncertainWorkWaits`, `OutcomesAreFinal`.
- `QueueImplementsLifecycle`: the initial states map to initial states and every
  step of the queue is a step of `JobLifecycle` or leaves its variables alone.

**`GovernanceProofs`** holds for any number of rows, slots, sessions and
keys. `LedgerInv` is `TypeOK` with: row locks are exclusive and a session's
version differs from the committed one only by its supersession (`LockInv`); a
successor named by a version exists for the session that sees it (`ReferInv`);
every committed row passed the deferred trigger (`ChainInv`); no unique index
holds two entries for a key, among what a session sees and between two sessions
(`UniqueInv`). `OneLiveDecision` needs all four: the live decision of a slot is
the end of the chain its triggers checked, and the chain's ordinals increase.
`ReplayIsRefused`, `HistoryKept`, `OnlyNewerReplaces` follow
from the same invariant or from single steps; `TransitionsAreCoherent` adds that
what an uncommitted transition cites stays visible to its session with its slot.

Above the ledger, the intents leave the ledger alone
(`IntentsLeaveLedger`: the composition implements the ledger's `Spec`), so the
coherence of an intent, checked when it was written, lasts because history is
kept (`HistoryStep`). `KnownPostsAreKept` is about the table's own steps, and so is
`SlotsAreReleasedByOutcome`, with the lemma that a slot holds one open intent
(`SlotIsExclusive`).

**`PublishingProofs`** states each part of the invariant relative to the sets
that only grow, `asked`, `sent` and `claimed`: whatever a request or a boot holds, however
stale, was asked for, sent or declared, so writing it back cannot invent anything.
`OneBootNeverCollides` assumes one gateway (`Boot = {g0}`) and adds that what a
boot found missing stays missing until it inserts.

**`VideoRendersProofs`** (assuming `MaxRestarts \in Nat`). What a request read is
stale as soon as it is read, so `IInv` says what stays true of it (`Holds`): an answer
"completed" or "failed" is what the render did, because an ended render does
not end otherwise, and a request that passed the check of an approval has a render that
completed. `RowsNeverLie` follows. `OneApprovalStands`
needs in addition (`AInv`) that, while no two approvals were ever in flight together,
there is at most one approval under way, the row it chose keeps its production
and source, and between its two statements no rival is approved.
`ProcessingRowsAreTended` is the safety half of `EveryRenderIsTold`: a row that says
"processing" has its render alive in the gateway, or a provider that knows the render
and that a poll may ask, or was left by a restart. It needs (`TInv`) that a row has a
render, and that a poll under way, however late its answer, is about a row of a polled
source or one that is gone for ever: so no answer takes a row of a background render back to "processing".

**`ScriptPipelineProofs`** (assuming `Library \subseteq File`, and for files that
`Null` is none). `StageInv`: the stage a direction carries across its call is one the
production has earned, and what was earned is never lost.
`FileInv` follows a file through an upload (`CarriedInv`: it is in Drive and nobody
else's), its row (`RowsInv`), a removal (`RemovalInv`: it deletes no file of an asset
nobody removed, unless a caller attached that file) and the pointer set last
(`PointInv`). `TurnInv`: while nothing was disturbed at most one request is in
flight, and an edit is in flight only while nothing is accepted.

**`RendersProofs`**. `NeverTwoLiveRenders` rests on `IInv`: `TypeOK`; a key holds the
attempt's only living render, and a key that never aged and holds none was never paid
for (`KeyInv`); an attempt without a key has one call at a time (`Alone`: its caller
does not make it twice); and a search has not passed over a living render that no key
holds, so that a call about to buy knows that none lives (`Informed`, the reason a page that
contradicts itself must not count as the last).
`SubmissionPaysOnce` is the refinement, step by step. The second half names what is
composed: `PartsBehave` shows that a behaviour of `RendersSpec` is one of each part,
and the parts' theorems follow for the composition.

**`StudioProofs`**. `PinInv` is `TypeOK`, which holds that locks are
exclusive and that a session has locked every video it pins, `ViewsOwned` (every
session reads each pin as naming a video it reads as the pinner's) and `PinIsOwned`. The steps are
of two kinds, writes of one session and ends of a transaction. `TakesStayReal` rests on
`BrollInv`: not only the stored document but every document some request will write is
real, since a write replaces the whole of it. `OnlyStaleWritesLose` adds (`FreshInv`, in
`LossInv`) that until a stale request has written, a request in flight that is not stale
holds a document and a library that keep all there is but what it removes: a write makes
every other request stale, and a step that is no write only adds. It assumes
`NullIsApart`.
Of word art, `ArtInv` keeps the types, that there is no request before a plan was
reviewed, and what the review found. `ValidatedPlansAreReadable` (`ReviewedIsApart`):
Gate 2 compares each event with its predecessor only; were some events too early, take
the first (the naturals are well-founded): it follows its predecessor, and the
predecessor, not being too early itself, follows all before it. `HintsOnlyBlend` rests on bounds of
the integer arithmetic: a blend of two scores below the threshold is below it, and an
interpolation between two values stays between them, whichever way the curve runs.
`PlansAreBuiltInOrder` counts: the number of heroes up to a segment (`Rank`) increases
from hero to hero and leaves out no number, so `Nth` exists and is increasing.
`RendersAreAsReviewed`: a request has the timing its event had when it was reviewed,
requests of different events never overlap in time, whatever target, placing or profile
they were compiled for, and a result answers a request that was made. Nothing is claimed
of keys: two requests of one event may share theirs (section 5). They assume `ArtAssumption`.
`StudioStaysSound` is the composition.

**`PagesProofs`**. For the ad index, `HeldOk` is what a request relies on between its statements
(a code it read names its production, a version it will insert has all lower
ones below it, its poster has been moved if there is a folder for it, its cut is stored) and `Later` what
every step preserves of it, so one lemma (`HeldStays`) covers all interference.
`AuthorityStaysProven` (assuming `Deployable`: the founders' list is a sequence of
entries and the bounds are numbers) needs that every signed step-up came from a real
login, and that the entry `FounderOf` finds, the last one that
matches, is in the list (`GreatestIsMember`, by well-founded induction on the naturals).
`NobodyIsLeftHanging` is inductive as it stands.
`RepliesFollowQuestions` (`TalkInv`) needs that every conversation a handler closed over
is paired too, and that a chat in flight began with one that ends with its question:
the reply replaces the conversation by that one. `ListStaysCurrent`
(`CurrentInv`) says what each pending answer would make the list, as long as no two
requests crossed. `PagesStaySound` is the composition.

Also proved, and no property of a run of their own: the type invariants,
`RunningIsLeased`, `RunsBounded`, `OutcomeIsFinal`, `NewerReplaces`, `EvidenceIsHistory`, `BootsNeverCollide`,
`CodesAreNeverReused`, `StillTended`, `BuiltInOrder` and `RenderedAsReviewed`.

Only model-checked: `EverySubmissionSettles`, `AbandonedIsMoved` and
`EveryRenderIsTold` (liveness under fairness is out of the prover's reach), and the
disagreements below, which are counterexamples. Every safety and action property of a
passing run, and the refinements, are proved.

## 5. Where the code and its documentation disagree

Each run ends with a counterexample; `PROJECT.json` quotes the text.

| Run | What happens |
|---|---|
| `q_doc_rerun` | A keyed job whose worker dies after the paid call pays again: the lookup that should find the completed work excludes the row itself, and no other row can carry its key. |
| `a_doc_cut` | The Drive client passed to the delivery routes has no `upload` and no `move`; a final cut cannot be stored, nor a poster approved with a file, once Drive is configured. `g_pages` is about the client the routes declare. |
| `b_doc_library` | A take is approved, then discarded or its scene deleted: it stays in `broll_library`, and the download and the final package (`delivery.ts:263`) go on offering it as an approved clip. |

Met while modelling; the models behave the same way, and the properties of section 3
say what holds nevertheless. None of these has a run of its own.

Queue and delivery
- The queue row an A-Roll render enqueues to track itself
  (`server.ts:2167`) is claimed and rendered again by an enabled worker.
- A worker that outlived its lease overwrites a row the operator cancelled
  (`worker.ts:182` matches by id alone).
- Two gateways that boot together: both find the same rows missing and the
  second exits on the live index (`legacyApprovalBackfill.ts:128`), where `server.ts:314` says the backfill is
  safe on every boot. The deployed compose file starts one.
- Two overlapping PATCHes for different brands: the second writes back the map it
  read and undoes the first (`delivery.ts:151`, `delivery.ts:160`).
- Two saves of a post make two rows for a platform (`server.ts:2337`), where `schema.ts:147` says
  one; and a save after a publication sets the status back to draft.
- `PUT .../posts/:platform` stores any status its body carries (`server.ts:2349`),
  `published` with nothing sent included, where what ALLEN is told says "confirmed live
  with a postUrl" (`server.ts:2490`); and publishing stores `published` without a
  `postUrl` (`server.ts:2469`). `PublishedWasSent` excepts what a caller declared so.
- Approving a poster with `issue_ad_index` does not record the poster's file in
  the index, and a stale approval writes back the older code it read.
- Without `ATELIER_APPROVED_FOLDER` a poster is not moved (`delivery.ts:102`) and its
  code is marked approved all the same (`delivery.ts:122`); `MarkedPosterIsFiled` is
  about gateways that have the folder.
- `poster/approve` takes any Drive file id and checks neither its owner nor its kind.

Renders
- Two overlapping approvals leave two renders approved, where `server.ts:2240` says
  one per production and source; `OneApproved` is about approvals that do not overlap.
- Two overlapping polls copy a finished render to Drive twice (`server.ts:505`), and a
  slow one writes "processing" over a newer "completed"; a later poll corrects it.
- A background render that dies with the gateway leaves its row "processing" for ever
  (`server.ts:1026`); `EveryRenderIsTold` excepts it.
- Saving a take to the b-roll library leaves the older Drive copy behind.

Scripts
- A PATCH that passed its check before an acceptance writes its text after it and
  clears the acceptance; `AcceptedStands` is about requests served in turn.
- A direction without `lock` writes back the lock and the stage it read before the
  call.
- `POST .../assets/attach` takes any Drive file id (`server.ts:1026`), and `DELETE
  /assets/:id` deletes the file of its row: removing an attachment deletes the shared
  file of the library, or another asset's own. `AssetsAreBacked` excepts files that were
  attached.
- `hostVoiceTrack` synthesizes again when the v3 take it prefers cannot be served,
  though a v2 take exists (`server.ts:1737` says never).
- The check for two people in a frame passes when two of three characters have
  elements.

B-Roll
- Takes stay "queued": no code writes their status or file. Overlapping requests lose
  jobs that were paid for and approvals of the library: a route writes back the document
  it read before its calls, over what was written since. `OnlyOverwritesLose` says that
  nothing else does.
- Approving a take twice lists it twice in `broll_library`; the model has a set.

Pages
- A second step-up prompt orphans the write that waited for the first.
- The microphone's handler keeps the gate and the conversation it was installed with:
  it answers while the page is dormant, and drops turns added since.
- A list answered late for another brand replaces the list shown.

Word art
- `validateWordArtPlan`'s comment (`wordArt.validate.ts:152`) says events are
  validated individually; the function looks only at the plan. The builder writes
  `density.violations` as empty.
- `idempotencyKey` is made of the event and the target (`wordArt.compile.ts:152`) and not
  of the output, the text box or the motion profile, so two different requests can share
  a key; `requestId` is `rr_` and the event's id, so requests for different targets share
  that, and a result names no more than it.

## 6. Assumptions and abstractions

- A statement that fails had no effect. A commit whose acknowledgement is lost
  is not modelled for SQL; for the paid provider call and for Postiz it is.
- `FOR UPDATE SKIP LOCKED` is linearised: two claims never see the same row.
- Row `j` is the `j`-th by `enqueued_at`.
- Timestamps, `worker_id`, `provider`, the payload and error texts are left out:
  no statement's control flow reads them, apart from the payload checks folded
  into `DispatchThrows`.
- `awaiting_approval` is in the enum and no code moves a row into it; the gate
  columns of migration 0024 are not read by the queue's statements.
- No code deletes productions or codes, so rows are never cascaded away.
  `FinalVideoPin` allows the deletion all the same, as the schema does.
- Deadlocks between transactions appear as `Rollback`.
- Captions, hashtags, the choice of the video to post and the media upload are
  left out of `Publishing`; a request a check refuses has no effect and is no
  step.
- Poster files are made for one production, and the dashboard approves a
  production's own. Values of a code's first four parts hold no hyphen.
- Deleting a video or an asset, with its Drive file, is outside `AdIndex`: a
  production may go on naming a cut whose row was discarded later.
- HeyGen is external: a title names one attempt and is unique to it, a replayed key
  answers with the render it bought, a forgotten key buys anew, and pages show each
  render at least once unless the paging itself is inconsistent.
- `VideoRenders`' rows have ids of their own: the queue and the submission reach them
  only through the render they bought. Drive never re-uses a file id; ids of deleted
  asset rows are not used again (they are UUIDs).
- Signatures are abstract: a cookie that verifies was signed by this gateway.
  Time in `Sessions` is a small clock, the window its only use.
- Word art scores are integers in hundredths where the code has floats.
- The proofs assume, besides the constants' assumptions in the modules, what they
  name: `MaxRestarts \in Nat`, `Library \subseteq File`, `Deployable`, and that `Null`
  is apart from the values it stands beside (`NullIsApart`, `Null \notin File`,
  `Null \notin Write`).

## 7. Plan

Done: every component of section 1 with a state that steps can disagree about, each
with its safety properties proved, and with liveness where the code's scheduling
justifies one.

Worth doing next: the queue composed with `BrollScenes` and `VideoRenders` through a
shared table of jobs, once code connects their results; a refinement of `VideoRenders`
to a render seen from the dashboard, of which `ProcessingRowsAreTended` is a part.

### Not modelled

- Revision digests (`digest.ts`): one hash of a production's fields that no route calls.
- HeyGen's avatars, voices and the caller's scope: single requests and pure filters.
- Compositions (`compose.ts`): the construction of one HTML text.
- Renderer registry, Higgsfield, Drive and stock clients: they keep no state; what
  their calls can end in is an input of the modules that call them.
- Allie, feeds and YouTube: request-response proxies without state.
- Configuration and its report: read once at start. What `Sessions` needs of it is its
  `config`.
- Characters and brand settings: one row read or written at a time.
- The other pages of the dashboard: they show what the gateway answers. Their polling
  is `VideoRenders`' fairness; the two pages with a protocol of their own are modelled.
- Types, the migrations runner and deployment: declarations.
