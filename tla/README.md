# krply in TLA+

krply records the changes of a Kubernetes cluster in a journal (`krply record`),
rebuilds past states from it, and plans and applies replays of them into another
cluster. This directory holds TLA+ models of the parts of krply whose
correctness depends on order, failure and concurrency, the TLC configurations
that check them on small instances, and TLAPS proofs for every value of the
constants. Paths below are relative to the repository.

## The system

| part | state | operations | talks to |
|---|---|---|---|
| stream loop, `internal/watch/stream.go` | `lastRV`, `backoff` (locals of a goroutine, one per resource) | list and store a baseline, open a watch, store events, bookmarks, gaps; reconnect, back off, stop | API server, journal |
| supervision, `internal/watch/collector.go` | error channel, done channel, contexts | start all streams, wait, cancel the rest when one fails | stream loops, the caller |
| journal, `internal/storage` | records in ingest order, one metadata row per stream, snapshots; SQLite or memory | append one, append a batch, deduplicate by `event_id`, queries | everyone |
| event types, `internal/event` | none | record and watch types, stream id, `event_id` | journal, stream loop, audit |
| materializer, `internal/materialize` | none; reads the journal | reduce a stream, state at a time, snapshot, diff | journal |
| planner and sanitizer, `internal/replay/plan.go`, `sanitize.go` | none; makes plans | filter, exclude, sanitize, map, order | materializer |
| dry run and apply, `internal/replay/apply.go` | a plan's status, target context, warnings, under the plan's lock | dry run, apply, ensure a namespace | target cluster |
| query server, `internal/api` | the map of plans under `planMu` | create, list, get, dry-run and run plans; event pages, object history, snapshots, diffs | all of the above |
| audit, `internal/audit` | none | ingest an audit log, correlate with events | journal |
| server process, `cmd/krply-server` | none | start, seed a demo journal, serve, stop | journal, query server |
| command line, `cmd/krply` | none | record, timeline, diff, export, coverage, replay | all of the above |
| metrics, discovery, web UI | configuration, counters | start-up, formatting | all of the above |

What is hard in it:

- **The stream against the server.** Events are sent late, again, or never (the
  version expired); connections end; lists may be old; the process may die
  between any two steps and starts over with nothing but the store. The journal
  must show a state the collection really had, without holes, or say that there
  is a gap.
- **Two readings of one journal.** The store's metadata row and the materializer
  both decide whether a stream has a gap, in different code.
- **Run and its goroutines.** Streams fail together, cancel each other and are
  cancelled by the caller, and one select decides what the caller is told.
- **Plans under locks.** Requests create, list, read, dry-run and apply plans at
  once. A dry run permits one apply; others write to the target in between.
- **Many streams, one clock, one store.** A record is stamped first and stored
  later. Snapshots, diffs and plans ask for a time; whatever they are told must be
  a state that existed, and must stay what it was.
- **Commands of several steps on a store that others write to.** A snapshot is two
  writes, a diff two queries per stream, an export a page at a time from a server
  that may be restarted, an audit log is matched first and stored later.
- **What a replay carries over.** A plan must not bring along what belongs to the
  source cluster, overwrite one of its objects with another, or lose one silently.

`PROJECT.json` lists every hazard at its line with the properties that cover it,
or the reason why none does.

## Modules

| module | models | code |
|---|---|---|
| `Collection` | objects and watch types | `internal/event/record.go` |
| `ApiServer` | the API server as client-go shows it (external): a history of writes, compaction | - |
| `Journal` | records, `event_id`, append, batch, metadata row | `internal/event`, `internal/storage` |
| `Materialize` | `reduce` and `ObjectAt` of one stream; `Shows`, `View`, the meaning of a journal without the loop | `internal/materialize/materialize.go` |
| `Collector` | `runStream`, `listAndBaseline`, `drainWatch`, `writeGap`, `sleepBackoff`, store failure, cancellation, process restart; composes the three modules above | `internal/watch/stream.go` |
| `Replica` | abstract specification: a copy that is always a real state, never goes back, and skips changes only by starting over | - |
| `CollectorProperties`, `CollectorInvariant` | properties of `Collector`, the refinement of `Replica`, the inductive invariant | - |
| `CollectorRun` | `Collector.Run`: goroutines, channels, the select | `internal/watch/collector.go` |
| `PlanRegistry`, `PlanRegistryProperties` | the plan handlers of the server with `DryRun` and `Apply` | `internal/api/server.go`, `internal/replay/apply.go` |
| `Recording` | several streams that stamp and store records in one journal, and the queries by time | `internal/watch/stream.go`, `internal/storage/sqlite.go` |
| `Snapshots` | `Snapshot` with its two writes, `StateAt`, `Diff`, `handleSnapshots`, `handleDiff`, on top of `Recording` | `internal/materialize`, `internal/api/server.go` |
| `AuditCorrelation` | `Ingest` of an audit log, on top of `Recording` | `internal/audit` |
| `JournalReaders` | composes the three, with the properties of all answers | - |
| `Archive` | abstract specification: what the recorded past is worth, a store whose answers come from the collection itself and stay | - |
| `AtomicExport` | abstract specification: an export is one atomic read of the journal | - |
| `EventPages` | `handleEvents`, the paging loops of `krply export` and `krply coverage`, `seedDemo` and the life of the server process | `internal/api/server.go`, `cmd/krply/export.go`, `coverage.go`, `cmd/krply-server/main.go` |
| `Planner` | `Planner.Plan`, `excludeReason`, `sanitizeObject`, `mapNamespace` | `internal/replay/plan.go`, `sanitize.go` |
| `FieldDiff` | `DiffObjects` and `ignoreKey` on values by their paths, with a reference definition | `internal/materialize/diff.go` |
| `FieldWalk` | `diffValue` as the recursion it is, checked against `FieldDiff` | `internal/materialize/diff.go` |
| `ObjectTimeline` | `handleObjectHistory` with `buildTimeline`, the timeline of `krply timeline`, `DiffObjects` | `internal/api/server.go`, `cmd/krply/timeline.go` |
| `JournalReadersInvariant` | the inductive invariants of `JournalReaders`, checked by TLC and used by the proofs | - |
| `MC...` | instances for TLC | - |
| `JournalLemmas` | lemmas: finite sets of numbers, the collection of a history, what a journal shows, `Reduce` and `Picked` | - |
| `CollectorProofs`, `CollectorRunProofs`, `PlanRegistryProofs`, `EventPagesProofs`, `PlannerProofs`, `JournalReadersProofs`, `ObjectTimelineProofs` | proofs | - |

### Collector

`pc` is the place in `runStream`; `lastRV`, `backoff` are its locals; `list` is
the answer of a List that is not yet stored; `pos` is how far the open watch has
sent. `journal` and `meta` are the stream's rows of the store. `base`, `seen` and
`session` are history variables that no action reads.

- A resource version is the number of a write in `history`; an object's content
  is the version that last wrote it. The code compares versions as integers where
  they parse (`resourceVersionBefore`), so numbering loses only versions that do
  not parse.
- The observation time of a relist is the journal's length plus one: what matters
  of it is that two relists never share one.
- The code goes from a stored baseline straight to `Watch`; the model passes
  `loop`. The difference is the context check, which ends in `return nil` both
  ways.
- `Restart` loses every local at any point. The process has no recovery code:
  `lastRV` is not read back, the stream lists again.
- `StaleLists`, `Resends` and `GoneAtStart` switch server behaviours: a list at
  `resourceVersion "0"` that is served from a lagging cache, a reconnected watch
  that sends events of this session again, and an expired version that is refused
  with HTTP 410 when the watch starts instead of a 410 error event on the watch.

### CollectorRun

`closed` is the set of closed channels (the caller's context, the streams'
context, `done`), `stream[s]` is the place in the goroutine of `s`, `errCh` the
buffered channel. A stream is abstracted to the outcomes `Collector` has: nil
only when its context is done, the context's error when that happens in a List,
a failure or a panic at any time. Go's select is modelled as Go does it: a select
that finds several cases ready takes any of them (`SelectCanceled`,
`SelectError`, `SelectDone`); one that finds none parks, and the first case that
becomes ready is taken there and then (`parked`).

### PlanRegistry

Every client has one request in flight; `request[c].at` is the place in its
handler. `holder[p]` is the writer of `Plan.Mu`, `readers` and `waiting` are the
readers of `planMu` and the writers that wait for it; as in `sync.RWMutex` a
waiting writer keeps new readers out. Reading a plan under its read lock is one
step (nothing in it can block once it has the lock). `DryRun` and `Apply` go
through the objects one call at a time; any call may fail. `owner` and `spaces`
are the objects' field managers and the namespaces in the target cluster, to
which others write at any time (`ForeignWrite`).

The server passes no kubeconfig path, and `restConfig` then ignores the context
name: there is one cluster, `Current`, and `target[p]` is only what the plan
shows. `krply replay apply` without a server does pass a path; it works alone on
a plan of its own process and has no concurrency, so it has no model of its own.
The history variables: `fresh[p]`, a dry run of `p` passed after its last apply
began; `quiet[p]`, nobody else wrote since the last dry run of `p` began;
`work[p]`, the context of the work that set the status.

Left out: the texts of warnings and conflicts (applying a plan that skips objects
appends the same warning again on every dry run), deletions in the target
cluster, and that a Namespace object in a plan creates the namespace too
(`ensureNamespace` comes first for whatever needs it). The planner that makes the
plan has a module of its own.

### Recording, Snapshots, AuditCorrelation, JournalReaders

`Recording` sees a stream from farther away than `Collector`: it lists, receives
the next change or loses track, and what it has made is `inFlight` until `Store`
appends it in one transaction. That `Collector` behaves like this is what its
runs and proofs show. A list with `resourceVersion` "0" (`stream.go:131`) may be of
any version (`ListedFrom`). **Assumption:** with `ListsGoBack = FALSE` no relist is
older than what its stream has stored. The code does not see to that; what happens
otherwise is the violation run `collector_stale_list`, and the same happens to the
readers: with `ListsGoBack = TRUE` TLC finds `AnswersGoForward` and
`DiffGoesForward` violated at once, and `ImplementsArchive` cannot hold. The other
properties of `JournalReaders` do not need the assumption.

What is new is time. Every reading of the clock (`ReadClock`) gives a later one; a
relist reads it once for all its records (`List`), an event when it arrives
(`Receive`); other streams may store in between. A query compares times as the store keeps them (`Stored`, `NotAfter`):
SQLite keeps milliseconds, so `Resolution` readings of the clock look alike.

`job` is the one snapshot or diff that is being taken: its queries run one at a
time (`ReadStream`) while the journal grows; then a snapshot saves its row
(`SaveSnapshot`) and its record (`RecordSnapshot`), and may fail in between
(`JobFails`). `settled` is a history variable: nothing that is still under way
can carry the time that was asked for. A plan and the list of snapshots rebuild
the state from the row's time (`AnswersNow`), and that is all a row has.

An audit log has an entry per stage of every write, with the time of the request,
which is earlier than the time of any record of it. `MatchLine` queries one entry
at a time, `AppendBatch` stores what was found. `correlated` is a history
variable.

`Archive` states what all this is for, without records, queries or a clock: there
is a history of the collection, and an answer is the collection at one of its
versions. All answers of a stream at one moment, for whatever times, are one walk
through the history; a time that is settled keeps its answers; a snapshot of a
settled time has the answers of all streams at once. `JournalReaders` maps to it
(`Past`): the whole answers for every time, the settled times, and the snapshot in
hand, but for the streams it reports as incomplete. A stored record is a step of
`Learn`, which may change or take away what was known of unsettled times only (a
GAP does take away); the last of a snapshot's queries is `TakeSnapshot`, though the
queries before it ran on shorter journals.

Left out: that the two stores order streams differently (their answers are sets
here), the names and texts of snapshots, clusters other than one, the
provenance that a correlation record copies, and that a match looks at no more than
500 records of an object within its window (`audit.go:74`), so that an entry of a
very busy object may find no match. `seedDemo` appends to the same journal and is
in `EventPages` only: `SnapshotRecordHasRow` is about the records that
`Materializer.Snapshot` writes.

### EventPages

`journal` is the table of records with their number as `ingest_seq`; of a record's
content it keeps whether the filter of the export lets it pass (`wanted`) and
whether it is of the demo. `IsPage` is the query with its limit, `HasMore` the one
record more that is asked for, `NextCursor` the number of the last record of the
page. `FetchPage` is a request, its answer and the client's step; a lost request
or answer, a server that is down and a timeout are `FetchFails`. `krply export`
gives up after 1000 pages (`MaxPages`), `krply coverage` never (`Unlimited`). The
server process goes through `seedDemo` call by call and may end at any of them.

`AtomicExport` states what a reader of the output may assume: it is the journal,
filtered, as it was at one moment between start and end. The refinement maps the
output of an export that has not ended well to nothing.

### Planner

One action per way through the loop of `Plan`: a state that cannot be decoded, one
outside the source namespace, one excluded by kind, one that collides, one that is
planned; then the sort, which is not stable. `taken` is `seenTarget`. An object is
its kind, name, namespace, the fields it has, its finalizers and a namespace in
its spec. `Sanitized` takes away the fields that `stripMetadata`,
`sanitizeService` and `stripWorkloadTemplate` delete. `Mapped` moves the namespaces
of the metadata and of the spec to the target; without a target it takes that of
the metadata out of the payload and leaves that of the spec. Names of namespaces
elsewhere in a payload (the subjects of a role binding, the service of a webhook),
which no code touches, are not in the model. The commands reach the
default policy only (`Policy = {}` in the run, with and without `AllowGaps`); the
proof holds for every policy. A Namespace object is not renamed when its namespace
is mapped, and the plan-only kinds of the documentation are planned and applied
like any other; the model does the same.

### FieldDiff, ObjectTimeline

A value is a function from its paths to what is there: a leaf, an integer, a map, a
list of some length. A path is a sequence of steps (the code's strings escape what
would make two paths alike, `joinPath`; a key at the root that is empty would still
have the path of the root, and `IsObject` assumes that there is none). Both objects
are decoded first (`Parsed`), which makes every number a float64: `Float64` rounds
to the nearest multiple of the gap between numbers of its size, and up to `Exact`,
2^53 in Go, it changes nothing. `diffValue` comes to a path when everything above it
is alike on both sides and not ignored (`IsReached`), and what it finds different
there is a change (`Differences`; `DiffObjects` with the decoding). `FieldWalk` has
the recursion itself (`ParsedValue`, `DiffValue`), on values as maps of maps; the
assumption `WalkAgrees` of `MCObjectTimeline`, which `object_timeline` evaluates,
compares the two on every pair of 144 objects, and `RoundsToNearest` compares
`Float64` with its meaning for every integer. Payloads that are no JSON object
are left out. `Declared` and `Patched` are the reference: what of an object
its users declare, and what a reader of the changes would make of the old object.

`ObjectTimeline` first fills the history of one object and the markers of its
stream with any times, since records of one object need not have increasing ones
(an audit record has not, nor has a clock that was set back). Then the server is
asked for a window (`Ask`, `TellEvent`, `TellGap`), or the command prints the rows
since a time (`PrintLocally`), or two states are compared (`Compare`). The server
sorts by time before it compares and cuts before it sorts; the command compares in
the order of the journal, cuts as it goes and sorts last. Both sorts are stable, which `Earlier` says of two
entries: by time, then by the query they come from, then by their place in it. Bookmarks and errors,
which no record of an object is, are left out, and so are the six changes after
which a row ends in dots. `krply timeline --server` prints the server's items and
then the stream's gaps once more; it has no model.

## What is checked

| run | instance | shows |
|---|---|---|
| `collector_safety` | 2 objects, 4 versions, 1 restart | `PointInTime`, `NoEventSkipped`, `ReduceMeetsMeaning`, `PointQueryAgrees`, `ImplementsReplica`, `TypeOK` |
| `collector_markers` | 1 object, 4 versions, 1 restart, 1 bookmark, 1 list without a version | `WatchPointIsDurable`, `RelistsAreMarked`, `MetaAgreesWithReduce`, `WatchNeverMovesBack` |
| `collector_live` | 1 object, 3 versions, 1 restart, 1 bookmark, resent events, fairness | `CatchesUp`, `ExpiredStreamRelists`, `CancelStops` |
| `collector_run` | 3 streams, fairness | `NoStreamOutlivesRun`, `OnlyCallersCancelReturned`, `RunReturns` |
| `plan_dry_run` | 3 clients, a plan of 2 objects, 2 contexts, a foreign writer | `DryRunFindsConflicts`, `TargetIsOfStatus`, `ApplyNeedsDryRun` |
| `plan_locks` | 2 clients, 2 plans, one with an unsupported object, fairness | `NoPartIsApplied`, `EveryRequestAnswered` |
| `journal_readers` | 2 streams that cover one object, 2 versions, 4 readings of a clock with 2 per unit, 1 crash, no relist that goes back; a snapshot, a diff or an audit log ingested twice | `AnswersGoForward`, `PastIsStable`, `SnapshotIsRepeatable`, `SnapshotRecordHasRow`, `DiffGoesForward`, `CorrelatedOnce` |
| `event_pages` | pages of 2, up to 6 records and a demo of 2, 2 starts of the server, fairness | `NothingSkipped`, `DemoWholeOrAbsent`, `ExportIsAtomic`, `ExportEnds` |
| `replay_plan` | every snapshot of up to 3 of 10 objects, 2 namespaces and a third as a target | `NoOverwriting`, `NothingForgotten`, `StrippedAndMoved`, `NamespacesFirst` |
| `object_timeline` | up to 3 records and 1 marker at 2 times, every window; every pair of 144 objects, on which `WalkAgrees` too; a decoder that is exact up to 4 | `DiffIsExact`, `EverythingToldInOrder`, `ChangesAreReal`, `WindowsAgree`, `SinceOnlyCuts` |

Each property is stated in words above its definition. The mutants in
`PROJECT.json` are the plausible bugs that break them: an `event_id` without the
resource version, items stored before their BASELINE, a 410 taken for a
disconnect, a watch that resumes one version late, a dry run under the read lock,
a cursor taken from the record that was one too many, and so on. They stand next to the definitions they replace and no action uses
them.

**Bounds.** `MaxRV` bounds the cluster's writes, `MaxRestarts`, `MaxBookmarks`,
`MaxEmptyLists` and `MaxBaselines` what their names say. Four versions are enough
for an object to be created, changed or deleted, and created again around a gap,
while another collection moves the version. The initial version is a write
of another collection. `MaxBaselines` is 6 in the passing runs, more than the
compactions and restarts of those instances can cause, so it never stops a
stream there; in the violation runs it is 3. The reduction, `event_id` and the
metadata row treat objects independently except at a baseline, for which two
objects suffice. In `collector_run` one stream fails, one is cancelled and one
ends in between. In `plan_dry_run` three clients list, dry-run and apply one plan in every
order, the foreign writer stands for other plans and other tools, and the clients
are symmetric; `plan_locks` has two plans, for which two clients give every pair
of conflicting requests. `plan_locks` has one context, since contexts
play no part in locks.

In `journal_readers` two streams cover the same object, as the stream of a
namespace and that of all namespaces do, so they write the same versions at
different times. Four readings of the clock let a baseline, an event or a gap, and
a relist of one stream fall before, into and after the unit that is asked for
(`QueryTimes` are the last two, one of each half of a unit; times that have not
come yet are asked for too). `MaxCalls` allows one snapshot, or one diff, or two
ingests; the properties concern one command and all streams. A list may be older
than the newest version, but not than the stream's own records (`ListsGoBack`); the
instance has 645,000 states and takes about three minutes. In `event_pages` a
page of two, two pages and up to six records let an export end exactly at a page,
within one, and at its limit, with records appended before every page. Three
objects in `replay_plan` are enough for two that collide and one between them, in
every order. In `object_timeline` three records have a first one that is cut away,
one to compare and one after it, and two times make ties and disorder. The objects
that are compared differ in what a user sets, what the server writes, and a user's
field with the name of a server's, in maps and lists, and in a number at, below and
just above the exact range, so that two of the three are decoded alike.

`CHECK_DEADLOCK FALSE` stands where the system really ends: a stream may stop or
fail for good, the cluster stops writing at its bound and the clock at its last
reading, an export, a plan and a timeline are finished. `CollectorRun` has an
explicit step for the time after `Run` has returned, and a registry never stops.

**Fairness.** In `Collector`: a goroutine that can go on does (weak fairness of
its own steps); a List or Watch that is tried for ever succeeds in the end, an
event that watches are about to send again and again arrives in the end, and a
watch on an expired version gets its 410 (strong fairness of these, because each
may be preceded by any number of failures). Without these the network may be down
for ever, where no stream can catch up. Nothing is assumed of compaction,
disconnects, bookmarks or store failures; a store that fails ends the stream.
In `CollectorRun`: goroutines are scheduled, and a stream whose context is
done ends, which is what `CancelStops` says of `Collector`. Failing and the
caller's cancel are not fair. In `PlanRegistry`: strong fairness of each handler,
because Go's locks let everyone in who waits long enough and each call to a target
ends with an answer or an error; requests and foreign writes are not fair. In
`EventPages`: a client that waits for an answer gets it or an error, because its
HTTP client gives up after a minute (`cmd/krply/client.go:23`). Nothing is assumed
of the server. For `krply coverage` the end also rests on the collector's bound: a
collector that stores a record for every page that is read would keep it paging.

## Where the code and its documentation disagree

Each of these is a run that TLC ends with a counterexample; the quotes are in
`PROJECT.json`.

- `collector_stale_list`: the list behind a baseline may be older than the
  journal (`resourceVersion "0"`). The baseline resets the view, the watch sends
  the later events again, and deduplication drops them: the journal then shows a
  mix of two states and no gap.
- `collector_http_410`: an expired version that is refused as the watch starts is
  retried for ever; only a 410 on an open watch leads to GAP and relist.

Others were met while modelling. The models do what the code does, and a property
says what then still holds.

- The point query ignores baselines, so an object that was deleted during a gap is
  found for ever, though `materialize.go:42` says `ErrNoObjectAtTime`.
  `PointQueryAgrees` says that it differs from the reduction in no other case.
- When the last stream to end has failed, `errCh` and `done` may be ready
  together, and `Run` may return nil, though `collector.go:129` promises the
  error. A `Run` cancelled during a List may return `context.Canceled` though the
  same comment promises nil (`ListCanceled`, `stream.go:61`).
- The dry run takes every 404 for a missing namespace (`apply.go:67`), also the
  one for a kind the target does not serve; the apply then fails on the object.
- The server drops the requested target context (`apply.go:158`) and writes to
  its own cluster, while the plan shows the requested one.
- A diff warns of open gaps at its ends and of nothing else (`diff.go:92-108`): an
  end before the first baseline of a stream gives a partial answer without the
  warning of `docs/consistency/consistency.md:83`. `DiffGoesForward` excludes it.
- A change of a user's integer beyond 2^53 may not be reported, by a diff or a
  timeline: `parseObject` decodes both numbers as float64 (`diff.go:201`), where
  `diff.go:52-53` says that a user's field is "never silently dropped" for its name.
  `DiffIsExact` is about the decoded objects, and says that of the recorded ones
  nothing else is lost.
- Without a target the namespace is "dropped from the payload" (`plan.go:193-195`),
  but only from its metadata: `spec.namespace` keeps the name of the source, which
  is mapped when there is a target. `StrippedAndMoved` says what is left where.
- A watermark is not "the last resource version that the collector processed
  durably" (`consistency.md`, Watermarks): after a relist it is the version of
  the last item, after a deletion that of the record before. `AnswersGoForward`
  says it is never ahead of the state, `MetaAgreesWithReduce` when it differs from
  the stream's metadata row.
- Seeding the demo is not idempotent when the process ends between its records
  and its snapshots (`krply-server/main.go:34`): the journal is no longer empty
  and the snapshots are never copied. Its records are whole (`DemoWholeOrAbsent`),
  but those of type SNAPSHOT are then without the rows they are about.
- The collision check of a plan runs only when all namespaces are mapped into one
  (`plan.go:143`): with a source namespace, or without a target, two streams that
  cover one object put it into the plan twice. `NoOverwriting` has the condition.
- `krply replay apply --server` decodes the answer of the dry-run endpoint as a
  result, while the handler sends the plan with the result inside
  (`cmd/krply/replay.go:177`, `server.go:512`): it reads `ok` as false and refuses
  every plan. `krply replay plan --server` sends no cluster id, which the handler
  wants. Both are sequential and have no model.

## What is proved

All theorems hold for every value of the constants that satisfies the assumptions
named next to them in the modules. Each follows from an inductive invariant that
TLC checked first where it is small enough.

**`CollectorProofs`.** Assumptions: those on the bounds, and `StaleLists = FALSE`
for everything but `TypeCorrect` and `RelistsAlwaysMarked` (with stale lists the properties are false, as
`collector_stale_list` shows). The invariant `IInv` says, besides the types, that
positions are ordered (`base <= lastRV <= seen <= Len(history)`, needed to know
that a delivered event is the next one); a list in hand is not older than the
journal; every event in the journal is of a version the journal has reached and
was observed before now (so a new event or a synthetic one is never taken for a
duplicate); nothing precedes the first baseline; no event between `base` and
`seen` is missing (so a resent event is a duplicate); without resent events the
watch point is `seen`; and the journal shows the collection at `seen`.
`JournalLemmas` says what appending an event, a marker or a relist does to what a
journal shows, and how the collection at version `r + 1` follows from that at `r`.

- `TypeCorrect`: `TypeOK`.
- `InvHolds`: `IInv`.
- `JournalIsPointInTime`: `PointInTime`.
- `EventsAreComplete`: `NoEventSkipped`.
- `WatchPointShown`: `WatchPointIsDurable`, for `Resends = FALSE`. (With resent
  events `lastRV` steps back to the resent version while the journal is ahead;
  `PointInTime` still holds.)
- `WatchMovesForward`: `WatchNeverMovesBack`, for `Resends = FALSE`.
- `RelistsAlwaysMarked`: `RelistsAreMarked`, for all constants, stale lists and
  resent events included. Its invariant `MarkInv` does not speak of the history at
  all: a baseline of this process has a GAP that answers for it, or the version in
  hand is not older than the last baseline, or the stream has ended (`Answered`,
  `BaselinesAnswered`). A list is only in flight when no version is in hand, so
  then the GAP is there.
- `CollectorImplementsReplica`: `ImplementsReplica`, the refinement of `Replica`.
  `ReplicaInv` adds to `IInv` that every event carries a version and that no gap is
  open while a version is in hand; `ViewIsState` turns "the journal shows what held
  at `seen`" into an equality of functions. An event or a bookmark ahead of `seen`
  is `Follow` (a resent one is a stutter), a 410 is `LoseTrack`, a relist
  `StartOver`, a write of the cluster `Grow`.

- `ReductionMeetsMeaning`: `ReduceMeetsMeaning`, for every journal of well-typed
  records. `Reduce` is a recursive function over the journal. The library's
  induction theorems cannot be used here (they take an operator), so
  `JournalLemmas` derives induction over lengths from the least element of a set of
  numbers (`SetInduction`, `SetInductionSeq`: the claim is made a set), and from it
  that the recursion has one value and what that is for a journal with one record
  more (`ReduceAppend`). `MeaningAfterAppend` then shows that the meaning, stated
  without a loop, changes in the same way.
- `MetaAgrees`: `MetaAgreesWithReduce`, for all constants, stale lists and resent
  events included. The proof found the property too strong as it was: a relist
  without a version, after a deletion, leaves both versions as they were. It now
  says so, and `collector_markers` has such a list.
- `PointQueriesAgree`: `PointQueryAgrees`, from the meaning of the last record of an
  object.

**`CollectorRunProofs`.** The invariant `RunInv`: done closed means all streams
have ended and none will start; returned means done closed; the streams' context
is done only because of the caller or after an error was taken; a context error
exists only once the context is done.

- `NoStreamOutlives`: `NoStreamOutlivesRun`.
- `OwnCancelNotReturned`: `OnlyCallersCancelReturned`.

**`PlanRegistryProofs`.** The invariant `PlanInv`: a request on its way names a
plan of the right kind; no two creates have one id; who works on a plan holds its
lock and the plan shows its target (hence two workers of one plan are one);
an apply about to connect has seen `dry-run-ok`; and unless a plan is being worked
on, `dry-run-ok` means `fresh`, and its target is that of its last work. One
lemma (`RequestStep`) covers all steps that change no plan and no lock; the five
that do have lemmas of their own.

- `TypeCorrect`: `TypeOK`. `PlanInvHolds`: `PlanInv`.
- `WorkersAreAlone`: no two dry runs or applies of one plan overlap.
- `TargetTellsOfStatus`: `TargetIsOfStatus`.
- `ApplyIsPreceded`: `ApplyNeedsDryRun`.

The same module goes on from there with
`DryRunInv`: a dry run without an error
so far has only seen objects that can be sent and, in a quiet time, that no one
else owns (`PassedSoFar`); a plan that passed and is not being worked on is safe
(`StatusInv`), so an apply that gets the lock works on a safe plan
(`AppliesSafely`). `OwnersHaveSpaces` is needed because a dry run ignores a missing
namespace: what is not there can have no owner. `quiet` is a history variable, so
the theorem speaks of exactly the time since the dry run began.

- `NeverAppliedInPart`: `NoPartIsApplied`.
- `DryRunForetells`: `DryRunFindsConflicts`.

**`EventPagesProofs`.** The invariant `PageInvariant` is `NothingSkipped` and the
types it needs, among them that the cursor and every number the client has been
given lie within the journal, so that what is appended later is after both. A
page adds exactly the wanted records up to its last one (`PageAdds`), an append
changes none of them (`AppendedKeeps`), and the last page leaves none out
(`LastPageAnswers`). No bound is used.

- `ExportSkipsNothing`: `NothingSkipped`.
- `PagedExportIsAtomic`: `ExportIsAtomic`, the refinement of `AtomicExport`.
- `DemoStaysWhole`: `DemoWholeOrAbsent`, from `DemoInvariant`: while the server is
  about to append the demo, no record of it is in the journal, and the collector
  never writes one.

**`PlannerProofs`.** The invariant `PlanInvariant`: while several namespaces are
mapped into one, the key of every item is in `taken` and no two items have the
same; sanitizing and mapping keep kind and name, and the sort permutes the items.
`OrderInvariant` adds that the order of an item is that of its kind, which the
sort needs, and `AccountInvariant` that every key in `taken` is that of an item,
without which an object could be left out for a place nobody has.

- `PlanNeverOverwrites`: `NoOverwriting`, for every snapshot and policy.
- `NamespacesComeFirst`: `NamespacesFirst`, whatever the sort does with ties.
- `PlanForgetsNothing`: `NothingForgotten`.
- `ItemsAreStrippedAndMoved`: `StrippedAndMoved`, from `ItemsAreMade` (every item is
  what sanitizing and mapping make of a state that is planned, wherever the sort
  puts it) and `ServedAssumption`. It covers every field the planner deletes and
  says that no other is lost; of the namespaces it says where they are the target's
  and where, without a target, that of the source stays (the spec). The planner
  deletes addresses by the type of a service, so that none is left relies on what an
  API server lets pass (`IsServed`): only services have addresses, a headless one
  has no other, and only some types have a node port. `replay_plan` evaluates the
  assumption on its snapshots.

**`JournalReadersProofs`.** Assumptions: those on the bounds, at least one reading of
the clock, and that the stages of one request have different names (Kubernetes has
four, and `auditEventID` tells records apart by them). `ReadersInvariant`,
`GoForward`, `DiffForward` and `ReadersImplementArchive` assume `ListsGoBack = FALSE`,
that no relist is older than what its stream has stored: each has it in its
statement, and without it the first three are false of the code. The others
(`PastStable`, `RecordHasRow`, `Repeatable`, `OneCorrelation`) hold for lists of any
age, since they rest on the types of what is recorded (`RecordingTyped`) and on
observation times only. The invariants are in `JournalReadersInvariant`, and TLC
checked them on `journal_readers` before.

- `ReadersInvariant`: `ReadersInv`. `Upto(s, t)` are the records of a stream that the
  query for time `t` finds. A whole answer is the collection at the version of one of
  them, and no other is of a later version (`AnswersAreRight`); that must be said of
  every time, since a record that is stored changes the answers for all times after
  it. What is in flight was observed at one time after all that is stored
  (`InFlightIsNext`), and is a whole relist, or a GAP, or the next change after the
  version at which the journal is up to date (`InFlightIsBatch`). Hence a record
  either comes after everything an answer is made of, or is not found by it. The
  step that stores a batch is the long one: `PickedAppend` says what the time
  filter makes of a journal with one record more, and a relist is stored record by
  record.
- `GoForward`: `AnswersGoForward`. The later of two times finds the records of the
  earlier one, so its version is not smaller.
- `PastStable`: `PastIsStable`. What is stored later is later than a settled time, as
  the store keeps times (`StoredOrder`), or is a correlation or a SNAPSHOT record,
  which bear on no state.
- `RecordHasRow`: `SnapshotRecordHasRow`, from `RowsInv`: of the records that
  `Materializer.Snapshot` appends.
- `Repeatable`: `SnapshotIsRepeatable`, from `RepeatableInv`: each answer a snapshot has
  is what its query would still answer, and a stream that came after its list of
  streams was made has nothing to tell of a settled time.
- `DiffForward`: `DiffGoesForward`, from `DiffInv`: the answers and the queries that
  remain are two for each stream, in one order (`InPairs`), and the second of a pair
  is at no earlier version than the first (`PairsGoForward`), although it is asked
  later.
- `ReadersImplementArchive`: `ImplementsArchive`, the refinement of `Archive`. It is
  the one property of `JournalReaders` that is proved and not in the runs: TLC
  evaluates every answer before and after each step for it, which is out of reach on
  the instance of `journal_readers`. `journal_archive.cfg` is the smaller one (no
  crash, no audit log, one time to ask for) on which TLC agreed with it first. All
  answers of a stream being one walk is more than `AnswersGoForward` says, which
  compares two at a time: each has a version, and these have to fit together. The
  version of an answer is the greatest that a record up to its time is about, which
  grows with the time, and `ReadersInv` says that the answer is the collection there
  (`AnswersWalk`). What a step appends is either later than a settled time or bears
  on no state, so settled answers stay (`SettledStay`, with the lemmas of
  `PastStable`). That what a snapshot has gathered is what the journal answers at
  the end follows from `RepeatableInv` (`FoundIsShown`), once it is known that a
  snapshot asks for the time it was made for and no other (`AsksForTime`).
- `OneCorrelation`: `CorrelatedOnce`, from `AuditInv`: no entry is twice among the
  lines, the batch and the stored records of an ingest, and every stored correlation
  is of the first match, which later records never change.

**`ObjectTimelineProofs`.** Assumption: what a record holds is an object
(`IsObject`: a map with names for its keys and integers of 64 bits, in which only
maps and lists have anything below them); `object_timeline` evaluates it on its
objects. The bounds are not used, and `Exact` is any positive number.

- `DiffsAreExact`: `DiffIsExact`. Decoding keeps the shape of an object
  (`ParsedIsTree`) and every integer within `Exact` (`ExactIsKept`), so what it
  takes away are differences of larger integers (`OnlyDecodingLoses`). Of the decoded
  objects: a path that differs on two objects has a first
  place on it where they differ (`FirstDifference`, from the least element of a set
  of numbers), and `diffValue` comes there if nothing above it is ignored; what is
  ignored on the way to a path is exactly what the server owns (`IgnoredIsOwned`).
  So the changes cover every path that users declare and touch no other part, and
  no two changes cover the same path.
- `AllIsToldInOrder`: `EverythingToldInOrder`. The order is given by ranks: an entry
  comes after as many as are `Earlier`. That this fills every place from one to the
  number of entries, once, is a lemma about finite sets with a strict total order
  (`RanksAreDense`), and `Earlier` is one since no two entries of a window agree
  in time, query and place.
- `ChangesToldAreReal`: `ChangesAreReal`, `AllWindowsAgree`: `WindowsAgree`. The
  invariant `TimelineInv` says that what has been told and what is left are the two
  parts of the order (`TellsInOrder`), that each item was made with the object of
  the last record before it, or none if that was deleted or is outside the window
  (`TellsWhatWas`, `BeforeIs`), and that `prev` is that object for the next one. The
  last record before a record that is not the first of its window is the same one
  in every window, since a window takes all records between two times.
- `SinceCutsOnly`: `SinceOnlyCuts`. The object carried past the rows that are not
  printed is the one of the record before, printed or not (`CarriedTo`), so cutting
  leaves every other row as it was.

**Only model-checked.** Liveness (`CatchesUp`, `ExpiredStreamRelists`,
`CancelStops`, `RunReturns`, `EveryRequestAnswered`, `ExportEnds`): the installed
provers do not do liveness under fairness. And that the recursion of `diffValue`
reports what `DiffObjects` says (`WalkAgrees`): it recurses over the structure of
values, which has no bound to count by, so it is a RECURSIVE operator in a module
of its own, and TLC compares the two on the objects of `object_timeline`. Every
other property of a passing run is a theorem.

## Plan

All of the plan is done, in this order: the stream with its journal and
materializer, its abstract specification and invariant proofs; the supervision of
streams; the plan registry with dry run and apply; several streams with snapshots,
diffs and audit logs on one journal; event pages with the server process and their
refinement; the planner; object timelines and diffs; then the proofs about the
reduction, the metadata row, the planner's payloads, the readers of the journal
and the timelines, and last the abstract archive that the readers implement.

What a change of the code would call for next: a clock that steps back (recorded
times are wall-clock times, and `ReadClock` relies on their order), and a model of
the two repairs that the violation runs ask for, to which the properties already
apply.

## Not modelled

Discovery, metrics, cluster ids and configuration defaults (computed once at
start-up); the commands that make one call and format its answer; the web UI and
wire types; HTTP handlers that look up one row; SQLite's own transactions and
crashes, which are taken to be atomic as the driver promises; resource versions
that are not numbers; clocks that step back, but for the timeline; authentication
and CORS.
