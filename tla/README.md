# Formal models of homelab-evidence-mcp

TLA+ models of the parts of this MCP server where order, time, failure and
concurrency decide what it answers, with TLC runs on small instances and
proofs checked by TLAPS. Every definition is translated from the Go source;
`PROJECT.json` ("map") names the lines of each.

## The system

One process serves MCP tools over standard input. A tool call asks several
sources (Gatus, Docker, Loki, Healthchecks, Beszel, ntfy) through adapters and
returns evidence items, the outcome of every source, and whether the answer is
complete.

```
MCP client --> withBudget (toolBudget) --> tool body --> goroutine per source
                                              |             withSourceTimeout
                                              |             (sourceSem, deadline)
             evidence.Cache <-- PutAll -------+                  |
             audit.Logger   <-- Log ----------+              adapter
                 |                                               |
             RotatingFile                          httpx.LockedClient (cache)
```

| Component | State | Operations | What makes it correct | Module |
|---|---|---|---|---|
| Evidence cache (`evidence/cache.go`) | items, insertion order, bytes, counters | Put, PutAll, Get, Stats | limits, exact order and bytes, no expired answer, newest item survives | `EvidenceCache`, `TtlStore`, `EvidenceCacheProofs` |
| Tool budget (`mcpserver/app.go`) | slot channel, window start, count | acquire, release | slots never leak; a bounded number of calls per minute | `ToolBudget`, `ToolBudgetProofs` |
| Locked HTTP client (`httpx`) | response cache, its order and bytes; `RequestInfo` per collection | Get, cacheGet, cachePut, Snapshot | entries are real snapshots, bounded age, truthful `cache_state` | `SourceCache`, `SourceCacheProofs` |
| Tool calls (`mcpserver/tools.go`, `collectors.go`) | goroutines, contexts, source slots, outcomes | seven tools, ten collectors, mark functions | no orphan goroutine, no lost source, `complete` and `status` truthful, calls end | `Outcomes`, `ToolCall`, `ToolCallProofs` |
| Audit log (`audit`) | the file and its backups, size, failure flag | Log, Write, rotate, reopen | bounded files, order kept, recovers alone | `AuditFile`, `AuditFileProofs` |
| Healthchecks transitions (`adapters/healthchecks`) | one collection of several requests | Transitions | every check accounted for; ok has an answer behind it | `Transitions`, `CollectionsProofs` |
| Healthchecks status, Gatus, Docker, Loki, ntfy adapters | none between calls | one request each: selection, window, limits | complete means nothing asked for is missing; limits drop the oldest; row order decides nothing | `Ordering`, `Evidence`, `Adapters`, `CollectionsProofs` |
| Beszel adapter | one collection of several pages | fetchSystems, Status, Evidence | a list that is returned is one the pages agree on | `Beszel`, `CollectionsProofs` |
| Timeline and compact output (`correlation`, `mcpserver/compact.go`) | one response | BuildTimeline, compactIncident, trimToBudget | newest items of every source kept; losses told exactly | `Incident`, `ReportsProofs` |
| Doctor (`mcpserver/doctor.go`) | one run | Doctor, doctorBinding, the command's exit code | worst status of the bindings; success exactly if all answered in full | `Doctor`, `ReportsProofs` |
| Configuration (`config`) | none | Parse | what is accepted works | `Config`, `ReportsProofs` |
| Start, service registry (`cmd`, `mcpserver.NewApp`, `registry`) | the clients and the sorted registry, then read-only | LoadFile, NewApp, AuthHeaders, List | every binding has its client, every header its value, every service its page | `Startup`, `ReportsProofs` |
| Redaction, demonstration | none | | string data; not part of the program | not modelled |

The hard behaviours, each at its line in `PROJECT.json` "hazards": goroutines of
many calls that compete for the source slots while contexts end; the race of a
source error with two deadlines and a cancellation; concurrent misses on one
cache key; operations that read the clock twice; rotations that fail or crash
half way; partial failure inside one collection; a hub that changes between two
pages; limits, windows and budgets applied one after the other to the same items;
defaults and relations of some twenty configured limits.

## Modules and how they read

**`EvidenceCache`.** `items`, `order`, `bytes` and the three counters are the
fields of `Cache`. A public operation takes the mutex (`Lock`), expires entries
one at a time (`ExpireOne`, in any order, as Go ranges over a map), then ends
(`FinishGet`, `FinishStats`, `RejectOversized`) or stores and evicts one at a
time (`Store`, `EvictOldest`, `FinishPut`). `Tick` may come between any two, so
the second clock read of `Put` really differs from the first. `TtlStore` is what
the cache promises: records and the order of their insertion (`older`, a set of
pairs), of which `Put` keeps the largest most recent part that fits. The refinement
mapping is the state at lock time while an operation runs (`Visible`), its order
read off the positions (`InsertedBefore`); `RefinesTtlStore` is checked and proved.

**`ToolBudget`.** `acquire` is two steps, because the slot is taken before the
mutex: `TakeSlot`, then `Admit` or `RateLimit`. The history `admitted` counts the
calls let in at each time, for the properties of the fixed window. `ToolCall`
instantiates the module, so that a budget step is a step of a call, and adds what
`withBudget` does with a refusal, for want of a slot (`TooMany`) or by the rate
(`RateLimit`): an error response and an audit record.

**`SourceCache`.** A collection is `withSourceTimeout` around a few requests. A
request is `Call` (context check), a lookup under the cache mutex (`LookupHit`,
`LookupMiss`, `LookupDisabled`), `Respond` and `ReadBody` or `FailRequest`, and
`Put` under the mutex again. `served` is when the source produced the content,
`collectedAt` when it was read. `cacheTTL` is chosen from the set `TTLs`, so
that one run has the cache on and off. A caller may be canceled after the check of
`Call`; its answer then still arrives, as in the code.

**`Outcomes`.** Pure operators: `sourceErrorOutcome`, the mark functions, each
collector (`Collected`), `normalizeOutcomes`, `outcomeCoverage`, `auditStatus`.
An adapter answer is an error or a sequence of items, each known by whether its
object is missing and whether it is in the window, with the counts an adapter
returns.

**`ToolCall`.** The life of a call: budget, body, fan-out, goroutines, join,
response and audit record, deferred release. Each goroutine is a worker with
the phases of `withSourceTimeout`; `ctx` and `sctx` are the context of the call
and of the source. The `select` of the slot may take either ready case. The
evidence cache appears as `stored`, the sources whose items were put in it.
`failed_crons` without a service asks all Healthchecks sources; they are one
source here. A call may be canceled as long as its body runs. What a source answers
is any value of `Answers` that the adapter can give (`CanAnswer`): one operator for
each kind of answer says which parts an adapter can fill (`GatusState`, `LokiLines`,
`NtfyMessages` and so on); what fills them is in `Adapters`, `Beszel` and
`Transitions`.

**`AuditFile`.** `files` maps a backup number (0 is the primary) to the pieces
of records in it. A write is `Log`, an optional `Reopen`, an optional rotation
(`Close`, then `RemoveTarget` and `RenameSource` for each backup, then `Fresh`)
and `Write`; each file operation has a failing twin, a failed write may leave a
part of its record, and `Crash` may come between any two, followed by `Boot`.
`RotatingFile.Close` happens at the end of the process and is part of `Crash`.
The logger writes to standard error first and then to the file (`MultiWriter`); a
failure of the first keeps the record out of the file (`LogUnprinted`), as does a
record larger than the file limit (`LogTooLarge`).

**`Transitions`.** The list request, then one flips request for each selected
check, with skipped checks, failures, the bound on checks and flips, and a
context that may end between two requests. The adapter returns (`Return`), and the
collector makes the outcome of it in a step of its own (`Conclude`, the transitions
branch of `collectHCWindow`), because a context that ends in between decides what an
error is reported as.

**`Evidence`.** An item is the record it was made from and what decides its
place: time, source identity, position, and the serial number of its opaque id,
compared as a string (`IdKey`: "ev_10" sorts before "ev_9"). `SortItems` and
`KeepNewest` are the operators of the Go package. `Ordering` says what a stable sort
(`Arranged`) and a loop that filters (`Chosen`) make of a list, by rank: the i-th
element of the result is the one that i - 1 others come before. The community
modules sort and filter with recursive operators, which no proof can use.

**`Adapters`.** The adapters that make one request, one action per source and one
step per collection: the request (window, limit, when the response was read,
the clock after the call) and the rows of the source are chosen, `answer` and
`outcome` follow. `AnswerTo` is what each adapter makes of the rows, `Collected`
(of `Outcomes`) what its collector reports. Every row has an id of its own, so
that a property can say which record an answer lost. Time is counted in the 30
seconds that the adapters allow for a request; a response comes from the source
cache when it was read before the call. Gatus keeps its two routes and its
choice of an endpoint, Loki its request for one line more than wanted, its check of
the window on whatever the source sends, and its labels, which order lines of one
time, ntfy its undated messages and both of its truncations. A Healthchecks filter is
its criteria and its status; the window collector clears the status (`HistoryFilter`),
so that a binding to checks that are up does not hide those that fail, and without a
service it has an empty filter and takes every check. `RowsAssumption` says what
rows are: their fields, that the source holds lines newest first, and that each
line is in one stream of the list.

**`Beszel`.** `fetchSystems` page by page, with the metadata of each form of
page, the bounds on pages and records, and the older routes, of which only the
first answer is read. A request that brings no answer ends in a timeout or another
error (`Lost`). The hub may change between any two requests (`Change`).

**`Incident`.** The items of all sources are their places in the order of
`SortItems`, each with a source kind and a size. `Timeline` is the answer without
compact mode; `Select` is the selection of compact mode, `Drop` one removed item
of the byte budget, `Finish` the fields that are set after it. `WireSize` stands
for the length of the serialized bundle, with the names in `omitted_sources`.

**`Doctor`.** The bindings are probed in their order under one context, which an
interrupt or the deadline ends; `Judge` combines the outcome of a binding with
the status of its source, `Report` ends the run and sets the exit code.

**`Config`, `Startup`.** `Config` is `config.Parse` on a decoded file, without
state: `LimitRules` and `AuditRules` hold default, least and greatest value of
every limit, the `...Faults` operators one named test each. `Startup` is the
command from the file to the clients: `Load`, `OpenAudit`, `NewApp`, with the
`--validate` and `--doctor` flags, then a host that reads the registry with
`list_services`, page by page. `AuthHeaders` is a set, because Go ranges over the
header map in any order.

**`Collections`, `Reports`.** `Collections` puts the budget, the adapters, the
transitions and Beszel next to each other, `Reports` the compact response, the doctor
and the start; they share no state, `part` chooses one, and the others stay in their
initial state. `MCCollections` and `MCReports` give them rows and files.

Definitions under a `\* Mutant:` comment are deliberate bugs. They are used by
no specification; they show for each property a change of the code it would
catch.

## Runs

| Run | Instance | Shows |
|---|---|---|
| `evidence_cache` | 3 ids, sizes 1, 3 and 4, limits of 2 items and 3 bytes, lifetime 1, clock to 3, 3 puts | invariants at every loop iteration, and the refinement of `TtlStore` |
| `source_cache` | 2 collections, 2 keys, 2 requests each (1 if the cache is off), room for 2 entries and 3 bytes, lifetimes 0 (off), 1 and 2, clock to 3 | accounting, snapshots, age, report, the order of eviction |
| `tool_call` | 3 callers, 2 tool slots, 1 source slot; every answer of up to 2 items; Loki with Gatus, and each kind with ntfy | slots, goroutines and outcomes under all interleavings; `complete` over all collectors |
| `tool_call_liveness` | 2 calls of a service with Loki, 1 source slot | cancellation releases; calls end |
| `audit_file` | 6 records of sizes 1 to 4, files of 3 bytes, 2 backups, 2 failures, 1 restart | rotation, failures, restarts |
| `collections` | budget: 3 callers, 2 slots, 3 per minute, minute of 2 ticks, clock to 6. Adapters: up to 3 rows, window 2 to 4, responses read at 1, 4 or 6, limits 1 and 2, serial numbers from 0 and from 8. Transitions: up to 3 checks, bounds of 2 checks and 1 flip. Beszel: hubs of up to 4 systems, 2 changes, pages of 1, bounds of 3 pages and 3 records | the fixed window; what an answer may leave out and still be complete; which items a limit drops; pages of a hub that changes |
| `reports` | incident: 3 kinds, up to 5 items of sizes 1 and 3, limits 1, 2 and 4, budgets 0, 3 and 6. Doctor: 2 services, 3 sources, two of them of one kind. Start: files with up to two changes at the edges of every rule, 2 sources and 4 services at most, pages of 2, at most 3 | losses, the worst status, accepted files work, listing |
| `missing_object` | each kind alone, object found or missing | violation, see below |
| `canceled_transitions` | as the transitions of `collections` | violation, see below |
| `unreported_identity` | as the transitions of `collections` | violation, see below |
| `doctor_partial` | as the doctor of `reports` | violation, see below |
| `byte_budget` | 2 kinds, up to 2 items, budgets 0 and 3 | violation, see below |

Why the bounds are enough: two concurrent actors are what every race here needs,
and three callers of the budget let one be refused while two hold slots. The
item and byte limits are so small that one put evicts one or several items, that
an item fits exactly, and that one is too large. Two backups are the least with
a rename between backups; two failures let a rotation fail, be retried and fail
again. Clocks run past two lifetimes and past a lifetime plus a deadline. The
flips and checks go one above their bounds. Three rows are one more than the
largest limit of a request, and let two rows of one time stand around a third;
the serial numbers from 8 cross the step from one digit to two. Responses are
read before the window, in it and after its tolerance. The hub has one system more
than the bounds on pages and records allow. Five items of three sources leave a source
with two items beside sources with one under every limit; the budgets keep
nothing, one item or a few. A file with two changes reaches every relation between
two settings, and its numbers are those on both sides of every edge of a rule.

The constraint `Modest` of `tool_call` gives the full set of answers only to calls
that are alone; calls that overlap choose between an item and an error, because
what an answer holds does not change a goroutine's steps. It lets the clock reach the
next minute only between and during calls that are alone, and follows nothing beyond
a refusal of the third caller while another call collects: the refused caller has its
response, and its next call is one more that overlaps. Its symmetry over calls
is sound: no property and no constant names a call.

`CHECK_DEADLOCK FALSE` is set where the instance may really stop: the bounded
collections, records and failures are used up, or a single collection, report or
start is done.

### Fairness

`FairSpec` of `ToolCall` assumes weak fairness of every step of a call and of
its goroutines that needs no one else: the Go scheduler runs a goroutine that
is ready. It assumes nothing of `EnterSource` (another goroutine may always win
the slot), of `Answer` (a source may never answer), of the client, or of the
clock of the rate limit. `CancellationReleases` needs no more. `CallsEnd` is
stated under `Timers`: the total deadline of a call fires in the end, because
`context.WithTimeout` sets a timer; without it a source that never answers
holds its call for good.

### What the violations show

1. `missing_object`: in `incident_context`, Docker and Beszel answer with a "not
   found" item for an unknown object, and the collectors of a window never look
   for one, so the outcome is ok and complete. `docs/evidence-model.md:91`:
   "`complete` is true only when the source answered the requested coverage."
2. `canceled_transitions`: when a call is canceled after the first flips answer,
   the other requests fail at once and are counted as failed checks; the source
   is reported as ok with `partial_fetch`. `docs/evidence-model.md:76`: "A
   canceled request is not a successful collection".
3. `unreported_identity`: a check without `unique_key` is reported only when no
   item was found. `docs/api-compatibility.md:106-107`: it "is skipped and
   reported as `missing_identity`".

4. `doctor_partial`: a source with one failed and one successful binding has
   status error, because `worseDoctorStatus` keeps the most severe one.
   `docs/doctor.md:71-72`: "`partial` means at least one binding matched only
   part of the request, or one binding failed while another succeeded."
5. `byte_budget`: the loop of `trimToBudget` measures the bundle before
   `omitted_sources`, `byte_budget_truncated` and `byte_size` are set, so a
   response that ends just within the budget is larger than it, although more
   items could go. `docs/incident-context.md:4-5`: compact mode "enforces a
   response byte budget", and `compact_test.go:53` fails when
   `ByteSize > ByteBudget`. The model counts only the names of the omitted sources.

Read in the code but not run: items of one time and place are ordered by their
opaque id, compared as a string, although `docs/incident-context.md` and the comment at
`evidence.go:134-135` leave ids out of the order; it shows between two results of
one Gatus endpoint or two flips at the same second. `cache_age_seconds` is given only when every
request of the collection was a hit, while `docs/evidence-model.md:94-95` says it
is the age of the oldest cached snapshot used; each failed rotation
or restart in a row can push one backup out, so the newest acknowledged audit record
is safe only while there are fewer of them than backups (`NewestKept`).

## Proofs

The `...Proofs` modules prove safety for every value of the constants, from the
named assumptions of their modules alone: naturals, positive limits, finite sets of
callers and calls, adapter answers of the right type. TLC evaluates each assumption
on the runs.

**Facts.** Least members, cardinalities and sums over finite sets. The sums of the
community modules are recursive functions on subsets; what a sum does when a member
is added, taken out or split off is proved by the least counterexample
(`SumRemove`, `SumAdd`, `SumSplit`), because induction over an operator is out of
reach. Strict orders and the sequences that list a set in one (`Lists`), and what
`Arranged` and `Chosen` of `Ordering` give (`ArrangedIs`, `ChosenIs`).

**Evidence cache.** The properties are not inductive: that a put cannot evict its
own item needs the byte counter to be the sum over the order, a fact about the
order and the map together. `IInv` holds the types, the order being exact and
sorted by expiry, the accounting of bytes (`Accounted`: a running sum over the
order exists that ends in `bytes`), and what each mode of the mutex holder knows.
`RemoveKeepsCore` and `AppendKeepsCore` say what `removeLocked` and the append
preserve; `StepIInv` goes over the actions; `OneItem` shows that a single item
that passed the size check is within the limits, so the loop ends before it.
Theorems: `TypeCorrect`, `OrderCorrect`, `ExpiryOrderCorrect`, `LimitsCorrect`,
`NewestSurvivesCorrect`, `BytesCorrect`, and `CountersCorrect` (`CountInv`: what was
stored is in the order, evicted or expired). The types and the byte sum are left to
the proof; no run repeats them.

`RefinementCorrect` proves `RefinesTtlStore`. It needs to know what the running
operation has done to the state it locked (`StepInv`): while entries expire, all that
is live is still there, and once none is expired nothing else is (`LeftIsLive`);
while `Put` evicts, what is left is closed towards the newer ones and contains every
such part that fits. The second is why the loop is right: it takes the oldest only
when all that is left does not fit (`FitsWhenWithin`), and a most recent part with
the oldest in it is all that is left (`EvictKeeps`). `OrderLeft` and `OrderAppended`
tie the positions of the sequence to the pairs, `SumLeft` and `SumAppended` the byte
counter to the sum over a set that `TtlStore` limits.

**Tool budget.** `IInv` is `TypeOK` with `SlotsAreHeld`. The type alone is not
inductive: `slots - 1` stays a natural number only because the caller that gives
a slot back is counted among the holders. `ConcurrencyCorrect` follows.
`MinuteBounded` (at most twice the limit in any minute) and `RefusalsJustified` rest
on `WindowInv`: nothing is admitted after now, the window counts every admission since
its start, none comes a minute later, and only one earlier window, itself within the
limit, can reach into the minute before.

**Source cache.** `cachePut` keeps what neither expired nor is replaced, less the
oldest: `KeptBesideHasRoom` shows that what is left has room for the new entry,
`RemoveKeeps` and `InsertKeeps` that taking out and adding keep order, entries and
byte sum together (`CacheInv`); so the counter is never taken below zero
(`TypeCorrect`) and `AccountingHolds`. `SnapshotInv` adds where an answer in flight
comes from: a body to store is a snapshot read for the key of its request, served at
most a deadline ago; and of an entry, that it expires at most a lifetime and a
deadline after it was served. `EntriesAreReal` and `StalenessIsBounded` follow.
`ExpiryInv` says that the order is that of expiry and that no entry outlives what an
entry made now would; a new entry goes to the end (`AppendInOrder`), a replaced one
leaves its old place, and taking out keeps the order (`OrderOfInOrder`), which gives
`OrderIsExpiry`.
`InfoInv` relates the counters of `RequestInfo` to the history of uses, for
`HitReportsAreTrue`.

**Audit file.** Four invariants, one on the other. `Inv1`: the types, what each
step of a rotation knows of the files and of the open file (`PhaseInv`), and the
failure flag beside the history (`LogInv`). `BytesInv`: while the file is open its
kept size is the bytes of the primary. `Inv2`: the ids are in order over all files
(`OrderInv`), and what is acknowledged and kept has no hole (`SuffixInv`); every step
but a write only gives the files other numbers, in the same order, and can drop the
last one (`Renumbers`). `NewestInv` places the newest acknowledged record: the number
of its file is at most the failures and restarts so far, and one more from the step
of a rotation that passes it until the write. So `KeepsNewest` holds as long as
there are fewer of them than backups, which is the most that can be said.

**Tool calls.** `NoOrphans` (a goroutine that runs belongs to a call that still
collects and holds its budget slot) needs `Coupled`: only a call with a slot has a
body, so the body that starts goroutines holds one, and the slot goes back after
the answer. `SourceSlotsExact` needs `NoOrphans` in turn: the body that starts
goroutines and the call that ends overwrite the goroutines' states, which loses no
slot only because they were at rest. `IInv` is both with the types they use;
`SlotTaken`, `SlotReturned` and `SlotsKept` count, and there is one lemma per kind
of step. Theorems: `NoOrphansCorrect`, `SlotsCorrect`, and `SourceLimit`, which
says that at most `MaxSources` requests run at once.

For `SourcesAccounted` and `CompleteIsWhole` the outcomes have to be followed from an
answer to the response. `CollectedIs` says of every collector what its marks keep: a
failure stays one, and an outcome that is complete comes from an answer that is
whole. `RightInv` says of a call that still collects that each goroutine that
finished left the outcome of its own answer, and of a call that answered what its
coverage means; the joins (`JoinsAll`, `JoinsSearch`) carry one into the other.
`CanceledIsSaid` is an action property: only the step that ends a goroutine writes its
outcome (`OwnEnd`). `KeepsBudget` shows that the calls implement `ToolBudget`, step
by step (`BudgetSteps`), so every theorem about the budget holds of them; the
types of the budget, and with them `TypeCorrect`, come from there.

**Compact output** (`ReportsProofs`). What is true after the selection must survive each `Drop`.
`IInv` is the types with `NewerStay` (a kept item has all newer items of its source
beside it), `LostAreOldest` (a source without any item means that no source has
two, and that everything kept is newer), `Counted` (the counters are differences of
cardinalities) and the flags of each phase. The selection needs that the reserved
items are the newest of each source (`ReservedOfEach`, `ReservedOnce`) and that
`NewestOf` cuts a set at a place in the order (`NewestOfIsUpper`, by counting).
`DropKeepsIInv` is the heart: the oldest of a crowded source leaves a newer item
behind. Theorems: `TypeCorrect`, `SourcesFirstCorrect`, `LossesCountedCorrect`.

**Doctor** (`ReportsProofs`). `DoctorInv` says of each source that its status is the
worst of the bindings probed so far and is that of one of them (`Worst`), and of a
report what its exit code means (`Told`). `DoctorTruthfulCorrect` needs no assumption.

**Transitions, Beszel** (`CollectionsProofs`). For the transitions
`TransitionsInv` adds up the checks that are done (asked or without a key) and knows
that items mean a request that did not fail; so `ChecksAccounted` and `OkIsAnswered`
hold for any number of checks and any bound. For Beszel `HubInv` says that as long as
nothing changed what was read is the beginning of the hub and there is more
(`PagesSoFar`), and that all pages stated the same total. `PagesHold` ties the number
of pages to the systems; `PagesAgreeCorrect` holds for every hub, page size and bound.

**Adapters of one request** (`CollectionsProofs`). A collection is one step, so
`AdapterInv` is short: a collection that ended failed, or answers its request from
rows that the source may hold, and the outcome is what its collector makes of that.
The work is in what sorting, filtering and cutting do to lists of any length, without
induction. `Lists` says that a sequence has every member of a set once, in a strict
order; ranking does that (`RankedLists`), there is only one such sequence
(`ListedOnce`, by the least position at which two differ), and sorting again composes
(`ListsCompose`). `StableLinear` shows that the stable sort of items is such an order
for any items, `KeepNewestIs` that the limit keeps its last positions.

`KeepsNewestCorrect` and `CompleteIsEverythingCorrect` follow each record that was
asked for from its row to its item (`ResultsKept`, `MessagesKept`, `LinesKept`,
`AnswerHasAll`), and `CollectedIs` what the marks of an outcome say of the answer. For
Loki the line more that is asked for is what matters: if a line of the window was not
sent, limit + 1 newer ones were (`NotSent`), so either the answer is cut or one of
them was discarded. `RowOrderIrrelevantCorrect` turns the list around: as many
endpoints match, and a single one is the same (`FoundTurned`); messages with ids of
their own keep their ranks (`MessagesTurned`, by `RankedMapped`); lines end up ordered
by time, labels and their place in the stream, whatever the order of the streams
(`SortedLinesAre`), so they are the same sequence. `AdaptersHold` carries the three
over to `Collections`.

**Start, service registry** (`ReportsProofs`). `StartInv` says that the command is past
`LoadFile` only with a file that parses (`Served`), that the client maps then hold every
source under its kind with headers that `AuthHeaders` can give (`ClientsRight`), that
the registry has every id once in order (`OrderRight`), and that what a host has read is
the beginning of what matches, up to its offset (`ReaderRight`). `AcceptedWorks` goes
over the rules that matter: `LimitsSound` for the limits, `SourceSound` and `HeadersSent`
for what is sent, whatever the order of the iteration over the map. `ListingComplete`
needs the sort and the filter of the registry: `RegistryOrder` and `Ascending` are
written by what they give, not how, so `AscendingExists` shows first that there is such
a sequence, by the rank of each member; `OrderIs` and `MatchedIs` are what follows for
ids that differ (`IdsDiffer`). `StartupAssumption` says what a decoded file is: its
settings are numbers, its services a finite list, ids are ordered as numbers are.

**The compositions.** The theorems above are about the specification of each part.
`PartsAreWhole` and `ReportsAreWhole` show that `Collections` and `Reports`, which the
runs check, implement each of their parts: initial states map to initial states, and a
step is a step of one part and leaves the others alone. `TypesCorrect`,
`AdaptersHold` and `ReportsTruthful` carry the theorems over.

**Only model-checked.**

- `CancellationReleases` and `CallsEnd`: liveness, out of the prover's reach, as is
  `ENABLED`.

## Not modelled

Redaction is a list of regular expressions over text, with no state and nothing
that another part decides by. The demonstration's stand-in sources are no part of
the program. Within the modelled parts these are left out: texts, severities
and freshness labels of items; the query text and labels of Loki; metrics of
Beszel; the decoding of YAML, file permissions, and the syntax of names, URLs and
selectors (one test each in `Config`); TLS and the policy on addresses and
redirects; the standard-input transport, command-line flags and output; the
warnings and the factual summary of a timeline.
