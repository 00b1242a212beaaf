# A TLA+ verification of memmy

memmy (`src/`) is a memory service for agents, written in Go. A caller writes
messages; the service cuts each into overlapping chunks, embeds them, and stores
them in Neo4j as nodes of a graph. Recall finds nodes by similarity, spreads
along weighted edges, and strengthens what it returned. Weights decay with time.
Forget removes messages. All state is in Neo4j; the process keeps none between
calls, takes no lock around a call, and several processes may share one database.

This directory holds TLA+ modules that model the service, TLC configurations that
check them on small instances, and proofs checked by TLAPS for every instance.

    tlc -workers 2 -config races.cfg MCMemoryService.tla
    tlc -workers 2 -config node_life.cfg MCNodeLife.tla
    tlc -workers 2 -config edge_tx.cfg MCEdgeTx.tla
    tlapm MemoryServiceProofs.tla
    tlapm ScoringProofs.tla

## The system

### Parts

| part | code | state | operations |
|---|---|---|---|
| memory service | `internal/service/{service,write,recall,forget}.go` | none between calls; the locals of a running call | Write, Recall, Forget |
| decay and reinforcement | `internal/service/{decay,reinforce}.go` | `Weight`, `LastTouched`, counts of nodes and edges | lazy decay, bump, prune; Reinforce, Demote, Mark |
| stats | `internal/service/stats.go` | the `:Counter` row | Stats |
| storage adapter | `internal/storage/neo4j/{graph,counters,scanners,vectorindex,codec}.go` | `:Message`, `:Node` (with embedding and tombstone), typed relationships, `:Counter`, `:TenantInfo` | `graph.Graph`, `vectorindex.VectorIndex`, one transaction per method |
| sessions, migrations | `internal/storage/neo4j/{db,migrate}.go` | driver; `:Migration` rows | retrying transaction functions; Migrate |
| tenant schema, types | `internal/service/tenant_schema.go`, `internal/types/types.go` | immutable schema | Validate, JSONSchema, CanonicalTenant |
| chunker | `internal/chunker/chunker.go` | none | SplitSentences, Chunkify |
| transport, server | `internal/transport/mcp/mcp.go`, `cmd/memmy/main.go` | HTTP servers, signal context | tool handlers, Serve, guardSchema |
| facade | `memmy.go` | the opened parts | Open, Migrate, Close |
| embedders | `internal/embed/**` | none | Embed |
| configuration, clock | `internal/config`, `internal/clock` | none; a guarded time | Load, Validate; Now |
| evaluation stores | `internal/eval/{corpus,dataset,manifest,queries,embedcache}` | SQLite files, JSON manifests | resumable ingestion, cached embeddings |
| evaluation harness | `internal/eval/{harness,inspect,metrics,sweep}`, `cmd/memmy-eval` | a replay clock | ingest, replay, score, sweep |

### How they interact

The transport decodes a request and calls the service. The service resolves the
tenant, calls the embedder before it touches the store, and then issues storage
transactions one after the other: a Write of c chunks makes 2c + 1 of them plus
two per pair it links; a Recall makes one per hit, up to three per edge it
reinforces and two per edge it expands; a Forget makes two reads, one delete per
edge and two per node, and one per message. The adapter adjusts the counters in
the transaction that changes the records. Nothing else is shared between calls.

### What is hard

* Calls interleave between any two of their transactions: a Forget can remove what
  a Write is still writing or a Recall is about to reinforce; two Recalls work on
  the same edges; two Forgets on the same message.
* A call can end after any transaction, by an error, a cancelled context or the
  end of the process; nothing is rolled back beyond the transaction.
* Ids are read in one transaction and used in later ones.
* Counters are maintained by deltas that each method computes from its own read.
* Decisions (an edge is missing, an edge is to be pruned) are taken in one
  transaction and acted on in another.
* The schema is applied statement by statement, by processes of different builds
  that nothing makes take turns, and trusted by its highest recorded version.
* An evaluation's corpus is built from transcripts that are still being written,
  statement by statement, and read four times by a run beside it.
* A server is told to stop while requests are under way and its listener may have
  failed; the storage is closed behind them.
* A run's rows are differences between two readings of weights that every query
  changes, and its hits are matched to labels by text.
* Inside a transaction Neo4j isolates reads only from uncommitted writes, so what a
  transaction decides by may have changed when it writes, and the driver runs a failed
  transaction function again.

`PROJECT.json` lists each such hazard at its line under `hazards`, with the
properties about it.

### What makes each part correct

* service and store: a memory whose Write returned stays whole until it is
  forgotten; nothing forgotten comes back; what a dead call leaves behind can still
  be found and forgotten; the counters agree with the records; every call returns.
* weights: bounded by cap and floor; a positive bump never lowers a weight, time
  never raises it; explicit bumps of one node are applied a refractory period
  apart; an edge below its floor disappears and no other does.
* transactions: one edge per ordered pair; weight sums agree with the weights.
* migrations: a recorded version's statements have all been applied, no version is
  left out, and who serves or has migrated finds the schema of its build, with any
  number of processes and through crashes. (A version may be recorded twice.)
* chunker: every word is in a chunk, every sentence is whole in one, and successive
  chunks overlap as configured.
* tenant schema: what clients are shown is what is enforced.
* server: a signal ends the process, and until then it serves; the storage is not
  closed under a request that ends in time.
* evaluation: an interrupted ingestion resumes without loss or repetition; a cache
  answers with what the embedder would have answered; a replayed query sees only
  what had been written at its time; a hit counts exactly if it comes from a labelled
  turn, and a change of weight is reported once.

## Modules

| module | stands for |
|---|---|
| `Storage` | the records of one tenant and what each mutating storage method writes, with its counter deltas, given what it has read |
| `MemoryService` | any number of Write, Recall and Forget calls over `Storage`, also between the read and the write of one transaction; the properties |
| `MemoryLifecycle` | the abstract promise: the life of one memory |
| `MCMemoryService` | `MemoryService` for TLC; the configurations give it its constants |
| `MemoryServiceProofs` | proofs: types, the inductive invariant, the safety theorems, the refinement of `MemoryLifecycle` |
| `EdgeLife`, `MCEdgeLife`, `EdgeLifeProofs` | one memory edge: its weight, kind, times, counts and its part of the counters, under Recalls, Writes and Forgets |
| `EdgeStore` | the abstract promise of the edge methods for one pair: each in one step |
| `EdgeTx`, `MCEdgeTx`, `EdgeTxProofs` | the edge methods on one pair, statement by statement, under everything that calls them |
| `NodeLife`, `MCNodeLife`, `NodeLifeProofs` | one memory node: the same, under Recalls, explicit bumps and Forgets, transactions taken apart into statements |
| `TenantSchema` | the tenant schema: checked in the configuration, enforced by the service, published to clients |
| `Serve`, `MCServe`, `ServeProofs` | `memmy serve` from configuration to exit, with its listener, supervisor, shutdown and requests |
| `Migrate`, `MCMigrate`, `MigrateProofs` | the schema of the database, under `memmy migrate` and `memmy serve` of several builds |
| `Ingest` | the evaluation's corpus store and embedding cache, under any number of ingests of growing transcripts |
| `EvalRun`, `MCEvalRun`, `EvalRunProofs` | `Ingest` composed with a run of the dataset: replay, queries, manifest |
| `Chunker` | the sentences and the chunks of a text |
| `Scoring`, `MCScoring`, `ScoringProofs` | labelled queries, the battery of a run and its rows, over `Chunker` |

Four models look at the same store from four distances. `MemoryService` has all the
records and all the calls, with weights as choices and a transaction's read apart from
its write. `EdgeLife` has one edge and its weight, with transactions atomic (the steps
of `EdgeStore`) but run several times. `NodeLife` and `EdgeTx` have one node and one
pair, with the statements of a transaction interleaved; `EdgeTx` is shown to implement
`EdgeStore` until two transactions overlap on the pair. What holds in `EdgeLife`
because a storage method is atomic is to be read with what `EdgeTx` shows of that.

### Storage

One tenant: every query of the adapter filters by tenant. `messages`, `nodes` are
ids of rows. `rows` are the nodes `PutNode` has filled in; the others are bare rows
that `Insert`'s MERGE created. `embedded` and `tombstoned` decide what a search
finds (`Searchable`). `edges` are ordered pairs, whatever the relationship type.
`nodeCount` and `edgeCount` are the `:Counter` row.

`putEdgeTx`, `UpdateEdge`, `DeleteEdge` and `DeleteNode` read the row in a first
statement and decide by it what to write and what to add to the counters. Under
read-committed isolation another transaction may commit in between. Their operators
are the second half, given what the first one `found`; the first half is a step of the
caller in `MemoryService`, with any steps of the others between the two. `crossed` is
a history variable: a transaction has written over an edge (or a node) that was no
longer as it had read it. Two first puts of one pair that cross count it twice, two
deletions that cross subtract it twice. The other methods write in one statement.
(`putNodeTx` reads first too, but only the Write that minted a node puts it, once.)
From its first write to its commit a transaction is one step, as the write locks the
rows it is about; the cases that this leaves out, a relationship of another type left
beside the one merged, are `EdgeTx`'s.

Two details of the code are kept on purpose: `InsertVector` MERGEs its row, so it can
create one that was never counted, and `PutEdge` counts a new edge although the MATCH
on a missing endpoint has stored none. Left out are the refusals that no caller meets
(`validateEdge`: an edge from a node to itself), and texts, weights, times and kinds. A message id is its rank in creation order, and its
nodes are its chunk numbers, which stand for the ULIDs (`newID` is monotonic under
its mutex).

### MemoryService

A process is a call in progress, `local[p]` its local variables, `pc` the storage
transaction it makes next, `tx` what a transaction that is open has read. `Start`
begins a call, `Continue` makes its next transaction or half of one, `Abort` ends it
where it is: the error of any transaction, a cancelled context, the end of the process.
`ReadPair` is the first half of the puts, updates and deletions of a Write and a Recall,
`ForgetReadPair` and `ForgetReadNode` those of a Forget.

| code | actions |
|---|---|
| `Write` | `WriteStart`, `WritePutMessage`, (`WritePutNode`, `WriteInsert`) per chunk, `WritePutEdge` per directed edge of the sequential pairs, `WriteRecent`, `WritePutEdge` per edge of the recent pairs, `WriteReturn` |
| `Recall`, search and bumps | `RecallStart`, `RecallBump` per hit, `RecallSeeds` |
| `applyEdgeDecayReinforce` | `EdgeGet`, then `EdgePut` or `EdgeUpdate`, then `EdgePrune`; `RecallFail` returns `ErrNotFound` |
| `Recall`, expansion | `RecallNeighbors` pops the queue, `RecallReadEdge` (`readDecayedEdge`) per edge, `RecallPruneRead` |
| `Recall`, rest | `RecallRank`, `RecallTraverse` per delivered path, `RecallReturn` |
| `Forget`, `purgeNodeEdges` | `ForgetStart`, `ForgetNodes` per message, `ForgetOutbound`, `ForgetInbound`, (`ForgetReadPair`, `ForgetPurgeEdge`) per edge, `ForgetVector`, `ForgetReadNode`, `ForgetDeleteNode`, `ForgetDeleteMessage`, `ForgetReturn` |

Scores, weights and clocks are replaced by the choices they decide, each of them
nondeterministic: which hits a search returns, which candidates become seeds and in
what order, whether a decayed or a new edge is below the floor, whether a path
improves, how far back the recent window reaches. The node reads of Recall's
ranking are one step, and a search that finds nothing, which returns at once, is
left out. A Forget by id names a message its caller has seen: one a Write
returned or a Recall could return.

`written`, `targeted` and `raced` are history variables: what each returned Write
stored, what a Forget has begun to remove, and which of these were still being
written at that moment. No action's guard reads them.

### EdgeLife

`edge` is the relationship of one ordered pair, `count` and `sum` its part of
`edge_count` and `sum_edge_weight`, `attached` whether both end nodes exist. A call
of `applyEdgeDecayReinforce` is `Reinforce` (it reads the clock), `GetEdge`, then
`PutEdge` or `UpdateEdge`, then `PruneEdge` if any run of the function found the
weight below `EdgeFloor`; `readDecayedEdge` is `ReadEdge`, `UpdateEdge`,
`PruneEdge`. `RetryEdge` is a run of the function that the driver throws away: its
only trace is the Go variable `pruned`, which the function does not reset.
`MissEdge` is `ErrNotFound`. `PutStructural`, `ForgetEdge` and `ForgetEnd` are the
storage calls of a Write and a Forget on the pair; a Write read its clock at any
earlier time. Its weight is the configured one, which no check relates to the floor or
to the cap (`config.Validate`), and which `Write` does not cap: `StructuralWeights` is any
set of naturals, and `untouched` remembers that a Write stored the edge and no Recall has
touched it since. `Fade(kind, w, dt)`, what exponential decay leaves of a weight, is a
parameter that only has to stay between 0 and the weight. Weights are integers. A tick
is a millisecond, the precision of the stored `LastTouched`; `Go`'s clock is finer,
which the model leaves out here and keeps in `NodeLife`.

### EdgeStore and EdgeTx

`EdgeStore` is one pair's edge and counters with `Put`, `Update`, `DeleteEdge` and
`DeleteEnd`, a method a step. `EdgeLife` computes what is stored and takes its steps
through it (`Pair == INSTANCE EdgeStore`). `EdgeTx` takes the methods apart.

`rels` holds the pair's relationships: a kind is a relationship type, and nothing but
the order of the statements keeps two types from standing side by side. `local[p]` is
a transaction: the rows its first statement read (`was`), the one it took (`row`), and
the edge to store.

| code | actions |
|---|---|
| `applyEdgeDecayReinforce` | `Reinforce`, `GetEdge`, then a put or an update |
| `putStructuralEdgePair`, `readDecayedEdge`, a prune or `purgeNodeEdges`, `Forget`'s `DeleteNode` | `PutStructural`, `ReadEdge`, `PruneEdge`, `ForgetEnd` |
| first statements | `ReadForPut`, `ReadForUpdate` (with the closure) or `Miss`, `ReadForDelete`, `ReadForEnd` |
| `putEdgeTx`, the rest | `MergeEdge`, or `ReplaceEdge` if the type differs |
| `UpdateEdge`, the rest | `SetEdge`, or `ReplaceEdge` |
| DELETE that finds nothing, then MERGE | `DropNothing`, `MergeLate` |
| `DeleteEdge`, `DeleteNode`, the rest | `DeleteEdge`, `DetachEnd` |

The first statement that writes a row locks the end nodes to the commit, so it and
what follows it are one step; a DELETE that finds no row locks nothing, and the MERGE
after it is a step of its own. That is Neo4j's isolation again, as in `NodeLife`. Of
a relationship's properties only the weight is kept, and the closure makes any weight
of it and any kind that is at least as strong. `Retry` is the driver's second run,
`Abort` the end of a call. `raced` and `deleted` are history.

### NodeLife

`node` is the row, `nodeCount` and `sumWeight` its part of the counter. A call is a
Recall's bump (`applyNodeDecayReinforce`), an explicit bump
(`applyExplicitNodeBump` for Reinforce, Demote and Mark, told apart by their
deltas), or the end of a Forget: tombstone, then DeleteNode. `UpdateRead` is
UpdateNode's first statement with the closure, which reads the clock;
`UpdateCommit` its other statements and the commit, which write back every property
the first one read. `DeleteRead` and `DeleteCommit` are the same for DeleteNode. In
between, other transactions commit. That reads take no lock, that a write locks the
row to the commit, and that a read sees committed rows only is Neo4j's isolation,
taken from its documentation, not from this repository; `DESIGN.md` 8.7 counts on
the same ("the second writer wins"). `Retry` is the driver's second run of a
transaction: the variables outside the closure keep their values. `Millisecond`
ticks make a millisecond; the row keeps times rounded down to it (`UnixMilli`).
`bumped` is a history field that travels with the row: the time of the last
explicit bump it carries. `Damp` and `Fade` are parameters; `MCDamp` is the code's
`delta * (1 - weight / WeightCap)` on integers. A Write's own transactions on the
row are over when the model begins.

### TenantSchema and Serve

`TenantSchema` has the tenant schema three times: `ValidConfig` is what the
configuration's own check admits, `ErrTenantInvalid` the error codes that `Validate`
may return for a tuple (several, where it walks a map), `JSONSchema` what the tools
publish, which `Accepts` reads as the SDK's validator does (external: what a JSON
Schema with these keywords means). A pattern and an enum are the sets of values they admit.
`SchemaConfig` is what the configuration file can hold: a required key is one of the keys,
as `required` is a flag of a key there.

`Serve` starts with any tenant schema and any set of enabled transports. `Load`,
`Open`, `OpenFails`, `Return` and `Exit` are `runServe`; `Listen`, `ListenerFails`,
`ListenerStops` the goroutine of `mcpService.Serve`; `ServeReturns`, `BeginShutdown`,
`ShutdownDone`, `ShutdownTimesOut`, `AwaitListener` its select and what follows;
`Restart` the supervisor, suture (external). `server.number` tells the `http.Server`s
of successive calls of `Serve` apart, since a Shutdown waits for the connections of
its own. A request arrives (`Arrive`, with the SDK's check), is refused for an
argument (`RefuseArguments`) or for its tenant (`CheckTenant`), or goes to the storage
and is answered (`Answer`), never, or by a storage that has been closed; `Exit` loses
what is left. `memory.stats` may have no tenant, which skips both checks.

### Migrate

`schema` is the set of statements whose constraint or index exists, a statement
being a migration and its place in the file; `rows` the `:Migration` rows, each with
the run that wrote it, since no constraint keeps a version from being recorded twice.
`job[p]` is what a process is doing: `Begin` starts `migrate` or `serve`;
`ReadVersion` is `CurrentSchemaVersion` and the start of Migrate's loop;
`RunStatement` one `execAutoCommit`, which does nothing when the constraint is there
(IF NOT EXISTS); `RecordMigration` the row. `Guard` is the start-up check of
`guardSchema` and of `Open`. `End` is every way out: success, refusal, an error, a
crash; a call that fails after it took effect is the call, then `End`. A build is the
number of the last migration embedded in it; `loadMigrations` admits no gap.

`LoseStatement` is a statement that fails after `execAutoCommit` has returned: the
code drops the result without reading it, so nobody learns of a failure that comes
with it. `lost` remembers such statements, and the properties except them, because
which failures Neo4j reports that late is not something this repository settles.
`DropIndex` is the operator of `memmy.go:344`. The vector index's dimension, and
`SkipMigrationCheck`, which is for tests, are left out.

### Ingest and EvalRun

`content[f]` is a transcript: its whole records, how its last line stands (ended by a
newline, a whole record without one, or half a record after it), and its modification
time in the milliseconds the store keeps. Its session appends to it at any moment
(`SessionWrites`). `ReadBytes` returns a last line without its newline too: a whole
record is then read as one, and half a record fails the ingest. `sources`, `turns` and `cache` are the SQLite tables
`source_files`, `turns` and `embeddings`.

| code | actions |
|---|---|
| `harness.Ingest` | `Begin`, then per file `NextFile`, `HashFile` (stat, then digest), `Check` (`HasSourceFile`: skip or not), per line `ExtractTurn` (`PutTurn`, queue, flush when full) or `SkipLine`, `EndOfFile` or `TornLine`, `PutSourceFile`; `Return` |
| `flush`, `Cache.EmbedBatch` | `NothingPending`, or `Flush`, `LookUp` per chunk (one statement each), `PutVector` per miss, `Flushed` |
| an error or the end of the process | `Fail` |
| `executeRun` | `SnapshotHash`, `ReadTexts`, `SeedClock`, `OpenRows`, `ReplayTurn` per turn, `EndReplay`, `Prewarm`, `RunQuery` per query, `FinishRun`; `RunFails` |

Which lines are turns, the UUID of a turn and its chunks are parameters. A digest is
the content it is taken of; a turn counts as stored when a row of its file has its
UUID, as the table's UNIQUE constraint has it, so that of two turns without a UUID
the second is left out, as in the code. `floor` is a history variable: what each file
held when the ingest began. Left out: files that are rewritten rather than appended
to, the order of the files (any), a second embedder model, and the vectors. Of a
replayed turn's nodes only the last touch is kept, since the clock is what the
properties are about. A turn may have no timestamp, or one that does not parse
(`extractor.go:197` drops the error): it sorts first, and the replay advances its clock
by a second for it (`ClockFor`), from the default date if no turn before it has set it.

### Chunker and Scoring

A text is a sequence of tokens (`Token`): blanks, terminators, words. `Held` are the words after
which a full stop does not end a sentence (abbreviations, initials); `Blank` ends a
sentence, and `Gap`, the blanks that `lastWord` knows (space, tab, CR, LF), begins the
word before the full stop, so that a no-break space hides an abbreviation. `SplitSentences`
and `Chunkify` are the code's, without its buffer: where a run of terminators ends a
sentence is said of positions in the text. A trailing run always does.

`Scoring` composes it with what a run does with the chunks. `Ingest`, `Generate`,
`Put` and `PutFails` fill the dataset: turns, then labelled queries, of which the
first with a text is kept (INSERT OR IGNORE), the paraphrases before the distractors. `Replay` writes the turns' chunks as
nodes of a tenant that nobody else uses. `Snapshot` is the start of `RunQueries`,
`Recall` one query: it decays and reinforces the candidates of its search, and its
hits are any nodes, since edges lead beyond the candidates. `RecallFails` is a Recall
that failed with some candidates touched. `ReadStates` and `ReadFails` are what
`RunQueries` does after a Recall, with `Compute`, the flags of a row, and `Report`,
its reinforcement deltas. A weight is what it has changed by since its node was
written, and `Change` any change. `reported` is a history variable. Ranks, scores,
averages and the judge are left out.

## Checks

Bounds: `MaxMsg` messages, `MaxChunks` chunks each, `MaxCalls` Recall and Forget
calls in a behaviour, `Oversample` hits, `SeedK` seeds, `MaxHops`, `RecentN`; in
`EdgeLife` and `NodeLife` also `MaxTime` ticks and, in `EdgeLife`, `MaxPuts`
structural puts. In `Migrate`, `MaxRuns` starts of a process and `MaxDrops` drops of
the index. In `Ingest` and `EvalRun`, `MaxCalls` ingests, `MaxTime` modification
times and a `Battery` of queries. In `EdgeTx`, `MaxCalls` calls; in `Serve`,
`MaxFailures` of a listener and the requests `Req`.

| run | question | instance |
|---|---|---|
| `races` | do the safety properties hold in every interleaving of Writes, Recalls and Forgets, with calls dying anywhere, are both counters exact until a Forget begins or two transactions cross? | one writer, a process that recalls or forgets, one that forgets; 2 messages of 1 chunk, 2 calls, no hops: 1 409 915 states |
| `returns` | does every call return, does the service implement `MemoryLifecycle`, and is nothing brought back by a path a Recall still holds? | one process that writes or forgets, one that recalls or forgets; 1 message of up to 2 chunks, 2 hops, 2 calls: 302 366 states |
| `edge_life` | do the counters follow the edge, and does every weak edge disappear and no weight fall by anything but time? | 2 Recalls, 4 edge operations, 2 puts, 2 ticks, a cap of 4 and a floor of 2, structural weights 1, 3 and 5, two deltas: 702 801 states |
| `edge_tx` | what is left of one edge per pair and of exact counters with the statements of the edge methods interleaved and run again, and do they implement `EdgeStore`? | 3 calls at a time, 4 in all, 2 weights: 525 467 states |
| `node_life` | do weights, bump spacing, answers, tombstones and counters come out right with statements interleaved and transactions run again? | 2 processes, 4 calls, 7 ticks of half a millisecond, refractory period of 3 ticks, an initial weight of 5 over a cap of 4: 1 089 636 states |
| `migrate` | is what a `:Migration` row, a server's start and a successful Migrate promise of the schema true, whoever migrates beside and wherever they end? | two processes of builds 2 and 3, 3 migrations of 2, 1 and 1 statements, 4 starts, the index dropped once: 509 960 states |
| `serve` | is the published schema the enforced one, is the storage closed under no request that ends in time, and does the process end when and only when it is told to? | 6 tenant schemas over 2 keys and 2 values, two of them invalid, 6 sets of transports, 2 requests, 1 failure: 768 781 states |
| `eval_run` | is what a `source_files` row and a returned ingest promise in the store and the cache, and does a run claim only what it replayed, under a clock that is never behind? | one ingester, 2 ingests, a transcript of 3 turns, one of them undated, and another line, 1 query: 2 572 014 states |
| `scoring` | is no text lost in chunks, does a hit count when it should, is every change of weight reported once? | 2 turns, one with any of 39 texts, 2 settings (one of them out of range), 1 query and a distractor, 2 candidates, failing calls: 1 863 461 states |
| `counters_drift` | does `edge_count` equal the stored edges with a Forget in the system? No | 1 message of 2 chunks |
| `forget_leaves` | does a Forget leave nothing of a message? No | 2 messages of 1 chunk |
| `pre_is_stale` | is a query's pre-state the one before its Recall? No | as `scoring`, no failing calls |

The bounds are enough for what the properties are about. Two messages give a
cross-message edge in both directions, a Forget(Before) of one message and of both,
and a Forget aimed at a message whose Write is in progress; two Forgets delete the
same node and edges, each between the other's read and write; a Recall creates,
updates, promotes and prunes the pairs that the second Write puts, holding edges
across both messages. The expansion is left to `returns`: there one message of two
chunks has a structural pair within it, which a two-hop expansion walks to and fro,
reinforcing and pruning, while the other process forgets it. What `races` checks holds
for any number of hops by the theorems below. Every process may die at any step in
every one of these runs. In `edge_life` two ticks let one call's clock be behind, at
and ahead of the last touch another call wrote, and four operations let one create,
one reinforce, one find the edge weak and one come between that and the prune. In
`node_life` seven ticks hold two refractory periods, a retry in a later millisecond,
and a stored time rounded below the true one; four calls let an update span two
others. In `edge_tx` three calls let two transactions overlap while a third comes
between their statements, and the fourth finds what they left. In `migrate` four
starts hold two migrations side by side, a version recorded twice, a third that goes
on from there, and a server; the first migration has a statement before and after
which a process may end. In `edge_life` a structural weight lies below the floor, one
between, one above the cap. In `eval_run` the transcript has a line that is skipped, a turn of two chunks that
fill the flush buffer, one whose date is before it and one without a date. Of its two
ingests the first may die anywhere or return, the second finds what is left, or
skips; the file grows between any two steps. All of it happens within one stored
modification time (`MaxTime` is 0), where nothing but the digest tells one content from
another: the hardest case for the skip. A third ingest, a second modification time, or
two ingests at once make a state space out of TLC's reach (over ten million states);
for any number of them there are the theorems. In `serve` two requests of one Serve, or
of two, are at every stage when the signal or the failure comes. In `scoring` the
texts are those where sentences are hard to tell: abbreviations, initials, runs of
terminators, and terminators with a blank, a line break or nothing after them. More
of each adds processes doing the same things to other records; the theorems below
hold for any number.

Properties of `races`:

* `NodeCountExact`: unless a Forget overtook a Write, `node_count` is never above the
  number of nodes, with two Forgets on the same nodes and calls dying half-way, and it
  is that number until two `DeleteNode` have both read the row and both subtract it.
* `CountersExact`: until a Forget has begun to remove something, `node_count` is the
  number of nodes, whatever Writes and Recalls do, and `edge_count` that of the edges
  until two transactions cross on one: two first puts of a pair count it twice.
* `NoOrphans`: a node not overtaken is a complete row whose message is there, so a
  later Forget finds it.
* `WholeUntilForgotten`: what a Write returned stays, whole and searchable, until a
  Forget aims at it.
* `DriftIsPermanent`: until two transactions cross on an edge the excess of `edge_count`
  over the edges never shrinks: the count is never too low, and never repaired once too
  high. (Two deletions that cross subtract an edge twice, and may leave it too low.)
* `NoResurrection`: only the Write of a message brings its nodes into the store,
  whatever ids other calls still hold.

Properties of `returns`, besides `EveryCallReturns` and `NoResurrection`:

* `KeepsLifecycle`: with `kept` the messages on disk and `stored` the nodes, the
  service implements `MemoryLifecycle`: message before nodes, nodes before message
  on the way out, and after its writing has ended a memory only shrinks.

Properties of `edge_life`:

* `CountersFollow`: while both ends exist, `edge_count` and `sum_edge_weight` hold
  exactly this edge, in every order of creating, replacing, updating and pruning it;
  once an end is gone they are never too low.
* `WeakEdgesDoomed`: an edge below the floor is about to be pruned by somebody,
  unless a call died between its two transactions, or a Write stored it so weak and no
  Recall has touched it since.
* `FallsOnlyWithTime`: a weight falls only if time has passed since the last touch,
  or a put replaced the edge; a call with an older clock does not decay it.

Properties of `edge_tx`:

* `OneEdgePerPair`: until a transaction writes over rows that changed since it read
  them, a pair has one relationship at most, none without both ends, and counters that
  are that relationship; with an end gone they may be too high, never too low.
* `MissedOnlyIfDeleted`: whatever has raced, a reinforcement that found its edge and
  then misses it does so after a deletion: a type is never replaced in two visible
  steps. (It then fails, and its Recall with it.)
* `Atomic`: until then the adapter implements `EdgeStore`.

After such a race two relationships may stand side by side, after which `DeleteEdge`
finds two rows, takes that for none (`Single` fails) and deletes neither; a prune
that overlaps another is counted twice. `OneEdgePerPair` says how far the code goes.

Properties of `node_life`:

* `CountersRight`: until a transaction writes over a row that has changed since it
  read it, the counters hold exactly the node; `node_count` is never too high.
* `AnswerIsTrue`: `SkippedRefractory` is that of the run of the closure that commits.
* `BumpsApart`: the explicit bumps a row carries are a refractory period apart, to
  within the rounding of the stored time.
* `HiddenStays`: only a transaction that read the row before it was tombstoned can
  undo the tombstone.

Of these, all but `AnswerIsTrue` exempt histories in which a transaction has written over a
row it had not seen (`raced`). There a bump is lost, as `DESIGN.md` 8.7 accepts, but the
counters drift as well: two Forgets of one node, for one, each subtract 1 from
`node_count` (`graph.go:131`), whether or not their DETACH DELETE still finds it.
`NodeCountExact` of `races` says the same of all nodes: exact until two `DeleteNode`
cross on one, and never too high.

Properties of `migrate`:

* `RecordedIsApplied`: the statements of a recorded version and of those before it
  have been applied, by whatever processes.
* `RecordsInOrder`: the recorded versions have no gap, so the highest stands for all.
* `ReadyIsComplete`: who serves, or was told that it has migrated, finds its schema.

Properties of `serve`:

* `PublishedIsEnforced`: the SDK refuses, by the published schema, only tuples the
  service would refuse, and lets none through that it calls invalid.
* `ClosedWhenIdle`: after a Shutdown that did not run out of time no HTTP request is
  under way when the storage is closed. A listener that failed is the exception: its
  `Serve` has returned without a Shutdown, and nobody knows of its requests any more.
* `ServesUntilStopped`: a signal leads to the end of the process, whatever requests do;
  before it, a failed listener is followed by one that listens.

Properties of `eval_run`:

* `RecordedIsPrimed`: of the content a `source_files` row stands for every turn is
  stored and every chunk has a vector, so an ingest that skips on its word is right.
* `DoneIsComplete`: an ingest that returned has done so for every whole line its files
  held when it began, those it skipped included.
* `ClaimsOnlyReplayed`: the turns the manifest's hash stands for, and those a hit may be
  resolved to, were all replayed, though an ingest commits between the readings.
* `NeverFromTheFuture`: no node is ahead of the replay's clock, with one exception that
  the code makes: a turn without a timestamp sorts first and is written under the
  default date (`replay.go:157`), and a dated turn earlier than that sets the clock back
  behind its nodes. No dated turn's nodes are ever ahead, and no undated one's before a
  dated turn has done so.

Properties of `scoring`:

* `NothingLost`: the nodes of a turn hold all its words in order, every sentence whole, and
  every pair of neighbours where windows overlap.
* `FlagsRight`: a hit counts only if its text is part of a labelled turn; one that is a
  sentence of such a turn, and of no other turn a part, does count. A chunk of several
  sentences is joined by single blanks, and counts only if its turn has them too
  (`run.go:146`); where turns share text, a run may say either (`run.go:145`).
* `CountedOnce`: the deltas reported of a node add up to what its weight has changed by.

Fairness, for `returns`: weak fairness of `Continue(p)` for each process. A
goroutine that can run is eventually scheduled, and the driver answers every call
or fails it (`Abort`). Nothing is assumed of new calls: they may stop or not, and
their number is bounded by `MaxCalls` and `MaxMsg`.

For `serve`: weak fairness of `Main` and of `Listener`. The main goroutine and that of
the listener are scheduled, Shutdown gives up after five seconds if it must, and suture
calls a failed service again after its backoff. Nothing is assumed of requests, of
the database under them, or of failures. The two leads-to formulas need no more.

### What the code does not keep

Three statements of the repository are refuted, each by a run of its own.

* `counters_drift`: `counters.go:9` and `DESIGN.md:256` say the counters are
  maintained transactionally, and `graph.go:445` that the endpoints of an edge exist
  because Write inserts nodes before edges. A Forget beside the Write removes one in
  between; `putEdgeTx` then counts an edge it has not stored.
* `forget_leaves`: `forget.go:13` says Forget removes a message and all that is
  derived from it. It reads the nodes once; those a running Write adds afterwards
  stay, searchable, without a message, and no Forget(Before) lists them again.
* `pre_is_stale`: `runner.go:59` says that the state a query's hits are compared with
  is the one immediately before its Recall. The baseline is renewed for hits, but
  Recall touches every candidate, and a later query that hits one of them compares
  it with the state before the earlier Recall: its reinforcement is the sum of both.
  (`CountedOnce` holds all the same.)

Three more can be read off the models' actions and have no run: a weak edge is deleted
in a second transaction (`PruneEdge` of `EdgeLife`), not in the one that decays it
(`DESIGN.md:620`), with whatever was stored in between; a Recall whose edge another
call has deleted fails as a whole (`Miss` of `EdgeTx`), where `DESIGN.md:652` speaks of one
lost reinforcement; and Migrate does not make a dropped vector index again (`From` of
`Migrate`), as `memmy.go:344` tells operators to have it done.

## Proofs

Theorems about `MemoryService` are about `Spec`, for any sets of processes and any
values of the bounds, under `StorageAssumption` and `ServiceAssumption`: the bounds
are natural numbers, and there is at least one chunk, one seed and one hit.

| theorem | says |
|---|---|
| `TypeCorrect`, `CallsWellFormed` | `TypeOK`; each call's locals fit its program counter |
| `OrphansOnlyByRaces` | `[]NoOrphans` |
| `WrittenIsKept` | `[]WholeUntilForgotten` |
| `NodeCountRight` | `[]NodeCountExact` |
| `GoneStaysGone` | `NoResurrection` |
| `ImplementsLifecycle` | `KeepsLifecycle`: `MemoryService` implements `MemoryLifecycle` |
| `CountersExactUntilForget` | `[]CountersExact` |
| `DriftNeverShrinks`, `UndercountedOnlyByCrossing` | `DriftIsPermanent`; `edge_count` is below the edges only once two transactions have crossed on one (`EdgeCountBound`) |
| `EdgeTypes`, `CountersRight`, `WeakEdgesGo`, `OnlyTimeWeakens` | `TypeOK`, `CountersFollow`, `WeakEdgesDoomed`, `FallsOnlyWithTime` of `EdgeLife` |
| `TypeCorrect`, `OneEdge`, `NeverMissed`, `ImplementsEdgeStore` | `TypeOK`, `OneEdgePerPair`, `MissedOnlyIfDeleted`, `Atomic` of `EdgeTx` |
| `NodeTypes`, `CountersExactUntilRaced`, `AnswersTrue`, `BumpsStayApart`, `HiddenStaysHidden` | `TypeOK`, `CountersRight`, `AnswerIsTrue`, `BumpsApart`, `HiddenStays` of `NodeLife` |
| `MigrateTypes`, `RecordsAreTrue`, `RecordsHaveNoGap`, `ReadyMeansComplete` | `MigrateTypeOK`, `RecordedIsApplied`, `RecordsInOrder`, `ReadyIsComplete` of `Migrate` |
| `TypesHold`, `RecordIsTrue`, `ReturnIsComplete`, `ClaimsHold`, `ClockHolds` | `RunTypeOK`, `RecordedIsPrimed`, `DoneIsComplete`, `ClaimsOnlyReplayed`, `NeverFromTheFuture` of `EvalRun` |
| `SchemasAgree` | for every schema and tuple, the published schema accepts what `Validate` accepts |
| `ServeTypes`, `SchemaIsEnforced`, `NobodyCutOff` | `ServeTypeOK`, `PublishedIsEnforced`, `ClosedWhenIdle` of `Serve` |
| `ChunkingKeepsText` | for every text, window and stride, chunking loses no word, sentence or overlapping pair |
| `TypeCorrect`, `TextsAreWhole`, `HitsAreJudged`, `ReportedOnce` | `ScoringTypeOK`, `NothingLost`, `FlagsRight`, `CountedOnce` of `Scoring` |

In `MemoryService`, `TypeInv` is inductive: types alone are not, since `Head` of the
work list or the first node of `path` has a type only where the program counter says
there is one. `IndInv` adds what makes the three state properties inductive:

* `IdsMinted`: every id in the store or in a call's locals has been minted, so a new
  Write collides with nothing;
* `RacesSeen`: a message that is both targeted and being written is `raced`, so the
  steps of a Write that was not overtaken find its earlier steps untouched;
* `WriterHolds`: while no Forget aims at its message, a Write's message and the
  chunks stored so far are there, complete and searchable;
* `ForgetterHolds`: a Forget works on nodes of its own message, which is targeted,
  and unless it has overtaken the Write, the nodes not deleted yet are exactly among
  those still on its list, so that when the list is empty the message may go;
* `TombstonesAimed`: only nodes of targeted messages are tombstoned.

`NodeCountExact` follows with these because a bare row can only come from an
`Insert` after a Forget has removed the node, which makes its message `raced`; and a
node that a `DeleteNode` has read as absent stays absent (`FoundAbsent`), so only one
that was found is subtracted. The drift theorems need only the types: unless a storage
method finds the edges other than its transaction has read them, which is what sets
`crossed`, it changes `edgeCount` by at least as much as the number of edges.

`CountersExact` needs what each call holds: `PutEdge` counts an
edge it cannot store if an end is missing, so both ends must be known to be there.
`LinkInv` says of every edge on a call's list, and of every path that a Recall
follows, that its ends differ and, until a Forget begins, are stored (`LinksHold`
of `Present`), so that an edge it finds absent and no other transaction puts is stored
when it is counted. Paths get their ends from edges read, which `EdgesAttached` (no
loops, and both ends stored, which Neo4j sees to) vouches for, so these are inductive
only together.

`EdgeLife`'s theorems hold for any weights, deltas, clock and any decay that never
raises a weight (`EdgeAssumption`, `FadeAssumption`), with the configured weights in any
relation to the floor and the cap. Their invariant adds that an
absent edge has weight 0, that a call about to create an edge has checked its weight
against the floor (so no put of a Recall stores a weak edge), and that no clock reading and no
`LastTouched` is in the future: a call's own reading is the only thing a decay
compares with.

`EdgeTx`'s hold for any calls and weights (`EdgeTxAssumption`). Their invariant says
what a transaction knows of the rows it has read (`KnowsRow`), which are still the
pair's rows unless it is about to set `raced`. Then one row was there, or none, and each
write is a step of `EdgeStore` with the same counters. `NeverMissed` needs no such
proviso: whoever was sure of the edge finds one, or has seen it deleted, as the
replacement of a type is one step and a DELETE of no row leaves no row to miss.

`NodeLife`'s hold under `NodeAssumption` and `DataAssumption`: decay and dampening
that do not enlarge. Floor, cap and the weight a node is stored with are any
numbers, as in the configuration. Their invariant says of the row a call is
about to commit that it descends from the row it read: same tombstone, and either
the same last bump or one a refractory period later. That needs `TimesAgree`, on the
row and on every copy: the last touch is past and at most the rounding older than
the last bump, because every closure, bump or not, renews it with a clock read after
the row was. Since the closure computes from the copy alone, the commit is right
whatever has happened to the row; only comparing it with the row needs `~raced`.

`Migrate`'s hold for any processes, builds and migrations (`MigrateAssumption`: every
migration has a statement). What has been applied stays or is accounted for, and what is
recorded stays (`Grows`), so each run keeps the claim its place in the loop makes
(`Fits`): the versions below its own are recorded, their statements and those of its
own file so far applied. The row it writes is then as true as the rows it read, which
`RecordsInOrder` makes the highest one stand for.

`EvalRun`'s hold for any ingesters, files, scripts and queries (`IngestAssumption`,
`RunAssumption`), with any turns dated or not. `RecordedIsPrimed` is
inductive only together with what each ingest knows of itself (`JobInv`): the files it
has dealt with are primed to their floor (`DealtWith`), which was read before the
digest (`FloorIsOld`, `SeenSince`); every line read so far is stored, and its chunks
are cached or pending (`ReadSoFar`), or being embedded (`Embedding`); and when it is
about to record a file it has read at least the lines of the digest with nothing
pending (`ReadAll`). That holds whatever the others do, because rows and vectors are
only ever added and files only grow: what was done stays done. For the run,
`Readings` orders its four readings of a corpus that only grows, and `ClockBetween`
keeps the clock between the turns replayed and those to come: undated rows sort before
all dated ones, so the clock falls at most once, at the first dated turn.

`Scoring`'s hold for any corpora, settings, K and changes (`ChunkerAssumption`,
`ScoringAssumption`). A node's baseline is where the rows have left it (`Rolling`),
whether or not queries failed or touched it in between.

`ChunkingKeepsText` is about the recursive definitions themselves: any text over any
tokens, any blanks, terminators and held words, any window and stride, in range or not.
No induction scheme can be cited here, as the library's take a predicate for a
parameter; instead `Induct` derives induction for a *set* of indices from the
well-foundedness of inclusion. With it a fold is shown to compute its steps in order
(`FoldExists`, `JoinSteps`, `WordsSteps`), a list that is laid out from its end to exist
(`ListExists`, `SentencesSteps`), and the words of a concatenation to be those of its
halves. The rest follows the code: a sentence ends within the text and only blanks are
skipped after it, so the sentences from each index on hold the words from there on
(`SentencesRight`, from the last index down); a window starts before a given sentence
and is the last to do so, hence it reaches that sentence, because the stride is at most
the window, and the one after it where the stride is less (`SpansCover`); and what is
joined stands in the result, with its neighbour (`WindowHolds`). `TextsAreWhole` adds
that only `Replay` writes nodes, before which the texts of the turns are fixed. For
`HitsAreJudged`, a hit that is a sentence of its own turn stands in that turn's text; if
in no other, no later turn has the same text, so the turn is known and is the only one
that the hit can resolve to (`SentenceResolves`).

`Serve`'s hold for any keys, values, schemas, transports, requests and failures
(`ServeAssumption`). `SchemasAgree` is the comparison of the two schemas, tuple by
tuple. It needs that a required key is one of the keys: a configuration cannot say
otherwise, and with none configured the published schema would still ask for the key
while `Validate` accepts everything. The invariant adds that a request past the SDK's check has a
tuple that `Validate` accepts (`Checked`), that no request of a server is under way once
its Shutdown has seen its connections idle (`Drained`), and that there has been at most
one more server than failures (`Counted`), which bounds their numbers.

`ImplementsLifecycle` maps each transaction of `MemoryService` to a step of
`MemoryLifecycle` or to none: the messages being written change only where a Write
begins or ends (`OpenSame`, `OpenBegins`, `OpenEnds`), its own transactions are `Keep`
and `Remember` (`WriterRefines`), and those of the others are `Overtake`, `Erase`, `Drop` or
leave the memory alone (`OthersRefine`). That a Forget erases no memory that is being
written and not overtaken, and drops a message only after its last node, is what `IndInv`
says of it (`RacesSeen`, `ForgetterHolds`).

Only model-checked: `EveryCallReturns` and `ServesUntilStopped`, since liveness under
fairness is out of the prover's reach. All the invariants and action properties
of the passing runs are theorems. The refuted statements are TLC counterexamples.

## Not modelled, and the plan

In order of what matters most:

1. A second embedder model in `Ingest` (a file is skipped whichever model embedded
   it) and the task a cached vector was computed for; the manifest
   that an ingest reads, changes and writes back.
2. The search operators of the adapter: the probe of the native index, flat scan; the
   dimension of the vector index, which nothing compares with that of an embedder.
3. Mark's walk over the recent nodes, and its recency weights.
4. The tenant registry: `UpsertTenant`, and what identifies a tuple.
5. In proofs: that `Storage`'s edge methods are `EdgeStore`'s on each pair, so that what
   `EdgeTx` and `EdgeLife` show can be used in `MemoryService` as well; that a chunk holds
   nothing but consecutive sentences of its text, in order.
6. What is left of the pair once two transactions have overlapped on it: `OneEdgePerPair`,
   `Atomic` and the exact counters except it, as the code gives nothing else there.

Left out for good: the reading of a configuration file and the ranges of its values,
the facade's options, the remote embedder's HTTP, averages over rows, sweeps (a
run per entry), file formats and command-line flags. They hold no state that other
parts depend on, or are input and output only.
