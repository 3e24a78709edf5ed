# Reliquary Enrichment in TLA+

Reliquary Enrichment is the write side of a retrieval system: a model reads
*Fragments* (chunks of a corpus it does not own), proposes a claim about one, and
the code resolves the reference, slices the evidence, asks a second model to judge
it, gates the verdict, and only then stores a write-once *Enrichment Record* or
*Link*. Around those two write boundaries sit a registry of Entities, a clustering
of records into Events, and two batch drivers (the multi-pass pipeline and the
extraction probe).

This directory holds TLA+ models of those parts, the TLC configurations that check
them on small instances, and TLAPS proofs of what matters most for every instance.
Paths below are relative to `src/reliquary_enrichment/`, except those that start with
`contracts/` or `schema/`, and `probe/probe_loop.sh`, `probe/run.sh` and `probe/README.md`,
which are at the top of the repository.

## 1. Inventory

| Component | State it keeps | Operations | What is hard | What makes it correct |
|---|---|---|---|---|
| Event materialization (`entities.py`, `postgres/entity_store.py`) | event rows: member list, `merged_into` | `materialize` = two SELECTs, then INSERT, UPDATE, or two UPDATEs, each its own commit | two calls interleave; a call stops between commits; ids compared as text | union-find: one live event per cluster, no false merge, Links keep leading to their event |
| Entity resolution (same files) | actor and date rows with aliases, UNIQUE (type, canonical) | `resolve_or_create` = find, then alias append or INSERT | check-then-insert races; stale row in the alias test | variants are remembered, rows are never replaced, refs in records stay right |
| Handle map, read tools (`grounding/handles.py`, `read_tools.py`) | per workstream: handle table, current Fragment | mint, resolve, set/get current; `get_chunk`, `get_neighbors` | shared workstreams, process restart, a model that mistypes | a handle keeps naming one Fragment; pointing hits the Fragment meant |
| Grounding core (`grounding/core.py`, `types.py`, `fragments.py`) | none | resolve, load, slice, gate, attest | the corpus changes between load and store | an attestation describes one loaded text |
| `write_enrichment` (`write_enrichment.py`, `postgres/record_store.py`) | `enrichment_records` | eleven steps, short-circuiting | escaping errors, lost acknowledgements, entities created before the record | no ungrounded fact is stored; references frozen into rows are right |
| `link_events` (`link_events.py`, `postgres/link_store.py`) | `enrichment_links` | eight steps; materializes events before the INSERT | two Fragments loaded at different times; calls of several callers | no ungrounded fact link; events are backed by links |
| Judge transport (`grounding/judge.py`), model client (`multipass/pass_base.py`), pool (`llm_http.py`) | 16 worker threads | post with a deadline; one retry on an unreadable answer | calls that outlive their deadline keep their thread | fails closed; every call is answered by its deadline |
| Multipass (`multipass/*`) | pass states, run directory | passes 1 to 5, fill loop with plateau, gate | passes that fail part-way, confidence that never settles | per-chunk failures are contained, state is saved, attempts are bounded |
| Passes and review (`multipass/passes/*`, `parsing.py`, `review.py`) | the states of the passes | parse each reply, consolidate, clean up, render the review | unreadable or odd replies, calls that raise, mappings that leave something out | one bad reply costs its own chunk or pass only; the review tells what the run did |
| Probe (`probe/*.py`) | scratch schema, run log | create, run, score, drop; isolation check | killed runs, reused labels, live production tables, quotes copied with other white space | offsets point at the quote, the scorecard adds up, results are saved before the drop, production untouched |
| Lane loop (`probe/probe_loop.sh`, `run.sh`) | on the swap host: `lane.env`, the served model, its health | swap, guard, wait for health, run, restore | ssh, lane, model, probe or operator failing between any two steps; a `lane.env` the loop may not write | no candidate's label on another model's answers, a true word on the restore |
| MCP registration (`mcp.py`) | one set of services per process | tools | one default workstream for all | arguments reach the right pipeline |
| Migrations (`schema/*.sql`), connections (`postgres/connection.py`), models and protocols (`models.py`, `stores.py`), reports | constraints; none; none; none | | | |

How they interact: the MCP server calls the read tools and the two write pipelines;
both pipelines use the grounding core, the judge and their store; `write_enrichment`
calls the resolver between its gate and its INSERT; `link_events` calls the
materializer in the same place. The multipass fill loop and the probe call
`WriteEnrichment.write` as an agent would, with offsets that `locate_quote` computed.
The lane loop starts a probe per candidate and exchanges the model it talks to. The only shared mutable state is Postgres
(each store call is its own transaction) and, per process, the handle map (behind a
lock) and the HTTP pool.

The hazards, each at its line, with the property that covers it, are in
`PROJECT.json`.

## 2. Modules

| Module | Models | Composes |
|---|---|---|
| `EventClusters` | the abstract promise about `same_event`: assertions join clusters, at once | |
| `EventMaterializer` | `EventMaterializer` over the entity store, one SQL statement per action | refines `EventClusters` |
| `EntityResolver` | `EntityResolver.resolve_or_create`, one statement per action | |
| `HandleMap` | `grounding/handles.py` | |
| `GroundingCore` | slice errors, gate, attestation | |
| `WriteEnrichment` | `get_chunk`, `get_neighbors`, `write_enrichment` and its faults | `HandleMap`, `GroundingCore`, `EntityResolver` |
| `LinkEvents` | `link_events` and its faults | `GroundingCore`, `EventMaterializer` |
| `FillLoop` | pass 3 for one chunk: `Pass3FillValues.process_chunk`, `ConfidencePlateau`, `ground` | |
| `Multipass` | `execute_multipass`: inputs, `Pipeline.run`, gate, export, drop | `FillLoop` |
| `Quotes` | `locate_quote`, an algorithm on sequences, and what it should return | |
| `ModelReplies` | `json.loads` of a reply or of a region of it, `safe_json_array`, `safe_json_object` | |
| `Passes` | the parser and the state of every pass, `render_review` | `Quotes`, `ModelReplies` |
| `Probe` | `execute_probe`, `ProbeRunner.run`, `parse_proposals`, `score_from_data` | `Quotes`, `ModelReplies` |
| `LaneLoop` | `probe_loop.sh` and `run.sh` around the probe runs of one candidate | `Probe` |
| `ModelCalls` | `post_json` and its pool, `LiteLLMGroundingJudge.evaluate`, `complete` | |
| `MCEvents`, `MCEntities`, `MCWrite`, `MCLinks`, `MCMultipass`, `MCPasses`, `MCProbe`, `MCLane` | instances for TLC (`MCLane` over that of `MCProbe`) | |
| `EventMaterializerProofs`, `EntityResolverProofs`, `MultipassProofs`, `WriteEnrichmentProofs`, `LinkEventsProofs`, `ModelCallsProofs` | theorems about the module each is named for | |
| `LaneLoopProofs` | theorems about `LaneLoop` and the `Probe` in it | |
| `PassesProofs` | theorems about `Passes` and the `Quotes` in it | |

### How state and actions correspond to the code

*EventMaterializer.* A row of `codex_entities` with type event is identified by the
name in its label `event:<name>`, which is unique and never changes; `born`,
`members` and `mergedInto` are its existence and its two metadata fields. `pc[c]` is
the next statement of caller `c`'s `materialize`, `job[c]` its arguments and the rows
it has read (each a copy: the code computes the new member list from it). `FindA` and
`FindB` are `event_for_record` (any one of several hits: LIMIT 1 without ORDER BY),
`Branch` the if-chain, `Create`, `AddMember`, `MergeSet` and `MergeMark` the writes.
A *name* is the text a payload uses for a record id and `RecordOf` the uuid it
denotes: the store compares texts in `member_records`, uuids elsewhere. `grounded` and
`returned` are history.

*EntityResolver.* `entity[k]` is the row of canonical key `k`. `Find`, `AddAlias` and
`Insert` are the store's three statements. A call creates at most one row, so the id of
the record being written, which the row keeps as `first_seen_record`, identifies it.
An INSERT of a taken key leaves the call in `raised`: nothing up to the tool's caller
catches the UniqueViolation.

*HandleMap.* Handles are numbered from 1 in minting order, so a table is a sequence of
distinct chunks. Every method holds the map's lock: an action each. `Mint` is one minted
handle, `MintBoth` the two of `get_neighbors`, which on a Fragment without neighbours are one.

*WriteEnrichment.* `corpus[k]` is the version of chunk `k`, or `Gone`: the corpus
belongs to somebody else and `EditCorpus` may happen at any time. A text is a pair of
chunk and version; what a pair of offsets cuts out of it (`SliceOf`), and which claims
a span supports (`Support`), are constants, so they may be anything. `held` and `focus`
are what the agent remembers; it may send any handle or echo whatever it was shown.
Three variables are history: `lastRead` is whose `get_chunk` filled a workstream's current slot,
a row's `overtaken` says that another agent's had when the row's reference was resolved
without a handle, and `givenUp` has the records whose write raised or was cut off after it
had created an Entity.
`ResolveFragment`, `LoadAndSlice`, `Judge`, the `Cite` actions and `InsertRecord` are
the steps of `_write` that touch shared state, in order, each with its early return.
The judge is any model that never calls *grounded* what the span it is shown does not
support; it is shown the claim, the cited actor and date, and an interpretation's note
(`RenderRecordClaim`). `Abort` is an exception other than GroundingError, which `write` does not
catch; `InsertRecord` may commit and still raise (a lost acknowledgement); `Restart`
loses the handle map and the calls in flight, and nothing else.

*LinkEvents.* As above, for two records: `LoadA` and `LoadB` are two reads of the
corpus; past the gate a `same_event` link calls `materialize` (`Events!Call`) and
`EventStep` runs its statements; the INSERT comes after. `faults` counts what goes wrong
(an edit of the corpus, an exception that escapes), and `Budget` bounds it together with
the calls of `materialize`, the two things that make the state space large. `givenUp` is
history: the pairs whose call ended past the gate without a Link, whose event
memberships no Link backs.

*FillLoop.* `step` is the place in the loop of one chunk, `trajectory` the confidences
recorded so far, `best` the plateau's running maximum, `rows` the records `write` has
stored. Confidences are integers in units of 1/`Scale`; `NaN` is a value of its own
because `float("nan")` passes the parser and compares false with everything, and values
outside 0..`Scale` pass the loop too, and are only refused by `write`.

*Multipass.* One operator may start the command again under the same label, with the
results directory and the scratch schema as they were left. `listed` holds what the slice and
the ranges list and `Assemble` has not looked at yet, a chunk per step; `results` holds the states
of the finished passes, `outputs` the answers of the current one, `disk` what each file
was written from and by which run. `PassChunk` is `process_chunk` of any pass but the
third, whose chunks run `FillLoop` step by step. `Die` is a kill or an error that no
pass contains.

*Passes.* One step per pass: within a pass the calls for the chunks do not see each
other (their order, and a process that dies between them, are in `Multipass`). `said`
keeps the replies, `states` what the passes made of them. A reply is what each of the three
readings of it yields (`ModelReplies`): `json.loads` of the whole, of the widest `[...]`,
of the widest `{...}`; an answer may also be that the call raises. `Consolidation`,
`TypeList`, `KeywordList`, `Label`, `Meaning` and `Pointed` are the parsers, `Part` is what
the review shows of a chunk. A list that a parser returns each once and in order is a set:
what reads it later sorts it or makes a set of it, or prints it.

*Quotes.* A text is a sequence of characters, a span a pair of Python offsets. `Split`
reads it a character at a time (`Tokens`).
`LocateQuote` follows the code (`str.find` of the stripped quote, then the regular
expression of its words joined by `\s+`, whose match is computed by `MatchEnds`);
`WellLocated` says, without following it, what a caller may rely on.

*Probe.* The same life cycle as `Multipass` with two differences that matter: an exception
goes through a `finally` block that does work (`Raise`, then `Finally`), and production,
which others write to (`ProdWrites`), is counted before and after. `log`, `tally` and
`schema` are three accounts of what happened; `ScoreCard` relates them. What a candidate
answers is a reply, `ParseProposals` what the runner reads in it, and `Has` is whether the
chunk has the quote, by `LocateQuote`.

*LaneLoop.* `env`, `serving` and `health` are the swap host: the PROFILE `lane.env` names,
the model that is up, and what `/health` says. `Swapped` and `SwapFailed` are the remote
commands of `swap_lane`, of which the last, `lane up`, decides the status; with ssh
failing any prefix of them may have run. `Guard` reads `lane.env` back, `HealthWait` polls,
`Run` starts a probe (`Start` of `Probe`, which the module EXTENDS), and the probe's
own steps are `ProbeAnswer` and `ProbeWork`. `Restore` and `RestoreHealth` are the EXIT
trap. `Interrupt` is Ctrl-C, which reaches loop and probe, `Kill` ends both, `LaneTurns` is
a model that finishes loading or crashes. `hung` says that the ssh at hand does not return:
`Hang` may set it at any ssh, whatever the remote commands have done by then, and `Unhang`, which
nothing obliges to happen, ends it. `authors` is history: which model's answers each
run used.

*ModelCalls.* `queue` and `running` are `_POOL`: posts no worker has taken, and posts
being sent, each with how long its socket has been silent. `Ask`, `Collect` and `Expire`
are `submit`, `future.result` returning and `future.result` timing out. Posts are
futures; one is used again once nobody holds it. `Outcome` is what becomes of a reply: the judge's
`evaluate` and a candidate's `complete` differ on content that is no text, which the
first fails on with a TypeError and the second hands on. `Tick` is a unit of time, and waits for
whatever is due, so that a deadline is a deadline.

## 3. Runs

Every pass run is exhaustive within its bounds.

| Run | Question | Bounds |
|---|---|---|
| `EventsSerial` | called one at a time, does `materialize` implement `EventClusters`, and does every assertion take effect? | 4 records, 4 calls: enough for two events to be built and merged, and for a third merge into the survivor |
| `EventsAbort` | what survives when the one caller stops between any two statements, and one record has two spellings? | 4 names of 3 records, 4 calls |
| `EventsRace` | (violation) two callers, no crash: a Link's event loses a record | 3 records, 3 calls |
| `EntitiesConcurrent` | two callers that may stop anywhere: the registry learns variants and replaces no row | 3 forms of one name and a date, 2 record ids |
| `WriteOneAgent` | one agent against corpus edits, deletions, restarts, escaping errors, stale and mistyped handles, echoed ids, without the foreign key: is every stored record supported and attested, does a handle keep its chunk? | 2 chunks, 2 versions, 2 offsets, 2 claims, a note or none, a cited date or none, 1 record |
| `WriteConcurrent` | two agents in the shared default workstream who cite the same actor in two forms, one with a date, with deletions under the foreign key and calls that raise: do refs and references lead where they should, is an Entity's record there? | 2 records, 2 chunks, 1 handle number sent |
| `LinksConcurrent` | two callers against corpus edits, escaping errors and mangled ids: is every stored Link supported and attested, and every event membership backed by Links? | 3 records in 2 chunks, 2 versions, 3 `materialize` calls or faults, within the constraint below |
| `Multipass` | do two runs under one label, killed anywhere, keep log, gate, files and schema in step? | a slice of 1 or 2 chunks and an overlapping range, confidences 0, 1, 2 and NaN at scale 1, 4 attempts, 2 runs |
| `ModelCalls` | are answers earned and in time with a full pool, a trickling server, late and unreadable replies? | 2 callers (judge or candidate), 1 worker, deadline 2, read timeout 1 |
| `Passes` | what do odd replies and calls that raise cost, and does the review show it? are quotes located? | 2 chunks, 1 to 3 replies per pass and a raise; every text of up to 5 and quote of up to 3 characters of which one is blank |
| `Lane` | the loop around the probe runs of one candidate, with ssh, lane, model, probe and operator failing anywhere | 2 candidates, 2 loops, 2 runs, 2 chunks, 1 foreign row in production, every reply of `MCProbe` |
| `ProbeRerun` | (violation) a scorecard covers rows of a run before | 2 chunks, 2 runs |

The record bound of `WriteOneAgent` is one because its properties speak of one record
at a time and a call reads no other record; calls stop once the bound is reached, the
corpus and the handle map move on. `LinksConcurrent` needs three links to connect
three records in every order and to merge two events; its CONSTRAINT `Scope` spends the
third call only on behaviours in which nothing goes wrong and every payload is
`same_event`. Calls and faults up to two together are combined freely: an edit between two
loads, an abort between two commits, either of them beside another caller's `materialize`.

In `Passes` the replies name one type in two spellings, leave a type out of the mapping,
wrap JSON in chat, or hold none; each chunk gets each of them, or a raise. Five characters
are the fewest in which a quote of three occurs twice ("a a" in "a a a"), and in
which a quote with one blank meets a text with up to three in that place. In `Lane` the followed candidate comes second, after the
default: the swap before it can fail and leave the other model up, its own run can be cut
short, and a second loop finds what the first left on the lane, on disk and in the schema.

In `Multipass`, with epsilon equal to the scale, an honest trajectory has at most three
attempts and the cap of four is reached by NaN and by 2, which is out of range. In
`ModelCalls` one worker is enough to have a post in the queue past its deadline while
another is being sent; deadline and read timeout differ so that either can come first.
Two runs under a label are enough for one to find what the other left.

Four runs use a VIEW, to tell states apart only by what a later step or a checked
property may read. `Behaviour` (MCWrite) leaves out answers and, once a reference is resolved,
its text. `Registry` also leaves out columns that are only copied
into the row, and keeps of an agent's memory only what its next
reference can tell apart: whether the handle it would send still leads to the chunk it
was shown for, and, if it was the last to read, whether the current Fragment is its own; of a
call and of a row, whether its reference hit. Two states with one view have the same enabled actions, reach the same
views, and agree on the properties of the run. `Behaviour` of MCLinks keeps, of a call past
the gate, whether its Link is going to satisfy the two properties about evidence, and of
the stored Links which pairs they connect and whether both properties hold. `Behaviour` of
MCLane keeps, of a run under way, which files are its own and whether they agree with the
schema and the log now, and of rows of earlier runs that there are some; of a run that is over,
whether there are rows; every step of the loop's own work
changes a part of the view, so fairness is judged on the views as on the states.
`WriteConcurrent` permutes record ids, agents and chunks, and `LinksConcurrent` its callers:
they are only compared (in `WriteConcurrent` one span fills every text).

`WriteEnrichment`, `LinkEvents`, `Multipass` and `ModelCalls` have a `TypeOK` that states the
shape of their state; no run lists it, because it says little about the code. It holds
of each of their runs and can be added to the configuration.

CHECK_DEADLOCK is off in the event, link and write runs, in `Passes` and in those of the
batch drivers: their calls, rows or runs are bounded, and with the bound used up the
system rests.

`FairSpec` asks weak fairness of each caller's next statement: a thread inside
`materialize` runs straight on, holds no lock, and waits for nobody. Nothing obliges
anyone to make a call, and nothing is fair about aborts. `Multipass` asks weak
fairness of the process's own work, which waits for model calls that are bounded by
their deadline (`ModelCalls`); a kill or an error is always possible and never owed. In
`ModelCalls` time passes (`SF_vars(Tick)` excludes only executions in which infinitely
much happens in no time), timeouts fire when due and a thread in `future.result` picks
its result up; the server owes nobody a reply, and no worker is owed to a queued post.
`LaneFairSpec` asks weak fairness of the loop's own work and that of its probe
(`LoopWork`), which is enabled only while no ssh hangs: nothing in the script ends one that
does, so `LoopEnds` promises an end or a loop that stands in it. The calls of the probe are
bounded by their deadlines. The lane owes nobody a loaded model, and nobody owes an interrupt
or the return of an ssh.

### What the violations show

`EventsRace`: `_add_member` and `_merge` write back a member list that an earlier,
separately committed SELECT returned. Two concurrent `link_events` calls can overwrite
each other's member, or add one to an event that has just been absorbed. The docstring
(`entities.py:84`) promises a union-find.

`ProbeRerun`: `create_probe_schema` is CREATE ... IF NOT EXISTS, and a run that is killed,
raises, or is told to keep its schema leaves its rows. The next run under that label
scores and exports the rows of both, but relates them to its own attempts, although the
documents speak of a schema created fresh per run (`probe/README.md:33`,
`probe/schema.py:86`).

### Differences between the documents and the code without a run of their own

These came up while modelling; the models follow the code.

- A crash between the two UPDATEs of `_merge` leaves two live events with the same
  records (`OneLiveEventPerRecord` is checked without crashes; `EventsAbort` shows what
  still holds with them). `contracts/codex.md` asks for exactly one.
- The same record in two spellings of its uuid gets two events: `event_for_record`
  compares texts, `record_store.get` uuids. A self-link in two spellings passes
  `_validate` and is refused by the CHECK after its event was committed.
- An echoed `chunk_id` without a handle is taken as the Fragment, although it is
  documented as a cross-check only.
- A write without a reference means the current Fragment of its workstream, and `mcp.py` puts
  everyone who names none into "default": it goes to whatever any agent read last there.
  `PointsHitTheFragmentMeant` says that this is the only way to miss; the module's own note
  (`mcp.py:33`) calls the binding unfinished.
- An Entity is created before the record that it names as `first_seen_record`. A write that
  raises, or is cut off, after that leaves it naming no record; `FirstSeenRecordsExist` says
  that no other write does.
- A mistyped handle whose Fragment holds the same sentence at the same offsets is
  stored under the wrong Fragment; `PointsHitTheFragmentMeant` excludes slips.
- An interpretation ruled *partial* still registers its actor and date, also those the
  judge named as failing, and a partial `same_event` still merges events.
- A fact's `claim_relevance` is stored although the judge is not shown it;
  `FactsAreSupported` speaks of what was judged: the claim, the cited actor and date, and an
  interpretation's note.
- A UniqueViolation of `resolve_or_create` or `_create` escapes the tool instead of
  becoming a rejection.
- `probe/runner.py` skips a chunk whose extraction raises; an exception of `get_chunk` or
  of `write` ends the run (`Raise`), after which only `isolation.json` is written.
- `_isolation_unchanged` is true when production could not be counted either time, for
  whatever reason, and `isolation.json` then calls it read-denied; `BreachIsReported`
  speaks of runs whose counts could be read.
- `llm_http.py` says an abandoned worker retires when its read timeout fires. A server
  that keeps the connection trickling never lets it fire: `WorkersRetire` says exactly
  which workers may stay. With all sixteen gone every call times out in the queue, unsent,
  and the judge answers `judge_unavailable` (it still fails closed).
- A judge reply with a JSON value of the wrong type (a body that is no object, content that is
  no text) raises a TypeError, which `evaluate` does not turn into `judge_unavailable`
  (`Outcome`).
- The loop says "default restored and healthy" (`probe/probe_loop.sh:50`) although `lane.env` may
  not be writable and the lane serves what it served before: `swap_lane` returns the status
  of `lane up` alone. `RestoreIsVerified` says what the message does mean. The candidates are
  checked by `GUARD`; the default is not.
- `HEALTH_TIMEOUT` is called the "seconds to wait for a model to load"
  (`probe/probe_loop.sh:19`); `health_wait` counts its sleeps only, and neither ssh nor curl
  has a time limit, so a poll that hangs is never timed out (`Hang`).
- `lane_profile` is said to read what the lane is *actually* configured to serve; it reads
  `lane.env`. That the lane serves it rests on `lane up` loading what `lane.env` names, or
  failing, and on one operator working on the lane at a time, and on neither `lane down`
  nor a model that is still up getting in the way. These are assumptions of `LaneLoop`.
- "The run aborts on any drift" (`probe/README.md:39`): the breach is raised after the schema
  has been dropped, and the loop only skips to the next candidate.
- A probe run that fails leaves the scorecard of an earlier run of its label in place, which
  the next report renders.
- The grounding pass-rate is "grounded / proposals that reached the judge"
  (`probe/README.md:44`); the code divides by the located ones, of which some are refused before
  the judge sees them.
- The targets of a consolidation's mapping need not be in its `final` list, which the model
  gives separately; the review can show a canonical type that the schema above it lacks.
- `parse_prose_label` reads "not prose" as prose. `parse_meaning` keeps a reply whose
  `claim_meaning` is empty, raw JSON included, as the meaning. The review shows at most forty
  words of a vocabulary, without saying so.
- The review prints the same for a chunk whose pass 2 raised and for one in which the model
  named no type (`multipass/review.py:71`, `:75`); `ReviewTellsTheRun` says what is printed.
- A confidence outside [0, 1] or NaN steers the plateau before `write` refuses it: with
  NaN first, no retry ever plateaus and only the attempt cap ends the loop.

## 4. Proofs

All are for any number of records, callers, agents, chunks, surfaces, posts and calls, and any
offsets, judges and deadlines: whatever a CONSTANT stands for. The constants' assumptions are
of three kinds: sets that are what they are used as (`None` is no chunk, callers are a finite
set, epsilon is positive), conversions that do what the code's do (a canonical form is its own
canonical form), and the judge's quality, which `WriteEnrichment` and `LinkEvents` need: it
never calls grounded what the span it is shown does not support. A theorem that needs more
says so in an ASSUME of its own; those are listed with it below.

**`EventMaterializerProofs`** begins with the abstract specification: clusters are always the
classes of an equivalence (`ClustersAlwaysPartition`), and never shrink (`ClustersNeverShrink`).
The partition is inductive as it stands, together with the type of `cluster`. What callers have
asserted is a behaviour of it (`AssertionsAreClusters`).

Then, for callers that interleave and stop anywhere: types
(`TypesHold`), and `NeverFalselyMerged`: no interleaving, crash or spelling puts two records into
one event that no grounded assertions connect. `NoFalseMerge` alone is not inductive: a caller
writes back lists it read earlier. `SoundInv` adds that the member lists *in callers' locals*
are sound too, that a caller's two names are connected in `grounded`, and that a row read for
a name contains that name, so that the union of two such lists is connected through the pair.
It holds without any assumption about order, because `grounded` only grows.

What else `materialize` promises is true of one caller at a time only (`EventsRace` is the
counterexample for two), and is proved from `Serial`, "there is one caller", who may still
stop between any two statements and spell a record as it likes: `LinksLead`,
`InsertsNeverClash` and `AbsorbedFinal`. The invariant `SerialInv` says that what the call
has read is up to date when it writes (`UpToDate`, statement by statement: between the two
UPDATEs of a merge the survivor already holds what the absorbed row still has), that the name
in a taken label is found in some unmerged event (`LabelsAreFound`, hence no clash: a name that
`event_for_record` does not find has no label), and that a name without a row has no members.

With `~Aborts` and one spelling per record (`OneName`) in addition, `OneEventPerRecord` and
`MergesAtOnce`: the initial states and every SQL statement map to initial states and an
`Assert` or a stutter of `EventClusters`. That is the refinement, proved step by step: `Apart`
(unmerged events share a name only between the two UPDATEs) makes the event that contains a
record unique, so the clusters are the classes of "some unmerged event has both", and a write
joins exactly the two classes of its names. Both hypotheses are needed: an abort between the
two UPDATEs leaves two unmerged events with one record, and two spellings have two events.

**`EntityResolverProofs`**: types, `RegistryLearns` (a surface once answered for stays known)
and `EntitiesStay` (an entity once handed out keeps its row). Both rest on the fact that rows
are only ever inserted where there was none and otherwise grow (`RowsGrow`), and that a caller
past `find` has a task.

**`WriteEnrichmentProofs`**: `TypesHold`, `FactsSupported`, `AttestationsCoherent` and
`RefsRight` follow from one invariant, `SoundInv`, because none of them is about stored rows
alone: a row is put together from a call's locals over eleven steps, in which the corpus, the
handle table and the registry move on. It says, for a call at each step, that chunk, offsets and
span are of the one text that was loaded (`OfOneText`); past the gate, that the ruling was on
that span and let the payload through (`PassedTheGate`); and while it cites, that its refs are
those of the surfaces taken up so far, one of which may be on its way through
`resolve_or_create` (`CitesInOrder`). Nothing in it depends on the corpus as it is now, which
is why edits do not disturb it, and what it takes from the registry survives other agents'
steps because rows only grow. The proof has one lemma per action and, under it, one step per
part that the action can disturb.

Three more theorems add to it. `FirstSeenExist` is inductive given `SoundInv`: a new row is of
the id that its call holds (`NewRowsAreOfTheTask`, `CitesInOrder`), a call keeps its id until it ends
(`IdsStay`), and whatever ends it accounts for the row, by the INSERT, or by `givenUp` when it
raises or the server restarts (`CallsAccount`, `RestartAccounts`). `HandlesResolve` rests on
`HeldInv`: tables only grow (`TablesGrow`), and a handle held since the last restart is a
position in one. `PointsHit` is for any number of agents in one workstream: the current
Fragment is a slot per workstream, and if nobody has called `get_chunk` since the agent did, or
since the restart emptied it, the slot is empty or holds its `focus` (`CurrentIsFocus`).

**`LinkEventsProofs`**: `TypesHold`, `FactLinksSupported` and `LinkAttestationsCoherent` need
that a call's two texts, spans and the verdict belong together (`Found`), as above.
`EventsBackedByLinks` is the composed property and the hard one: it speaks of moments with no
call in flight, and a call has changed Events long before its Link is stored. Its invariant
`Backed` counts a call past the gate as evidence itself (`Evidence`): the pair goes from the
call to the stored Link, or to `givenUp`, and is never without a place. `grounded` is then the closure of
what is in evidence, and `SoundInv` of `EventMaterializer` says that members of one event are
connected in `grounded`. That invariant is not proved again: `Events!Step` is shown to
be a step of `EventMaterializer` (`SameStep`, `SameCall`, `SameEnd`, `SameInit`), and the lemmas of
`EventMaterializerProofs` are used through an INSTANCE.

**`ModelCallsProofs`**: `VerdictsEarned`, `CallsInTime` and `NoneSentInVain`, for every size of pool,
deadline and read timeout. The invariant keeps track of where a post may be: in the queue
(once, and awaited), at a worker (awaited or not), or through (awaited). A verdict reaches the
call it is for because no two calls share a post (`OwnPosts`). That there always is a fresh post to
submit is a counting argument (`NewPost`): what is queued belongs to other callers, so the posts
in use are fewer than callers and workers together. Time: a call has spent what its first post
waited and what its second has waited so far, each at most a deadline (`InTime`).

**`LaneLoopProofs`**: of `Probe`, `NoneDroppedUnscored` and `BreachesReported`, from what is on disk
at each phase (`DiskInv`) and what the first count remembers (`CountInv`); of the loop,
`CandidatesOwnRows` and `RestoresVerified`, from `LaneInv`: between a swap that went through and the
next one the lane serves what `lane.env` names, and past the guard that is the candidate.
`LaneImplementsProbe` shows that each step of the loop is a step of `Probe` or leaves the probe
alone, so `ProbesUnderTheLoop` has the probe's promises under swaps, interrupts and kills.

`ScorecardsAddUp` is about three accounts of one run, collected along different paths: the log of
attempts, the counters, and the rows of the schema. The invariant `ScoreInv` compares them at
every step. `PlaceInv` says that the chunks seen and the ones missing are those gone through,
and that a chunk is among those with proposals, among the failed ones, or neither, but never
two of these; at the chunk at hand it leaves room for the one it is going to be. `RowsInv` says that this
run's rows and the attempts that were ok are in bijection. From a bijection, a subset and a
count of an interval the card's figures follow (`CardAddsUp`). `FilesInv` keeps a card that is on disk from being
read beside the log of another run. The theorem is for a slice of any length, with chunks
that occur in it twice.

**`MultipassProofs`**, first for the fill loop on its own, for every scale, epsilon and cap: the
loop is bounded (`LoopIsBounded`) and reports a best that no attempt beats by epsilon
(`NearlyBest`). The first needs more than the statement: while confidences are honest each attempt
that went on raised `best` by at least epsilon (`Climbs`, part of `LoopInv`), so
`(Len(trajectory) - 1) * Epsilon <= best <= Scale`, and a plateau adds one attempt.

Then for the pipeline, for any chunks, slices, ranges and number of runs under one label:
`OneRecordEach`, `GateAgrees` and `NoneDroppedUnscored`, and the loop's bounds in it (`LoopsAreBounded`).
They follow from `RunInv`. `Once`: the assembled inputs name each chunk once. `FillInv`: a chunk
is being filled in pass 3 only, and has stored one record if its step says so. `StoredInv`: the
rows of this run are of chunks that pass 3 has answered for, and of the chunk at hand; from that and
`Once`, a new record is the first of its chunk. `ToldInv`: what pass 3 has said of a chunk, in the answers
while it runs and in its state ever after, agrees with those rows. A pass's state is built from the
answers by a CHOOSE of the last answer for a chunk; `StateWorks` shows that with `Once` it holds
every answer at its chunk. `DiskInv`: what is on disk at each of the last phases. Rows of
earlier runs are there throughout, and every part speaks of `run` to tell them apart.

**`PassesProofs`**: `LocatesEveryQuote` is the one theorem about what an algorithm computes, for
every text and every quote over any characters: `LocateQuote` returns what `WellLocated` says it
should. `Split` and `MatchEnds` are recursive functions, over the characters and over the words of
the quote. The library's induction theorems take operators, which the provers cannot instantiate;
its theorem that a set of naturals has a least member takes a set, and gives induction over
sets of lengths (`Least`, `Induction`). On it rest, in this order: what a recursive function gives
step by step (`ScanExists`, `MatchExists`); what is read between two offsets, `Read`, when
the second moves on by a character (`ReadGrows`), which makes white space at either end and words
between it what they should be (`ReadBlanks`, `ReadSkips`, `ReadWord`); that the expression finds whatever reads
like the quote (`ReadIsMatched`, over the text) and nothing that does not (`MatchReads`, over the
words); and what `strip` leaves (`StripIs`, `SplitOfStrip`). The verbatim copies and the matches are
then the readings that `WellLocated` speaks of, and the first of them exists. `QuotesLocated`
is its instance for the run's samples.

`ReviewTells` follows from what the passes leave in their states (`ReviewInv`): pass 2 a finite list of types per
chunk, empty if the call raised; 2.9, unless it raised, a target for each of them; pass 3 a record
exactly where a row was stored, but for calls that raised; 4.9 a vocabulary that is the sum of
the cleaned lists. It holds for any replies: the parsers' results enter it only in that a
reply's array has an end and that the error recorded for a call is no state of a chunk.

Every invariant that the proofs use was first checked by TLC on the instance of a run.

The safety invariants, action properties and refinements of all passing runs are proved. Only
model-checked is liveness (`AssertionsTakeEffect`, `EveryCallIsAnswered`, `WorkersRetire`,
`RunsComplete`, `LoopEnds`), which rests on fairness and so on ENABLED.

## 5. Not modelled

Prompt wording and rendering, the layout of the review, of `records.txt` and of `RESULTS.md`,
argument parsing, connection strings, FastMCP, the order of migrations, the probe's heartbeat:
wording, configuration and libraries. Two metrics of a scorecard, the smoking gun and the
cross-context count, which search the rows' words and entity refs for what is of interest in
one file; the counts and the rate are in `ScoreCard`. The regular expressions that normalize
types and keywords are given by their outcome (constants, assumed idempotent, which the
instances check); `str()` of a JSON value that is not a string, where the code takes one, is
left out. `run.sh` is the start of a probe run; which candidates think is left out, and so is
that two names may become one label. A SIGTERM that reaches the loop's shell and not its probe
is not modelled: `Interrupt` and `Kill` reach both. Hashes are taken as collision-free. The
judge's quality is an assumption, not a result.

## 6. Plan

The system is modelled as far as section 5 allows, and its safety is proved. What is left:

1. What liveness rests on and a proof can reach: for each loop a measure that every step of it
   lowers, so that only the fairness of the steps is left to TLC.
2. The parsing of a probe's replies (`Items`, `ParseProposals`) for every reply.
