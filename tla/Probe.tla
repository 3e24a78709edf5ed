-------------------------------- MODULE Probe --------------------------------
(***************************************************************************)
(* execute_probe (probe/cli.py): count the production rows, create the     *)
(* scratch schema, run the candidate over the slice (probe/runner.py),     *)
(* persist the log, score (probe/scoring.py), export (probe/export.py),    *)
(* count again, drop.  A candidate's reply is parsed into proposals and    *)
(* each quote is located in the chunk (probe/extraction.py); of the        *)
(* write_enrichment call that follows only the outcome matters here.       *)
(*                                                                         *)
(* The process may be killed anywhere and most steps may raise; an         *)
(* operator may then start a run under the same label: the results         *)
(* directory and the schema are still there.  Production has other writers.*)
(***************************************************************************)
EXTENDS Quotes, ModelReplies, FiniteSets

CONSTANTS
  Slice,          \* the frozen chunk ids; nothing removes one that is there twice
  TextOf,         \* each chunk's text
  Replies,        \* what a candidate may answer
  MaxRuns,        \* bound: how often the operator starts it
  MaxProd,        \* bound: rows of production
  Granted,        \* whether the probe role may read production
  Nothing

ASSUME SliceAssumption ==
  Slice \in Seq(DOMAIN TextOf) /\ Slice # <<>> /\ DOMAIN TextOf = ToSet(Slice)
ASSUME BoundsAssumption == {MaxRuns, MaxProd} \subseteq Nat

VARIABLES
  run,      \* the number of the run: 0 before the first
  phase,    \* where execute_probe stands
  at,       \* position in the slice of the chunk at hand
  todo,     \* proposals of that chunk not attempted yet
  log,      \* RunLog.attempts
  tally,    \* RunLog's counters: chunks seen, chunks missing, extract errors
  before,   \* prod_counts_before
  schema,   \* probe_<label>: whether it is there, and its rows
  disk,     \* the results directory: what each file in it was written from
  prod,     \* rows of the production tables
  prodWas   \* history: prod when this run counted it first

vars == <<run, phase, at, todo, log, tally, before, schema, disk, prod, prodWas>>

-----------------------------------------------------------------------------
Files == {"attempts", "scorecard", "records", "isolation"}

Ended == {"off", "over", "raised", "breach", "dead"}

Nought == [seen |-> 0, missing |-> 0, errors |-> 0]

NoSchema == [exists |-> FALSE, rows |-> {}]

Written(file, content) ==
  disk' = [f \in DOMAIN disk \cup {file} |->
             IF f = file THEN [run |-> run, content |-> content] ELSE disk[f]]

\* What prod_enrichment_counts may return now: every exception is turned into text
\* (here one text, as of a database that is down both times).
Counts == {[access |-> "error", rows |-> Nothing],
           IF Granted THEN [access |-> "ok", rows |-> prod]
                      ELSE [access |-> "permission_denied", rows |-> Nothing]}

Init ==
  /\ run = 0
  /\ phase = "off"
  /\ at = 1
  /\ todo = <<>>
  /\ log = <<>>
  /\ tally = Nought
  /\ before = Nothing
  /\ schema = NoSchema
  /\ disk = << >>
  /\ prod = 0
  /\ prodWas = 0

\* The process is gone, and its locals with it.
Gone == at' = 1 /\ todo' = <<>> /\ log' = <<>> /\ tally' = Nought /\ before' = Nothing

\* The operator starts it.
Start ==
  /\ phase \in Ended
  /\ run < MaxRuns
  /\ run' = run + 1
  /\ phase' = "create"
  /\ before' \in Counts
  /\ prodWas' = prod
  /\ UNCHANGED <<at, todo, log, tally, schema, disk, prod>>

\* create_probe_schema: CREATE SCHEMA IF NOT EXISTS, CREATE TABLE IF NOT EXISTS.
CreateSchema ==
  /\ phase = "create"
  /\ schema' = [schema EXCEPT !.exists = TRUE]
  /\ phase' = "get_chunk"
  /\ UNCHANGED <<run, at, todo, log, tally, before, disk, prod, prodWas>>

-----------------------------------------------------------------------------
(* ProbeRunner.run.                                                        *)

Keys == <<"records", "facts", "proposals", "items">>

\* _extract_json_array: an object is taken for the first list it holds, or for an item.
Items(reply) ==
  LET json  == Loads(reply, "array")
      lists == SelectSeq(Keys, LAMBDA key : Is(Field(json.object, key), "array"))
  IN  CASE Is(json, "array") -> json.array
        [] Is(json, "object") /\ lists # <<>> -> json.object[lists[1]].array
        [] Is(json, "object") /\ lists = <<>> -> <<json>>
        [] OTHER -> <<>>

\* parse_proposals: the items that quote something; a tier of another name is a fact.
ParseProposals(reply) ==
  LET Quotes(item) == /\ Is(item, "object")
                      /\ Is(Field(item.object, "quote"), "string")
                      /\ Strip(item.object.quote.string) # <<>>
      Tier(item)   == IF Field(item.object, "tier") = Str("interpretation")
                      THEN "interpretation" ELSE "fact"
      kept         == SelectSeq(Items(reply), Quotes)
  IN  [i \in DOMAIN kept |-> [quote |-> kept[i].object.quote.string, tier |-> Tier(kept[i])]]

NextChunk ==
  /\ at' = at + 1
  /\ phase' = IF at = Len(Slice) THEN "persist" ELSE "get_chunk"

\* The Fragment is there, or the chunk is skipped as missing.
GetChunk ==
  /\ phase = "get_chunk"
  /\ \/ /\ phase' = "extract"
        /\ tally' = [tally EXCEPT !.seen = @ + 1]
        /\ UNCHANGED at
     \/ /\ NextChunk
        /\ tally' = [tally EXCEPT !.missing = @ + 1]
  /\ UNCHANGED <<run, todo, log, before, schema, disk, prod, prodWas>>

Answers == {ParseProposals(reply) : reply \in Replies}

\* The candidate answers.
Extract ==
  /\ phase = "extract"
  /\ todo' \in Answers
  /\ IF todo' = <<>> THEN NextChunk ELSE phase' = "attempt" /\ UNCHANGED at
  /\ UNCHANGED <<run, log, tally, before, schema, disk, prod, prodWas>>

\* extract raises: the chunk is skipped.
ExtractFails ==
  /\ phase = "extract"
  /\ tally' = [tally EXCEPT !.errors = @ + 1]
  /\ NextChunk
  /\ UNCHANGED <<run, todo, log, before, schema, disk, prod, prodWas>>

Stored(row) == [schema EXCEPT !.rows = @ \cup {row}]

Attempt(located, ok) ==
  /\ log' = Append(log, [chunk |-> Slice[at], located |-> located, ok |-> ok])
  /\ todo' = Tail(todo)
  /\ IF Len(todo) = 1 THEN NextChunk ELSE UNCHANGED <<at, phase>>

\* The rows the attempt at hand may store: a fact's are grounded, an
\* interpretation's are flagged unless they are.
Rows ==
  [run : {run}, n : {Len(log) + 1},
   verdict : {"grounded"} \cup IF Head(todo).tier = "fact" THEN {} ELSE {"partial"}]

\* Whether a chunk's text has a quote; and that of the attempt at hand.
Has == [k \in ToSet(Slice), quote \in {p.quote : p \in UNION {ToSet(a) : a \in Answers}} |->
          LocateQuote(TextOf[k], quote) # NotFound]

Located == Has[Slice[at], Head(todo).quote]

\* Mutant: an attempt counts as ok once its quote is located.
TryLocated ==
  /\ phase = "attempt"
  /\ Attempt(Located, Located)
  /\ schema' \in {schema} \cup {Stored(row) : row \in IF Located THEN Rows ELSE {}}
  /\ UNCHANGED <<run, tally, before, disk, prod, prodWas>>

\* _attempt: the quote is not found, write rejects the proposal, or it stores it.
Try ==
  /\ phase = "attempt"
  /\ \/ ~Located /\ Attempt(FALSE, FALSE) /\ UNCHANGED schema
     \/ Located /\ Attempt(TRUE, FALSE) /\ UNCHANGED schema
     \/ Located /\ Attempt(TRUE, TRUE) /\ \E row \in Rows : schema' = Stored(row)
  /\ UNCHANGED <<run, tally, before, disk, prod, prodWas>>

-----------------------------------------------------------------------------
(* The rest of execute_probe.                                              *)

Persist ==
  /\ phase = "persist"
  /\ Written("attempts", log)
  /\ phase' = "score"
  /\ UNCHANGED <<run, at, todo, log, tally, before, schema, prod, prodWas>>

\* score_from_data: every row the schema holds, against this run's log.
ScoreCard ==
  LET proposing == {log[i].chunk : i \in DOMAIN log}
      located   == {i \in DOMAIN log : log[i].located}
      grounded  == {row \in schema.rows : row.verdict = "grounded"}
  IN  [proposals |-> Len(log), located |-> Cardinality(located),
       records |-> Cardinality(schema.rows), grounded |-> Cardinality(grounded),
       flagged |-> Cardinality(schema.rows \ grounded),
       passRate |-> IF located = {} THEN <<0, 1>>
                    ELSE <<Cardinality(grounded), Cardinality(located)>>,
       seen |-> tally.seen, missing |-> tally.missing, errors |-> tally.errors,
       proposing |-> Cardinality(proposing),
       empty |-> Max({0, tally.seen - Cardinality(proposing)})]

Score ==
  /\ phase = "score"
  /\ Written("scorecard", [rows |-> schema.rows, card |-> ScoreCard])
  /\ phase' = "export"
  /\ UNCHANGED <<run, at, todo, log, tally, before, schema, prod, prodWas>>

\* export_records; scored_and_exported is TRUE from here.
Export ==
  /\ phase = "export"
  /\ Written("records", schema.rows)
  /\ phase' = "finally"
  /\ UNCHANGED <<run, at, todo, log, tally, before, schema, prod, prodWas>>

\* An exception no one contains: the store's, the judge's TypeError, a full disk,
\* Ctrl-C.  Of a store whose acknowledgement is lost, the row is in all the same.
Raise ==
  /\ phase \in {"get_chunk", "extract", "attempt", "persist", "score", "export"}
  /\ schema' \in {schema} \cup
       {Stored(row) : row \in IF phase = "attempt" /\ Located THEN Rows ELSE {}}
  /\ phase' = "finally_raised"
  /\ UNCHANGED <<run, at, todo, log, tally, before, disk, prod, prodWas>>

\* Mutant: only the access is compared.
UntouchedByAccess(b, a) == b.access = a.access

\* _isolation_unchanged
Untouched(b, a) == b = a

\* Mutant: the schema goes whatever came of the run.
FinallyDrops ==
  /\ phase \in {"finally", "finally_raised"}
  /\ \E after \in Counts :
       /\ Written("isolation", [untouched |-> Untouched(before, after),
                                counted |-> before.access = "ok",
                                prod |-> prod, scored |-> phase = "finally"])
       /\ schema' \in {NoSchema, schema}
       /\ phase' = CASE phase = "finally_raised" -> "raised"
                     [] phase = "finally" /\ ~Untouched(before, after) -> "breach"
                     [] OTHER -> "over"
  /\ Gone
  /\ UNCHANGED <<run, prod, prodWas>>

\* finally: count again, isolation.json, drop what is scored and exported (unless
\* --keep-schema), then raise if production has changed.
Finally ==
  /\ phase \in {"finally", "finally_raised"}
  /\ \E after \in Counts :
       /\ Written("isolation", [untouched |-> Untouched(before, after),
                                counted |-> before.access = "ok",
                                prod |-> prod, scored |-> phase = "finally"])
       /\ schema' \in {schema} \cup IF phase = "finally" THEN {NoSchema} ELSE {}
       /\ phase' = CASE phase = "finally_raised" -> "raised"
                     [] phase = "finally" /\ ~Untouched(before, after) -> "breach"
                     [] OTHER -> "over"
  /\ Gone
  /\ UNCHANGED <<run, prod, prodWas>>

\* A kill, or an error in create_probe_schema or in the finally block: nothing is left
\* of the process.
Die ==
  /\ phase \notin Ended
  /\ phase' = "dead"
  /\ Gone
  /\ UNCHANGED <<run, schema, disk, prod, prodWas>>

\* The production server stores a row.
ProdWrites ==
  /\ prod < MaxProd
  /\ prod' = prod + 1
  /\ UNCHANGED <<run, phase, at, todo, log, tally, before, schema, disk, prodWas>>

\* What execute_probe does without the candidate.
OwnWork ==
  \/ CreateSchema \/ GetChunk \/ ExtractFails \/ Try \/ Persist \/ Score \/ Export
  \/ Raise \/ Finally

Next == Start \/ Extract \/ OwnWork \/ Die \/ ProdWrites

Spec == Init /\ [][Next]_vars

-----------------------------------------------------------------------------
(* Action property: never dropped unscored (probe/cli.py): when the schema *)
(* goes, every row in it has been scored and exported, by the run that     *)
(* drops it, and that run's log is on disk.                                *)
NeverDroppedUnscored ==
  [][schema.exists /\ ~schema'.exists =>
       /\ \A f \in Files \ {"isolation"} : f \in DOMAIN disk /\ disk[f].run = run
       /\ disk["records"].content = schema.rows
       /\ disk["scorecard"].content.rows = schema.rows
       /\ disk["attempts"].content = log]_vars

(* A scorecard over a fresh schema adds up: every chunk of the slice and   *)
(* every proposal is accounted for once, records are the attempts that     *)
(* were ok, and no rate exceeds 1 - although chunks are missing, replies   *)
(* fail, quotes are not found and proposals are rejected in any order.     *)
ScorecardAddsUp ==
  LET file == disk["scorecard"]
      card == file.content.card
      ok   == {i \in DOMAIN disk["attempts"].content : disk["attempts"].content[i].ok}
  IN  ("scorecard" \in DOMAIN disk /\ disk["attempts"].run = file.run
         /\ \A row \in file.content.rows : row.run = file.run) =>
        /\ card.seen + card.missing = Len(Slice)
        /\ card.proposing + card.empty = card.seen /\ card.errors <= card.empty
        /\ card.records = Cardinality(ok)
        /\ {row.n : row \in file.content.rows} = ok
        /\ card.grounded + card.flagged = card.records
        /\ card.records <= card.located /\ card.located <= card.proposals
        /\ card.passRate[1] <= card.passRate[2]

(* Whatever a run raises, unless it is killed it records its own isolation *)
(* evidence (probe/cli.py).  A change of production that the counts could  *)
(* see is in it: the file says untouched by count only if production was   *)
(* the same at both counts, and a scored run with such a change ends with  *)
(* the breach.                                                             *)
BreachIsReported ==
  phase \in {"over", "raised", "breach"} =>
    /\ "isolation" \in DOMAIN disk /\ disk["isolation"].run = run
    /\ LET file == disk["isolation"].content
       IN  file.counted /\ file.prod # prodWas => ~file.untouched /\ phase # "over"

(* A scorecard is about the run it names: the schema is created fresh per  *)
(* run (probe/README.md, create_probe_schema).                             *)
ScorecardIsOfThisRun ==
  "scorecard" \in DOMAIN disk =>
    \A row \in disk["scorecard"].content.rows : row.run = disk["scorecard"].run

=============================================================================
