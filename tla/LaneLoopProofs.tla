---------------------------- MODULE LaneLoopProofs ----------------------------
(***************************************************************************)
(* Proofs about Probe and LaneLoop, for any slice, texts, replies and      *)
(* candidates, and any number of runs and loops: that no schema is dropped *)
(* unscored, that a breach of production's isolation is reported, that the *)
(* loop does to the probe only what Probe allows, that a run's rows are by *)
(* its candidate, and that a restore is verified.                          *)
(***************************************************************************)
EXTENDS LaneLoop, FiniteSetTheorems, SequenceTheorems, TLAPS

-----------------------------------------------------------------------------
(* The invariant of a probe run.                                           *)

\* The schema is a record of whether it is there and of its rows.
SchemaInv ==
  schema = [exists |-> schema.exists, rows |-> schema.rows] /\ schema.exists \in BOOLEAN

\* What is on disk once each of the three steps that must precede a drop is done: this
\* run's log, and the schema as it stands, scored and exported.
Saved(f) == f \in DOMAIN disk /\ disk[f].run = run
DiskInv ==
  /\ phase \in {"score", "export", "finally"} =>
       Saved("attempts") /\ disk["attempts"].content = log
  /\ phase \in {"export", "finally"} =>
       Saved("scorecard") /\ disk["scorecard"].content.rows = schema.rows
  /\ phase = "finally" =>
       Saved("records") /\ disk["records"].content = schema.rows

\* The first count, as long as the process is there to remember it, is of production
\* as it was then, if it is a count at all.
CountInv == phase \notin Ended => (before.access = "ok" => before.rows = prodWas)

ProbeInv == SchemaInv /\ DiskInv /\ CountInv /\ BreachIsReported

-----------------------------------------------------------------------------
(* Each step of a probe run preserves it.                                  *)

\* What writing a file does to the results directory.
LEMMA WrittenWorks ==
  ASSUME NEW file, NEW content, Written(file, content)
  PROVE  /\ file \in DOMAIN disk' /\ disk'[file].run = run /\ disk'[file].content = content
         /\ \A f \in DOMAIN disk \ {file} : f \in DOMAIN disk' /\ disk'[f] = disk[f]
BY DEF Written

\* Storing rows and dropping the schema leave a schema.
LEMMA SchemaWorks ==
  ASSUME SchemaInv
  PROVE  /\ \A row : /\ Stored(row).exists = schema.exists
                     /\ Stored(row) = [exists |-> schema.exists, rows |-> schema.rows \cup {row}]
         /\ ~NoSchema.exists
BY DEF SchemaInv, Stored, NoSchema

\* No process, no files, no schema.
LEMMA ProbeInitHolds == Init => ProbeInv
BY DEF Init, ProbeInv, SchemaInv, DiskInv, CountInv, BreachIsReported, NoSchema, Ended

\* The steps before the log is persisted, and those that leave a run early, write no
\* file and count nothing: nothing is claimed of the disk while they go on.
LEMMA EarlyStepHolds ==
  ASSUME ProbeInv,
         CreateSchema \/ GetChunk \/ Extract \/ ExtractFails \/ Try \/ Raise \/ Die
  PROVE  ProbeInv'
<1>1. /\ phase' \in {"get_chunk", "extract", "attempt", "persist", "finally_raised", "dead"}
      /\ disk' = disk /\ prodWas' = prodWas /\ run' = run
      /\ phase' = "dead" \/ before' = before
      /\ phase \notin Ended
  BY DEF CreateSchema, GetChunk, Extract, ExtractFails, Try, Raise, Die, NextChunk, Attempt, Ended
<1>2. SchemaInv'
  <2>1. \/ schema' = schema \/ schema' = [schema EXCEPT !.exists = TRUE]
        \/ \E row : schema' = Stored(row)
    BY DEF CreateSchema, GetChunk, Extract, ExtractFails, Try, Raise, Die
  <2>2. SchemaInv
    BY DEF ProbeInv
  <2>3. CASE schema' = schema
    BY <2>2, <2>3 DEF SchemaInv
  <2>4. CASE schema' = [schema EXCEPT !.exists = TRUE]
    BY <2>2, <2>4 DEF SchemaInv
  <2>5. CASE \E row : schema' = Stored(row)
    BY <2>2, <2>5, SchemaWorks DEF SchemaInv
  <2> QED  BY <2>1, <2>3, <2>4, <2>5
<1>3. DiskInv'
  BY <1>1 DEF DiskInv
<1>4. CountInv'
  BY <1>1 DEF ProbeInv, CountInv, Ended
<1>5. BreachIsReported'
  BY <1>1 DEF BreachIsReported
<1> QED  BY <1>2, <1>3, <1>4, <1>5 DEF ProbeInv

\* A run begins with a count of production; whatever lies about is of other runs.
LEMMA StartHolds == ASSUME ProbeInv, Start PROVE ProbeInv'
<1>1. /\ phase' = "create" /\ before' \in Counts /\ prodWas' = prod
      /\ schema' = schema /\ disk' = disk
  BY DEF Start
<1>2. before'.access = "ok" => before'.rows = prodWas'
  BY <1>1 DEF Counts
<1> QED  BY <1>1, <1>2 DEF ProbeInv, SchemaInv, DiskInv, CountInv, BreachIsReported

\* The log goes to disk, then the scorecard, then the records; nothing that was written
\* before is lost.
LEMMA SaveHolds == ASSUME ProbeInv, Persist \/ Score \/ Export PROVE ProbeInv'
<1>1. /\ run' = run /\ log' = log /\ schema' = schema /\ before' = before
      /\ prodWas' = prodWas /\ phase \notin Ended
      /\ phase' \in {"score", "export", "finally"}
  BY DEF Persist, Score, Export, Ended
<1>2. SchemaInv' /\ CountInv' /\ BreachIsReported'
  BY <1>1 DEF ProbeInv, SchemaInv, CountInv, BreachIsReported, Ended
<1>3. CASE Persist
  <2>1. Written("attempts", log) /\ phase' = "score"
    BY <1>3 DEF Persist
  <2>2. Saved("attempts")' /\ disk'["attempts"].content = log'
    BY <1>1, <2>1, WrittenWorks DEF Saved
  <2> QED  BY <1>2, <2>1, <2>2 DEF ProbeInv, DiskInv
<1>4. CASE Score
  <2>1. /\ phase = "score" /\ phase' = "export"
        /\ \E card : Written("scorecard", [rows |-> schema.rows, card |-> card])
    BY <1>4 DEF Score
  <2>2. Saved("scorecard")' /\ disk'["scorecard"].content.rows = schema'.rows
    BY <1>1, <2>1, WrittenWorks DEF Saved
  <2>3. Saved("attempts")' /\ disk'["attempts"].content = log'
    BY <1>1, <2>1, WrittenWorks DEF Saved, ProbeInv, DiskInv
  <2> QED  BY <1>2, <2>1, <2>2, <2>3 DEF ProbeInv, DiskInv
<1>5. CASE Export
  <2>1. phase = "export" /\ phase' = "finally" /\ Written("records", schema.rows)
    BY <1>5 DEF Export
  <2>2. Saved("records")' /\ disk'["records"].content = schema'.rows
    BY <1>1, <2>1, WrittenWorks DEF Saved
  <2>3. /\ Saved("attempts")' /\ disk'["attempts"].content = log'
        /\ Saved("scorecard")' /\ disk'["scorecard"].content.rows = schema'.rows
    BY <1>1, <2>1, WrittenWorks DEF Saved, ProbeInv, DiskInv
  <2> QED  BY <1>2, <2>1, <2>2, <2>3 DEF ProbeInv, DiskInv
<1> QED  BY <1>3, <1>4, <1>5

\* The finally block.  If the first count was one and production has changed since, no
\* second count equals it, and the run ends in the breach unless it has raised already.
LEMMA FinallyHolds == ASSUME ProbeInv, Finally PROVE ProbeInv'
<1>1. PICK after \in Counts :
        /\ Written("isolation", [untouched |-> Untouched(before, after),
                                 counted |-> before.access = "ok",
                                 prod |-> prod, scored |-> phase = "finally"])
        /\ schema' \in {schema} \cup IF phase = "finally" THEN {NoSchema} ELSE {}
        /\ phase' = CASE phase = "finally_raised" -> "raised"
                      [] phase = "finally" /\ ~Untouched(before, after) -> "breach"
                      [] OTHER -> "over"
  BY DEF Finally
<1>2. phase \in {"finally", "finally_raised"} /\ run' = run /\ prodWas' = prodWas
  BY DEF Finally
<1>3. phase' \in {"over", "raised", "breach"}
  BY <1>1, <1>2
<1>4. SchemaInv'
  <2>1. schema' = schema \/ schema' = NoSchema
    BY <1>1
  <2>2. CASE schema' = schema
    BY <2>2 DEF ProbeInv, SchemaInv
  <2>3. CASE schema' = NoSchema
    BY <2>3 DEF SchemaInv, NoSchema
  <2> QED  BY <2>1, <2>2, <2>3
<1>5. DiskInv' /\ CountInv'
  BY <1>3 DEF DiskInv, CountInv, Ended
<1>6. before.access = "ok" /\ prod # prodWas => ~Untouched(before, after)
  <2>1. before.access = "ok" => before.rows = prodWas
    BY <1>2 DEF ProbeInv, CountInv, Ended
  <2>2. after.access = "ok" => after.rows = prod
    BY DEF Counts
  <2> QED  BY <2>1, <2>2 DEF Untouched
<1>7. /\ "isolation" \in DOMAIN disk' /\ disk'["isolation"].run = run
      /\ disk'["isolation"].content =
           [untouched |-> Untouched(before, after), counted |-> before.access = "ok",
            prod |-> prod, scored |-> phase = "finally"]
  BY <1>1, WrittenWorks
<1>8. ~Untouched(before, after) => phase' # "over"
  BY <1>1, <1>2
<1>9. ASSUME disk'["isolation"].content.counted, disk'["isolation"].content.prod # prodWas'
      PROVE  ~disk'["isolation"].content.untouched /\ phase' # "over"
  <2>1. /\ disk'["isolation"].content.counted = (before.access = "ok")
        /\ disk'["isolation"].content.prod = prod
        /\ disk'["isolation"].content.untouched = Untouched(before, after)
    BY <1>7
  <2>2. before.access = "ok" /\ prod # prodWas
    BY <1>2, <1>9, <2>1
  <2>3. ~Untouched(before, after)
    BY <1>6, <2>2
  <2> QED  BY <1>8, <2>1, <2>3
<1>10. BreachIsReported'
  BY <1>2, <1>7, <1>9 DEF BreachIsReported
<1> QED  BY <1>4, <1>5, <1>10 DEF ProbeInv

\* Every step of a probe, of its operator or of production's other writers.
LEMMA ProbeStepHolds == ProbeInv /\ [Next]_vars => ProbeInv'
<1> SUFFICES ASSUME ProbeInv, [Next]_vars PROVE ProbeInv'
  OBVIOUS
<1>1. CASE Start
  BY <1>1, StartHolds
<1>2. CASE CreateSchema \/ GetChunk \/ Extract \/ ExtractFails \/ Try \/ Raise \/ Die
  BY <1>2, EarlyStepHolds
<1>3. CASE Persist \/ Score \/ Export
  BY <1>3, SaveHolds
<1>4. CASE Finally
  BY <1>4, FinallyHolds
<1>5. CASE ProdWrites
  BY <1>5 DEF ProdWrites, ProbeInv, SchemaInv, DiskInv, CountInv, BreachIsReported, Saved
<1>6. CASE UNCHANGED vars
  BY <1>6 DEF vars, ProbeInv, SchemaInv, DiskInv, CountInv, BreachIsReported, Saved
<1> QED  BY <1>1, <1>2, <1>3, <1>4, <1>5, <1>6 DEF Next, OwnWork

\* The invariant holds in every state of every probe run.
THEOREM ProbeInvHolds == Spec => []ProbeInv
BY ProbeInitHolds, ProbeStepHolds, PTL DEF Spec

\* A change of production that the counts could see is in isolation.json, and a scored
\* run with one ends in the breach (probe/cli.py: raise ProdIsolationError).
THEOREM BreachesReported == Spec => []BreachIsReported
<1>1. ProbeInv => BreachIsReported
  BY DEF ProbeInv
<1> QED  BY <1>1, ProbeInvHolds, PTL

\* drop_probe_schema only after scored_and_exported: what is dropped is on disk in full,
\* scored, exported and with its log, by the run that drops it.
THEOREM NoneDroppedUnscored == Spec => NeverDroppedUnscored
<1> DEFINE Step ==
      schema.exists /\ ~schema'.exists =>
        /\ \A f \in Files \ {"isolation"} : f \in DOMAIN disk /\ disk[f].run = run
        /\ disk["records"].content = schema.rows
        /\ disk["scorecard"].content.rows = schema.rows
        /\ disk["attempts"].content = log
<1>1. ProbeInv /\ [Next]_vars => Step
  <2> SUFFICES ASSUME ProbeInv, [Next]_vars, schema.exists, ~schema'.exists
               PROVE  Finally /\ phase = "finally"
    <3>1. \A f \in Files \ {"isolation"} : f \in {"attempts", "scorecard", "records"}
      BY DEF Files
    <3>2. ASSUME ProbeInv, phase = "finally" PROVE Step
      BY <3>1, <3>2 DEF ProbeInv, DiskInv, Saved
    <3> QED  BY <3>2
  <2>1. SchemaInv /\ schema' # schema
    BY DEF ProbeInv
  <2>2. schema' # [schema EXCEPT !.exists = TRUE]
    BY <2>1 DEF SchemaInv
  <2>3. \A row : schema' # Stored(row)
    BY <2>1, SchemaWorks
  <2>4. Finally
    <3>1. ~(CreateSchema \/ GetChunk \/ Extract \/ ExtractFails \/ Try \/ Raise \/ Die)
      BY <2>1, <2>2, <2>3 DEF CreateSchema, GetChunk, Extract, ExtractFails, Try, Raise, Die
    <3>2. ~(Start \/ Persist \/ Score \/ Export \/ ProdWrites \/ UNCHANGED vars)
      BY <2>1 DEF Start, Persist, Score, Export, ProdWrites, vars
    <3> QED  BY <3>1, <3>2 DEF Next, OwnWork
  <2> QED  BY <2>1, <2>4 DEF Finally
<1> QED  BY <1>1, ProbeInvHolds, PTL DEF Spec, NeverDroppedUnscored

-----------------------------------------------------------------------------
(* The scorecard.  What it counts, while a run goes on.                    *)

Entry == [chunk : ToSet(Slice), located : BOOLEAN, ok : BOOLEAN]

\* The chunks that something was proposed for.
Proposing == {log[i].chunk : i \in DOMAIN log}

\* The log and the counters; they are empty while no run has got further than create.
LogInv ==
  /\ run \in Nat
  /\ at \in Nat
  /\ log \in Seq(Entry)
  /\ tally = [seen |-> tally.seen, missing |-> tally.missing, errors |-> tally.errors]
  /\ {tally.seen, tally.missing, tally.errors} \subseteq Nat
  /\ \A i \in DOMAIN log : log[i].ok => log[i].located
  /\ IsFiniteSet(Proposing)
  /\ phase \in Ended \cup {"create"} => at = 1 /\ log = <<>> /\ tally = Nought

\* How far the run is in the slice, and what has been counted by then: at the chunk at
\* hand, one more has been seen than has failed or is among those with proposals.
Underway == {"get_chunk", "extract", "attempt", "persist", "score"}
PlaceInv ==
  /\ phase \in {"get_chunk", "extract", "attempt"} => at \in 1..Len(Slice)
  /\ phase \in {"persist", "score"} => at = Len(Slice) + 1
  /\ phase \in {"get_chunk", "persist", "score"} =>
       /\ tally.seen + tally.missing = at - 1
       /\ Cardinality(Proposing) + tally.errors <= tally.seen
  /\ phase = "extract" =>
       /\ tally.seen + tally.missing = at
       /\ Cardinality(Proposing) + tally.errors + 1 <= tally.seen
  /\ phase = "attempt" =>
       /\ tally.seen + tally.missing = at
       /\ Cardinality(Proposing \cup {Slice[at]}) + tally.errors <= tally.seen

\* This run's rows are those of its attempts that were ok, one for each.
Mine == {row \in schema.rows : row.run = run}
RowsInv ==
  /\ \A row \in schema.rows : row.run \in Nat /\ row.run <= run
  /\ phase = "create" => Mine = {}
  /\ phase \in Underway =>
       /\ \A row \in Mine : row.n \in DOMAIN log /\ log[row.n].ok
       /\ \A i \in DOMAIN log : log[i].ok => \E row \in Mine : row.n = i
       /\ \A r, q \in Mine : r.n = q.n => r = q

\* The files are of this run or of earlier ones; a scorecard of this run is written
\* last, and never without a log.
FilesInv ==
  /\ \A f \in DOMAIN disk : disk[f].run \in Nat /\ disk[f].run <= run
  /\ "scorecard" \in DOMAIN disk =>
       /\ "attempts" \in DOMAIN disk
       /\ phase \in {"create"} \cup Underway => disk["scorecard"].run # run

ScoreInv == ProbeInv /\ LogInv /\ PlaceInv /\ RowsInv /\ FilesInv /\ ScorecardAddsUp

\* A slice has a length.
LEMMA SliceLength == Len(Slice) \in Nat /\ Len(Slice) >= 1
<1>1. Slice \in Seq(DOMAIN TextOf) /\ Slice # <<>>
  BY SliceAssumption
<1> QED  BY <1>1, EmptySeq, LenProperties

\* Nothing is counted yet.
LEMMA ScoreInitHolds == Init => ScoreInv
<1> SUFFICES ASSUME Init PROVE ScoreInv
  OBVIOUS
<1>1. ProbeInv
  BY ProbeInitHolds
<1>2. Proposing = {}
  BY DEF Init, Proposing
<1>3. LogInv
  BY <1>2, FS_EmptySet DEF Init, LogInv, Nought
<1>4. PlaceInv /\ RowsInv /\ FilesInv /\ ScorecardAddsUp
  BY DEF Init, PlaceInv, RowsInv, FilesInv, ScorecardAddsUp, NoSchema, Underway
<1> QED  BY <1>1, <1>3, <1>4 DEF ScoreInv

\* What the scorecards say depends on two files.
LEMMA CardsKept ==
  ASSUME FilesInv, ScorecardAddsUp, run' = run,
         "scorecard" \in DOMAIN disk' => "scorecard" \in DOMAIN disk,
         DOMAIN disk \subseteq DOMAIN disk',
         disk'["scorecard"] = disk["scorecard"], disk'["attempts"] = disk["attempts"]
  PROVE  ScorecardAddsUp'
BY DEF ScorecardAddsUp

\* The other files may be written at any time.
LEMMA OtherFileHolds ==
  ASSUME FilesInv, ScorecardAddsUp, run' = run, run \in Nat,
         NEW file \in {"records", "isolation"}, NEW content, Written(file, content),
         phase' \notin {"create"} \cup Underway
  PROVE  FilesInv' /\ ScorecardAddsUp'
<1>1. /\ DOMAIN disk' = DOMAIN disk \cup {file} /\ disk'[file].run = run
      /\ \A f \in DOMAIN disk \ {file} : disk'[f] = disk[f]
  BY DEF Written
<1>2. FilesInv'
  BY <1>1 DEF FilesInv
<1>3. CASE "scorecard" \in DOMAIN disk
  <2>1. disk'["scorecard"] = disk["scorecard"] /\ disk'["attempts"] = disk["attempts"]
    BY <1>1, <1>3 DEF FilesInv
  <2>2. ScorecardAddsUp'
    BY <1>1, <1>3, <2>1, CardsKept
  <2> QED  BY <1>2, <2>2
<1>4. CASE "scorecard" \notin DOMAIN disk
  BY <1>1, <1>2, <1>4 DEF ScorecardAddsUp
<1> QED  BY <1>2, <1>3, <1>4

\* A run that starts has no rows and no files yet.
LEMMA StartCounts == ASSUME ScoreInv, Start PROVE ScoreInv'
<1>1. /\ phase \in Ended /\ phase' = "create" /\ run' = run + 1 /\ run \in Nat
      /\ UNCHANGED <<at, todo, log, tally, schema, disk, prod>>
  BY DEF Start, ScoreInv, LogInv
<1>2. ProbeInv'
  BY StartHolds DEF ScoreInv
<1>3. LogInv' /\ PlaceInv'
  BY <1>1 DEF ScoreInv, LogInv, PlaceInv, Proposing
<1>4. RowsInv' /\ FilesInv'
  <2>1. \A n \in Nat : n <= run => n <= run + 1 /\ n # run + 1
    BY <1>1
  <2>2. \A row \in schema.rows : row.run \in Nat /\ row.run <= run' /\ row.run # run'
    BY <1>1, <2>1 DEF ScoreInv, RowsInv
  <2>3. \A f \in DOMAIN disk : disk[f].run \in Nat /\ disk[f].run <= run' /\ disk[f].run # run'
    BY <1>1, <2>1 DEF ScoreInv, FilesInv
  <2>4. RowsInv'
    BY <1>1, <2>2 DEF RowsInv, Mine, Underway
  <2>5. FilesInv'
    BY <1>1, <2>3 DEF ScoreInv, FilesInv
  <2> QED  BY <2>4, <2>5
<1>5. ScorecardAddsUp'
  BY <1>1 DEF ScoreInv, ScorecardAddsUp
<1> QED  BY <1>2, <1>3, <1>4, <1>5 DEF ScoreInv

\* The first chunk is at hand and nothing is counted.
LEMMA CreateCounts == ASSUME ScoreInv, CreateSchema PROVE ScoreInv'
<1>1. /\ phase = "create" /\ phase' = "get_chunk" /\ at = 1 /\ log = <<>> /\ tally = Nought
      /\ UNCHANGED <<run, at, todo, log, tally, disk>> /\ schema'.rows = schema.rows
  BY DEF CreateSchema, ScoreInv, LogInv, ProbeInv, SchemaInv
<1>2. ProbeInv'
  BY EarlyStepHolds DEF ScoreInv
<1>3. LogInv'
  BY <1>1 DEF ScoreInv, LogInv, Proposing, Ended
<1>4. PlaceInv'
  <2>1. Proposing' = {} /\ at' = 1 /\ at' \in 1..Len(Slice)
    BY <1>1, SliceLength DEF Proposing
  <2> QED  BY <1>1, <2>1, FS_EmptySet DEF PlaceInv, Nought
<1>5. RowsInv' /\ FilesInv' /\ ScorecardAddsUp'
  BY <1>1 DEF ScoreInv, RowsInv, Mine, FilesInv, ScorecardAddsUp, Underway
<1> QED  BY <1>2, <1>3, <1>4, <1>5 DEF ScoreInv

\* On to the next chunk, with all of this one counted.
LEMMA NextChunkCounts ==
  ASSUME at \in 1..Len(Slice), NextChunk, tally'.seen + tally'.missing = at,
         Cardinality(Proposing') + tally'.errors <= tally'.seen
  PROVE  PlaceInv' /\ phase' \in {"get_chunk", "persist"} /\ at' \in Nat
<1>1. at \in Nat /\ at' = at + 1 /\ at' - 1 = at /\ at' \in Nat
  BY SliceLength DEF NextChunk
<1>2. CASE at = Len(Slice)
  BY <1>1, <1>2 DEF PlaceInv, NextChunk
<1>3. CASE at # Len(Slice)
  <2>1. phase' = "get_chunk" /\ at' \in 1..Len(Slice)
    BY <1>1, <1>3, SliceLength DEF NextChunk
  <2> QED  BY <1>1, <2>1 DEF PlaceInv
<1> QED  BY <1>2, <1>3

\* Before a proposal is tried the log, the rows and the files stay.
LEMMA LogKept ==
  ASSUME ScoreInv, GetChunk \/ Extract \/ ExtractFails,
         at' \in Nat,
         tally' = [seen |-> tally'.seen, missing |-> tally'.missing, errors |-> tally'.errors],
         {tally'.seen, tally'.missing, tally'.errors} \subseteq Nat
  PROVE  ProbeInv' /\ LogInv' /\ RowsInv' /\ FilesInv' /\ ScorecardAddsUp'
<1>1. /\ UNCHANGED <<run, log, schema, disk>> /\ phase \in Underway
      /\ phase' \in {"get_chunk", "extract", "attempt", "persist"}
  BY DEF GetChunk, Extract, ExtractFails, NextChunk, Underway
<1>2. ProbeInv'
  BY EarlyStepHolds DEF ScoreInv
<1>3. LogInv'
  BY <1>1 DEF ScoreInv, LogInv, Proposing, Ended
<1>4. RowsInv' /\ FilesInv' /\ ScorecardAddsUp'
  BY <1>1 DEF ScoreInv, RowsInv, Mine, FilesInv, ScorecardAddsUp, Underway
<1> QED  BY <1>2, <1>3, <1>4

\* How many chunks have proposals is a number; one more chunk adds at most one.
LEMMA ProposingTyped ==
  ASSUME LogInv, NEW k
  PROVE  /\ Cardinality(Proposing) \in Nat
         /\ IsFiniteSet(Proposing \cup {k})
         /\ Cardinality(Proposing \cup {k}) \in Nat
         /\ Cardinality(Proposing \cup {k}) <= Cardinality(Proposing) + 1
<1> DEFINE P == Proposing
<1>1. IsFiniteSet(P)
  BY DEF LogInv
<1> HIDE DEF P
<1>2. Cardinality(P) \in Nat
  BY <1>1, FS_CardinalityType
<1>3. IsFiniteSet(P \cup {k}) /\ Cardinality(P \cup {k}) \in {Cardinality(P), Cardinality(P) + 1}
  BY <1>1, FS_AddElement
<1>4. Cardinality(P \cup {k}) \in Nat /\ Cardinality(P \cup {k}) <= Cardinality(P) + 1
  BY <1>2, <1>3
<1> QED  BY <1>2, <1>3, <1>4 DEF P

LEMMA GetChunkCounts == ASSUME ScoreInv, GetChunk PROVE ScoreInv'
<1>1. /\ phase = "get_chunk" /\ UNCHANGED log /\ at \in Nat /\ at \in 1..Len(Slice)
      /\ tally.seen \in Nat /\ tally.missing \in Nat /\ tally.errors \in Nat
      /\ tally.seen + tally.missing = at - 1
      /\ Cardinality(Proposing) + tally.errors <= tally.seen
  BY DEF GetChunk, ScoreInv, LogInv, PlaceInv
<1>2. Cardinality(Proposing) \in Nat
  BY ProposingTyped DEF ScoreInv
<1>3. Proposing' = Proposing
  BY <1>1 DEF Proposing
<1>4. tally = [seen |-> tally.seen, missing |-> tally.missing, errors |-> tally.errors]
  BY DEF ScoreInv, LogInv
<1>5. CASE phase' = "extract" /\ tally' = [tally EXCEPT !.seen = @ + 1] /\ UNCHANGED at
  <2>1. tally' = [seen |-> tally.seen + 1, missing |-> tally.missing, errors |-> tally.errors]
    BY <1>4, <1>5
  <2>2. PlaceInv'
    BY <1>1, <1>2, <1>3, <1>5, <2>1 DEF PlaceInv
  <2>3. at' \in Nat /\ {tally'.seen, tally'.missing, tally'.errors} \subseteq Nat
    BY <1>1, <1>5, <2>1
  <2> QED  BY <1>1, <2>1, <2>2, <2>3, LogKept DEF ScoreInv
<1>6. CASE NextChunk /\ tally' = [tally EXCEPT !.missing = @ + 1]
  <2>1. tally' = [seen |-> tally.seen, missing |-> tally.missing + 1, errors |-> tally.errors]
    BY <1>4, <1>6
  <2>2. PlaceInv' /\ at' \in Nat
    BY <1>1, <1>2, <1>3, <1>6, <2>1, NextChunkCounts
  <2> QED  BY <1>1, <2>1, <2>2, LogKept DEF ScoreInv
<1> QED  BY <1>5, <1>6 DEF GetChunk

LEMMA ExtractCounts == ASSUME ScoreInv, Extract \/ ExtractFails PROVE ScoreInv'
<1>1. /\ phase = "extract" /\ UNCHANGED log /\ at \in Nat /\ at \in 1..Len(Slice)
      /\ tally.seen \in Nat /\ tally.missing \in Nat /\ tally.errors \in Nat
      /\ tally.seen + tally.missing = at
      /\ Cardinality(Proposing) + tally.errors + 1 <= tally.seen
  BY DEF Extract, ExtractFails, ScoreInv, LogInv, PlaceInv
<1>2. /\ Cardinality(Proposing) \in Nat
      /\ Cardinality(Proposing \cup {Slice[at]}) \in Nat
      /\ Cardinality(Proposing \cup {Slice[at]}) <= Cardinality(Proposing) + 1
  BY ProposingTyped DEF ScoreInv
<1>3. Proposing' = Proposing
  BY <1>1 DEF Proposing
<1>4. tally = [seen |-> tally.seen, missing |-> tally.missing, errors |-> tally.errors]
  BY DEF ScoreInv, LogInv
<1>5. CASE Extract /\ todo' = <<>>
  <2>1. NextChunk /\ tally' = tally
    BY <1>5 DEF Extract
  <2>2. PlaceInv' /\ at' \in Nat
    BY <1>1, <1>2, <1>3, <2>1, NextChunkCounts
  <2> QED  BY <1>1, <1>4, <1>5, <2>1, <2>2, LogKept DEF ScoreInv
<1>6. CASE Extract /\ todo' # <<>>
  <2>1. phase' = "attempt" /\ at' = at /\ tally' = tally
    BY <1>6 DEF Extract
  <2>2. PlaceInv'
    BY <1>1, <1>2, <1>3, <2>1 DEF PlaceInv
  <2> QED  BY <1>1, <1>4, <1>6, <2>1, <2>2, LogKept DEF ScoreInv
<1>7. CASE ExtractFails
  <2>1. tally' = [seen |-> tally.seen, missing |-> tally.missing, errors |-> tally.errors + 1]
    BY <1>4, <1>7 DEF ExtractFails
  <2>2. NextChunk
    BY <1>7 DEF ExtractFails
  <2>3. PlaceInv' /\ at' \in Nat
    BY <1>1, <1>2, <1>3, <2>1, <2>2, NextChunkCounts
  <2> QED  BY <1>1, <1>7, <2>1, <2>3, LogKept DEF ScoreInv
<1> QED  BY <1>5, <1>6, <1>7

\* An attempt adds its chunk to those with proposals and, if it is ok, its row.
LEMMA TryCounts == ASSUME ScoreInv, Try PROVE ScoreInv'
<1> DEFINE n == Len(log) + 1
<1>1. PICK located \in BOOLEAN, ok \in BOOLEAN :
        /\ Attempt(located, ok) /\ (ok => located)
        /\ ~ok => schema' = schema
        /\ ok => \E row \in Rows : schema' = Stored(row)
  BY DEF Try
<1>2. phase = "attempt" /\ UNCHANGED <<run, tally, before, disk, prod, prodWas>>
  BY DEF Try
<1>3. ProbeInv'
  BY EarlyStepHolds DEF ScoreInv
<1>4. /\ at \in Nat /\ at \in 1..Len(Slice) /\ tally.seen + tally.missing = at
      /\ Cardinality(Proposing \cup {Slice[at]}) + tally.errors <= tally.seen
      /\ log \in Seq(Entry) /\ DOMAIN log = 1..Len(log) /\ Len(log) \in Nat
  BY <1>2 DEF ScoreInv, LogInv, PlaceInv
<1> DEFINE new == [chunk |-> Slice[at], located |-> located, ok |-> ok]
<1>5. new \in Entry /\ log' = Append(log, new)
  <2>1. Slice[at] \in ToSet(Slice)
    BY <1>4, SliceAssumption DEF ToSet
  <2> QED  BY <1>1, <2>1 DEF Attempt, Entry
<1>6. /\ log' \in Seq(Entry) /\ DOMAIN log' = 1..n
      /\ \A i \in DOMAIN log : log'[i] = log[i]
      /\ log'[n] = new
  <2> HIDE DEF new
  <2> QED  BY <1>4, <1>5
<1>7. new.chunk = Slice[at] /\ new.ok = ok /\ new.located = located
  OBVIOUS
<1> HIDE DEF new
<1>8. Proposing' = Proposing \cup {Slice[at]}
  <2>1. \A i \in DOMAIN log' : i \in DOMAIN log \/ i = n
    BY <1>4, <1>6
  <2>2. \A i \in DOMAIN log : i \in DOMAIN log'
    BY <1>4, <1>6
  <2>3. n \in DOMAIN log'
    BY <1>4, <1>6
  <2> QED  BY <1>6, <1>7, <2>1, <2>2, <2>3 DEF Proposing
<1>9. phase' \in {"get_chunk", "attempt", "persist"} /\ PlaceInv' /\ at' \in Nat
  <2>1. CASE Len(todo) = 1
    <3>1. NextChunk
      BY <1>1, <2>1 DEF Attempt
    <3> QED  BY <1>2, <1>4, <1>8, <3>1, NextChunkCounts
  <2>2. CASE Len(todo) # 1
    <3>1. phase' = "attempt" /\ at' = at /\ Slice' = Slice
          /\ Proposing' \cup {Slice[at]} = Proposing \cup {Slice[at]}
      BY <1>1, <1>2, <1>8, <2>2 DEF Attempt
    <3> QED  BY <1>2, <1>4, <3>1 DEF PlaceInv
  <2> QED  BY <2>1, <2>2
<1>10. LogInv'
  <2>1. \A i \in DOMAIN log' : log'[i].ok => log'[i].located
    <3>1. \A i \in DOMAIN log' : i \in DOMAIN log \/ i = n
      BY <1>4, <1>6
    <3> QED  BY <1>1, <1>6, <1>7, <3>1 DEF ScoreInv, LogInv
  <2>2. IsFiniteSet(Proposing')
    BY <1>8, ProposingTyped DEF ScoreInv
  <2>3. phase' \notin Ended \cup {"create"}
    BY <1>9 DEF Ended
  <2> QED  BY <1>2, <1>6, <1>9, <2>1, <2>2, <2>3 DEF ScoreInv, LogInv
<1>11. RowsInv'
  <2>1. /\ \A row \in schema.rows : row.run \in Nat /\ row.run <= run
        /\ \A row \in Mine : row.n \in DOMAIN log /\ log[row.n].ok
        /\ \A i \in DOMAIN log : log[i].ok => \E row \in Mine : row.n = i
        /\ \A r, q \in Mine : r.n = q.n => r = q
        /\ run \in Nat
    BY <1>2 DEF ScoreInv, LogInv, RowsInv, Underway
  <2>2. /\ \A i \in DOMAIN log' : i \in DOMAIN log \/ i = n
        /\ \A i \in DOMAIN log : i \in DOMAIN log' /\ i # n
        /\ n \in DOMAIN log'
    BY <1>4, <1>6
  <2> HIDE DEF n
  <2>3. CASE ~ok
    <3>1. schema' = schema /\ Mine' = Mine
      BY <1>1, <1>2, <2>3 DEF Mine
    <3>2. \A i \in DOMAIN log' : log'[i].ok => i \in DOMAIN log /\ log[i].ok
      BY <1>6, <1>7, <2>2, <2>3
    <3> QED  BY <1>2, <1>6, <1>9, <2>1, <2>2, <3>1, <3>2 DEF RowsInv
  <2>4. CASE ok
    <3>1. PICK row \in Rows : schema' = Stored(row)
      BY <1>1, <2>4
    <3>2. row.run = run /\ row.n = n
      BY DEF Rows, n
    <3>3. schema'.rows = schema.rows \cup {row}
      BY <3>1, SchemaWorks DEF ScoreInv, ProbeInv
    <3>4. Mine' = Mine \cup {row}
      BY <1>2, <3>2, <3>3 DEF Mine
    <3>5. \A r \in schema'.rows : r.run \in Nat /\ r.run <= run
      BY <2>1, <3>2, <3>3
    <3>6. \A r \in Mine' : r.n \in DOMAIN log' /\ log'[r.n].ok
      BY <1>6, <1>7, <2>1, <2>2, <2>4, <3>2, <3>4
    <3>7. \A i \in DOMAIN log' : log'[i].ok => \E r \in Mine' : r.n = i
      BY <1>6, <2>1, <2>2, <3>2, <3>4
    <3>8. \A r, q \in Mine' : r.n = q.n => r = q
      BY <2>1, <2>2, <3>2, <3>4
    <3> QED  BY <1>2, <1>9, <3>5, <3>6, <3>7, <3>8 DEF RowsInv
  <2> QED  BY <2>3, <2>4
<1>12. FilesInv' /\ ScorecardAddsUp'
  BY <1>2, <1>9 DEF ScoreInv, FilesInv, ScorecardAddsUp, Underway
<1> QED  BY <1>3, <1>9, <1>10, <1>11, <1>12 DEF ScoreInv

\* With this run's log on disk a scorecard of an earlier run is not measured by it.
LEMMA PersistCounts == ASSUME ScoreInv, Persist PROVE ScoreInv'
<1>1. /\ phase = "persist" /\ phase' = "score" /\ Written("attempts", log)
      /\ UNCHANGED <<run, at, todo, log, tally, before, schema, prod, prodWas>>
  BY DEF Persist
<1>2. ProbeInv'
  BY SaveHolds DEF ScoreInv
<1>3. LogInv' /\ PlaceInv' /\ RowsInv'
  BY <1>1 DEF ScoreInv, LogInv, PlaceInv, Proposing, RowsInv, Mine, Underway, Ended
<1>4. /\ DOMAIN disk' = DOMAIN disk \cup {"attempts"} /\ disk'["attempts"].run = run
      /\ \A f \in DOMAIN disk \ {"attempts"} : disk'[f] = disk[f]
  BY <1>1 DEF Written
<1>5. FilesInv'
  BY <1>1, <1>4 DEF ScoreInv, LogInv, FilesInv, Underway
<1>6. "scorecard" \in DOMAIN disk' => disk'["scorecard"].run # disk'["attempts"].run
  BY <1>1, <1>4 DEF ScoreInv, FilesInv, Underway
<1>7. ScorecardAddsUp'
  BY <1>6 DEF ScorecardAddsUp
<1> QED  BY <1>2, <1>3, <1>5, <1>7 DEF ScoreInv

\* Of a fresh schema every count is the size of a set of attempts.
LEMMA CardAddsUp ==
  ASSUME ScoreInv, phase = "score", \A row \in schema.rows : row.run = run
  PROVE  LET ok == {i \in DOMAIN log : log[i].ok}
         IN  /\ ScoreCard.seen + ScoreCard.missing = Len(Slice)
             /\ ScoreCard.proposing + ScoreCard.empty = ScoreCard.seen
             /\ ScoreCard.errors <= ScoreCard.empty
             /\ ScoreCard.records = Cardinality(ok)
             /\ {row.n : row \in schema.rows} = ok
             /\ ScoreCard.grounded + ScoreCard.flagged = ScoreCard.records
             /\ ScoreCard.records <= ScoreCard.located
             /\ ScoreCard.located <= ScoreCard.proposals
             /\ ScoreCard.passRate[1] <= ScoreCard.passRate[2]
<1> DEFINE ok       == {i \in DOMAIN log : log[i].ok}
           located  == {i \in DOMAIN log : log[i].located}
           grounded == {row \in schema.rows : row.verdict = "grounded"}
           idle     == Max({0, tally.seen - Cardinality(Proposing)})
<1>1. ScoreCard =
        [proposals |-> Len(log), located |-> Cardinality(located),
         records |-> Cardinality(schema.rows), grounded |-> Cardinality(grounded),
         flagged |-> Cardinality(schema.rows \ grounded),
         passRate |-> IF located = {} THEN <<0, 1>>
                      ELSE <<Cardinality(grounded), Cardinality(located)>>,
         seen |-> tally.seen, missing |-> tally.missing, errors |-> tally.errors,
         proposing |-> Cardinality(Proposing), empty |-> idle]
  BY DEF ScoreCard, Proposing
<1>2. /\ at = Len(Slice) + 1 /\ tally.seen + tally.missing = at - 1
      /\ Cardinality(Proposing) + tally.errors <= tally.seen
      /\ tally.seen \in Nat /\ tally.missing \in Nat /\ tally.errors \in Nat
      /\ DOMAIN log = 1..Len(log) /\ Len(log) \in Nat
      /\ ok \subseteq located
  BY DEF ScoreInv, PlaceInv, LogInv
<1>3. Cardinality(Proposing) \in Nat
  BY ProposingTyped DEF ScoreInv
<1>4. idle = tally.seen - Cardinality(Proposing)
  <2> DEFINE d == tally.seen - Cardinality(Proposing)
  <2>1. d \in Nat
    BY <1>2, <1>3
  <2> HIDE DEF d
  <2>2. \A x \in {0, d} : (\A y \in {0, d} : x >= y) <=> x = d
    BY <2>1
  <2>3. Max({0, d}) = d
    BY <2>2 DEF Max
  <2> QED  BY <2>3 DEF d
<1>5. /\ IsFiniteSet(located) /\ Cardinality(located) \in Nat /\ Cardinality(located) <= Len(log)
      /\ IsFiniteSet(ok) /\ Cardinality(ok) <= Cardinality(located)
  <2>0. \A m \in Nat : IsFiniteSet(1..m) /\ Cardinality(1..m) = m
    <3> TAKE m \in Nat
    <3>1. 1 \in Int /\ m \in Int
      OBVIOUS
    <3>2. /\ IsFiniteSet(1..m)
          /\ Cardinality(1..m) = IF 1 > m THEN 0 ELSE m - 1 + 1
      BY <3>1, FS_Interval, Zenon
    <3> QED  BY <3>2
  <2>1. IsFiniteSet(1..Len(log)) /\ Cardinality(1..Len(log)) = Len(log)
    BY <2>0, <1>2
  <2>2. located \in SUBSET (1..Len(log)) /\ ok \in SUBSET located
    BY <1>2
  <2> HIDE DEF located, ok
  <2>3. IsFiniteSet(located) /\ Cardinality(located) <= Len(log)
    BY <2>1, <2>2, FS_Subset
  <2> QED  BY <2>2, <2>3, FS_Subset, FS_CardinalityType
<1>6. /\ \A row \in schema.rows : row.n \in ok
      /\ \A i \in ok : \E row \in schema.rows : row.n = i
      /\ \A r, q \in schema.rows : r.n = q.n => r = q
  <2>1. Mine = schema.rows
    BY DEF Mine
  <2> QED  BY <2>1 DEF ScoreInv, RowsInv, Underway
<1>7. {row.n : row \in schema.rows} = ok
  <2> HIDE DEF ok
  <2> QED  BY <1>6
<1>8. IsFiniteSet(schema.rows) /\ Cardinality(schema.rows) = Cardinality(ok)
  <2> DEFINE R == schema.rows
             f == [row \in R |-> row.n]
  <2> HIDE DEF ok, R
  <2>1. f \in Injection(R, ok)
    BY <1>6 DEF R, Injection, IsInjective
  <2>2. f \in Surjection(R, ok)
    BY <1>6 DEF R, Surjection
  <2> HIDE DEF f
  <2>3. IsFiniteSet(R) /\ Cardinality(R) = Cardinality(ok)
    BY <1>5, <2>1, <2>2, FS_Injection
  <2> QED  BY <2>3 DEF R
<1>9. /\ Cardinality(grounded) \in Nat /\ Cardinality(grounded) <= Cardinality(schema.rows)
      /\ Cardinality(schema.rows) \in Nat
      /\ Cardinality(schema.rows \ grounded) = Cardinality(schema.rows) - Cardinality(grounded)
  <2> DEFINE R == schema.rows
  <2>1. grounded \in SUBSET R /\ IsFiniteSet(R)
    BY <1>8
  <2> HIDE DEF grounded, R
  <2>2. /\ IsFiniteSet(grounded) /\ Cardinality(grounded) <= Cardinality(R)
        /\ Cardinality(grounded) \in Nat /\ Cardinality(R) \in Nat
    BY <2>1, FS_Subset, FS_CardinalityType
  <2>3. R \cap grounded = grounded
    BY <2>1
  <2>4. Cardinality(R \ grounded) = Cardinality(R) - Cardinality(R \cap grounded)
    BY <2>1, FS_Difference
  <2> QED  BY <2>2, <2>3, <2>4 DEF R
<1>10. tally.seen + tally.missing = Len(Slice)
  BY <1>2, SliceLength
<1>11. /\ Cardinality(Proposing) + idle = tally.seen /\ tally.errors <= idle
  BY <1>2, <1>3, <1>4
<1>12. Cardinality(grounded) <= Cardinality(located)
  BY <1>5, <1>8, <1>9, FS_CardinalityType
<1> HIDE DEF ok, located, grounded, idle
<1>13. ScoreCard.passRate[1] <= ScoreCard.passRate[2]
  <2>1. ScoreCard.passRate = IF located = {} THEN <<0, 1>>
                             ELSE <<Cardinality(grounded), Cardinality(located)>>
    BY <1>1
  <2> QED  BY <1>12, <2>1
<1>14. Cardinality(grounded) + (Cardinality(schema.rows) - Cardinality(grounded))
         = Cardinality(schema.rows)
  BY <1>9
<1> QED  BY <1>1, <1>5, <1>7, <1>8, <1>9, <1>10, <1>11, <1>13, <1>14 DEF ok

\* The scorecard is of the rows and the log at that moment.
LEMMA ScoreCounts == ASSUME ScoreInv, Score PROVE ScoreInv'
<1> DEFINE content == [rows |-> schema.rows, card |-> ScoreCard]
<1>1. /\ phase = "score" /\ phase' = "export" /\ Written("scorecard", content)
      /\ UNCHANGED <<run, at, todo, log, tally, before, schema, prod, prodWas>>
  BY DEF Score
<1>2. ProbeInv'
  BY SaveHolds DEF ScoreInv
<1>3. LogInv' /\ PlaceInv' /\ RowsInv'
  BY <1>1 DEF ScoreInv, LogInv, PlaceInv, Proposing, RowsInv, Mine, Underway, Ended
<1>4. /\ DOMAIN disk' = DOMAIN disk \cup {"scorecard"} /\ disk'["scorecard"].run = run
      /\ disk'["scorecard"].content = content
      /\ \A f \in DOMAIN disk \ {"scorecard"} : disk'[f] = disk[f]
  <2> HIDE DEF content
  <2> QED  BY <1>1 DEF Written
<1>5. Saved("attempts") /\ disk["attempts"].content = log
  BY <1>1 DEF ScoreInv, ProbeInv, DiskInv
<1>6. FilesInv'
  BY <1>1, <1>4, <1>5 DEF ScoreInv, LogInv, FilesInv, Underway, Saved
<1>7. disk'["attempts"].content = log /\ disk'["scorecard"].content.rows = schema.rows
      /\ disk'["scorecard"].content.card = ScoreCard
  BY <1>4, <1>5 DEF Saved
<1>8. ScorecardAddsUp'
  BY <1>1, <1>4, <1>7, CardAddsUp DEF ScorecardAddsUp
<1> QED  BY <1>2, <1>3, <1>6, <1>8 DEF ScoreInv

\* After the scorecard nothing is counted any more.
LEMMA ExportCounts == ASSUME ScoreInv, Export PROVE ScoreInv'
<1>1. /\ phase = "export" /\ phase' = "finally" /\ Written("records", schema.rows)
      /\ UNCHANGED <<run, at, todo, log, tally, before, schema, prod, prodWas>>
  BY DEF Export
<1>2. ProbeInv'
  BY SaveHolds DEF ScoreInv
<1>3. LogInv' /\ PlaceInv' /\ RowsInv'
  BY <1>1 DEF ScoreInv, LogInv, PlaceInv, Proposing, RowsInv, Mine, Underway, Ended
<1>4. FilesInv' /\ ScorecardAddsUp'
  BY <1>1, OtherFileHolds DEF ScoreInv, LogInv, Underway
<1> QED  BY <1>2, <1>3, <1>4 DEF ScoreInv

\* An ended run has forgotten its log.
LEMMA GoneCounts ==
  ASSUME LogInv, Gone, run' = run
  PROVE  LogInv'
<1>1. Proposing' = {} /\ at' = 1 /\ log' = <<>> /\ tally' = Nought
  BY DEF Gone, Proposing
<1> QED  BY <1>1, FS_EmptySet DEF LogInv, Nought

LEMMA FinallyCounts == ASSUME ScoreInv, Finally PROVE ScoreInv'
<1>1. /\ phase' \in {"raised", "breach", "over"} /\ Gone /\ UNCHANGED <<run, prod, prodWas>>
      /\ schema' = schema \/ schema' = NoSchema
      /\ \E content : Written("isolation", content)
  BY DEF Finally
<1>2. ProbeInv'
  BY FinallyHolds DEF ScoreInv
<1>3. LogInv'
  BY <1>1, GoneCounts DEF ScoreInv
<1>4. PlaceInv' /\ RowsInv'
  BY <1>1 DEF ScoreInv, PlaceInv, RowsInv, Underway, NoSchema
<1>5. FilesInv' /\ ScorecardAddsUp'
  BY <1>1, OtherFileHolds DEF ScoreInv, LogInv, Underway
<1> QED  BY <1>2, <1>3, <1>4, <1>5 DEF ScoreInv

LEMMA DieCounts == ASSUME ScoreInv, Die PROVE ScoreInv'
<1>1. phase' = "dead" /\ Gone /\ UNCHANGED <<run, schema, disk, prod, prodWas>>
  BY DEF Die
<1>2. ProbeInv'
  BY EarlyStepHolds DEF ScoreInv
<1>3. LogInv'
  BY <1>1, GoneCounts DEF ScoreInv
<1>4. PlaceInv' /\ RowsInv' /\ FilesInv' /\ ScorecardAddsUp'
  BY <1>1 DEF ScoreInv, PlaceInv, RowsInv, FilesInv, ScorecardAddsUp, Underway
<1> QED  BY <1>2, <1>3, <1>4 DEF ScoreInv

\* A run that raises, be it with a row in the schema that the log lacks, is not scored.
LEMMA RaiseCounts == ASSUME ScoreInv, Raise PROVE ScoreInv'
<1>1. /\ phase' = "finally_raised"
      /\ schema' = schema \/ \E row \in Rows : schema' = Stored(row)
      /\ UNCHANGED <<run, at, todo, log, tally, before, disk, prod, prodWas>>
  BY DEF Raise
<1>2. ProbeInv'
  BY EarlyStepHolds DEF ScoreInv
<1>3. LogInv' /\ PlaceInv'
  BY <1>1 DEF ScoreInv, LogInv, PlaceInv, Proposing, Ended
<1>4. RowsInv'
  <2>1. \A row \in Rows : row.run = run /\ Stored(row).rows = schema.rows \cup {row}
    BY SchemaWorks DEF Rows, ScoreInv, ProbeInv
  <2>2. \A row \in schema'.rows : row.run \in Nat /\ row.run <= run
    <3>1. \A row \in schema.rows : row.run \in Nat /\ row.run <= run
      BY DEF ScoreInv, RowsInv
    <3>2. run \in Nat
      BY DEF ScoreInv, LogInv
    <3>3. CASE schema' = schema
      BY <3>1, <3>3
    <3>4. ASSUME NEW row \in Rows, schema' = Stored(row)
          PROVE  \A r \in schema'.rows : r.run \in Nat /\ r.run <= run
      BY <2>1, <3>1, <3>2, <3>4
    <3> QED  BY <1>1, <3>3, <3>4
  <2> QED  BY <1>1, <2>2 DEF RowsInv, Underway
<1>5. FilesInv' /\ ScorecardAddsUp'
  BY <1>1 DEF ScoreInv, FilesInv, ScorecardAddsUp, Underway
<1> QED  BY <1>2, <1>3, <1>4, <1>5 DEF ScoreInv

LEMMA ScoreStepHolds == ScoreInv /\ [Next]_vars => ScoreInv'
<1> SUFFICES ASSUME ScoreInv, [Next]_vars PROVE ScoreInv'
  OBVIOUS
<1>1. CASE ProdWrites \/ UNCHANGED vars
  <2>1. UNCHANGED <<run, phase, at, log, tally, schema, disk>>
    BY <1>1 DEF ProdWrites, vars
  <2>2. ProbeInv'
    BY ProbeStepHolds DEF ScoreInv
  <2> QED  BY <2>1, <2>2 DEF ScoreInv, LogInv, PlaceInv, Proposing, RowsInv, Mine, FilesInv,
                             ScorecardAddsUp
<1> QED  BY <1>1, StartCounts, CreateCounts, GetChunkCounts, ExtractCounts, TryCounts,
            PersistCounts, ScoreCounts, ExportCounts, FinallyCounts, DieCounts, RaiseCounts
         DEF Next, OwnWork

\* The invariant of the counts, in every state of every probe run.
THEOREM ScoreInvHolds == Spec => []ScoreInv
BY ScoreInitHolds, ScoreStepHolds, PTL DEF Spec

\* A scorecard over a fresh schema (probe/scoring.py) accounts for every chunk of the
\* slice and every proposal once, has a record for every attempt that was ok, and no
\* rate above 1, for every slice, every reply and everything that fails.
THEOREM ScorecardsAddUp == Spec => []ScorecardAddsUp
<1>1. ScoreInv => ScorecardAddsUp
  BY DEF ScoreInv
<1> QED  BY <1>1, ScoreInvHolds, PTL

-----------------------------------------------------------------------------
(* The invariant of the loop.                                              *)

\* From a swap that went through until the next one, the lane serves what lane.env
\* names; past the guard that is the candidate, and a followed run's is Followed.
LaneInv ==
  /\ loop \in {"guard", "health", "run", "probe", "restore_health"} => serving = env
  /\ loop \in {"health", "run", "probe"} => env = Candidates[cand]
  /\ loop = "probe" => Candidates[cand] = Followed
  /\ loop = "restore_health" /\ writable => env = Default
  /\ RowsAreByTheCandidate

-----------------------------------------------------------------------------
(* Each step of the loop preserves it.                                     *)

\* The lane serves what lane.env names and the loop is off.
LEMMA LaneInitHolds == LaneInit => LaneInv
BY DEF LaneInit, LaneInv, RowsAreByTheCandidate

\* A swap: if it goes through the lane serves what lane.env names, and that is the
\* profile if the file can be written; the loop may then go on to the guard.
LEMMA SwapHolds == ASSUME LaneInv, SwapLane PROVE LaneInv'
<1>1. loop' \in {"guard", "restore", "swap"} /\ authors' = authors
      /\ (loop' = "guard" => serving' = env')
  BY DEF SwapLane, Swapped, SwapFailed, Goto, Skip
<1> QED  BY <1>1 DEF LaneInv, RowsAreByTheCandidate

\* The guard, the wait and the start of a run leave the lane and the candidate alone,
\* or leave the candidate behind.
LEMMA CheckHolds == ASSUME LaneInv, Guard \/ HealthWait \/ Run PROVE LaneInv'
<1>1. /\ env' = env /\ serving' = serving /\ writable' = writable /\ authors' = authors
  BY DEF Guard, HealthWait, Run, laneVars
<1>2. CASE Skip
  BY <1>1, <1>2 DEF Skip, LaneInv, RowsAreByTheCandidate
<1>3. CASE loop = "guard" /\ env = Candidates[cand] /\ Goto("health")
  BY <1>1, <1>3 DEF Goto, LaneInv, RowsAreByTheCandidate
<1>4. CASE loop = "health" /\ Goto("run")
  BY <1>1, <1>4 DEF Goto, LaneInv, RowsAreByTheCandidate
<1>5. CASE loop = "run" /\ Candidates[cand] = Followed /\ Goto("probe")
  BY <1>1, <1>5 DEF Goto, LaneInv, RowsAreByTheCandidate
<1> QED  BY <1>2, <1>3, <1>4, <1>5 DEF Guard, HealthWait, Run

\* An answer while the probe is under way comes from the lane, which has not changed
\* since the guard.
LEMMA AnswerHolds == ASSUME LaneInv, ProbeAnswer PROVE LaneInv'
<1>1. /\ loop = "probe" /\ authors' = authors \cup {<<run, serving>>}
      /\ UNCHANGED <<laneVars, writable, loopVars>>
  BY DEF ProbeAnswer
<1>2. serving = Followed
  BY <1>1 DEF LaneInv
<1> QED  BY <1>1, <1>2 DEF LaneInv, RowsAreByTheCandidate, laneVars, loopVars

\* The restore names the default if it can, and waits for what was loaded.
LEMMA RestoreHolds == ASSUME LaneInv, Restore PROVE LaneInv'
<1>1. /\ loop' \in {"restore_health", "off"} /\ authors' = authors /\ writable' = writable
      /\ (loop' = "restore_health" => serving' = env' /\ (writable => env' = Default))
  BY DEF Restore, Swapped, SwapFailed, Goto, End
<1> QED  BY <1>1 DEF LaneInv, RowsAreByTheCandidate

\* A hanging ssh has done its part of a swap or none, and leaves the loop where it is:
\* of a swap or a restore under way nothing is claimed.
LEMMA HangHolds == ASSUME LaneInv, Hang PROVE LaneInv'
<1>1. /\ loop' = loop /\ cand' = cand /\ writable' = writable /\ authors' = authors
      /\ loop \in {"swap", "restore"} \/ UNCHANGED laneVars
  BY DEF Hang
<1> QED  BY <1>1 DEF LaneInv, RowsAreByTheCandidate, laneVars

\* Every other step leaves lane.env, the lane's model and the answers alone, and the loop
\* where it is or at a place of which nothing is claimed.
LEMMA OtherHolds ==
  ASSUME LaneInv,
         \/ StartLoop \/ RunEnd \/ RestoreHealth \/ ProbeWork \/ ProbeDies
         \/ Unhang \/ Interrupt \/ Kill \/ LaneTurns \/ Production
  PROVE  LaneInv'
<1>1. /\ env' = env /\ serving' = serving /\ writable' = writable /\ authors' = authors
      /\ \/ loop' = loop /\ cand' = cand
         \/ loop' \in {"swap", "restore", "off", "interrupted"}
  BY DEF StartLoop, RunEnd, RestoreHealth, ProbeWork, ProbeDies, Unhang, Interrupt, Kill,
         LaneTurns, Production, laneVars, loopVars, Goto, Skip, End
<1> QED  BY <1>1 DEF LaneInv, RowsAreByTheCandidate

\* Every step of the loop, of its probe, of the lane or of production.
LEMMA LaneStepHolds == LaneInv /\ [LaneNext]_allVars => LaneInv'
<1> SUFFICES ASSUME LaneInv, [LaneNext]_allVars PROVE LaneInv'
  OBVIOUS
<1>1. CASE UNCHANGED allVars
  BY <1>1 DEF allVars, laneVars, loopVars, LaneInv, RowsAreByTheCandidate
<1>2. CASE LaneNext
  BY <1>2, SwapHolds, CheckHolds, AnswerHolds, RestoreHolds, HangHolds, OtherHolds
  DEF LaneNext, LoopWork
<1> QED  BY <1>1, <1>2

\* The invariant holds in every state of every behaviour of the loop.
THEOREM LaneInvHolds == LaneSpec => []LaneInv
BY LaneInitHolds, LaneStepHolds, PTL DEF LaneSpec

\* NEVER run a candidate against the wrong model (probe_loop.sh): every answer that a
\* run under the candidate's label uses is the candidate's.
THEOREM CandidatesOwnRows == LaneSpec => []RowsAreByTheCandidate
<1>1. LaneInv => RowsAreByTheCandidate
  BY DEF LaneInv
<1> QED  BY <1>1, LaneInvHolds, PTL

\* "restored" is said only of a lane that is ready and serves what lane.env names: the
\* default, if the loop's user could write the file.
THEOREM RestoresVerified == LaneSpec => RestoreIsVerified
<1> DEFINE Step ==
      said # "restored" /\ said' = "restored" =>
        /\ health' = "ready" /\ serving' = env'
        /\ writable' => serving' = Default
<1>1. LaneInv /\ [LaneNext]_allVars => Step
  <2> SUFFICES ASSUME LaneInv, [LaneNext]_allVars, said # "restored", said' = "restored"
               PROVE  /\ health' = "ready" /\ serving' = env'
                      /\ writable' => serving' = Default
    OBVIOUS
  <2>1. RestoreHealth
    <3>1. ~UNCHANGED allVars
      BY DEF allVars, loopVars
    <3>2. ~(StartLoop \/ SwapLane \/ Guard \/ HealthWait \/ Run \/ RunEnd \/ Restore)
      BY DEF StartLoop, SwapLane, Guard, HealthWait, Run, RunEnd, Restore, Goto, Skip, End
    <3>3. ~(ProbeAnswer \/ ProbeWork \/ ProbeDies \/ Hang \/ Unhang \/ Interrupt \/ Kill
              \/ LaneTurns \/ Production)
      BY DEF ProbeAnswer, ProbeWork, ProbeDies, Hang, Unhang, Interrupt, Kill, LaneTurns,
             Production, loopVars
    <3> QED  BY <3>1, <3>2, <3>3 DEF LaneNext, LoopWork
  <2>2. loop = "restore_health" /\ health = "ready" /\ UNCHANGED <<laneVars, writable>>
    BY <2>1 DEF RestoreHealth, End
  <2> QED  BY <2>2 DEF LaneInv, laneVars
<1> QED  BY <1>1, LaneInvHolds, PTL DEF LaneSpec, RestoreIsVerified

-----------------------------------------------------------------------------
(* The loop does to the probe only what Probe allows.                      *)

\* probe_loop.sh starts, interrupts, kills or outlives probe runs: each of its steps is
\* one of Probe's or leaves the probe alone, so what holds of the probe holds in the lane.
THEOREM LaneImplementsProbe == LaneSpec => Spec
<1>1. LaneInit => Init
  BY DEF LaneInit
<1>2. [LaneNext]_allVars => [Next]_vars
  <2> SUFFICES ASSUME [LaneNext]_allVars PROVE [Next]_vars
    OBVIOUS
  <2>1. CASE UNCHANGED allVars
    BY <2>1 DEF allVars, probeVars
  <2>2. CASE StartLoop \/ SwapLane \/ Guard \/ HealthWait \/ RunEnd \/ Restore
             \/ RestoreHealth \/ Hang \/ Unhang \/ LaneTurns
    BY <2>2 DEF StartLoop, SwapLane, Guard, HealthWait, RunEnd, Restore, RestoreHealth,
                Hang, Unhang, LaneTurns, probeVars
  <2>3. CASE Run \/ ProbeAnswer \/ ProbeWork \/ ProbeDies \/ Interrupt \/ Kill \/ Production
    BY <2>3 DEF Run, ProbeAnswer, ProbeWork, ProbeDies, Interrupt, Kill, Production,
                probeVars, Next, OwnWork
  <2> QED  BY <2>1, <2>2, <2>3 DEF LaneNext, LoopWork
<1> QED  BY <1>1, <1>2, PTL DEF LaneSpec, Spec

\* The three promises of the probe, kept under the loop with its swaps and signals.
COROLLARY ProbesUnderTheLoop ==
  LaneSpec => NeverDroppedUnscored /\ []BreachIsReported /\ []ScorecardAddsUp
BY LaneImplementsProbe, NoneDroppedUnscored, BreachesReported, ScorecardsAddUp

=============================================================================
