------------------------------ MODULE Multipass ------------------------------
(***************************************************************************)
(* execute_multipass (multipass/cli.py): assemble the inputs, create the   *)
(* scratch schema, run the Pipeline (multipass/pipeline.py) over all       *)
(* passes, read the gate (multipass/gate.py), export, review, drop.        *)
(* Pass 3 is FillLoop, chunk by chunk.  What another pass says of a chunk  *)
(* reaches prompts and files only: its output is that it answered for it,  *)
(* be it with a state or, when it raised, with an error.                   *)
(*                                                                         *)
(* The process may be killed anywhere and an I/O error may stop it; an     *)
(* operator may then start it again under the same label: results          *)
(* directory and schema are still there.                                   *)
(***************************************************************************)
EXTENDS FillLoop, FiniteSets, SequencesExt

CONSTANTS
  Chunks,
  Slices,    \* what the frozen slice may list: sequences of chunks
  Ranges,    \* what the page ranges may list
  MaxRuns    \* bound: how often the operator starts it

ASSUME InputsAssumption == Slices \cup Ranges \subseteq Seq(Chunks)
ASSUME RunsAssumption == MaxRuns \in Nat

VARIABLES
  run,       \* the number of the run: 0 before the first
  phase,     \* where execute_multipass stands
  listed,    \* chunks of the slice and the ranges that are not assembled yet
  inputs,    \* the assembled chunks
  results,   \* the states of the passes that are through, in order
  outputs,   \* the current pass's outputs so far, chunk by chunk
  disk,      \* the results directory: what each file in it was written from
  schema     \* probe_<label>: whether it is there, and its rows

runVars == <<run, phase, listed, inputs, results, outputs>>
vars == <<fillVars, runVars, disk, schema>>

-----------------------------------------------------------------------------
Passes == <<"1_prose", "2_objecttypes", "2_9_consolidate", "3_fillvalues",
            "4_keywords", "4_9_cleanup", "5_meaning">>

WholeState == {"2_9_consolidate", "4_9_cleanup"}

\* The pass that is being run.
Now == Passes[Len(results) + 1]

Files == ToSet(Passes) \cup {"gate", "records", "review"}

Written(file, content) ==
  disk' = [f \in DOMAIN disk \cup {file} |->
             IF f = file THEN [run |-> run, content |-> content] ELSE disk[f]]

NoSchema == [exists |-> FALSE, rows |-> {}]

Init ==
  /\ FillIdle
  /\ run = 0
  /\ phase = "off"
  /\ listed = <<>>
  /\ inputs = <<>>
  /\ results = <<>>
  /\ outputs = <<>>
  /\ disk = << >>
  /\ schema = NoSchema

\* The operator starts it.
Start ==
  /\ phase \in {"off", "over", "dead"}
  /\ run < MaxRuns
  /\ run' = run + 1
  /\ phase' = "assemble"
  /\ \E slice \in Slices, range \in Ranges : listed' = slice \o range
  /\ inputs' = <<>>
  /\ results' = <<>>
  /\ outputs' = <<>>
  /\ UNCHANGED <<fillVars, disk, schema>>

\* Mutant: the chunks of the page ranges are added as they are.
AssembleAll ==
  /\ phase = "assemble"
  /\ listed # <<>>
  /\ inputs' = Append(inputs, Head(listed))
  /\ listed' = Tail(listed)
  /\ UNCHANGED <<fillVars, run, phase, results, outputs, disk, schema>>

\* assemble_inputs: the slice, then the page ranges, each chunk once.
Assemble ==
  /\ phase = "assemble"
  /\ listed # <<>>
  /\ inputs' = IF Head(listed) \in ToSet(inputs) THEN inputs ELSE Append(inputs, Head(listed))
  /\ listed' = Tail(listed)
  /\ UNCHANGED <<fillVars, run, phase, results, outputs, disk, schema>>

\* create_probe_schema: CREATE SCHEMA IF NOT EXISTS, CREATE TABLE IF NOT EXISTS.
CreateSchema ==
  /\ phase = "assemble"
  /\ listed = <<>>
  /\ schema' = [schema EXCEPT !.exists = TRUE]
  /\ phase' = "passes"
  /\ UNCHANGED <<fillVars, run, listed, inputs, results, outputs, disk>>

-----------------------------------------------------------------------------
(* Pipeline.run.                                                           *)

\* The next chunk of a per-chunk pass.
Chunk == inputs[Len(outputs) + 1]

ChunksLeft == Len(outputs) < Len(inputs)

Answered(out) == outputs' = Append(outputs, out)

\* process_chunk of a pass other than 3 returns, or raises and is contained.
PassChunk ==
  /\ phase = "passes"
  /\ Len(results) < Len(Passes)
  /\ Now \notin WholeState \cup {"3_fillvalues"}
  /\ ChunksLeft
  /\ Answered("done")
  /\ UNCHANGED <<fillVars, run, phase, listed, inputs, results, disk, schema>>

\* process_chunk of pass 3 begins.
FillChunk ==
  /\ phase = "passes"
  /\ Len(results) < Len(Passes)
  /\ Now = "3_fillvalues"
  /\ ChunksLeft
  /\ step = "idle"
  /\ FillStart
  /\ UNCHANGED <<runVars, disk, schema>>

\* One step of it; a record goes into the scratch schema.
FillChunkStep ==
  /\ phase = "passes"
  /\ FillStep
  /\ schema' = IF rows' = rows
               THEN schema
               ELSE [schema EXCEPT !.rows = @ \cup {[run |-> run, chunk |-> Chunk,
                                                     at |-> <<Len(outputs) + 1, rows'>>]}]
  /\ UNCHANGED <<runVars, disk>>

\* Mutant: a plateau counts as settled.
FillOutputSettled ==
  [grounded |-> step \in {"grounded", "plateau"},
   reason   |-> IF step = "raised" THEN "error" ELSE feedback]

\* What process_chunk returns, or the pipeline's error entry.
FillOutput ==
  [grounded |-> step = "grounded",
   reason   |-> CASE step = "raised"   -> "error"
                  [] step = "grounded" -> Nothing
                  [] OTHER             -> feedback]

\* The call's locals are gone.
FillForgotten ==
  /\ step' = "idle"
  /\ trajectory' = <<>>
  /\ best' = Nothing
  /\ feedback' = Nothing
  /\ rows' = 0

\* Mutant: what a chunk raises is not contained.
FillEndUncontained ==
  /\ phase = "passes"
  /\ step \in {"plateau", "given_up", "grounded"}
  /\ Answered(FillOutput)
  /\ FillForgotten
  /\ UNCHANGED <<run, phase, listed, inputs, results, disk, schema>>

FillEnd ==
  /\ phase = "passes"
  /\ step \in {"plateau", "given_up", "grounded", "raised"}
  /\ Answered(FillOutput)
  /\ FillForgotten
  /\ UNCHANGED <<run, phase, listed, inputs, results, disk, schema>>

\* The pass's state: outputs[chunk_id] = out, in order; a whole-state pass has one.
State == [k \in {inputs[i] : i \in DOMAIN outputs} |->
            outputs[CHOOSE i \in DOMAIN outputs :
                      inputs[i] = k /\ \A j \in DOMAIN outputs : inputs[j] = k => j <= i]]

\* The pass is through and its file is written; a whole-state pass is one step.
PassEnd ==
  /\ phase = "passes"
  /\ Len(results) < Len(Passes)
  /\ Now \in WholeState \/ ~ChunksLeft
  /\ step = "idle"
  /\ results' = Append(results, State)
  /\ outputs' = <<>>
  /\ Written(Now, State)
  /\ UNCHANGED <<fillVars, run, phase, listed, inputs, schema>>

-----------------------------------------------------------------------------
(* The rest of execute_multipass.                                          *)

PassState(name) == results[CHOOSE i \in DOMAIN Passes : Passes[i] = name]

\* read_gate, and gate.json.
ReadGate ==
  /\ phase = "passes"
  /\ Len(results) = Len(Passes)
  /\ LET out == PassState("3_fillvalues")
     IN  Written("gate", {k \in DOMAIN out : out[k].grounded})
  /\ phase' = "export"
  /\ UNCHANGED <<fillVars, run, listed, inputs, results, outputs, schema>>

\* export_records: every row the schema holds.
Export ==
  /\ phase = "export"
  /\ Written("records", schema.rows)
  /\ phase' = "review"
  /\ UNCHANGED <<fillVars, run, listed, inputs, results, outputs, schema>>

\* write_review; scored_and_exported is TRUE from here.
Review ==
  /\ phase = "review"
  /\ Written("review", {})
  /\ phase' = "drop"
  /\ UNCHANGED <<fillVars, run, listed, inputs, results, outputs, schema>>

\* finally, everything being scored and exported: drop, unless --keep-schema.
Drop ==
  /\ phase = "drop"
  /\ schema' \in {NoSchema, schema}
  /\ phase' = "over"
  /\ UNCHANGED <<fillVars, run, listed, inputs, results, outputs, disk>>

\* Mutant: the schema is dropped whatever ended the run.
DieClean ==
  /\ phase \notin {"off", "over", "dead"}
  /\ phase' = "dead"
  /\ schema' \in {NoSchema, schema}
  /\ FillForgotten
  /\ UNCHANGED <<run, listed, inputs, results, outputs, disk>>

\* A kill, or an error no pass contains (a full disk, a lost connection): the
\* schema is kept, and nothing is left of the process.
Die ==
  /\ phase \notin {"off", "over", "dead"}
  /\ phase' = "dead"
  /\ FillForgotten
  /\ UNCHANGED <<run, listed, inputs, results, outputs, disk, schema>>

Work ==
  \/ Assemble \/ CreateSchema \/ PassChunk \/ FillChunk \/ FillChunkStep \/ FillEnd \/ PassEnd
  \/ ReadGate \/ Export \/ Review \/ Drop

Next == Start \/ Work \/ Die

Spec == Init /\ [][Next]_vars

\* The process runs on for as long as it lives.
FairSpec == Spec /\ WF_vars(Work)
-----------------------------------------------------------------------------
Row == [run : 1..MaxRuns, chunk : Chunks, at : Nat \X Nat]

\* The shape of the state.
TypeOK ==
  /\ FillTypeOK
  /\ run \in 0..MaxRuns
  /\ phase \in {"off", "assemble", "passes", "export", "review", "drop", "over", "dead"}
  /\ {listed, inputs} \subseteq Seq(Chunks)
  /\ Len(results) <= Len(Passes)
  /\ DOMAIN disk \subseteq Files /\ \A f \in DOMAIN disk : disk[f].run \in 1..run
  /\ schema \in [exists : BOOLEAN, rows : SUBSET Row]

(* A run stores at most one record for a chunk: the inputs name each chunk *)
(* once, and no attempt follows one that stored a record.                  *)
OneRecordPerChunk ==
  \A r, s \in schema.rows : r.run = s.run /\ r.chunk = s.chunk => r = s

(* The gate counts a chunk as grounded only if this run stored a record of *)
(* it; a record the gate does not count is one whose call raised after the *)
(* commit.                                                                 *)
GateAgreesWithSchema ==
  phase \in {"export", "review", "drop"} =>
    LET stored  == {row.chunk : row \in {r \in schema.rows : r.run = run}}
        counted == disk["gate"].content
        out     == PassState("3_fillvalues")
    IN  /\ counted \subseteq stored
        /\ \A k \in stored \ counted : out[k].reason = "error"

(* Action property: the schema is never dropped unscored (cli.py): when it *)
(* goes, every row it holds has been exported, by the run that drops it,   *)
(* next to that run's gate and review.                                     *)
NeverDroppedUnscored ==
  [][schema.exists /\ ~schema'.exists =>
       /\ \A f \in {"gate", "records", "review"} : f \in DOMAIN disk /\ disk[f].run = run
       /\ disk["records"].content = schema.rows]_vars

(* One bad chunk must not kill the run (pipeline.py), and no model keeps a *)
(* fill loop going: a run that is not killed comes to its end.             *)
RunsComplete == phase = "assemble" ~> phase \in {"over", "dead"}

=============================================================================
