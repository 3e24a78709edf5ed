----------------------------- MODULE LinkEvents -----------------------------
(***************************************************************************)
(* LinkEvents.link (link_events.py): the write boundary of cross-record    *)
(* Links, over the grounding core, the record and link stores, and the     *)
(* EventMaterializer, which runs between the tier gate and the INSERT of   *)
(* the Link in transactions of its own.                                    *)
(*                                                                         *)
(* The records are those that exist from the start: rows are write-once    *)
(* and none is deleted.  A name is the text of a record id a payload uses  *)
(* (see EventMaterializer); a mangled one resolves to no record.           *)
(***************************************************************************)
EXTENDS GroundingCore, FiniteSets

CONSTANTS
  Records, Names, RecordOf, Callers, MaxCalls, None,   \* see EventMaterializer
  Mangled,     \* texts that are no record's id
  Chunks,      \* claim_chunks
  ChunkOf,     \* [Records -> Chunks]: each record's source_chunk_id
  Versions,    \* versions a chunk's text goes through, 0 first
  Gone,        \* the version of a chunk deleted from claim_chunks
  Relations,   \* "same_event" and others
  Relates,     \* <<relation, span a, span b>>: what the cited evidence states
  Faults,      \* what may go wrong: a subset of {"abort", "edit"}
  Budget       \* bound: materialize calls and faults of a behaviour, together

ASSUME LinkTextsAssumption ==
  Texts = Chunks \X Versions /\ 0 \in Versions /\ Gone \notin Versions
ASSUME ChunkOfAssumption == ChunkOf \in [Records -> Chunks]
ASSUME EventNamesAssumption ==
  Names \subseteq Nat /\ RecordOf \in [Names -> Records] /\ MaxCalls \in Nat /\ None \notin Names
ASSUME MangledAssumption == Mangled \cap Names = {}
ASSUME RelatesAssumption == Relates \subseteq Relations \X Spans \X Spans

VARIABLES
  corpus,    \* claim_chunks: each chunk's version, or Gone
  stage,     \* where each caller's link call stands
  call,      \* each call's payload
  work,      \* each call's locals
  answer,    \* what each caller's last call answered
  links,     \* enrichment_links
  faults,    \* how often something went wrong
  givenUp,   \* history: pairs of names whose call ended past the gate without a Link
  born, members, mergedInto, pc, job, returned, clashes, calls, grounded   \* events

Events == INSTANCE EventMaterializer WITH Aborts <- "abort" \in Faults

eventVars == <<born, members, mergedInto, pc, job, returned, clashes, calls, grounded>>
callVars == <<stage, call, work, answer>>
faultVars == <<faults, givenUp>>
vars == <<corpus, callVars, links, faultVars, eventVars>>

-----------------------------------------------------------------------------
Payload ==
  [a : Names \cup Mangled, b : Names \cup Mangled, relation : Relations, tier : Tiers,
   offA : Offsets, offB : Offsets]

NoWork ==
  [textA |-> None, textB |-> None, spanA |-> None, spanB |-> None, verdict |-> None,
   event |-> None]

Idle(c, reply) ==
  /\ stage' = [stage EXCEPT ![c] = "idle"]
  /\ call' = [call EXCEPT ![c] = None]
  /\ work' = [work EXCEPT ![c] = NoWork]
  /\ answer' = [answer EXCEPT ![c] = reply]

Goto(c, step, locals) ==
  /\ stage' = [stage EXCEPT ![c] = step]
  /\ work' = [work EXCEPT ![c] = locals]
  /\ UNCHANGED <<call, answer>>

\* There is room for one more materialize call or fault.
Room == calls + faults < Budget

Fault(kind) == kind \in Faults /\ Room /\ faults' = faults + 1

Init ==
  /\ Events!Init
  /\ corpus = [k \in Chunks |-> 0]
  /\ stage = [c \in Callers |-> "idle"]
  /\ call = [c \in Callers |-> None]
  /\ work = [c \in Callers |-> NoWork]
  /\ answer = [c \in Callers |-> "none"]
  /\ links = {}
  /\ faults = 0
  /\ givenUp = {}

\* _validate: the two ids must differ, as texts.
Propose(c, p) ==
  /\ stage[c] = "idle"
  /\ IF p.a = p.b
     THEN Idle(c, "schema_invalid")
     ELSE /\ stage' = [stage EXCEPT ![c] = "get_records"]
          /\ call' = [call EXCEPT ![c] = p]
          /\ answer' = [answer EXCEPT ![c] = "none"]
          /\ UNCHANGED work
  /\ UNCHANGED <<corpus, links, faultVars, eventVars>>

\* Step 1: both records must exist.
GetRecords(c) ==
  /\ stage[c] = "get_records"
  /\ IF {call[c].a, call[c].b} \subseteq Names
     THEN Goto(c, "load_a", work[c])
     ELSE Idle(c, "unknown_record")
  /\ UNCHANGED <<corpus, links, faultVars, eventVars>>

\* The chunk of the record a name stands for.
Source(name) == ChunkOf[RecordOf[name]]

\* Step 2, record_a's Fragment as it is now.
LoadA(c) ==
  LET k == Source(call[c].a)
  IN  /\ stage[c] = "load_a"
      /\ IF corpus[k] = Gone
         THEN Idle(c, "fragment_not_found")
         ELSE Goto(c, "load_b", [work[c] EXCEPT !.textA = <<k, corpus[k]>>])
      /\ UNCHANGED <<corpus, links, faultVars, eventVars>>

\* Mutant of LoadB: both spans are cut from record_b's text.
LoadBMixedUp(c) ==
  LET k     == Source(call[c].b)
      text  == <<k, corpus[k]>>
      spanA == SliceOf[text][call[c].offA]
      spanB == SliceOf[text][call[c].offB]
  IN  /\ stage[c] = "load_b"
      /\ IF corpus[k] = Gone \/ SliceError(spanA) # "" \/ SliceError(spanB) # ""
         THEN Idle(c, "bad_offsets")
         ELSE Goto(c, "judge", [work[c] EXCEPT !.textB = text, !.spanA = spanA,
                                               !.spanB = spanB])
      /\ UNCHANGED <<corpus, links, faultVars, eventVars>>

\* Step 2, record_b's; step 3: slice a, then b.
LoadB(c) ==
  LET k     == Source(call[c].b)
      text  == <<k, corpus[k]>>
      spanA == SliceOf[work[c].textA][call[c].offA]
      spanB == SliceOf[text][call[c].offB]
  IN  /\ stage[c] = "load_b"
      /\ CASE corpus[k] = Gone -> Idle(c, "fragment_not_found")
           [] corpus[k] # Gone /\ SliceError(spanA) # "" -> Idle(c, SliceError(spanA))
           [] corpus[k] # Gone /\ SliceError(spanA) = "" /\ SliceError(spanB) # "" ->
                Idle(c, SliceError(spanB))
           [] OTHER -> Goto(c, "judge", [work[c] EXCEPT !.textB = text, !.spanA = spanA,
                                                        !.spanB = spanB])
      /\ UNCHANGED <<corpus, links, faultVars, eventVars>>

\* The judge may err on the side of refusal; it never calls grounded a relation
\* the two spans it is shown do not state.
Rulings(c) ==
  {v \in Verdicts :
     v = "grounded" => <<call[c].relation, work[c].spanA, work[c].spanB>> \in Relates}

\* Steps 4-7: judge, gate (one reason for both tiers); past the gate a same_event
\* calls materialize, anything else goes straight to the INSERT.
JudgeRelation(c) ==
  /\ stage[c] = "judge"
  /\ \/ Idle(c, "judge_unavailable") /\ UNCHANGED eventVars
     \/ \E v \in Rulings(c) :
          \/ /\ Gate(call[c].tier, v) = "reject"
             /\ Idle(c, "ungrounded_relation")
             /\ UNCHANGED eventVars
          \/ /\ Gate(call[c].tier, v) # "reject"
             /\ call[c].relation # "same_event"
             /\ Goto(c, "insert", [work[c] EXCEPT !.verdict = v])
             /\ UNCHANGED eventVars
          \/ /\ Gate(call[c].tier, v) # "reject"
             /\ call[c].relation = "same_event"
             /\ Room
             /\ Goto(c, "event", [work[c] EXCEPT !.verdict = v])
             /\ Events!Call(c, call[c].a, call[c].b)
  /\ UNCHANGED <<corpus, links, faultVars>>

\* The call of c ends without an answer; past the gate its two names are given up.
GiveUp(c) ==
  /\ Idle(c, "raised")
  /\ givenUp' = IF stage[c] \in {"event", "insert"}
                THEN givenUp \cup {{call[c].a, call[c].b}} ELSE givenUp

\* One statement of materialize.  When it is over it has handed an event back,
\* or a UniqueViolation escapes link.
EventStep(c) ==
  /\ stage[c] = "event"
  /\ Events!Step(c)
  /\ IF pc'[c] # "idle"
     THEN UNCHANGED <<callVars, givenUp>>
     ELSE \/ \E r \in returned' : /\ r.by = c
                                  /\ Goto(c, "insert", [work[c] EXCEPT !.event = r.event])
                                  /\ UNCHANGED givenUp
          \/ (\A r \in returned' : r.by # c) /\ GiveUp(c)
  /\ UNCHANGED <<corpus, links, faults>>

\* The Link row; its record columns are uuids.
NewLink(c) ==
  LET p == call[c]
      w == work[c]
  IN  [a |-> RecordOf[p.a], b |-> RecordOf[p.b], relation |-> p.relation, tier |-> p.tier,
       offA |-> p.offA, offB |-> p.offB, event |-> w.event,
       flagged |-> Gate(p.tier, w.verdict) = "flag",
       attested |-> Attestation([verdict |-> w.verdict, failing |-> {}],
                                [spanA |-> w.spanA, spanB |-> w.spanB,
                                 sourceA |-> w.textA, sourceB |-> w.textB])]

\* Mutant of InsertLink: a Link is kept once per Event, as if the Event said it all.
InsertLinkPerEvent(c) ==
  /\ stage[c] = "insert"
  /\ IF RecordOf[call[c].a] = RecordOf[call[c].b]
     THEN GiveUp(c) /\ UNCHANGED links
     ELSE /\ links' = IF \E l \in links : l.event = work[c].event
                      THEN links ELSE links \cup {NewLink(c)}
          /\ Idle(c, "ok") /\ UNCHANGED givenUp
  /\ returned' = {r \in returned : r.by # c}
  /\ UNCHANGED <<corpus, faults, born, members, mergedInto, pc, job, clashes, calls, grounded>>

\* The event handed to c's call is in the Link, or forgotten with the call.
Forget(c) == returned' = {r \in returned : r.by # c}

\* Step 8: INSERT, unless the no-self CHECK refuses it and CheckViolation escapes.
InsertLink(c) ==
  /\ stage[c] = "insert"
  /\ IF RecordOf[call[c].a] = RecordOf[call[c].b]
     THEN GiveUp(c) /\ UNCHANGED <<links, faults>>
     ELSE /\ links' = links \cup {NewLink(c)}
          /\ \/ Idle(c, "ok") /\ UNCHANGED faultVars
             \/ Fault("abort") /\ Idle(c, "raised") /\ UNCHANGED givenUp
  /\ Forget(c)
  /\ UNCHANGED <<corpus, born, members, mergedInto, pc, job, clashes, calls, grounded>>

-----------------------------------------------------------------------------
\* Before c's next statement the process dies, or an exception escapes: a
\* connection error, or the TypeError of a judge reply without choices.
Abort(c) ==
  /\ Fault("abort")
  /\ stage[c] \in {"get_records", "load_a", "load_b", "judge", "event", "insert"}
  /\ GiveUp(c)
  /\ Forget(c)
  /\ Events!End(c)
  /\ UNCHANGED <<corpus, links, born, members, mergedInto, clashes, calls, grounded>>

\* The corpus owner re-extracts or deletes a chunk (no code of this repository).
EditCorpus(k) ==
  /\ Fault("edit")
  /\ corpus[k] # Gone
  /\ \/ corpus[k] + 1 \in Versions /\ corpus' = [corpus EXCEPT ![k] = @ + 1]
     \/ corpus' = [corpus EXCEPT ![k] = Gone]
  /\ UNCHANGED <<callVars, links, givenUp, eventVars>>

Step(c) ==
  \/ GetRecords(c) \/ LoadA(c) \/ LoadB(c) \/ JudgeRelation(c) \/ EventStep(c)
  \/ InsertLink(c)

Next ==
  \/ \E c \in Callers :
       \/ \E p \in Payload : Propose(c, p)
       \/ Step(c)
       \/ Abort(c)
  \/ \E k \in Chunks : EditCorpus(k)

Spec == Init /\ [][Next]_vars

-----------------------------------------------------------------------------
\* The shape of the state.
TypeOK ==
  /\ Events!TypeOK
  /\ corpus \in [Chunks -> Versions \cup {Gone}]
  /\ stage \in [Callers -> {"idle", "get_records", "load_a", "load_b", "judge", "event",
                            "insert"}]
  /\ call \in [Callers -> Payload \cup {None}]
  /\ \A l \in links : {l.a, l.b} \subseteq Records /\ l.event \in Names \cup {None}

Supported(l) ==
  l.tier = "fact" =>
    /\ <<l.relation, l.attested.hashes.spanA, l.attested.hashes.spanB>> \in Relates
    /\ ~l.flagged

(* No ungrounded fact is stored: the cited evidence of every fact Link,    *)
(* as sliced by code, states the relation the Link asserts.                *)
FactLinksAreSupported == \A l \in links : Supported(l)

Coherent(l) ==
  LET h == l.attested.hashes
  IN  /\ h.sourceA[1] = ChunkOf[l.a] /\ h.spanA = SliceOf[h.sourceA][l.offA]
      /\ h.sourceB[1] = ChunkOf[l.b] /\ h.spanB = SliceOf[h.sourceB][l.offB]

(* A Link attests itself: each side's hashes come from one loaded text of  *)
(* that side's own record, cut at that side's own offsets, although the    *)
(* corpus may change between the two loads, the judge and the INSERT.      *)
LinkAttestationsAreCoherent == \A l \in links : Coherent(l)

\* Pairs of records judged the same event: by a stored Link, or by a call given up.
Judged ==
  {{l.a, l.b} : l \in {k \in links : k.relation = "same_event"}}
    \cup {{RecordOf[n] : n \in pair} : pair \in givenUp}

\* s is in every set of records that holds r and is closed under the judged pairs.
ConnectedByLinks(r, s) ==
  \A S \in SUBSET Records :
    (r \in S /\ \A pair \in Judged : pair \cap S # {} => pair \subseteq S) => s \in S

(* Event Entities come only from same_event Links: with no call in flight  *)
(* every two members of an Event are connected by Links that are stored    *)
(* (or by the pairs of calls that ended past the gate without theirs),     *)
(* however the calls of several callers interleaved.                       *)
EventsAreBackedByLinks ==
  (\A c \in Callers : stage[c] = "idle") =>
    \A e \in born : \A m, n \in members[e] : ConnectedByLinks(RecordOf[m], RecordOf[n])

=============================================================================
