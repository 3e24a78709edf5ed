--------------------------- MODULE LinkEventsProofs ---------------------------
(***************************************************************************)
(* Proofs about LinkEvents, for any number of callers, records, chunks and *)
(* relations, with calls that stop anywhere and a corpus that is edited    *)
(* under them: fact Links are supported, attestations are coherent, and    *)
(* Events are backed by Links.                                             *)
(***************************************************************************)
EXTENDS LinkEvents, TLAPS

\* What is proved of EventMaterializer holds of the calls that link makes of it.
EventFacts == INSTANCE EventMaterializerProofs WITH Aborts <- "abort" \in Faults

-----------------------------------------------------------------------------
USE EventNamesAssumption
USE DEF EventFacts!NamesAssumption, EventFacts!RecordOfAssumption,
        EventFacts!BoundAssumption, EventFacts!NoneAssumption

(* The two instances of EventMaterializer are one: here for its statements, *)
(* below for a call's first step, its end, and the initial state.          *)
LEMMA SameStep ==
  ASSUME NEW c \in Callers, Events!Step(c)
  PROVE  EventFacts!Step(c)
<1>1. /\ Events!NoJob = EventFacts!NoJob
      /\ \A n : Events!EventForRecord(n) = EventFacts!EventForRecord(n)
  BY DEF EventFacts!EventForRecord, Events!EventForRecord, EventFacts!Live, Events!Live,
         EventFacts!NoRow, Events!NoRow, EventFacts!NoJob, Events!NoJob
<1>2. /\ Events!End(c) <=> EventFacts!End(c)
      /\ \A e : Events!Return(c, e) <=> EventFacts!Return(c, e)
  BY <1>1 DEF EventFacts!Return, Events!Return, EventFacts!End, Events!End
<1>3. CASE Events!FindA(c)
  <2>1. EventFacts!FindA(c)
    BY <1>1, <1>3 DEF EventFacts!FindA, Events!FindA, EventFacts!table, Events!table
  <2> QED BY <2>1 DEF EventFacts!Step
<1>4. CASE Events!FindB(c)
  <2>1. EventFacts!FindB(c)
    BY <1>1, <1>2, <1>4 DEF EventFacts!FindB, Events!FindB, EventFacts!table, Events!table,
                            EventFacts!Branch, Events!Branch
  <2> QED BY <2>1 DEF EventFacts!Step
<1>5. CASE Events!Create(c)
  <2>1. EventFacts!Create(c)
    BY <1>2, <1>5 DEF EventFacts!Create, Events!Create, EventFacts!Least, Events!Least,
                      EventFacts!SetEventMembers, Events!SetEventMembers
  <2> QED BY <2>1 DEF EventFacts!Step
<1>6. CASE Events!AddMember(c)
  <2>1. EventFacts!AddMember(c)
    BY <1>2, <1>6 DEF EventFacts!AddMember, Events!AddMember,
                      EventFacts!SetEventMembers, Events!SetEventMembers
  <2> QED BY <2>1 DEF EventFacts!Step
<1>7. CASE Events!MergeSet(c)
  <2>1. EventFacts!MergeSet(c)
    BY <1>7 DEF EventFacts!MergeSet, Events!MergeSet,
                EventFacts!SetEventMembers, Events!SetEventMembers
  <2> QED BY <2>1 DEF EventFacts!Step
<1>8. CASE Events!MergeMark(c)
  <2>1. EventFacts!MergeMark(c)
    BY <1>2, <1>8 DEF EventFacts!MergeMark, Events!MergeMark,
                      EventFacts!MarkEventMerged, Events!MarkEventMerged
  <2> QED BY <2>1 DEF EventFacts!Step
<1> QED BY <1>3, <1>4, <1>5, <1>6, <1>7, <1>8 DEF Events!Step

(* link hands materialize its two ids. *)
LEMMA SameCall ==
  ASSUME NEW c \in Callers, NEW a, NEW b, Events!Call(c, a, b)
  PROVE  EventFacts!Call(c, a, b)
BY DEF Events!Call, EventFacts!Call, EventFacts!NoJob, Events!NoJob, EventFacts!NoRow,
       Events!NoRow, EventFacts!table, Events!table, EventFacts!Truth!Assert, Events!Truth!Assert

(* A call of materialize that is over leaves no locals. *)
LEMMA SameEnd ==
  ASSUME NEW c \in Callers, Events!End(c)
  PROVE  EventFacts!End(c)
BY DEF Events!End, EventFacts!End, EventFacts!NoJob, Events!NoJob, EventFacts!NoRow, Events!NoRow

(* No event, no call. *)
LEMMA SameInit == Events!Init => EventFacts!Init
BY DEF Events!Init, EventFacts!Init, EventFacts!NoJob, Events!NoJob, EventFacts!NoRow,
       Events!NoRow, EventFacts!Truth!Init, Events!Truth!Init

-----------------------------------------------------------------------------
(* The inductive invariant.                                                *)

Stages == {"idle", "get_records", "load_a", "load_b", "judge", "event", "insert"}

Work ==
  [textA : Texts \cup {None}, textB : Texts \cup {None},
   spanA : Spans \cup {None}, spanB : Spans \cup {None},
   verdict : Verdicts \cup {None}, event : Names \cup {None}]

\* What a call at stage s with payload p has found out, and holds in its locals w: both
\* ids name records; each side's text is of that side's own chunk, and its span cut from
\* it; and past the gate the verdict was given on these very spans.
Found(s, p, w) ==
  /\ s # "idle" => p \in Payload
  /\ s \notin {"idle", "get_records"} => p.a \in Names /\ p.b \in Names
  /\ s \in {"load_b", "judge", "event", "insert"} =>
       w.textA \in Texts /\ w.textA[1] = Source(p.a)
  /\ s \in {"judge", "event", "insert"} =>
       /\ w.textB \in Texts /\ w.textB[1] = Source(p.b)
       /\ w.spanA = SliceOf[w.textA][p.offA] /\ w.spanB = SliceOf[w.textB][p.offB]
  /\ s \in {"event", "insert"} =>
       /\ Gate(p.tier, w.verdict) # "reject"
       /\ w.verdict = "grounded" => <<p.relation, w.spanA, w.spanB>> \in Relates

CallInv ==
  /\ corpus \in [Chunks -> Versions \cup {Gone}]
  /\ stage \in [Callers -> Stages]
  /\ call \in [Callers -> Payload \cup {None}]
  /\ work \in [Callers -> Work]
  /\ \A c \in Callers : Found(stage[c], call[c], work[c])

LinkInv ==
  /\ \A l \in links : {l.a, l.b} \subseteq Records /\ l.event \in Names \cup {None}
  /\ givenUp \subseteq SUBSET Names
  /\ FactLinksAreSupported
  /\ LinkAttestationsAreCoherent

\* Pairs of records judged the same event, those of calls past the gate among them.
Pending == {c \in Callers : stage[c] \in {"event", "insert"} /\ call[c].relation = "same_event"}
Evidence == Judged \cup {{RecordOf[call[c].a], RecordOf[call[c].b]} : c \in Pending}
Closed(S) == \A pair \in Evidence : pair \cap S # {} => pair \subseteq S

\* The clusters that the calls of materialize so far call for have evidence: this holds
\* while calls are under way, which EventsAreBackedByLinks does not.
Backed ==
  \A r, s \in Records : s \in grounded[r] =>
    \A S \in SUBSET Records : r \in S /\ Closed(S) => s \in S

\* materialize runs for a caller exactly while its link call waits for it.
Nested == \A c \in Callers : pc[c] # "idle" <=> stage[c] = "event"

EventInv == EventFacts!SoundInv /\ Nested /\ Backed

Inv == CallInv /\ LinkInv /\ EventInv


-----------------------------------------------------------------------------
(* The calls.                                                              *)

(* A call that is over leaves the others what they were. *)
LEMMA IdleKeeps ==
  ASSUME CallInv, NEW c \in Callers, NEW reply, Idle(c, reply), UNCHANGED corpus
  PROVE  CallInv'
<1>1. NoWork \in Work
  BY DEF NoWork, Work
<1>2. /\ stage' \in [Callers -> Stages] /\ call' \in [Callers -> Payload \cup {None}]
      /\ work' \in [Callers -> Work]
  BY <1>1 DEF CallInv, Idle, Stages
<1>3. ASSUME NEW d \in Callers PROVE Found(stage'[d], call'[d], work'[d])
  <2>1. CASE d = c
    BY <2>1 DEF Idle, CallInv, Found
  <2>2. CASE d # c
    BY <2>2 DEF Idle, CallInv
  <2> QED BY <2>1, <2>2
<1> QED BY <1>2, <1>3 DEF CallInv, Found

(* A call that goes on has found out what its next step stands on. *)
LEMMA GotoKeeps ==
  ASSUME CallInv, NEW c \in Callers, NEW s \in Stages, NEW w \in Work, Goto(c, s, w),
         Found(s, call[c], w), UNCHANGED corpus
  PROVE  CallInv'
<1>1. stage' \in [Callers -> Stages] /\ work' \in [Callers -> Work] /\ call' = call
  BY DEF CallInv, Goto
<1>2. ASSUME NEW d \in Callers PROVE Found(stage'[d], call'[d], work'[d])
  <2>1. CASE d = c
    BY <2>1, <1>1 DEF Goto, CallInv
  <2>2. CASE d # c
    BY <2>2, <1>1 DEF Goto, CallInv
  <2> QED BY <2>1, <2>2
<1> QED BY <1>1, <1>2 DEF CallInv, Found

(* What a caller at work has in hand. *)
LEMMA InHand ==
  ASSUME CallInv, NEW c \in Callers, stage[c] # "idle"
  PROVE  /\ call[c] \in Payload /\ work[c] \in Work
         /\ call[c].a \in Names \cup Mangled /\ call[c].b \in Names \cup Mangled
         /\ call[c].offA \in Offsets /\ call[c].offB \in Offsets
         /\ call[c].relation \in Relations /\ call[c].tier \in Tiers
         /\ Found(stage[c], call[c], work[c])
BY DEF CallInv, Found, Payload

(* The chunk of a name is a chunk, and its text, while it is there, a text. *)
LEMMA SourceText ==
  ASSUME CallInv, NEW n \in Names, corpus[Source(n)] # Gone
  PROVE  /\ <<Source(n), corpus[Source(n)]>> \in Texts
         /\ <<Source(n), corpus[Source(n)]>>[1] = Source(n)
BY ChunkOfAssumption, LinkTextsAssumption DEF CallInv, Source

(* _validate and the two SELECTs of the records. *)
LEMMA ProposeCalls ==
  ASSUME CallInv, NEW c \in Callers, NEW p \in Payload, Propose(c, p)
  PROVE  CallInv'
<1>1. CASE p.a = p.b
  BY <1>1, IdleKeeps DEF Propose
<1>2. CASE p.a # p.b
  <2>1. /\ stage' = [stage EXCEPT ![c] = "get_records"] /\ call' = [call EXCEPT ![c] = p]
        /\ work' = work /\ corpus' = corpus
    BY <1>2 DEF Propose
  <2>2. ASSUME NEW d \in Callers PROVE Found(stage'[d], call'[d], work'[d])
    <3>1. CASE d = c
      BY <3>1, <2>1 DEF CallInv, Found
    <3>2. CASE d # c
      BY <3>2, <2>1 DEF CallInv
    <3> QED BY <3>1, <3>2
  <2>3. /\ stage' \in [Callers -> Stages] /\ call' \in [Callers -> Payload \cup {None}]
        /\ work' \in [Callers -> Work]
    BY <2>1 DEF CallInv, Stages
  <2> QED BY <2>1, <2>2, <2>3 DEF CallInv, Found
<1> QED BY <1>1, <1>2

LEMMA GetRecordsCalls ==
  ASSUME CallInv, NEW c \in Callers, GetRecords(c)
  PROVE  CallInv'
<1>1. CASE {call[c].a, call[c].b} \subseteq Names
  <2>1. Goto(c, "load_a", work[c]) /\ stage[c] = "get_records" /\ UNCHANGED corpus
    BY <1>1 DEF GetRecords
  <2>2. Found("load_a", call[c], work[c])
    BY <1>1, <2>1, InHand DEF Found
  <2> QED BY <2>1, <2>2, InHand, GotoKeeps DEF Stages
<1>2. CASE ~ ({call[c].a, call[c].b} \subseteq Names)
  BY <1>2, IdleKeeps DEF GetRecords
<1> QED BY <1>1, <1>2

(* The two loads, and the two cuts: each text and span is its own side's. *)
LEMMA LoadACalls ==
  ASSUME CallInv, NEW c \in Callers, LoadA(c)
  PROVE  CallInv'
<1>1. PICK k : k = Source(call[c].a)
  OBVIOUS
<1>2. stage[c] = "load_a" /\ UNCHANGED corpus
  BY DEF LoadA
<1>3. CASE corpus[k] = Gone
  BY <1>1, <1>2, <1>3, IdleKeeps DEF LoadA
<1>4. CASE corpus[k] # Gone
  <2>1. PICK w : w = [work[c] EXCEPT !.textA = <<k, corpus[k]>>]
    OBVIOUS
  <2>2. Goto(c, "load_b", w)
    BY <1>1, <1>4, <2>1 DEF LoadA
  <2>3. call[c].a \in Names /\ call[c].b \in Names
    BY <1>2, InHand DEF Found
  <2>4. <<k, corpus[k]>> \in Texts /\ <<k, corpus[k]>>[1] = k
    BY <1>1, <1>4, <2>3, SourceText
  <2>5. w \in Work /\ w.textA = <<k, corpus[k]>>
    BY <1>2, <2>1, <2>4, InHand DEF Work
  <2>6. Found("load_b", call[c], w)
    BY <1>1, <1>2, <2>3, <2>4, <2>5, InHand DEF Found
  <2> QED BY <1>2, <2>2, <2>5, <2>6, GotoKeeps DEF Stages
<1> QED BY <1>3, <1>4

LEMMA LoadBCalls ==
  ASSUME CallInv, NEW c \in Callers, LoadB(c)
  PROVE  CallInv'
<1>1. PICK k : k = Source(call[c].b)
  OBVIOUS
<1>2. PICK text : text = <<k, corpus[k]>>
  OBVIOUS
<1>3. PICK spanA, spanB : /\ spanA = SliceOf[work[c].textA][call[c].offA]
                          /\ spanB = SliceOf[text][call[c].offB]
  OBVIOUS
<1>4. stage[c] = "load_b" /\ UNCHANGED corpus
  BY DEF LoadB
<1>5. CASE corpus[k] = Gone
  BY <1>1, <1>4, <1>5, IdleKeeps DEF LoadB
<1>6. CASE corpus[k] # Gone /\ SliceError(spanA) # ""
  BY <1>1, <1>2, <1>3, <1>4, <1>6, IdleKeeps DEF LoadB
<1>7. CASE corpus[k] # Gone /\ SliceError(spanA) = "" /\ SliceError(spanB) # ""
  BY <1>1, <1>2, <1>3, <1>4, <1>7, IdleKeeps DEF LoadB
<1>8. CASE corpus[k] # Gone /\ SliceError(spanA) = "" /\ SliceError(spanB) = ""
  <2>1. PICK w : w = [work[c] EXCEPT !.textB = text, !.spanA = spanA, !.spanB = spanB]
    OBVIOUS
  <2>2. Goto(c, "judge", w)
    BY <1>1, <1>2, <1>3, <1>8, <2>1 DEF LoadB
  <2>3. call[c].a \in Names /\ call[c].b \in Names
    BY <1>4, InHand DEF Found
  <2>4. text \in Texts /\ text[1] = k
    BY <1>1, <1>2, <1>8, <2>3, SourceText
  <2>5. work[c].textA \in Texts /\ work[c].textA[1] = Source(call[c].a)
    BY <1>4, InHand DEF Found
  <2>6. spanA \in Spans /\ spanB \in Spans
    BY <1>3, <1>4, <1>8, <2>4, <2>5, InHand, SliceAssumption DEF SliceError
  <2>7. /\ w \in Work /\ w.textB = text /\ w.spanA = spanA /\ w.spanB = spanB
        /\ w.textA = work[c].textA
    BY <1>4, <2>1, <2>4, <2>6, InHand DEF Work
  <2>8. Found("judge", call[c], w)
    BY <1>1, <1>3, <1>4, <2>3, <2>4, <2>5, <2>7, InHand DEF Found
  <2> QED BY <1>4, <2>2, <2>7, <2>8, GotoKeeps DEF Stages
<1> QED BY <1>5, <1>6, <1>7, <1>8

(* Past the judge the verdict is one of the very spans the Link will hash. *)
LEMMA JudgedCalls ==
  ASSUME CallInv, NEW c \in Callers, stage[c] = "judge", NEW v \in Rulings(c),
         Gate(call[c].tier, v) # "reject", NEW s \in {"event", "insert"},
         Goto(c, s, [work[c] EXCEPT !.verdict = v]), UNCHANGED corpus
  PROVE  CallInv'
<1>1. PICK w : w = [work[c] EXCEPT !.verdict = v]
  OBVIOUS
<1>2. /\ w \in Work /\ w.verdict = v /\ w.spanA = work[c].spanA /\ w.spanB = work[c].spanB
      /\ w.textA = work[c].textA /\ w.textB = work[c].textB
  BY <1>1, InHand DEF Work, Rulings
<1>3. Found("judge", call[c], w)
  BY <1>2, InHand DEF Found
<1>4. Found(s, call[c], w)
  BY <1>2, <1>3 DEF Found, Rulings
<1> QED BY <1>1, <1>2, <1>4, GotoKeeps DEF Stages

LEMMA JudgeRelationCalls ==
  ASSUME CallInv, NEW c \in Callers, JudgeRelation(c)
  PROVE  CallInv'
<1>1. CASE Idle(c, "judge_unavailable") \/ Idle(c, "ungrounded_relation")
  BY <1>1, IdleKeeps DEF JudgeRelation
<1>2. CASE \E v \in Rulings(c) : \E s \in {"event", "insert"} :
             Gate(call[c].tier, v) # "reject" /\ Goto(c, s, [work[c] EXCEPT !.verdict = v])
  BY <1>2, JudgedCalls DEF JudgeRelation
<1> QED BY <1>1, <1>2 DEF JudgeRelation

(* What a statement of materialize leaves alone. *)
LEMMA StepFrame ==
  ASSUME EventFacts!TypeOK, NEW c \in Callers, Events!Step(c)
  PROVE  /\ grounded' = grounded
         /\ \A d \in Callers \ {c} : pc'[d] = pc[d]
BY DEF EventFacts!TypeOK, Events!Step, Events!FindA, Events!FindB, Events!Create,
       Events!AddMember, Events!MergeSet, Events!MergeMark, Events!Return, Events!End

(* The event that materialize hands back has a name. *)
LEMMA EventStepCalls ==
  ASSUME CallInv, EventFacts!TypeOK', NEW c \in Callers, EventStep(c)
  PROVE  CallInv'
<1>1. stage[c] = "event" /\ UNCHANGED corpus
  BY DEF EventStep
<1>2. CASE pc'[c] # "idle"
  BY <1>1, <1>2 DEF EventStep, callVars, CallInv, Found
<1>3. CASE \E r \in returned' : Goto(c, "insert", [work[c] EXCEPT !.event = r.event])
  <2>1. PICK r \in returned' : Goto(c, "insert", [work[c] EXCEPT !.event = r.event])
    BY <1>3
  <2>2. PICK w : w = [work[c] EXCEPT !.event = r.event]
    OBVIOUS
  <2>3. r.event \in Names
    BY DEF EventFacts!TypeOK, EventFacts!Link
  <2>4. /\ w \in Work /\ w.verdict = work[c].verdict
        /\ w.spanA = work[c].spanA /\ w.spanB = work[c].spanB
        /\ w.textA = work[c].textA /\ w.textB = work[c].textB
    BY <1>1, <2>2, <2>3, InHand DEF Work
  <2>5. Found("insert", call[c], w)
    BY <1>1, <2>4, InHand DEF Found
  <2> QED BY <1>1, <2>1, <2>2, <2>4, <2>5, GotoKeeps DEF Stages
<1>4. CASE GiveUp(c)
  BY <1>1, <1>4, IdleKeeps DEF GiveUp
<1> QED BY <1>2, <1>3, <1>4 DEF EventStep

LEMMA InsertLinkCalls ==
  ASSUME CallInv, NEW c \in Callers, InsertLink(c)
  PROVE  CallInv'
<1>1. UNCHANGED corpus /\ (Idle(c, "ok") \/ Idle(c, "raised"))
  BY DEF InsertLink, GiveUp
<1> QED BY <1>1, IdleKeeps

(* No edit of the corpus reaches what a call has already loaded. *)
LEMMA EditCorpusCalls ==
  ASSUME CallInv, NEW k \in Chunks, EditCorpus(k)
  PROVE  CallInv'
<1>1. corpus' \in [Chunks -> Versions \cup {Gone}]
  BY DEF CallInv, EditCorpus
<1> QED BY <1>1 DEF CallInv, Found, EditCorpus, callVars

-----------------------------------------------------------------------------
(* The Links.                                                              *)

(* The Link that is about to be stored is supported and coherent. *)
LEMMA NewLinkSound ==
  ASSUME CallInv, NEW c \in Callers, stage[c] = "insert"
  PROVE  /\ {NewLink(c).a, NewLink(c).b} \subseteq Records
         /\ NewLink(c).event \in Names \cup {None}
         /\ Supported(NewLink(c)) /\ Coherent(NewLink(c))
<1>1. PICK p, w : p = call[c] /\ w = work[c]
  OBVIOUS
<1>2. PICK l : l = NewLink(c)
  OBVIOUS
<1>3. /\ l.a = RecordOf[p.a] /\ l.b = RecordOf[p.b] /\ l.relation = p.relation
      /\ l.tier = p.tier /\ l.offA = p.offA /\ l.offB = p.offB /\ l.event = w.event
      /\ l.attested.hashes.spanA = w.spanA /\ l.attested.hashes.spanB = w.spanB
      /\ l.attested.hashes.sourceA = w.textA /\ l.attested.hashes.sourceB = w.textB
  BY <1>1, <1>2 DEF NewLink, Attestation
<1>4. l.flagged = (Gate(p.tier, w.verdict) = "flag")
  BY <1>1, <1>2 DEF NewLink
<1>5. Found("insert", p, w) /\ w \in Work
  BY <1>1, InHand
<1>6. {l.a, l.b} \subseteq Records /\ l.event \in Names \cup {None}
  <2>1. p.a \in Names /\ p.b \in Names
    BY <1>5 DEF Found
  <2>2. w.event \in Names \cup {None}
    BY <1>5 DEF Work
  <2> QED BY <2>1, <2>2, <1>3
<1>7. Supported(l)
  <2> SUFFICES ASSUME l.tier = "fact"
               PROVE  <<l.relation, w.spanA, w.spanB>> \in Relates /\ ~ l.flagged
    BY <1>3 DEF Supported
  <2>1. w.verdict = "grounded" /\ Gate(p.tier, w.verdict) = "accept"
    BY <1>3, <1>5 DEF Found, Gate
  <2> QED BY <2>1, <1>3, <1>4, <1>5 DEF Found
<1>8. Coherent(l)
  BY <1>3, <1>5 DEF Coherent, Found, Source
<1> QED BY <1>2, <1>6, <1>7, <1>8

(* A step that stores no Link and gives no well-named call up wrongly. *)
LEMMA LinksKept ==
  ASSUME LinkInv, links' = links, givenUp' \subseteq SUBSET Names
  PROVE  LinkInv'
BY DEF LinkInv, FactLinksAreSupported, LinkAttestationsAreCoherent, Supported, Coherent

(* Only calls past the gate are given up, and those have two record ids. *)
LEMMA GiveUpNames ==
  ASSUME CallInv, LinkInv, NEW c \in Callers, GiveUp(c)
  PROVE  givenUp' \subseteq SUBSET Names
<1>1. stage[c] \in {"event", "insert"} => call[c].a \in Names /\ call[c].b \in Names
  BY InHand DEF Found
<1> QED BY <1>1 DEF GiveUp, LinkInv

LEMMA InsertLinkLinks ==
  ASSUME CallInv, LinkInv, NEW c \in Callers, InsertLink(c)
  PROVE  LinkInv'
<1>1. CASE RecordOf[call[c].a] = RecordOf[call[c].b]
  BY <1>1, GiveUpNames, LinksKept DEF InsertLink
<1>2. CASE RecordOf[call[c].a] # RecordOf[call[c].b]
  <2>1. links' = links \cup {NewLink(c)} /\ givenUp' = givenUp /\ stage[c] = "insert"
    BY <1>2 DEF InsertLink, faultVars
  <2>2. \A l \in links' : /\ {l.a, l.b} \subseteq Records /\ l.event \in Names \cup {None}
                          /\ Supported(l) /\ Coherent(l)
    BY <2>1, NewLinkSound DEF LinkInv, FactLinksAreSupported, LinkAttestationsAreCoherent
  <2> QED BY <2>1, <2>2 DEF LinkInv, FactLinksAreSupported, LinkAttestationsAreCoherent,
                            Supported, Coherent
<1> QED BY <1>1, <1>2

-----------------------------------------------------------------------------
(* The Events.                                                             *)

(* Names of a pair, and the records they stand for. *)
LEMMA RecordsOfPair ==
  ASSUME NEW a, NEW b
  PROVE  {RecordOf[n] : n \in {a, b}} = {RecordOf[a], RecordOf[b]}
OBVIOUS

(* Evidence is never lost: Links and pairs given up stay, and a call past  *)
(* the gate keeps its two records in evidence until one of them has them.  *)
LEMMA EvidenceStays ==
  ASSUME links \subseteq links', givenUp \subseteq givenUp',
         \A d \in Pending : \/ d \in Pending' /\ call'[d] = call[d]
                            \/ {RecordOf[call[d].a], RecordOf[call[d].b]} \in Judged'
  PROVE  Evidence \subseteq Evidence'
<1>1. Judged \subseteq Judged'
  BY DEF Judged
<1>2. ASSUME NEW d \in Pending
      PROVE  {RecordOf[call[d].a], RecordOf[call[d].b]} \in Evidence'
  BY <1>2 DEF Evidence
<1> QED BY <1>1, <1>2 DEF Evidence

(* More evidence backs what less did. *)
LEMMA BackedStays ==
  ASSUME Backed, UNCHANGED grounded, Evidence \subseteq Evidence'
  PROVE  Backed'
BY DEF Backed, Closed

(* A call that was not past the gate was no evidence. *)
LEMMA QuietStep ==
  ASSUME CallInv, NEW c \in Callers, stage[c] \notin {"event", "insert"},
         \A d \in Callers \ {c} : stage'[d] = stage[d] /\ call'[d] = call[d],
         UNCHANGED <<links, givenUp>>
  PROVE  Evidence \subseteq Evidence'
<1>1. \A d \in Pending : d \in Pending' /\ call'[d] = call[d]
  BY DEF Pending
<1> QED BY <1>1, EvidenceStays

(* A call that goes on is evidence as before. *)
LEMMA OnwardStep ==
  ASSUME CallInv, NEW c \in Callers, stage'[c] \in {"event", "insert"}, call' = call,
         \A d \in Callers \ {c} : stage'[d] = stage[d],
         UNCHANGED <<links, givenUp>>
  PROVE  Evidence \subseteq Evidence'
<1>1. \A d \in Pending : d \in Pending' /\ call'[d] = call[d]
  BY DEF Pending
<1> QED BY <1>1, EvidenceStays

(* A call given up leaves its pair behind. *)
LEMMA GivenUpStep ==
  ASSUME CallInv, NEW c \in Callers, GiveUp(c), UNCHANGED links
  PROVE  Evidence \subseteq Evidence'
<1>1. \A d \in Pending \ {c} : d \in Pending' /\ call'[d] = call[d]
  BY DEF Pending, GiveUp, Idle, CallInv
<1>2. c \in Pending => {RecordOf[call[c].a], RecordOf[call[c].b]} \in Judged'
  <2> SUFFICES ASSUME c \in Pending PROVE {RecordOf[call[c].a], RecordOf[call[c].b]} \in Judged'
    OBVIOUS
  <2>1. {call[c].a, call[c].b} \in givenUp'
    BY DEF Pending, GiveUp
  <2>2. {RecordOf[n] : n \in {call[c].a, call[c].b}} \in Judged'
    BY <2>1 DEF Judged
  <2> QED BY <2>2, RecordsOfPair
<1>3. givenUp \subseteq givenUp'
  BY DEF GiveUp
<1> QED BY <1>1, <1>2, <1>3, EvidenceStays

(* So does a call whose Link is stored. *)
LEMMA StoredStep ==
  ASSUME CallInv, NEW c \in Callers, NEW reply, Idle(c, reply),
         links' = links \cup {NewLink(c)}, UNCHANGED givenUp
  PROVE  Evidence \subseteq Evidence'
<1>1. \A d \in Pending \ {c} : d \in Pending' /\ call'[d] = call[d]
  BY DEF Pending, Idle, CallInv
<1>2. c \in Pending => {RecordOf[call[c].a], RecordOf[call[c].b]} \in Judged'
  <2> SUFFICES ASSUME c \in Pending PROVE {RecordOf[call[c].a], RecordOf[call[c].b]} \in Judged'
    OBVIOUS
  <2>1. PICK l \in links' : l = NewLink(c)
    OBVIOUS
  <2>2. l.relation = "same_event" /\ l.a = RecordOf[call[c].a] /\ l.b = RecordOf[call[c].b]
    BY <2>1 DEF NewLink, Pending
  <2>3. {l.a, l.b} \in Judged'
    BY <2>2 DEF Judged
  <2> QED BY <2>2, <2>3
<1> QED BY <1>1, <1>2, EvidenceStays

(* A grounded assertion merges two clusters, and is itself the evidence    *)
(* that connects them: a closed set with a record of the one holds the     *)
(* record asserted on that side, hence the other, hence the other cluster. *)
LEMMA AssertedIsBacked ==
  ASSUME Backed, EventFacts!SoundInv, NEW ra \in Records, NEW rb \in Records,
         EventFacts!Truth!Assert(ra, rb), Evidence \subseteq Evidence', {ra, rb} \in Evidence'
  PROVE  Backed'
<1>1. /\ \A r \in Records : r \in grounded[r] /\ \A s \in grounded[r] : grounded[s] = grounded[r]
      /\ grounded \in [Records -> SUBSET Records]
  BY EventFacts!SoundFacts DEF EventFacts!Truth!IsPartition, EventFacts!TypeOK
<1>2. PICK joined : joined = grounded[ra] \cup grounded[rb]
  OBVIOUS
<1>3. \A r \in Records : grounded'[r] = IF r \in joined THEN joined ELSE grounded[r]
  BY <1>2 DEF EventFacts!Truth!Assert
<1>4. SUFFICES ASSUME NEW r \in Records, NEW s \in Records, s \in grounded'[r],
                      NEW S \in SUBSET Records, r \in S, Closed(S)'
               PROVE  s \in S
  BY DEF Backed
<1>5. Closed(S)
  BY <1>4 DEF Closed
<1>6. ASSUME NEW q \in S, NEW t \in grounded[q] PROVE t \in S
  BY <1>1, <1>5, <1>6 DEF Backed
<1>7. ra \in S <=> rb \in S
  BY <1>4 DEF Closed
<1>8. CASE r \in joined
  <2>1. ra \in S \/ rb \in S
    BY <1>1, <1>2, <1>4, <1>6, <1>8
  <2>2. s \in joined
    BY <1>3, <1>4, <1>8
  <2> QED BY <1>2, <1>6, <1>7, <2>1, <2>2
<1>9. CASE r \notin joined
  BY <1>3, <1>4, <1>6, <1>9
<1> QED BY <1>8, <1>9

(* A step that calls no statement of materialize. *)
LEMMA EventsUntouched ==
  ASSUME EventInv, returned' \subseteq returned,
         UNCHANGED <<born, members, mergedInto, pc, job, clashes, calls, grounded>>,
         \A d \in Callers : stage'[d] = "event" <=> stage[d] = "event",
         Evidence \subseteq Evidence'
  PROVE  EventInv'
<1>1. EventFacts!SoundInv'
  BY EventFacts!ForgottenSound DEF EventInv
<1>2. Nested' /\ Backed'
  BY BackedStays DEF EventInv, Nested
<1> QED BY <1>1, <1>2 DEF EventInv

(* A step of one call that stands before the gate, and stays there or ends. *)
LEMMA BeforeTheGate ==
  ASSUME CallInv, EventInv, NEW c \in Callers, stage[c] \notin {"event", "insert"},
         stage'[c] # "event",
         \A d \in Callers \ {c} : stage'[d] = stage[d] /\ call'[d] = call[d],
         UNCHANGED <<links, givenUp, eventVars>>
  PROVE  EventInv'
<1>1. Evidence \subseteq Evidence'
  BY QuietStep
<1>2. \A d \in Callers : stage'[d] = "event" <=> stage[d] = "event"
  OBVIOUS
<1> QED BY <1>1, <1>2, EventsUntouched DEF eventVars

LEMMA ProposeEvents ==
  ASSUME CallInv, EventInv, NEW c \in Callers, NEW p \in Payload, Propose(c, p)
  PROVE  EventInv'
<1>1. /\ stage[c] \notin {"event", "insert"} /\ stage'[c] # "event"
      /\ \A d \in Callers \ {c} : stage'[d] = stage[d] /\ call'[d] = call[d]
      /\ UNCHANGED <<links, givenUp, eventVars>>
  BY DEF Propose, Idle, CallInv, faultVars
<1> QED BY <1>1, BeforeTheGate

LEMMA GetRecordsEvents ==
  ASSUME CallInv, EventInv, NEW c \in Callers, GetRecords(c)
  PROVE  EventInv'
<1>1. /\ stage[c] \notin {"event", "insert"} /\ stage'[c] # "event"
      /\ \A d \in Callers \ {c} : stage'[d] = stage[d] /\ call'[d] = call[d]
      /\ UNCHANGED <<links, givenUp, eventVars>>
  BY DEF GetRecords, Idle, Goto, CallInv, faultVars
<1> QED BY <1>1, BeforeTheGate

LEMMA LoadEvents ==
  ASSUME CallInv, EventInv, NEW c \in Callers, LoadA(c) \/ LoadB(c)
  PROVE  EventInv'
<1>1. /\ \/ \E reply : Idle(c, reply)
         \/ \E w : \E s \in {"load_b", "judge"} : Goto(c, s, w)
      /\ stage[c] \notin {"event", "insert"}
      /\ UNCHANGED <<links, givenUp, eventVars>>
  BY DEF LoadA, LoadB, faultVars
<1>2. /\ stage'[c] # "event"
      /\ \A d \in Callers \ {c} : stage'[d] = stage[d] /\ call'[d] = call[d]
  BY <1>1 DEF Idle, Goto, CallInv
<1> QED BY <1>1, <1>2, BeforeTheGate

(* Past the gate a same_event asserts the two records into one cluster; the *)
(* call itself is the evidence until its Link is stored.                   *)
LEMMA EventCalled ==
  ASSUME CallInv, EventInv, NEW c \in Callers, stage[c] = "judge", NEW w,
         call[c].relation = "same_event", Goto(c, "event", w),
         Events!Call(c, call[c].a, call[c].b), UNCHANGED <<links, givenUp>>
  PROVE  EventInv'
<1>1. PICK a, b : a = call[c].a /\ b = call[c].b
  OBVIOUS
<1>2. a \in Names /\ b \in Names /\ RecordOf[a] \in Records /\ RecordOf[b] \in Records
  BY <1>1, InHand DEF Found
<1>3. EventFacts!Call(c, a, b)
  BY <1>1, SameCall
<1>4. EventFacts!SoundInv'
  BY <1>2, <1>3, EventFacts!CallSound DEF EventInv
<1>5. /\ stage'[c] = "event" /\ call' = call /\ pc'[c] = "find_a"
      /\ \A d \in Callers \ {c} : stage'[d] = stage[d] /\ pc'[d] = pc[d]
  <2>1. pc \in [Callers -> EventFacts!Steps]
    BY EventFacts!SoundFacts DEF EventInv, EventFacts!TypeOK
  <2> QED BY <2>1 DEF Goto, CallInv, Events!Call
<1>6. Nested'
  BY <1>5 DEF EventInv, Nested
<1>7. Evidence \subseteq Evidence'
  BY <1>5, OnwardStep
<1>8. {RecordOf[a], RecordOf[b]} \in Evidence'
  <2>1. c \in Pending'
    BY <1>5 DEF Pending
  <2> QED BY <1>1, <1>5, <2>1 DEF Evidence
<1>9. EventFacts!Truth!Assert(RecordOf[a], RecordOf[b])
  BY <1>3 DEF EventFacts!Call
<1>10. Backed'
  BY <1>2, <1>7, <1>8, <1>9, AssertedIsBacked DEF EventInv
<1> QED BY <1>4, <1>6, <1>10 DEF EventInv

LEMMA JudgeRelationEvents ==
  ASSUME CallInv, EventInv, NEW c \in Callers, JudgeRelation(c)
  PROVE  EventInv'
<1>1. stage[c] = "judge" /\ UNCHANGED <<links, givenUp>>
  BY DEF JudgeRelation, faultVars
<1>2. CASE UNCHANGED eventVars
           /\ ((\E reply : Idle(c, reply)) \/ (\E w : Goto(c, "insert", w)))
  <2>1. /\ stage'[c] # "event"
        /\ \A d \in Callers \ {c} : stage'[d] = stage[d] /\ call'[d] = call[d]
    BY <1>2 DEF Idle, Goto, CallInv
  <2> QED BY <1>1, <1>2, <2>1, BeforeTheGate
<1>3. CASE \E w : /\ call[c].relation = "same_event" /\ Goto(c, "event", w)
                 /\ Events!Call(c, call[c].a, call[c].b)
  BY <1>1, <1>3, EventCalled
<1> QED BY <1>2, <1>3 DEF JudgeRelation

(* A statement of materialize disturbs neither truth nor evidence. *)
LEMMA EventStepEvents ==
  ASSUME CallInv, EventInv, NEW c \in Callers, EventStep(c)
  PROVE  EventInv'
<1>1. Events!Step(c) /\ stage[c] = "event" /\ UNCHANGED links
  BY DEF EventStep
<1>2. EventFacts!SoundInv'
  BY <1>1, SameStep, EventFacts!StepSound DEF EventInv
<1>3. grounded' = grounded /\ \A d \in Callers \ {c} : pc'[d] = pc[d]
  BY <1>1, StepFrame, EventFacts!SoundFacts DEF EventInv
<1>4. CASE pc'[c] # "idle" /\ UNCHANGED <<callVars, givenUp>>
  <2>1. Evidence \subseteq Evidence'
    BY <1>1, <1>4, OnwardStep DEF callVars
  <2>2. Nested'
    BY <1>1, <1>3, <1>4 DEF EventInv, Nested, callVars
  <2> QED BY <1>2, <1>3, <2>1, <2>2, BackedStays DEF EventInv
<1>5. CASE pc'[c] = "idle" /\ UNCHANGED givenUp /\ \E w : Goto(c, "insert", w)
  <2>1. /\ stage'[c] = "insert" /\ call' = call
        /\ \A d \in Callers \ {c} : stage'[d] = stage[d]
    BY <1>5 DEF Goto, CallInv
  <2>2. Evidence \subseteq Evidence'
    BY <1>1, <1>5, <2>1, OnwardStep
  <2>3. Nested'
    BY <1>3, <1>5, <2>1 DEF EventInv, Nested
  <2> QED BY <1>2, <1>3, <2>2, <2>3, BackedStays DEF EventInv
<1>6. CASE pc'[c] = "idle" /\ GiveUp(c)
  <2>1. Evidence \subseteq Evidence'
    BY <1>1, <1>6, GivenUpStep
  <2>2. Nested'
    BY <1>3, <1>6 DEF EventInv, Nested, GiveUp, Idle, CallInv
  <2> QED BY <1>2, <1>3, <2>1, <2>2, BackedStays DEF EventInv
<1> QED BY <1>4, <1>5, <1>6 DEF EventStep

(* The INSERT, refused or not, turns a call into a Link or a pair given up. *)
LEMMA InsertLinkEvents ==
  ASSUME CallInv, EventInv, NEW c \in Callers, InsertLink(c)
  PROVE  EventInv'
<1>1. /\ stage[c] = "insert" /\ returned' \subseteq returned
      /\ UNCHANGED <<born, members, mergedInto, pc, job, clashes, calls, grounded>>
  BY DEF InsertLink, Forget
<1>2. \E reply : Idle(c, reply)
  BY DEF InsertLink, GiveUp
<1>3. \A d \in Callers : stage'[d] = "event" <=> stage[d] = "event"
  BY <1>1, <1>2 DEF Idle, CallInv
<1>4. Evidence \subseteq Evidence'
  <2>1. CASE GiveUp(c) /\ UNCHANGED links
    BY <2>1, GivenUpStep
  <2>2. CASE links' = links \cup {NewLink(c)} /\ UNCHANGED givenUp
    BY <1>2, <2>2, StoredStep
  <2> QED BY <2>1, <2>2 DEF InsertLink, faultVars
<1> QED BY <1>1, <1>3, <1>4, EventsUntouched

(* Wherever a call is aborted, nothing it did is taken back. *)
LEMMA AbortEvents ==
  ASSUME CallInv, EventInv, NEW c \in Callers, Abort(c)
  PROVE  EventInv'
<1>1. /\ GiveUp(c) /\ UNCHANGED links /\ EventFacts!End(c) /\ returned' \subseteq returned
      /\ UNCHANGED <<born, members, mergedInto, clashes, calls, grounded>>
  BY SameEnd DEF Abort, Forget
<1>2. EventFacts!SoundInv'
  BY <1>1, EventFacts!EndedEarlySound DEF EventInv
<1>3. Backed'
  BY <1>1, GivenUpStep, BackedStays DEF EventInv
<1>4. Nested'
  <2>1. pc \in [Callers -> EventFacts!Steps]
    BY EventFacts!SoundFacts DEF EventInv, EventFacts!TypeOK
  <2> QED BY <1>1, <2>1 DEF EventInv, Nested, GiveUp, Idle, CallInv, EventFacts!End
<1> QED BY <1>2, <1>3, <1>4 DEF EventInv

-----------------------------------------------------------------------------
(* The theorems.                                                           *)

LEMMA InitInv == Init => Inv
<1> SUFFICES ASSUME Init PROVE Inv
  OBVIOUS
<1>1. CallInv
  <2>1. NoWork \in Work
    BY DEF NoWork, Work
  <2> QED BY <2>1, LinkTextsAssumption DEF Init, CallInv, Found, Stages
<1>2. LinkInv
  BY DEF Init, LinkInv, FactLinksAreSupported, LinkAttestationsAreCoherent
<1>3. EventFacts!SoundInv
  BY SameInit, EventFacts!InitSound DEF Init
<1>4. Nested /\ Backed
  BY DEF Init, Nested, Backed, Events!Init, Events!Truth!Init
<1> QED BY <1>1, <1>2, <1>3, <1>4 DEF Inv, EventInv

(* Steps that store no Link. *)
LEMMA OtherLinks ==
  ASSUME CallInv, LinkInv, NEW c \in Callers,
         \/ \E p \in Payload : Propose(c, p)
         \/ GetRecords(c) \/ LoadA(c) \/ LoadB(c) \/ JudgeRelation(c)
         \/ EventStep(c) \/ Abort(c)
  PROVE  LinkInv'
<1>1. links' = links /\ (givenUp' = givenUp \/ GiveUp(c))
  BY DEF Propose, GetRecords, LoadA, LoadB, JudgeRelation, EventStep, Abort, faultVars
<1>2. givenUp' \subseteq SUBSET Names
  BY <1>1, GiveUpNames DEF LinkInv
<1> QED BY <1>1, <1>2, LinksKept

LEMMA StepInv ==
  ASSUME Inv, NEW c \in Callers, Step(c)
  PROVE  Inv'
<1>1. CASE GetRecords(c)
  BY <1>1, GetRecordsCalls, GetRecordsEvents, OtherLinks DEF Inv
<1>2. CASE LoadA(c)
  BY <1>2, LoadACalls, LoadEvents, OtherLinks DEF Inv
<1>3. CASE LoadB(c)
  BY <1>3, LoadBCalls, LoadEvents, OtherLinks DEF Inv
<1>4. CASE JudgeRelation(c)
  BY <1>4, JudgeRelationCalls, JudgeRelationEvents, OtherLinks DEF Inv
<1>5. CASE EventStep(c)
  <2>1. EventInv'
    BY <1>5, EventStepEvents DEF Inv
  <2>2. EventFacts!TypeOK'
    BY <2>1 DEF EventInv, EventFacts!SoundInv, EventFacts!TypeInv
  <2> QED BY <1>5, <2>1, <2>2, EventStepCalls, OtherLinks DEF Inv
<1>6. CASE InsertLink(c)
  BY <1>6, InsertLinkCalls, InsertLinkLinks, InsertLinkEvents DEF Inv
<1> QED BY <1>1, <1>2, <1>3, <1>4, <1>5, <1>6 DEF Step

LEMMA AbortInv ==
  ASSUME Inv, NEW c \in Callers, Abort(c)
  PROVE  Inv'
<1>1. CallInv'
  BY IdleKeeps DEF Inv, Abort, GiveUp
<1> QED BY <1>1, AbortEvents, OtherLinks DEF Inv

LEMMA EditCorpusInv ==
  ASSUME Inv, NEW k \in Chunks, EditCorpus(k)
  PROVE  Inv'
<1>1. UNCHANGED <<stage, call, work, links, givenUp, eventVars>>
  BY DEF EditCorpus, callVars
<1>2. LinkInv'
  BY <1>1, LinksKept DEF Inv, LinkInv
<1>3. Evidence \subseteq Evidence'
  BY <1>1 DEF Evidence, Judged, Pending
<1>4. EventInv'
  BY <1>1, <1>3, EventsUntouched DEF Inv, eventVars
<1> QED BY <1>2, <1>4, EditCorpusCalls DEF Inv

(* The inductive invariant holds throughout. *)
THEOREM InvHolds == Spec => []Inv
<1>1. Inv /\ [Next]_vars => Inv'
  <2> SUFFICES ASSUME Inv, [Next]_vars PROVE Inv'
    OBVIOUS
  <2>1. ASSUME NEW c \in Callers, NEW p \in Payload, Propose(c, p) PROVE Inv'
    BY <2>1, ProposeCalls, ProposeEvents, OtherLinks DEF Inv
  <2>2. CASE UNCHANGED vars
    <3>1. UNCHANGED <<corpus, stage, call, work, links, givenUp, eventVars>>
      BY <2>2 DEF vars, callVars, faultVars
    <3>2. CallInv' /\ LinkInv'
      BY <3>1, LinksKept DEF Inv, CallInv, Found, LinkInv
    <3>3. Evidence \subseteq Evidence'
      BY <3>1 DEF Evidence, Judged, Pending
    <3> QED BY <3>1, <3>2, <3>3, EventsUntouched DEF Inv, eventVars
  <2> QED BY <2>1, <2>2, StepInv, AbortInv, EditCorpusInv DEF Next
<1> QED BY <1>1, InitInv, PTL DEF Spec

(* The state has its shape: calls, Links, and the Events under them. *)
THEOREM TypesHold == Spec => []TypeOK
<1>1. Inv => TypeOK
  <2> SUFFICES ASSUME Inv PROVE TypeOK
    OBVIOUS
  <2>1. Events!TypeOK
    BY EventFacts!SoundFacts
       DEF Inv, EventInv, Events!TypeOK, EventFacts!TypeOK, Events!Job, EventFacts!Job,
           Events!Row, EventFacts!Row, Events!MaybeName, EventFacts!MaybeName,
           Events!Link, EventFacts!Link, Events!Steps, EventFacts!Steps
  <2> QED BY <2>1 DEF Inv, CallInv, LinkInv, TypeOK, Stages
<1> QED BY <1>1, InvHolds, PTL

(* Steps 4-6 of link: no ungrounded fact is stored, for any evidence a     *)
(* model may cite and any corpus edited meanwhile, if the judge does not   *)
(* overrate what it is shown.                                              *)
THEOREM FactLinksSupported == Spec => []FactLinksAreSupported
<1>1. Inv => FactLinksAreSupported
  BY DEF Inv, LinkInv
<1> QED BY <1>1, InvHolds, PTL

(* Each side's hashes are of one loaded text of that side's record, though *)
(* the corpus may change between the two loads, the judge and the INSERT.  *)
THEOREM LinkAttestationsCoherent == Spec => []LinkAttestationsAreCoherent
<1>1. Inv => LinkAttestationsAreCoherent
  BY DEF Inv, LinkInv
<1> QED BY <1>1, InvHolds, PTL

(* link gives Events nothing without evidence: with no call in flight any  *)
(* two members of an Event are connected by stored same_event Links and by *)
(* the pairs of calls that ended between the gate and their Link.          *)
THEOREM EventsBackedByLinks == Spec => []EventsAreBackedByLinks
<1>1. Inv => EventsAreBackedByLinks
  <2> SUFFICES ASSUME Inv, \A c \in Callers : stage[c] = "idle",
                      NEW e \in born, NEW m \in members[e], NEW n \in members[e]
               PROVE  ConnectedByLinks(RecordOf[m], RecordOf[n])
    BY DEF EventsAreBackedByLinks
  <2>1. EventFacts!TypeOK /\ EventFacts!NoFalseMerge
    BY EventFacts!SoundFacts DEF Inv, EventInv
  <2>2. m \in Names /\ n \in Names /\ RecordOf[m] \in Records /\ RecordOf[n] \in Records
    BY <2>1 DEF EventFacts!TypeOK
  <2>3. RecordOf[n] \in grounded[RecordOf[m]]
    BY <2>1 DEF EventFacts!NoFalseMerge
  <2>4. Evidence = Judged
    BY DEF Evidence, Pending
  <2> QED BY <2>2, <2>3, <2>4 DEF Inv, EventInv, Backed, Closed, ConnectedByLinks
<1> QED BY <1>1, InvHolds, PTL

=============================================================================
