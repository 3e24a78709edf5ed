------------------------ MODULE WriteEnrichmentProofs ------------------------
(***************************************************************************)
(* What holds of WriteEnrichment for any number of agents, workstreams,    *)
(* chunks and versions, every slicing of them and every judge that does    *)
(* not overrate: no row of enrichment_records says more than its span,     *)
(* each attests to one loaded text, and its entity refs stay right.        *)
(*                                                                         *)
(* The argument: a call reads the Fragment once, so from its load to its   *)
(* INSERT its locals describe one text whatever happens to the corpus; the *)
(* tables the calls share (handles, entity rows) only ever grow.           *)
(***************************************************************************)
EXTENDS WriteEnrichment, SequenceTheorems, TLAPS

-----------------------------------------------------------------------------
(* The inductive invariant.                                                *)

\* A call past the gate: its record has an id and is being given its refs.
Citing == {"cite", "resolving", "insert"}

Held == [handle : Nat \cup {None}, chunk : Chunks \cup {None}, fresh : BOOLEAN]
Ruling == [verdict : Verdicts, failing : SUBSET Surfaces]
Work ==
  [meant : Chunks \cup {None}, slip : BOOLEAN, overtaken : BOOLEAN,
   chunk : Chunks \cup Echoes \cup {None}, text : Texts \cup {None}, span : Spans \cup {None}, ruling : Ruling \cup {None},
   id : RecordIds \cup {None}, todo : Seq(Surfaces), refs : SUBSET Resolver!Ref]

MapTyped ==
  /\ MapTypeOK
  /\ corpus \in [Chunks -> Versions \cup {Gone}]
  /\ held \in [Agents -> Held]
  /\ focus \in [Agents -> Chunks \cup {None}]
  /\ lastRead \in [Workstreams -> Agents \cup {None}]

\* A call of resolve_or_create has its arguments, and a row to add an alias to.
RegistryReady ==
  \A a \in Agents :
    /\ rpc[a] \in {"find", "alias", "insert"} => task[a] \in Resolver!Task
    /\ rpc[a] = "alias" => entity[Resolver!Key(a)] # None

RegistryTyped == Resolver!TypeOK /\ RegistryReady

CallsTyped ==
  /\ pc \in [Agents -> {"idle", "resolve", "load", "judge", "cite", "resolving", "insert"}]
  /\ call \in [Agents -> Payload \cup {None}]
  /\ work \in [Agents -> Work]

RecordsTyped ==
  \A r \in records : r.id \in RecordIds /\ r.chunk \in Chunks /\ r.refs \subseteq Resolver!Ref

TypeInv == MapTyped /\ RegistryTyped /\ CallsTyped /\ RecordsTyped

\* A call has a payload, runs resolve_or_create only while it cites, and has neither
\* id nor refs before the gate.
Framed(a) ==
  /\ pc[a] # "idle" => call[a] \in Payload
  /\ pc[a] # "resolving" => rpc[a] = "idle"
  /\ pc[a] \notin Citing => work[a].id = None /\ work[a].refs = {}
  /\ pc[a] \in Citing => work[a].id \in RecordIds /\ work[a].ruling \in Ruling

\* From load to INSERT: chunk and span are of the one text that was loaded.
OfOneText(a) ==
  LET w == work[a]
  IN  pc[a] \in {"judge"} \cup Citing =>
        /\ w.text \in Texts
        /\ w.chunk = w.text[1]
        /\ w.span = SliceOf[w.text][call[a].off]

\* Past the gate: the ruling is one of that span, and let the payload through.
PassedTheGate(a) ==
  LET w == work[a]
  IN  pc[a] \in Citing =>
        /\ w.ruling.verdict = "grounded" => RenderRecordClaim(call[a]) \subseteq Support[w.span]
        /\ Gate(call[a].tier, w.ruling.verdict) # "reject"

\* The canonical keys of the first n surfaces of cites.
KeysOf(cites, n) == {Canonical[cites[i]] : i \in 1..n}

\* How many of its citations a call has taken up.
Taken(a) == Len(call[a].cites) - Len(work[a].todo)

\* The refs are, in the end, those of the surfaces taken up; while one is being
\* resolved it is that call's argument, then its answer.
CitesInOrder(a) ==
  LET n == Taken(a)
      cites == call[a].cites
  IN  pc[a] \in Citing =>
        /\ n \in 0..Len(cites)
        /\ \A i \in DOMAIN work[a].todo : work[a].todo[i] = cites[n + i]
        /\ \A ref \in work[a].refs : RefOk(ref)
        /\ pc[a] = "insert" => n = Len(cites)
        /\ pc[a] # "resolving" => {ref.key : ref \in work[a].refs} = KeysOf(cites, n)
        /\ pc[a] = "resolving" =>
             /\ n # 0
             /\ {ref.key : ref \in work[a].refs} = KeysOf(cites, n - 1)
             /\ rpc[a] \in {"find", "alias", "insert"} =>
                  task[a].surface = cites[n] /\ task[a].record = work[a].id
             /\ rpc[a] = "idle" => /\ resolved[a] \in Resolver!Ref
                                   /\ RefOk(resolved[a])
                                   /\ resolved[a].key = Canonical[cites[n]]

Sound(a) == Framed(a) /\ OfOneText(a) /\ PassedTheGate(a) /\ CitesInOrder(a)

SoundInv ==
  /\ TypeInv
  /\ \A a \in Agents : Sound(a)
  /\ FactsAreSupported
  /\ AttestationsAreCoherent
  /\ RefsPointAtEntities

(* What the agents hold and mean.                                          *)

\* A call past its first step.
Placed == {"load", "judge"} \cup Citing

\* A call that has not resolved its reference means by it what its agent holds; one
\* that neither slipped nor was overtaken got that.
Pointing(a) ==
  LET w == work[a]
  IN  /\ pc[a] = "resolve" => w.meant = Meant(a, call[a]) /\ w.slip = Slip(a, call[a])
      /\ pc[a] \in Placed => (w.meant # None /\ ~w.slip /\ ~w.overtaken => w.chunk = w.meant)

\* Of the agents of a workstream, the last to call get_chunk finds its Fragment current.
CurrentIsFocus(a) == lastRead[WsOf[a]] = a => current[WsOf[a]] \in {focus[a], None}

\* A handle held since the last restart is a position of its workstream's table.
HeldIsMinted(a) ==
  LET table == handles[WsOf[a]]
  IN  held[a].handle # None /\ held[a].fresh =>
        held[a].handle \in DOMAIN table /\ table[held[a].handle] = held[a].chunk

HeldInv == SoundInv /\ \A a \in Agents : HeldIsMinted(a)

PointInv ==
  /\ HeldInv
  /\ \A a \in Agents : CurrentIsFocus(a) /\ Pointing(a)
  /\ PointsHitTheFragmentMeant

-----------------------------------------------------------------------------
(* The registry: one lemma per action of resolve_or_create.                *)

\* Rows are inserted once and keep the id they were inserted with.
RowsGrow ==
  \A k \in Surfaces :
    entity[k] # None => entity'[k] # None /\ entity'[k].first = entity[k].first

\* A step on a's behalf leaves the other calls of resolve_or_create alone.
OthersResolveOn(a) ==
  \A b \in Agents \ {a} :
    rpc'[b] = rpc[b] /\ task'[b] = task[b] /\ resolved'[b] = resolved[b]

\* What a's statement comes to: another statement, a UniqueViolation, or a row.
Outcome(a) ==
  \/ rpc'[a] \in {"alias", "insert"} /\ task'[a] = task[a]
  \/ rpc'[a] = "raised"
  \/ /\ rpc'[a] = "idle"
     /\ Resolver!Key(a) \in Surfaces
     /\ entity'[Resolver!Key(a)] # None
     /\ resolved'[a] = [key |-> Resolver!Key(a), id |-> entity'[Resolver!Key(a)].first]

(* A call in flight has a surface, a canonical key and the id of its record. *)
LEMMA TaskTyped ==
  ASSUME RegistryTyped, NEW a \in Agents, rpc[a] \in {"find", "alias", "insert"}
  PROVE  /\ task[a] \in Resolver!Task
         /\ task[a].surface \in Surfaces /\ task[a].record \in RecordIds
         /\ Resolver!Key(a) \in Surfaces
BY CanonicalAssumption DEF RegistryTyped, RegistryReady, Resolver!Task, Resolver!Key

(* The columns of a row that is there. *)
LEMMA RowTyped ==
  ASSUME RegistryTyped, NEW k \in Surfaces, entity[k] # None
  PROVE  /\ entity[k] \in Resolver!Row
         /\ entity[k].first \in RecordIds /\ entity[k].aliases \in Seq(Surfaces)
BY DEF RegistryTyped, Resolver!TypeOK, Resolver!Row

(* A call of resolve_or_create begins with its find. *)
LEMMA BeginFacts ==
  ASSUME RegistryTyped, NEW a \in Agents, NEW s \in Surfaces, NEW r \in RecordIds,
         Resolver!Begin(a, s, r)
  PROVE  /\ RegistryTyped' /\ RowsGrow /\ OthersResolveOn(a)
         /\ rpc[a] = "idle" /\ rpc'[a] = "find"
         /\ task'[a].surface = s /\ task'[a].record = r
<1>1. Resolver!TypeOK'
  BY DEF RegistryTyped, Resolver!TypeOK, Resolver!Begin, Resolver!Task
<1>2. RegistryReady'
  BY DEF RegistryTyped, Resolver!TypeOK, RegistryReady, Resolver!Begin, Resolver!Task, Resolver!Key
<1>3. RowsGrow /\ OthersResolveOn(a)
  BY DEF RegistryTyped, Resolver!TypeOK, Resolver!Begin, RowsGrow, OthersResolveOn
<1>4. rpc[a] = "idle" /\ rpc'[a] = "find" /\ task'[a].surface = s /\ task'[a].record = r
  BY DEF RegistryTyped, Resolver!TypeOK, Resolver!Begin
<1> QED BY <1>1, <1>2, <1>3, <1>4 DEF RegistryTyped

(* Giving such a call up changes no row. *)
LEMMA QuitFacts ==
  ASSUME RegistryTyped, NEW a \in Agents, Resolver!Quit(a)
  PROVE  RegistryTyped' /\ RowsGrow /\ OthersResolveOn(a) /\ rpc'[a] = "idle"
BY DEF Resolver!Quit, RegistryTyped, Resolver!TypeOK, RegistryReady, Resolver!Key, RowsGrow,
       OthersResolveOn

(* Handing back a row of the table, as each of the three statements may. *)
LEMMA ReturnFacts ==
  ASSUME RegistryTyped, NEW a \in Agents, NEW row, row.first \in RecordIds, RowsGrow,
         rpc[a] \in {"find", "alias", "insert"}, Resolver!Return(a, row),
         entity' \in [Surfaces -> Resolver!Row \cup {None}],
         entity'[Resolver!Key(a)] # None, entity'[Resolver!Key(a)].first = row.first
  PROVE  RegistryTyped' /\ OthersResolveOn(a) /\ Outcome(a)
<1>1. Resolver!Key(a) \in Surfaces /\ task[a].surface \in Surfaces
  BY TaskTyped
<1>2. /\ rpc' = [rpc EXCEPT ![a] = "idle"]
      /\ task' = [task EXCEPT ![a] = None]
      /\ resolved' = [resolved EXCEPT ![a] = [key |-> Resolver!Key(a), id |-> row.first]]
      /\ seen' = seen \cup {task[a].surface}
  BY DEF Resolver!Return
<1>3. Resolver!TypeOK'
  BY <1>1, <1>2 DEF RegistryTyped, Resolver!TypeOK, Resolver!Ref
<1>4. RegistryReady'
  <2> SUFFICES ASSUME NEW b \in Agents
               PROVE  /\ rpc'[b] \in {"find", "alias", "insert"} => task'[b] \in Resolver!Task
                      /\ rpc'[b] = "alias" => entity'[Canonical[task'[b].surface]] # None
    BY DEF RegistryReady, Resolver!Key
  <2>1. CASE b = a
    BY <1>2, <2>1 DEF RegistryTyped, Resolver!TypeOK
  <2>2. CASE b # a
    <3>1. rpc'[b] = rpc[b] /\ task'[b] = task[b]
      BY <1>2, <2>2 DEF RegistryTyped, Resolver!TypeOK
    <3>2. rpc[b] \in {"find", "alias", "insert"} => task[b] \in Resolver!Task /\ Resolver!Key(b) \in Surfaces
      BY TaskTyped
    <3> QED BY <3>1, <3>2 DEF RegistryTyped, RegistryReady, RowsGrow, Resolver!Key
  <2> QED BY <2>1, <2>2
<1>5. OthersResolveOn(a)
  BY <1>2 DEF RegistryTyped, Resolver!TypeOK, OthersResolveOn
<1>6. Outcome(a)
  BY <1>1, <1>2 DEF RegistryTyped, Resolver!TypeOK, Outcome
<1> QED BY <1>3, <1>4, <1>5, <1>6 DEF RegistryTyped

(* The three statements keep the types, add or extend one row, and come to an *)
(* outcome.                                                                  *)
LEMMA FindFacts ==
  ASSUME RegistryTyped, NEW a \in Agents, Resolver!Find(a)
  PROVE  RegistryTyped' /\ RowsGrow /\ OthersResolveOn(a) /\ Outcome(a)
<1> DEFINE row == entity[Resolver!Key(a)]
<1>1. rpc[a] = "find" /\ entity' = entity
  BY DEF Resolver!Find
<1>2. Resolver!Key(a) \in Surfaces /\ task[a] \in Resolver!Task
  BY <1>1, TaskTyped
<1>3. RowsGrow
  BY <1>1 DEF RowsGrow
<1>4. CASE row = None
  <2>1. rpc' = [rpc EXCEPT ![a] = "insert"] /\ UNCHANGED <<task, resolved, seen>>
    BY <1>4 DEF Resolver!Find
  <2> QED BY <1>1, <1>2, <1>3, <2>1
          DEF RegistryTyped, Resolver!TypeOK, RegistryReady, Resolver!Key, OthersResolveOn, Outcome
<1>5. CASE row # None /\ Resolver!IsNewAlias(task[a].surface, row)
  <2>1. rpc' = [rpc EXCEPT ![a] = "alias"] /\ UNCHANGED <<task, resolved, seen>>
    BY <1>5 DEF Resolver!Find
  <2> QED BY <1>1, <1>2, <1>3, <1>5, <2>1
          DEF RegistryTyped, Resolver!TypeOK, RegistryReady, Resolver!Key, OthersResolveOn, Outcome
<1>6. CASE row # None /\ ~Resolver!IsNewAlias(task[a].surface, row)
  <2>1. Resolver!Return(a, row)
    BY <1>6 DEF Resolver!Find
  <2>2. row.first \in RecordIds
    BY <1>2, <1>6, RowTyped
  <2>3. /\ entity' \in [Surfaces -> Resolver!Row \cup {None}]
        /\ entity'[Resolver!Key(a)] # None /\ entity'[Resolver!Key(a)].first = row.first
    BY <1>1, <1>6 DEF RegistryTyped, Resolver!TypeOK
  <2> HIDE DEF row
  <2> QED BY <1>1, <1>3, <2>1, <2>2, <2>3, ReturnFacts
<1> QED BY <1>4, <1>5, <1>6

(* The alias goes to a row that is there, and changes nothing else of it. *)
LEMMA AddAliasFacts ==
  ASSUME RegistryTyped, NEW a \in Agents, Resolver!AddAlias(a)
  PROVE  RegistryTyped' /\ RowsGrow /\ OthersResolveOn(a) /\ Outcome(a)
<1> DEFINE k == Resolver!Key(a)
           longer == Append(entity[k].aliases, task[a].surface)
<1>1. /\ rpc[a] = "alias"
      /\ entity' = [entity EXCEPT ![k].aliases = longer]
      /\ Resolver!Return(a, entity[k])
  BY DEF Resolver!AddAlias
<1>2. k \in Surfaces /\ task[a].surface \in Surfaces
  BY <1>1, TaskTyped
<1>3. entity[k] # None
  BY <1>1 DEF RegistryTyped, RegistryReady
<1>4. entity[k] \in Resolver!Row /\ entity[k].first \in RecordIds /\ entity[k].aliases \in Seq(Surfaces)
  BY <1>2, <1>3, RowTyped
<1>5. longer \in Seq(Surfaces)
  BY <1>2, <1>4
<1>6. entity'[k] = [entity[k] EXCEPT !.aliases = longer] /\ \A j \in Surfaces : j # k => entity'[j] = entity[j]
  BY <1>1, <1>2 DEF RegistryTyped, Resolver!TypeOK
<1>7. entity'[k] \in Resolver!Row /\ entity'[k].first = entity[k].first /\ entity'[k] # None
  BY <1>4, <1>5, <1>6, NoneAssumption DEF Resolver!Row
<1>8. entity' \in [Surfaces -> Resolver!Row \cup {None}]
  BY <1>1, <1>6, <1>7 DEF RegistryTyped, Resolver!TypeOK
<1>9. RowsGrow
  BY <1>6, <1>7 DEF RowsGrow
<1> QED BY <1>1, <1>2, <1>4, <1>7, <1>8, <1>9, ReturnFacts

(* The INSERT adds the row of a free key, or is refused. *)
LEMMA InsertFacts ==
  ASSUME RegistryTyped, NEW a \in Agents, Resolver!Insert(a)
  PROVE  RegistryTyped' /\ RowsGrow /\ OthersResolveOn(a) /\ Outcome(a)
<1> DEFINE k == Resolver!Key(a)
           row == Resolver!NewRow(a)
<1>1. rpc[a] = "insert"
  BY DEF Resolver!Insert
<1>2. k \in Surfaces /\ task[a].surface \in Surfaces /\ task[a].record \in RecordIds
  BY <1>1, TaskTyped
<1>3. CASE entity[k] = None
  <2>1. entity' = [entity EXCEPT ![k] = row] /\ Resolver!Return(a, row)
    BY <1>3 DEF Resolver!Insert
  <2>2. row \in Resolver!Row /\ row.first \in RecordIds
    BY <1>2 DEF Resolver!NewRow, Resolver!Row
  <2>3. entity'[k] = row /\ \A j \in Surfaces : j # k => entity'[j] = entity[j]
    BY <1>2, <2>1 DEF RegistryTyped, Resolver!TypeOK
  <2>4. entity' \in [Surfaces -> Resolver!Row \cup {None}] /\ row # None
    BY <2>1, <2>2, NoneAssumption DEF RegistryTyped, Resolver!TypeOK
  <2>5. RowsGrow
    BY <1>3, <2>3 DEF RowsGrow
  <2> HIDE DEF row
  <2> QED BY <1>1, <1>2, <2>1, <2>2, <2>3, <2>4, <2>5, ReturnFacts
<1>4. CASE entity[k] # None
  <2>1. rpc' = [rpc EXCEPT ![a] = "raised"] /\ UNCHANGED <<entity, task, resolved, seen>>
    BY <1>4 DEF Resolver!Insert
  <2> QED BY <2>1 DEF RegistryTyped, Resolver!TypeOK, RegistryReady, Resolver!Key, RowsGrow,
                      OthersResolveOn, Outcome
<1> QED BY <1>3, <1>4

(* Whichever statement it is. *)
LEMMA ResolveFacts ==
  ASSUME RegistryTyped, NEW a \in Agents, Resolver!Resolve(a)
  PROVE  RegistryTyped' /\ RowsGrow /\ OthersResolveOn(a) /\ Outcome(a)
BY FindFacts, AddAliasFacts, InsertFacts DEF Resolver!Resolve

-----------------------------------------------------------------------------
(* Calls: what ending one and going on with one mean.                      *)

\* A step of a leaves the other agents' calls alone.
OthersGoOn(a) ==
  \A b \in Agents \ {a} : pc'[b] = pc[b] /\ call'[b] = call[b] /\ work'[b] = work[b]

(* The locals of no call. *)
LEMMA NoWorkTyped == NoWork \in Work
<1>1. <<>> \in Seq(Surfaces)
  OBVIOUS
<1> QED BY <1>1 DEF NoWork, Work

(* Ending a call outside resolve_or_create leaves nothing of it. *)
LEMMA CallEnds ==
  ASSUME TypeInv, NEW a \in Agents, NEW reply, Idle(a, reply), rpc'[a] = "idle"
  PROVE  CallsTyped' /\ OthersGoOn(a) /\ Sound(a)'
<1>1. /\ pc' = [pc EXCEPT ![a] = "idle"]
      /\ call' = [call EXCEPT ![a] = None]
      /\ work' = [work EXCEPT ![a] = NoWork]
  BY DEF Idle
<1>2. CallsTyped' /\ OthersGoOn(a)
  BY <1>1, NoWorkTyped DEF TypeInv, CallsTyped, OthersGoOn
<1>3. pc'[a] = "idle" /\ work'[a].id = None /\ work'[a].refs = {}
  BY <1>1 DEF TypeInv, CallsTyped, NoWork
<1>4. Sound(a)'
  BY <1>3 DEF Sound, Framed, OfOneText, PassedTheGate, CitesInOrder, Citing
<1> QED BY <1>2, <1>4

(* Going on changes a's stage and locals. *)
LEMMA CallGoesOn ==
  ASSUME TypeInv, NEW a \in Agents, NEW locals \in Work,
         NEW step \in {"load", "judge", "cite", "resolving", "insert"}, Goto(a, step, locals)
  PROVE  CallsTyped' /\ OthersGoOn(a) /\ pc'[a] = step /\ work'[a] = locals /\ call' = call
BY DEF TypeInv, CallsTyped, OthersGoOn, Goto

(* A ref to a row of the table stays one. *)
LEMMA RefsStayOk ==
  ASSUME RowsGrow, NEW ref \in Resolver!Ref, RefOk(ref)
  PROVE  RefOk(ref)'
BY DEF RowsGrow, RefOk, Resolver!Ref

(* Of a step of a's, the other agents' calls notice only that rows are added. *)
LEMMA OthersStaySound ==
  ASSUME SoundInv, NEW a \in Agents, RowsGrow, OthersResolveOn(a), OthersGoOn(a),
         NEW b \in Agents \ {a}
  PROVE  Sound(b)'
<1>1. /\ pc'[b] = pc[b] /\ call'[b] = call[b] /\ work'[b] = work[b]
      /\ rpc'[b] = rpc[b] /\ task'[b] = task[b] /\ resolved'[b] = resolved[b]
  BY DEF OthersResolveOn, OthersGoOn
<1>2. Framed(b)' /\ OfOneText(b)' /\ PassedTheGate(b)'
  BY <1>1 DEF SoundInv, Sound, Framed, OfOneText, PassedTheGate
<1>3. \A ref \in Resolver!Ref : RefOk(ref) => RefOk(ref)'
  BY RefsStayOk
<1>4. work[b].refs \subseteq Resolver!Ref
  BY DEF SoundInv, TypeInv, CallsTyped, Work
<1>5. CitesInOrder(b)'
  <2>1. Taken(b)' = Taken(b)
    BY <1>1 DEF Taken
  <2>2. CitesInOrder(b)
    BY DEF SoundInv, Sound
  <2> QED BY <1>1, <1>3, <1>4, <2>1, <2>2 DEF CitesInOrder
<1> QED BY <1>2, <1>5 DEF Sound

-----------------------------------------------------------------------------
(* One lemma per step of a call.                                           *)

StepIsSound(a) ==
  /\ RegistryTyped' /\ RowsGrow /\ OthersResolveOn(a)
  /\ CallsTyped' /\ OthersGoOn(a)
  /\ Sound(a)'

(* Steps of a call that run no statement on the registry. *)
LEMMA RegistryRests ==
  ASSUME RegistryTyped, NEW a \in Agents, UNCHANGED registryVars
  PROVE  RegistryTyped' /\ RowsGrow /\ OthersResolveOn(a) /\ rpc'[a] = rpc[a]
BY DEF registryVars, RegistryTyped, Resolver!TypeOK, RegistryReady, Resolver!Key, RowsGrow,
       OthersResolveOn

(* A step that answers, and is not inside resolve_or_create, ends its call. *)
LEMMA AnswerIsSound ==
  ASSUME SoundInv, NEW a \in Agents, NEW reply, Idle(a, reply), pc[a] # "resolving",
         UNCHANGED registryVars
  PROVE  StepIsSound(a)
<1>1. rpc[a] = "idle"
  BY DEF SoundInv, Sound, Framed
<1>2. RegistryTyped' /\ RowsGrow /\ OthersResolveOn(a) /\ rpc'[a] = "idle"
  BY <1>1, RegistryRests DEF SoundInv, TypeInv
<1> QED BY <1>2, CallEnds DEF SoundInv, StepIsSound

(* Step 0. *)
LEMMA CallIsSound ==
  ASSUME SoundInv, NEW a \in Agents, NEW p \in Payload, Call(a, p)
  PROVE  StepIsSound(a)
<1> DEFINE w == [NoWork EXCEPT !.meant = Meant(a, p), !.slip = Slip(a, p)]
<1>1. /\ pc[a] = "idle"
      /\ pc' = [pc EXCEPT ![a] = "resolve"]
      /\ call' = [call EXCEPT ![a] = p]
      /\ work' = [work EXCEPT ![a] = w]
      /\ UNCHANGED registryVars
  BY DEF Call
<1>2. Meant(a, p) \in Chunks \cup {None} /\ Slip(a, p) \in BOOLEAN
  BY DEF SoundInv, TypeInv, MapTyped, Held, Meant, Slip
<1>3. w \in Work /\ w.id = None /\ w.refs = {}
  BY <1>2, NoWorkTyped DEF Work, NoWork
<1> HIDE DEF w
<1>4. CallsTyped' /\ OthersGoOn(a)
  BY <1>1, <1>3 DEF SoundInv, TypeInv, CallsTyped, OthersGoOn
<1>5. pc'[a] = "resolve" /\ call'[a] = p /\ work'[a] = w
  BY <1>1 DEF SoundInv, TypeInv, CallsTyped
<1>6. RegistryTyped' /\ RowsGrow /\ OthersResolveOn(a) /\ rpc'[a] = "idle"
  BY <1>1, RegistryRests DEF SoundInv, TypeInv, Sound, Framed
<1>7. Sound(a)'
  BY <1>3, <1>5, <1>6 DEF Sound, Framed, OfOneText, PassedTheGate, CitesInOrder, Citing
<1> QED BY <1>4, <1>6, <1>7 DEF StepIsSound

(* resolve_fragment yields a chunk, an echoed text or nothing. *)
LEMMA ResolvedChunkTyped ==
  ASSUME MapTyped, NEW w \in Workstreams, NEW p \in Payload
  PROVE  ResolvedChunk(w, p) \in Chunks \cup Echoes \cup {None}
<1>1. \A n : Lookup(w, n) \in Chunks \cup {None}
  BY DEF MapTyped, MapTypeOK, Lookup
<1>2. current[w] \in Chunks \cup {None}
  BY DEF MapTyped, MapTypeOK
<1> QED BY <1>1, <1>2 DEF ResolvedChunk, Vouched, Payload

(* Step 1. *)
LEMMA ResolveIsSound ==
  ASSUME SoundInv, NEW a \in Agents, ResolveFragment(a)
  PROVE  StepIsSound(a)
<1> DEFINE k == ResolvedChunk(WsOf[a], call[a])
           o == call[a].handle = None /\ lastRead[WsOf[a]] # a
           w == [work[a] EXCEPT !.chunk = k, !.overtaken = o]
<1>1. pc[a] = "resolve" /\ UNCHANGED registryVars
  BY DEF ResolveFragment
<1>2. CASE k = None
  BY <1>1, <1>2, AnswerIsSound DEF ResolveFragment
<1>3. CASE k # None
  <2>1. Goto(a, "load", w)
    BY <1>3 DEF ResolveFragment
  <2>2. /\ call[a] \in Payload /\ rpc[a] = "idle"
        /\ work[a] \in Work /\ work[a].id = None /\ work[a].refs = {}
    BY <1>1 DEF SoundInv, TypeInv, CallsTyped, Sound, Framed, Citing
  <2>3. k \in Chunks \cup Echoes \cup {None}
    BY <2>2, ResolvedChunkTyped, AgentsAssumption DEF SoundInv, TypeInv
  <2>4. w \in Work /\ w.id = None /\ w.refs = {}
    <3>1. o \in BOOLEAN
      OBVIOUS
    <3> HIDE DEF o
    <3> QED BY <2>2, <2>3, <3>1 DEF Work
  <2> HIDE DEF w
  <2>5. CallsTyped' /\ OthersGoOn(a) /\ pc'[a] = "load" /\ work'[a] = w /\ call' = call
    BY <2>1, <2>4, CallGoesOn DEF SoundInv
  <2>6. RegistryTyped' /\ RowsGrow /\ OthersResolveOn(a) /\ rpc'[a] = "idle"
    BY <1>1, <2>2, RegistryRests DEF SoundInv, TypeInv
  <2>7. Sound(a)'
    BY <2>2, <2>4, <2>5, <2>6 DEF Sound, Framed, OfOneText, PassedTheGate, CitesInOrder, Citing
  <2> QED BY <2>5, <2>6, <2>7 DEF StepIsSound
<1> QED BY <1>2, <1>3

(* Steps 2-4: chunk, text and span are of one row of claim_chunks. *)
LEMMA LoadIsSound ==
  ASSUME SoundInv, NEW a \in Agents, LoadAndSlice(a)
  PROVE  StepIsSound(a)
<1> DEFINE k == work[a].chunk
           text == <<k, corpus[k]>>
           slice == SliceOf[text][call[a].off]
           w == [work[a] EXCEPT !.text = text, !.span = slice]
<1>1. pc[a] = "load" /\ UNCHANGED registryVars
  BY DEF LoadAndSlice
<1>2. /\ call[a] \in Payload /\ rpc[a] = "idle"
      /\ work[a] \in Work /\ work[a].id = None /\ work[a].refs = {}
  BY <1>1 DEF SoundInv, TypeInv, CallsTyped, Sound, Framed, Citing
<1>3. CASE \E reply : Idle(a, reply)
  BY <1>1, <1>3, AnswerIsSound
<1>4. CASE HasFragment(k) /\ SliceError(slice) = "" /\ Goto(a, "judge", w)
  <2>1. text \in Texts /\ text[1] = k
    BY <1>4, TextsAssumption DEF HasFragment, SoundInv, TypeInv, MapTyped
  <2>2. slice \in Spans
    <3>1. call[a].off \in Offsets
      BY <1>2 DEF Payload
    <3>2. slice \in Spans \cup {"beyond", "blank"}
      BY <2>1, <3>1, SliceAssumption
    <3>3. slice # "beyond" /\ slice # "blank"
      BY <1>4 DEF SliceError
    <3> QED BY <3>2, <3>3
  <2> HIDE DEF text, slice
  <2>3. /\ w \in Work /\ w.id = None /\ w.refs = {}
        /\ w.chunk = k /\ w.text = text /\ w.span = slice
    BY <1>2, <2>1, <2>2 DEF Work
  <2> HIDE DEF w
  <2>4. CallsTyped' /\ OthersGoOn(a) /\ pc'[a] = "judge" /\ work'[a] = w /\ call' = call
    BY <1>4, <2>3, CallGoesOn DEF SoundInv
  <2>5. RegistryTyped' /\ RowsGrow /\ OthersResolveOn(a) /\ rpc'[a] = "idle"
    BY <1>1, <1>2, RegistryRests DEF SoundInv, TypeInv
  <2>6. OfOneText(a)'
    BY <2>1, <2>3, <2>4 DEF OfOneText, slice
  <2>7. Sound(a)'
    BY <1>2, <2>3, <2>4, <2>5, <2>6 DEF Sound, Framed, PassedTheGate, CitesInOrder, Citing
  <2> QED BY <2>4, <2>5, <2>7 DEF StepIsSound
<1>5. \/ \E reply : Idle(a, reply)
      \/ HasFragment(k) /\ SliceError(slice) = "" /\ Goto(a, "judge", w)
  BY DEF LoadAndSlice
<1> QED BY <1>3, <1>4, <1>5

(* Steps 5-8: what goes on to be stored was ruled on with that span. *)
LEMMA JudgeIsSound ==
  ASSUME SoundInv, NEW a \in Agents, Judge(a)
  PROVE  StepIsSound(a)
<1> DEFINE p == call[a]
<1>1. pc[a] = "judge" /\ UNCHANGED registryVars
  BY DEF Judge
<1>2. /\ p \in Payload /\ rpc[a] = "idle"
      /\ work[a] \in Work /\ work[a].id = None /\ work[a].refs = {}
  BY <1>1 DEF SoundInv, TypeInv, CallsTyped, Sound, Framed, Citing
<1>3. CASE \E reply : Idle(a, reply)
  BY <1>1, <1>3, AnswerIsSound
<1>4. CASE \E ruling \in Rulings(p, work[a].span) :
             /\ Gate(p.tier, ruling.verdict) # "reject"
             /\ \E id \in RecordIds :
                  Goto(a, "cite", [work[a] EXCEPT !.ruling = ruling, !.id = id, !.todo = p.cites])
  <2>1. PICK ruling \in Rulings(p, work[a].span), id \in RecordIds :
          /\ Gate(p.tier, ruling.verdict) # "reject"
          /\ Goto(a, "cite", [work[a] EXCEPT !.ruling = ruling, !.id = id, !.todo = p.cites])
    BY <1>4
  <2> DEFINE w == [work[a] EXCEPT !.ruling = ruling, !.id = id, !.todo = p.cites]
  <2>2. /\ ruling \in Ruling
        /\ ruling.verdict = "grounded" => RenderRecordClaim(p) \subseteq Support[work[a].span]
    BY DEF Rulings, Ruling
  <2>3. p.cites \in Seq(Surfaces)
    BY <1>2, CitationsAssumption DEF Payload
  <2>4. /\ w \in Work /\ w.id = id /\ w.refs = {} /\ w.ruling = ruling /\ w.todo = p.cites
        /\ w.chunk = work[a].chunk /\ w.text = work[a].text /\ w.span = work[a].span
    BY <1>2, <2>2, <2>3 DEF Work
  <2>5. Goto(a, "cite", w)
    BY <2>1
  <2> HIDE DEF w, p
  <2>6. CallsTyped' /\ OthersGoOn(a) /\ pc'[a] = "cite" /\ work'[a] = w /\ call' = call
    BY <2>4, <2>5, CallGoesOn DEF SoundInv
  <2>7. RegistryTyped' /\ RowsGrow /\ OthersResolveOn(a) /\ rpc'[a] = "idle"
    BY <1>1, <1>2, RegistryRests DEF SoundInv, TypeInv
  <2>8. Framed(a)'
    BY <1>2, <2>2, <2>4, <2>6, <2>7 DEF Framed, Citing, p
  <2>9. OfOneText(a)'
    <3>1. OfOneText(a)
      BY DEF SoundInv, Sound
    <3> QED BY <1>1, <2>4, <2>6, <3>1 DEF OfOneText
  <2>10. PassedTheGate(a)'
    BY <2>1, <2>2, <2>4, <2>6 DEF PassedTheGate, p
  <2>11. CitesInOrder(a)'
    <3>1. Taken(a)' = 0 /\ Len(p.cites) \in Nat
      BY <2>3, <2>4, <2>6, LenProperties DEF Taken, p
    <3>2. KeysOf(call'[a].cites, 0) = {}
      BY DEF KeysOf
    <3>3. 0 \in 0..Len(p.cites) /\ \A i \in DOMAIN p.cites : p.cites[i] = p.cites[0 + i]
      BY <2>3, <3>1, LenProperties
    <3> QED BY <2>4, <2>6, <3>1, <3>2, <3>3 DEF CitesInOrder, p
  <2> QED BY <2>6, <2>7, <2>8, <2>9, <2>10, <2>11 DEF StepIsSound, Sound
<1> QED BY <1>3, <1>4 DEF Judge

(* What CitesInOrder says of a's call at each of its steps past the gate. *)
LEMMA CitingFacts ==
  ASSUME SoundInv, NEW a \in Agents, pc[a] \in Citing
  PROVE  /\ call[a] \in Payload /\ call[a].cites \in Seq(Surfaces)
         /\ work[a] \in Work /\ work[a].id \in RecordIds /\ work[a].ruling \in Ruling
         /\ work[a].todo \in Seq(Surfaces) /\ work[a].refs \subseteq Resolver!Ref
         /\ Taken(a) \in 0..Len(call[a].cites)
         /\ Len(call[a].cites) \in Nat /\ Len(work[a].todo) \in Nat
         /\ \A ref \in work[a].refs : RefOk(ref)
<1>1. call[a] \in Payload /\ work[a] \in Work
  BY DEF SoundInv, TypeInv, CallsTyped, Sound, Framed, Citing
<1>2. call[a].cites \in Seq(Surfaces) /\ work[a].todo \in Seq(Surfaces)
  BY <1>1, CitationsAssumption DEF Payload, Work
<1> QED BY <1>1, <1>2, LenProperties
        DEF SoundInv, Sound, Framed, CitesInOrder, Work

(* Past the gate, what was loaded and ruled does not change. *)
LEMMA CitingKeeps ==
  ASSUME SoundInv, NEW a \in Agents, pc[a] \in Citing, pc'[a] \in Citing, call' = call,
         work'[a] \in Work,
         \A f \in {"chunk", "text", "span", "ruling", "id"} : work'[a][f] = work[a][f],
         pc'[a] # "resolving" => rpc'[a] = "idle"
  PROVE  Framed(a)' /\ OfOneText(a)' /\ PassedTheGate(a)'
<1>1. /\ work'[a].chunk = work[a].chunk /\ work'[a].text = work[a].text
      /\ work'[a].span = work[a].span /\ work'[a].ruling = work[a].ruling
      /\ work'[a].id = work[a].id
  OBVIOUS
<1>2. Framed(a) /\ OfOneText(a) /\ PassedTheGate(a)
  BY DEF SoundInv, Sound
<1>3. pc[a] # "idle"
  BY DEF Citing
<1> QED BY <1>1, <1>2, <1>3 DEF Framed, OfOneText, PassedTheGate

(* Step 9, the next surface, or none left. *)
LEMMA CiteNextIsSound ==
  ASSUME SoundInv, NEW a \in Agents, CiteNext(a)
  PROVE  StepIsSound(a)
<1> DEFINE cites == call[a].cites
           todo == work[a].todo
           n == Taken(a)
<1>1. pc[a] = "cite" /\ pc[a] \in Citing
  BY DEF CiteNext, Citing
<1>2. /\ cites \in Seq(Surfaces) /\ todo \in Seq(Surfaces) /\ n \in 0..Len(cites)
      /\ work[a] \in Work /\ work[a].id \in RecordIds
      /\ Len(cites) \in Nat /\ Len(todo) \in Nat /\ work[a].refs \subseteq Resolver!Ref
      /\ \A ref \in work[a].refs : RefOk(ref)
  BY <1>1, CitingFacts
<1>3. /\ \A i \in DOMAIN todo : todo[i] = cites[n + i]
      /\ {ref.key : ref \in work[a].refs} = KeysOf(cites, n)
      /\ rpc[a] = "idle"
  BY <1>1 DEF SoundInv, Sound, CitesInOrder, Framed
<1>4. CASE todo # <<>>
  <2> DEFINE w == [work[a] EXCEPT !.todo = Tail(todo)]
  <2>1. Goto(a, "resolving", w) /\ Resolver!Begin(a, Head(todo), work[a].id)
    BY <1>4 DEF CiteNext
  <2>2. /\ Head(todo) \in Surfaces /\ Head(todo) = todo[1]
        /\ Tail(todo) \in Seq(Surfaces) /\ Len(Tail(todo)) = Len(todo) - 1
        /\ \A i \in 1..Len(Tail(todo)) : Tail(todo)[i] = todo[i + 1]
        /\ DOMAIN Tail(todo) = 1..Len(Tail(todo)) /\ DOMAIN todo = 1..Len(todo)
        /\ Len(todo) > 0
    BY <1>2, <1>4, HeadTailProperties, LenProperties
  <2>3. /\ w \in Work /\ w.todo = Tail(todo) /\ w.refs = work[a].refs
        /\ \A f \in {"chunk", "text", "span", "ruling", "id"} : w[f] = work[a][f]
    BY <1>2, <2>2 DEF Work
  <2> HIDE DEF w
  <2>4. CallsTyped' /\ OthersGoOn(a) /\ pc'[a] = "resolving" /\ work'[a] = w /\ call' = call
    BY <2>1, <2>3, CallGoesOn DEF SoundInv
  <2>5. /\ RegistryTyped' /\ RowsGrow /\ OthersResolveOn(a)
        /\ rpc'[a] = "find" /\ task'[a].surface = Head(todo) /\ task'[a].record = work[a].id
    BY <1>2, <2>1, <2>2, BeginFacts DEF SoundInv, TypeInv
  <2>6. Framed(a)' /\ OfOneText(a)' /\ PassedTheGate(a)'
    BY <1>1, <2>3, <2>4, CitingKeeps DEF Citing
  <2>7. CitesInOrder(a)'
    <3>1. Taken(a)' = n + 1 /\ n + 1 \in 0..Len(cites)
      <4>1. n = Len(cites) - Len(todo)
        BY DEF Taken
      <4>2. Taken(a)' = Len(cites) - Len(Tail(todo))
        BY <2>3, <2>4 DEF Taken
      <4> DEFINE long == Len(cites)
                 left == Len(todo)
      <4>3. long \in Nat /\ left \in Nat /\ left > 0 /\ Len(Tail(todo)) = left - 1
        BY <1>2, <2>2
      <4>4. Taken(a)' = long - (left - 1) /\ n = long - left /\ n \in 0..long
        BY <1>2, <4>1, <4>2, <4>3
      <4> HIDE DEF n, long, left
      <4>5. n + 1 = long - (left - 1) /\ n + 1 \in 0..long
        BY <4>3, <4>4
      <4> QED BY <4>4, <4>5 DEF long
    <3>2. \A i \in DOMAIN Tail(todo) : Tail(todo)[i] = cites[(n + 1) + i]
      <4> HIDE DEF n, cites, todo
      <4>1. SUFFICES ASSUME NEW i \in 1..Len(Tail(todo))
                     PROVE  Tail(todo)[i] = cites[(n + 1) + i]
        BY <2>2
      <4>2. Tail(todo)[i] = todo[i + 1] /\ i + 1 \in DOMAIN todo
        BY <1>2, <2>2
      <4>3. n + (i + 1) = (n + 1) + i
        BY <1>2, <2>2
      <4> QED BY <1>3, <4>2, <4>3
    <3>3. Head(todo) = cites[n + 1]
      BY <1>3, <2>2
    <3>4. \A ref \in work[a].refs : RefOk(ref)'
      BY <1>2, <2>5, RefsStayOk
    <3>5. (n + 1) - 1 = n /\ n + 1 # 0
      <4> HIDE DEF n
      <4> QED BY <1>2
    <3> HIDE DEF n
    <3>6. w.id = work[a].id
      BY <2>3
    <3> QED BY <1>3, <2>3, <2>4, <2>5, <3>1, <3>2, <3>3, <3>4, <3>5, <3>6 DEF CitesInOrder
  <2> QED BY <2>4, <2>5, <2>6, <2>7 DEF StepIsSound, Sound
<1>5. CASE todo = <<>>
  <2>1. Goto(a, "insert", work[a]) /\ UNCHANGED registryVars
    BY <1>5 DEF CiteNext
  <2>2. CallsTyped' /\ OthersGoOn(a) /\ pc'[a] = "insert" /\ work'[a] = work[a] /\ call' = call
    BY <1>2, <2>1, CallGoesOn DEF SoundInv
  <2>3. RegistryTyped' /\ RowsGrow /\ OthersResolveOn(a) /\ rpc'[a] = "idle"
    BY <1>3, <2>1, RegistryRests DEF SoundInv, TypeInv
  <2>4. Framed(a)' /\ OfOneText(a)' /\ PassedTheGate(a)'
    BY <1>1, <1>2, <2>2, <2>3, CitingKeeps DEF Citing
  <2>5. CitesInOrder(a)'
    <3>1. Taken(a)' = n /\ n = Len(cites)
      <4>1. Taken(a)' = n /\ n = Len(cites) - Len(todo)
        BY <2>2 DEF Taken
      <4>2. Len(todo) = 0
        BY <1>5
      <4> HIDE DEF n
      <4> QED BY <1>2, <4>1, <4>2
    <3>2. \A ref \in work[a].refs : RefOk(ref)'
      BY <1>2, <2>3, RefsStayOk
    <3> QED BY <1>2, <1>3, <2>2, <3>1, <3>2 DEF CitesInOrder
  <2> QED BY <2>2, <2>3, <2>4, <2>5 DEF StepIsSound, Sound
<1> QED BY <1>4, <1>5

(* Step 9, inside resolve_or_create. *)
LEMMA CiteStepIsSound ==
  ASSUME SoundInv, NEW a \in Agents, CiteStep(a)
  PROVE  StepIsSound(a)
<1> DEFINE cites == call[a].cites
           n == Taken(a)
<1>1. pc[a] = "resolving" /\ pc[a] \in Citing /\ Resolver!Resolve(a) /\ UNCHANGED callVars
  BY DEF CiteStep, Citing
<1>2. RegistryTyped' /\ RowsGrow /\ OthersResolveOn(a) /\ Outcome(a)
  BY <1>1, ResolveFacts DEF SoundInv, TypeInv
<1>3. rpc[a] \in {"find", "alias", "insert"}
  BY <1>1 DEF Resolver!Resolve, Resolver!Find, Resolver!AddAlias, Resolver!Insert
<1>4. CallsTyped' /\ OthersGoOn(a)
  BY <1>1 DEF SoundInv, TypeInv, CallsTyped, OthersGoOn, callVars
<1>5. work[a] \in Work /\ work[a].refs \subseteq Resolver!Ref /\ \A ref \in work[a].refs : RefOk(ref)
  BY <1>1, CitingFacts
<1>6. Framed(a)' /\ OfOneText(a)' /\ PassedTheGate(a)'
  <2>1. pc' = pc /\ call' = call /\ work' = work
    BY <1>1 DEF callVars
  <2> QED BY <1>1, <1>5, <2>1, CitingKeeps
<1>7. CitesInOrder(a)'
  <2>1. pc' = pc /\ call' = call /\ work' = work
    BY <1>1 DEF callVars
  <2>2. Taken(a)' = n
    BY <2>1 DEF Taken
  <2>3. CitesInOrder(a)
    BY DEF SoundInv, Sound
  <2>4. \A ref \in work[a].refs : RefOk(ref)'
    BY <1>2, <1>5, RefsStayOk
  <2>5. task[a].surface = cites[n] /\ task[a].record = work[a].id
    BY <1>1, <1>3, <2>3 DEF CitesInOrder
  <2>6. rpc'[a] \in {"find", "alias", "insert"} =>
          task'[a].surface = cites[n] /\ task'[a].record = work[a].id
    BY <1>2, <2>5 DEF Outcome
  <2>7. rpc'[a] = "idle" => /\ resolved'[a] \in Resolver!Ref
                            /\ RefOk(resolved[a])'
                            /\ resolved'[a].key = Canonical[cites[n]]
    <3> SUFFICES ASSUME rpc'[a] = "idle"
                 PROVE  /\ resolved'[a] \in Resolver!Ref
                        /\ RefOk(resolved[a])'
                        /\ resolved'[a].key = Canonical[cites[n]]
      OBVIOUS
    <3> DEFINE k == Resolver!Key(a)
    <3>1. /\ k \in Surfaces /\ entity'[k] # None
          /\ resolved'[a] = [key |-> k, id |-> entity'[k].first]
      BY <1>2 DEF Outcome
    <3>2. entity'[k].first \in RecordIds
      BY <1>2, <3>1 DEF RegistryTyped, Resolver!TypeOK, Resolver!Row
    <3>3. k = Canonical[cites[n]]
      BY <2>5 DEF Resolver!Key
    <3> HIDE DEF k
    <3> QED BY <3>1, <3>2, <3>3 DEF Resolver!Ref, RefOk
  <2> HIDE DEF n, cites
  <2> QED BY <1>1, <2>1, <2>2, <2>3, <2>4, <2>6, <2>7 DEF CitesInOrder, n, cites
<1> QED BY <1>2, <1>4, <1>6, <1>7 DEF StepIsSound, Sound

(* One more citation has its ref. *)
LEMMA KeysOfNext ==
  ASSUME NEW cites, NEW n \in Nat \ {0}
  PROVE  KeysOf(cites, n) = KeysOf(cites, n - 1) \cup {Canonical[cites[n]]}
<1>1. 1..n = 1..(n - 1) \cup {n}
  OBVIOUS
<1> QED BY <1>1 DEF KeysOf

(* Step 9, its answer becomes a ref. *)
LEMMA CiteDoneIsSound ==
  ASSUME SoundInv, NEW a \in Agents, CiteDone(a)
  PROVE  StepIsSound(a)
<1> DEFINE cites == call[a].cites
           n == Taken(a)
           w == [work[a] EXCEPT !.refs = @ \cup {resolved[a]}]
<1>1. /\ pc[a] = "resolving" /\ pc[a] \in Citing /\ rpc[a] = "idle"
      /\ Goto(a, "cite", w) /\ UNCHANGED registryVars
  BY DEF CiteDone, Citing
<1>2. /\ work[a] \in Work /\ work[a].refs \subseteq Resolver!Ref
      /\ n \in 0..Len(cites) /\ Len(cites) \in Nat
  BY <1>1, CitingFacts
<1>3. /\ \A i \in DOMAIN work[a].todo : work[a].todo[i] = cites[n + i]
      /\ \A ref \in work[a].refs : RefOk(ref)
      /\ n # 0
      /\ {ref.key : ref \in work[a].refs} = KeysOf(cites, n - 1)
      /\ resolved[a] \in Resolver!Ref /\ RefOk(resolved[a])
      /\ resolved[a].key = Canonical[cites[n]]
  BY <1>1 DEF SoundInv, Sound, CitesInOrder
<1>4. /\ w \in Work /\ w.refs = work[a].refs \cup {resolved[a]} /\ w.todo = work[a].todo
      /\ \A f \in {"chunk", "text", "span", "ruling", "id"} : w[f] = work[a][f]
  BY <1>2, <1>3 DEF Work
<1> HIDE DEF w
<1>5. CallsTyped' /\ OthersGoOn(a) /\ pc'[a] = "cite" /\ work'[a] = w /\ call' = call
  BY <1>1, <1>4, CallGoesOn DEF SoundInv
<1>6. RegistryTyped' /\ RowsGrow /\ OthersResolveOn(a) /\ rpc'[a] = "idle"
  BY <1>1, RegistryRests DEF SoundInv, TypeInv
<1>7. Framed(a)' /\ OfOneText(a)' /\ PassedTheGate(a)'
  BY <1>1, <1>4, <1>5, <1>6, CitingKeeps DEF Citing
<1>8. CitesInOrder(a)'
  <2>1. Taken(a)' = n
    BY <1>4, <1>5 DEF Taken
  <2>2. \A ref \in w.refs : RefOk(ref)'
    BY <1>2, <1>3, <1>4, <1>6, RefsStayOk
  <2> HIDE DEF n
  <2>3. n \in Nat \ {0}
    BY <1>2, <1>3
  <2>4. {ref.key : ref \in w.refs} = KeysOf(cites, n)
    BY <1>3, <1>4, <2>3, KeysOfNext
  <2> QED BY <1>2, <1>3, <1>4, <1>5, <2>1, <2>2, <2>4 DEF CitesInOrder
<1> QED BY <1>5, <1>6, <1>7, <1>8 DEF StepIsSound, Sound

(* A call that escapes, inside resolve_or_create or not, ends there too. *)
LEMMA EscapeIsSound ==
  ASSUME SoundInv, NEW a \in Agents, Idle(a, "raised"), Resolver!Quit(a)
  PROVE  StepIsSound(a)
<1>1. RegistryTyped' /\ RowsGrow /\ OthersResolveOn(a) /\ rpc'[a] = "idle"
  BY QuitFacts DEF SoundInv, TypeInv
<1> QED BY <1>1, CallEnds DEF SoundInv, StepIsSound

(* Every step of a call. *)
LEMMA StepsAreSound ==
  ASSUME SoundInv, NEW a \in Agents, Step(a) \/ Abort(a) \/ CallMalformed(a)
  PROVE  StepIsSound(a)
<1>1. CASE ResolveFragment(a) \/ LoadAndSlice(a) \/ Judge(a)
  BY <1>1, ResolveIsSound, LoadIsSound, JudgeIsSound
<1>2. CASE CiteNext(a) \/ CiteStep(a) \/ CiteDone(a)
  BY <1>2, CiteNextIsSound, CiteStepIsSound, CiteDoneIsSound
<1>3. CASE CiteRaised(a) \/ Abort(a)
  BY <1>3, EscapeIsSound DEF CiteRaised, Abort
<1>4. CASE InsertRecord(a)
  BY <1>4, AnswerIsSound DEF InsertRecord
<1>5. CASE CallMalformed(a)
  BY <1>5, AnswerIsSound DEF CallMalformed
<1> QED BY <1>1, <1>2, <1>3, <1>4, <1>5 DEF Step

-----------------------------------------------------------------------------
(* The read tools and the tables of handles.                               *)

TablesGrow ==
  \A w \in Workstreams : \A n \in DOMAIN handles[w] :
    n \in DOMAIN handles'[w] /\ handles'[w][n] = handles[w][n]

(* Minting adds at most one handle, at the end, and the chunk has one then. *)
LEMMA MintedFacts ==
  ASSUME NEW table \in Seq(Chunks), NEW k \in Chunks
  PROVE  /\ Minted(table, k) \in Seq(Chunks)
         /\ \A n \in DOMAIN table : n \in DOMAIN Minted(table, k) /\ Minted(table, k)[n] = table[n]
         /\ \E n \in DOMAIN Minted(table, k) : Minted(table, k)[n] = k
<1>1. CASE k \in ToSet(table)
  BY <1>1 DEF Minted, ToSet
<1>2. CASE k \notin ToSet(table)
  <2> DEFINE longer == Append(table, k)
  <2>1. Minted(table, k) = longer
    BY <1>2 DEF Minted
  <2>2. /\ longer \in Seq(Chunks) /\ Len(longer) = Len(table) + 1
        /\ \A n \in 1..Len(table) : longer[n] = table[n]
        /\ longer[Len(table) + 1] = k
    BY AppendProperties
  <2>3. Len(table) \in Nat /\ DOMAIN table = 1..Len(table) /\ DOMAIN longer = 1..(Len(table) + 1)
    BY <2>2, LenProperties
  <2> HIDE DEF longer
  <2>4. /\ \A n \in DOMAIN table : n \in DOMAIN longer
        /\ Len(table) + 1 \in DOMAIN longer
    BY <2>3
  <2> QED BY <2>1, <2>2, <2>3, <2>4
<1> QED BY <1>1, <1>2

(* What a read tool shows is a handle of the table it minted it in. *)
LEMMA ShownFacts ==
  ASSUME NEW table \in Seq(Chunks), NEW k \in Chunks, \E n \in DOMAIN table : table[n] = k
  PROVE  /\ Shown(table, k) \in Held /\ Shown(table, k).chunk = k
         /\ Shown(table, k).handle \in DOMAIN table /\ table[Shown(table, k).handle] = k
<1>1. HandleIn(table, k) \in DOMAIN table /\ table[HandleIn(table, k)] = k
  BY DEF HandleIn
<1>2. HandleIn(table, k) \in Nat
  BY <1>1, LenProperties
<1> QED BY <1>1, <1>2 DEF Shown, Held

(* Reading leaves every handle where it was, and an agent goes on with what *)
(* it held or with what it was just shown.                                   *)
LEMMA PresentFacts ==
  ASSUME MapTyped, NEW a \in Agents, NEW k \in Chunks, NEW table \in Seq(Chunks),
         \A n \in DOMAIN handles[WsOf[a]] :
           n \in DOMAIN table /\ table[n] = handles[WsOf[a]][n],
         \E n \in DOMAIN table : table[n] = k,
         handles' = [handles EXCEPT ![WsOf[a]] = table],
         Remember(a, Shown(handles'[WsOf[a]], k))
  PROVE  /\ handles' \in [Workstreams -> Seq(Chunks)] /\ TablesGrow
         /\ held' \in [Agents -> Held]
         /\ \A b \in Agents :
              held'[b] = held[b] \/ (held'[b].handle # None /\ held'[b].fresh => HeldIsMinted(b)')
<1> DEFINE w == WsOf[a]
           shown == Shown(table, k)
<1>1. w \in Workstreams /\ handles \in [Workstreams -> Seq(Chunks)] /\ held \in [Agents -> Held]
  BY AgentsAssumption DEF MapTyped, MapTypeOK
<1>2. /\ handles' \in [Workstreams -> Seq(Chunks)] /\ handles'[w] = table
      /\ \A v \in Workstreams : v # w => handles'[v] = handles[v]
  BY <1>1
<1>3. TablesGrow
  BY <1>2 DEF TablesGrow
<1>4. /\ shown \in Held /\ shown.chunk = k
      /\ shown.handle \in DOMAIN table /\ table[shown.handle] = k
  BY ShownFacts
<1>5. held' = held \/ held' = [held EXCEPT ![a] = shown]
  BY <1>2 DEF Remember
<1> HIDE DEF shown
<1>6. held' \in [Agents -> Held] /\ \A b \in Agents : held'[b] = held[b] \/ (b = a /\ held'[b] = shown)
  BY <1>1, <1>4, <1>5
<1>7. \A b \in Agents : held'[b] = held[b] \/ HeldIsMinted(b)'
  BY <1>2, <1>4, <1>6 DEF HeldIsMinted
<1> QED BY <1>2, <1>3, <1>6, <1>7

(* get_chunk and get_neighbors. *)
LEMMA ReadFacts ==
  ASSUME MapTyped, NEW a \in Agents,
         \/ \E k \in Chunks : GetChunk(a, k)
         \/ \E k, n \in Chunks : GetNeighbors(a, k, n)
  PROVE  /\ MapTyped' /\ TablesGrow
         /\ \A b \in Agents : held'[b] = held[b] \/ HeldIsMinted(b)'
         /\ UNCHANGED <<callVars, records, registryVars>>
<1> DEFINE w == WsOf[a]
<1>1. w \in Workstreams /\ handles \in [Workstreams -> Seq(Chunks)] /\ handles[w] \in Seq(Chunks)
  BY AgentsAssumption DEF MapTyped, MapTypeOK
<1>2. CASE \E k \in Chunks : GetChunk(a, k)
  <2>1. PICK k \in Chunks : GetChunk(a, k)
    BY <1>2
  <2> DEFINE table == Minted(handles[w], k)
  <2>2. /\ handles' = [handles EXCEPT ![w] = table] /\ Remember(a, Shown(handles'[w], k))
        /\ current' = [current EXCEPT ![w] = k] /\ focus' = [focus EXCEPT ![a] = k]
        /\ lastRead' = [lastRead EXCEPT ![w] = a]
        /\ corpus' = corpus /\ UNCHANGED <<callVars, records, registryVars>>
    BY <2>1 DEF GetChunk, Mint
  <2>3. /\ table \in Seq(Chunks)
        /\ \A n \in DOMAIN handles[w] : n \in DOMAIN table /\ table[n] = handles[w][n]
        /\ \E n \in DOMAIN table : table[n] = k
    BY <1>1, MintedFacts
  <2> HIDE DEF table
  <2>4. /\ handles' \in [Workstreams -> Seq(Chunks)] /\ TablesGrow /\ held' \in [Agents -> Held]
        /\ \A b \in Agents :
             held'[b] = held[b] \/ (held'[b].handle # None /\ held'[b].fresh => HeldIsMinted(b)')
    BY <2>2, <2>3, PresentFacts
  <2>5. MapTyped'
    BY <2>2, <2>4 DEF MapTyped, MapTypeOK
  <2> QED BY <2>2, <2>4, <2>5 DEF HeldIsMinted
<1>3. CASE \E k, n \in Chunks : GetNeighbors(a, k, n)
  <2>1. PICK k \in Chunks, n \in Chunks : GetNeighbors(a, k, n)
    BY <1>3
  <2> DEFINE first == Minted(handles[w], k)
             table == Minted(first, n)
  <2>2. /\ handles' = [handles EXCEPT ![w] = table] /\ Remember(a, Shown(handles'[w], n))
        /\ UNCHANGED <<current, focus, lastRead, corpus>>
        /\ UNCHANGED <<callVars, records, registryVars>>
    BY <2>1 DEF GetNeighbors, MintBoth
  <2>3. /\ first \in Seq(Chunks)
        /\ \A i \in DOMAIN handles[w] : i \in DOMAIN first /\ first[i] = handles[w][i]
    BY <1>1, MintedFacts
  <2> HIDE DEF first
  <2>4. /\ table \in Seq(Chunks)
        /\ \A i \in DOMAIN first : i \in DOMAIN table /\ table[i] = first[i]
        /\ \E i \in DOMAIN table : table[i] = n
    BY <2>3, MintedFacts
  <2>5. \A i \in DOMAIN handles[w] : i \in DOMAIN table /\ table[i] = handles[w][i]
    BY <2>3, <2>4
  <2> HIDE DEF table
  <2>6. /\ handles' \in [Workstreams -> Seq(Chunks)] /\ TablesGrow /\ held' \in [Agents -> Held]
        /\ \A b \in Agents :
             held'[b] = held[b] \/ (held'[b].handle # None /\ held'[b].fresh => HeldIsMinted(b)')
    BY <2>2, <2>4, <2>5, PresentFacts
  <2>7. MapTyped'
    BY <2>2, <2>6 DEF MapTyped, MapTypeOK
  <2> QED BY <2>2, <2>6, <2>7 DEF HeldIsMinted
<1> QED BY <1>2, <1>3

-----------------------------------------------------------------------------
(* The records.                                                            *)

RecordsAreSound ==
  RecordsTyped /\ FactsAreSupported /\ AttestationsAreCoherent /\ RefsPointAtEntities

(* Stored records do not notice that rows are added or extended. *)
LEMMA RecordsStaySound ==
  ASSUME SoundInv, RowsGrow, records' = records
  PROVE  RecordsAreSound'
<1>1. RecordsTyped' /\ FactsAreSupported' /\ AttestationsAreCoherent'
  BY DEF SoundInv, TypeInv, RecordsTyped, FactsAreSupported, AttestationsAreCoherent
<1>2. \A r \in records : \A ref \in r.refs : RefOk(ref)'
  BY RefsStayOk DEF SoundInv, TypeInv, RecordsTyped, RefsPointAtEntities
<1> QED BY <1>1, <1>2 DEF RecordsAreSound, SoundInv, RefsPointAtEntities

(* The row a call is about to insert is true to what the call loaded.      *)
LEMMA NewRecordFacts ==
  ASSUME SoundInv, NEW a \in Agents, pc[a] = "insert"
  PROVE  LET r == NewRecord(a)
         IN  /\ r.id \in RecordIds /\ r.chunk \in Chunks /\ r.refs \subseteq Resolver!Ref
             /\ r.tier = "fact" => ~r.flagged
             /\ ~r.flagged => RenderRecordClaim(r) \subseteq Support[r.span]
             /\ r.attested.hashes.source[1] = r.chunk
             /\ r.span = SliceOf[r.attested.hashes.source][r.off]
             /\ r.attested.hashes.span = r.span
             /\ r.flagged <=> r.attested.verdict # "grounded"
             /\ \A ref \in r.refs : RefOk(ref)
             /\ {ref.key : ref \in r.refs} = {Canonical[r.cites[i]] : i \in DOMAIN r.cites}
<1> DEFINE r == NewRecord(a)
           p == call[a]
           w == work[a]
<1>1. /\ r.id = w.id /\ r.chunk = w.chunk /\ r.off = p.off /\ r.span = w.span
      /\ r.claim = p.claim /\ r.note = p.note /\ r.tier = p.tier /\ r.cites = p.cites
      /\ r.refs = w.refs /\ r.flagged = (Gate(p.tier, w.ruling.verdict) = "flag")
      /\ r.attested.verdict = w.ruling.verdict
      /\ r.attested.hashes.source = w.text /\ r.attested.hashes.span = w.span
  BY DEF NewRecord, RecordRow, Attestation
<1>2. pc[a] \in Citing
  BY DEF Citing
<1>3. /\ w.id \in RecordIds /\ w.refs \subseteq Resolver!Ref /\ p.cites \in Seq(Surfaces)
      /\ w.ruling \in Ruling /\ \A ref \in w.refs : RefOk(ref)
  BY <1>2, CitingFacts
<1>4. w.text \in Texts /\ w.chunk = w.text[1] /\ w.span = SliceOf[w.text][p.off]
  BY <1>2 DEF SoundInv, Sound, OfOneText
<1>5. /\ w.ruling.verdict = "grounded" => RenderRecordClaim(p) \subseteq Support[w.span]
      /\ Gate(p.tier, w.ruling.verdict) # "reject"
  BY <1>2 DEF SoundInv, Sound, PassedTheGate
<1>6. {ref.key : ref \in w.refs} = KeysOf(p.cites, Len(p.cites))
  BY <1>2 DEF SoundInv, Sound, CitesInOrder
<1>7. w.chunk \in Chunks
  BY <1>4, TextsAssumption
<1>8. /\ r.flagged <=> w.ruling.verdict # "grounded"
      /\ p.tier = "fact" => ~r.flagged
  BY <1>1, <1>5 DEF Gate
<1>9. RenderRecordClaim(r) = RenderRecordClaim(p)
  BY <1>1 DEF RenderRecordClaim
<1>10. KeysOf(p.cites, Len(p.cites)) = {Canonical[p.cites[i]] : i \in DOMAIN p.cites}
  BY <1>3, LenProperties DEF KeysOf
<1> HIDE DEF r
<1>11. r.id \in RecordIds /\ r.chunk \in Chunks /\ r.refs \subseteq Resolver!Ref
  BY <1>1, <1>3, <1>7
<1>12. /\ r.tier = "fact" => ~r.flagged
       /\ ~r.flagged => RenderRecordClaim(r) \subseteq Support[r.span]
  BY <1>1, <1>5, <1>8, <1>9
<1>13. /\ r.attested.hashes.source[1] = r.chunk
       /\ r.span = SliceOf[r.attested.hashes.source][r.off]
       /\ r.attested.hashes.span = r.span
       /\ r.flagged <=> r.attested.verdict # "grounded"
  BY <1>1, <1>4, <1>8
<1>14. /\ \A ref \in r.refs : RefOk(ref)
       /\ {ref.key : ref \in r.refs} = {Canonical[r.cites[i]] : i \in DOMAIN r.cites}
  <2>1. r.refs = w.refs /\ r.cites = p.cites
    BY <1>1
  <2> HIDE DEF p, w
  <2>2. {ref.key : ref \in r.refs} = {ref.key : ref \in w.refs}
    BY <2>1
  <2>3. {Canonical[r.cites[i]] : i \in DOMAIN r.cites} = {Canonical[p.cites[i]] : i \in DOMAIN p.cites}
    BY <2>1
  <2> QED BY <1>3, <1>6, <1>10, <2>1, <2>2, <2>3
<1> QED BY <1>11, <1>12, <1>13, <1>14 DEF r

(* Steps 10-11. *)
LEMMA InsertKeepsRecordsSound ==
  ASSUME SoundInv, NEW a \in Agents, InsertRecord(a)
  PROVE  RecordsAreSound'
<1>1. pc[a] = "insert" /\ entity' = entity
  BY DEF InsertRecord, registryVars
<1>2. records' = records \/ records' = records \cup {NewRecord(a)}
  BY DEF InsertRecord
<1>3. RowsGrow
  BY <1>1 DEF RowsGrow
<1>4. CASE records' = records
  BY <1>3, <1>4, RecordsStaySound
<1>5. CASE records' = records \cup {NewRecord(a)}
  <2> DEFINE r == NewRecord(a)
  <2>1. \A ref : RefOk(ref)' <=> RefOk(ref)
    BY <1>1 DEF RefOk
  <2>2. RecordsTyped'
    BY <1>1, <1>5, NewRecordFacts DEF SoundInv, TypeInv, RecordsTyped
  <2>3. FactsAreSupported'
    BY <1>1, <1>5, NewRecordFacts DEF SoundInv, FactsAreSupported, RenderRecordClaim
  <2>4. AttestationsAreCoherent'
    BY <1>1, <1>5, NewRecordFacts DEF SoundInv, AttestationsAreCoherent
  <2>5. RefsPointAtEntities'
    <3> SUFFICES ASSUME NEW s \in records'
                 PROVE  /\ \A ref \in s.refs : RefOk(ref)'
                        /\ {ref.key : ref \in s.refs} = {Canonical[s.cites[i]] : i \in DOMAIN s.cites}
      BY DEF RefsPointAtEntities
    <3>1. CASE s \in records
      BY <2>1, <3>1 DEF SoundInv, RefsPointAtEntities
    <3>2. CASE s = NewRecord(a)
      BY <1>1, <2>1, <3>2, NewRecordFacts
    <3> QED BY <1>5, <3>1, <3>2
  <2> QED BY <2>2, <2>3, <2>4, <2>5 DEF RecordsAreSound
<1> QED BY <1>2, <1>4, <1>5

-----------------------------------------------------------------------------
(* The invariant is inductive.                                             *)

(* Nothing is in flight and nothing is stored. *)
LEMMA SoundInit == Init => SoundInv
<1> SUFFICES ASSUME Init PROVE SoundInv
  OBVIOUS
<1>1. MapTyped
  <2>1. held \in [Agents -> Held] /\ focus \in [Agents -> Chunks \cup {None}]
    BY DEF Init, Held
  <2>2. corpus \in [Chunks -> Versions \cup {Gone}]
    BY VersionsAssumption DEF Init
  <2>3. MapTypeOK
    <3>1. <<>> \in Seq(Chunks)
      OBVIOUS
    <3> QED BY <3>1 DEF Init, MapInit, MapTypeOK
  <2>4. lastRead \in [Workstreams -> Agents \cup {None}]
    BY DEF Init
  <2> QED BY <2>1, <2>2, <2>3, <2>4 DEF MapTyped
<1>2. RegistryTyped
  BY DEF Init, RegistryTyped, Resolver!Init, Resolver!TypeOK, RegistryReady
<1>3. CallsTyped
  BY NoWorkTyped DEF Init, CallsTyped
<1>4. \A a \in Agents : Sound(a)
  BY DEF Init, Resolver!Init, NoWork, Sound, Framed, OfOneText, PassedTheGate, CitesInOrder, Citing
<1>5. RecordsAreSound
  BY DEF Init, RecordsAreSound, RecordsTyped, FactsAreSupported, AttestationsAreCoherent,
         RefsPointAtEntities
<1> QED BY <1>1, <1>2, <1>3, <1>4, <1>5 DEF SoundInv, TypeInv, RecordsAreSound

(* One call's step keeps all calls sound. *)
LEMMA CallStepKeepsSound ==
  ASSUME SoundInv, NEW a \in Agents, StepIsSound(a), MapTyped', RecordsAreSound'
  PROVE  SoundInv'
<1>1. \A b \in Agents : Sound(b)'
  BY OthersStaySound DEF StepIsSound
<1> QED BY <1>1 DEF StepIsSound, SoundInv, TypeInv, RecordsAreSound

(* A restart drops calls and tables, and no row. *)
LEMMA RestartKeepsSound ==
  ASSUME SoundInv, Restart
  PROVE  SoundInv' /\ RowsGrow
<1>1. MapTyped'
  <2>1. held' \in [Agents -> Held]
    BY DEF SoundInv, TypeInv, MapTyped, Restart, Held
  <2> QED BY <2>1 DEF SoundInv, TypeInv, MapTyped, MapTypeOK, Restart
<1>2. RegistryTyped' /\ RowsGrow
  BY DEF SoundInv, TypeInv, RegistryTyped, Restart, Resolver!TypeOK, RegistryReady, RowsGrow
<1>3. CallsTyped'
  BY NoWorkTyped DEF CallsTyped, Restart
<1>4. \A a \in Agents : Sound(a)'
  BY DEF Restart, NoWork, Sound, Framed, OfOneText, PassedTheGate, CitesInOrder, Citing
<1>5. RecordsAreSound'
  BY <1>2, RecordsStaySound DEF Restart
<1> QED BY <1>1, <1>2, <1>3, <1>4, <1>5 DEF SoundInv, TypeInv, RecordsAreSound

(* Steps that touch neither calls nor rows: reads, corpus edits, stuttering. *)
LEMMA AsideKeepsSound ==
  ASSUME SoundInv, MapTyped', UNCHANGED <<callVars, records, registryVars>>
  PROVE  SoundInv' /\ RowsGrow
<1>1. /\ UNCHANGED <<pc, call, work, answer, records>>
      /\ UNCHANGED <<entity, rpc, task, resolved, seen>>
  BY DEF callVars, registryVars
<1>2. RegistryTyped' /\ RowsGrow
  BY <1>1 DEF SoundInv, TypeInv, RegistryTyped, Resolver!TypeOK, RegistryReady, Resolver!Key, RowsGrow
<1>3. RecordsAreSound'
  BY <1>1, <1>2, RecordsStaySound
<1>4. CallsTyped'
  BY <1>1 DEF SoundInv, TypeInv, CallsTyped
<1>5. ASSUME NEW a \in Agents PROVE Sound(a)'
  <2>1. Framed(a)' /\ OfOneText(a)' /\ PassedTheGate(a)'
    BY <1>1 DEF SoundInv, Sound, Framed, OfOneText, PassedTheGate
  <2>2. CitesInOrder(a)'
    BY <1>1 DEF SoundInv, Sound, CitesInOrder, Taken, RefOk
  <2> QED BY <2>1, <2>2 DEF Sound
<1> QED BY <1>2, <1>3, <1>4, <1>5 DEF SoundInv, TypeInv, RecordsAreSound

(* A corpus edit. *)
LEMMA EditTyped ==
  ASSUME MapTyped, NEW k \in Chunks, EditCorpus(k)
  PROVE  MapTyped'
<1>1. corpus' \in [Chunks -> Versions \cup {Gone}]
  BY DEF EditCorpus, MapTyped
<1> QED BY <1>1 DEF EditCorpus, MapTyped, MapTypeOK, mapVars, agentVars

(* Every step. *)
LEMMA SoundStep ==
  ASSUME SoundInv, [Next]_vars
  PROVE  SoundInv'
<1>1. CASE \E a \in Agents : Step(a) \/ Abort(a) \/ CallMalformed(a)
  <2>1. PICK a \in Agents : Step(a) \/ Abort(a) \/ CallMalformed(a)
    BY <1>1
  <2>2. StepIsSound(a) /\ RowsGrow
    BY <2>1, StepsAreSound DEF StepIsSound
  <2>3. UNCHANGED <<mapVars, corpus, agentVars>>
    BY <2>1 DEF Step, ResolveFragment, LoadAndSlice, Judge, CiteNext, CiteStep, CiteDone,
                CiteRaised, InsertRecord, Abort, CallMalformed
  <2>4. MapTyped'
    BY <2>3 DEF SoundInv, TypeInv, MapTyped, MapTypeOK, mapVars, agentVars
  <2>5. CASE InsertRecord(a)
    BY <2>2, <2>4, <2>5, InsertKeepsRecordsSound, CallStepKeepsSound
  <2>6. CASE ~InsertRecord(a)
    <3>1. records' = records
      BY <2>1, <2>6 DEF Step, ResolveFragment, LoadAndSlice, Judge, CiteNext, CiteStep, CiteDone,
                        CiteRaised, Abort, CallMalformed
    <3> QED BY <2>2, <2>4, <3>1, RecordsStaySound, CallStepKeepsSound
  <2> QED BY <2>5, <2>6
<1>2. CASE \E a \in Agents : \E p \in Payload : Call(a, p)
  <2>1. PICK a \in Agents, p \in Payload : Call(a, p)
    BY <1>2
  <2>2. StepIsSound(a) /\ RowsGrow
    BY <2>1, CallIsSound DEF StepIsSound
  <2>3. MapTyped' /\ records' = records
    BY <2>1 DEF Call, SoundInv, TypeInv, MapTyped, MapTypeOK, mapVars, agentVars
  <2> QED BY <2>2, <2>3, RecordsStaySound, CallStepKeepsSound
<1>3. CASE \E a \in Agents : \/ \E k \in Chunks : GetChunk(a, k)
                            \/ \E k, n \in Chunks : GetNeighbors(a, k, n)
  <2>1. MapTyped' /\ UNCHANGED <<callVars, records, registryVars>>
    BY <1>3, ReadFacts DEF SoundInv, TypeInv
  <2> QED BY <2>1, AsideKeepsSound
<1>4. CASE Restart
  BY <1>4, RestartKeepsSound
<1>5. CASE \E k \in Chunks : EditCorpus(k)
  <2>1. MapTyped' /\ UNCHANGED <<callVars, records, registryVars>>
    BY <1>5, EditTyped DEF SoundInv, TypeInv, EditCorpus
  <2> QED BY <2>1, AsideKeepsSound
<1>6. CASE UNCHANGED vars
  <2>1. MapTyped' /\ UNCHANGED <<callVars, records, registryVars>>
    BY <1>6 DEF vars, SoundInv, TypeInv, MapTyped, MapTypeOK, mapVars, agentVars
  <2> QED BY <2>1, AsideKeepsSound
<1> QED BY <1>1, <1>2, <1>3, <1>4, <1>5, <1>6 DEF Next

-----------------------------------------------------------------------------
(* Whatever the agents, the corpus owner, the judge's refusals, the errors *)
(* and the restarts do, a call between its load and its INSERT describes   *)
(* one loaded text, and every stored record is true to one.                *)
THEOREM Soundness == Spec => []SoundInv
BY SoundInit, SoundStep, PTL DEF Spec

(* The shape of the state of the write boundary, for any number of agents. *)
THEOREM TypesHold == Spec => []TypeOK
<1>1. SoundInv => TypeOK
  BY DEF SoundInv, TypeInv, MapTyped, RegistryTyped, CallsTyped, RecordsTyped, TypeOK, Held
<1> QED BY <1>1, Soundness, PTL

(* Nothing ungrounded is stored as grounded (write_enrichment steps 5-10):  *)
(* the span stored with a record supports what was judged of it, unless it  *)
(* is flagged, and no fact is; for every interleaving, restart and edit.    *)
THEOREM FactsSupported == Spec => []FactsAreSupported
BY Soundness, PTL DEF SoundInv

(* A record's chunk, offsets, span and hashes are of one loaded text, in    *)
(* every corpus that may change between any two steps of a write.           *)
THEOREM AttestationsCoherent == Spec => []AttestationsAreCoherent
BY Soundness, PTL DEF SoundInv

(* The entity refs frozen into write-once records stay right, and every     *)
(* cited surface has one, for any number of writers of the same Entities.   *)
THEOREM RefsRight == Spec => []RefsPointAtEntities
BY Soundness, PTL DEF SoundInv

-----------------------------------------------------------------------------
(* What becomes of the record an Entity was created under.                 *)

(* resolve_or_create adds a row under the id it was called with. *)
LEMMA NewRowsAreOfTheTask ==
  ASSUME RegistryTyped, NEW a \in Agents, Resolver!Resolve(a), NEW k \in Surfaces,
         entity[k] = None, entity'[k] # None
  PROVE  rpc[a] \in {"find", "alias", "insert"} /\ entity'[k].first = task[a].record
<1>1. rpc[a] \in {"find", "alias", "insert"}
  BY DEF Resolver!Resolve, Resolver!Find, Resolver!AddAlias, Resolver!Insert
<1>2. Resolver!Key(a) \in Surfaces /\ DOMAIN entity = Surfaces
  BY <1>1, TaskTyped DEF RegistryTyped, Resolver!TypeOK
<1>3. ~Resolver!Find(a)
  BY DEF Resolver!Find
<1>4. ~Resolver!AddAlias(a)
  <2> SUFFICES ASSUME Resolver!AddAlias(a) PROVE FALSE
    OBVIOUS
  <2>1. entity[Resolver!Key(a)] # None
    BY DEF Resolver!AddAlias, RegistryTyped, RegistryReady
  <2>2. k # Resolver!Key(a) => entity'[k] = entity[k]
    BY <1>2 DEF Resolver!AddAlias
  <2> QED BY <2>1, <2>2
<1>5. Resolver!Insert(a)
  BY <1>3, <1>4 DEF Resolver!Resolve
<1>6. entity' = [entity EXCEPT ![Resolver!Key(a)] = Resolver!NewRow(a)]
  BY <1>5 DEF Resolver!Insert
<1>7. k = Resolver!Key(a) /\ entity'[k] = Resolver!NewRow(a)
  BY <1>2, <1>6
<1> QED BY <1>1, <1>7 DEF Resolver!NewRow

(* A call keeps its record's id until it raises or has stored the record. *)
LEMMA IdsStay ==
  ASSUME SoundInv, NEW a \in Agents, Step(a) \/ Abort(a) \/ CallMalformed(a),
         NEW b \in Agents, work[b].id # None
  PROVE  \/ work'[b].id = work[b].id
         \/ b = a /\ Idle(a, "raised")
         \/ \E r \in records' : r.id = work[b].id
<1>1. CASE b # a
  BY <1>1, StepsAreSound DEF StepIsSound, OthersGoOn
<1>2. CASE b = a
  <2>1. pc[a] \in Citing
    BY <1>2 DEF SoundInv, Sound, Framed
  <2>2. ~ResolveFragment(a) /\ ~LoadAndSlice(a) /\ ~Judge(a) /\ ~CallMalformed(a)
    BY <2>1 DEF Citing, ResolveFragment, LoadAndSlice, Judge, CallMalformed
  <2>3. work[a] \in Work /\ DOMAIN work = Agents
    BY DEF SoundInv, TypeInv, CallsTyped
  <2>4. CASE CiteNext(a) \/ CiteDone(a) \/ CiteStep(a)
    BY <1>2, <2>3, <2>4 DEF CiteNext, CiteDone, CiteStep, Goto, callVars, Work
  <2>5. CASE CiteRaised(a) \/ Abort(a)
    BY <1>2, <2>5 DEF CiteRaised, Abort
  <2>6. CASE InsertRecord(a)
    <3>1. Idle(a, "raised") \/ records' = records \cup {NewRecord(a)}
      BY <2>6 DEF InsertRecord
    <3>2. NewRecord(a).id = work[a].id
      BY DEF NewRecord, RecordRow
    <3>3. records' = records \cup {NewRecord(a)} => NewRecord(a) \in records'
      OBVIOUS
    <3> QED BY <1>2, <3>1, <3>2, <3>3
  <2> QED BY <2>2, <2>4, <2>5, <2>6 DEF Step
<1> QED BY <1>1, <1>2

\* What has become of the record id.
Accounted(id) ==
  \/ \E r \in records : r.id = id
  \/ \E a \in Agents : work[a].id = id
  \/ id \in givenUp

(* A step of a call accounts for the record of every Entity there was. *)
LEMMA CallsAccount ==
  ASSUME SoundInv, NEW a \in Agents, Step(a) \/ Abort(a) \/ CallMalformed(a),
         NEW k \in Surfaces, entity[k] # None, Accounted(entity[k].first)
  PROVE  Accounted(entity[k].first)'
<1> DEFINE f == entity[k].first
<1>1. f \in RecordIds /\ f # None
  BY RowTyped, NoneAssumption DEF SoundInv, TypeInv
<1>2. entity'[k].first = f
  BY StepsAreSound DEF StepIsSound, RowsGrow
<1>3. records \subseteq records'
  BY DEF Step, ResolveFragment, LoadAndSlice, Judge, CiteNext, CiteStep, CiteDone, CiteRaised,
         InsertRecord, Abort, CallMalformed
<1>4. givenUp \subseteq givenUp'
  BY DEF Step, ResolveFragment, LoadAndSlice, Judge, CiteNext, CiteStep, CiteDone, CiteRaised,
         InsertRecord, Abort, CallMalformed, Idle, Goto, callVars
<1>5. CASE \E b \in Agents : work[b].id = f
  <2>1. PICK b \in Agents : work[b].id = f
    BY <1>5
  <2>2. \/ work'[b].id = f
        \/ b = a /\ Idle(a, "raised")
        \/ \E r \in records' : r.id = f
    BY <1>1, <2>1, IdsStay
  <2>3. CASE b = a /\ Idle(a, "raised")
    <3>1. f \in Created(a)
      BY <2>1, <2>3 DEF Created
    <3> HIDE DEF f
    <3> QED BY <1>2, <2>3, <3>1 DEF Idle, Accounted
  <2> HIDE DEF f
  <2> QED BY <1>2, <2>2, <2>3 DEF Accounted
<1> HIDE DEF f
<1>6. CASE (\E r \in records : r.id = f) \/ f \in givenUp
  BY <1>2, <1>3, <1>4, <1>6 DEF Accounted
<1> QED BY <1>5, <1>6 DEF Accounted, f

(* So does a restart, which gives up the records of the calls it cuts off. *)
LEMMA RestartAccounts ==
  ASSUME Restart, NEW k \in Surfaces, entity[k] # None, Accounted(entity[k].first)
  PROVE  Accounted(entity[k].first)'
<1>1. entity' = entity /\ records' = records /\ givenUp' = givenUp \cup UNION {Created(a) : a \in Agents}
  BY DEF Restart
<1>2. CASE \E a \in Agents : work[a].id = entity[k].first
  <2>1. PICK a \in Agents : work[a].id = entity[k].first
    BY <1>2
  <2>2. entity[k].first \in Created(a)
    BY <2>1 DEF Created
  <2> QED BY <1>1, <2>2 DEF Accounted
<1> QED BY <1>1, <1>2 DEF Accounted

(* Every step. *)
LEMMA FirstSeenStep ==
  ASSUME SoundInv, FirstSeenRecordsExist, [Next]_vars
  PROVE  FirstSeenRecordsExist'
<1> SUFFICES ASSUME NEW k \in Surfaces, entity'[k] # None
             PROVE  Accounted(entity[k].first)'
  BY DEF FirstSeenRecordsExist, Accounted
<1>1. entity[k] # None => Accounted(entity[k].first)
  BY DEF FirstSeenRecordsExist, Accounted
<1>2. ASSUME NEW a \in Agents, Step(a) \/ Abort(a) \/ CallMalformed(a)
      PROVE  Accounted(entity[k].first)'
  <2>1. CASE entity[k] # None
    BY <1>1, <1>2, <2>1, CallsAccount
  <2>2. CASE entity[k] = None
    <3>1. CiteStep(a)
      BY <1>2, <2>2 DEF Step, ResolveFragment, LoadAndSlice, Judge, CiteNext, CiteDone, CiteRaised,
                        InsertRecord, Abort, CallMalformed, registryVars, Resolver!Begin, Resolver!Quit
    <3>2. pc[a] = "resolving" /\ pc[a] \in Citing /\ Resolver!Resolve(a) /\ work' = work
      BY <3>1 DEF CiteStep, Citing, callVars
    <3>3. rpc[a] \in {"find", "alias", "insert"} /\ entity'[k].first = task[a].record
      BY <2>2, <3>2, NewRowsAreOfTheTask DEF SoundInv, TypeInv
    <3>4. task[a].record = work[a].id
      BY <3>2, <3>3 DEF SoundInv, Sound, CitesInOrder
    <3> QED BY <3>2, <3>3, <3>4 DEF Accounted
  <2> QED BY <2>1, <2>2
<1>3. CASE Restart
  <2>1. entity[k] # None
    BY <1>3 DEF Restart
  <2> QED BY <1>1, <1>3, <2>1, RestartAccounts
<1>4. ASSUME NEW a \in Agents, NEW p \in Payload, Call(a, p)
      PROVE  Accounted(entity[k].first)'
  <2>1. entity' = entity /\ records' = records /\ givenUp' = givenUp
    BY <1>4 DEF Call, registryVars
  <2>2. entity[k].first # None
    BY <2>1, RowTyped, NoneAssumption DEF SoundInv, TypeInv
  <2>3. work[a].id = None /\ \A b \in Agents \ {a} : work'[b] = work[b]
    BY <1>4 DEF Call, SoundInv, TypeInv, CallsTyped, Sound, Framed, Citing
  <2> QED BY <1>1, <2>1, <2>2, <2>3 DEF Accounted
<1>5. CASE UNCHANGED <<callVars, records, registryVars>>
  BY <1>1, <1>5 DEF callVars, registryVars, Accounted
<1> QED BY <1>2, <1>3, <1>4, <1>5 DEF Next, vars, GetChunk, GetNeighbors, EditCorpus

(* An Entity's first_seen_record is stored, or the write that created the   *)
(* Entity is under way, or that write raised or was cut off by a restart:   *)
(* no write that answers leaves an Entity that names a record of nobody's.  *)
(* A write that raises may: step 9 makes Entities, step 10 the record.      *)
THEOREM FirstSeenExist == Spec => []FirstSeenRecordsExist
<1>1. Init => FirstSeenRecordsExist
  BY DEF Init, Resolver!Init, FirstSeenRecordsExist
<1>2. SoundInv /\ FirstSeenRecordsExist /\ [Next]_vars => FirstSeenRecordsExist'
  BY FirstSeenStep
<1> QED BY <1>1, <1>2, Soundness, PTL DEF Spec

-----------------------------------------------------------------------------
(* What agents point at.                                                   *)

(* A call's own steps leave what agents remember, and the tables, alone.    *)
LEMMA CallsLeaveTables ==
  ASSUME NEW a \in Agents, Step(a) \/ Abort(a) \/ CallMalformed(a) \/ \E p \in Payload : Call(a, p)
  PROVE  UNCHANGED <<handles, current, held, focus, lastRead>>
BY DEF Step, ResolveFragment, LoadAndSlice, Judge, CiteNext, CiteStep, CiteDone, CiteRaised,
       InsertRecord, Abort, CallMalformed, Call, mapVars, agentVars

(* Tables only grow until a restart, after which no handle is fresh. *)
LEMMA HeldStep ==
  ASSUME HeldInv, [Next]_vars
  PROVE  \A a \in Agents : HeldIsMinted(a)'
<1>1. CASE UNCHANGED <<handles, held>>
  BY <1>1 DEF HeldInv, HeldIsMinted
<1>2. CASE \E a \in Agents : \/ \E k \in Chunks : GetChunk(a, k)
                            \/ \E k, n \in Chunks : GetNeighbors(a, k, n)
  <2>1. TablesGrow /\ \A b \in Agents : held'[b] = held[b] \/ HeldIsMinted(b)'
    BY <1>2, ReadFacts DEF HeldInv, SoundInv, TypeInv
  <2>2. \A b \in Agents : held'[b] = held[b] => HeldIsMinted(b)'
    BY <2>1, AgentsAssumption DEF TablesGrow, HeldInv, HeldIsMinted
  <2> QED BY <2>1, <2>2
<1>3. CASE Restart
  BY <1>3 DEF Restart, HeldIsMinted, HeldInv, SoundInv, TypeInv, MapTyped, Held
<1> QED BY <1>1, <1>2, <1>3, CallsLeaveTables DEF Next, vars, mapVars, agentVars, EditCorpus

(* Held handles are positions of the table, always. *)
LEMMA HeldHolds == Spec => []HeldInv
<1>1. Init => HeldInv
  BY SoundInit DEF Init, HeldInv, HeldIsMinted
<1>2. HeldInv /\ [Next]_vars => HeldInv'
  BY SoundStep, HeldStep DEF HeldInv
<1> QED BY <1>1, <1>2, PTL DEF Spec

(* A handle keeps naming the Fragment it was shown for, for as long as the *)
(* server runs and however many agents mint handles in the workstream.     *)
THEOREM HandlesResolve == Spec => []HeldHandlesResolve
<1>1. HeldInv => HeldHandlesResolve
  BY DEF HeldInv, HeldIsMinted, HeldHandlesResolve, Lookup
<1> QED BY <1>1, HeldHolds, PTL

(* The chunk a call resolves its reference to is the one its agent meant, if *)
(* the call sends a handle or nobody has read since its agent.               *)
LEMMA ResolvedIsMeant ==
  ASSUME NEW a \in Agents, NEW p \in Payload, HeldIsMinted(a), CurrentIsFocus(a),
         Meant(a, p) # None, ~Slip(a, p), ResolvedChunk(WsOf[a], p) # None,
         p.handle # None \/ lastRead[WsOf[a]] = a
  PROVE  ResolvedChunk(WsOf[a], p) = Meant(a, p)
<1>1. p.echo = None
  BY DEF Meant
<1>2. CASE p.handle # None
  BY <1>1, <1>2 DEF Meant, Slip, HeldIsMinted, ResolvedChunk, Vouched, Lookup
<1>3. CASE p.handle = None
  BY <1>1, <1>3 DEF Meant, CurrentIsFocus, ResolvedChunk, Vouched
<1> QED BY <1>2, <1>3

(* Once resolved, a call's reference is not looked at again.               *)
LEMMA MeaningStays ==
  ASSUME SoundInv, NEW a \in Agents, Step(a) \/ Abort(a) \/ CallMalformed(a), ~ResolveFragment(a)
  PROVE  \/ pc'[a] = "idle"
         \/ /\ pc[a] \in Placed /\ pc'[a] \in Placed
            /\ work'[a].meant = work[a].meant /\ work'[a].slip = work[a].slip
            /\ work'[a].chunk = work[a].chunk /\ work'[a].overtaken = work[a].overtaken
<1>1. work[a] \in Work
  BY DEF SoundInv, TypeInv, CallsTyped
<1>2. DOMAIN pc = Agents /\ DOMAIN work = Agents
  BY DEF SoundInv, TypeInv, CallsTyped
<1>3. (\E reply : Idle(a, reply)) => pc'[a] = "idle"
  BY <1>2 DEF Idle
<1> DEFINE Kept(w) ==
             /\ w.meant = work[a].meant /\ w.slip = work[a].slip
             /\ w.chunk = work[a].chunk /\ w.overtaken = work[a].overtaken
<1>4. ASSUME NEW step \in Placed, NEW w, Goto(a, step, w), Kept(w)
      PROVE  pc'[a] \in Placed /\ Kept(work'[a])
  BY <1>2, <1>4 DEF Goto
<1>5. CASE LoadAndSlice(a)
  <2>1. \A text, span : Kept([work[a] EXCEPT !.text = text, !.span = span])
    BY <1>1 DEF Work
  <2>2. pc[a] \in Placed
    BY <1>5 DEF LoadAndSlice, Placed
  <2> HIDE DEF Kept
  <2>3. \/ \E reply : Idle(a, reply)
        \/ \E text, span : Goto(a, "judge", [work[a] EXCEPT !.text = text, !.span = span])
    BY <1>5 DEF LoadAndSlice
  <2>4. pc'[a] = "idle" \/ (pc'[a] \in Placed /\ Kept(work'[a]))
    BY <1>3, <1>4, <2>1, <2>3 DEF Placed
  <2> QED BY <2>2, <2>4 DEF Kept
<1>6. CASE Judge(a)
  <2>1. \A ruling, id, todo : Kept([work[a] EXCEPT !.ruling = ruling, !.id = id, !.todo = todo])
    BY <1>1 DEF Work
  <2>2. pc[a] \in Placed
    BY <1>6 DEF Judge, Placed
  <2> HIDE DEF Kept
  <2>3. \/ \E reply : Idle(a, reply)
        \/ \E ruling, id, todo :
             Goto(a, "cite", [work[a] EXCEPT !.ruling = ruling, !.id = id, !.todo = todo])
    BY <1>6 DEF Judge
  <2>4. pc'[a] = "idle" \/ (pc'[a] \in Placed /\ Kept(work'[a]))
    BY <1>3, <1>4, <2>1, <2>3 DEF Placed, Citing
  <2> QED BY <2>2, <2>4 DEF Kept
<1>7. CASE CiteNext(a) \/ CiteDone(a)
  BY <1>1, <1>2, <1>7 DEF CiteNext, CiteDone, Goto, Work, Placed, Citing
<1>8. CASE CiteStep(a)
  BY <1>8 DEF CiteStep, callVars, Placed, Citing
<1>9. CASE InsertRecord(a) \/ Abort(a) \/ CallMalformed(a) \/ CiteRaised(a)
  BY <1>3, <1>9 DEF InsertRecord, Abort, CallMalformed, CiteRaised
<1> QED BY <1>5, <1>6, <1>7, <1>8, <1>9 DEF Step

(* A step of a call, whoever takes it, leaves every call meaning what it meant. *)
LEMMA CallsKeepPointing ==
  ASSUME PointInv, NEW a \in Agents,
         Step(a) \/ Abort(a) \/ CallMalformed(a) \/ \E p \in Payload : Call(a, p)
  PROVE  \A b \in Agents : CurrentIsFocus(b)' /\ Pointing(b)'
<1>1. UNCHANGED <<handles, current, held, focus, lastRead>>
  BY CallsLeaveTables
<1>2. SoundInv /\ StepIsSound(a)
  BY StepsAreSound, CallIsSound DEF PointInv, HeldInv
<1>3. DOMAIN pc = Agents /\ DOMAIN work = Agents /\ DOMAIN call = Agents /\ work[a] \in Work
  BY <1>2 DEF SoundInv, TypeInv, CallsTyped
<1>4. \A b \in Agents : CurrentIsFocus(b)'
  BY <1>1 DEF PointInv, CurrentIsFocus
<1>5. \A b \in Agents \ {a} : Pointing(b)'
  BY <1>1, <1>2 DEF StepIsSound, OthersGoOn, PointInv, Pointing, Meant, Slip
<1>6. Pointing(a)'
  <2>1. CASE \E p \in Payload : Call(a, p)
    <3>1. PICK p \in Payload : Call(a, p)
      BY <2>1
    <3>2. /\ pc'[a] = "resolve" /\ call'[a] = p
          /\ work'[a] = [NoWork EXCEPT !.meant = Meant(a, p), !.slip = Slip(a, p)]
      BY <1>3, <3>1 DEF Call
    <3>3. work'[a].meant = Meant(a, p) /\ work'[a].slip = Slip(a, p)
      BY <3>2 DEF NoWork
    <3> QED BY <1>1, <3>2, <3>3 DEF Pointing, Placed, Citing, Meant, Slip
  <2>2. CASE ResolveFragment(a)
    <3> DEFINE k == ResolvedChunk(WsOf[a], call[a])
               o == call[a].handle = None /\ lastRead[WsOf[a]] # a
    <3>1. pc[a] = "resolve" /\ call[a] \in Payload
      BY <1>2, <2>2 DEF ResolveFragment, SoundInv, Sound, Framed
    <3>2. work[a].meant = Meant(a, call[a]) /\ work[a].slip = Slip(a, call[a])
      BY <3>1 DEF PointInv, Pointing
    <3>3. HeldIsMinted(a) /\ CurrentIsFocus(a)
      BY DEF PointInv, HeldInv
    <3>4. CASE k = None
      <4>1. pc'[a] = "idle"
        BY <1>3, <2>2, <3>4 DEF ResolveFragment, Idle
      <4> QED BY <4>1 DEF Pointing, Placed, Citing
    <3>5. CASE k # None
      <4>1. pc'[a] = "load" /\ work'[a] = [work[a] EXCEPT !.chunk = k, !.overtaken = o]
        BY <1>3, <2>2, <3>5 DEF ResolveFragment, Goto
      <4>2. /\ work'[a].chunk = k /\ work'[a].overtaken = o
            /\ work'[a].meant = work[a].meant /\ work'[a].slip = work[a].slip
        BY <1>3, <4>1 DEF Work
      <4>3. work[a].meant # None /\ ~work[a].slip /\ ~o => k = work[a].meant
        BY <3>1, <3>2, <3>3, <3>5, ResolvedIsMeant
      <4> HIDE DEF k, o
      <4> QED BY <4>1, <4>2, <4>3 DEF Pointing
    <3> QED BY <3>4, <3>5
  <2>3. CASE (Step(a) \/ Abort(a) \/ CallMalformed(a)) /\ ~ResolveFragment(a)
    <3>1. \/ pc'[a] = "idle"
          \/ /\ pc[a] \in Placed /\ pc'[a] \in Placed
             /\ work'[a].meant = work[a].meant /\ work'[a].slip = work[a].slip
             /\ work'[a].chunk = work[a].chunk /\ work'[a].overtaken = work[a].overtaken
      BY <1>2, <2>3, MeaningStays
    <3> QED BY <3>1 DEF PointInv, Pointing, Placed, Citing
  <2> QED BY <2>1, <2>2, <2>3
<1> QED BY <1>4, <1>5, <1>6

(* An agent reads between its calls, and is the last to have read then. *)
LEMMA ReadsKeepPointing ==
  ASSUME PointInv, NEW a \in Agents,
         \/ \E k \in Chunks : GetChunk(a, k)
         \/ \E k, n \in Chunks : GetNeighbors(a, k, n)
  PROVE  \A b \in Agents : CurrentIsFocus(b)' /\ Pointing(b)'
<1>1. MapTyped
  BY DEF PointInv, HeldInv, SoundInv, TypeInv
<1>2. pc[a] = "idle" /\ UNCHANGED <<pc, call, work>>
  BY DEF GetChunk, GetNeighbors, callVars
<1>3. \A b \in Agents \ {a} : held'[b] = held[b] /\ focus'[b] = focus[b]
  BY <1>1 DEF GetChunk, GetNeighbors, Remember, MapTyped
<1>4. ASSUME NEW b \in Agents
      PROVE  CurrentIsFocus(b)'
  <2>1. CASE \E k \in Chunks : GetChunk(a, k)
    <3>1. PICK k \in Chunks : GetChunk(a, k)
      BY <2>1
    <3>2. /\ current' = [current EXCEPT ![WsOf[a]] = k] /\ focus' = [focus EXCEPT ![a] = k]
          /\ lastRead' = [lastRead EXCEPT ![WsOf[a]] = a]
      BY <3>1 DEF GetChunk
    <3>3. /\ DOMAIN current = Workstreams /\ DOMAIN lastRead = Workstreams /\ DOMAIN focus = Agents
          /\ WsOf[a] \in Workstreams /\ WsOf[b] \in Workstreams
      BY <1>1, AgentsAssumption DEF MapTyped, MapTypeOK
    <3>4. CASE WsOf[b] = WsOf[a]
      BY <3>2, <3>3, <3>4 DEF CurrentIsFocus
    <3>5. CASE WsOf[b] # WsOf[a]
      BY <3>2, <3>3, <3>5 DEF PointInv, CurrentIsFocus
    <3> QED BY <3>4, <3>5
  <2>2. CASE \E k, n \in Chunks : GetNeighbors(a, k, n)
    BY <2>2 DEF GetNeighbors, PointInv, CurrentIsFocus
  <2> QED BY <2>1, <2>2
<1>5. ASSUME NEW b \in Agents
      PROVE  Pointing(b)'
  <2>1. CASE b = a
    BY <1>2, <2>1 DEF Pointing, Placed, Citing
  <2>2. CASE b # a
    BY <1>2, <1>3, <2>2 DEF PointInv, Pointing, Meant, Slip
  <2> QED BY <2>1, <2>2
<1> QED BY <1>4, <1>5

(* Every step. *)
LEMMA PointStep ==
  ASSUME PointInv, [Next]_vars
  PROVE  PointInv'
<1>1. HeldInv'
  BY SoundStep, HeldStep DEF PointInv, HeldInv
<1>2. \A b \in Agents : CurrentIsFocus(b)' /\ Pointing(b)'
  <2>1. CASE \E a \in Agents : Step(a) \/ Abort(a) \/ CallMalformed(a) \/ \E p \in Payload : Call(a, p)
    BY <2>1, CallsKeepPointing
  <2>2. CASE \E a \in Agents : \/ \E k \in Chunks : GetChunk(a, k)
                              \/ \E k, n \in Chunks : GetNeighbors(a, k, n)
    BY <2>2, ReadsKeepPointing
  <2>3. CASE Restart
    BY <2>3, AgentsAssumption DEF Restart, CurrentIsFocus, Pointing, Placed, Citing
  <2>4. CASE UNCHANGED <<mapVars, agentVars, callVars>>
    BY <2>4 DEF mapVars, agentVars, callVars, PointInv, CurrentIsFocus, Pointing, Meant, Slip
  <2> QED BY <2>1, <2>2, <2>3, <2>4 DEF Next, vars, EditCorpus
<1>3. PointsHitTheFragmentMeant'
  <2>1. CASE records' = records
    BY <2>1 DEF PointInv, PointsHitTheFragmentMeant
  <2>2. ASSUME NEW a \in Agents, InsertRecord(a)
        PROVE  PointsHitTheFragmentMeant'
    <3>1. pc[a] \in Placed
      BY <2>2 DEF InsertRecord, Placed, Citing
    <3>2. LET r == NewRecord(a)
          IN  r.meant # None /\ ~r.slip /\ r.chunk # r.meant => r.overtaken
      BY <3>1 DEF NewRecord, RecordRow, PointInv, Pointing
    <3>3. records' = records \/ records' = records \cup {NewRecord(a)}
      BY <2>2 DEF InsertRecord
    <3> QED BY <3>2, <3>3 DEF PointInv, PointsHitTheFragmentMeant
  <2>3. records' = records \/ \E a \in Agents : InsertRecord(a)
    BY DEF vars, Next, Step, GetChunk, GetNeighbors, Call, CallMalformed, ResolveFragment,
           LoadAndSlice, Judge, CiteNext, CiteStep, CiteDone, CiteRaised, Abort, Restart, EditCorpus
  <2> QED BY <2>1, <2>2, <2>3
<1> QED BY <1>1, <1>2, <1>3 DEF PointInv

(* Where a reference leads in a workstream any number of agents share, as   *)
(* mcp.py's default makes them: a handle leads where it was shown to lead,  *)
(* whoever reads in between; no reference at all leads to its agent's last  *)
(* get_chunk unless another agent of the workstream has called it since.    *)
THEOREM PointsHit == Spec => []PointsHitTheFragmentMeant
<1>1. Init => PointInv
  BY SoundInit, AgentsAssumption
  DEF Init, MapInit, PointInv, HeldInv, HeldIsMinted, CurrentIsFocus, Pointing, Placed, Citing,
      PointsHitTheFragmentMeant
<1>2. PointInv /\ [Next]_vars => PointInv'
  BY PointStep
<1>3. PointInv => PointsHitTheFragmentMeant
  BY DEF PointInv
<1> QED BY <1>1, <1>2, <1>3, PTL DEF Spec

=============================================================================
