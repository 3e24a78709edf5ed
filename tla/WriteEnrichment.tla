--------------------------- MODULE WriteEnrichment ---------------------------
(***************************************************************************)
(* The write boundary: get_chunk and get_neighbors (read_tools.py) and     *)
(* WriteEnrichment.write (write_enrichment.py) over the shared HandleMap,  *)
(* the grounding core, the EntityResolver and the record store, as the MCP *)
(* server (mcp.py) exposes them to model-driven agents.                    *)
(*                                                                         *)
(* The pipeline short-circuits: a GroundingError becomes an answer with a  *)
(* reason code; any other exception escapes the tool ("raised").  A call   *)
(* holds no lock and no transaction from one step to the next, so other    *)
(* calls, corpus updates, and a restart of the server fall in between.     *)
(***************************************************************************)
EXTENDS HandleMap, GroundingCore

CONSTANTS
  Agents,      \* models in a tool loop, each making one call at a time
  WsOf,        \* [Agents -> Workstreams]: the workstream_id an agent passes
  Versions,    \* versions a chunk's text goes through, 0 first
  Gone,        \* the version of a chunk deleted from claim_chunks
  Handles,     \* handle numbers a model may send
  Echoes,      \* chunk_id texts a model may send: chunks and mangled ids
  Claims,      \* what a payload may assert
  Notes,       \* the claim_relevance texts a payload may add, a subset of Claims
  Support,     \* what each span literally supports, of claims and of cited surfaces
  Surfaces, Canonical,   \* see EntityResolver
  Citations,   \* the sequences of surfaces (actor, then date) a payload cites
  RecordIds,   \* bound: the records that pass the gate in a behaviour
  FragmentFK,  \* whether the optional migration 005 is applied
  Faults       \* what may go wrong: a subset of {"abort", "restart", "edit"}

ASSUME TextsAssumption == Texts = Chunks \X Versions /\ Gone \notin Versions
ASSUME VersionsAssumption == Versions \subseteq Nat /\ 0 \in Versions
ASSUME AgentsAssumption == WsOf \in [Agents -> Workstreams]
ASSUME SupportAssumption == Support \in [Spans -> SUBSET (Claims \cup Surfaces)]
ASSUME NotesAssumption == Notes \subseteq Claims /\ None \notin Claims
ASSUME CitationsAssumption == Citations \subseteq Seq(Surfaces)
ASSUME CanonicalAssumption == Canonical \in [Surfaces -> Surfaces]

VARIABLES
  corpus,    \* claim_chunks: each chunk's version, or Gone
  held,      \* each agent's memory: a handle it was shown, for which chunk, and
             \* (history) whether the server has run on since
  focus,     \* each agent's memory: the chunk of its last get_chunk
  lastRead,  \* history: whose get_chunk was each workstream's last
  pc,        \* where each agent's write_enrichment call stands
  call,      \* each call's payload
  work,      \* each call's locals
  answer,    \* what each agent's last call answered
  givenUp,   \* history: records whose write made an Entity, then raised or was cut off
  records,   \* enrichment_records
  entity, rpc, task, resolved, seen   \* see EntityResolver

Resolver == INSTANCE EntityResolver WITH Callers <- Agents, NoEntity <- None

ASSUME NoneAssumption == None \notin RecordIds \cup Resolver!Row

registryVars == <<entity, rpc, task, resolved, seen>>
agentVars == <<held, focus, lastRead>>
callVars == <<pc, call, work, answer, givenUp>>
vars == <<mapVars, corpus, agentVars, callVars, records, registryVars>>

-----------------------------------------------------------------------------
Payload ==
  [handle : Handles \cup {None}, echo : Echoes \cup {None}, off : Offsets,
   claim : Claims, note : Notes \cup {None}, tier : Tiers, cites : Citations]

\* The chunk the agent means: the one it was shown a handle for or, when it sends
\* no reference, the one its last get_chunk returned.  It slips when the handle
\* it sends is not the one it was shown, or was shown before a restart.
Meant(a, p) ==
  CASE p.echo # None -> None
    [] p.echo = None /\ p.handle # None -> held[a].chunk
    [] OTHER -> focus[a]
Slip(a, p) == p.handle # None /\ (p.handle # held[a].handle \/ ~held[a].fresh)

NoWork ==
  [meant |-> None, slip |-> FALSE, overtaken |-> FALSE, chunk |-> None, text |-> None,
   span |-> None, ruling |-> None, id |-> None, todo |-> <<>>, refs |-> {}]

\* The id of a's record, if an Entity was created under it.
Created(a) == {entity[k].first : k \in {j \in Surfaces : entity[j] # None}} \cap {work[a].id}

Idle(a, reply) ==
  /\ pc' = [pc EXCEPT ![a] = "idle"]
  /\ call' = [call EXCEPT ![a] = None]
  /\ work' = [work EXCEPT ![a] = NoWork]
  /\ answer' = [answer EXCEPT ![a] = reply]
  /\ givenUp' = givenUp \cup IF reply = "raised" THEN Created(a) ELSE {}

Goto(a, step, locals) ==
  /\ pc' = [pc EXCEPT ![a] = step]
  /\ work' = [work EXCEPT ![a] = locals]
  /\ UNCHANGED <<call, answer, givenUp>>

Init ==
  /\ MapInit
  /\ Resolver!Init
  /\ corpus = [k \in Chunks |-> 0]
  /\ held = [a \in Agents |-> [handle |-> None, chunk |-> None, fresh |-> TRUE]]
  /\ focus = [a \in Agents |-> None]
  /\ lastRead = [w \in Workstreams |-> None]
  /\ pc = [a \in Agents |-> "idle"]
  /\ call = [a \in Agents |-> None]
  /\ work = [a \in Agents |-> NoWork]
  /\ answer = [a \in Agents |-> "none"]
  /\ givenUp = {}
  /\ records = {}

-----------------------------------------------------------------------------
(* The read tools.  What the agent remembers is the tool's result.  The    *)
(* Fragment is read, current set and the handle minted one after the other;*)
(* nothing can use the new handle, or tell the order, in between.          *)

Shown(table, k) == [handle |-> HandleIn(table, k), chunk |-> k, fresh |-> TRUE]

\* The agent goes on with the handle it was just shown, or with an older one.
Remember(a, shown) == held' \in {[held EXCEPT ![a] = shown], held}

\* PostgresFragmentReader.get finds a row: not for an id that is of no chunk, or no uuid.
HasFragment(k) == k \in Chunks /\ corpus[k] # Gone

GetChunk(a, k) ==
  LET w == WsOf[a]
  IN  /\ pc[a] = "idle"
      /\ HasFragment(k)
      /\ current' = [current EXCEPT ![w] = k]
      /\ handles' = Mint(w, k)
      /\ Remember(a, Shown(handles'[w], k))
      /\ focus' = [focus EXCEPT ![a] = k]
      /\ lastRead' = [lastRead EXCEPT ![w] = a]
      /\ UNCHANGED <<corpus, callVars, records, registryVars>>

\* get_neighbors presents k, then n, the one the agent may go on with; or k alone.
GetNeighbors(a, k, n) ==
  LET w == WsOf[a]
  IN  /\ pc[a] = "idle"
      /\ HasFragment(k) /\ HasFragment(n)
      /\ handles' = MintBoth(w, k, n)
      /\ Remember(a, Shown(handles'[w], n))
      /\ UNCHANGED <<current, focus, lastRead, corpus, callVars, records, registryVars>>

-----------------------------------------------------------------------------
(* write_enrichment, one action per step that touches shared state.        *)

\* uuid4: an id no record, row or call in flight has.
Fresh(id) ==
  /\ \A r \in records : r.id # id
  /\ \A a \in Agents : work[a].id # id
  /\ \A k \in Surfaces : entity[k] # None => entity[k].first # id

\* Step 0: a payload of the right shape; any other is answered schema_invalid.
\* Bound: no call is made that could not store its record.
Call(a, p) ==
  /\ pc[a] = "idle"
  /\ \E id \in RecordIds : Fresh(id)
  /\ pc' = [pc EXCEPT ![a] = "resolve"]
  /\ call' = [call EXCEPT ![a] = p]
  /\ work' = [work EXCEPT ![a] = [NoWork EXCEPT !.meant = Meant(a, p),
                                             !.slip = Slip(a, p)]]
  /\ answer' = [answer EXCEPT ![a] = "none"]
  /\ UNCHANGED <<mapVars, corpus, agentVars, givenUp, records, registryVars>>

CallMalformed(a) ==
  /\ pc[a] = "idle"
  /\ Idle(a, "schema_invalid")
  /\ UNCHANGED <<mapVars, corpus, agentVars, records, registryVars>>

\* Mutant: the current Fragment wins over a handle.
VouchedCurrentFirst(w, p) ==
  IF current[w] # None THEN current[w] ELSE Lookup(w, p.handle)

\* The chunk the HandleMap vouches for: the handle's, else the current Fragment.
Vouched(w, p) == IF p.handle # None THEN Lookup(w, p.handle) ELSE current[w]

\* resolve_fragment: a handle wins and is cross-checked against an echoed id;
\* without a handle an echoed id is taken as it is (raw-id mode).
ResolvedChunk(w, p) ==
  CASE p.handle # None /\ p.echo # None /\ p.echo # Lookup(w, p.handle) -> None
    [] p.handle = None /\ p.echo # None -> p.echo
    [] OTHER -> Vouched(w, p)

\* Step 1.  Without a handle, whether another agent has read since is noted (history).
ResolveFragment(a) ==
  LET w == WsOf[a]
      k == ResolvedChunk(w, call[a])
      o == call[a].handle = None /\ lastRead[w] # a
  IN  /\ pc[a] = "resolve"
      /\ IF k = None
         THEN Idle(a, "unknown_fragment")
         ELSE Goto(a, "load", [work[a] EXCEPT !.chunk = k, !.overtaken = o])
      /\ UNCHANGED <<mapVars, corpus, agentVars, records, registryVars>>

\* Steps 2-4: load the Fragment as it is now, check the offsets, slice.
LoadAndSlice(a) ==
  LET k     == work[a].chunk
      text  == <<k, corpus[k]>>
      slice == SliceOf[text][call[a].off]
  IN  /\ pc[a] = "load"
      /\ CASE ~HasFragment(k) -> Idle(a, "fragment_not_found")
           [] HasFragment(k) /\ SliceError(slice) # "" -> Idle(a, SliceError(slice))
           [] OTHER -> Goto(a, "judge", [work[a] EXCEPT !.text = text, !.span = slice])
      /\ UNCHANGED <<mapVars, corpus, agentVars, records, registryVars>>

\* Mutant: the cited actor and date are not shown to the judge.
RenderUncited(p) ==
  {p.claim} \cup (IF p.tier = "interpretation" THEN {p.note} \ {None} ELSE {})

\* What the judge is shown of a payload (or record): a fact's note is left out.
RenderRecordClaim(p) ==
  {p.claim} \cup ToSet(p.cites)
    \cup (IF p.tier = "interpretation" THEN {p.note} \ {None} ELSE {})

\* The judge may err on the side of refusal, never calls grounded what the span
\* it is shown does not support, and may name cited values as failing ones.
Rulings(p, span) ==
  {r \in [verdict : Verdicts, failing : SUBSET Surfaces] :
     /\ r.verdict = "grounded" => RenderRecordClaim(p) \subseteq Support[span]
     /\ r.failing \subseteq ToSet(p.cites)}

Rejection(tier) == IF tier = "fact" THEN "ungrounded_fact" ELSE "unsupported_interpretation"

\* Steps 5-8: judge, gate; past the gate the record's id is minted (step 9).
Judge(a) ==
  LET p == call[a]
  IN  /\ pc[a] = "judge"
      /\ \/ Idle(a, "judge_unavailable")
         \/ \E ruling \in Rulings(p, work[a].span) :
              IF Gate(p.tier, ruling.verdict) = "reject"
              THEN Idle(a, Rejection(p.tier))
              ELSE \E id \in RecordIds :
                     /\ Fresh(id)
                     /\ Goto(a, "cite", [work[a] EXCEPT !.ruling = ruling, !.id = id,
                                                        !.todo = p.cites])
      /\ UNCHANGED <<mapVars, corpus, agentVars, records, registryVars>>

\* Step 9: cite the next surface, actor before date; with none left, go on.
CiteNext(a) ==
  /\ pc[a] = "cite"
  /\ \/ /\ work[a].todo # <<>>
        /\ Goto(a, "resolving", [work[a] EXCEPT !.todo = Tail(@)])
        /\ Resolver!Begin(a, Head(work[a].todo), work[a].id)
     \/ /\ work[a].todo = <<>>
        /\ Goto(a, "insert", work[a])
        /\ UNCHANGED registryVars
  /\ UNCHANGED <<mapVars, corpus, agentVars, records>>

\* One statement of resolve_or_create.
CiteStep(a) ==
  /\ pc[a] = "resolving"
  /\ Resolver!Resolve(a)
  /\ UNCHANGED <<mapVars, corpus, agentVars, callVars, records>>

\* resolve_or_create returned: the record will hold a ref to the Entity.
CiteDone(a) ==
  /\ pc[a] = "resolving"
  /\ rpc[a] = "idle"
  /\ Goto(a, "cite", [work[a] EXCEPT !.refs = @ \cup {resolved[a]}])
  /\ UNCHANGED <<mapVars, corpus, agentVars, records, registryVars>>

\* resolve_or_create raised UniqueViolation, which write does not catch.
CiteRaised(a) ==
  /\ pc[a] = "resolving"
  /\ rpc[a] = "raised"
  /\ Resolver!Quit(a)
  /\ Idle(a, "raised")
  /\ UNCHANGED <<mapVars, corpus, agentVars, records>>

\* The row write builds: provenance from the Fragment, meaning from the payload.
RecordRow(a, id, source) ==
  LET p == call[a]
      w == work[a]
  IN  [id |-> id, chunk |-> w.chunk, off |-> p.off, span |-> w.span,
       claim |-> p.claim, note |-> p.note, tier |-> p.tier, cites |-> p.cites,
       refs |-> w.refs, flagged |-> Gate(p.tier, w.ruling.verdict) = "flag",
       attested |-> Attestation(w.ruling, [span |-> w.span, source |-> source]),
       meant |-> w.meant, slip |-> w.slip, overtaken |-> w.overtaken]   \* history

\* Mutants: the source hash is of the text as it is at insert; a second id is minted.
NewRecordRehashed(a) ==
  LET k == work[a].chunk
  IN  RecordRow(a, work[a].id, IF corpus[k] = Gone THEN work[a].text ELSE <<k, corpus[k]>>)
NewRecordReminted(a) ==
  RecordRow(a, CHOOSE id \in RecordIds : id # work[a].id, work[a].text)

\* Its id is the one entities were resolved under, its source the text that was loaded.
NewRecord(a) == RecordRow(a, work[a].id, work[a].text)

\* Steps 10-11.  The INSERT commits, though its acknowledgement may still be
\* lost, unless the foreign key refuses a chunk deleted since it was loaded.
InsertRecord(a) ==
  /\ pc[a] = "insert"
  /\ \/ /\ FragmentFK => corpus[work[a].chunk] # Gone
        /\ records' = records \cup {NewRecord(a)}
        /\ \/ Idle(a, "ok")
           \/ "abort" \in Faults /\ Idle(a, "raised")
     \/ /\ FragmentFK /\ corpus[work[a].chunk] = Gone
        /\ UNCHANGED records
        /\ Idle(a, "raised")
  /\ UNCHANGED <<mapVars, corpus, agentVars, registryVars>>

-----------------------------------------------------------------------------
(* Faults.                                                                 *)

\* An exception escapes one of a's steps: a database error, or the TypeError of
\* a judge reply that is JSON of the wrong type.
Abort(a) ==
  /\ "abort" \in Faults
  /\ pc[a] \in {"load", "judge", "resolving", "insert"}
  /\ Idle(a, "raised")
  /\ Resolver!Quit(a)
  /\ UNCHANGED <<mapVars, corpus, agentVars, records>>

\* The server restarts: the HandleMap and the calls in flight are gone.  The
\* agents' memory and the database are not.
Restart ==
  /\ "restart" \in Faults
  /\ handles' = [w \in Workstreams |-> <<>>]
  /\ current' = [w \in Workstreams |-> None]
  /\ pc' = [a \in Agents |-> "idle"]
  /\ call' = [a \in Agents |-> None]
  /\ work' = [a \in Agents |-> NoWork]
  /\ answer' = [a \in Agents |-> IF pc[a] = "idle" THEN answer[a] ELSE "raised"]
  /\ rpc' = [a \in Agents |-> "idle"]
  /\ task' = [a \in Agents |-> None]
  /\ givenUp' = givenUp \cup UNION {Created(a) : a \in Agents}
  /\ held' = [a \in Agents |-> [held[a] EXCEPT !.fresh = FALSE]]
  /\ UNCHANGED <<corpus, focus, lastRead, records, entity, resolved, seen>>

\* The corpus owner re-extracts or deletes a chunk (no code of this repository);
\* the foreign key keeps a chunk that has records.
EditCorpus(k) ==
  /\ "edit" \in Faults
  /\ corpus[k] # Gone
  /\ \/ corpus[k] + 1 \in Versions /\ corpus' = [corpus EXCEPT ![k] = @ + 1]
     \/ /\ FragmentFK => \A r \in records : r.chunk # k
        /\ corpus' = [corpus EXCEPT ![k] = Gone]
  /\ UNCHANGED <<mapVars, agentVars, callVars, records, registryVars>>

-----------------------------------------------------------------------------
\* write_enrichment's own steps.
Step(a) ==
  \/ ResolveFragment(a) \/ LoadAndSlice(a) \/ Judge(a)
  \/ CiteNext(a) \/ CiteStep(a) \/ CiteDone(a) \/ CiteRaised(a)
  \/ InsertRecord(a)

Next ==
  \/ \E a \in Agents :
       \/ \E k \in Chunks : GetChunk(a, k)
       \/ \E k, n \in Chunks : GetNeighbors(a, k, n)
       \/ \E p \in Payload : Call(a, p)
       \/ CallMalformed(a)
       \/ Step(a)
       \/ Abort(a)
  \/ Restart
  \/ \E k \in Chunks : EditCorpus(k)

Spec == Init /\ [][Next]_vars

-----------------------------------------------------------------------------
RefOk(ref) == entity[ref.key] # None /\ entity[ref.key].first = ref.id

\* The shape of the state.
TypeOK ==
  /\ MapTypeOK
  /\ Resolver!TypeOK
  /\ corpus \in [Chunks -> Versions \cup {Gone}]
  /\ pc \in [Agents -> {"idle", "resolve", "load", "judge", "cite", "resolving", "insert"}]
  /\ call \in [Agents -> Payload \cup {None}]
  /\ \A a \in Agents : held[a].chunk \in Chunks \cup {None} /\ focus[a] \in Chunks \cup {None}
  /\ \A r \in records : r.id \in RecordIds /\ r.chunk \in Chunks

(* Nothing ungrounded is stored as grounded: whatever the interleaving,    *)
(* restart, stale handle, mangled reference or corpus update, what a       *)
(* record asserts and the actor and date it cites are supported by the     *)
(* very span stored with it, and so is an interpretation's note, unless    *)
(* the record is flagged; and a fact is never flagged.                     *)
FactsAreSupported ==
  \A r \in records :
    /\ r.tier = "fact" => ~r.flagged
    /\ ~r.flagged =>
         /\ {r.claim} \cup ToSet(r.cites) \subseteq Support[r.span]
         /\ r.tier = "interpretation" /\ r.note # None => r.note \in Support[r.span]

(* The row attests itself: its chunk, span, offsets, span hash and source  *)
(* hash all come from one and the same loaded text, although the corpus    *)
(* may change between load, judge and insert, and even if the chunk is     *)
(* gone by the insert, which only an optional foreign key would refuse.    *)
AttestationsAreCoherent ==
  \A r \in records :
    /\ r.attested.hashes.source[1] = r.chunk
    /\ r.span = SliceOf[r.attested.hashes.source][r.off]
    /\ r.attested.hashes.span = r.span
    /\ r.flagged <=> r.attested.verdict # "grounded"

(* An entity ref frozen into a write-once record points, for good, at the  *)
(* Entity row its cited surface normalizes to; no cited surface is missing.*)
RefsPointAtEntities ==
  \A r \in records :
    /\ \A ref \in r.refs : RefOk(ref)
    /\ {ref.key : ref \in r.refs} = {Canonical[r.cites[i]] : i \in DOMAIN r.cites}

(* A handle, once shown, keeps naming the same Fragment in its workstream  *)
(* for as long as the server runs.                                         *)
HeldHandlesResolve ==
  \A a \in Agents :
    held[a].handle # None /\ held[a].fresh =>
      Lookup(WsOf[a], held[a].handle) = held[a].chunk

(* Where a reference goes, also in the workstream that everyone shares by  *)
(* default (mcp.py): a handle, once shown, leads the write that sends it   *)
(* to its Fragment whoever else reads; a write without a reference goes to *)
(* its agent's last get_chunk.  It misses only if another agent of the     *)
(* workstream has called get_chunk since.                                  *)
PointsHitTheFragmentMeant ==
  \A r \in records : r.meant # None /\ ~r.slip /\ r.chunk # r.meant => r.overtaken

(* first_seen_record names the record whose write created the Entity.      *)
(* Entities are created before the record is inserted: an Entity's record  *)
(* is stored, or its write is still under way, or that write raised or was *)
(* cut off by a restart; no write that was answered leaves one dangling.   *)
FirstSeenRecordsExist ==
  \A k \in Surfaces :
    entity[k] # None =>
      \/ \E r \in records : r.id = entity[k].first
      \/ \E a \in Agents : work[a].id = entity[k].first
      \/ entity[k].first \in givenUp

=============================================================================
