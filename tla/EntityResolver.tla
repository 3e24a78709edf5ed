---------------------------- MODULE EntityResolver ----------------------------
(***************************************************************************)
(* EntityResolver.resolve_or_create (entities.py) over PostgresEntityStore *)
(* for actor and date Entities.  find, insert and add_alias each commit on *)
(* a connection of their own, so two calls may interleave between them.    *)
(*                                                                         *)
(* A surface stands for an (entity type, observed text) pair; Canonical is *)
(* normalize_actor or normalize_date, whichever its type calls for, so the *)
(* canonical key of a surface is itself a surface.  A call may create one  *)
(* row, for the record being written: the creating record's id, which the  *)
(* row keeps as first_seen_record, doubles as the row's entity_id here.    *)
(***************************************************************************)
EXTENDS Naturals, Sequences, SequencesExt

CONSTANTS
  Surfaces,   \* observed forms of actors and dates
  Canonical,  \* [Surfaces -> Surfaces]: the normalized form
  RecordIds,  \* ids of records, minted before their rows exist
  Callers,    \* threads or processes that write records
  NoEntity    \* no row

ASSUME CanonicalAssumption ==
  /\ Canonical \in [Surfaces -> Surfaces]
  /\ \A s \in Surfaces : Canonical[Canonical[s]] = Canonical[s]

Row == [first : RecordIds, aliases : Seq(Surfaces)]
Ref == [key : Surfaces, id : RecordIds]
Task == [surface : Surfaces, record : RecordIds]

ASSUME NoEntityAssumption ==
  NoEntity \notin RecordIds \cup Row \cup Ref \cup Task

VARIABLES
  entity,    \* codex_entities: the row of each canonical key, or NoEntity
  rpc,       \* the statement each caller's resolve_or_create runs next
  task,      \* each call's arguments: the surface and its record's id
  resolved,  \* the Entity each caller's last call returned
  seen       \* history: surfaces some call has returned an Entity for

resolverVars == <<entity, rpc, task, resolved, seen>>

\* The shape of the state: a row's id, key and aliases (entity_store.py) and what a
\* call of resolve_or_create holds of them.
TypeOK ==
  /\ entity \in [Surfaces -> Row \cup {NoEntity}]
  /\ rpc \in [Callers -> {"idle", "find", "alias", "insert", "raised"}]
  /\ task \in [Callers -> Task \cup {NoEntity}]
  /\ resolved \in [Callers -> Ref \cup {NoEntity}]
  /\ seen \in SUBSET Surfaces

Init ==
  /\ entity = [k \in Surfaces |-> NoEntity]
  /\ rpc = [c \in Callers |-> "idle"]
  /\ task = [c \in Callers |-> NoEntity]
  /\ resolved = [c \in Callers |-> NoEntity]
  /\ seen = {}

Key(c) == Canonical[task[c].surface]

\* The call returns the row as it is (or will be) in the table.
Return(c, row) ==
  /\ rpc' = [rpc EXCEPT ![c] = "idle"]
  /\ task' = [task EXCEPT ![c] = NoEntity]
  /\ resolved' = [resolved EXCEPT ![c] = [key |-> Key(c), id |-> row.first]]
  /\ seen' = seen \cup {task[c].surface}

\* resolve_or_create(type, s, first_seen_record = r) is called.
Begin(c, s, r) ==
  /\ rpc[c] = "idle"
  /\ rpc' = [rpc EXCEPT ![c] = "find"]
  /\ task' = [task EXCEPT ![c] = [surface |-> s, record |-> r]]
  /\ resolved' = [resolved EXCEPT ![c] = NoEntity]
  /\ UNCHANGED <<entity, seen>>

\* A surface form is worth an alias unless it is the key or the row lists it.
IsNewAlias(s, row) == s # Canonical[s] /\ s \notin ToSet(row.aliases)

\* existing = store.find(type, canonical); the alias test uses this row.
Find(c) ==
  LET row == entity[Key(c)]
  IN  /\ rpc[c] = "find"
      /\ CASE row = NoEntity ->
                /\ rpc' = [rpc EXCEPT ![c] = "insert"]
                /\ UNCHANGED <<task, resolved, seen>>
           [] row # NoEntity /\ IsNewAlias(task[c].surface, row) ->
                /\ rpc' = [rpc EXCEPT ![c] = "alias"]
                /\ UNCHANGED <<task, resolved, seen>>
           [] OTHER -> Return(c, row)
      /\ UNCHANGED entity

\* UPDATE ... SET aliases = aliases || [surface]: appends to the current list.
AddAlias(c) ==
  /\ rpc[c] = "alias"
  /\ entity' = [entity EXCEPT ![Key(c)].aliases = Append(@, task[c].surface)]
  /\ Return(c, entity[Key(c)])

\* Mutant: the observed form stands in for the record's id.
NewRowMixedUp(c) == [first |-> task[c].surface, aliases |-> <<>>]

\* Mutant: the first observed form is not kept as an alias.
NewRowNoAlias(c) == [first |-> task[c].record, aliases |-> <<>>]

\* INSERT of the new row.
NewRow(c) ==
  [first   |-> task[c].record,
   aliases |-> IF task[c].surface = Key(c) THEN <<>> ELSE <<task[c].surface>>]

\* Mutant: INSERT ... ON CONFLICT DO UPDATE replaces the row.
InsertUpsert(c) ==
  /\ rpc[c] = "insert"
  /\ entity' = [entity EXCEPT ![Key(c)] = NewRow(c)]
  /\ Return(c, NewRow(c))

\* insert: UNIQUE (entity_type, canonical) refuses a second row, and the
\* UniqueViolation is not caught anywhere below the tool's caller.
Insert(c) ==
  /\ rpc[c] = "insert"
  /\ \/ /\ entity[Key(c)] = NoEntity
        /\ entity' = [entity EXCEPT ![Key(c)] = NewRow(c)]
        /\ Return(c, NewRow(c))
     \/ /\ entity[Key(c)] # NoEntity
        /\ rpc' = [rpc EXCEPT ![c] = "raised"]
        /\ UNCHANGED <<entity, task, resolved, seen>>

Resolve(c) == Find(c) \/ AddAlias(c) \/ Insert(c)

\* The call is given up: it raised, or its process or connection is gone.
Quit(c) ==
  /\ rpc' = [rpc EXCEPT ![c] = "idle"]
  /\ task' = [task EXCEPT ![c] = NoEntity]
  /\ UNCHANGED <<entity, resolved, seen>>

-----------------------------------------------------------------------------
(* The resolver on its own: calls for one record come one after the other. *)
Next ==
  \E c \in Callers :
    \/ \E s \in Surfaces, r \in RecordIds :
         /\ \A d \in Callers : rpc[d] # "idle" => task[d].record # r
         /\ Begin(c, s, r)
    \/ Resolve(c)
    \/ rpc[c] # "idle" /\ Quit(c)

Spec == Init /\ [][Next]_resolverVars

-----------------------------------------------------------------------------
(* The registry learns variants (resolve_or_create's docstring): whatever  *)
(* the interleaving, a surface some call was answered for is either the    *)
(* canonical key of a row or listed among that row's aliases, for good.    *)
SurfacesAreRemembered ==
  \A s \in seen :
    LET row == entity[Canonical[s]]
    IN  row # NoEntity /\ (s = Canonical[s] \/ s \in ToSet(row.aliases))

(* An Entity that was handed out keeps its identity: its row is never      *)
(* replaced, so the entity_refs frozen into write-once records stay right. *)
ResolvedEntitiesStay ==
  \A c \in Callers :
    resolved[c] # NoEntity =>
      entity[resolved[c].key] # NoEntity /\ entity[resolved[c].key].first = resolved[c].id

=============================================================================
