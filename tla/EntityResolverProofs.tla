------------------------ MODULE EntityResolverProofs ------------------------
(***************************************************************************)
(* What holds of EntityResolver for every set of surfaces, any number of   *)
(* callers, every interleaving of their statements and every call that is  *)
(* given up: the registry remembers what it was asked, and no Entity that  *)
(* was handed out changes its identity.                                    *)
(***************************************************************************)
EXTENDS EntityResolver, SequenceTheorems, TLAPS

USE CanonicalAssumption, NoEntityAssumption

(* Appending to a list adds one element to its set. *)
LEMMA AppendAdds ==
  ASSUME NEW S, NEW list \in Seq(S), NEW e \in S
  PROVE  /\ Append(list, e) \in Seq(S)
         /\ ToSet(Append(list, e)) = ToSet(list) \cup {e}
<1> DEFINE longer == Append(list, e)
<1>1. /\ longer \in Seq(S)
      /\ Len(longer) = Len(list) + 1
      /\ \A i \in 1..Len(list) : longer[i] = list[i]
      /\ longer[Len(list) + 1] = e
  BY AppendProperties
<1>2. /\ Len(list) \in Nat
      /\ DOMAIN list = 1..Len(list)
      /\ DOMAIN longer = 1..(Len(list) + 1)
  BY <1>1, LenProperties
<1>3. 1..(Len(list) + 1) = 1..Len(list) \cup {Len(list) + 1}
  BY <1>2
<1> QED BY <1>1, <1>2, <1>3 DEF ToSet

(* A call in flight has its arguments, and an alias is added to a row that is there. *)
CallersReady ==
  \A c \in Callers :
    /\ rpc[c] \in {"find", "alias", "insert"} => task[c] \in Task
    /\ rpc[c] = "alias" => entity[Key(c)] # NoEntity

TypeInv == TypeOK /\ CallersReady

\* What a step may do to the rows: add one, or append to one's aliases.
RowsGrow ==
  \A k \in Surfaces :
    entity[k] # NoEntity =>
      /\ entity'[k] # NoEntity
      /\ entity'[k].first = entity[k].first
      /\ ToSet(entity[k].aliases) \subseteq ToSet(entity'[k].aliases)

\* What a step of c may do to the histories: nothing, or c forgets its last
\* answer, or c is handed a row of the table that knows the surface c asked for.
Answers(c) ==
  \/ seen' = seen /\ resolved' = resolved
  \/ seen' = seen /\ resolved' = [resolved EXCEPT ![c] = NoEntity]
  \/ LET s == task[c].surface
         k == Key(c)
     IN  /\ s \in Surfaces
         /\ entity'[k] # NoEntity
         /\ s = k \/ s \in ToSet(entity'[k].aliases)
         /\ seen' = seen \cup {s}
         /\ resolved' = [resolved EXCEPT ![c] = [key |-> k, id |-> entity'[k].first]]

LEMMA TaskTyped ==
  ASSUME TypeInv, NEW c \in Callers, rpc[c] \in {"find", "alias", "insert"}
  PROVE  /\ task[c] \in Task /\ task[c].surface \in Surfaces /\ task[c].record \in RecordIds
         /\ Key(c) \in Surfaces
BY DEF TypeInv, CallersReady, Task, Key

LEMMA RowTyped ==
  ASSUME TypeOK, NEW k \in Surfaces, entity[k] # NoEntity
  PROVE  /\ entity[k] \in Row
         /\ entity[k].first \in RecordIds /\ entity[k].aliases \in Seq(Surfaces)
BY DEF TypeOK, Row

LEMMA NewRowTyped ==
  ASSUME TypeInv, NEW c \in Callers, rpc[c] = "insert"
  PROVE  /\ NewRow(c) \in Row
         /\ task[c].surface = Key(c) \/ task[c].surface \in ToSet(NewRow(c).aliases)
<1>1. task[c].surface \in Surfaces /\ task[c].record \in RecordIds
  BY TaskTyped
<1>2. <<>> \in Seq(Surfaces) /\ <<task[c].surface>> \in Seq(Surfaces)
  BY <1>1
<1>3. task[c].surface \in ToSet(<<task[c].surface>>)
  BY DEF ToSet
<1> QED BY <1>1, <1>2, <1>3 DEF NewRow, Row

-----------------------------------------------------------------------------
(* One lemma per action: types, what it does to the rows and the histories. *)

LEMMA BeginFacts ==
  ASSUME TypeInv, NEW c \in Callers, NEW s \in Surfaces, NEW r \in RecordIds, Begin(c, s, r)
  PROVE  TypeInv' /\ RowsGrow /\ Answers(c)
<1>1. TypeOK'
  BY DEF TypeInv, TypeOK, Begin, Task
<1>2. CallersReady'
  BY DEF TypeInv, TypeOK, CallersReady, Begin, Task, Key
<1>3. RowsGrow /\ Answers(c)
  BY DEF Begin, RowsGrow, Answers
<1> QED BY <1>1, <1>2, <1>3 DEF TypeInv

LEMMA FindFacts ==
  ASSUME TypeInv, NEW c \in Callers, Find(c)
  PROVE  TypeInv' /\ RowsGrow /\ Answers(c)
<1> DEFINE row == entity[Key(c)]
<1>1. rpc[c] = "find" /\ UNCHANGED entity
  BY DEF Find
<1>2. task[c] \in Task /\ task[c].surface \in Surfaces /\ Key(c) \in Surfaces
  BY <1>1, TaskTyped
<1>3. RowsGrow
  BY <1>1 DEF RowsGrow
<1>4. CASE row = NoEntity
  <2>1. rpc' = [rpc EXCEPT ![c] = "insert"] /\ UNCHANGED <<task, resolved, seen>>
    BY <1>4 DEF Find
  <2> QED BY <1>1, <1>2, <1>3, <2>1 DEF TypeInv, TypeOK, CallersReady, Key, Answers
<1>5. CASE row # NoEntity /\ IsNewAlias(task[c].surface, row)
  <2>1. rpc' = [rpc EXCEPT ![c] = "alias"] /\ UNCHANGED <<task, resolved, seen>>
    BY <1>5 DEF Find
  <2> QED BY <1>1, <1>2, <1>3, <1>5, <2>1 DEF TypeInv, TypeOK, CallersReady, Key, Answers
<1>6. CASE row # NoEntity /\ ~IsNewAlias(task[c].surface, row)
  <2>1. Return(c, row)
    BY <1>6 DEF Find
  <2>2. row \in Row /\ row.first \in RecordIds
    BY <1>2, <1>6, RowTyped DEF TypeInv
  <2>3. TypeOK'
    BY <1>1, <1>2, <2>1, <2>2 DEF TypeInv, TypeOK, Return, Ref
  <2>4. CallersReady'
    BY <1>1, <2>1 DEF TypeInv, TypeOK, CallersReady, Return, Key
  <2>5. Answers(c)
    BY <1>1, <1>2, <1>6, <2>1 DEF Answers, Return, IsNewAlias, Key
  <2> QED BY <1>3, <2>3, <2>4, <2>5 DEF TypeInv
<1> QED BY <1>4, <1>5, <1>6

LEMMA AddAliasFacts ==
  ASSUME TypeInv, NEW c \in Callers, AddAlias(c)
  PROVE  TypeInv' /\ RowsGrow /\ Answers(c)
<1> DEFINE k == Key(c)
           s == task[c].surface
           longer == Append(entity[k].aliases, s)
<1>1. /\ rpc[c] = "alias"
      /\ entity' = [entity EXCEPT ![k].aliases = longer]
      /\ Return(c, entity[k])
  BY DEF AddAlias
<1>2. task[c] \in Task /\ s \in Surfaces /\ k \in Surfaces
  BY <1>1, TaskTyped
<1>3. entity[k] # NoEntity
  BY <1>1 DEF TypeInv, CallersReady
<1>4. entity[k] \in Row /\ entity[k].first \in RecordIds /\ entity[k].aliases \in Seq(Surfaces)
  BY <1>2, <1>3, RowTyped DEF TypeInv
<1>5. longer \in Seq(Surfaces) /\ ToSet(longer) = ToSet(entity[k].aliases) \cup {s}
  BY <1>2, <1>4, AppendAdds
<1>6. /\ entity'[k] = [entity[k] EXCEPT !.aliases = longer]
      /\ \A j \in Surfaces : j # k => entity'[j] = entity[j]
  BY <1>1, <1>2 DEF TypeInv, TypeOK
<1>7. /\ entity'[k] \in Row
      /\ entity'[k].first = entity[k].first
      /\ entity'[k].aliases = longer
      /\ entity'[k] # NoEntity
  BY <1>4, <1>5, <1>6 DEF Row
<1>8. TypeOK'
  <2>1. entity' \in [Surfaces -> Row \cup {NoEntity}]
    BY <1>1, <1>6, <1>7 DEF TypeInv, TypeOK
  <2> QED BY <1>1, <1>2, <1>4, <2>1 DEF TypeInv, TypeOK, Return, Ref
<1>9. CallersReady'
  <2>1. \A j \in Surfaces : entity[j] # NoEntity => entity'[j] # NoEntity
    BY <1>6, <1>7
  <2> SUFFICES ASSUME NEW d \in Callers
               PROVE  /\ rpc'[d] \in {"find", "alias", "insert"} => task'[d] \in Task
                      /\ rpc'[d] = "alias" => entity'[Canonical[task'[d].surface]] # NoEntity
    BY DEF CallersReady, Key
  <2>2. CASE d = c
    BY <1>1, <2>2 DEF TypeInv, TypeOK, Return
  <2>3. CASE d # c
    <3>1. rpc'[d] = rpc[d] /\ task'[d] = task[d]
      BY <1>1, <2>3 DEF TypeInv, TypeOK, Return
    <3>2. rpc[d] \in {"find", "alias", "insert"} => task[d] \in Task /\ Key(d) \in Surfaces
      BY TaskTyped
    <3> QED BY <2>1, <3>1, <3>2 DEF TypeInv, CallersReady, Key
  <2> QED BY <2>2, <2>3
<1>10. RowsGrow
  BY <1>5, <1>6, <1>7 DEF RowsGrow
<1>11. Answers(c)
  BY <1>1, <1>2, <1>5, <1>7 DEF Answers, Return
<1> QED BY <1>8, <1>9, <1>10, <1>11 DEF TypeInv

LEMMA InsertFacts ==
  ASSUME TypeInv, NEW c \in Callers, Insert(c)
  PROVE  TypeInv' /\ RowsGrow /\ Answers(c)
<1> DEFINE k == Key(c)
<1>1. rpc[c] = "insert"
  BY DEF Insert
<1>2. task[c] \in Task /\ task[c].surface \in Surfaces /\ k \in Surfaces
  BY <1>1, TaskTyped
<1>3. CASE entity[k] = NoEntity
  <2>1. entity' = [entity EXCEPT ![k] = NewRow(c)] /\ Return(c, NewRow(c))
    BY <1>3 DEF Insert
  <2>2. /\ NewRow(c) \in Row /\ NewRow(c).first \in RecordIds
        /\ task[c].surface = k \/ task[c].surface \in ToSet(NewRow(c).aliases)
    BY <1>1, NewRowTyped DEF Row
  <2>3. entity'[k] = NewRow(c) /\ \A j \in Surfaces : j # k => entity'[j] = entity[j]
    BY <1>2, <2>1 DEF TypeInv, TypeOK
  <2>4. TypeOK'
    BY <1>2, <2>1, <2>2 DEF TypeInv, TypeOK, Return, Ref
  <2>5. CallersReady'
    BY <2>1, <2>2, <2>3 DEF TypeInv, TypeOK, CallersReady, Return, Key, Task
  <2>6. RowsGrow
    BY <1>3, <2>3 DEF RowsGrow
  <2>7. Answers(c)
    BY <1>2, <2>1, <2>2, <2>3 DEF Answers, Return
  <2> QED BY <2>4, <2>5, <2>6, <2>7 DEF TypeInv
<1>4. CASE entity[k] # NoEntity
  <2>1. rpc' = [rpc EXCEPT ![c] = "raised"] /\ UNCHANGED <<entity, task, resolved, seen>>
    BY <1>4 DEF Insert
  <2> QED BY <2>1 DEF TypeInv, TypeOK, CallersReady, Key, RowsGrow, Answers
<1> QED BY <1>3, <1>4

LEMMA QuitFacts ==
  ASSUME TypeInv, NEW c \in Callers, Quit(c)
  PROVE  TypeInv' /\ RowsGrow /\ Answers(c)
BY DEF Quit, TypeInv, TypeOK, CallersReady, Key, RowsGrow, Answers

LEMMA StepFacts ==
  ASSUME TypeInv, Next
  PROVE  TypeInv' /\ RowsGrow /\ \E c \in Callers : Answers(c)
<1>1. PICK c \in Callers :
        \/ \E s \in Surfaces, r \in RecordIds : Begin(c, s, r)
        \/ Resolve(c)
        \/ Quit(c)
  BY DEF Next
<1> QED BY <1>1, BeginFacts, FindFacts, AddAliasFacts, InsertFacts, QuitFacts DEF Resolve

-----------------------------------------------------------------------------
(* The variables stay within their types, and whatever other callers do    *)
(* between its statements, a call that is to add an alias has a row to add *)
(* it to: rows are inserted once and never removed.                        *)
THEOREM TypeCorrect == Spec => []TypeInv
<1>1. Init => TypeInv
  BY DEF Init, TypeInv, TypeOK, CallersReady
<1>2. TypeInv /\ [Next]_resolverVars => TypeInv'
  <2>1. CASE Next
    BY <2>1, StepFacts
  <2>2. CASE UNCHANGED resolverVars
    BY <2>2 DEF resolverVars, TypeInv, TypeOK, CallersReady, Key
  <2> QED BY <2>1, <2>2
<1> QED BY <1>1, <1>2, PTL DEF Spec

(* The shape of the registry and of the calls on it, for any number of     *)
(* callers, with calls that are given up anywhere.                         *)
THEOREM TypesHold == Spec => []TypeOK
BY TypeCorrect, PTL DEF TypeInv

(* The registry learns variants (resolve_or_create): for every             *)
(* interleaving, a surface a call was answered for stays the key of a row  *)
(* or one of the row's aliases, although the alias test reads a stale row. *)
THEOREM RegistryLearns == Spec => []SurfacesAreRemembered
<1>1. Init => SurfacesAreRemembered
  BY DEF Init, SurfacesAreRemembered
<1>2. TypeInv /\ SurfacesAreRemembered /\ [Next]_resolverVars => SurfacesAreRemembered'
  <2>1. CASE Next /\ TypeInv /\ SurfacesAreRemembered
    <3>1. RowsGrow /\ \E c \in Callers : Answers(c)
      BY <2>1, StepFacts
    <3>2. seen \in SUBSET Surfaces
      BY <2>1 DEF TypeInv, TypeOK
    <3> SUFFICES ASSUME NEW s \in seen'
                 PROVE  /\ entity'[Canonical[s]] # NoEntity
                        /\ s = Canonical[s] \/ s \in ToSet(entity'[Canonical[s]].aliases)
      BY DEF SurfacesAreRemembered
    <3>3. CASE s \in seen
      BY <2>1, <3>1, <3>2, <3>3 DEF SurfacesAreRemembered, RowsGrow
    <3>4. CASE s \notin seen
      BY <3>1, <3>4 DEF Answers, Key
    <3> QED BY <3>3, <3>4
  <2>2. CASE UNCHANGED resolverVars
    BY <2>2 DEF resolverVars, SurfacesAreRemembered
  <2> QED BY <2>1, <2>2
<1> QED BY <1>1, <1>2, TypeCorrect, PTL DEF Spec

(* An Entity that was handed out keeps its identity: the refs frozen into  *)
(* write-once records stay right, for every interleaving.                  *)
THEOREM EntitiesStay == Spec => []ResolvedEntitiesStay
<1>1. Init => ResolvedEntitiesStay
  BY DEF Init, ResolvedEntitiesStay
<1>2. TypeInv /\ ResolvedEntitiesStay /\ [Next]_resolverVars => ResolvedEntitiesStay'
  <2>1. CASE Next /\ TypeInv /\ ResolvedEntitiesStay
    <3>1. RowsGrow /\ \E c \in Callers : Answers(c)
      BY <2>1, StepFacts
    <3>2. resolved \in [Callers -> Ref \cup {NoEntity}]
      BY <2>1 DEF TypeInv, TypeOK
    <3> SUFFICES ASSUME NEW d \in Callers, resolved'[d] # NoEntity
                 PROVE  /\ entity'[resolved'[d].key] # NoEntity
                        /\ entity'[resolved'[d].key].first = resolved'[d].id
      BY DEF ResolvedEntitiesStay
    <3>3. PICK c \in Callers : Answers(c)
      BY <3>1
    <3>4. CASE resolved'[d] = resolved[d]
      <4>1. resolved[d] \in Ref /\ resolved[d].key \in Surfaces
        BY <3>2, <3>4 DEF Ref
      <4> QED BY <2>1, <3>1, <3>4, <4>1 DEF ResolvedEntitiesStay, RowsGrow
    <3>5. CASE resolved'[d] # resolved[d]
      BY <3>2, <3>3, <3>5 DEF Answers
    <3> QED BY <3>4, <3>5
  <2>2. CASE UNCHANGED resolverVars
    BY <2>2 DEF resolverVars, ResolvedEntitiesStay
  <2> QED BY <2>1, <2>2
<1> QED BY <1>1, <1>2, TypeCorrect, PTL DEF Spec

=============================================================================
