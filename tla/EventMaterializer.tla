-------------------------- MODULE EventMaterializer --------------------------
(***************************************************************************)
(* EventMaterializer.materialize (entities.py) over PostgresEntityStore.   *)
(* Every store method opens its own autocommit connection, so a call is a  *)
(* sequence of separately committed statements: two SELECTs, then an       *)
(* INSERT, an UPDATE, or two UPDATEs.  Calls of several server threads or  *)
(* processes interleave between statements, and a call may stop after any  *)
(* of them (process death, or a connection error that escapes).            *)
(*                                                                         *)
(* A record id reaches materialize as the TEXT of the payload.  A name is  *)
(* such a text, abstracted to its rank in string order (members are kept   *)
(* sorted); RecordOf says which record the uuid column compares it equal   *)
(* to, so two names of one record are two spellings of one uuid.           *)
(*                                                                         *)
(* (entity_type, canonical) is UNIQUE, canonical never changes and no row  *)
(* is deleted: an event row is identified by the name its canonical label  *)
(* "event:<name>" holds.                                                   *)
(***************************************************************************)
EXTENDS Naturals

CONSTANTS
  Records,    \* the Enrichment Records that exist
  Names,      \* the texts a payload may use for a record id
  RecordOf,   \* [Names -> Records]: the record a text resolves to
  Callers,    \* threads or processes that run link_events
  MaxCalls,   \* bound: calls of materialize in a behaviour
  Aborts,     \* whether a call may stop between two statements
  None        \* no event

ASSUME NamesAssumption == Names \subseteq Nat
ASSUME RecordOfAssumption == RecordOf \in [Names -> Records]
ASSUME BoundAssumption == MaxCalls \in Nat
ASSUME NoneAssumption == None \notin Names

VARIABLES
  born,        \* canonical names of the event rows inserted so far
  members,     \* metadata.member_records of each event row
  mergedInto,  \* metadata.merged_into of each event row, or None
  pc,          \* the statement each caller runs next
  job,         \* each caller's arguments and the rows it has read
  returned,    \* history: what materialize returned, for the Link row
  clashes,     \* history: names whose INSERT hit the UNIQUE constraint
  calls,       \* number of calls made
  grounded     \* history: the clusters the grounded assertions call for

table == <<born, members, mergedInto>>
vars == <<born, members, mergedInto, pc, job, returned, clashes, calls, grounded>>

\* The clusters the grounded assertions demand, kept beside the implementation.
Truth == INSTANCE EventClusters WITH cluster <- grounded

-----------------------------------------------------------------------------
MaybeName == Names \cup {None}
Row == [id : MaybeName, members : SUBSET Names]
Job == [a : MaybeName, b : MaybeName, ea : Row, eb : Row]
Link == [by : Callers, a : Names, b : Names, event : Names]

NoRow == [id |-> None, members |-> {}]
NoJob == [a |-> None, b |-> None, ea |-> NoRow, eb |-> NoRow]

Steps == {"idle", "find_a", "find_b", "create", "add", "merge_set", "merge_mark"}

\* The shape of the state: the event rows of codex_entities, and the statement and
\* locals of each call of materialize (entities.py).
TypeOK ==
  /\ born \in SUBSET Names
  /\ members \in [Names -> SUBSET Names]
  /\ mergedInto \in [Names -> MaybeName]
  /\ pc \in [Callers -> Steps]
  /\ job \in [Callers -> Job]
  /\ returned \in SUBSET Link
  /\ clashes \in SUBSET Names
  /\ calls \in Nat
  /\ grounded \in [Records -> SUBSET Records]

Least(S) == CHOOSE x \in S : \A y \in S : x <= y

\* The rows event_for_record may see: NOT (metadata ? 'merged_into').
Live == {e \in born : mergedInto[e] = None}

\* Mutant: a member that only resembles n (here, ranked next to it) is a hit.
EventForRecordLike(n) ==
  LET hits == {e \in Live : {n, n + 1} \cap members[e] # {}}
  IN  IF hits = {} THEN {NoRow} ELSE {[id |-> e, members |-> members[e]] : e \in hits}

\* Mutant: an event named after n is a hit, merged or not.
EventForRecordByLabel(n) ==
  LET hits == {e \in born : e = n \/ n \in members[e]}
  IN  IF hits = {} THEN {NoRow} ELSE {[id |-> e, members |-> members[e]] : e \in hits}

\* SELECT ... WHERE member_records @> [n] LIMIT 1: any one of the hits, or no row.
EventForRecord(n) ==
  LET hits == {e \in Live : n \in members[e]}
  IN  IF hits = {} THEN {NoRow} ELSE {[id |-> e, members |-> members[e]] : e \in hits}

\* UPDATE ... SET member_records = names WHERE entity_id = e; merged or not.
SetEventMembers(e, names) == members' = [members EXCEPT ![e] = names]

\* Mutant: survivor and absorbed are swapped.
MarkEventMergedSwapped(absorbed, survivor) ==
  /\ members' = [members EXCEPT ![survivor] = {}]
  /\ mergedInto' = [mergedInto EXCEPT ![survivor] = absorbed]

\* UPDATE ... SET member_records = [], merged_into = survivor WHERE entity_id = absorbed.
MarkEventMerged(absorbed, survivor) ==
  /\ members' = [members EXCEPT ![absorbed] = {}]
  /\ mergedInto' = [mergedInto EXCEPT ![absorbed] = survivor]

\* Mutant: record_a without an event always gets a new one.
BranchCreates(ea, eb) ==
  CASE ea.id # None /\ eb.id # None -> IF ea.id = eb.id THEN "return" ELSE "merge_set"
    [] ea.id = None                 -> "create"
    [] OTHER                        -> "add"

\* Mutant: a pair without any event is not created but "added to" no row.
BranchNeverCreates(ea, eb) ==
  CASE ea.id # None /\ eb.id # None -> IF ea.id = eb.id THEN "return" ELSE "merge_set"
    [] OTHER                        -> "add"

\* Mutant: two existing events are left unmerged.
BranchNoMerge(ea, eb) ==
  CASE ea.id # None /\ eb.id # None -> "return"
    [] ea.id = None /\ eb.id = None -> "create"
    [] OTHER                        -> "add"

\* Where materialize goes on once both SELECTs are back.
Branch(ea, eb) ==
  CASE ea.id # None /\ eb.id # None -> IF ea.id = eb.id THEN "return" ELSE "merge_set"
    [] ea.id = None /\ eb.id = None -> "create"
    [] OTHER                        -> "add"

\* Caller c's call is over: its locals are gone.
End(c) ==
  /\ pc' = [pc EXCEPT ![c] = "idle"]
  /\ job' = [job EXCEPT ![c] = NoJob]

\* materialize hands event e back to link_events.
Return(c, e) ==
  /\ End(c)
  /\ returned' = returned \cup {[by |-> c, a |-> job[c].a, b |-> job[c].b, event |-> e]}

-----------------------------------------------------------------------------
Init ==
  /\ born = {}
  /\ members = [n \in Names |-> {}]
  /\ mergedInto = [n \in Names |-> None]
  /\ pc = [c \in Callers |-> "idle"]
  /\ job = [c \in Callers |-> NoJob]
  /\ returned = {}
  /\ clashes = {}
  /\ calls = 0
  /\ Truth!Init

\* link_events step 7: same_event between two distinct texts passed the tier gate.
Call(c, a, b) ==
  /\ pc[c] = "idle"
  /\ calls < MaxCalls
  /\ a # b
  /\ pc' = [pc EXCEPT ![c] = "find_a"]
  /\ job' = [job EXCEPT ![c] = [NoJob EXCEPT !.a = a, !.b = b]]
  /\ calls' = calls + 1
  /\ Truth!Assert(RecordOf[a], RecordOf[b])
  /\ UNCHANGED <<table, returned, clashes>>

\* ea = store.event_for_record(record_a)
FindA(c) ==
  /\ pc[c] = "find_a"
  /\ pc' = [pc EXCEPT ![c] = "find_b"]
  /\ \E row \in EventForRecord(job[c].a) : job' = [job EXCEPT ![c].ea = row]
  /\ UNCHANGED <<table, returned, clashes, calls, grounded>>

\* eb = store.event_for_record(record_b), then the branch on (ea, eb).
FindB(c) ==
  /\ pc[c] = "find_b"
  /\ \E row \in EventForRecord(job[c].b) :
       IF Branch(job[c].ea, row) = "return"
       THEN Return(c, row.id)
       ELSE /\ pc' = [pc EXCEPT ![c] = Branch(job[c].ea, row)]
            /\ job' = [job EXCEPT ![c].eb = row]
            /\ UNCHANGED returned
  /\ UNCHANGED <<table, clashes, calls, grounded>>

\* _create: INSERT, refused with a raw UniqueViolation when the label is taken.
Create(c) ==
  LET pair == {job[c].a, job[c].b}
      e    == Least(pair)
  IN  /\ pc[c] = "create"
      /\ \/ /\ e \notin born
            /\ born' = born \cup {e}
            /\ SetEventMembers(e, pair)
            /\ Return(c, e)
            /\ UNCHANGED clashes
         \/ /\ e \in born
            /\ clashes' = clashes \cup {e}
            /\ End(c)
            /\ UNCHANGED <<born, members, returned>>
      /\ UNCHANGED <<mergedInto, calls, grounded>>

\* _add_member: write back the members read earlier, plus the other record.
AddMember(c) ==
  LET row   == IF job[c].ea.id # None THEN job[c].ea ELSE job[c].eb
      other == IF job[c].ea.id # None THEN job[c].b ELSE job[c].a
  IN  /\ pc[c] = "add"
      /\ SetEventMembers(row.id, row.members \cup {other})
      /\ Return(c, row.id)
      /\ UNCHANGED <<born, mergedInto, clashes, calls, grounded>>

\* Mutant: the survivor does not take over the absorbed event's members.
MergeSetForgetful(c) ==
  /\ pc[c] = "merge_set"
  /\ SetEventMembers(job[c].ea.id, job[c].ea.members)
  /\ pc' = [pc EXCEPT ![c] = "merge_mark"]
  /\ UNCHANGED <<born, mergedInto, job, returned, clashes, calls, grounded>>

\* _merge, first UPDATE: the survivor (record_a's event) takes both member lists.
MergeSet(c) ==
  /\ pc[c] = "merge_set"
  /\ SetEventMembers(job[c].ea.id, job[c].ea.members \cup job[c].eb.members)
  /\ pc' = [pc EXCEPT ![c] = "merge_mark"]
  /\ UNCHANGED <<born, mergedInto, job, returned, clashes, calls, grounded>>

\* _merge, second UPDATE: the absorbed event is emptied and points to the survivor.
MergeMark(c) ==
  /\ pc[c] = "merge_mark"
  /\ MarkEventMerged(job[c].eb.id, job[c].ea.id)
  /\ Return(c, job[c].ea.id)
  /\ UNCHANGED <<born, clashes, calls, grounded>>

\* The process dies, or a connection error escapes, before c's next statement.
Abort(c) ==
  /\ Aborts
  /\ pc[c] # "idle"
  /\ End(c)
  /\ UNCHANGED <<table, returned, clashes, calls, grounded>>

Step(c) == FindA(c) \/ FindB(c) \/ Create(c) \/ AddMember(c) \/ MergeSet(c) \/ MergeMark(c)

Next ==
  \E c \in Callers :
    \/ \E a, b \in Names : Call(c, a, b)
    \/ Step(c)
    \/ Abort(c)

Spec == Init /\ [][Next]_vars

\* A call in flight is never suspended for good: its statements run one after the other.
FairSpec == Spec /\ \A c \in Callers : WF_vars(Step(c))

-----------------------------------------------------------------------------
(* Safety.                                                                 *)

(* No false merge: whatever the interleaving and wherever calls stop, two  *)
(* records end up in one Event only if grounded same_event assertions      *)
(* connect them (entities.py: the only way an Event is born or grows).     *)
NoFalseMerge ==
  \A e \in born : \A m, n \in members[e] : RecordOf[m] \in grounded[RecordOf[n]]

(* With no call in flight a record is in at most one unmerged Event, so    *)
(* event_for_record's LIMIT 1 has nothing to choose from.                  *)
OneLiveEventPerRecord ==
  (\A c \in Callers : pc[c] = "idle") =>
    \A e, f \in Live :
      (\E m \in members[e], n \in members[f] : RecordOf[m] = RecordOf[n]) => e = f

(* Following merged_into from e reaches f: f is in every set that holds e  *)
(* and is closed under merged_into.                                        *)
LeadsTo(e, f) ==
  \A S \in SUBSET Names :
    (e \in S /\ \A x \in S : mergedInto[x] \in S \cup {None}) => f \in S

(* The event a stored Link names still leads, through merged_into, to an   *)
(* unmerged Event that holds both of the Link's records.                   *)
LinksLeadToTheirEvent ==
  \A l \in returned :
    \E f \in Live : LeadsTo(l.event, f) /\ {l.a, l.b} \subseteq members[f]

(* _create never meets a taken label: the record an Event was named after  *)
(* is always found in some unmerged Event before _create is reached.       *)
NoInsertClash == clashes = {}

(* Action property: once absorbed, an Event's row is never written again   *)
(* (set_event_members and mark_event_merged do not look at merged_into).   *)
AbsorbedRowsAreFinal ==
  [][\A e \in Names : mergedInto[e] # None =>
       mergedInto'[e] = mergedInto[e] /\ members'[e] = members[e]]_vars

-----------------------------------------------------------------------------
(* Refinement: an EventClusters cluster is what the unmerged Events say.   *)
ClusterOf(r) ==
  {r} \cup {RecordOf[n] : n \in UNION {members[e] :
              e \in {f \in Live : \E m \in members[f] : RecordOf[m] = r}}}

Codex == INSTANCE EventClusters WITH cluster <- [r \in Records |-> ClusterOf(r)]

(* Called one at a time, materialize merges two clusters in one atomic     *)
(* step: the UPDATE of the survivor.  The remaining statements stutter.    *)
ImplementsEventClusters == Codex!Spec

(* Every grounded assertion comes to be shown by the Events.               *)
AssertionsTakeEffect ==
  \A r, s \in Records : (s \in grounded[r]) ~> (s \in ClusterOf(r))

=============================================================================
