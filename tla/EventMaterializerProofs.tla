----------------------- MODULE EventMaterializerProofs -----------------------
(***************************************************************************)
(* What holds of EventMaterializer for every number of callers, names and  *)
(* records, every interleaving of their statements and every abort.        *)
(***************************************************************************)
EXTENDS EventMaterializer, TLAPS

-----------------------------------------------------------------------------
(* The abstract specification, EventClusters, of the variable grounded.      *)

(* The state stays a map from records to sets of records. *)
LEMMA ClustersTyped == Truth!TypeOK /\ [Truth!Next]_grounded => Truth!TypeOK'
BY DEF Truth!TypeOK, Truth!Next, Truth!Assert

(* A step only ever adds records to clusters, and relates what it asserts. *)
LEMMA AssertGrows ==
  ASSUME Truth!TypeOK, Truth!IsPartition,
         NEW a \in Records, NEW b \in Records, Truth!Assert(a, b)
  PROVE  /\ \A r \in Records : grounded[r] \subseteq grounded'[r]
         /\ a \in grounded'[b]
         /\ b \in grounded'[a]
BY DEF Truth!TypeOK, Truth!IsPartition, Truth!Assert

(* Merging two classes of a partition yields a partition. *)
LEMMA AssertKeepsPartition ==
  ASSUME Truth!TypeOK, Truth!IsPartition,
         NEW a \in Records, NEW b \in Records, Truth!Assert(a, b)
  PROVE  Truth!IsPartition'
<1> DEFINE joined == grounded[a] \cup grounded[b]
<1>1. ASSUME NEW r \in Records PROVE grounded'[r] = IF r \in joined THEN joined ELSE grounded[r]
  BY DEF Truth!Assert
<1>2. joined \subseteq Records
  BY DEF Truth!TypeOK
<1>3. ASSUME NEW r \in Records PROVE r \in grounded'[r]
  BY <1>1 DEF Truth!IsPartition
<1>4. ASSUME NEW r \in Records, NEW s \in grounded'[r] PROVE grounded'[s] = grounded'[r]
  <2>1. CASE r \in joined
    BY <2>1, <1>1, <1>2
  <2>2. CASE r \notin joined
    <3>1. s \in grounded[r] /\ s \in Records
      BY <2>2, <1>1 DEF Truth!TypeOK
    <3>2. grounded[s] = grounded[r]
      BY <3>1 DEF Truth!IsPartition
    <3>3. s \notin joined
      \* otherwise r would be in the class of a or of b, which is s's class
      BY <3>1, <3>2, <2>2 DEF Truth!IsPartition
    <3> QED BY <3>1, <3>2, <3>3, <2>2, <1>1
  <2> QED BY <2>1, <2>2
<1> QED BY <1>3, <1>4 DEF Truth!IsPartition

(* "A~B, B~C => one event": at every moment the clusters are the classes   *)
(* of an equivalence on the records.                                       *)
THEOREM ClustersAlwaysPartition == Truth!Spec => [](Truth!TypeOK /\ Truth!IsPartition)
<1>1. Truth!Init => Truth!TypeOK /\ Truth!IsPartition
  BY DEF Truth!Init, Truth!TypeOK, Truth!IsPartition
<1>2. Truth!TypeOK /\ Truth!IsPartition /\ [Truth!Next]_grounded
        => Truth!TypeOK' /\ Truth!IsPartition'
  <2> SUFFICES ASSUME Truth!TypeOK, Truth!IsPartition, [Truth!Next]_grounded
               PROVE  Truth!IsPartition'
    BY ClustersTyped
  <2>1. CASE Truth!Next
    BY <2>1, AssertKeepsPartition DEF Truth!Next
  <2>2. CASE UNCHANGED grounded
    BY <2>2 DEF Truth!IsPartition
  <2> QED BY <2>1, <2>2
<1> QED BY <1>1, <1>2, PTL DEF Truth!Spec

(* No grounded same_event assertion ever separates two records. *)
THEOREM ClustersNeverShrink == Truth!Spec => Truth!ClustersOnlyGrow
<1>1. Truth!TypeOK /\ Truth!IsPartition /\ [Truth!Next]_grounded
        => [\A r \in Records : grounded[r] \subseteq grounded'[r]]_grounded
  BY AssertGrows DEF Truth!Next
<1> QED BY <1>1, ClustersAlwaysPartition, PTL DEF Truth!Spec, Truth!ClustersOnlyGrow

-----------------------------------------------------------------------------
(* The materializer.                                                         *)

USE NamesAssumption, RecordOfAssumption, BoundAssumption, NoneAssumption

(* What the callers have asserted, in whatever order their statements run,  *)
(* is a behaviour of EventClusters: a call asserts as it begins.            *)
THEOREM AssertionsAreClusters == Spec => Truth!Spec
<1>1. Init => Truth!Init
  BY DEF Init
<1>2. [Next]_vars => [Truth!Next]_grounded
  <2>1. ASSUME NEW c \in Callers, NEW a \in Names, NEW b \in Names, Call(c, a, b)
        PROVE  Truth!Next
    BY <2>1 DEF Call, Truth!Next
  <2>2. ASSUME NEW c \in Callers,
               FindA(c) \/ FindB(c) \/ Create(c) \/ AddMember(c) \/ MergeSet(c) \/ MergeMark(c)
                 \/ Abort(c)
        PROVE  UNCHANGED grounded
    BY <2>2 DEF FindA, FindB, Create, AddMember, MergeSet, MergeMark, Abort
  <2>3. CASE UNCHANGED vars
    BY <2>3 DEF vars
  <2> QED
    BY <2>1, <2>2, <2>3 DEF Next, Step
<1> QED
  BY <1>1, <1>2, PTL DEF Spec, Truth!Spec

(* The smallest of two names is one of them. *)
LEMMA LeastOfTwo ==
  ASSUME NEW a \in Names, NEW b \in Names
  PROVE  Least({a, b}) \in {a, b}
<1>1. a \in Nat /\ b \in Nat
  OBVIOUS
<1>2. \E x \in {a, b} : \A y \in {a, b} : x <= y
  BY <1>1
<1> QED BY <1>2 DEF Least

(* event_for_record returns the empty row, or an event that holds n. *)
LEMMA EventForRecordFacts ==
  ASSUME TypeOK, NEW n \in Names, NEW row \in EventForRecord(n)
  PROVE  /\ row \in Row
         /\ row.id # None => n \in row.members /\ row.members = members[row.id]
<1>1. CASE row = NoRow
  BY <1>1 DEF NoRow, Row, MaybeName
<1>2. CASE row # NoRow
  <2>1. PICK e \in Live : n \in members[e] /\ row = [id |-> e, members |-> members[e]]
    BY <1>2 DEF EventForRecord
  <2>2. e \in Names
    BY DEF Live, TypeOK
  <2> QED BY <2>1, <2>2 DEF TypeOK, Row, MaybeName
<1> QED BY <1>1, <1>2

-----------------------------------------------------------------------------
(* Type correctness. A caller with a call in flight has two real names.    *)
CallersTyped ==
  \A c \in Callers :
    /\ pc[c] # "idle" => job[c].a \in Names /\ job[c].b \in Names
    /\ pc[c] = "add" => job[c].ea.id # None \/ job[c].eb.id # None
    /\ pc[c] \in {"merge_set", "merge_mark"} => job[c].ea.id # None /\ job[c].eb.id # None

TypeInv == TypeOK /\ CallersTyped

LEMMA JobTyped ==
  ASSUME TypeOK, NEW c \in Callers
  PROVE  /\ job[c] \in Job
         /\ job[c].ea \in Row /\ job[c].ea.id \in MaybeName /\ job[c].ea.members \in SUBSET Names
         /\ job[c].eb \in Row /\ job[c].eb.id \in MaybeName /\ job[c].eb.members \in SUBSET Names
BY DEF TypeOK, Job, Row

LEMMA NoJobTyped == NoJob \in Job /\ NoJob.a = None /\ NoJob.b = None
BY DEF NoJob, NoRow, Job, Row, MaybeName

LEMMA InitTyped == Init => TypeInv
BY NoJobTyped
   DEF Init, TypeInv, TypeOK, CallersTyped, Truth!Init, Steps, MaybeName

(* A call that ends, with or without a result, leaves well-typed locals.   *)
LEMMA EndTyped ==
  ASSUME TypeInv, NEW c \in Callers, End(c)
  PROVE  pc' \in [Callers -> Steps] /\ job' \in [Callers -> Job] /\ CallersTyped'
<1>1. pc' \in [Callers -> Steps] /\ job' \in [Callers -> Job]
  BY NoJobTyped DEF TypeInv, TypeOK, End, Steps
<1>2. CallersTyped'
  BY DEF TypeInv, TypeOK, CallersTyped, End
<1> QED BY <1>1, <1>2

LEMMA ReturnTyped ==
  ASSUME TypeInv, NEW c \in Callers, pc[c] # "idle", NEW e \in Names, Return(c, e)
  PROVE  /\ pc' \in [Callers -> Steps] /\ job' \in [Callers -> Job] /\ CallersTyped'
         /\ returned' \in SUBSET Link
<1>1. job[c].a \in Names /\ job[c].b \in Names
  BY DEF TypeInv, CallersTyped
<1>2. returned' \in SUBSET Link
  BY <1>1 DEF TypeInv, TypeOK, Return, Link
<1> QED BY <1>2, EndTyped DEF Return

LEMMA CallTyped ==
  ASSUME TypeInv, NEW c \in Callers, NEW a \in Names, NEW b \in Names, Call(c, a, b)
  PROVE  TypeInv'
<1> DEFINE new == [NoJob EXCEPT !.a = a, !.b = b]
<1>1. new \in Job /\ new.a = a /\ new.b = b
  BY DEF NoJob, NoRow, Job, Row, MaybeName
<1>2. job' = [job EXCEPT ![c] = new] /\ pc' = [pc EXCEPT ![c] = "find_a"]
  BY DEF Call
<1>3. job' \in [Callers -> Job] /\ pc' \in [Callers -> Steps]
  BY <1>1, <1>2 DEF TypeInv, TypeOK, Steps
<1>4. CallersTyped'
  <2> HIDE DEF new
  <2> QED BY <1>1, <1>2 DEF TypeInv, TypeOK, CallersTyped
<1>5. grounded' \in [Records -> SUBSET Records]
  BY DEF TypeInv, TypeOK, Call, Truth!Assert
<1>6. calls' \in Nat
  BY DEF TypeInv, TypeOK, Call
<1> QED BY <1>3, <1>4, <1>5, <1>6 DEF TypeInv, TypeOK, Call, table

LEMMA FindATyped ==
  ASSUME TypeInv, NEW c \in Callers, FindA(c)
  PROVE  TypeInv'
<1>1. pc[c] = "find_a" /\ job[c].a \in Names
  BY DEF FindA, TypeInv, CallersTyped
<1>2. PICK row \in EventForRecord(job[c].a) : job' = [job EXCEPT ![c].ea = row]
  BY DEF FindA
<1>3. row \in Row
  BY <1>1, EventForRecordFacts DEF TypeInv
<1>4. job' \in [Callers -> Job]
  BY <1>2, <1>3, JobTyped DEF TypeInv, TypeOK, Job
<1>5. pc' = [pc EXCEPT ![c] = "find_b"] /\ pc' \in [Callers -> Steps]
  BY DEF FindA, TypeInv, TypeOK, Steps
<1>6. CallersTyped'
  BY <1>1, <1>2, <1>5 DEF TypeInv, TypeOK, CallersTyped, Job
<1> QED BY <1>4, <1>5, <1>6 DEF TypeInv, TypeOK, FindA, table

LEMMA FindBTyped ==
  ASSUME TypeInv, NEW c \in Callers, FindB(c)
  PROVE  TypeInv'
<1>1. pc[c] = "find_b" /\ job[c].a \in Names /\ job[c].b \in Names
  BY DEF FindB, TypeInv, CallersTyped
<1>2. PICK row \in EventForRecord(job[c].b) :
        IF Branch(job[c].ea, row) = "return"
        THEN Return(c, row.id)
        ELSE /\ pc' = [pc EXCEPT ![c] = Branch(job[c].ea, row)]
             /\ job' = [job EXCEPT ![c].eb = row]
             /\ UNCHANGED returned
  BY DEF FindB
<1>3. row \in Row
  BY <1>1, EventForRecordFacts DEF TypeInv
<1>4. CASE Branch(job[c].ea, row) = "return"
  <2>1. row.id \in Names
    BY <1>3, <1>4 DEF Branch, Row, MaybeName
  <2>2. Return(c, row.id)
    BY <1>2, <1>4
  <2> QED BY <1>1, <2>1, <2>2, ReturnTyped DEF TypeInv, TypeOK, FindB, table
<1>5. CASE Branch(job[c].ea, row) # "return"
  <2>1. job' \in [Callers -> Job] /\ job'[c].ea = job[c].ea /\ job'[c].eb = row
    BY <1>2, <1>3, <1>5, JobTyped DEF TypeInv, TypeOK, Job
  <2>2. /\ pc'[c] = Branch(job[c].ea, row)
        /\ Branch(job[c].ea, row) \in {"create", "add", "merge_set"}
    BY <1>2, <1>5 DEF Branch, TypeInv, TypeOK
  <2>3. pc' \in [Callers -> Steps]
    BY <1>2, <1>5, <2>2 DEF TypeInv, TypeOK, Steps
  <2>4. /\ pc'[c] = "add" => job'[c].ea.id # None \/ job'[c].eb.id # None
        /\ pc'[c] \in {"merge_set", "merge_mark"} => job'[c].ea.id # None /\ job'[c].eb.id # None
    BY <2>1, <2>2 DEF Branch
  <2>5. job'[c].a \in Names /\ job'[c].b \in Names
    BY <1>1, <1>2, <1>5 DEF TypeInv, TypeOK, Job
  <2>6. \A d \in Callers \ {c} : pc'[d] = pc[d] /\ job'[d] = job[d]
    BY <1>2, <1>5 DEF TypeInv, TypeOK
  <2>7. CallersTyped'
    BY <2>4, <2>5, <2>6 DEF TypeInv, CallersTyped
  <2> QED BY <1>2, <1>5, <2>1, <2>3, <2>7 DEF TypeInv, TypeOK, FindB, table
<1> QED BY <1>4, <1>5

LEMMA CreateTyped ==
  ASSUME TypeInv, NEW c \in Callers, Create(c)
  PROVE  TypeInv'
<1> DEFINE e == Least({job[c].a, job[c].b})
<1>1. pc[c] # "idle" /\ job[c].a \in Names /\ job[c].b \in Names /\ e \in Names
  BY LeastOfTwo DEF Create, TypeInv, CallersTyped
<1>2. CASE e \notin born
  <2>1. Return(c, e) /\ SetEventMembers(e, {job[c].a, job[c].b}) /\ born' = born \cup {e}
    BY <1>2 DEF Create
  <2> QED BY <1>1, <1>2, <2>1, ReturnTyped DEF TypeInv, TypeOK, Create, SetEventMembers
<1>3. CASE e \in born
  <2>1. End(c) /\ clashes' = clashes \cup {e} /\ UNCHANGED <<born, members, returned>>
    BY <1>3 DEF Create
  <2> QED BY <1>1, <2>1, EndTyped DEF TypeInv, TypeOK, Create
<1> QED BY <1>2, <1>3

LEMMA AddMemberTyped ==
  ASSUME TypeInv, NEW c \in Callers, AddMember(c)
  PROVE  TypeInv'
<1> DEFINE row == IF job[c].ea.id # None THEN job[c].ea ELSE job[c].eb
           other == IF job[c].ea.id # None THEN job[c].b ELSE job[c].a
<1>1. pc[c] = "add" /\ row.id # None /\ other \in Names
  BY DEF AddMember, TypeInv, CallersTyped
<1>2. row.id \in Names /\ row.members \in SUBSET Names
  BY <1>1, JobTyped DEF TypeInv, MaybeName
<1>3. Return(c, row.id) /\ members' = [members EXCEPT ![row.id] = row.members \cup {other}]
  BY DEF AddMember, SetEventMembers
<1>4. members' \in [Names -> SUBSET Names]
  BY <1>1, <1>2, <1>3 DEF TypeInv, TypeOK
<1> HIDE DEF row
<1> QED BY <1>1, <1>2, <1>3, <1>4, ReturnTyped DEF TypeInv, TypeOK, AddMember

LEMMA MergeSetTyped ==
  ASSUME TypeInv, NEW c \in Callers, MergeSet(c)
  PROVE  TypeInv'
<1>1. members' \in [Names -> SUBSET Names]
  BY JobTyped DEF TypeInv, TypeOK, MergeSet, SetEventMembers
<1>2. pc' \in [Callers -> Steps] /\ pc' = [pc EXCEPT ![c] = "merge_mark"] /\ pc[c] = "merge_set"
  BY DEF TypeInv, TypeOK, MergeSet, Steps
<1>3. CallersTyped'
  BY <1>2 DEF TypeInv, TypeOK, CallersTyped, MergeSet
<1> QED BY <1>1, <1>2, <1>3 DEF TypeInv, TypeOK, MergeSet

LEMMA MergeMarkTyped ==
  ASSUME TypeInv, NEW c \in Callers, MergeMark(c)
  PROVE  TypeInv'
<1>1. pc[c] # "idle" /\ job[c].ea.id \in Names /\ job[c].eb.id \in Names
  BY JobTyped DEF TypeInv, CallersTyped, MergeMark, MaybeName
<1>2. members' \in [Names -> SUBSET Names] /\ mergedInto' \in [Names -> MaybeName]
  BY <1>1 DEF TypeInv, TypeOK, MergeMark, MarkEventMerged, MaybeName
<1>3. Return(c, job[c].ea.id)
  BY DEF MergeMark
<1> QED BY <1>1, <1>2, <1>3, ReturnTyped DEF TypeInv, TypeOK, MergeMark

LEMMA AbortTyped ==
  ASSUME TypeInv, NEW c \in Callers, Abort(c)
  PROVE  TypeInv'
BY EndTyped DEF TypeInv, TypeOK, Abort, table

(* Every variable keeps its type: no interleaving or abort leaves a caller *)
(* about to write through a row it never read.                             *)
THEOREM TypeCorrect == Spec => []TypeInv
<1>1. TypeInv /\ [Next]_vars => TypeInv'
  <2> SUFFICES ASSUME TypeInv, [Next]_vars PROVE TypeInv'
    OBVIOUS
  <2>1. ASSUME NEW c \in Callers, Step(c) PROVE TypeInv'
    BY <2>1, FindATyped, FindBTyped, CreateTyped, AddMemberTyped, MergeSetTyped, MergeMarkTyped
       DEF Step
  <2>2. CASE UNCHANGED vars
    BY <2>2 DEF TypeInv, TypeOK, CallersTyped, vars
  <2> QED BY <2>1, <2>2, CallTyped, AbortTyped DEF Next
<1> QED BY <1>1, InitTyped, PTL DEF Spec

(* The shape of the event store and of the calls that write it, for any    *)
(* number of records and callers, with calls that stop anywhere.           *)
THEOREM TypesHold == Spec => []TypeOK
BY TypeCorrect, PTL DEF TypeInv

-----------------------------------------------------------------------------
(***************************************************************************)
(* No false merge.  The invariant must speak of the rows callers carry     *)
(* across statements: a stale member list is written back later, so it is  *)
(* harmless only because the records in it were, and therefore still are,  *)
(* connected by grounded assertions.                                       *)
(***************************************************************************)
Joined(m, n) == RecordOf[m] \in grounded[RecordOf[n]]
OneCluster(S) == \A m, n \in S : Joined(m, n)
Snapshot(row, n) == row.id # None => n \in row.members /\ OneCluster(row.members)

CallersSound ==
  \A c \in Callers :
    pc[c] # "idle" =>
      /\ Joined(job[c].a, job[c].b)
      /\ Snapshot(job[c].ea, job[c].a)
      /\ Snapshot(job[c].eb, job[c].b)

SoundInv ==
  /\ TypeInv
  /\ Truth!IsPartition
  /\ \A e \in Names : OneCluster(members[e])
  /\ CallersSound

(* In a partition, being joined is symmetric and transitive.               *)
LEMMA JoinedIsEquivalence ==
  ASSUME SoundInv, NEW l \in Names, NEW m \in Names, NEW n \in Names
  PROVE  /\ Joined(m, m)
         /\ Joined(m, n) => Joined(n, m)
         /\ Joined(l, m) /\ Joined(m, n) => Joined(l, n)
BY DEF SoundInv, Truth!IsPartition, Joined

(* Adding a record joined to one that is there keeps a set one cluster.    *)
LEMMA AddKeepsOneCluster ==
  ASSUME SoundInv, NEW S \in SUBSET Names, OneCluster(S),
         NEW m \in S, NEW n \in Names, Joined(m, n) \/ Joined(n, m)
  PROVE  OneCluster(S \cup {n})
<1>1. ASSUME NEW k \in S PROVE Joined(k, n) /\ Joined(n, k)
  <2>1. Joined(k, m) /\ Joined(m, n) /\ Joined(n, m)
    BY JoinedIsEquivalence DEF OneCluster
  <2> QED BY <2>1, JoinedIsEquivalence
<1>2. Joined(n, n)
  BY JoinedIsEquivalence
<1> QED BY <1>1, <1>2 DEF OneCluster

(* Two clusters with joined representatives are one cluster.               *)
LEMMA UnionKeepsOneCluster ==
  ASSUME SoundInv, NEW S \in SUBSET Names, NEW T \in SUBSET Names,
         OneCluster(S), OneCluster(T), NEW m \in S, NEW n \in T, Joined(m, n)
  PROVE  OneCluster(S \cup T)
<1>1. ASSUME NEW k \in S, NEW l \in T PROVE Joined(k, l) /\ Joined(l, k)
  <2>1. Joined(k, m) /\ Joined(n, l)
    BY DEF OneCluster
  <2>2. Joined(k, n)
    BY <2>1, JoinedIsEquivalence
  <2> QED BY <2>1, <2>2, JoinedIsEquivalence
<1> QED BY <1>1 DEF OneCluster

(* What one caller's statement must not disturb when grounded stands still *)
(* and only the caller's own locals change.                                *)
LEMMA OwnStepSound ==
  ASSUME SoundInv, TypeInv', UNCHANGED grounded, NEW c \in Callers,
         \A d \in Callers \ {c} : pc'[d] = pc[d] /\ job'[d] = job[d],
         pc'[c] # "idle" => /\ job'[c].a = job[c].a /\ job'[c].b = job[c].b /\ pc[c] # "idle"
                           /\ Snapshot(job'[c].ea, job'[c].a)
                           /\ Snapshot(job'[c].eb, job'[c].b),
         \A e \in Names : OneCluster(members'[e])
  PROVE  SoundInv'
<1>1. Truth!IsPartition'
  BY DEF SoundInv, Truth!IsPartition
<1>2. \A e \in Names : OneCluster(members[e])'
  BY DEF OneCluster, Joined
<1>3. CallersSound'
  BY DEF SoundInv, CallersSound, Snapshot, OneCluster, Joined
<1> QED BY <1>1, <1>2, <1>3 DEF SoundInv

(* A step that ends c's call leaves c without locals to speak of.          *)
LEMMA EndedSound ==
  ASSUME SoundInv, TypeInv', UNCHANGED grounded, NEW c \in Callers, End(c),
         \A e \in Names : OneCluster(members'[e])
  PROVE  SoundInv'
<1>1. pc'[c] = "idle" /\ \A d \in Callers \ {c} : pc'[d] = pc[d] /\ job'[d] = job[d]
  BY DEF End, SoundInv, TypeInv, TypeOK
<1> QED BY <1>1, OwnStepSound

LEMMA InitSound == Init => SoundInv
<1> SUFFICES ASSUME Init PROVE SoundInv
  OBVIOUS
<1>1. Truth!IsPartition
  BY DEF Init, Truth!Init, Truth!IsPartition
<1>2. \A e \in Names : OneCluster(members[e])
  BY DEF Init, OneCluster
<1>3. CallersSound
  BY DEF Init, CallersSound
<1> QED BY <1>1, <1>2, <1>3, InitTyped DEF SoundInv

(* A call grounds one more assertion: the truth grows, so every set that   *)
(* was one cluster still is, and the two arguments now are.                *)
LEMMA CallSound ==
  ASSUME SoundInv, NEW c \in Callers, NEW a \in Names, NEW b \in Names, Call(c, a, b)
  PROVE  SoundInv'
<1> DEFINE ra == RecordOf[a]
           rb == RecordOf[b]
<1>1. ra \in Records /\ rb \in Records
  OBVIOUS
<1>2. Truth!TypeOK /\ Truth!IsPartition /\ Truth!Assert(ra, rb)
  BY DEF SoundInv, TypeInv, TypeOK, Truth!TypeOK, Call
<1>3. Truth!IsPartition'
  BY <1>1, <1>2, AssertKeepsPartition
<1>4. (\A r \in Records : grounded[r] \subseteq grounded'[r]) /\ ra \in grounded'[rb]
  BY <1>1, <1>2, AssertGrows
<1>5. ASSUME NEW S \in SUBSET Names, OneCluster(S) PROVE OneCluster(S)'
  BY <1>4, <1>5 DEF OneCluster, Joined
<1>6. members' = members
  BY DEF Call, table
<1>7. \A e \in Names : OneCluster(members[e])'
  BY <1>5, <1>6 DEF SoundInv, TypeInv, TypeOK
<1>8. CallersSound'
  <2> SUFFICES ASSUME NEW d \in Callers, pc'[d] # "idle"
               PROVE  /\ Joined(job[d].a, job[d].b)'
                      /\ Snapshot(job[d].ea, job[d].a)'
                      /\ Snapshot(job[d].eb, job[d].b)'
    BY DEF CallersSound
  <2>1. CASE d = c
    <3>1. job'[d].a = a /\ job'[d].b = b /\ job'[d].ea.id = None /\ job'[d].eb.id = None
      BY <2>1 DEF Call, SoundInv, TypeInv, TypeOK, NoJob, NoRow
    <3> QED BY <3>1, <1>4 DEF Joined, Snapshot
  <2>2. CASE d # c
    <3>1. job'[d] = job[d] /\ pc'[d] = pc[d]
      BY <2>2 DEF Call, SoundInv, TypeInv, TypeOK
    <3>2. job[d].a \in Names /\ job[d].b \in Names
      BY <3>1 DEF SoundInv, TypeInv, CallersTyped
    <3>3. job[d].ea.members \in SUBSET Names /\ job[d].eb.members \in SUBSET Names
      BY JobTyped DEF SoundInv, TypeInv
    <3>4. /\ Joined(job[d].a, job[d].b)
          /\ Snapshot(job[d].ea, job[d].a)
          /\ Snapshot(job[d].eb, job[d].b)
      BY <3>1 DEF SoundInv, CallersSound
    <3>5. Joined(job[d].a, job[d].b)'
      BY <3>1, <3>2, <3>4, <1>4 DEF Joined
    <3>6. OneCluster(job[d].ea.members) => OneCluster(job[d].ea.members)'
      BY <3>1, <3>3, <1>4 DEF OneCluster, Joined
    <3>7. OneCluster(job[d].eb.members) => OneCluster(job[d].eb.members)'
      BY <3>1, <3>3, <1>4 DEF OneCluster, Joined
    <3> QED BY <3>1, <3>4, <3>5, <3>6, <3>7 DEF Snapshot
  <2> QED BY <2>1, <2>2
<1> QED BY <1>3, <1>7, <1>8, CallTyped DEF SoundInv

(* What is read is a snapshot of one cluster that holds the record asked.  *)
LEMMA ReadIsSnapshot ==
  ASSUME SoundInv, NEW n \in Names, NEW row \in EventForRecord(n)
  PROVE  Snapshot(row, n)
BY EventForRecordFacts DEF SoundInv, TypeInv, Snapshot, Row, MaybeName

LEMMA FindASound ==
  ASSUME SoundInv, NEW c \in Callers, FindA(c)
  PROVE  SoundInv'
<1>1. pc[c] = "find_a" /\ job[c].a \in Names
  BY DEF FindA, SoundInv, TypeInv, CallersTyped
<1>2. PICK row \in EventForRecord(job[c].a) : job' = [job EXCEPT ![c].ea = row]
  BY DEF FindA
<1>3. Snapshot(row, job[c].a) /\ Snapshot(job[c].eb, job[c].b)
  BY <1>1, ReadIsSnapshot DEF SoundInv, CallersSound
<1>4. /\ job'[c].a = job[c].a /\ job'[c].b = job[c].b
      /\ job'[c].ea = row /\ job'[c].eb = job[c].eb
  BY <1>2 DEF SoundInv, TypeInv, TypeOK, Job
<1>5. \A d \in Callers \ {c} : pc'[d] = pc[d] /\ job'[d] = job[d]
  BY <1>2 DEF FindA, SoundInv, TypeInv, TypeOK
<1>6. TypeInv' /\ UNCHANGED grounded /\ members' = members
  BY FindATyped DEF SoundInv, FindA, table
<1>7. \A e \in Names : OneCluster(members'[e])
  BY <1>6 DEF SoundInv
<1> QED BY <1>1, <1>3, <1>4, <1>5, <1>6, <1>7, OwnStepSound

LEMMA FindBSound ==
  ASSUME SoundInv, NEW c \in Callers, FindB(c)
  PROVE  SoundInv'
<1>1. pc[c] = "find_b" /\ job[c].b \in Names
  BY DEF FindB, SoundInv, TypeInv, CallersTyped
<1>2. PICK row \in EventForRecord(job[c].b) :
        IF Branch(job[c].ea, row) = "return"
        THEN Return(c, row.id)
        ELSE /\ pc' = [pc EXCEPT ![c] = Branch(job[c].ea, row)]
             /\ job' = [job EXCEPT ![c].eb = row]
             /\ UNCHANGED returned
  BY DEF FindB
<1>3. TypeInv' /\ UNCHANGED grounded /\ members' = members
  BY FindBTyped DEF SoundInv, FindB, table
<1>4. \A e \in Names : OneCluster(members'[e])
  BY <1>3 DEF SoundInv
<1>5. CASE Branch(job[c].ea, row) = "return"
  BY <1>2, <1>3, <1>4, <1>5, EndedSound DEF Return
<1>6. CASE Branch(job[c].ea, row) # "return"
  <2>1. Snapshot(row, job[c].b) /\ Snapshot(job[c].ea, job[c].a)
    BY <1>1, ReadIsSnapshot DEF SoundInv, CallersSound
  <2>2. /\ job'[c].a = job[c].a /\ job'[c].b = job[c].b
        /\ job'[c].ea = job[c].ea /\ job'[c].eb = row
    BY <1>2, <1>6 DEF SoundInv, TypeInv, TypeOK, Job
  <2>3. \A d \in Callers \ {c} : pc'[d] = pc[d] /\ job'[d] = job[d]
    BY <1>2, <1>6 DEF SoundInv, TypeInv, TypeOK
  <2> QED BY <1>1, <1>3, <1>4, <2>1, <2>2, <2>3, OwnStepSound
<1> QED BY <1>5, <1>6

LEMMA CreateSound ==
  ASSUME SoundInv, NEW c \in Callers, Create(c)
  PROVE  SoundInv'
<1> DEFINE pair == {job[c].a, job[c].b}
           e    == Least(pair)
<1>1. job[c].a \in Names /\ job[c].b \in Names /\ Joined(job[c].a, job[c].b)
  BY DEF Create, SoundInv, TypeInv, CallersTyped, CallersSound
<1>2. OneCluster(pair)
  BY <1>1, JoinedIsEquivalence DEF OneCluster
<1>3. TypeInv' /\ UNCHANGED grounded /\ End(c)
  BY CreateTyped DEF SoundInv, Create, Return
<1>4. members' = [members EXCEPT ![e] = pair] \/ members' = members
  BY DEF Create, SetEventMembers
<1>5. \A f \in Names : OneCluster(members'[f])
  <2> HIDE DEF e, pair
  <2> QED BY <1>2, <1>4 DEF SoundInv, TypeInv, TypeOK
<1> QED BY <1>3, <1>5, EndedSound

LEMMA AddMemberSound ==
  ASSUME SoundInv, NEW c \in Callers, AddMember(c)
  PROVE  SoundInv'
<1> DEFINE row   == IF job[c].ea.id # None THEN job[c].ea ELSE job[c].eb
           here  == IF job[c].ea.id # None THEN job[c].a ELSE job[c].b
           other == IF job[c].ea.id # None THEN job[c].b ELSE job[c].a
<1>1. /\ row.id # None /\ here \in Names /\ other \in Names
      /\ Joined(here, other) \/ Joined(other, here)
  BY DEF AddMember, SoundInv, TypeInv, CallersTyped, CallersSound
<1>2. row.members \in SUBSET Names /\ here \in row.members /\ OneCluster(row.members)
  BY <1>1, JobTyped DEF AddMember, SoundInv, TypeInv, CallersSound, Snapshot
<1>3. members' = [members EXCEPT ![row.id] = row.members \cup {other}]
  BY DEF AddMember, SetEventMembers
<1>4. TypeInv' /\ UNCHANGED grounded /\ End(c)
  BY AddMemberTyped DEF SoundInv, AddMember, Return
<1> HIDE DEF row, here, other
<1>5. OneCluster(row.members \cup {other})
  BY <1>1, <1>2, AddKeepsOneCluster
<1>6. \A f \in Names : OneCluster(members'[f])
  BY <1>3, <1>5 DEF SoundInv, TypeInv, TypeOK
<1> QED BY <1>4, <1>6, EndedSound

LEMMA MergeSetSound ==
  ASSUME SoundInv, NEW c \in Callers, MergeSet(c)
  PROVE  SoundInv'
<1> DEFINE S == job[c].ea.members
           T == job[c].eb.members
<1>1. /\ S \in SUBSET Names /\ T \in SUBSET Names /\ job[c].a \in S /\ job[c].b \in T
      /\ OneCluster(S) /\ OneCluster(T) /\ Joined(job[c].a, job[c].b)
  BY JobTyped DEF MergeSet, SoundInv, TypeInv, CallersTyped, CallersSound, Snapshot
<1>2. OneCluster(S \cup T)
  BY <1>1, UnionKeepsOneCluster
<1>3. members' = [members EXCEPT ![job[c].ea.id] = S \cup T]
  BY DEF MergeSet, SetEventMembers
<1>4. \A f \in Names : OneCluster(members'[f])
  BY <1>2, <1>3 DEF SoundInv, TypeInv, TypeOK
<1>5. TypeInv' /\ UNCHANGED grounded /\ UNCHANGED job /\ pc[c] = "merge_set"
  BY MergeSetTyped DEF SoundInv, MergeSet
<1>6. \A d \in Callers \ {c} : pc'[d] = pc[d] /\ job'[d] = job[d]
  BY DEF MergeSet, SoundInv, TypeInv, TypeOK
<1>7. Snapshot(job[c].ea, job[c].a) /\ Snapshot(job[c].eb, job[c].b)
  BY <1>5 DEF SoundInv, CallersSound
<1> QED BY <1>4, <1>5, <1>6, <1>7, OwnStepSound

LEMMA MergeMarkSound ==
  ASSUME SoundInv, NEW c \in Callers, MergeMark(c)
  PROVE  SoundInv'
<1>1. members' = [members EXCEPT ![job[c].eb.id] = {}]
  BY DEF MergeMark, MarkEventMerged
<1>2. \A f \in Names : OneCluster(members'[f])
  BY <1>1 DEF SoundInv, TypeInv, TypeOK, OneCluster
<1>3. TypeInv' /\ UNCHANGED grounded /\ End(c)
  BY MergeMarkTyped DEF SoundInv, MergeMark, Return
<1> QED BY <1>2, <1>3, EndedSound

LEMMA AbortSound ==
  ASSUME SoundInv, NEW c \in Callers, Abort(c)
  PROVE  SoundInv'
<1>1. TypeInv' /\ UNCHANGED grounded /\ members' = members /\ End(c)
  BY AbortTyped DEF SoundInv, Abort, table
<1>2. \A f \in Names : OneCluster(members'[f])
  BY <1>1 DEF SoundInv
<1> QED BY <1>1, <1>2, EndedSound

(* Each statement of materialize preserves the invariant, whoever calls it. *)
LEMMA StepSound ==
  ASSUME SoundInv, NEW c \in Callers, Step(c)
  PROVE  SoundInv'
BY FindASound, FindBSound, CreateSound, AddMemberSound, MergeSetSound, MergeMarkSound DEF Step

(* A call that ends early changes no row; what was returned may be forgotten. *)
LEMMA EndedEarlySound ==
  ASSUME SoundInv, NEW c \in Callers, End(c), returned' \subseteq returned,
         UNCHANGED <<born, members, mergedInto, clashes, calls, grounded>>
  PROVE  SoundInv'
<1>1. TypeInv'
  BY EndTyped DEF SoundInv, TypeInv, TypeOK
<1> QED BY <1>1, EndedSound DEF SoundInv

(* What was returned may be forgotten at any time.                         *)
LEMMA ForgottenSound ==
  ASSUME SoundInv, returned' \subseteq returned,
         UNCHANGED <<born, members, mergedInto, pc, job, clashes, calls, grounded>>
  PROVE  SoundInv'
<1>1. TypeInv'
  BY DEF SoundInv, TypeInv, TypeOK, CallersTyped
<1> QED BY <1>1 DEF SoundInv, Truth!IsPartition, OneCluster, Joined, CallersSound, Snapshot

(* The inductive invariant holds throughout.                               *)
LEMMA AlwaysSound == Spec => []SoundInv
<1>1. SoundInv /\ [Next]_vars => SoundInv'
  <2> SUFFICES ASSUME SoundInv, [Next]_vars PROVE SoundInv'
    OBVIOUS
  <2>1. ASSUME NEW c \in Callers, Step(c) PROVE SoundInv'
    BY <2>1, StepSound
  <2>2. CASE UNCHANGED vars
    <3>1. TypeInv'
      BY <2>2 DEF SoundInv, TypeInv, TypeOK, CallersTyped, vars
    <3> QED BY <2>2, <3>1 DEF SoundInv, vars, Truth!IsPartition, OneCluster, Joined,
                              CallersSound, Snapshot
  <2> QED BY <2>1, <2>2, CallSound, AbortSound DEF Next
<1> QED BY <1>1, InitSound, PTL DEF Spec

(* What the invariant says of the rows: they have their types, and hold no more than  *)
(* one cluster of the assertions each.                                     *)
LEMMA SoundFacts ==
  ASSUME SoundInv
  PROVE  TypeOK /\ Truth!IsPartition /\ NoFalseMerge
BY DEF SoundInv, TypeInv, TypeOK, NoFalseMerge, OneCluster, Joined

(* However link_events calls interleave and wherever they stop, two records *)
(* share an Event only if grounded same_event assertions connect them.      *)
THEOREM NeverFalselyMerged == Spec => []NoFalseMerge
<1>1. SoundInv => NoFalseMerge
  BY DEF SoundInv, TypeInv, TypeOK, NoFalseMerge, OneCluster, Joined
<1> QED BY <1>1, AlwaysSound, PTL

-----------------------------------------------------------------------------
(***************************************************************************)
(* One call at a time.  A docstring promises a union-find; it is one where *)
(* calls do not overlap, because then what a call has read is still so     *)
(* when it writes.  Calls may stop anywhere, and spellings may differ,     *)
(* until the last part, which is about whole calls.                        *)
(***************************************************************************)
Serial == \A c, d \in Callers : c = d

\* A row that was not inserted has no contents.
UnbornAreBlank ==
  \A e \in Names : e \notin born => members[e] = {} /\ mergedInto[e] = None

\* The name of an event is found in an unmerged one, its own or another.
LabelsAreFound == \A e \in born : \E f \in Live : e \in members[f]

\* What event_for_record(n) returned is what it would return now.
Fresh(row, n) ==
  /\ row.id # None => row.id \in Live /\ n \in row.members /\ row.members = members[row.id]
  /\ row.id = None => \A f \in Live : n \notin members[f]

\* Between the two UPDATEs the survivor already holds what the absorbed one still has.
HalfMerged(j) ==
  /\ j.ea.id \in Live /\ j.eb.id \in Live /\ j.ea.id # j.eb.id
  /\ j.a \in j.ea.members /\ j.b \in j.eb.members
  /\ members[j.ea.id] = j.ea.members \cup j.eb.members
  /\ members[j.eb.id] = j.eb.members

\* What the call at statement p has read is up to date.
UpToDate(p, j) ==
  /\ p \in {"find_b", "create", "add", "merge_set"} => Fresh(j.ea, j.a)
  /\ p \in {"create", "add", "merge_set"} => Fresh(j.eb, j.b)
  /\ p = "create" => j.ea.id = None /\ j.eb.id = None
  /\ p = "add" => ((j.ea.id = None) # (j.eb.id = None))
  /\ p = "merge_set" => j.ea.id # None /\ j.eb.id # None /\ j.ea.id # j.eb.id
  /\ p = "merge_mark" => HalfMerged(j)

SerialInv ==
  /\ TypeInv
  /\ UnbornAreBlank
  /\ LabelsAreFound
  /\ \A c \in Callers : UpToDate(pc[c], job[c])
  /\ LinksLeadToTheirEvent
  /\ NoInsertClash

(* A statement that takes nothing from an unmerged event and redirects no  *)
(* absorbed one.                                                           *)
Grows ==
  /\ \A f \in Live : f \in Live' /\ members[f] \subseteq members'[f]
  /\ \A x \in Names : mergedInto[x] # None => mergedInto'[x] = mergedInto[x]

(* Where a way along merged_into leads, it still leads once it is longer.  *)
LEMMA LeadsStays ==
  ASSUME NEW e, NEW f, LeadsTo(e, f),
         \A x \in Names : mergedInto[x] # None => mergedInto'[x] = mergedInto[x]
  PROVE  LeadsTo(e, f)'
<1> SUFFICES ASSUME NEW S \in SUBSET Names, e \in S, \A x \in S : mergedInto'[x] \in S \cup {None}
             PROVE  f \in S
  BY DEF LeadsTo
<1>1. \A x \in S : mergedInto[x] \in S \cup {None}
  OBVIOUS
<1> QED BY <1>1 DEF LeadsTo

(* Links keep leading to their event while events grow, and a new one does *)
(* if the event it names holds its records.                                *)
LEMMA LinksStay ==
  ASSUME LinksLeadToTheirEvent, Grows,
         \A l \in returned' : l \in returned \/
           (l.event \in Live' /\ l.a \in members'[l.event] /\ l.b \in members'[l.event])
  PROVE  LinksLeadToTheirEvent'
<1> SUFFICES ASSUME NEW l \in returned'
             PROVE  \E f \in Live' : LeadsTo(l.event, f)' /\ {l.a, l.b} \subseteq members'[f]
  BY DEF LinksLeadToTheirEvent
<1>1. CASE l \in returned
  <2>1. PICK f \in Live : LeadsTo(l.event, f) /\ {l.a, l.b} \subseteq members[f]
    BY <1>1 DEF LinksLeadToTheirEvent
  <2>2. LeadsTo(l.event, f)'
    BY <2>1, LeadsStays DEF Grows
  <2> QED BY <2>1, <2>2 DEF Grows
<1>2. CASE l \notin returned
  <2>1. LeadsTo(l.event, l.event)'
    BY DEF LeadsTo
  <2> QED BY <1>2, <2>1
<1> QED BY <1>1, <1>2

(* What a growing statement of the one caller has to show.                 *)
LEMMA GrowthIsSerial ==
  ASSUME Serial, SerialInv, TypeInv', Grows, NEW c \in Callers,
         UnbornAreBlank',
         \A e \in born' : e \in born \/ (e \in Live' /\ e \in members'[e]),
         UpToDate(pc[c], job[c])',
         \A l \in returned' : l \in returned \/
           (l.event \in Live' /\ l.a \in members'[l.event] /\ l.b \in members'[l.event]),
         clashes' = clashes
  PROVE  SerialInv'
<1>1. LinksLeadToTheirEvent'
  BY LinksStay DEF SerialInv
<1>2. LabelsAreFound'
  BY DEF SerialInv, LabelsAreFound, Grows
<1>3. \A d \in Callers : UpToDate(pc[d], job[d])'
  BY DEF Serial
<1> QED BY <1>1, <1>2, <1>3 DEF SerialInv, NoInsertClash

(* So a statement that writes nothing has to show what it read.            *)
LEMMA ReadIsSerial ==
  ASSUME Serial, SerialInv, TypeInv', UNCHANGED table, NEW c \in Callers,
         UpToDate(pc[c], job[c])',
         \A l \in returned' : l \in returned \/
           (l.event \in Live /\ l.a \in members[l.event] /\ l.b \in members[l.event]),
         clashes' = clashes
  PROVE  SerialInv'
<1>1. Live' = Live /\ Grows
  BY DEF table, Live, Grows
<1>2. UnbornAreBlank'
  BY DEF table, SerialInv, UnbornAreBlank
<1> QED BY <1>1, <1>2, GrowthIsSerial DEF table

(* A call in flight is the only one: it has two names and typed rows.      *)
LEMMA TheCall ==
  ASSUME SerialInv, NEW c \in Callers, pc[c] # "idle"
  PROVE  /\ job[c].a \in Names /\ job[c].b \in Names
         /\ job[c] \in Job /\ job[c].ea \in Row /\ job[c].eb \in Row
         /\ job[c].ea.id \in MaybeName /\ job[c].eb.id \in MaybeName
         /\ job[c].ea.members \subseteq Names /\ job[c].eb.members \subseteq Names
         /\ UpToDate(pc[c], job[c])
BY JobTyped DEF SerialInv, TypeInv, CallersTyped

(* A SELECT is up to date when it comes back.                              *)
LEMMA ReadIsFresh ==
  ASSUME SerialInv, NEW n \in Names, NEW row \in EventForRecord(n)
  PROVE  Fresh(row, n)
<1>1. CASE \A f \in Live : n \notin members[f]
  BY <1>1 DEF EventForRecord, NoRow, Fresh
<1>2. CASE \E f \in Live : n \in members[f]
  <2>1. PICK e \in Live : n \in members[e] /\ row = [id |-> e, members |-> members[e]]
    BY <1>2 DEF EventForRecord
  <2>2. e \in Names
    BY DEF Live, SerialInv, TypeInv, TypeOK
  <2> QED BY <2>1, <2>2 DEF Fresh
<1> QED BY <1>1, <1>2

LEMMA InitSerial == Init => SerialInv
<1> SUFFICES ASSUME Init PROVE SerialInv
  OBVIOUS
<1>1. /\ UnbornAreBlank /\ LabelsAreFound /\ LinksLeadToTheirEvent /\ NoInsertClash
      /\ \A c \in Callers : UpToDate(pc[c], job[c])
  BY DEF Init, UnbornAreBlank, LabelsAreFound, LinksLeadToTheirEvent, NoInsertClash, UpToDate
<1> QED BY <1>1, InitTyped DEF SerialInv

LEMMA CallSerial ==
  ASSUME Serial, SerialInv, NEW c \in Callers, NEW a \in Names, NEW b \in Names, Call(c, a, b)
  PROVE  SerialInv'
<1>1. pc'[c] = "find_a"
  BY DEF Call, SerialInv, TypeInv, TypeOK
<1>2. UpToDate(pc[c], job[c])'
  BY <1>1 DEF UpToDate
<1> QED BY <1>2, CallTyped, ReadIsSerial DEF SerialInv, Call

LEMMA AbortSerial ==
  ASSUME Serial, SerialInv, NEW c \in Callers, Abort(c)
  PROVE  SerialInv'
<1>1. pc'[c] = "idle"
  BY DEF Abort, End, SerialInv, TypeInv, TypeOK
<1>2. UpToDate(pc[c], job[c])'
  BY <1>1 DEF UpToDate
<1> QED BY <1>2, AbortTyped, ReadIsSerial DEF SerialInv, Abort

LEMMA FindASerial ==
  ASSUME Serial, SerialInv, NEW c \in Callers, FindA(c)
  PROVE  SerialInv'
<1>1. pc[c] = "find_a" /\ pc'[c] = "find_b" /\ job[c].a \in Names /\ UNCHANGED table
  BY TheCall DEF FindA, SerialInv, TypeInv, TypeOK
<1>2. PICK row \in EventForRecord(job[c].a) : job' = [job EXCEPT ![c].ea = row]
  BY DEF FindA
<1>3. job'[c].a = job[c].a /\ job'[c].ea = row
  BY <1>1, <1>2, TheCall DEF SerialInv, TypeInv, TypeOK, Job
<1>4. Fresh(row, job[c].a)'
  <2>1. PICK n : n = job[c].a
    OBVIOUS
  <2>2. Fresh(row, n)
    BY <1>1, <2>1, ReadIsFresh
  <2>3. Live' = Live /\ members' = members
    BY <1>1 DEF table, Live
  <2> QED BY <1>3, <2>1, <2>2, <2>3 DEF Fresh
<1>5. UpToDate(pc[c], job[c])'
  BY <1>1, <1>3, <1>4 DEF UpToDate, Fresh
<1> QED BY <1>1, <1>5, FindATyped, ReadIsSerial DEF SerialInv, FindA

LEMMA FindBSerial ==
  ASSUME Serial, SerialInv, NEW c \in Callers, FindB(c)
  PROVE  SerialInv'
<1>1. pc[c] = "find_b" /\ job[c].a \in Names /\ job[c].b \in Names /\ UNCHANGED table
  BY TheCall DEF FindB
<1>2. PICK row \in EventForRecord(job[c].b) :
        IF Branch(job[c].ea, row) = "return"
        THEN Return(c, row.id)
        ELSE /\ pc' = [pc EXCEPT ![c] = Branch(job[c].ea, row)]
             /\ job' = [job EXCEPT ![c].eb = row]
             /\ UNCHANGED returned
  BY DEF FindB
<1>3. Fresh(row, job[c].b) /\ Fresh(job[c].ea, job[c].a)
  BY <1>1, ReadIsFresh, TheCall DEF UpToDate
<1>4. TypeInv'
  BY FindBTyped DEF SerialInv
<1>5. CASE Branch(job[c].ea, row) = "return"
  <2>1. row.id # None /\ job[c].ea.id = row.id
    BY <1>5 DEF Branch
  <2>2. row.id \in Live /\ job[c].a \in members[row.id] /\ job[c].b \in members[row.id]
    BY <1>3, <2>1 DEF Fresh
  <2>3. pc'[c] = "idle"
    BY <1>2, <1>5 DEF Return, End, SerialInv, TypeInv, TypeOK
  <2>4. \A l \in returned' : l \in returned \/
          (l.event \in Live /\ l.a \in members[l.event] /\ l.b \in members[l.event])
    BY <1>2, <1>5, <2>2 DEF Return
  <2>5. UpToDate(pc[c], job[c])'
    BY <2>3 DEF UpToDate
  <2> QED BY <1>1, <1>4, <2>4, <2>5, ReadIsSerial DEF FindB
<1>6. CASE Branch(job[c].ea, row) # "return"
  <2>1. /\ pc'[c] = Branch(job[c].ea, row) /\ returned' = returned
        /\ job'[c].ea = job[c].ea /\ job'[c].eb = row
        /\ job'[c].a = job[c].a /\ job'[c].b = job[c].b
    BY <1>1, <1>2, <1>6, TheCall DEF SerialInv, TypeInv, TypeOK, Job
  <2>2. Fresh(job[c].ea, job[c].a)' /\ Fresh(job[c].eb, job[c].b)'
    <3>1. PICK j : j = job[c]
      OBVIOUS
    <3>2. Fresh(j.ea, j.a)' /\ Fresh(row, j.b)'
      BY <1>1, <1>3, <3>1 DEF Fresh, Live, table
    <3> QED BY <2>1, <3>1, <3>2 DEF Fresh
  <2>3. UpToDate(pc[c], job[c])'
    BY <1>6, <2>1, <2>2 DEF UpToDate, Branch
  <2> QED BY <1>1, <1>4, <2>1, <2>3, ReadIsSerial DEF FindB
<1> QED BY <1>5, <1>6

(* No label clashes: what has a taken label is found, and what is found is *)
(* not created.                                                            *)
LEMMA CreateSerial ==
  ASSUME Serial, SerialInv, NEW c \in Callers, Create(c)
  PROVE  SerialInv' /\ Least({job[c].a, job[c].b}) \notin born
<1>1. PICK a, b, e : a = job[c].a /\ b = job[c].b /\ e = Least({a, b})
  OBVIOUS
<1>2. pc[c] = "create" /\ a \in Names /\ b \in Names
  BY <1>1, TheCall DEF Create
<1>3. e \in {a, b} /\ e \in Names
  BY <1>1, <1>2, LeastOfTwo
<1>4. \A f \in Live : a \notin members[f] /\ b \notin members[f]
  BY <1>1, <1>2, TheCall DEF UpToDate, Fresh
<1>5. e \notin born
  BY <1>3, <1>4 DEF SerialInv, LabelsAreFound
<1>6. /\ born' = born \cup {e} /\ members' = [members EXCEPT ![e] = {a, b}]
      /\ mergedInto' = mergedInto /\ clashes' = clashes /\ Return(c, e)
  BY <1>1, <1>5 DEF Create, SetEventMembers
<1>7. mergedInto[e] = None
  BY <1>3, <1>5 DEF SerialInv, UnbornAreBlank
<1>8. /\ members' \in [Names -> SUBSET Names] /\ members'[e] = {a, b}
      /\ \A f \in Names \ {e} : members'[f] = members[f]
      /\ Live' = Live \cup {e} /\ Live \subseteq Names \ {e}
  BY <1>2, <1>3, <1>5, <1>6, <1>7 DEF SerialInv, TypeInv, TypeOK, Live
<1>9. Grows
  BY <1>6, <1>8 DEF Grows
<1>10. UnbornAreBlank'
  BY <1>6, <1>8 DEF SerialInv, UnbornAreBlank
<1>11. \A f \in born' : f \in born \/ (f \in Live' /\ f \in members'[f])
  BY <1>3, <1>6, <1>8
<1>12. UpToDate(pc[c], job[c])'
  BY <1>6 DEF UpToDate, Return, End, SerialInv, TypeInv, TypeOK
<1>13. \A l \in returned' : l \in returned \/
         (l.event \in Live' /\ l.a \in members'[l.event] /\ l.b \in members'[l.event])
  BY <1>1, <1>6, <1>8 DEF Return
<1>14. TypeInv'
  BY CreateTyped DEF SerialInv
<1>15. SerialInv'
  BY <1>6, <1>9, <1>10, <1>11, <1>12, <1>13, <1>14, GrowthIsSerial
<1> QED BY <1>1, <1>5, <1>15

LEMMA AddMemberSerial ==
  ASSUME Serial, SerialInv, NEW c \in Callers, AddMember(c)
  PROVE  SerialInv'
<1>1. PICK j : j = job[c]
  OBVIOUS
<1>2. /\ pc[c] = "add" /\ j.a \in Names /\ j.b \in Names
      /\ Fresh(j.ea, j.a) /\ Fresh(j.eb, j.b) /\ (j.ea.id = None) # (j.eb.id = None)
  BY <1>1, TheCall DEF AddMember, UpToDate
<1>3. PICK e \in Live :
        /\ members' = [members EXCEPT ![e] = members[e] \cup {j.a, j.b}]
        /\ Return(c, e) /\ UNCHANGED <<born, mergedInto, clashes>>
  <2>1. CASE j.ea.id # None
    BY <1>1, <1>2, <2>1 DEF AddMember, SetEventMembers, Fresh
  <2>2. CASE j.ea.id = None
    BY <1>1, <1>2, <2>2 DEF AddMember, SetEventMembers, Fresh
  <2> QED BY <2>1, <2>2
<1>4. e \in Names /\ e \in born /\ Live' = Live
  BY <1>3 DEF Live, SerialInv, TypeInv, TypeOK
<1>5. members'[e] = members[e] \cup {j.a, j.b} /\ \A f \in Names \ {e} : members'[f] = members[f]
  BY <1>3, <1>4 DEF SerialInv, TypeInv, TypeOK
<1>6. Grows
  BY <1>3, <1>4, <1>5 DEF Grows, Live, SerialInv, TypeInv, TypeOK
<1>7. UnbornAreBlank'
  BY <1>3, <1>4, <1>5 DEF SerialInv, UnbornAreBlank
<1>8. UpToDate(pc[c], job[c])'
  BY <1>3 DEF UpToDate, Return, End, SerialInv, TypeInv, TypeOK
<1>9. \A l \in returned' : l \in returned \/
        (l.event \in Live' /\ l.a \in members'[l.event] /\ l.b \in members'[l.event])
  BY <1>1, <1>3, <1>4, <1>5 DEF Return
<1>10. TypeInv'
  BY AddMemberTyped DEF SerialInv
<1> QED BY <1>3, <1>6, <1>7, <1>8, <1>9, <1>10, GrowthIsSerial

LEMMA MergeSetSerial ==
  ASSUME Serial, SerialInv, NEW c \in Callers, MergeSet(c)
  PROVE  SerialInv'
<1>1. PICK j : j = job[c]
  OBVIOUS
<1>2. PICK e, g : e = j.ea.id /\ g = j.eb.id
  OBVIOUS
<1>3. /\ pc[c] = "merge_set" /\ Fresh(j.ea, j.a) /\ Fresh(j.eb, j.b)
      /\ e # None /\ g # None /\ e # g
  BY <1>1, <1>2, TheCall DEF MergeSet, UpToDate
<1>4. /\ e \in Live /\ g \in Live /\ j.a \in j.ea.members /\ j.b \in j.eb.members
      /\ j.ea.members = members[e] /\ j.eb.members = members[g]
  BY <1>2, <1>3 DEF Fresh
<1>5. /\ members' = [members EXCEPT ![e] = members[e] \cup members[g]]
      /\ pc'[c] = "merge_mark" /\ job'[c] = j
      /\ UNCHANGED <<born, mergedInto, returned, clashes>>
  BY <1>1, <1>2, <1>4 DEF MergeSet, SetEventMembers, SerialInv, TypeInv, TypeOK
<1>6. e \in Names /\ g \in Names /\ e \in born /\ Live' = Live /\ Live \subseteq Names
  BY <1>4, <1>5 DEF Live, SerialInv, TypeInv, TypeOK
<1>7. /\ members'[e] = members[e] \cup members[g]
      /\ \A f \in Names \ {e} : members'[f] = members[f]
  BY <1>5, <1>6 DEF SerialInv, TypeInv, TypeOK
<1>8. Grows
  BY <1>5, <1>6, <1>7 DEF Grows
<1>9. UnbornAreBlank'
  BY <1>5, <1>6, <1>7 DEF SerialInv, UnbornAreBlank
<1>10. HalfMerged(j)'
  BY <1>2, <1>3, <1>4, <1>6, <1>7 DEF HalfMerged
<1>11. UpToDate(pc[c], job[c])'
  BY <1>5, <1>10 DEF UpToDate, HalfMerged
<1>12. TypeInv'
  BY MergeSetTyped DEF SerialInv
<1> QED BY <1>5, <1>8, <1>9, <1>11, <1>12, GrowthIsSerial

(* What led to the absorbed event leads on to the survivor, which has its  *)
(* members already.                                                        *)
LEMMA MergeMarkSerial ==
  ASSUME Serial, SerialInv, NEW c \in Callers, MergeMark(c)
  PROVE  SerialInv'
<1>1. PICK j : j = job[c]
  OBVIOUS
<1>2. PICK e, g : e = j.ea.id /\ g = j.eb.id
  OBVIOUS
<1>3. /\ pc[c] = "merge_mark" /\ e \in Live /\ g \in Live /\ e # g
      /\ j.a \in members[e] /\ j.b \in members[e] /\ members[g] \subseteq members[e]
  <2>1. pc[c] = "merge_mark" /\ HalfMerged(j)
    BY <1>1, TheCall DEF MergeMark, UpToDate
  <2> QED BY <1>2, <2>1 DEF HalfMerged
<1>4. e \in Names /\ g \in Names /\ Live \subseteq Names /\ born \subseteq Names /\ e # None
  BY <1>3 DEF Live, SerialInv, TypeInv, TypeOK
<1>5. /\ members'[g] = {} /\ mergedInto'[g] = e /\ mergedInto[g] = None
      /\ \A f \in Names \ {g} : members'[f] = members[f] /\ mergedInto'[f] = mergedInto[f]
      /\ born' = born /\ clashes' = clashes /\ Return(c, e)
  BY <1>1, <1>2, <1>3, <1>4 DEF MergeMark, MarkEventMerged, Live, SerialInv, TypeInv, TypeOK
<1>6. Live' = Live \ {g}
  BY <1>4, <1>5 DEF Live
<1>7. \A x \in Names : mergedInto[x] # None => mergedInto'[x] = mergedInto[x]
  BY <1>5
<1>8. LinksLeadToTheirEvent'
  <2> SUFFICES ASSUME NEW l \in returned'
               PROVE  \E f \in Live' : LeadsTo(l.event, f)' /\ {l.a, l.b} \subseteq members'[f]
    BY DEF LinksLeadToTheirEvent
  <2>1. CASE l \notin returned
    <3>1. l.event = e /\ l.a = j.a /\ l.b = j.b
      BY <1>1, <1>5, <2>1 DEF Return
    <3>2. LeadsTo(e, e)'
      BY DEF LeadsTo
    <3> QED BY <1>3, <1>4, <1>5, <1>6, <3>1, <3>2
  <2>2. CASE l \in returned
    <3>1. PICK f \in Live : LeadsTo(l.event, f) /\ {l.a, l.b} \subseteq members[f]
      BY <2>2 DEF SerialInv, LinksLeadToTheirEvent
    <3>2. LeadsTo(l.event, f)'
      BY <1>7, <3>1, LeadsStays
    <3>3. CASE f # g
      BY <1>4, <1>5, <1>6, <3>1, <3>2, <3>3
    <3>4. CASE f = g
      <4>1. LeadsTo(l.event, e)'
        BY <1>4, <1>5, <3>2, <3>4 DEF LeadsTo
      <4> QED BY <1>3, <1>4, <1>5, <1>6, <3>1, <3>4, <4>1
    <3> QED BY <3>3, <3>4
  <2> QED BY <2>1, <2>2
<1>9. UnbornAreBlank'
  BY <1>3, <1>4, <1>5 DEF SerialInv, UnbornAreBlank, Live
<1>10. LabelsAreFound'
  BY <1>3, <1>4, <1>5, <1>6 DEF SerialInv, LabelsAreFound
<1>11. \A d \in Callers : UpToDate(pc[d], job[d])'
  <2>1. pc'[c] = "idle"
    BY <1>5 DEF Return, End, SerialInv, TypeInv, TypeOK
  <2> QED BY <2>1 DEF Serial, UpToDate
<1>12. TypeInv'
  BY MergeMarkTyped DEF SerialInv
<1> QED BY <1>5, <1>8, <1>9, <1>10, <1>11, <1>12 DEF SerialInv, NoInsertClash

(* Called one at a time, what the calls read stays true until they write.  *)
THEOREM SerialHolds ==
  ASSUME Serial
  PROVE  Spec => []SerialInv
<1>1. SerialInv /\ [Next]_vars => SerialInv'
  <2> SUFFICES ASSUME SerialInv, [Next]_vars PROVE SerialInv'
    OBVIOUS
  <2>1. ASSUME NEW c \in Callers, Step(c) PROVE SerialInv'
    BY <2>1, FindASerial, FindBSerial, CreateSerial, AddMemberSerial, MergeSetSerial,
       MergeMarkSerial DEF Step
  <2>2. CASE UNCHANGED vars
    <3>1. TypeInv'
      BY <2>2 DEF SerialInv, TypeInv, TypeOK, CallersTyped, vars
    <3>2. UnbornAreBlank' /\ LabelsAreFound' /\ NoInsertClash'
      BY <2>2 DEF SerialInv, UnbornAreBlank, LabelsAreFound, NoInsertClash, Live, vars
    <3>3. LinksLeadToTheirEvent'
      BY <2>2 DEF SerialInv, LinksLeadToTheirEvent, LeadsTo, Live, vars
    <3>4. \A c \in Callers : UpToDate(pc[c], job[c])'
      BY <2>2 DEF SerialInv, UpToDate, Fresh, HalfMerged, Live, vars
    <3> QED BY <3>1, <3>2, <3>3, <3>4 DEF SerialInv
  <2> QED BY <2>1, <2>2, CallSerial, AbortSerial DEF Next
<1> QED BY <1>1, InitSerial, PTL DEF Spec

(* Called one at a time, but stopped anywhere and with any spellings: the  *)
(* event a stored Link names still leads to one that holds both records.   *)
THEOREM LinksLead ==
  ASSUME Serial
  PROVE  Spec => []LinksLeadToTheirEvent
<1>1. SerialInv => LinksLeadToTheirEvent
  BY DEF SerialInv
<1> QED BY <1>1, SerialHolds, PTL

(* Called one at a time, _create never meets a taken label, also after     *)
(* calls that stopped half-way.                                            *)
THEOREM InsertsNeverClash ==
  ASSUME Serial
  PROVE  Spec => []NoInsertClash
<1>1. SerialInv => NoInsertClash
  BY DEF SerialInv
<1> QED BY <1>1, SerialHolds, PTL

(* Called one at a time, materialize writes only rows it has just read as  *)
(* unmerged: an absorbed event's row is final.                             *)
THEOREM AbsorbedFinal ==
  ASSUME Serial
  PROVE  Spec => AbsorbedRowsAreFinal
<1> DEFINE Final == \A e \in Names : mergedInto[e] # None =>
                      mergedInto'[e] = mergedInto[e] /\ members'[e] = members[e]
<1>1. SerialInv /\ [Next]_vars => [Final]_vars
  <2> SUFFICES ASSUME SerialInv, Next PROVE Final
    OBVIOUS
  <2> USE DEF SerialInv, TypeInv, TypeOK
  <2>1. ASSUME NEW c \in Callers,
               FindA(c) \/ FindB(c) \/ Abort(c) \/ \E a, b \in Names : Call(c, a, b)
        PROVE  Final
    BY <2>1 DEF FindA, FindB, Abort, Call, table
  <2>2. ASSUME NEW c \in Callers, Create(c) PROVE Final
    <3>1. Least({job[c].a, job[c].b}) \notin born /\ mergedInto' = mergedInto
      BY <2>2, CreateSerial DEF Create
    <3>2. job[c].a \in Names /\ job[c].b \in Names
      BY <2>2, TheCall DEF Create
    <3>3. Least({job[c].a, job[c].b}) \in Names
      BY <3>2, LeastOfTwo
    <3> QED BY <2>2, <3>1, <3>3 DEF Create, SetEventMembers, UnbornAreBlank
  <2>3. ASSUME NEW c \in Callers, AddMember(c) PROVE Final
    <3>1. UpToDate("add", job[c]) /\ mergedInto' = mergedInto
      BY <2>3, TheCall DEF AddMember
    <3>2. \E e \in Live : \E S : members' = [members EXCEPT ![e] = S]
      BY <2>3, <3>1 DEF AddMember, SetEventMembers, UpToDate, Fresh
    <3> QED BY <3>1, <3>2 DEF Live
  <2>4. ASSUME NEW c \in Callers, MergeSet(c) PROVE Final
    <3>1. UpToDate("merge_set", job[c]) /\ mergedInto' = mergedInto
      BY <2>4, TheCall DEF MergeSet
    <3>2. \E e \in Live : \E S : members' = [members EXCEPT ![e] = S]
      BY <2>4, <3>1 DEF MergeSet, SetEventMembers, UpToDate, Fresh
    <3> QED BY <3>1, <3>2 DEF Live
  <2>5. ASSUME NEW c \in Callers, MergeMark(c) PROVE Final
    <3>1. HalfMerged(job[c])
      BY <2>5, TheCall DEF MergeMark, UpToDate
    <3> QED BY <2>5, <3>1 DEF MergeMark, MarkEventMerged, HalfMerged, Live
  <2> QED BY <2>1, <2>2, <2>3, <2>4, <2>5 DEF Next, Step
<1> QED BY <1>1, SerialHolds, PTL DEF Spec, AbsorbedRowsAreFinal

-----------------------------------------------------------------------------
(***************************************************************************)
(* Whole calls, one at a time, each record spelled one way: then unmerged  *)
(* events are disjoint, but for the two of a merge that is under way, and  *)
(* the UPDATE of the survivor is the moment at which EventClusters merges. *)
(***************************************************************************)
OneName == \A m, n \in Names : RecordOf[m] = RecordOf[n] => m = n

Apart ==
  \A e, f \in Live : \A n \in members[e] :
    n \in members[f] => \/ e = f
                       \/ \E c \in Callers : /\ pc[c] = "merge_mark"
                                             /\ {e, f} = {job[c].ea.id, job[c].eb.id}

ApartInv == SerialInv /\ Apart

(* No merge is under way: no name is in two unmerged events.               *)
LEMMA OneEventEach ==
  ASSUME Serial, ApartInv, NEW c \in Callers, pc[c] # "merge_mark"
  PROVE  \A e, f \in Live : \A n \in members[e] : n \in members[f] => e = f
BY DEF Serial, ApartInv, Apart

LEMMA LiveTyped ==
  ASSUME SerialInv
  PROVE  Live \subseteq Names /\ born \subseteq Names /\ members \in [Names -> SUBSET Names]
BY DEF Live, SerialInv, TypeInv, TypeOK

(* What a call that creates writes, in terms of what is there.             *)
LEMMA CreateWrites ==
  ASSUME Serial, SerialInv, NEW c \in Callers, Create(c)
  PROVE  \E a, b, e \in Names :
           /\ a = job[c].a /\ b = job[c].b
           /\ \A f \in Live : a \notin members[f] /\ b \notin members[f]
           /\ Live' = Live \cup {e} /\ e \notin Live
           /\ members' = [members EXCEPT ![e] = {a, b}]
<1>1. PICK a, b, e : a = job[c].a /\ b = job[c].b /\ e = Least({a, b})
  OBVIOUS
<1>2. pc[c] = "create" /\ a \in Names /\ b \in Names
  BY <1>1, TheCall DEF Create
<1>3. e \in Names /\ e \notin born
  BY <1>1, <1>2, LeastOfTwo, CreateSerial
<1>4. \A f \in Live : a \notin members[f] /\ b \notin members[f]
  BY <1>1, <1>2, TheCall DEF UpToDate, Fresh
<1>5. /\ born' = born \cup {e} /\ mergedInto' = mergedInto
      /\ members' = [members EXCEPT ![e] = {a, b}]
  BY <1>1, <1>3 DEF Create, SetEventMembers
<1>6. Live' = Live \cup {e} /\ e \notin Live
  BY <1>3, <1>5 DEF Live, SerialInv, UnbornAreBlank
<1> QED BY <1>1, <1>2, <1>3, <1>4, <1>5, <1>6

(* One that adds: one of its names is in an event, the other in none.      *)
LEMMA AddMemberWrites ==
  ASSUME SerialInv, NEW c \in Callers, AddMember(c)
  PROVE  \E m, n \in Names : \E e \in Live :
           /\ m \in members[e] /\ \A f \in Live : n \notin members[f]
           /\ Live' = Live /\ members' = [members EXCEPT ![e] = members[e] \cup {n}]
<1>1. PICK j : j = job[c]
  OBVIOUS
<1>2. /\ j.a \in Names /\ j.b \in Names
      /\ Fresh(j.ea, j.a) /\ Fresh(j.eb, j.b) /\ (j.ea.id = None) # (j.eb.id = None)
  BY <1>1, TheCall DEF AddMember, UpToDate
<1>3. Live' = Live
  BY DEF AddMember, Live
<1>4. CASE j.ea.id # None
  <2>1. PICK e \in Live : e = j.ea.id /\ j.a \in members[e] /\ j.ea.members = members[e]
    BY <1>2, <1>4 DEF Fresh
  <2>2. members' = [members EXCEPT ![e] = members[e] \cup {j.b}]
    BY <1>1, <1>4, <2>1 DEF AddMember, SetEventMembers
  <2>3. \A f \in Live : j.b \notin members[f]
    BY <1>2, <1>4 DEF Fresh
  <2> QED BY <1>2, <1>3, <2>1, <2>2, <2>3
<1>5. CASE j.ea.id = None
  <2>1. PICK e \in Live : e = j.eb.id /\ j.b \in members[e] /\ j.eb.members = members[e]
    BY <1>2, <1>5 DEF Fresh
  <2>2. members' = [members EXCEPT ![e] = members[e] \cup {j.a}]
    BY <1>1, <1>5, <2>1 DEF AddMember, SetEventMembers
  <2>3. \A f \in Live : j.a \notin members[f]
    BY <1>2, <1>5 DEF Fresh
  <2> QED BY <1>2, <1>3, <2>1, <2>2, <2>3
<1> QED BY <1>4, <1>5

(* The two UPDATEs of a merge.                                             *)
LEMMA MergeSetWrites ==
  ASSUME SerialInv, NEW c \in Callers, MergeSet(c)
  PROVE  \E e, g \in Live :
           /\ e = job[c].ea.id /\ g = job[c].eb.id /\ e # g
           /\ job[c].a \in members[e] /\ job[c].b \in members[g]
           /\ Live' = Live /\ members' = [members EXCEPT ![e] = members[e] \cup members[g]]
           /\ pc'[c] = "merge_mark" /\ job' = job
<1>1. PICK j : j = job[c]
  OBVIOUS
<1>2. /\ Fresh(j.ea, j.a) /\ Fresh(j.eb, j.b)
      /\ j.ea.id # None /\ j.eb.id # None /\ j.ea.id # j.eb.id
  BY <1>1, TheCall DEF MergeSet, UpToDate
<1>3. Live' = Live /\ pc'[c] = "merge_mark"
  BY DEF MergeSet, Live, SerialInv, TypeInv, TypeOK
<1> QED BY <1>1, <1>2, <1>3 DEF MergeSet, SetEventMembers, Fresh

LEMMA MergeMarkWrites ==
  ASSUME SerialInv, NEW c \in Callers, MergeMark(c)
  PROVE  \E e, g \in Live :
           /\ e = job[c].ea.id /\ g = job[c].eb.id /\ e # g
           /\ members[g] \subseteq members[e]
           /\ Live' = Live \ {g} /\ members' = [members EXCEPT ![g] = {}]
<1>1. PICK j : j = job[c]
  OBVIOUS
<1>2. PICK e, g : e = j.ea.id /\ g = j.eb.id
  OBVIOUS
<1>3. e \in Live /\ g \in Live /\ e # g /\ members[g] \subseteq members[e]
  <2>1. HalfMerged(j)
    BY <1>1, TheCall DEF MergeMark, UpToDate
  <2> QED BY <1>2, <2>1 DEF HalfMerged
<1>4. e # None /\ mergedInto' = [mergedInto EXCEPT ![g] = e] /\ born' = born
  BY <1>1, <1>2, <1>3, LiveTyped DEF MergeMark, MarkEventMerged
<1>5. Live' = Live \ {g}
  BY <1>3, <1>4, LiveTyped DEF Live, SerialInv, TypeInv, TypeOK
<1>6. members' = [members EXCEPT ![g] = {}]
  BY <1>1, <1>2 DEF MergeMark, MarkEventMerged
<1> QED BY <1>1, <1>2, <1>3, <1>5, <1>6

LEMMA StepApart ==
  ASSUME Serial, ApartInv, NEW c \in Callers, Step(c)
  PROVE  Apart'
<1> SUFFICES ASSUME NEW x \in Live', NEW y \in Live', NEW n \in members'[x], n \in members'[y]
             PROVE  \/ x = y
                    \/ pc'[c] = "merge_mark" /\ {x, y} = {job'[c].ea.id, job'[c].eb.id}
  BY DEF Apart
<1>1. CASE FindA(c) \/ FindB(c)
  <2>1. pc[c] # "merge_mark" /\ Live' = Live /\ members' = members
    BY <1>1 DEF FindA, FindB, table, Live
  <2> QED BY <2>1, OneEventEach
<1>2. CASE Create(c)
  <2>1. PICK a, b, e \in Names :
          /\ \A f \in Live : a \notin members[f] /\ b \notin members[f]
          /\ Live' = Live \cup {e} /\ e \notin Live
          /\ members' = [members EXCEPT ![e] = {a, b}]
    BY <1>2, CreateWrites DEF ApartInv
  <2>2. members'[e] = {a, b} /\ \A f \in Live : members'[f] = members[f]
    BY <2>1, LiveTyped DEF ApartInv
  <2>3. \A f \in Live : members'[f] \cap {a, b} = {}
    BY <2>1, <2>2
  <2>4. CASE x = e \/ y = e
    BY <2>1, <2>2, <2>3, <2>4
  <2>5. CASE x # e /\ y # e
    <3>1. x \in Live /\ y \in Live /\ n \in members[x] /\ n \in members[y]
      BY <2>1, <2>2, <2>5
    <3>2. pc[c] # "merge_mark"
      BY <1>2 DEF Create
    <3> QED BY <3>1, <3>2, OneEventEach
  <2> QED BY <2>4, <2>5
<1>3. CASE AddMember(c)
  <2>1. PICK m, o \in Names : \E e \in Live :
          /\ \A f \in Live : o \notin members[f]
          /\ Live' = Live /\ members' = [members EXCEPT ![e] = members[e] \cup {o}]
    BY <1>3, AddMemberWrites DEF ApartInv
  <2>2. PICK e \in Live : /\ members'[e] = members[e] \cup {o}
                         /\ \A f \in Live \ {e} : members'[f] = members[f]
    BY <2>1, LiveTyped DEF ApartInv
  <2>3. pc[c] # "merge_mark"
    BY <1>3 DEF AddMember
  <2> QED BY <2>1, <2>2, <2>3, OneEventEach
<1>4. CASE MergeSet(c)
  <2>1. PICK e, g \in Live :
          /\ e = job[c].ea.id /\ g = job[c].eb.id /\ pc'[c] = "merge_mark" /\ job' = job
          /\ Live' = Live /\ members' = [members EXCEPT ![e] = members[e] \cup members[g]]
    BY <1>4, MergeSetWrites DEF ApartInv
  <2>2. /\ members'[e] = members[e] \cup members[g]
        /\ \A f \in Live \ {e} : members'[f] = members[f]
    BY <2>1, LiveTyped DEF ApartInv
  <2>3. pc[c] # "merge_mark"
    BY <1>4 DEF MergeSet
  <2> QED BY <2>1, <2>2, <2>3, OneEventEach
<1>5. CASE MergeMark(c)
  <2>1. PICK e, g \in Live :
          /\ e = job[c].ea.id /\ g = job[c].eb.id /\ e # g
          /\ Live' = Live \ {g} /\ members' = [members EXCEPT ![g] = {}]
    BY <1>5, MergeMarkWrites DEF ApartInv
  <2>2. n \in members[x] /\ n \in members[y] /\ x # g /\ y # g /\ x \in Live /\ y \in Live
    BY <2>1, LiveTyped DEF ApartInv
  <2>3. \A d \in Callers : {x, y} # {job[d].ea.id, job[d].eb.id}
    BY <2>1, <2>2 DEF Serial
  <2> QED BY <2>2, <2>3 DEF ApartInv, Apart
<1> QED BY <1>1, <1>2, <1>3, <1>4, <1>5 DEF Step

(* Unmerged events stay apart if no call stops between its two UPDATEs.    *)
THEOREM ApartHolds ==
  ASSUME Serial, ~Aborts
  PROVE  Spec => []ApartInv
<1>1. Init => Apart
  BY DEF Init, Apart, Live
<1>2. SerialInv' /\ ApartInv /\ [Next]_vars => ApartInv'
  <2> SUFFICES ASSUME SerialInv', ApartInv, [Next]_vars PROVE Apart'
    BY DEF ApartInv
  <2>1. ASSUME NEW c \in Callers, NEW a \in Names, NEW b \in Names, Call(c, a, b) PROVE Apart'
    <3>1. pc[c] # "merge_mark" /\ Live' = Live /\ members' = members
      BY <2>1 DEF Call, table, Live
    <3> QED BY <3>1, OneEventEach DEF Apart
  <2>2. CASE UNCHANGED vars
    BY <2>2 DEF vars, ApartInv, Apart, Live
  <2> QED BY <2>1, <2>2, StepApart DEF Next, Abort
<1> QED BY <1>1, <1>2, SerialHolds, PTL DEF Spec, ApartInv

(* Whole calls, one at a time: with no call in flight a record is in one   *)
(* unmerged event at most, so LIMIT 1 has nothing to choose from.          *)
THEOREM OneEventPerRecord ==
  ASSUME Serial, OneName, ~Aborts
  PROVE  Spec => []OneLiveEventPerRecord
<1>1. ApartInv => OneLiveEventPerRecord
  <2> SUFFICES ASSUME ApartInv, \A c \in Callers : pc[c] = "idle", NEW e \in Live, NEW f \in Live,
                      NEW m \in members[e], NEW n \in members[f], RecordOf[m] = RecordOf[n]
               PROVE  e = f
    BY DEF OneLiveEventPerRecord
  <2>1. m = n
    BY LiveTyped DEF OneName, ApartInv
  <2> QED BY <2>1 DEF ApartInv, Apart
<1> QED BY <1>1, ApartHolds, PTL

-----------------------------------------------------------------------------
(* The refinement.  Clusters of names first: of an event table of which L  *)
(* are the unmerged events and mem their members.                          *)
Image(S) == {RecordOf[n] : n \in S}
Mates(L, mem, n) == {n} \cup UNION {mem[e] : e \in {f \in L : n \in mem[f]}}
ClusterBy(L, mem, r) ==
  {r} \cup Image(UNION {mem[e] : e \in {f \in L : \E m \in mem[f] : RecordOf[m] = r}})

LEMMA ClusterOfIs ==
  /\ \A r : ClusterOf(r) = ClusterBy(Live, members, r)
  /\ \A r : ClusterOf(r)' = ClusterBy(Live', members', r)
BY DEF ClusterOf, ClusterBy, Image

(* A record's cluster is that of its name, and itself if it has none.      *)
LEMMA ClusterOfName ==
  ASSUME OneName, NEW L \in SUBSET Names, NEW mem \in [Names -> SUBSET Names], NEW n \in Names
  PROVE  ClusterBy(L, mem, RecordOf[n]) = Image(Mates(L, mem, n))
<1>1. {f \in L : \E m \in mem[f] : RecordOf[m] = RecordOf[n]} = {f \in L : n \in mem[f]}
  BY DEF OneName
<1>2. PICK U : U = UNION {mem[e] : e \in {f \in L : n \in mem[f]}}
  OBVIOUS
<1>3. ClusterBy(L, mem, RecordOf[n]) = {RecordOf[n]} \cup Image(U)
  BY <1>1, <1>2 DEF ClusterBy
<1>4. Mates(L, mem, n) = {n} \cup U
  BY <1>2 DEF Mates
<1> QED BY <1>3, <1>4 DEF Image

LEMMA ClusterOfNameless ==
  ASSUME NEW L \in SUBSET Names, NEW mem \in [Names -> SUBSET Names],
         NEW r, r \notin Image(Names)
  PROVE  ClusterBy(L, mem, r) = {r}
<1>1. {f \in L : \E m \in mem[f] : RecordOf[m] = r} = {}
  BY DEF Image
<1> QED BY <1>1 DEF ClusterBy, Image

LEMMA MatesAreNames ==
  ASSUME NEW L \in SUBSET Names, NEW mem \in [Names -> SUBSET Names], NEW n \in Names
  PROVE  Mates(L, mem, n) \subseteq Names
BY DEF Mates

\* From table (L, mem) to (L2, mem2) the clusters of a and b become one.
Joins(L, mem, L2, mem2, a, b, J) ==
  /\ J = Mates(L, mem, a) \cup Mates(L, mem, b)
  /\ \A n \in J : Mates(L2, mem2, n) = J
  /\ \A n \in Names \ J : Mates(L2, mem2, n) = Mates(L, mem, n)

(* Joining the clusters of two names joins those of their records.         *)
LEMMA JoinedClusters ==
  ASSUME OneName, NEW L \in SUBSET Names, NEW mem \in [Names -> SUBSET Names],
         NEW L2 \in SUBSET Names, NEW mem2 \in [Names -> SUBSET Names],
         NEW a \in Names, NEW b \in Names, NEW J, Joins(L, mem, L2, mem2, a, b, J),
         NEW joined,
         joined = ClusterBy(L, mem, RecordOf[a]) \cup ClusterBy(L, mem, RecordOf[b]),
         NEW r
  PROVE  ClusterBy(L2, mem2, r) = IF r \in joined THEN joined ELSE ClusterBy(L, mem, r)
<1> USE DEF Joins
<1>1. J \subseteq Names
  BY MatesAreNames
<1>2. joined = Image(J)
  <2>1. joined = Image(Mates(L, mem, a)) \cup Image(Mates(L, mem, b))
    BY ClusterOfName
  <2> QED BY <2>1 DEF Image
<1>3. CASE r \in Image(Names)
  <2>1. PICK n \in Names : r = RecordOf[n]
    BY <1>3 DEF Image
  <2>2. r \in joined <=> n \in J
    BY <1>1, <1>2, <2>1 DEF Image, OneName
  <2>3. ClusterBy(L2, mem2, r) = Image(Mates(L2, mem2, n))
    BY <2>1, ClusterOfName
  <2>4. ClusterBy(L, mem, r) = Image(Mates(L, mem, n))
    BY <2>1, ClusterOfName
  <2> QED BY <1>2, <2>2, <2>3, <2>4
<1>4. CASE r \notin Image(Names)
  <2>1. r \notin joined
    BY <1>1, <1>2, <1>4 DEF Image
  <2> QED BY <1>4, <2>1, ClusterOfNameless
<1> QED BY <1>3, <1>4

(* No cluster changes if no name's does.                                   *)
LEMMA SameClusters ==
  ASSUME OneName, NEW L \in SUBSET Names, NEW mem \in [Names -> SUBSET Names],
         NEW L2 \in SUBSET Names, NEW mem2 \in [Names -> SUBSET Names],
         \A n \in Names : Mates(L2, mem2, n) = Mates(L, mem, n), NEW r
  PROVE  ClusterBy(L2, mem2, r) = ClusterBy(L, mem, r)
<1>1. CASE r \in Image(Names)
  <2>1. PICK n \in Names : r = RecordOf[n]
    BY <1>1 DEF Image
  <2> QED BY <2>1, ClusterOfName
<1>2. CASE r \notin Image(Names)
  BY <1>2, ClusterOfNameless
<1> QED BY <1>1, <1>2

clusters == [r \in Records |-> ClusterOf(r)]

(* So a statement that joins two names' clusters is an Assert.             *)
LEMMA JoinIsAssert ==
  ASSUME OneName, SerialInv, SerialInv', NEW a \in Names, NEW b \in Names, NEW J,
         Joins(Live, members, Live', members', a, b, J)
  PROVE  Codex!Next
<1>1. PICK L \in SUBSET Names, mem \in [Names -> SUBSET Names] : L = Live /\ mem = members
  BY LiveTyped
<1>2. PICK L2 \in SUBSET Names, mem2 \in [Names -> SUBSET Names] : L2 = Live' /\ mem2 = members'
  BY DEF Live, SerialInv, TypeInv, TypeOK
<1>3. PICK joined :
        joined = ClusterBy(L, mem, RecordOf[a]) \cup ClusterBy(L, mem, RecordOf[b])
  OBVIOUS
<1>4. \A r : ClusterBy(L2, mem2, r) = IF r \in joined THEN joined ELSE ClusterBy(L, mem, r)
  <2>1. Joins(L, mem, L2, mem2, a, b, J)
    BY <1>1, <1>2
  <2> QED BY <1>3, <2>1, JoinedClusters
<1>5. clusters = [r \in Records |-> ClusterBy(L, mem, r)]
  BY <1>1, ClusterOfIs DEF clusters
<1>6. clusters' = [r \in Records |-> ClusterBy(L2, mem2, r)]
  BY <1>2, ClusterOfIs DEF clusters
<1>7. RecordOf[a] \in Records /\ RecordOf[b] \in Records
  OBVIOUS
<1>8. clusters' = [r \in Records |-> IF r \in clusters[RecordOf[a]] \cup clusters[RecordOf[b]]
                                    THEN clusters[RecordOf[a]] \cup clusters[RecordOf[b]]
                                    ELSE clusters[r]]
  BY <1>3, <1>4, <1>5, <1>6, <1>7
<1>9. Codex!Assert(RecordOf[a], RecordOf[b])
  BY <1>8 DEF Codex!Assert, clusters
<1> QED BY <1>7, <1>9 DEF Codex!Next

LEMMA SameIsStutter ==
  ASSUME OneName, SerialInv, SerialInv',
         \A n \in Names : Mates(Live', members', n) = Mates(Live, members, n)
  PROVE  clusters' = clusters
<1>1. PICK L \in SUBSET Names, mem \in [Names -> SUBSET Names] : L = Live /\ mem = members
  BY LiveTyped
<1>2. PICK L2 \in SUBSET Names, mem2 \in [Names -> SUBSET Names] : L2 = Live' /\ mem2 = members'
  BY DEF Live, SerialInv, TypeInv, TypeOK
<1>3. \A r : ClusterBy(L2, mem2, r) = ClusterBy(L, mem, r)
  BY <1>1, <1>2, SameClusters
<1> QED BY <1>1, <1>2, <1>3, ClusterOfIs DEF clusters

-----------------------------------------------------------------------------
(* A name's cluster is as before if the events that hold it are.           *)
LEMMA MatesStay ==
  ASSUME NEW L, NEW mem, NEW L2, NEW mem2, NEW n,
         \A f \in L : n \in mem[f] => f \in L2 /\ mem2[f] = mem[f],
         \A f \in L2 : n \in mem2[f] => f \in L /\ mem2[f] = mem[f]
  PROVE  Mates(L2, mem2, n) = Mates(L, mem, n)
BY DEF Mates

(* The INSERT joins two names that were alone.                             *)
LEMMA CreateAsserts ==
  ASSUME Serial, OneName, ApartInv, SerialInv', NEW c \in Callers, Create(c)
  PROVE  Codex!Next
<1>1. PICK a, b, e \in Names :
        /\ \A f \in Live : a \notin members[f] /\ b \notin members[f]
        /\ Live' = Live \cup {e} /\ e \notin Live
        /\ members' = [members EXCEPT ![e] = {a, b}]
  BY CreateWrites DEF ApartInv
<1>2. members'[e] = {a, b} /\ \A f \in Live : members'[f] = members[f]
  BY <1>1, LiveTyped DEF ApartInv
<1>3. Mates(Live, members, a) = {a} /\ Mates(Live, members, b) = {b}
  BY <1>1 DEF Mates
<1>4. ASSUME NEW n \in {a, b} PROVE Mates(Live', members', n) = {a, b}
  <2>1. e \in Live' /\ n \in members'[e]
    BY <1>1, <1>2
  <2>2. \A f \in Live' : n \in members'[f] => members'[f] \subseteq members'[e]
    BY <1>1, <1>2
  <2>3. Mates(Live', members', n) = members'[e]
    BY <2>1, <2>2 DEF Mates
  <2> QED BY <1>2, <2>3
<1>5. ASSUME NEW n \in Names \ {a, b} PROVE Mates(Live', members', n) = Mates(Live, members, n)
  <2>1. \A f \in Live : n \in members[f] => f \in Live' /\ members'[f] = members[f]
    BY <1>1, <1>2
  <2>2. \A f \in Live' : n \in members'[f] => f \in Live /\ members'[f] = members[f]
    BY <1>1, <1>2
  <2> QED BY <2>1, <2>2, MatesStay
<1>6. Joins(Live, members, Live', members', a, b, {a, b})
  BY <1>3, <1>4, <1>5 DEF Joins
<1> QED BY <1>6, JoinIsAssert DEF ApartInv

(* The UPDATE of _add_member joins a name that was alone to an event's.    *)
LEMMA AddMemberAsserts ==
  ASSUME Serial, OneName, ApartInv, SerialInv', NEW c \in Callers, AddMember(c)
  PROVE  Codex!Next
<1>1. PICK m, o \in Names : \E e \in Live :
        /\ m \in members[e] /\ \A f \in Live : o \notin members[f]
        /\ Live' = Live /\ members' = [members EXCEPT ![e] = members[e] \cup {o}]
  BY AddMemberWrites DEF ApartInv
<1>2. PICK e \in Live : /\ m \in members[e] /\ \A f \in Live : o \notin members[f]
                       /\ Live' = Live /\ members'[e] = members[e] \cup {o}
                       /\ \A f \in Live \ {e} : members'[f] = members[f]
  BY <1>1, LiveTyped DEF ApartInv
<1>3. PICK J : J = members[e] \cup {o}
  OBVIOUS
<1>4. \A f \in Live : \A n \in members[e] : n \in members[f] => f = e
  BY OneEventEach DEF AddMember
<1>5. Mates(Live, members, m) = members[e] /\ Mates(Live, members, o) = {o}
  BY <1>2, <1>4 DEF Mates
<1>6. ASSUME NEW n \in J PROVE Mates(Live', members', n) = J
  <2>1. e \in Live' /\ n \in members'[e]
    BY <1>2, <1>3
  <2>2. \A f \in Live' : n \in members'[f] => members'[f] \subseteq members'[e]
    BY <1>2, <1>3, <1>4
  <2>3. Mates(Live', members', n) = members'[e]
    BY <2>1, <2>2 DEF Mates
  <2> QED BY <1>2, <1>3, <2>3
<1>7. ASSUME NEW n \in Names \ J PROVE Mates(Live', members', n) = Mates(Live, members, n)
  <2>1. \A f \in Live : n \in members[f] => f \in Live' /\ members'[f] = members[f]
    BY <1>2, <1>3
  <2>2. \A f \in Live' : n \in members'[f] => f \in Live /\ members'[f] = members[f]
    BY <1>2, <1>3
  <2> QED BY <2>1, <2>2, MatesStay
<1>8. Joins(Live, members, Live', members', m, o, J)
  BY <1>3, <1>5, <1>6, <1>7 DEF Joins
<1> QED BY <1>8, JoinIsAssert DEF ApartInv

(* The survivor's UPDATE joins two events, the absorbed one still there.   *)
LEMMA MergeSetAsserts ==
  ASSUME Serial, OneName, ApartInv, SerialInv', NEW c \in Callers, MergeSet(c)
  PROVE  Codex!Next
<1>1. PICK e, g \in Live :
        /\ e # g /\ job[c].a \in members[e] /\ job[c].b \in members[g]
        /\ Live' = Live /\ members' = [members EXCEPT ![e] = members[e] \cup members[g]]
  BY MergeSetWrites DEF ApartInv
<1>2. PICK a, b \in Names : a \in members[e] /\ b \in members[g]
  BY <1>1, LiveTyped DEF ApartInv
<1>3. PICK J : J = members[e] \cup members[g]
  OBVIOUS
<1>4. /\ members'[e] = J /\ Live' = Live
      /\ \A f \in Live \ {e} : members'[f] = members[f]
  BY <1>1, <1>3, LiveTyped DEF ApartInv
<1>5. /\ \A f \in Live : \A n \in members[e] : n \in members[f] => f = e
      /\ \A f \in Live : \A n \in members[g] : n \in members[f] => f = g
  BY OneEventEach DEF MergeSet
<1>6. Mates(Live, members, a) = members[e] /\ Mates(Live, members, b) = members[g]
  BY <1>2, <1>5 DEF Mates
<1>7. ASSUME NEW n \in J PROVE Mates(Live', members', n) = J
  <2>1. e \in Live' /\ n \in members'[e]
    BY <1>4
  <2>2. \A f \in Live' : n \in members'[f] => members'[f] \subseteq members'[e]
    BY <1>3, <1>4, <1>5
  <2>3. Mates(Live', members', n) = members'[e]
    BY <2>1, <2>2 DEF Mates
  <2> QED BY <1>4, <2>3
<1>8. ASSUME NEW n \in Names \ J PROVE Mates(Live', members', n) = Mates(Live, members, n)
  <2>1. \A f \in Live : n \in members[f] => f \in Live' /\ members'[f] = members[f]
    BY <1>3, <1>4
  <2>2. \A f \in Live' : n \in members'[f] => f \in Live /\ members'[f] = members[f]
    BY <1>3, <1>4
  <2> QED BY <2>1, <2>2, MatesStay
<1>9. Joins(Live, members, Live', members', a, b, J)
  BY <1>3, <1>6, <1>7, <1>8 DEF Joins
<1> QED BY <1>9, JoinIsAssert DEF ApartInv

(* The absorbed one's UPDATE takes away only what the survivor has.        *)
LEMMA MergeMarkStutters ==
  ASSUME Serial, OneName, ApartInv, SerialInv', NEW c \in Callers, MergeMark(c)
  PROVE  clusters' = clusters
<1>1. PICK e, g \in Live :
        /\ e = job[c].ea.id /\ g = job[c].eb.id /\ e # g
        /\ members[g] \subseteq members[e]
        /\ Live' = Live \ {g} /\ members' = [members EXCEPT ![g] = {}]
  BY MergeMarkWrites DEF ApartInv
<1>2. \A f \in Live \ {g} : members'[f] = members[f]
  BY <1>1, LiveTyped DEF ApartInv
<1>3. ASSUME NEW f \in Live, NEW n \in members[e], n \in members[f]
      PROVE  f = e \/ f = g
  <2>1. \A d \in Callers : job[d].ea.id = e /\ job[d].eb.id = g
    BY <1>1 DEF Serial
  <2> QED BY <1>3, <2>1 DEF ApartInv, Apart
<1>4. ASSUME NEW n \in Names PROVE Mates(Live', members', n) = Mates(Live, members, n)
  <2>1. CASE n \in members[e]
    <3>1. \A f \in Live : n \in members[f] => members[f] \subseteq members[e]
      BY <1>1, <1>3, <2>1
    <3>2. Mates(Live, members, n) = members[e]
      BY <2>1, <3>1 DEF Mates
    <3>3. e \in Live' /\ members'[e] = members[e]
      BY <1>1, <1>2
    <3>4. \A f \in Live' : n \in members'[f] => members'[f] \subseteq members'[e]
      BY <1>1, <1>2, <3>1, <3>3
    <3>5. Mates(Live', members', n) = members'[e]
      BY <2>1, <3>3, <3>4 DEF Mates
    <3> QED BY <3>2, <3>3, <3>5
  <2>2. CASE n \notin members[e]
    <3>1. \A f \in Live : n \in members[f] => f \in Live' /\ members'[f] = members[f]
      BY <1>1, <1>2, <2>2
    <3>2. \A f \in Live' : n \in members'[f] => f \in Live /\ members'[f] = members[f]
      BY <1>1, <1>2
    <3> QED BY <3>1, <3>2, MatesStay
  <2> QED BY <2>1, <2>2
<1> QED BY <1>4, SameIsStutter DEF ApartInv

(* Whole calls, one at a time, implement the union-find: at one UPDATE or  *)
(* INSERT of each call the clusters merge as EventClusters says, and at    *)
(* every other statement they stand still.                                 *)
THEOREM MergesAtOnce ==
  ASSUME Serial, OneName, ~Aborts
  PROVE  Spec => ImplementsEventClusters
<1>1. Init => Codex!Init
  BY DEF Init, Codex!Init, ClusterOf, Live
<1>2. ApartInv /\ SerialInv' /\ [Next]_vars => [Codex!Next]_[r \in Records |-> ClusterOf(r)]
  <2> SUFFICES ASSUME ApartInv, SerialInv', [Next]_vars
               PROVE  Codex!Next \/ clusters' = clusters
    BY DEF clusters
  <2>1. CASE Live' = Live /\ members' = members
    BY <2>1, ClusterOfIs DEF clusters
  <2>2. ASSUME NEW c \in Callers, Create(c) \/ AddMember(c) \/ MergeSet(c) \/ MergeMark(c)
        PROVE  Codex!Next \/ clusters' = clusters
    BY <2>2, CreateAsserts, AddMemberAsserts, MergeSetAsserts, MergeMarkStutters
  <2>3. CASE \E c \in Callers :
               FindA(c) \/ FindB(c) \/ Abort(c) \/ \E a, b \in Names : Call(c, a, b)
    BY <2>1, <2>3 DEF FindA, FindB, Abort, Call, table, Live
  <2>4. CASE UNCHANGED vars
    BY <2>1, <2>4 DEF vars, Live
  <2> QED BY <2>2, <2>3, <2>4 DEF Next, Step
<1>3. Spec => []ApartInv /\ []SerialInv
  BY ApartHolds, SerialHolds, PTL
<1> QED BY <1>1, <1>2, <1>3, PTL DEF Spec, ImplementsEventClusters, Codex!Spec

=============================================================================
