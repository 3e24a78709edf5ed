--------------------------- MODULE ModelCallsProofs ---------------------------
(***************************************************************************)
(* Proofs about ModelCalls, for any number of callers, posts and workers   *)
(* and any deadline: that verdicts are earned, that calls are answered in  *)
(* time, and that no post goes out whose caller has given up.              *)
(***************************************************************************)
EXTENDS ModelCalls, FiniteSetTheorems, SequenceTheorems, TLAPS

-----------------------------------------------------------------------------
(* The inductive invariant.                                                *)

\* The shape of the state, for the provers: running and result are functions.
Shape ==
  /\ TypeOK
  /\ running \in [DOMAIN running -> 0..ReadTimeout]
  /\ result \in [DOMAIN result -> Results]

\* A post is queued, at a worker or through, and in the first and last case awaited:
\* so there is always a fresh one for a call that needs it.
QueueInv ==
  /\ \A i, j \in DOMAIN queue : queue[i] = queue[j] => i = j
  /\ \A i \in DOMAIN queue : /\ Awaited(queue[i])
                             /\ queue[i] \notin DOMAIN running \cup DOMAIN result
ResultInv == \A p \in DOMAIN result : Awaited(p) /\ p \notin DOMAIN running

\* No two calls share a post, or one would be told the other's verdict.
OwnPosts == \A c, d \in Busy : call[c].post = call[d].post => c = d

\* A verdict waiting to be collected is one the server gave to the call it waits for.
Earned == \A c \in Busy :
  LET p == call[c].post
  IN  p \in DOMAIN result /\ result[p] \in Verdicts => result[p] \in told[c]

\* A first post has had no longer than it has waited; a second, one deadline more.
InTime == \A c \in Busy :
  /\ call[c].waited <= Deadline
  /\ call[c].attempt = 1 => spent[c] <= call[c].waited
  /\ call[c].attempt = 2 => spent[c] <= Deadline + call[c].waited

Inv ==
  /\ Shape
  /\ QueueInv
  /\ ResultInv
  /\ OwnPosts
  /\ Earned
  /\ InTime
  /\ VerdictsAreEarned

-----------------------------------------------------------------------------
(* Lemmas about the operators the model is built from.                     *)

\* Put changes one value, and makes room for it where there was none.
LEMMA PutWorks ==
  ASSUME NEW f, NEW p, NEW v, NEW S, NEW T, f \in [S -> T], v \in T
  PROVE  /\ Put(f, p, v) \in [S \cup {p} -> T]
         /\ DOMAIN Put(f, p, v) = S \cup {p}
         /\ Put(f, p, v)[p] = v
         /\ \A q \in S \ {p} : Put(f, p, v)[q] = f[q]
BY DEF Put

\* Taking an element out of a sequence: the others keep their places, or move up one.
LEMMA RemoveAtWorks ==
  ASSUME NEW S, NEW q \in Seq(S), NEW i \in 1..Len(q)
  PROVE  /\ RemoveAt(q, i) \in Seq(S)
         /\ Len(RemoveAt(q, i)) = Len(q) - 1
         /\ \A j \in 1..(Len(q) - 1) : RemoveAt(q, i)[j] = IF j < i THEN q[j] ELSE q[j + 1]
<1> DEFINE a == SubSeq(q, 1, i - 1)
           b == SubSeq(q, i + 1, Len(q))
<1>1. a \in Seq(S) /\ Len(a) = i - 1 /\ \A j \in 1..(i - 1) : a[j] = q[j]
  <2>1. \A j \in 1..(i - 1) : q[j] \in S
    OBVIOUS
  <2> QED  BY <2>1, SubSeqProperties
<1>2. b \in Seq(S) /\ Len(b) = Len(q) - i /\ \A j \in 1..(Len(q) - i) : b[j] = q[i + j]
  <2>1. \A j \in (i + 1)..Len(q) : q[j] \in S
    OBVIOUS
  <2> QED  BY <2>1, SubSeqProperties
<1>3. RemoveAt(q, i) = a \o b
  BY DEF RemoveAt
<1> HIDE DEF a, b
<1>4. a \o b \in Seq(S) /\ Len(a \o b) = Len(q) - 1
  <2>1. i \in Int /\ Len(q) \in Nat
    OBVIOUS
  <2>2. a \o b \in Seq(S) /\ Len(a \o b) = Len(a) + Len(b)
    BY <1>1, <1>2, ConcatProperties
  <2> QED  BY <1>1, <1>2, <2>1, <2>2
<1>5. ASSUME NEW j \in 1..(Len(q) - 1)
      PROVE  (a \o b)[j] = IF j < i THEN q[j] ELSE q[j + 1]
  <2>1. CASE j < i
    BY <1>1, <1>2, <2>1
  <2>2. CASE ~(j < i)
    <3>1. (a \o b)[j] = b[j - (i - 1)] /\ j - (i - 1) \in 1..(Len(q) - i)
      BY <1>1, <1>2, <2>2
    <3> QED  BY <1>2, <2>2, <3>1
  <2> QED  BY <2>1, <2>2
<1> QED  BY <1>3, <1>4, <1>5

\* Cancelling a post takes it out of the queue and leaves the others in it, each once.
LEMMA CancelledWorks ==
  ASSUME queue \in Seq(Posts), NEW p \in Posts,
         \A i, j \in DOMAIN queue : queue[i] = queue[j] => i = j
  PROVE  LET q == Cancelled(p)
         IN  /\ q \in Seq(Posts)
             /\ \A i, j \in DOMAIN q : q[i] = q[j] => i = j
             /\ \A i \in DOMAIN q : q[i] # p /\ \E j \in DOMAIN queue : q[i] = queue[j]
<1>1. CASE p \notin ToSet(queue)
  BY <1>1 DEF Cancelled, ToSet
<1>2. CASE p \in ToSet(queue)
  <2> DEFINE k == CHOOSE i \in DOMAIN queue : queue[i] = p
             q == RemoveAt(queue, k)
  <2>1. k \in DOMAIN queue /\ queue[k] = p
    BY <1>2 DEF ToSet
  <2>2. k \in 1..Len(queue)
    BY <2>1
  <2>3. Cancelled(p) = q
    BY <1>2 DEF Cancelled
  <2> HIDE DEF k
  <2>4. /\ q \in Seq(Posts)
        /\ Len(q) = Len(queue) - 1
        /\ \A j \in 1..(Len(queue) - 1) : q[j] = IF j < k THEN queue[j] ELSE queue[j + 1]
    BY <2>2, RemoveAtWorks
  <2> HIDE DEF q
  <2> DEFINE at(j) == IF j < k THEN j ELSE j + 1
  <2>5. \A j \in DOMAIN q : at(j) \in DOMAIN queue /\ at(j) # k /\ q[j] = queue[at(j)]
    BY <2>2, <2>4
  <2>6. \A i, j \in DOMAIN q : at(i) = at(j) => i = j
    BY <2>2, <2>4
  <2> HIDE DEF at
  <2> QED  BY <2>1, <2>3, <2>4, <2>5, <2>6
<1> QED  BY <1>1, <1>2

\* There is a fresh post for c while the queue holds nothing but other callers' posts:
\* those and the workers' are fewer than all.
LEMMA FreshPost ==
  ASSUME TypeOK, NEW c \in Callers,
         \A i \in DOMAIN queue : \E d \in Busy \ {c} : call[d].post = queue[i]
  PROVE  /\ NewPost(c) \in Posts
         /\ NewPost(c) \notin DOMAIN running
         /\ \A i \in DOMAIN queue : queue[i] # NewPost(c)
         /\ \A d \in Busy \ {c} : call[d].post # NewPost(c)
<1> DEFINE D == Busy \ {c}
           held == {call[d].post : d \in D}
           taken == held \cup DOMAIN running
<1>1. /\ IsFiniteSet(Callers) /\ IsFiniteSet(Posts) /\ Workers \in Nat
      /\ Cardinality(Posts) >= Cardinality(Callers) + Workers
  BY PostsAssumption, TimesAssumption
<1>2. IsFiniteSet(Callers \ {c}) /\ Cardinality(Callers \ {c}) = Cardinality(Callers) - 1
  BY <1>1, FS_RemoveElement
<1>3. IsFiniteSet(D) /\ Cardinality(D) <= Cardinality(Callers) - 1
  BY <1>2, FS_Subset DEF Busy
<1>4. IsFiniteSet(held) /\ Cardinality(held) <= Cardinality(D)
  <2> DEFINE f == [d \in D |-> call[d].post]
  <2>1. f \in Surjection(D, held)
    BY DEF Surjection
  <2> QED  BY <1>3, <2>1, FS_Surjection
<1>5. IsFiniteSet(DOMAIN running) /\ Cardinality(DOMAIN running) <= Workers
  BY <1>1, FS_Subset DEF TypeOK
<1>6. /\ Cardinality(Callers) \in Nat /\ Cardinality(Posts) \in Nat
      /\ Cardinality(D) \in Nat /\ Cardinality(held) \in Nat
      /\ Cardinality(DOMAIN running) \in Nat
  BY <1>1, <1>3, <1>4, <1>5, FS_CardinalityType
<1>7. Cardinality(taken) < Cardinality(Posts)
  <2>1. /\ IsFiniteSet(held \cap DOMAIN running)
        /\ Cardinality(taken) = Cardinality(held) + Cardinality(DOMAIN running)
                                - Cardinality(held \cap DOMAIN running)
    <3> HIDE DEF held
    <3> QED  BY <1>4, <1>5, FS_Union, FS_Subset
  <2>2. Cardinality(held \cap DOMAIN running) \in Nat
    BY <2>1, FS_CardinalityType
  <2> HIDE DEF held, taken, D
  <2> QED  BY <1>1, <1>3, <1>4, <1>5, <1>6, <2>1, <2>2
<1>8. PICK p \in Posts : p \notin taken
  <2>1. taken \subseteq Posts
    BY DEF TypeOK, Busy, Call
  <2>2. Cardinality(taken) # Cardinality(Posts)
    <3> HIDE DEF taken
    <3> QED  BY <1>1, <1>7, <1>6
  <2> HIDE DEF taken
  <2> QED  BY <2>1, <2>2
<1> DEFINE Fresh(q) == /\ q \notin ToSet(queue) \cup DOMAIN running
                       /\ \A d \in Busy \ {c} : call[d].post # q
<1>9. Fresh(p)
  BY <1>8 DEF ToSet
<1>10. NewPost(c) \in Posts /\ Fresh(NewPost(c))
  BY <1>9 DEF NewPost
<1> QED  BY <1>10 DEF ToSet

-----------------------------------------------------------------------------
(* Each step preserves the invariant.                                      *)

\* Nobody calls, nothing is queued, nothing has been told.
LEMMA InitHolds == Init => Inv
<1> SUFFICES ASSUME Init PROVE Inv
  OBVIOUS
<1>1. /\ Busy = {} /\ DOMAIN running = {} /\ DOMAIN result = {} /\ DOMAIN queue = {}
      /\ queue \in Seq(Posts)
  BY DEF Init, Busy
<1>2. Cardinality({}) = 0
  BY FS_EmptySet
<1>3. running \in [DOMAIN running -> 0..ReadTimeout] /\ result \in [DOMAIN result -> Results]
  BY <1>1 DEF Init
<1>4. TypeOK
  BY <1>1, <1>2, TimesAssumption DEF Init, TypeOK
<1>5. VerdictsAreEarned
  BY VerdictsAssumption DEF Init, VerdictsAreEarned
<1> QED
  BY <1>1, <1>3, <1>4, <1>5
     DEF Inv, Shape, QueueInv, ResultInv, OwnPosts, Earned, InTime

\* Submitting a fresh post for c, with the queue, the results and the other calls as
\* they are, leaves every post in its place.
LEMMA SubmitHolds ==
  ASSUME Inv, NEW c \in Callers, NEW kind \in Kinds, NEW attempt \in 1..2,
         \A i \in DOMAIN queue : \E d \in Busy \ {c} : call[d].post = queue[i],
         Submit(c, kind, attempt), running' = running,
         result' \in [DOMAIN result' -> Results],
         DOMAIN result' \subseteq DOMAIN result,
         \A p \in DOMAIN result' : \E d \in Busy \ {c} : call[d].post = p
  PROVE  /\ call' \in [Callers -> Call \cup {None}] /\ queue' \in Seq(Posts)
         /\ QueueInv' /\ ResultInv' /\ OwnPosts'
         /\ Busy' = Busy \cup {c}
         /\ \A d \in Busy \ {c} : call'[d] = call[d]
         /\ call'[c] \in Call /\ call'[c].post \notin DOMAIN result'
         /\ call'[c].attempt = attempt /\ call'[c].waited = 0
<1>0. PICK n : n = NewPost(c)
  OBVIOUS
<1>1. /\ n \in Posts /\ n \notin DOMAIN running
      /\ \A i \in DOMAIN queue : queue[i] # n
      /\ \A d \in Busy \ {c} : call[d].post # n
  BY <1>0, FreshPost DEF Inv, Shape
<1>2. /\ queue' = Append(queue, n)
      /\ call' = [call EXCEPT ![c] =
                    [kind |-> kind, attempt |-> attempt, post |-> n, waited |-> 0]]
  BY <1>0 DEF Submit
<1>3. call \in [Callers -> Call \cup {None}] /\ queue \in Seq(Posts)
  BY DEF Inv, Shape, TypeOK
<1>4. [kind |-> kind, attempt |-> attempt, post |-> n, waited |-> 0] \in Call
  BY <1>1 DEF Call
<1>5. /\ call' \in [Callers -> Call \cup {None}] /\ call'[c] \in Call
      /\ call'[c].post = n /\ call'[c].attempt = attempt /\ call'[c].waited = 0
      /\ \A d \in Callers \ {c} : call'[d] = call[d]
  BY <1>2, <1>3, <1>4
<1>6. Busy' = Busy \cup {c} /\ \A d \in Busy \ {c} : call'[d] = call[d]
  BY <1>5, NoneIsNoCall DEF Busy
<1>7. /\ queue' \in Seq(Posts) /\ DOMAIN queue' = DOMAIN queue \cup {Len(queue) + 1}
      /\ queue'[Len(queue) + 1] = n
      /\ \A i \in DOMAIN queue : queue'[i] = queue[i]
      /\ Len(queue) + 1 \notin DOMAIN queue
  BY <1>1, <1>2, <1>3
<1>8. n \notin DOMAIN result'
  BY <1>1
<1>9. \A p : (\E d \in Busy \ {c} : call[d].post = p) => Awaited(p)'
  BY <1>6 DEF Awaited
<1>10. Awaited(n)'
  BY <1>5, <1>6 DEF Awaited
<1>11. QueueInv'
  <2>1. \A i, j \in DOMAIN queue' : queue'[i] = queue'[j] => i = j
    BY <1>1, <1>7 DEF Inv, QueueInv
  <2>2. ASSUME NEW i \in DOMAIN queue'
        PROVE  Awaited(queue[i])' /\ queue'[i] \notin DOMAIN running' \cup DOMAIN result'
    <3>1. CASE i \in DOMAIN queue
      BY <1>7, <1>9, <3>1 DEF Inv, QueueInv
    <3>2. CASE i = Len(queue) + 1
      BY <1>1, <1>7, <1>8, <1>10, <3>2
    <3> QED  BY <1>7, <3>1, <3>2
  <2> QED  BY <2>1, <2>2 DEF QueueInv
<1>12. ResultInv'
  BY <1>9 DEF Inv, ResultInv
<1>13. OwnPosts'
  BY <1>1, <1>5, <1>6 DEF Inv, OwnPosts
<1> QED  BY <1>5, <1>6, <1>7, <1>8, <1>11, <1>12, <1>13

\* A call begins: its post is fresh, its clock is at zero and it has been told nothing.
LEMMA AskHolds ==
  ASSUME Inv, NEW c \in Callers, NEW kind \in Kinds, Ask(c, kind)
  PROVE  Inv'
<1>1. /\ call[c] = None /\ Submit(c, kind, 1)
      /\ answer' = [answer EXCEPT ![c] = "none"]
      /\ spent' = [spent EXCEPT ![c] = 0]
      /\ told' = [told EXCEPT ![c] = {}]
      /\ running' = running /\ result' = result
  BY DEF Ask
<1>2. c \notin Busy
  BY <1>1 DEF Busy
<1>3. /\ TypeOK /\ running \in [DOMAIN running -> 0..ReadTimeout]
      /\ result \in [DOMAIN result -> Results]
  BY DEF Inv, Shape
<1>4. \A i \in DOMAIN queue : \E d \in Busy \ {c} : call[d].post = queue[i]
  BY <1>2 DEF Inv, QueueInv, Awaited
<1>5. \A p \in DOMAIN result' : \E d \in Busy \ {c} : call[d].post = p
  BY <1>1, <1>2 DEF Inv, ResultInv, Awaited
<1>6. /\ call' \in [Callers -> Call \cup {None}] /\ queue' \in Seq(Posts)
      /\ QueueInv' /\ ResultInv' /\ OwnPosts'
      /\ Busy' = Busy \cup {c}
      /\ \A d \in Busy \ {c} : call'[d] = call[d]
      /\ call'[c] \in Call /\ call'[c].post \notin DOMAIN result'
      /\ call'[c].attempt = 1 /\ call'[c].waited = 0
  BY <1>1, <1>3, <1>4, <1>5, SubmitHolds
<1>7. /\ answer'[c] = "none" /\ spent'[c] = 0 /\ told'[c] = {}
      /\ \A d \in Callers \ {c} :
           answer'[d] = answer[d] /\ spent'[d] = spent[d] /\ told'[d] = told[d]
  BY <1>1, <1>3 DEF TypeOK
<1>8. TypeOK'
  <2>1. answer' \in [Callers -> Verdicts \cup {"none", "judge_unavailable", "content", "raised"}]
    BY <1>1, <1>3 DEF TypeOK
  <2>2. spent' \in [Callers -> Nat] /\ told' \in [Callers -> SUBSET Verdicts]
    BY <1>1, <1>3 DEF TypeOK
  <2> QED  BY <1>1, <1>3, <1>6, <2>1, <2>2 DEF TypeOK
<1>9. Shape'
  BY <1>1, <1>3, <1>8 DEF Shape
<1>10. Earned'
  BY <1>1, <1>6, <1>7 DEF Inv, Earned, Busy
<1>11. InTime'
  <2>1. ASSUME NEW d \in Busy'
        PROVE  /\ call'[d].waited <= Deadline
               /\ call'[d].attempt = 1 => spent'[d] <= call'[d].waited
               /\ call'[d].attempt = 2 => spent'[d] <= Deadline + call'[d].waited
    <3>1. CASE d = c
      BY <1>6, <1>7, <3>1, TimesAssumption
    <3>2. CASE d # c
      BY <1>6, <1>7, <3>2 DEF Inv, InTime, Busy
    <3> QED  BY <3>1, <3>2
  <2> QED  BY <2>1 DEF InTime
<1>12. VerdictsAreEarned'
  BY <1>7, VerdictsAssumption DEF Inv, VerdictsAreEarned
<1> QED  BY <1>6, <1>9, <1>10, <1>11, <1>12 DEF Inv

\* The oldest post goes to a worker: it leaves the queue and is nobody else's.
LEMMA StartPostHolds == ASSUME Inv, StartPost PROVE Inv'
<1>1. /\ queue # <<>> /\ Cardinality(DOMAIN running) < Workers
      /\ running' = Put(running, Head(queue), 0) /\ queue' = Tail(queue)
      /\ call' = call /\ answer' = answer /\ result' = result
      /\ spent' = spent /\ told' = told
  BY DEF StartPost
<1>2. /\ TypeOK /\ running \in [DOMAIN running -> 0..ReadTimeout]
      /\ result \in [DOMAIN result -> Results]
      /\ QueueInv /\ ResultInv
  BY DEF Inv, Shape
<1>3. /\ queue \in Seq(Posts) /\ Len(queue) \in Nat \ {0}
      /\ Head(queue) = queue[1] /\ queue[1] \in Posts /\ 1 \in DOMAIN queue
  BY <1>1, <1>2 DEF TypeOK
<1>4. /\ queue' \in Seq(Posts)
      /\ \A i \in DOMAIN queue' : i + 1 \in DOMAIN queue /\ queue'[i] = queue[i + 1]
      /\ DOMAIN queue' \subseteq Nat \ {0}
  BY <1>1, <1>3
<1>5. PICK p \in Posts : p = Head(queue)
  BY <1>3
<1>6. 0 \in 0..ReadTimeout
  BY TimesAssumption
<1>7. /\ running' \in [DOMAIN running \cup {p} -> 0..ReadTimeout]
      /\ DOMAIN running' = DOMAIN running \cup {p}
  BY <1>1, <1>2, <1>5, <1>6, PutWorks
<1>8. Cardinality(DOMAIN running') <= Workers
  <2>1. IsFiniteSet(DOMAIN running)
    BY <1>2, PostsAssumption, FS_Subset DEF TypeOK
  <2>2. Cardinality(DOMAIN running) \in Nat /\ Workers \in Nat
    BY <2>1, FS_CardinalityType, TimesAssumption
  <2>3. Cardinality(DOMAIN running') <= Cardinality(DOMAIN running) + 1
    BY <1>7, <2>1, <2>2, FS_AddElement
  <2>4. Cardinality(DOMAIN running') \in Nat
    BY <1>7, <2>1, FS_AddElement, FS_CardinalityType
  <2> QED  BY <1>1, <2>2, <2>3, <2>4
<1>9. Shape'
  BY <1>1, <1>2, <1>4, <1>7, <1>8 DEF Shape, TypeOK
<1>10. Busy' = Busy /\ \A q : Awaited(q)' <=> Awaited(q)
  BY <1>1 DEF Busy, Awaited
<1>11. p \notin DOMAIN result
  BY <1>2, <1>3, <1>5 DEF QueueInv
<1>12. QueueInv'
  <2>1. \A i, j \in DOMAIN queue' : queue'[i] = queue'[j] => i = j
    BY <1>2, <1>4 DEF QueueInv
  <2>2. ASSUME NEW i \in DOMAIN queue'
        PROVE  Awaited(queue[i])' /\ queue'[i] \notin DOMAIN running' \cup DOMAIN result'
    <3>1. i + 1 # 1 /\ queue[i + 1] # p
      BY <1>2, <1>3, <1>4, <1>5 DEF QueueInv
    <3>2. Awaited(queue[i + 1]) /\ queue[i + 1] \notin DOMAIN running \cup DOMAIN result
      BY <1>2, <1>4 DEF QueueInv
    <3> QED  BY <1>1, <1>4, <1>7, <1>10, <3>1, <3>2
  <2> QED  BY <2>1, <2>2 DEF QueueInv
<1>13. ResultInv'
  BY <1>1, <1>2, <1>7, <1>10, <1>11 DEF ResultInv
<1>14. OwnPosts' /\ Earned' /\ InTime' /\ VerdictsAreEarned'
  BY <1>1 DEF Inv, OwnPosts, Earned, InTime, VerdictsAreEarned, Busy
<1> QED  BY <1>9, <1>12, <1>13, <1>14 DEF Inv

\* A sign of life from the server changes a clock and nothing else.
LEMMA TrickleHolds == ASSUME Inv, NEW p \in Posts, Trickle(p) PROVE Inv'
<1>1. /\ running' = [running EXCEPT ![p] = 0] /\ p \in DOMAIN running
      /\ call' = call /\ answer' = answer /\ queue' = queue /\ result' = result
      /\ spent' = spent /\ told' = told
  BY DEF Trickle
<1>2. running' \in [DOMAIN running -> 0..ReadTimeout] /\ DOMAIN running' = DOMAIN running
  BY <1>1, TimesAssumption DEF Inv, Shape
<1>3. Shape'
  BY <1>1, <1>2 DEF Inv, Shape, TypeOK
<1> QED  BY <1>1, <1>2, <1>3
  DEF Inv, QueueInv, ResultInv, OwnPosts, Earned, InTime, VerdictsAreEarned, Busy, Awaited

\* A post is through.  Only the call that waits for it is told, and only of this post.
LEMMA FinishHolds ==
  ASSUME Inv, NEW p \in DOMAIN running, NEW r \in Results, Finish(p, r)
  PROVE  Inv'
<1>1. /\ running' = Restrict(running, DOMAIN running \ {p})
      /\ result' = IF Awaited(p) THEN Put(result, p, r) ELSE result
      /\ told' = [c \in Callers |-> IF c \in Busy /\ call[c].post = p
                                    THEN told[c] \cup ({r} \cap Verdicts) ELSE told[c]]
      /\ call' = call /\ answer' = answer /\ queue' = queue /\ spent' = spent
  BY DEF Finish
<1>2. /\ TypeOK /\ running \in [DOMAIN running -> 0..ReadTimeout]
      /\ result \in [DOMAIN result -> Results]
      /\ QueueInv /\ ResultInv
  BY DEF Inv, Shape
<1>3. p \in Posts /\ p \notin DOMAIN result /\ \A i \in DOMAIN queue : queue[i] # p
  BY <1>2 DEF TypeOK, QueueInv, ResultInv
<1>4. /\ running' \in [DOMAIN running \ {p} -> 0..ReadTimeout]
      /\ DOMAIN running' = DOMAIN running \ {p}
  BY <1>1, <1>2 DEF Restrict
<1>5. Cardinality(DOMAIN running') <= Workers
  <2>1. IsFiniteSet(DOMAIN running)
    BY <1>2, PostsAssumption, FS_Subset DEF TypeOK
  <2>2. /\ IsFiniteSet(DOMAIN running')
        /\ Cardinality(DOMAIN running') <= Cardinality(DOMAIN running)
    BY <1>4, <2>1, FS_Subset
  <2>3. /\ Cardinality(DOMAIN running) \in Nat /\ Cardinality(DOMAIN running') \in Nat
        /\ Workers \in Nat
    BY <2>1, <2>2, FS_CardinalityType, TimesAssumption
  <2>4. Cardinality(DOMAIN running) <= Workers
    BY <1>2 DEF TypeOK
  <2> QED  BY <2>2, <2>3, <2>4
<1>6. /\ result' \in [DOMAIN result' -> Results]
      /\ DOMAIN result' = IF Awaited(p) THEN DOMAIN result \cup {p} ELSE DOMAIN result
      /\ Awaited(p) => result'[p] = r
      /\ \A q \in DOMAIN result : result'[q] = result[q]
  <2>1. CASE Awaited(p)
    <3>1. result' = Put(result, p, r)
      BY <1>1, <2>1
    <3>2. /\ result' \in [DOMAIN result \cup {p} -> Results]
          /\ DOMAIN result' = DOMAIN result \cup {p} /\ result'[p] = r
          /\ \A q \in DOMAIN result \ {p} : result'[q] = result[q]
      <4>1. result \in [DOMAIN result -> Results]
        BY <1>2
      <4>2. r \in Results
        OBVIOUS
      <4> QED  BY <3>1, <4>1, <4>2 DEF Put
    <3> QED  BY <1>3, <2>1, <3>2
  <2>2. CASE ~Awaited(p)
    <3>1. result' = result
      BY <1>1, <2>2
    <3> QED  BY <1>2, <2>2, <3>1
  <2> QED  BY <2>1, <2>2
<1>7. /\ told' \in [Callers -> SUBSET Verdicts]
      /\ \A c \in Callers : told[c] \subseteq told'[c]
      /\ \A c \in Busy : call[c].post = p /\ r \in Verdicts => r \in told'[c]
  BY <1>1, <1>2 DEF TypeOK, Busy
<1>8. TypeOK'
  BY <1>1, <1>2, <1>3, <1>4, <1>5, <1>6, <1>7 DEF TypeOK
<1>9. Shape'
  BY <1>4, <1>6, <1>8 DEF Shape
<1>10. Busy' = Busy /\ \A q : Awaited(q)' <=> Awaited(q)
  BY <1>1 DEF Busy, Awaited
<1>11. QueueInv'
  <2>1. ASSUME NEW i \in DOMAIN queue'
        PROVE  Awaited(queue[i])' /\ queue'[i] \notin DOMAIN running' \cup DOMAIN result'
    BY <1>1, <1>2, <1>3, <1>4, <1>6, <1>10 DEF QueueInv
  <2> QED  BY <1>1, <1>2, <2>1 DEF QueueInv
<1>12. ResultInv'
  BY <1>2, <1>4, <1>6, <1>10 DEF ResultInv
<1>13. Earned'
  <2>1. ASSUME NEW c \in Busy, call[c].post \in DOMAIN result', result'[call[c].post] \in Verdicts
        PROVE  result'[call[c].post] \in told'[c]
    <3>1. CASE call[c].post = p
      BY <1>3, <1>6, <1>7, <2>1, <3>1
    <3>2. CASE call[c].post # p
      BY <1>6, <1>7, <2>1, <3>2 DEF Inv, Earned, Busy
    <3> QED  BY <3>1, <3>2
  <2> QED  BY <1>1, <1>10, <2>1 DEF Earned
<1>14. OwnPosts' /\ InTime'
  BY <1>1, <1>10 DEF Inv, OwnPosts, InTime
<1>15. VerdictsAreEarned'
  BY <1>1, <1>7 DEF Inv, VerdictsAreEarned
<1> QED  BY <1>9, <1>11, <1>12, <1>13, <1>14, <1>15 DEF Inv

\* A tick: everybody who waits has waited, and spent, one more.
LEMMA TickHolds == ASSUME Inv, Tick PROVE Inv'
<1>1. /\ \A c \in Busy : call[c].waited < Deadline
      /\ \A p \in DOMAIN running : running[p] < ReadTimeout
      /\ call' = [c \in Callers |->
                    IF c \in Busy THEN [call[c] EXCEPT !.waited = @ + 1] ELSE None]
      /\ running' = [p \in DOMAIN running |-> running[p] + 1]
      /\ spent' = [c \in Callers |-> IF c \in Busy THEN spent[c] + 1 ELSE spent[c]]
      /\ answer' = answer /\ queue' = queue /\ result' = result /\ told' = told
  BY DEF Tick
<1>2. /\ TypeOK /\ running \in [DOMAIN running -> 0..ReadTimeout]
      /\ result \in [DOMAIN result -> Results]
  BY DEF Inv, Shape
<1>3. /\ DOMAIN running' = DOMAIN running
      /\ running' \in [DOMAIN running -> 0..ReadTimeout]
  BY <1>1, <1>2, TimesAssumption
<1>4. ASSUME NEW c \in Busy
      PROVE  /\ c \in Callers /\ call[c] \in Call /\ call'[c] \in Call
             /\ call'[c].post = call[c].post /\ call'[c].attempt = call[c].attempt
             /\ call'[c].waited = call[c].waited + 1 /\ spent'[c] = spent[c] + 1
             /\ call[c].waited \in Nat /\ spent[c] \in Nat
  <2>1. c \in Callers /\ call[c] \in Call /\ spent[c] \in Nat
    BY <1>2 DEF Busy, TypeOK
  <2>2. call'[c] = [call[c] EXCEPT !.waited = @ + 1] /\ spent'[c] = spent[c] + 1
    BY <1>1, <2>1
  <2> QED  BY <2>1, <2>2 DEF Call
<1>5. \A c \in Callers \ Busy : call'[c] = None /\ call[c] = None
  BY <1>1 DEF Busy
<1>6. call' \in [Callers -> Call \cup {None}] /\ spent' \in [Callers -> Nat]
  <2>1. \A c \in Callers : call'[c] \in Call \cup {None}
    BY <1>4, <1>5
  <2>2. \A c \in Callers : spent'[c] \in Nat
    BY <1>1, <1>2, <1>4 DEF TypeOK
  <2> QED  BY <1>1, <2>1, <2>2
<1>7. Busy' = Busy
  BY <1>4, <1>5, NoneIsNoCall DEF Busy
<1>8. \A q : Awaited(q)' <=> Awaited(q)
  BY <1>4, <1>7 DEF Awaited
<1>9. Shape'
  BY <1>1, <1>2, <1>3, <1>6 DEF Shape, TypeOK
<1>10. QueueInv' /\ ResultInv'
  BY <1>1, <1>3, <1>8 DEF Inv, QueueInv, ResultInv
<1>11. OwnPosts' /\ Earned'
  <2>1. OwnPosts'
    BY <1>4, <1>7 DEF Inv, OwnPosts
  <2>2. Earned'
    BY <1>1, <1>4, <1>7 DEF Inv, Earned
  <2> QED  BY <2>1, <2>2
<1>12. InTime'
  <2>1. ASSUME NEW c \in Busy
        PROVE  /\ call'[c].waited <= Deadline
               /\ call'[c].attempt = 1 => spent'[c] <= call'[c].waited
               /\ call'[c].attempt = 2 => spent'[c] <= Deadline + call'[c].waited
    <3>1. /\ call[c].attempt = 1 => spent[c] <= call[c].waited
          /\ call[c].attempt = 2 => spent[c] <= Deadline + call[c].waited
      BY DEF Inv, InTime
    <3>2. call[c].waited < Deadline
      BY <1>1
    <3> QED  BY <1>4, <3>1, <3>2, TimesAssumption
  <2> QED  BY <1>7, <2>1 DEF InTime
<1>13. VerdictsAreEarned'
  BY <1>1 DEF Inv, VerdictsAreEarned
<1> QED  BY <1>9, <1>10, <1>11, <1>12, <1>13 DEF Inv

\* What is left of the calls when c's is over.
LEMMA AnswerLeaves ==
  ASSUME call \in [Callers -> Call \cup {None}], NEW c \in Busy, NEW a, Answer(c, a)
  PROVE  /\ call' \in [Callers -> Call \cup {None}]
         /\ Busy' = Busy \ {c}
         /\ \A d \in Busy' : call'[d] = call[d]
         /\ \A q : (\E d \in Busy \ {c} : call[d].post = q) => Awaited(q)'
BY DEF Answer, Busy, Awaited

\* What the caller sees is a verdict only if that was the reply, and one of the four
\* other answers if not.
LEMMA OutcomeWorks ==
  ASSUME NEW c \in Busy, call \in [Callers -> Call \cup {None}], NEW r \in Results
  PROVE  /\ Outcome(c, r) \in Verdicts \cup {"none", "judge_unavailable", "content", "raised"}
         /\ Outcome(c, r) \in Verdicts => Outcome(c, r) = r
<1>1. CASE call[c].kind = "judge"
  <2>1. CASE r \in Verdicts
    BY <1>1, <2>1, VerdictsAssumption DEF Outcome
  <2>2. CASE r \in {"no_text", "no_body"}
    BY <1>1, <2>2, VerdictsAssumption DEF Outcome
  <2>3. CASE r \notin Verdicts \cup {"no_text", "no_body"}
    BY <1>1, <2>3, VerdictsAssumption DEF Outcome
  <2> QED  BY <2>1, <2>2, <2>3
<1>2. CASE call[c].kind # "judge"
  <2>1. CASE r \in Verdicts \cup {"unreadable"}
    BY <1>2, <2>1, VerdictsAssumption DEF Outcome
  <2>2. CASE r \notin Verdicts \cup {"unreadable"}
    BY <1>2, <2>2, VerdictsAssumption DEF Outcome
  <2> QED  BY <2>1, <2>2
<1> QED  BY <1>1, <1>2

\* A result is picked up: its post is free again, and either a second one is submitted,
\* after a first that took a deadline at most, or the call is answered.
LEMMA CollectHolds == ASSUME Inv, NEW c \in Callers, Collect(c) PROVE Inv'
<1>0. PICK p : p = call[c].post
  OBVIOUS
<1>1. /\ c \in Busy /\ p \in DOMAIN result
      /\ result' = Restrict(result, DOMAIN result \ {p})
      /\ IF Retries(c, result[p])
         THEN Submit(c, "judge", call[c].attempt + 1) /\ answer' = answer
         ELSE Answer(c, Outcome(c, result[p])) /\ queue' = queue
      /\ running' = running /\ spent' = spent /\ told' = told
  BY <1>0 DEF Collect
<1>2. /\ TypeOK /\ running \in [DOMAIN running -> 0..ReadTimeout]
      /\ result \in [DOMAIN result -> Results]
      /\ call \in [Callers -> Call \cup {None}] /\ call[c] \in Call
      /\ answer \in [Callers -> Verdicts \cup {"none", "judge_unavailable", "content", "raised"}]
  BY <1>1 DEF Inv, Shape, TypeOK, Busy
<1>3. /\ DOMAIN result' = DOMAIN result \ {p}
      /\ result' \in [DOMAIN result' -> Results]
      /\ \A q \in DOMAIN result' : result'[q] = result[q]
  BY <1>1, <1>2 DEF Restrict
<1>4. \A i \in DOMAIN queue : \E d \in Busy \ {c} : call[d].post = queue[i]
  BY <1>0, <1>1 DEF Inv, QueueInv, Awaited
<1>5. \A q \in DOMAIN result' : \E d \in Busy \ {c} : call[d].post = q
  BY <1>0, <1>3 DEF Inv, ResultInv, Awaited
<1>6. CASE Retries(c, result[p])
  <2>1. call[c].attempt = 1 /\ Submit(c, "judge", 2) /\ answer' = answer
    BY <1>1, <1>6 DEF Retries
  <2>2. /\ call' \in [Callers -> Call \cup {None}] /\ queue' \in Seq(Posts)
        /\ QueueInv' /\ ResultInv' /\ OwnPosts'
        /\ Busy' = Busy \cup {c}
        /\ \A d \in Busy \ {c} : call'[d] = call[d]
        /\ call'[c] \in Call /\ call'[c].post \notin DOMAIN result'
        /\ call'[c].attempt = 2 /\ call'[c].waited = 0
    <3>1. "judge" \in Kinds /\ 2 \in 1..2 /\ DOMAIN result' \subseteq DOMAIN result
      BY <1>3 DEF Kinds
    <3> QED  BY <1>1, <1>3, <1>4, <1>5, <2>1, <3>1, SubmitHolds
  <2>3. Shape'
    BY <1>1, <1>2, <1>3, <2>1, <2>2 DEF Shape, TypeOK
  <2>4. Earned'
    <3>1. ASSUME NEW d \in Busy', call'[d].post \in DOMAIN result',
                 result'[call'[d].post] \in Verdicts
          PROVE  result'[call'[d].post] \in told'[d]
      <4>1. d # c /\ d \in Busy /\ call'[d] = call[d]
        BY <2>2, <3>1
      <4> QED  BY <1>1, <1>3, <3>1, <4>1 DEF Inv, Earned
    <3> QED  BY <3>1 DEF Earned
  <2>5. InTime'
    <3>1. ASSUME NEW d \in Busy'
          PROVE  /\ call'[d].waited <= Deadline
                 /\ call'[d].attempt = 1 => spent'[d] <= call'[d].waited
                 /\ call'[d].attempt = 2 => spent'[d] <= Deadline + call'[d].waited
      <4>1. CASE d = c
        <5>1. spent[c] <= call[c].waited /\ call[c].waited <= Deadline
          BY <1>1, <2>1 DEF Inv, InTime
        <5>2. spent[c] \in Nat /\ call[c].waited \in Nat
          BY <1>2 DEF TypeOK, Call
        <5> QED  BY <1>1, <2>2, <4>1, <5>1, <5>2, TimesAssumption
      <4>2. CASE d # c
        BY <1>1, <2>2, <4>2 DEF Inv, InTime
      <4> QED  BY <4>1, <4>2
    <3> QED  BY <3>1 DEF InTime
  <2>6. VerdictsAreEarned'
    BY <1>1, <2>1 DEF Inv, VerdictsAreEarned
  <2> QED  BY <2>2, <2>3, <2>4, <2>5, <2>6 DEF Inv
<1>7. CASE ~Retries(c, result[p])
  <2>1. PICK a : a = Outcome(c, result[p])
    OBVIOUS
  <2>2. Answer(c, a) /\ queue' = queue
    BY <1>1, <1>7, <2>1
  <2>3. /\ call' \in [Callers -> Call \cup {None}]
        /\ Busy' = Busy \ {c}
        /\ \A d \in Busy' : call'[d] = call[d]
        /\ \A q : (\E d \in Busy \ {c} : call[d].post = q) => Awaited(q)'
    BY <1>1, <1>2, <2>2, AnswerLeaves
  <2>4. /\ a \in Verdicts \cup {"none", "judge_unavailable", "content", "raised"}
        /\ a \in Verdicts => a = result[p]
    BY <1>1, <1>2, <2>1, OutcomeWorks
  <2>5. answer' = [answer EXCEPT ![c] = a]
    BY <2>2 DEF Answer
  <2>6. Shape'
    BY <1>1, <1>2, <1>3, <2>2, <2>3, <2>4, <2>5 DEF Shape, TypeOK
  <2>7. QueueInv'
    <3>1. ASSUME NEW i \in DOMAIN queue'
          PROVE  Awaited(queue[i])' /\ queue'[i] \notin DOMAIN running' \cup DOMAIN result'
      BY <1>1, <1>3, <1>4, <2>2, <2>3 DEF Inv, QueueInv
    <3> QED  BY <2>2, <3>1 DEF Inv, QueueInv
  <2>8. ResultInv'
    BY <1>1, <1>3, <1>5, <2>3 DEF Inv, ResultInv
  <2>9. OwnPosts' /\ InTime'
    BY <1>1, <2>3 DEF Inv, OwnPosts, InTime
  <2>10. Earned'
    BY <1>1, <1>3, <2>3 DEF Inv, Earned
  <2>11. VerdictsAreEarned'
    <3>1. a \in Verdicts => a \in told[c]
      BY <1>0, <1>1, <2>4 DEF Inv, Earned
    <3> QED  BY <1>1, <1>2, <2>5, <3>1 DEF Inv, VerdictsAreEarned
  <2> QED  BY <2>6, <2>7, <2>8, <2>9, <2>10, <2>11 DEF Inv
<1> QED  BY <1>6, <1>7

\* The deadline: the post leaves the queue if it was there, and a worker that is at it
\* goes on for nobody.
LEMMA ExpireHolds == ASSUME Inv, NEW c \in Callers, Expire(c) PROVE Inv'
<1>0. PICK p : p = call[c].post
  OBVIOUS
<1>1. PICK a : a = Outcome(c, "timeout")
  OBVIOUS
<1>2. /\ c \in Busy /\ p \notin DOMAIN result
      /\ Answer(c, a) /\ queue' = Cancelled(p)
      /\ running' = running /\ result' = result /\ spent' = spent /\ told' = told
  BY <1>0, <1>1 DEF Expire
<1>3. /\ TypeOK /\ running \in [DOMAIN running -> 0..ReadTimeout]
      /\ result \in [DOMAIN result -> Results]
      /\ call \in [Callers -> Call \cup {None}] /\ call[c] \in Call /\ p \in Posts
      /\ answer \in [Callers -> Verdicts \cup {"none", "judge_unavailable", "content", "raised"}]
  BY <1>0, <1>2 DEF Inv, Shape, TypeOK, Busy, Call
<1>4. /\ call' \in [Callers -> Call \cup {None}]
      /\ Busy' = Busy \ {c}
      /\ \A d \in Busy' : call'[d] = call[d]
      /\ \A q : (\E d \in Busy \ {c} : call[d].post = q) => Awaited(q)'
  BY <1>2, <1>3, AnswerLeaves
<1>5. /\ a \in Verdicts \cup {"none", "judge_unavailable", "content", "raised"}
      /\ a \notin Verdicts
  <2>1. "timeout" \in Results /\ "timeout" \notin Verdicts
    BY VerdictsAssumption DEF Results
  <2> QED  BY <1>1, <1>2, <1>3, <2>1, OutcomeWorks
<1>6. answer' = [answer EXCEPT ![c] = a]
  BY <1>2 DEF Answer
<1>7. /\ queue' \in Seq(Posts)
      /\ \A i, j \in DOMAIN queue' : queue'[i] = queue'[j] => i = j
      /\ \A i \in DOMAIN queue' : queue'[i] # p /\ \E j \in DOMAIN queue : queue'[i] = queue[j]
  BY <1>2, <1>3, CancelledWorks DEF Inv, QueueInv, TypeOK
<1>8. Shape'
  BY <1>2, <1>3, <1>4, <1>5, <1>6, <1>7 DEF Shape, TypeOK
<1>9. \A q : Awaited(q) /\ q # p => \E d \in Busy \ {c} : call[d].post = q
  BY <1>0 DEF Awaited
<1>10. QueueInv'
  <2>1. ASSUME NEW i \in DOMAIN queue'
        PROVE  Awaited(queue[i])' /\ queue'[i] \notin DOMAIN running' \cup DOMAIN result'
    BY <1>2, <1>4, <1>7, <1>9 DEF Inv, QueueInv
  <2> QED  BY <1>7, <2>1 DEF QueueInv
<1>11. ResultInv'
  BY <1>2, <1>4, <1>9 DEF Inv, ResultInv
<1>12. OwnPosts' /\ InTime'
  BY <1>2, <1>4 DEF Inv, OwnPosts, InTime
<1>13. Earned'
  BY <1>2, <1>4 DEF Inv, Earned
<1>14. VerdictsAreEarned'
  BY <1>2, <1>3, <1>5, <1>6 DEF Inv, VerdictsAreEarned
<1> QED  BY <1>8, <1>10, <1>11, <1>12, <1>13, <1>14 DEF Inv

\* Every step of any caller, of the pool or of the clock.
LEMMA StepHolds == Inv /\ [Next]_vars => Inv'
<1> SUFFICES ASSUME Inv, [Next]_vars PROVE Inv'
  OBVIOUS
<1>1. ASSUME NEW c \in Callers, NEW kind \in Kinds, Ask(c, kind) PROVE Inv'
  BY <1>1, AskHolds
<1>2. ASSUME NEW c \in Callers, Collect(c) PROVE Inv'
  BY <1>2, CollectHolds
<1>3. ASSUME NEW c \in Callers, Expire(c) PROVE Inv'
  BY <1>3, ExpireHolds
<1>4. CASE StartPost
  BY <1>4, StartPostHolds
<1>5. ASSUME NEW p \in Posts, Trickle(p) PROVE Inv'
  BY <1>5, TrickleHolds
<1>6. ASSUME NEW p \in Posts, Reply(p) PROVE Inv'
  <2>1. PICK r \in Replies \cup {"failed"} : Finish(p, r)
    BY <1>6 DEF Reply
  <2> QED  BY <1>6, <2>1, FinishHolds DEF Reply, Results
<1>7. ASSUME NEW p \in Posts, ReadTimesOut(p) PROVE Inv'
  BY <1>7, FinishHolds DEF ReadTimesOut, Results
<1>8. CASE Tick
  BY <1>8, TickHolds
<1>9. CASE UNCHANGED vars
  BY <1>9 DEF vars, Inv, Shape, TypeOK, QueueInv, ResultInv, OwnPosts, Earned, InTime,
              VerdictsAreEarned, Busy, Awaited
<1> QED  BY <1>1, <1>2, <1>3, <1>4, <1>5, <1>6, <1>7, <1>8, <1>9 DEF Next

-----------------------------------------------------------------------------
(* The theorems.                                                           *)

\* The invariant holds in every state of every behaviour.
THEOREM InvHolds == Spec => []Inv
BY InitHolds, StepHolds, PTL DEF Spec

\* The shape of the state, the pool's limit among it: never more posts at workers
\* than there are workers.
THEOREM TypesHold == Spec => []TypeOK
<1>1. Inv => TypeOK
  BY DEF Inv, Shape
<1> QED  BY <1>1, InvHolds, PTL

\* judge.py fails closed: a verdict a caller gets is one the server gave to this very
\* call, whatever replies come late or to others.
THEOREM VerdictsEarned == Spec => []VerdictsAreEarned
<1>1. Inv => VerdictsAreEarned
  BY DEF Inv
<1> QED  BY <1>1, InvHolds, PTL

\* total_deadline bounds each post, and evaluate makes two at most: a call that is not
\* over has spent at most two deadlines.
THEOREM CallsInTime == Spec => []AnsweredInTime
<1>1. Inv => AnsweredInTime
  <2> SUFFICES ASSUME Inv, NEW c \in Busy
               PROVE  /\ spent[c] <= (call[c].attempt - 1) * Deadline + call[c].waited
                      /\ call[c].attempt <= 2 /\ spent[c] <= 2 * Deadline
    BY DEF AnsweredInTime
  <2>1. call[c].attempt \in 1..2 /\ call[c].waited \in Nat /\ spent[c] \in Nat
    BY DEF Inv, Shape, TypeOK, Busy, Call
  <2>2. /\ call[c].waited <= Deadline
        /\ call[c].attempt = 1 => spent[c] <= call[c].waited
        /\ call[c].attempt = 2 => spent[c] <= Deadline + call[c].waited
    BY DEF Inv, InTime
  <2>3. Deadline \in Nat
    BY TimesAssumption
  <2>4. CASE call[c].attempt = 1
    BY <2>1, <2>2, <2>3, <2>4
  <2>5. CASE call[c].attempt = 2
    BY <2>1, <2>2, <2>3, <2>5
  <2> QED  BY <2>1, <2>4, <2>5
<1> QED  BY <1>1, InvHolds, PTL

\* future.cancel() works on every post that no worker has taken: a worker never starts
\* on one whose caller has given up.
THEOREM NoneSentInVain == Spec => AbandonedPostsAreNotSent
<1> DEFINE Step == \A p \in DOMAIN running' \ DOMAIN running : Awaited(p)
<1>1. Inv /\ [Next]_vars => Step
  <2> SUFFICES ASSUME Inv, [Next]_vars, NEW p \in DOMAIN running' \ DOMAIN running
               PROVE  Awaited(p)
    OBVIOUS
  <2>1. CASE StartPost
    <3>1. queue # <<>> /\ queue \in Seq(Posts) /\ running' = Put(running, Head(queue), 0)
      BY <2>1 DEF StartPost, Inv, Shape, TypeOK
    <3>2. p = queue[1] /\ 1 \in DOMAIN queue
      BY <3>1 DEF Put
    <3> QED  BY <3>2 DEF Inv, QueueInv
  <2>2. ASSUME NEW q, NEW r, Finish(q, r) PROVE FALSE
    BY <2>2 DEF Finish, Restrict
  <2>3. ASSUME NEW c \in Callers, NEW kind \in Kinds, Ask(c, kind) PROVE FALSE
    BY <2>3 DEF Ask
  <2>4. ASSUME NEW c \in Callers, Collect(c) \/ Expire(c) PROVE FALSE
    BY <2>4 DEF Collect, Expire
  <2>5. ASSUME NEW q, Trickle(q) PROVE FALSE
    BY <2>5 DEF Trickle
  <2>6. CASE Tick
    BY <2>6 DEF Tick
  <2>7. CASE UNCHANGED vars
    BY <2>7 DEF vars
  <2> QED  BY <2>1, <2>2, <2>3, <2>4, <2>5, <2>6, <2>7 DEF Next, Reply, ReadTimesOut
<1> QED  BY <1>1, InvHolds, PTL DEF Spec, AbandonedPostsAreNotSent

=============================================================================
