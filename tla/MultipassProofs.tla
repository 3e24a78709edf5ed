--------------------------- MODULE MultipassProofs ---------------------------
(* First the bounds of the fill loop on its own, for every scale, epsilon,   *)
(* attempt cap and set of confidences a model may report; then the pipeline  *)
(* around it, for any inputs, passes that fail, kills and runs that follow   *)
(* on each other.                                                            *)
EXTENDS Multipass, SequenceTheorems, TLAPS

-----------------------------------------------------------------------------
(* The fill loop.                                                            *)

\* No attempt reported NaN.
Numeric == \A i \in DOMAIN trajectory : trajectory[i] # NaN

(* While the loop goes on, every attempt after the first has raised the best *)
(* by epsilon; the one that plateaus has not.                                *)
Climbs ==
  Honest /\ trajectory # <<>> =>
    /\ best \in 0..Scale
    /\ step # "plateau" => (Len(trajectory) - 1) * Epsilon <= best
    /\ step = "plateau" => (Len(trajectory) - 2) * Epsilon <= best

LoopInv ==
  /\ FillTypeOK
  /\ Len(trajectory) <= MaxAttempts
  /\ step = "propose" => Len(trajectory) < MaxAttempts
  /\ step = "ground" => trajectory # <<>>
  /\ trajectory = <<>> <=> best = Nothing
  /\ Numeric /\ trajectory # <<>> =>
       best \in Int /\ \A i \in DOMAIN trajectory : trajectory[i] < best + Epsilon
  /\ Climbs

USE ConfidencesAssumption, ScaleAssumption, ReasonsAssumption

-----------------------------------------------------------------------------
(* One more epsilon, in the shape the invariant needs it.                    *)
LEMMA OneMore == \A n \in Int, e \in Int : (n + 1) * e = n * e + e
  OBVIOUS

(* An appended attempt leaves the earlier ones where they are.               *)
LEMMA Appended ==
  ASSUME NEW conf \in Confidences, FillTypeOK, trajectory' = Append(trajectory, conf)
  PROVE  /\ trajectory' \in Seq(Confidences) /\ trajectory' # <<>>
         /\ Len(trajectory') = Len(trajectory) + 1
         /\ DOMAIN trajectory' = 1 .. Len(trajectory) + 1
         /\ DOMAIN trajectory = 1 .. Len(trajectory)
         /\ \A i \in DOMAIN trajectory : trajectory'[i] = trajectory[i]
         /\ trajectory'[Len(trajectory) + 1] = conf
  BY DEF FillTypeOK

(* max(best, conf) is one of the two, and no smaller than either.            *)
LEMMA BetterIsMax ==
  ASSUME NEW conf \in Int \cap Confidences, best \in Int
  PROVE  /\ Better(conf) \in {best, conf}
         /\ Better(conf) >= best /\ Better(conf) >= conf
  BY DEF Better

LEMMA BetterTyped ==
  ASSUME NEW conf \in Confidences, FillTypeOK
  PROVE  Better(conf) \in Confidences
  BY DEF Better, FillTypeOK

-----------------------------------------------------------------------------
LEMMA InitLoopInv == FillIdle => LoopInv
  BY DEF FillIdle, LoopInv, FillTypeOK, Numeric, Climbs, Honest

LEMMA NextLoopInv == LoopInv /\ [FillNext]_fillVars => LoopInv'
<1> SUFFICES ASSUME LoopInv, [FillNext]_fillVars PROVE LoopInv'
  OBVIOUS
<1>1. CASE FillStart
  BY <1>1 DEF FillStart, LoopInv, FillTypeOK, Numeric, Climbs, Honest
<1>2. CASE Propose
  <2>1. PICK conf \in Confidences :
          /\ trajectory' = Append(trajectory, conf)
          /\ IF Plateaued(conf)
             THEN step' = "plateau" /\ UNCHANGED best
             ELSE step' = "ground" /\ best' = Better(conf)
    BY <1>2 DEF Propose
  <2>2. step = "propose" /\ UNCHANGED <<feedback, rows>>
    BY <1>2 DEF Propose
  <2>3. /\ trajectory' \in Seq(Confidences) /\ trajectory' # <<>>
        /\ Len(trajectory') = Len(trajectory) + 1
        /\ DOMAIN trajectory' = 1 .. Len(trajectory) + 1
        /\ DOMAIN trajectory = 1 .. Len(trajectory)
        /\ \A i \in DOMAIN trajectory : trajectory'[i] = trajectory[i]
        /\ trajectory'[Len(trajectory) + 1] = conf
    BY <2>1, Appended DEF LoopInv
  <2>4. Len(trajectory) \in Nat
    BY DEF LoopInv, FillTypeOK
  <2>5. FillTypeOK'
    BY <2>1, <2>2, <2>3, BetterTyped DEF FillTypeOK, LoopInv
  <2>6. best' # Nothing
    BY <2>1, BetterTyped DEF LoopInv, Plateaued
  <2>7. Numeric' => Numeric /\ conf \in Int
    BY <2>3, <2>4 DEF Numeric
  <2>8. Honest' => Honest /\ conf \in 0..Scale
    BY <2>3, <2>4 DEF Honest
  <2>9. CASE trajectory = <<>>
    <3>1. step' = "ground" /\ best' = conf /\ Len(trajectory) = 0
      BY <2>1, <2>9 DEF Plateaued, Better, LoopInv
    <3>2. Numeric' => best' \in Int /\ \A i \in DOMAIN trajectory' : trajectory'[i] < best' + Epsilon
      BY <2>3, <2>7, <3>1
    <3>3. Climbs'
      BY <2>3, <2>8, <3>1 DEF Climbs
    <3> QED
      BY <2>2, <2>3, <2>5, <2>6, <3>1, <3>2, <3>3 DEF LoopInv
  <2>10. CASE trajectory # <<>> /\ Plateaued(conf)
    <3>1. step' = "plateau" /\ best' = best
      BY <2>1, <2>10
    <3>2. Numeric' => best' \in Int /\ \A i \in DOMAIN trajectory' : trajectory'[i] < best' + Epsilon
      BY <2>3, <2>4, <2>7, <2>10, <3>1 DEF LoopInv, Plateaued, FallsShort
    <3>3. Climbs'
      BY <2>2, <2>3, <2>4, <2>8, <2>10, <3>1 DEF LoopInv, Climbs
    <3> QED
      BY <2>2, <2>3, <2>4, <2>5, <2>6, <3>1, <3>2, <3>3 DEF LoopInv
  <2>11. CASE trajectory # <<>> /\ ~Plateaued(conf)
    <3>1. step' = "ground" /\ best' = Better(conf)
      BY <2>1, <2>11
    <3>2. Numeric' => best' \in Int /\ best' >= best /\ best' >= conf /\ best \in Int
      BY <2>7, <2>11, <3>1, BetterIsMax DEF LoopInv
    <3>3. Numeric' => \A i \in DOMAIN trajectory' : trajectory'[i] < best' + Epsilon
      <4> SUFFICES ASSUME Numeric', NEW i \in DOMAIN trajectory'
                   PROVE  trajectory'[i] < best' + Epsilon
        OBVIOUS
      <4>1. CASE i = Len(trajectory) + 1
        BY <4>1, <2>3, <2>7, <3>2
      <4>2. CASE i \in DOMAIN trajectory
        <5>1. trajectory[i] < best + Epsilon /\ trajectory[i] \in Int
          <6>1. trajectory[i] < best + Epsilon
            BY <4>2, <2>7, <2>11 DEF LoopInv
          <6>2. trajectory[i] \in Confidences
            BY <4>2, <2>3 DEF LoopInv, FillTypeOK
          <6>3. trajectory[i] # NaN
            BY <4>2, <2>7 DEF Numeric
          <6> QED
            BY <6>1, <6>2, <6>3
        <5> QED
          BY <5>1, <4>2, <2>3, <3>2
      <4> QED
        BY <4>1, <4>2, <2>3, <2>4
    <3>4. Climbs'
      <4> SUFFICES ASSUME Honest'
                   PROVE  best' \in 0..Scale /\ (Len(trajectory') - 1) * Epsilon <= best'
        BY <3>1 DEF Climbs
      <4>1. /\ conf \in 0..Scale /\ best \in 0..Scale
            /\ (Len(trajectory) - 1) * Epsilon <= best
        BY <2>2, <2>8, <2>11 DEF LoopInv, Climbs
      <4>2. conf >= best + Epsilon
        BY <4>1, <2>11 DEF Plateaued, FallsShort
      <4>3. best' = conf
        BY <4>1, <4>2, <3>1 DEF Better
      <4>4. (Len(trajectory) - 1 + 1) * Epsilon = (Len(trajectory) - 1) * Epsilon + Epsilon
        BY <2>4, OneMore
      <4>5. Len(trajectory') - 1 = Len(trajectory) - 1 + 1
        BY <2>3, <2>4
      <4>6. (Len(trajectory') - 1) * Epsilon = (Len(trajectory) - 1) * Epsilon + Epsilon
        BY <4>4, <4>5
      <4> DEFINE m == (Len(trajectory) - 1) * Epsilon
      <4>7. m \in Int
        BY <2>4
      <4>8. m + Epsilon <= conf
        <5> HIDE DEF m
        <5>1. m <= best
          BY <4>1 DEF m
        <5> QED
          BY <5>1, <4>1, <4>2, <4>7
      <4> QED
        BY <4>1, <4>3, <4>6, <4>8
    <3> QED
      BY <2>2, <2>3, <2>4, <2>5, <2>6, <3>1, <3>2, <3>3, <3>4 DEF LoopInv
  <2> QED
    BY <2>9, <2>10, <2>11
<1>3. CASE Ground
  BY <1>3 DEF Ground, LoopInv, FillTypeOK, Numeric, Climbs, Honest
<1>4. CASE Bounce
  BY <1>4 DEF Bounce, LoopInv, FillTypeOK, Numeric, Climbs, Honest
<1>5. CASE FillRaises
  BY <1>5 DEF FillRaises, LoopInv, FillTypeOK, Numeric, Climbs, Honest
<1>6. CASE UNCHANGED fillVars
  BY <1>6 DEF fillVars, LoopInv, FillTypeOK, Numeric, Climbs, Honest
<1> QED
  BY <1>1, <1>2, <1>3, <1>4, <1>5, <1>6 DEF FillNext, FillStep

THEOREM LoopInvariant == FillSpec => []LoopInv
<1>1. FillIdle => LoopInv
  BY InitLoopInv
<1>2. LoopInv /\ [FillNext]_fillVars => LoopInv'
  BY NextLoopInv
<1> QED
  BY <1>1, <1>2, PTL DEF FillSpec

-----------------------------------------------------------------------------
(* What LoopInv comes to for the number of attempts.                         *)
LEMMA Bounded == LoopInv => AttemptsBounded
<1> SUFFICES ASSUME LoopInv, Honest PROVE (Len(trajectory) - 2) * Epsilon <= Scale
  BY DEF LoopInv, AttemptsBounded
<1>1. Len(trajectory) \in Nat
  BY DEF LoopInv, FillTypeOK
<1> DEFINE n == Len(trajectory) - 2
<1>2. (n + 1) * Epsilon = n * Epsilon + Epsilon /\ n * Epsilon \in Int
  BY <1>1, OneMore
<1>3. n + 1 = Len(trajectory) - 1
  BY <1>1
<1>4. CASE trajectory = <<>>
  <2>1. n = -2
    BY <1>4
  <2>2. -2 * Epsilon <= 0
    OBVIOUS
  <2> QED
    BY <2>1, <2>2
<1>5. CASE trajectory # <<>>
  <2>1. best \in 0..Scale
    BY <1>5 DEF LoopInv, Climbs
  <2>2. n * Epsilon <= best
    <3>1. CASE step = "plateau"
      BY <3>1, <1>5 DEF LoopInv, Climbs
    <3>2. CASE step # "plateau"
      <4>1. (n + 1) * Epsilon <= best
        BY <3>2, <1>3, <1>5 DEF LoopInv, Climbs
      <4> DEFINE m == n * Epsilon
      <4>2. m \in Int /\ m + Epsilon <= best
        BY <4>1, <1>2
      <4>3. m <= best
        <5> HIDE DEF m
        <5> QED
          BY <4>2, <2>1
      <4> QED
        BY <4>3
    <3> QED
      BY <3>1, <3>2
  <2> DEFINE m == n * Epsilon
  <2>3. m \in Int /\ m <= best
    BY <2>2, <1>2
  <2>4. m <= Scale
    <3> HIDE DEF m
    <3> QED
      BY <2>1, <2>3
  <2> QED
    BY <2>4
<1> QED
  BY <1>4, <1>5

(* For every epsilon and cap: honest confidences, those in [0, 1], end the   *)
(* loop after at most 1/epsilon + 2 attempts, any others after the cap.      *)
THEOREM LoopIsBounded == FillSpec => []AttemptsBounded
BY Bounded, LoopInvariant, PTL

(* And for the best that is reported.                                        *)
LEMMA Near == LoopInv => BestIsNearlyBest
BY DEF LoopInv, BestIsNearlyBest, Numeric, FillTypeOK

(* For every epsilon: unless a model reports NaN, no attempt beats the best  *)
(* the loop reports by epsilon.                                              *)
THEOREM NearlyBest == FillSpec => []BestIsNearlyBest
BY Near, LoopInvariant, PTL

-----------------------------------------------------------------------------
(* The invariant of a run, and of the runs before it under its label.        *)

\* The fourth pass; what it and the others answer for a chunk.
Pass3 == 4
Output == {"done"} \cup [grounded : BOOLEAN, reason : Reasons \cup {Nothing, "error"}]
States == UNION {[S -> Output] : S \in SUBSET Chunks}

Shape ==
  /\ LoopInv
  /\ run \in 0..MaxRuns /\ (phase # "off" => run # 0)
  /\ phase \in {"off", "assemble", "passes", "export", "review", "drop", "over", "dead"}
  /\ listed \in Seq(Chunks) /\ inputs \in Seq(Chunks)
  /\ outputs \in Seq(Output) /\ Len(outputs) <= Len(inputs)
  /\ results \in Seq(States) /\ Len(results) <= Len(Passes)
  /\ DOMAIN disk \subseteq Files /\ \A f \in DOMAIN disk : disk[f].run \in 1..run
  /\ schema = [exists |-> schema.exists, rows |-> schema.rows]
  /\ schema.exists \in BOOLEAN /\ schema.rows \subseteq Row
  /\ \A row \in schema.rows : row.run <= run

\* The inputs name each chunk once.
Once == \A i, j \in DOMAIN inputs : inputs[i] = inputs[j] => i = j

\* A chunk is being filled only in pass 3, and has stored what its step says.
FillInv ==
  /\ step # "idle" => phase = "passes" /\ Len(results) + 1 = Pass3 /\ ChunksLeft
  /\ step \notin {"grounded", "raised"} => rows = 0
  /\ step = "grounded" => rows = 1
  /\ step = "raised" => rows \in {0, 1}

Alive == phase \in {"passes", "export", "review", "drop"}

\* How many chunks pass 3 has answered for.
Filled == IF Len(results) + 1 < Pass3 THEN 0
          ELSE IF Len(results) + 1 = Pass3 THEN Len(outputs) ELSE Len(inputs)

RowAt(i) == [run |-> run, chunk |-> inputs[i], at |-> <<i, 1>>]

\* This run's rows are of chunks answered for, and of the one at hand once it has
\* stored one.
StoredInv ==
  /\ phase = "assemble" => \A row \in schema.rows : row.run # run
  /\ Alive => \A row \in schema.rows : row.run = run =>
                \E i \in 1 .. Filled + rows : row = RowAt(i)
  /\ rows = 1 => RowAt(Len(outputs) + 1) \in schema.rows

HasRow(k) == \E row \in schema.rows : row.run = run /\ row.chunk = k

\* What pass 3 says of chunk k agrees with the schema.
Tells(out, k) ==
  /\ out.grounded => HasRow(k)
  /\ HasRow(k) /\ ~out.grounded => out.reason = "error"

ToldInv ==
  /\ phase = "assemble" => results = <<>> /\ outputs = <<>>
  /\ Alive /\ Len(results) + 1 = Pass3 =>
       \A i \in DOMAIN outputs : Tells(outputs[i], inputs[i])
  /\ Alive /\ Len(results) >= Pass3 =>
       /\ DOMAIN results[Pass3] = {inputs[i] : i \in DOMAIN inputs}
       /\ \A k \in DOMAIN results[Pass3] : Tells(results[Pass3][k], k)

\* What is on disk at each of the last phases.
Saved(f) == f \in DOMAIN disk /\ disk[f].run = run
DiskInv ==
  /\ phase \in {"export", "review", "drop"} =>
       /\ Len(results) = Len(Passes) /\ Saved("gate")
       /\ disk["gate"].content = {k \in DOMAIN results[Pass3] : results[Pass3][k].grounded}
  /\ phase \in {"review", "drop"} => Saved("records") /\ disk["records"].content = schema.rows
  /\ phase = "drop" => Saved("review")

RunInv == Shape /\ Once /\ FillInv /\ StoredInv /\ ToldInv /\ DiskInv /\ OneRecordPerChunk

-----------------------------------------------------------------------------
(* Lemmas about the operators the pipeline is built from.                    *)

(* The fourth pass fills; the third and the sixth are of the whole state.    *)
LEMMA PassNames ==
  ASSUME NEW n \in 0..6
  PROVE  /\ Passes[n + 1] = "3_fillvalues" <=> n + 1 = Pass3
         /\ Passes[n + 1] \in WholeState => n + 1 # Pass3
         /\ Passes[n + 1] \in Files
<1>1. n \in {0, 1, 2, 3, 4, 5, 6}
  OBVIOUS
<1> QED
  BY <1>1 DEF Passes, WholeState, Pass3, Files, ToSet

LEMMA SevenPasses == Len(Passes) = 7 /\ DOMAIN Passes = 1..7
  BY DEF Passes

(* The state of the fill pass is the fourth.                                 *)
LEMMA FillState == PassState("3_fillvalues") = results[Pass3]
<1> DEFINE P(i) == i \in DOMAIN Passes /\ Passes[i] = "3_fillvalues"
<1>1. \A i \in DOMAIN Passes : Passes[i] = "3_fillvalues" <=> i = Pass3
  <2> SUFFICES ASSUME NEW i \in 1..7 PROVE Passes[i] = "3_fillvalues" <=> i = Pass3
    BY SevenPasses
  <2>1. i - 1 \in 0..6 /\ i - 1 + 1 = i
    OBVIOUS
  <2> QED
    BY <2>1, PassNames
<1>2. Pass3 \in DOMAIN Passes
  BY SevenPasses DEF Pass3
<1> QED
  BY <1>1, <1>2 DEF PassState

(* With each chunk named once a pass's state holds each output, at its chunk.*)
LEMMA StateWorks ==
  ASSUME inputs \in Seq(Chunks), outputs \in Seq(Output), Len(outputs) <= Len(inputs), Once
  PROVE  /\ State \in States
         /\ DOMAIN State = {inputs[i] : i \in DOMAIN outputs}
         /\ \A i \in DOMAIN outputs : State[inputs[i]] = outputs[i]
<1> DEFINE Named == {inputs[i] : i \in DOMAIN outputs}
           Latest(k) == CHOOSE i \in DOMAIN outputs :
                        inputs[i] = k /\ \A j \in DOMAIN outputs : inputs[j] = k => j <= i
<1>1. DOMAIN outputs = 1..Len(outputs) /\ DOMAIN inputs = 1..Len(inputs)
      /\ Len(outputs) \in Nat /\ Len(inputs) \in Nat
  OBVIOUS
<1>2. DOMAIN outputs \subseteq DOMAIN inputs
  BY <1>1
<1>3. ASSUME NEW i \in DOMAIN outputs PROVE Latest(inputs[i]) = i
  <2>1. \A j \in DOMAIN outputs : inputs[j] = inputs[i] => j = i
    BY <1>2 DEF Once
  <2>2. i \in Int
    BY <1>1
  <2> QED
    BY <2>1, <2>2
<1>4. State = [k \in Named |-> outputs[Latest(k)]]
  BY DEF State
<1>5. Named \subseteq Chunks
  BY <1>1, <1>2
<1>6. \A i \in DOMAIN outputs : outputs[i] \in Output
  OBVIOUS
<1>7. \A k \in Named : outputs[Latest(k)] \in Output
  <2> HIDE DEF Latest
  <2>1. \A i \in DOMAIN outputs : outputs[Latest(inputs[i])] \in Output
    BY <1>3, <1>6
  <2> QED
    BY <2>1
<1>8. State \in [Named -> Output]
  <2> HIDE DEF Latest, Named
  <2> QED
    BY <1>4, <1>7
<1>9. \A i \in DOMAIN outputs : State[inputs[i]] = outputs[i]
  <2> SUFFICES ASSUME NEW i \in DOMAIN outputs PROVE State[inputs[i]] = outputs[i]
    OBVIOUS
  <2>1. inputs[i] \in Named
    OBVIOUS
  <2> HIDE DEF Latest, Named
  <2> QED
    BY <1>3, <1>4, <2>1
<1> HIDE DEF Latest
<1> QED
  BY <1>5, <1>8, <1>9 DEF States

(* Writing a file adds it, as of this run, and leaves the others.            *)
LEMMA WrittenWorks ==
  ASSUME NEW file, NEW content, Written(file, content)
  PROVE  /\ DOMAIN disk' = DOMAIN disk \cup {file}
         /\ disk'[file].run = run /\ disk'[file].content = content
         /\ \A f \in DOMAIN disk \ {file} : disk'[f] = disk[f]
BY DEF Written

(* The loop's locals, left alone or gone.                                    *)
LEMMA LoopKept == LoopInv /\ UNCHANGED fillVars => LoopInv'
BY NextLoopInv

LEMMA LoopForgotten == FillForgotten => LoopInv'
BY DEF FillForgotten, LoopInv, FillTypeOK, Numeric, Climbs, Honest

-----------------------------------------------------------------------------
(* One lemma per action.                                                     *)

LEMMA InitRun == Init => RunInv
<1> SUFFICES ASSUME Init PROVE RunInv
  OBVIOUS
<1>1. Shape
  BY InitLoopInv, RunsAssumption, SevenPasses DEF Init, Shape, NoSchema
<1>2. Once /\ FillInv /\ StoredInv /\ ToldInv /\ DiskInv /\ OneRecordPerChunk
  BY DEF Init, FillIdle, Once, FillInv, StoredInv, Alive, ToldInv, DiskInv, OneRecordPerChunk,
         NoSchema
<1> QED
  BY <1>1, <1>2 DEF RunInv

(* A new run has no rows yet.                                                *)
LEMMA StartRun == RunInv /\ Start => RunInv'
<1> SUFFICES ASSUME RunInv, Start PROVE RunInv'
  OBVIOUS
<1>1. Shape'
  <2>1. listed' \in Seq(Chunks)
    BY InputsAssumption DEF Start
  <2>2. run' \in 0..MaxRuns /\ run \in Int /\ run' = run + 1
    BY RunsAssumption DEF RunInv, Shape, Start
  <2>3. \A f \in DOMAIN disk' : disk'[f].run \in 1..run'
    BY <2>2 DEF RunInv, Shape, Start
  <2>4. \A row \in schema'.rows : row.run <= run'
    BY <2>2 DEF RunInv, Shape, Start, Row
  <2>5. inputs' = <<>> /\ outputs' = <<>> /\ results' = <<>>
    BY DEF Start
  <2> QED
    BY <2>1, <2>2, <2>3, <2>4, <2>5, LoopKept, SevenPasses DEF RunInv, Shape, Start
<1>2. \A row \in schema'.rows : row.run # run'
  BY RunsAssumption DEF RunInv, Shape, Start, Row
<1>3. step = "idle"
  BY DEF RunInv, FillInv, Start
<1>4. Once' /\ FillInv'
  BY <1>3 DEF RunInv, Once, FillInv, Start, fillVars
<1>5. StoredInv' /\ ToldInv' /\ DiskInv' /\ OneRecordPerChunk'
  BY <1>2, <1>3 DEF RunInv, FillInv, StoredInv, Alive, ToldInv, DiskInv, OneRecordPerChunk, Start,
                    fillVars
<1> QED
  BY <1>1, <1>4, <1>5 DEF RunInv

(* A chunk that is among the inputs is not added again.                      *)
LEMMA AssembleRun == RunInv /\ Assemble => RunInv'
<1> SUFFICES ASSUME RunInv, Assemble PROVE RunInv'
  OBVIOUS
<1>1. Head(listed) \in Chunks /\ listed' \in Seq(Chunks)
  BY DEF RunInv, Shape, Assemble
<1>2. /\ inputs' \in Seq(Chunks) /\ Len(inputs') >= Len(inputs)
      /\ Once'
  <2>1. CASE Head(listed) \in ToSet(inputs)
    BY <2>1 DEF RunInv, Shape, Once, Assemble
  <2>2. CASE Head(listed) \notin ToSet(inputs)
    <3>1. inputs' = Append(inputs, Head(listed))
      BY <2>2 DEF Assemble
    <3>2. /\ inputs \in Seq(Chunks) /\ Len(inputs) \in Nat /\ DOMAIN inputs = 1..Len(inputs)
      BY DEF RunInv, Shape
    <3>3. /\ inputs' \in Seq(Chunks) /\ Len(inputs') = Len(inputs) + 1
          /\ DOMAIN inputs' = 1 .. Len(inputs) + 1
          /\ \A i \in DOMAIN inputs : inputs'[i] = inputs[i]
          /\ inputs'[Len(inputs) + 1] = Head(listed)
      BY <1>1, <3>1, <3>2
    <3>4. \A i \in DOMAIN inputs : inputs[i] # Head(listed)
      BY <2>2 DEF ToSet
    <3>5. Once'
      BY <3>2, <3>3, <3>4 DEF RunInv, Once
    <3> QED
      BY <3>2, <3>3, <3>5
  <2> QED
    BY <2>1, <2>2
<1>3. Shape'
  <2>1. Len(outputs) \in Nat /\ Len(inputs) \in Nat /\ Len(inputs') \in Nat
    BY <1>2 DEF RunInv, Shape
  <2> QED
    BY <1>1, <1>2, <2>1, LoopKept DEF RunInv, Shape, Assemble
<1>4. step = "idle" /\ rows = 0
  BY DEF RunInv, FillInv, Assemble
<1>5. FillInv' /\ StoredInv' /\ ToldInv' /\ DiskInv' /\ OneRecordPerChunk'
  BY <1>4 DEF RunInv, FillInv, StoredInv, Alive, ToldInv, DiskInv, OneRecordPerChunk, Assemble,
              fillVars
<1> QED
  BY <1>2, <1>3, <1>5 DEF RunInv

(* The numbers that the proofs below count with.                             *)
LEMMA Lengths ==
  ASSUME Shape
  PROVE  /\ Len(inputs) \in Nat /\ Len(outputs) \in Nat /\ Len(results) \in 0..7
         /\ DOMAIN inputs = 1..Len(inputs) /\ DOMAIN outputs = 1..Len(outputs)
         /\ \A i \in DOMAIN inputs : inputs[i] \in Chunks
<1>1. /\ inputs \in Seq(Chunks) /\ outputs \in Seq(Output) /\ results \in Seq(States)
      /\ Len(results) <= Len(Passes)
  BY DEF Shape
<1>2. \A n, m : n \in Nat /\ m = 7 /\ n <= m => n \in 0..7
  OBVIOUS
<1>3. Len(results) \in 0..7
  BY <1>1, <1>2, SevenPasses, LenProperties
<1>4. Len(inputs) \in Nat /\ DOMAIN inputs = 1..Len(inputs)
  BY <1>1
<1>5. Len(outputs) \in Nat /\ DOMAIN outputs = 1..Len(outputs)
  BY <1>1
<1>6. \A i \in DOMAIN inputs : inputs[i] \in Chunks
  BY <1>1
<1> QED
  BY <1>3, <1>4, <1>5, <1>6

LEMMA CreateSchemaRun == RunInv /\ CreateSchema => RunInv'
<1> SUFFICES ASSUME RunInv, CreateSchema PROVE RunInv'
  OBVIOUS
<1>1. schema' = [exists |-> TRUE, rows |-> schema.rows]
  BY DEF RunInv, Shape, CreateSchema
<1>2. Shape'
  BY <1>1, LoopKept DEF RunInv, Shape, CreateSchema
<1>3. step = "idle" /\ rows = 0 /\ results = <<>> /\ outputs = <<>>
  BY DEF RunInv, FillInv, ToldInv, CreateSchema
<1>4. Once' /\ FillInv'
  BY <1>3 DEF RunInv, Once, FillInv, CreateSchema, fillVars
<1>5. StoredInv' /\ ToldInv' /\ DiskInv' /\ OneRecordPerChunk'
  BY <1>1, <1>3 DEF RunInv, StoredInv, ToldInv, DiskInv, OneRecordPerChunk, CreateSchema, fillVars,
                    Pass3
<1> QED
  BY <1>2, <1>4, <1>5 DEF RunInv

(* A pass other than the third says nothing of rows.                         *)
LEMMA PassChunkRun == RunInv /\ PassChunk => RunInv'
<1> SUFFICES ASSUME RunInv, PassChunk PROVE RunInv'
  OBVIOUS
<1>1. Len(results) + 1 # Pass3 /\ Len(results) \in 0..6
  <2>1. Len(results) \in 0..7 /\ Len(results) < Len(Passes)
    BY Lengths DEF RunInv, PassChunk
  <2>2. Len(results) \in 0..6
    <3>1. \A n, m : n \in 0..7 /\ m = 7 /\ n < m => n \in 0..6
      OBVIOUS
    <3> QED
      BY <2>1, <3>1, SevenPasses
  <2> QED
    BY <2>2, PassNames DEF PassChunk, Now
<1>2. step = "idle" /\ rows = 0
  BY <1>1 DEF RunInv, FillInv
<1>3. /\ outputs' \in Seq(Output) /\ Len(outputs') = Len(outputs) + 1
  BY DEF RunInv, Shape, PassChunk, Answered, Output
<1>4. Shape'
  <2>1. Len(outputs') <= Len(inputs')
    BY <1>3, Lengths DEF RunInv, PassChunk, ChunksLeft
  <2> QED
    BY <1>3, <2>1, LoopKept DEF RunInv, Shape, PassChunk
<1>5. Filled' = Filled
  BY <1>1, Lengths DEF RunInv, Filled, PassChunk, Pass3
<1>6. Once' /\ FillInv'
  BY <1>2 DEF RunInv, Once, FillInv, PassChunk, fillVars
<1>7. StoredInv'
  BY <1>2, <1>5 DEF RunInv, StoredInv, Alive, RowAt, PassChunk, fillVars
<1>8. ToldInv' /\ DiskInv' /\ OneRecordPerChunk'
  BY <1>1 DEF RunInv, ToldInv, Alive, Tells, HasRow, DiskInv, OneRecordPerChunk, PassChunk
<1> QED
  BY <1>4, <1>6, <1>7, <1>8 DEF RunInv

LEMMA FillChunkRun == RunInv /\ FillChunk => RunInv'
<1> SUFFICES ASSUME RunInv, FillChunk PROVE RunInv'
  OBVIOUS
<1>1. Len(results) + 1 = Pass3
  <2>1. Len(results) \in 0..7 /\ Len(results) < Len(Passes)
    BY Lengths DEF RunInv, FillChunk
  <2>2. Len(results) \in 0..6
    <3>1. \A n, m : n \in 0..7 /\ m = 7 /\ n < m => n \in 0..6
      OBVIOUS
    <3> QED
      BY <2>1, <3>1, SevenPasses
  <2> QED
    BY <2>2, PassNames DEF FillChunk, Now
<1>2. rows = 0 /\ rows' = 0 /\ step' = "propose"
  BY DEF RunInv, FillInv, FillChunk, FillStart
<1>3. LoopInv'
  BY NextLoopInv DEF RunInv, Shape, FillChunk, FillNext
<1>4. Shape'
  BY <1>3 DEF RunInv, Shape, FillChunk, runVars
<1>5. Once' /\ FillInv'
  BY <1>1, <1>2 DEF RunInv, Once, FillInv, FillChunk, runVars, ChunksLeft
<1>6. StoredInv' /\ ToldInv' /\ DiskInv' /\ OneRecordPerChunk'
  BY <1>2 DEF RunInv, StoredInv, Alive, Filled, RowAt, ToldInv, Tells, HasRow, DiskInv, Saved,
              OneRecordPerChunk, FillChunk, runVars
<1> QED
  BY <1>4, <1>5, <1>6 DEF RunInv

(* A step of the loop stores a row of the chunk at hand, its first, or none. *)
LEMMA FillChunkStepRun == RunInv /\ FillChunkStep => RunInv'
<1> SUFFICES ASSUME RunInv, FillChunkStep PROVE RunInv'
  OBVIOUS
<1> DEFINE n == Len(outputs) + 1
<1>1. step # "idle"
  BY DEF FillChunkStep, FillStep, Propose, Ground, Bounce, FillRaises
<1>2. /\ phase = "passes" /\ Len(results) + 1 = Pass3 /\ n \in DOMAIN inputs /\ n \in Nat
      /\ Len(outputs) \in Nat
  BY <1>1, Lengths DEF RunInv, FillInv, ChunksLeft
<1>3. LoopInv'
  BY NextLoopInv DEF RunInv, Shape, FillChunkStep, FillNext
<1>4. UNCHANGED <<run, phase, listed, inputs, results, outputs, disk>>
  BY DEF FillChunkStep, runVars
<1>5. Once'
  BY <1>4 DEF RunInv, Once
<1>6. \/ rows' = rows
      \/ rows = 0 /\ rows' = 1 /\ step' \in {"grounded", "raised"}
  BY DEF FillChunkStep, FillStep, Propose, Ground, Bounce, FillRaises, RunInv, FillInv
<1>7. FillInv'
  <2>1. step' # "idle" => phase' = "passes" /\ Len(results') + 1 = Pass3 /\ ChunksLeft'
    BY <1>1, <1>4 DEF RunInv, FillInv, ChunksLeft
  <2>2. /\ step' \notin {"grounded", "raised"} => rows' = 0
        /\ step' = "grounded" => rows' = 1
        /\ step' = "raised" => rows' \in {0, 1}
    BY DEF FillChunkStep, FillStep, Propose, Ground, Bounce, FillRaises, RunInv, FillInv
  <2> QED
    BY <2>1, <2>2 DEF FillInv
<1>8. DiskInv'
  BY <1>2, <1>4 DEF DiskInv
<1>9. CASE rows' = rows
  <2>1. schema' = schema
    BY <1>9 DEF FillChunkStep
  <2>2. Shape'
    BY <1>3, <1>4, <2>1 DEF RunInv, Shape
  <2>3. StoredInv' /\ ToldInv' /\ OneRecordPerChunk'
    BY <1>4, <1>9, <2>1 DEF RunInv, StoredInv, Alive, Filled, RowAt, ToldInv, Tells, HasRow,
                            OneRecordPerChunk
  <2> QED
    BY <1>5, <1>7, <1>8, <2>2, <2>3 DEF RunInv
<1>10. CASE rows = 0 /\ rows' = 1
  <2> DEFINE new == RowAt(n)
  <2>1. schema' = [exists |-> schema.exists, rows |-> schema.rows \cup {new}]
    <3>1. schema' = [schema EXCEPT !.rows = @ \cup {[run |-> run, chunk |-> inputs[n],
                                                     at |-> <<n, rows'>>]}]
      BY <1>10 DEF FillChunkStep, Chunk
    <3>2. [run |-> run, chunk |-> inputs[n], at |-> <<n, rows'>>] = new
      BY <1>10 DEF RowAt
    <3>3. schema = [exists |-> schema.exists, rows |-> schema.rows]
      BY DEF RunInv, Shape
    <3> HIDE DEF new
    <3> QED
      BY <3>1, <3>2, <3>3
  <2>2. new \in Row /\ new.run = run /\ new.chunk = inputs[n]
    <3>1. run \in 1..MaxRuns
      BY <1>2 DEF RunInv, Shape
    <3>2. inputs[n] \in Chunks
      BY <1>2, Lengths DEF RunInv
    <3> QED
      BY <1>2, <3>1, <3>2 DEF RowAt, Row
  <2>3. Shape'
    <3> HIDE DEF new
    <3>1. schema'.rows \subseteq Row /\ \A row \in schema'.rows : row.run <= run
      BY <2>1, <2>2 DEF RunInv, Shape
    <3> QED
      BY <1>3, <1>4, <2>1, <3>1 DEF RunInv, Shape
  <2>4. \A row \in schema.rows : row.run = run => row.chunk # inputs[n]
    <3> SUFFICES ASSUME NEW row \in schema.rows, row.run = run PROVE row.chunk # inputs[n]
      OBVIOUS
    <3>1. PICK i \in 1 .. Filled + rows : row = RowAt(i)
      BY <1>2 DEF RunInv, StoredInv, Alive
    <3>2. i \in 1..Len(outputs)
      BY <1>10, <1>2, <3>1 DEF Filled, Pass3
    <3>3. i \in DOMAIN inputs /\ i # n
      BY <1>2, <3>2, Lengths DEF RunInv
    <3> QED
      BY <1>2, <3>1, <3>3 DEF RunInv, Once, RowAt
  <2>5. StoredInv'
    <3>1. Filled' = Filled /\ Filled = Len(outputs)
      BY <1>2, <1>4 DEF Filled, Pass3
    <3>2. \A i : RowAt(i)' = RowAt(i)
      BY <1>4 DEF RowAt
    <3>3. \A row \in schema'.rows : row.run = run => \E i \in 1..n : row = RowAt(i)
      <4> SUFFICES ASSUME NEW row \in schema'.rows, row.run = run
                   PROVE  \E i \in 1..n : row = RowAt(i)
        OBVIOUS
      <4>1. CASE row = new
        BY <4>1, <1>2
      <4>2. CASE row \in schema.rows
        <5>1. PICK i \in 1 .. Filled + rows : row = RowAt(i)
          BY <4>2, <1>2 DEF RunInv, StoredInv, Alive
        <5> QED
          BY <1>10, <1>2, <3>1, <5>1
      <4> QED
        BY <2>1, <4>1, <4>2
    <3>4. new \in schema'.rows
      BY <2>1
    <3> QED
      BY <1>10, <1>2, <1>4, <3>1, <3>2, <3>3, <3>4 DEF StoredInv
  <2>6. ToldInv'
    <3>1. \A i \in DOMAIN outputs : HasRow(inputs[i])' <=> HasRow(inputs[i])
      <4> SUFFICES ASSUME NEW i \in DOMAIN outputs
                   PROVE  HasRow(inputs[i])' <=> HasRow(inputs[i])
        OBVIOUS
      <4>1. inputs[i] # inputs[n]
        BY <1>2, Lengths DEF RunInv, Once
      <4>2. schema'.rows = schema.rows \cup {new}
        BY <2>1
      <4> HIDE DEF new
      <4> QED
        BY <1>4, <2>2, <4>1, <4>2 DEF HasRow
    <3> QED
      BY <1>2, <1>4, <3>1 DEF RunInv, ToldInv, Alive, Tells, Pass3
  <2>7. OneRecordPerChunk'
    <3>1. schema'.rows = schema.rows \cup {new}
      BY <2>1
    <3> HIDE DEF new
    <3> QED
      BY <2>2, <2>4, <3>1 DEF RunInv, OneRecordPerChunk
  <2> QED
    BY <1>5, <1>7, <1>8, <2>3, <2>5, <2>6, <2>7 DEF RunInv
<1> QED
  BY <1>6, <1>9, <1>10

(* What process_chunk returns agrees with what its attempts have stored.     *)
LEMMA FillEndRun == RunInv /\ FillEnd => RunInv'
<1> SUFFICES ASSUME RunInv, FillEnd PROVE RunInv'
  OBVIOUS
<1> DEFINE n == Len(outputs) + 1
<1>1. step \in {"plateau", "given_up", "grounded", "raised"}
  BY DEF FillEnd
<1>2. /\ phase = "passes" /\ Len(results) + 1 = Pass3 /\ n \in DOMAIN inputs /\ n \in Nat
      /\ Len(outputs) \in Nat
  BY <1>1, Lengths DEF RunInv, FillInv, ChunksLeft
<1>3. UNCHANGED <<run, phase, listed, inputs, results, disk, schema>> /\ rows' = 0 /\ step' = "idle"
  BY DEF FillEnd, FillForgotten
<1>4. FillOutput \in Output
  BY <1>1 DEF FillOutput, Output, RunInv, Shape, LoopInv, FillTypeOK
<1>5. /\ outputs' \in Seq(Output) /\ Len(outputs') = n
      /\ DOMAIN outputs' = 1..n
      /\ \A i \in DOMAIN outputs : outputs'[i] = outputs[i]
      /\ outputs'[n] = FillOutput
  <2>1. outputs \in Seq(Output) /\ outputs' = Append(outputs, FillOutput)
    BY DEF RunInv, Shape, FillEnd, Answered
  <2> QED
    BY <1>4, <2>1
<1>6. Shape'
  <2>1. LoopInv'
    BY LoopForgotten DEF FillEnd
  <2>2. Len(outputs') <= Len(inputs')
    BY <1>2, <1>3, <1>5, Lengths DEF RunInv
  <2> QED
    BY <1>3, <1>5, <2>1, <2>2 DEF RunInv, Shape
<1>7. Once' /\ FillInv' /\ DiskInv' /\ OneRecordPerChunk'
  BY <1>2, <1>3 DEF RunInv, Once, FillInv, DiskInv, OneRecordPerChunk
<1>8. Filled = Len(outputs) /\ Filled' = n
  BY <1>2, <1>3, <1>5 DEF Filled, Pass3
<1>9. rows \in {0, 1}
  BY <1>1 DEF RunInv, FillInv
<1>10. \A row \in schema.rows : row.run = run => \E i \in 1 .. Len(outputs) + rows : row = RowAt(i)
  BY <1>2, <1>8 DEF RunInv, StoredInv, Alive
<1>11. StoredInv'
  <2>1. \A i : RowAt(i)' = RowAt(i)
    BY <1>3 DEF RowAt
  <2>2. 1 .. Len(outputs) + rows \subseteq 1..n
    BY <1>2, <1>9
  <2> QED
    BY <1>2, <1>3, <1>8, <1>10, <2>1, <2>2 DEF StoredInv
<1>12. Tells(FillOutput, inputs[n])
  <2>1. FillOutput.grounded => HasRow(inputs[n])
    <3> SUFFICES ASSUME step = "grounded" PROVE HasRow(inputs[n])
      BY DEF FillOutput
    <3>1. RowAt(n) \in schema.rows
      BY DEF RunInv, FillInv, StoredInv
    <3> QED
      BY <3>1 DEF HasRow, RowAt
  <2>2. ASSUME HasRow(inputs[n]), ~FillOutput.grounded PROVE FillOutput.reason = "error"
    <3>1. PICK row \in schema.rows : row.run = run /\ row.chunk = inputs[n]
      BY <2>2 DEF HasRow
    <3>2. PICK i \in 1 .. Len(outputs) + rows : row = RowAt(i)
      BY <3>1, <1>10
    <3>3. inputs[i] = inputs[n] /\ i \in 1..n
      BY <1>2, <1>9, <3>1, <3>2 DEF RowAt
    <3>4. i = n
      BY <1>2, <3>3, Lengths DEF RunInv, Once
    <3>5. rows # 0
      BY <1>2, <3>2, <3>4
    <3>6. step = "raised"
      BY <1>1, <2>2, <3>5 DEF FillOutput, RunInv, FillInv
    <3> QED
      BY <3>6 DEF FillOutput
  <2> QED
    BY <2>1, <2>2 DEF Tells
<1>13. ToldInv'
  <2>1. \A out, k : Tells(out, k)' <=> Tells(out, k)
    BY <1>3 DEF Tells, HasRow
  <2>2. \A i \in 1..n : Tells(outputs'[i], inputs[i])
    <3> SUFFICES ASSUME NEW i \in 1..n PROVE Tells(outputs'[i], inputs[i])
      OBVIOUS
    <3>1. CASE i = n
      BY <3>1, <1>5, <1>12
    <3>2. CASE i \in DOMAIN outputs
      BY <3>2, <1>2, <1>5 DEF RunInv, ToldInv, Alive
    <3>3. i = n \/ i \in DOMAIN outputs
      BY <1>2, Lengths DEF RunInv
    <3> QED
      BY <3>1, <3>2, <3>3
  <2>3. Len(results) < Pass3 /\ phase # "assemble"
    BY <1>2 DEF Pass3
  <2> HIDE DEF n
  <2> QED
    BY <1>3, <1>5, <2>1, <2>2, <2>3 DEF ToldInv, Pass3
<1> QED
  BY <1>6, <1>7, <1>11, <1>13 DEF RunInv

(* The state of the third pass tells of every chunk; the others' of none.    *)
LEMMA PassEndRun == RunInv /\ PassEnd => RunInv'
<1> SUFFICES ASSUME RunInv, PassEnd PROVE RunInv'
  OBVIOUS
<1> DEFINE n == Len(results) + 1
<1>1. /\ phase = "passes" /\ step = "idle" /\ outputs' = <<>>
      /\ UNCHANGED <<fillVars, run, phase, listed, inputs, schema>>
  BY DEF PassEnd
<1>2. Len(results) \in 0..6 /\ n \in 1..7
  <2>1. Len(results) \in 0..7 /\ Len(results) < Len(Passes)
    BY Lengths DEF RunInv, PassEnd
  <2>2. \A m, k : m \in 0..7 /\ k = 7 /\ m < k => m \in 0..6 /\ m + 1 \in 1..7
    OBVIOUS
  <2> QED
    BY <2>1, <2>2, SevenPasses
<1>3. /\ State \in States /\ DOMAIN State = {inputs[i] : i \in DOMAIN outputs}
      /\ \A i \in DOMAIN outputs : State[inputs[i]] = outputs[i]
  BY StateWorks DEF RunInv, Shape
<1>4. /\ results' \in Seq(States) /\ Len(results') = n
      /\ \A i \in 1..Len(results) : results'[i] = results[i]
      /\ results'[n] = State
  <2>1. results \in Seq(States) /\ results' = Append(results, State)
    BY DEF RunInv, Shape, PassEnd
  <2> QED
    BY <1>3, <2>1
<1>5. Shape'
  <2>1. LoopInv'
    BY <1>1, LoopKept DEF RunInv, Shape
  <2>2. Len(results') <= Len(Passes)
    <3>1. \A m, k : m \in 1..7 /\ k = 7 => m <= k
      OBVIOUS
    <3> QED
      BY <1>2, <1>4, <3>1, SevenPasses
  <2>3. outputs' \in Seq(Output) /\ Len(outputs') <= Len(inputs')
    BY <1>1, Lengths DEF RunInv
  <2>4. Now \in Files
    BY <1>2, PassNames DEF Now
  <2>5. DOMAIN disk' \subseteq Files /\ \A f \in DOMAIN disk' : disk'[f].run \in 1..run
    <3>1. run \in 1..run
      BY <1>1, RunsAssumption DEF RunInv, Shape
    <3>2. /\ DOMAIN disk' = DOMAIN disk \cup {Now} /\ disk'[Now].run = run
          /\ \A f \in DOMAIN disk \ {Now} : disk'[f] = disk[f]
      BY WrittenWorks DEF PassEnd
    <3> QED
      BY <2>4, <3>1, <3>2 DEF RunInv, Shape
  <2> QED
    BY <1>1, <1>4, <2>1, <2>2, <2>3, <2>5 DEF RunInv, Shape
<1>6. rows = 0 /\ rows' = 0 /\ step' = "idle"
  BY <1>1 DEF RunInv, FillInv, fillVars
<1>7. Once' /\ FillInv' /\ DiskInv' /\ OneRecordPerChunk'
  BY <1>1, <1>6 DEF RunInv, Once, FillInv, DiskInv, OneRecordPerChunk
<1>8. n = Pass3 => Len(outputs) = Len(inputs) /\ DOMAIN outputs = DOMAIN inputs
  <2> SUFFICES ASSUME n = Pass3
               PROVE  Len(outputs) = Len(inputs) /\ DOMAIN outputs = DOMAIN inputs
    OBVIOUS
  <2>1. Now \notin WholeState
    BY <1>2, PassNames DEF Now
  <2>2. ~(Len(outputs) < Len(inputs))
    BY <2>1 DEF PassEnd, ChunksLeft
  <2>3. Len(outputs) <= Len(inputs)
    BY DEF RunInv, Shape
  <2>4. \A a, b \in Nat : ~(a < b) /\ a <= b => a = b
    OBVIOUS
  <2>5. Len(outputs) = Len(inputs)
    BY <2>2, <2>3, <2>4, Lengths DEF RunInv
  <2> QED
    BY <2>5, Lengths DEF RunInv
<1>9. Filled' = Filled
  <2>1. Len(outputs') = 0 /\ Len(inputs') = Len(inputs) /\ Len(results') = n
    BY <1>1, <1>4
  <2>2. CASE n < Pass3
    BY <1>2, <2>1, <2>2 DEF Filled, Pass3
  <2>3. CASE n = Pass3
    BY <1>2, <1>8, <2>1, <2>3 DEF Filled, Pass3
  <2>4. CASE n > Pass3
    BY <1>2, <2>1, <2>4 DEF Filled, Pass3
  <2> QED
    BY <1>2, <2>2, <2>3, <2>4 DEF Pass3
<1>10. StoredInv'
  <2>1. \A i : RowAt(i)' = RowAt(i)
    BY <1>1 DEF RowAt
  <2> QED
    BY <1>1, <1>6, <1>9, <2>1 DEF RunInv, StoredInv, Alive
<1>11. ToldInv'
  <2>1. \A out, k : Tells(out, k)' <=> Tells(out, k)
    BY <1>1 DEF Tells, HasRow
  <2>2. CASE n < Pass3
    BY <1>1, <1>2, <1>4, <2>2 DEF ToldInv, Pass3
  <2>3. CASE n = Pass3
    <3>1. results'[Pass3] = State /\ Len(results') + 1 # Pass3
      BY <1>2, <1>4, <2>3
    <3>2. DOMAIN State = {inputs[i] : i \in DOMAIN inputs}
      BY <1>3, <1>8, <2>3
    <3>3. \A i \in DOMAIN outputs : Tells(outputs[i], inputs[i])
      BY <1>1, <2>3 DEF RunInv, ToldInv, Alive
    <3>4. \A k \in DOMAIN State : Tells(State[k], k)
      BY <1>3, <3>3
    <3> QED
      BY <1>1, <2>1, <3>1, <3>2, <3>4 DEF ToldInv
  <2>4. CASE n > Pass3
    <3>1. Pass3 \in 1..Len(results) /\ Len(results) >= Pass3 /\ Len(results') + 1 # Pass3
      BY <1>2, <1>4, <2>4 DEF Pass3
    <3>2. results'[Pass3] = results[Pass3]
      BY <1>4, <3>1
    <3> QED
      BY <1>1, <2>1, <3>1, <3>2 DEF RunInv, ToldInv, Alive
  <2>5. n < Pass3 \/ n = Pass3 \/ n > Pass3
    BY <1>2 DEF Pass3
  <2> QED
    BY <2>2, <2>3, <2>4, <2>5
<1> QED
  BY <1>5, <1>7, <1>10, <1>11 DEF RunInv

(* The last steps write the files and leave the run as it is.                *)
LEMMA Aftermath ==
  ASSUME RunInv, NEW file \in {"gate", "records", "review"}, NEW content, Written(file, content),
         phase \in {"passes", "export", "review"}, phase' \in {"export", "review", "drop"},
         UNCHANGED <<fillVars, run, listed, inputs, results, outputs, schema>>,
         phase = "passes" => Len(results) = Len(Passes)
  PROVE  Shape' /\ Once' /\ FillInv' /\ StoredInv' /\ ToldInv' /\ OneRecordPerChunk'
<1>1. step = "idle"
  <2>1. phase = "passes" => Len(results) = 7
    BY SevenPasses
  <2> QED
    BY <2>1 DEF RunInv, FillInv, Pass3
<1>2. Shape'
  <2>1. LoopInv'
    BY LoopKept DEF RunInv, Shape
  <2>2. file \in Files /\ run \in 1..run
    BY RunsAssumption DEF Files, RunInv, Shape
  <2>3. DOMAIN disk' \subseteq Files /\ \A f \in DOMAIN disk' : disk'[f].run \in 1..run
    <3>1. /\ DOMAIN disk' = DOMAIN disk \cup {file} /\ disk'[file].run = run
          /\ \A f \in DOMAIN disk \ {file} : disk'[f] = disk[f]
      BY WrittenWorks
    <3> QED
      BY <2>2, <3>1 DEF RunInv, Shape
  <2> QED
    BY <2>1, <2>3 DEF RunInv, Shape
<1>3. Once' /\ FillInv' /\ OneRecordPerChunk'
  BY <1>1 DEF RunInv, Once, FillInv, OneRecordPerChunk, fillVars
<1>4. StoredInv'
  BY DEF RunInv, StoredInv, Alive, Filled, RowAt, fillVars
<1>5. ToldInv'
  BY DEF RunInv, ToldInv, Alive, Tells, HasRow
<1> QED
  BY <1>2, <1>3, <1>4, <1>5

LEMMA ReadGateRun == RunInv /\ ReadGate => RunInv'
<1> SUFFICES ASSUME RunInv, ReadGate PROVE RunInv'
  OBVIOUS
<1> DEFINE counted == {k \in DOMAIN results[Pass3] : results[Pass3][k].grounded}
<1>1. Written("gate", counted)
  BY FillState DEF ReadGate
<1>2. /\ phase = "passes" /\ Len(results) = Len(Passes) /\ phase' = "export"
      /\ UNCHANGED <<fillVars, run, listed, inputs, results, outputs, schema>>
  BY DEF ReadGate
<1>3. "gate" \in DOMAIN disk' /\ disk'["gate"].run = run /\ disk'["gate"].content = counted
  <2> HIDE DEF counted
  <2> QED
    BY <1>1 DEF Written
<1>4. DiskInv'
  BY <1>2, <1>3 DEF DiskInv, Saved
<1> QED
  BY <1>1, <1>2, <1>4, Aftermath DEF RunInv

LEMMA ExportRun == RunInv /\ Export => RunInv'
<1> SUFFICES ASSUME RunInv, Export PROVE RunInv'
  OBVIOUS
<1>1. Written("records", schema.rows)
  BY DEF Export
<1>2. /\ phase = "export" /\ phase' = "review"
      /\ UNCHANGED <<fillVars, run, listed, inputs, results, outputs, schema>>
  BY DEF Export
<1>3. /\ DOMAIN disk' = DOMAIN disk \cup {"records"}
      /\ disk'["records"].run = run /\ disk'["records"].content = schema.rows
      /\ \A f \in DOMAIN disk \ {"records"} : disk'[f] = disk[f]
  BY <1>1, WrittenWorks
<1>4. DiskInv'
  BY <1>2, <1>3 DEF RunInv, DiskInv, Saved
<1> QED
  BY <1>1, <1>2, <1>4, Aftermath DEF RunInv

LEMMA ReviewRun == RunInv /\ Review => RunInv'
<1> SUFFICES ASSUME RunInv, Review PROVE RunInv'
  OBVIOUS
<1>1. Written("review", {})
  BY DEF Review
<1>2. /\ phase = "review" /\ phase' = "drop"
      /\ UNCHANGED <<fillVars, run, listed, inputs, results, outputs, schema>>
  BY DEF Review
<1>3. /\ DOMAIN disk' = DOMAIN disk \cup {"review"}
      /\ disk'["review"].run = run /\ disk'["review"].content = {}
      /\ \A f \in DOMAIN disk \ {"review"} : disk'[f] = disk[f]
  BY <1>1, WrittenWorks
<1>4. DiskInv'
  BY <1>2, <1>3 DEF RunInv, DiskInv, Saved
<1> QED
  BY <1>1, <1>2, <1>4, Aftermath DEF RunInv

LEMMA DropRun == RunInv /\ Drop => RunInv'
<1> SUFFICES ASSUME RunInv, Drop PROVE RunInv'
  OBVIOUS
<1>1. schema' = schema \/ schema' = [exists |-> FALSE, rows |-> {}]
  BY DEF Drop, NoSchema
<1>2. /\ phase = "drop" /\ phase' = "over"
      /\ UNCHANGED <<fillVars, run, listed, inputs, results, outputs, disk>>
  BY DEF Drop
<1>3. step = "idle" /\ rows = 0
  BY <1>2 DEF RunInv, FillInv
<1>4. Shape'
  <2>1. LoopInv'
    BY <1>2, LoopKept DEF RunInv, Shape
  <2>2. CASE schema' = schema
    BY <1>2, <2>1, <2>2 DEF RunInv, Shape
  <2>3. CASE schema' = [exists |-> FALSE, rows |-> {}]
    <3>1. schema'.exists = FALSE /\ schema'.rows = {}
      BY <2>3
    <3> QED
      BY <1>2, <2>1, <2>3, <3>1 DEF RunInv, Shape
  <2> QED
    BY <1>1, <2>2, <2>3
<1>5. Once' /\ FillInv' /\ StoredInv' /\ ToldInv' /\ DiskInv'
  BY <1>2, <1>3 DEF RunInv, Once, FillInv, StoredInv, Alive, ToldInv, DiskInv, fillVars
<1>6. OneRecordPerChunk'
  BY <1>1 DEF RunInv, OneRecordPerChunk
<1> QED
  BY <1>4, <1>5, <1>6 DEF RunInv

LEMMA DieRun == RunInv /\ Die => RunInv'
<1> SUFFICES ASSUME RunInv, Die PROVE RunInv'
  OBVIOUS
<1>1. /\ phase # "off" /\ phase' = "dead" /\ step' = "idle" /\ rows' = 0
      /\ UNCHANGED <<run, listed, inputs, results, outputs, disk, schema>>
  BY DEF Die, FillForgotten
<1>2. Shape'
  BY <1>1, LoopForgotten DEF RunInv, Shape, Die
<1>3. Once' /\ FillInv' /\ StoredInv' /\ ToldInv' /\ DiskInv' /\ OneRecordPerChunk'
  BY <1>1 DEF RunInv, Once, FillInv, StoredInv, Alive, ToldInv, DiskInv, OneRecordPerChunk
<1> QED
  BY <1>2, <1>3 DEF RunInv

LEMMA NextRun == RunInv /\ [Next]_vars => RunInv'
<1> SUFFICES ASSUME RunInv, [Next]_vars PROVE RunInv'
  OBVIOUS
<1>1. CASE UNCHANGED vars
  <2>1. LoopInv'
    BY <1>1, LoopKept DEF RunInv, Shape, vars
  <2>2. Shape'
    BY <1>1, <2>1 DEF RunInv, Shape, vars, runVars
  <2>3. Once' /\ FillInv' /\ StoredInv' /\ ToldInv' /\ DiskInv' /\ OneRecordPerChunk'
    BY <1>1 DEF RunInv, vars, runVars, fillVars, Once, FillInv, StoredInv, Alive, Filled, RowAt,
                ToldInv, Tells, HasRow, DiskInv, Saved, OneRecordPerChunk, ChunksLeft
  <2> QED
    BY <2>2, <2>3 DEF RunInv
<1> QED
  BY <1>1, StartRun, AssembleRun, CreateSchemaRun, PassChunkRun, FillChunkRun, FillChunkStepRun,
     FillEndRun, PassEndRun, ReadGateRun, ExportRun, ReviewRun, DropRun, DieRun DEF Next, Work

-----------------------------------------------------------------------------
(* The invariant holds in every state, whatever is killed and started again. *)
THEOREM RunInvHolds == Spec => []RunInv
BY InitRun, NextRun, PTL DEF Spec

(* The shape of the pipeline's state.                                        *)
THEOREM TypesHold == Spec => []TypeOK
<1>1. RunInv => TypeOK
  BY DEF RunInv, Shape, LoopInv, TypeOK
<1> QED
  BY <1>1, RunInvHolds, PTL

(* The fill loop is as bounded, and its best as good, in the pipeline as on  *)
(* its own.                                                                  *)
THEOREM LoopsAreBounded == Spec => [](AttemptsBounded /\ BestIsNearlyBest)
<1>1. RunInv => AttemptsBounded /\ BestIsNearlyBest
  BY Bounded, Near DEF RunInv, Shape
<1> QED
  BY <1>1, RunInvHolds, PTL

(* assemble_inputs names each chunk once and the fill loop goes no further   *)
(* than a record that is in: a run stores at most one record for a chunk.    *)
THEOREM OneRecordEach == Spec => []OneRecordPerChunk
<1>1. RunInv => OneRecordPerChunk
  BY DEF RunInv
<1> QED
  BY <1>1, RunInvHolds, PTL

(* read_gate counts what this run stored, and misses only a record whose     *)
(* call raised after the commit.                                             *)
THEOREM GateAgrees == Spec => []GateAgreesWithSchema
<1>1. RunInv => GateAgreesWithSchema
  <2> SUFFICES ASSUME RunInv, phase \in {"export", "review", "drop"}
               PROVE  LET stored  == {row.chunk : row \in {r \in schema.rows : r.run = run}}
                          counted == disk["gate"].content
                          out     == PassState("3_fillvalues")
                      IN  /\ counted \subseteq stored
                          /\ \A k \in stored \ counted : out[k].reason = "error"
    BY DEF GateAgreesWithSchema
  <2> DEFINE stored == {row.chunk : row \in {r \in schema.rows : r.run = run}}
             counted == disk["gate"].content
             out == results[Pass3]
  <2>1. counted = {k \in DOMAIN out : out[k].grounded} /\ Len(results) = 7
    BY SevenPasses DEF RunInv, DiskInv
  <2>2. /\ DOMAIN out = {inputs[i] : i \in DOMAIN inputs}
        /\ \A k \in DOMAIN out : Tells(out[k], k)
    BY <2>1 DEF RunInv, ToldInv, Alive, Pass3
  <2>3. \A k : k \in stored <=> HasRow(k)
    BY DEF HasRow
  <2>4. stored \subseteq DOMAIN out
    <3> SUFFICES ASSUME NEW row \in schema.rows, row.run = run PROVE row.chunk \in DOMAIN out
      OBVIOUS
    <3>1. PICK i \in 1 .. Filled + rows : row = RowAt(i)
      BY DEF RunInv, StoredInv, Alive
    <3>2. rows = 0 /\ Filled = Len(inputs)
      BY <2>1 DEF RunInv, FillInv, Filled, Pass3
    <3>3. i \in DOMAIN inputs
      BY <3>1, <3>2, Lengths DEF RunInv
    <3> QED
      BY <2>2, <3>1, <3>3 DEF RowAt
  <2>5. counted \subseteq stored
    BY <2>1, <2>2, <2>3 DEF Tells
  <2>6. \A k \in stored \ counted : out[k].reason = "error"
    BY <2>1, <2>2, <2>3, <2>4 DEF Tells
  <2> QED
    BY <2>5, <2>6, FillState
<1> QED
  BY <1>1, RunInvHolds, PTL

(* scored_and_exported (cli.py): a schema that goes has been exported, every *)
(* row of it, by the run that drops it, with its gate and its review.        *)
THEOREM NoneDroppedUnscored == Spec => NeverDroppedUnscored
<1> DEFINE Step ==
      schema.exists /\ ~schema'.exists =>
        /\ \A f \in {"gate", "records", "review"} : f \in DOMAIN disk /\ disk[f].run = run
        /\ disk["records"].content = schema.rows
<1>1. RunInv /\ [Next]_vars => [Step]_vars
  <2> SUFFICES ASSUME RunInv, Next, schema.exists, ~schema'.exists PROVE Step
    BY DEF vars
  <2>1. schema' # schema
    OBVIOUS
  <2>2. ~FillChunkStep
    <3> SUFFICES ASSUME FillChunkStep PROVE schema'.exists
      OBVIOUS
    <3>1. schema = [exists |-> schema.exists, rows |-> schema.rows]
      BY DEF RunInv, Shape
    <3> QED
      BY <3>1, <2>1 DEF FillChunkStep
  <2>3. ~CreateSchema
    BY DEF CreateSchema, RunInv, Shape
  <2>4. Drop
    BY <2>1, <2>2, <2>3 DEF Next, Work, Start, Assemble, PassChunk, FillChunk, FillEnd, PassEnd,
                            ReadGate, Export, Review, Die
  <2> QED
    BY <2>4 DEF Drop, RunInv, DiskInv, Saved
<1> QED
  BY <1>1, RunInvHolds, PTL DEF Spec, NeverDroppedUnscored

=============================================================================
