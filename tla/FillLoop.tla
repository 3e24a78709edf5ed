------------------------------ MODULE FillLoop ------------------------------
(***************************************************************************)
(* Pass 3 for one chunk (multipass/passes/pass3_fillvalues.py): propose,   *)
(* let ConfidencePlateau (multipass/confidence.py) decide whether to go on,*)
(* ground the proposal (multipass/fill_wiring.py), retry with the judge's  *)
(* feedback.  Confidences are in units of 1/Scale; parse_fill passes on    *)
(* any float, so they may be out of 0..Scale, or NaN.                      *)
(***************************************************************************)
EXTENDS Integers, Sequences

CONSTANTS
  Confidences,   \* what a model may report
  NaN,           \* json.loads reads it, and no comparison with it is true
  Scale,         \* the confidence 1.0
  Epsilon,       \* ConfidencePlateau.epsilon
  MaxAttempts,   \* Pass3FillValues.max_attempts
  Reasons,       \* why ground may turn a proposal down
  Nothing        \* None

ASSUME ConfidencesAssumption == Confidences \subseteq Int \cup {NaN} /\ NaN \notin Int
ASSUME ScaleAssumption == Scale \in Nat /\ Epsilon \in Nat \ {0} /\ MaxAttempts \in Nat \ {0}
ASSUME ReasonsAssumption == Nothing \notin Reasons /\ Nothing \notin Int \cup {NaN}

VARIABLES
  step,         \* where the loop stands
  trajectory,   \* the confidence of each attempt so far
  best,         \* the plateau's running maximum
  feedback,     \* what the last proposal was turned down for, if it was
  rows          \* records this chunk's attempts have stored

fillVars == <<step, trajectory, best, feedback, rows>>

FillTypeOK ==
  /\ step \in {"idle", "propose", "ground", "plateau", "given_up", "grounded", "raised"}
  /\ trajectory \in Seq(Confidences)
  /\ best \in Confidences \cup {Nothing}
  /\ feedback \in Reasons \cup {Nothing}
  /\ rows \in Nat

\* No chunk is being filled.
FillIdle ==
  /\ step = "idle"
  /\ trajectory = <<>>
  /\ best = Nothing
  /\ feedback = Nothing
  /\ rows = 0

\* process_chunk is entered with fresh locals.
FillStart ==
  /\ step' = "propose"
  /\ trajectory' = <<>>
  /\ best' = Nothing
  /\ feedback' = Nothing
  /\ rows' = 0

\* Mutant: no epsilon, an equal confidence goes on.
FallsBack(conf) == conf # NaN /\ best # NaN /\ conf < best

\* conf < best + epsilon, as floats compare.
FallsShort(conf) == conf # NaN /\ best # NaN /\ conf < best + Epsilon

\* ConfidencePlateau.record: a retry that does not beat the best by epsilon.
Plateaued(conf) == trajectory # <<>> /\ FallsShort(conf)

\* Mutant: the first attempt stays the best.
FirstIsBest(conf) == IF best = Nothing THEN conf ELSE best

\* max(best, conf): the first argument unless the second is greater.
Better(conf) ==
  IF best = Nothing \/ (best # NaN /\ conf # NaN /\ conf > best) THEN conf ELSE best

\* The model proposes, and the plateau has the first word.
Propose ==
  /\ step = "propose"
  /\ \E conf \in Confidences :
       /\ trajectory' = Append(trajectory, conf)
       /\ IF Plateaued(conf)
          THEN step' = "plateau" /\ UNCHANGED best
          ELSE step' = "ground" /\ best' = Better(conf)
  /\ UNCHANGED <<feedback, rows>>

\* write refuses a payload whose confidence is not in [0, 1].
Admissible(conf) == conf # NaN /\ conf \in 0..Scale

\* Mutant: the loop goes round again although the record is in.
GroundAndGoOn ==
  /\ step = "ground"
  /\ Admissible(trajectory[Len(trajectory)])
  /\ rows' = rows + 1
  /\ step' = IF Len(trajectory) < MaxAttempts THEN "propose" ELSE "grounded"
  /\ UNCHANGED <<trajectory, best, feedback>>

\* ground answers ok: write has stored the record.
Ground ==
  /\ step = "ground"
  /\ Admissible(trajectory[Len(trajectory)])
  /\ rows' = rows + 1
  /\ step' = "grounded"
  /\ UNCHANGED <<trajectory, best, feedback>>

\* The quote is not found, or write turns the proposal down; range() may be used up.
Bounce ==
  /\ step = "ground"
  /\ feedback' \in Reasons
  /\ step' = IF Len(trajectory) < MaxAttempts THEN "propose" ELSE "given_up"
  /\ UNCHANGED <<trajectory, best, rows>>

\* An exception escapes propose or ground; of a store whose acknowledgement is
\* lost, the record is in all the same.
FillRaises ==
  /\ \/ step \in {"propose", "ground"} /\ UNCHANGED rows
     \/ /\ step = "ground"
        /\ Admissible(trajectory[Len(trajectory)])
        /\ rows' = rows + 1
  /\ step' = "raised"
  /\ UNCHANGED <<trajectory, best, feedback>>

FillStep == Propose \/ Ground \/ Bounce \/ FillRaises

\* The loop on its own.
FillNext == (step = "idle" /\ FillStart) \/ FillStep

FillSpec == FillIdle /\ [][FillNext]_fillVars

-----------------------------------------------------------------------------
Honest == \A i \in DOMAIN trajectory : trajectory[i] \in 0..Scale

(* The bound emerges from epsilon (confidence.py): with confidences that   *)
(* are in [0, 1] at most 1/epsilon retries go on, and one more plateaus;   *)
(* with any others, NaN included, the attempt cap holds.                   *)
AttemptsBounded ==
  /\ Len(trajectory) <= MaxAttempts
  /\ Honest => (Len(trajectory) - 2) * Epsilon <= Scale

(* The confidence reported as best falls short of no attempt by epsilon or *)
(* more, although the attempt that plateaus is not counted in.             *)
BestIsNearlyBest ==
  (\A i \in DOMAIN trajectory : trajectory[i] # NaN) =>
    \A i \in DOMAIN trajectory : trajectory[i] < best + Epsilon

=============================================================================
