------------------------------- MODULE MCLinks -------------------------------
(* An instance of LinkEvents.  Records 1 and 2 come from chunk k1, record 4  *)
(* from k2; name 3, where there is one, is a second spelling of record 1.   *)
EXTENDS LinkEvents, TLC

CONSTANTS k1, k2

Spelled == [n \in Names |-> IF n = 3 THEN 1 ELSE n]
Sources == [r \in Records |-> IF r = 4 THEN k2 ELSE k1]
AllTexts == Chunks \X Versions

\* Version 1 of k1 moves the sentence the offsets pointed at, that of k2 leaves blanks.
Sliced ==
  [t \in AllTexts |->
     [o \in Offsets |-> CASE t = <<k1, 0>> -> "approval"
                          [] t = <<k1, 1>> -> "other"
                          [] t = <<k2, 0>> -> "reversal"
                          [] OTHER         -> "blank"]]

\* Only the untouched sentences state anything about their records.
Stated == Relations \X {"approval"} \X {"approval", "reversal"}
            \cup Relations \X {"reversal"} \X {"approval"}

\* What a later step may read, or an invariant tell apart: of a call past the gate,
\* the Link it is about to store only by whether the evidence properties hold of it;
\* of the Links, the pairs they connect.
Passed(c) == stage[c] \in {"event", "insert"}
Behaviour ==
  <<corpus, stage, born, members, mergedInto, pc, job, returned, calls, faults, Judged,
    [c \in Callers |->
       CASE Passed(c) /\ call[c].relation = "same_event" ->
              <<call[c].a, call[c].b, work[c].event, Supported(NewLink(c)), Coherent(NewLink(c))>>
         [] Passed(c) /\ call[c].relation # "same_event" ->
              <<RecordOf[call[c].a] = RecordOf[call[c].b], Supported(NewLink(c)), Coherent(NewLink(c))>>
         [] OTHER -> <<call[c], work[c]>>],
    FactLinksAreSupported, LinkAttestationsAreCoherent>>

\* A third materialize call only where all calls are same_event and nothing goes
\* wrong; within two, anything.
Scope ==
  \/ calls + faults <= 2
  \/ faults = 0 /\ \A c \in Callers : call[c] # None => call[c].relation = "same_event"

Twins == Permutations(Callers)

=============================================================================
