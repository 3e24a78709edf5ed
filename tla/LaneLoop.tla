------------------------------- MODULE LaneLoop -------------------------------
(***************************************************************************)
(* src/probe/probe_loop.sh: for each candidate profile rewrite lane.env on *)
(* the swap host and cycle the lane, check that the profile took, wait for *)
(* /health, run the probe (src/probe/run.sh); on EXIT restore the default. *)
(*                                                                         *)
(* The probe runs of one candidate, Followed, are those of Probe; the run  *)
(* of another candidate is one step.  Everything on the swap host goes     *)
(* over ssh, which may fail, or hang: the script gives neither ssh nor     *)
(* curl a time limit.  lane.env may be read-only to the loop's user; a     *)
(* model may crash, or never load.  Ctrl-C reaches the loop and its probe; *)
(* a kill ends both where they stand.  Assumed: one operator at a time     *)
(* works on the lane (the BATON of notes/engineer-handoff-2026-06-17.md),  *)
(* no remote command outlives its ssh, and `lane up` loads the profile     *)
(* lane.env names, or fails.                                               *)
(***************************************************************************)
EXTENDS Probe

CONSTANTS
  Candidates,   \* the profiles to audition, a sequence
  Followed,     \* the one whose probe runs are looked at
  Default,      \* PROBE_DEFAULT_PROFILE
  MaxLoops      \* bound: how often the operator starts the loop

ASSUME CandidatesAssumption == IsInjective(Candidates) /\ Followed \in ToSet(Candidates)
ASSUME LoopsAssumption == MaxLoops \in Nat

VARIABLES
  env,       \* the PROFILE of lane.env
  writable,  \* whether the loop's user may write it
  serving,   \* the model on the lane
  health,    \* "down", "loading" or "ready"
  loop,      \* where the loop stands
  cand,      \* the position of the candidate at hand
  loops,     \* how often it was started
  said,      \* its last word on the restore
  hung,      \* whether it waits for an ssh that does not return
  authors    \* history: <<run, model>> of every answer a probe run used

probeVars == vars
laneVars == <<env, serving, health>>
loopVars == <<loop, cand, loops, said, hung>>
allVars == <<probeVars, laneVars, writable, loopVars, authors>>

Profiles == ToSet(Candidates) \cup {Default}

LaneInit ==
  /\ Init
  /\ env \in Profiles
  /\ writable \in BOOLEAN
  /\ serving = env
  /\ health = "ready"
  /\ loop = "off"
  /\ cand = 1
  /\ loops = 0
  /\ said = "nothing"
  /\ hung = FALSE
  /\ authors = {}

-----------------------------------------------------------------------------
StartLoop ==
  /\ loop = "off"
  /\ loops < MaxLoops
  /\ phase \in Ended
  /\ loop' = "swap"
  /\ cand' = 1
  /\ loops' = loops + 1
  /\ said' = "nothing"
  /\ UNCHANGED <<probeVars, laneVars, writable, hung, authors>>

Goto(place) == loop' = place /\ UNCHANGED <<cand, loops, said, hung>>

\* Mutant: a candidate that is skipped is tried again.
SkipRetries == Goto("swap")

\* continue: on to the next candidate, or out of the loop and into the trap.
Skip ==
  /\ loop' = IF cand = Len(Candidates) THEN "restore" ELSE "swap"
  /\ cand' = IF cand = Len(Candidates) THEN cand ELSE cand + 1
  /\ UNCHANGED <<loops, said, hung>>

\* swap_lane: its status is that of `lane up`, whatever became of lane.env.
Swapped(profile) ==
  /\ env' = IF writable THEN profile ELSE env
  /\ serving' = env'
  /\ health' = "loading"

\* ssh fails before, between or after the commands, or `lane up` does.
SwapFailed(profile) ==
  \/ UNCHANGED laneVars
  \/ /\ env' = IF writable THEN profile ELSE env
     /\ \/ UNCHANGED <<serving, health>>
        \/ UNCHANGED serving /\ health' = "down"
        \/ serving' = env' /\ health' = "loading"

SwapLane ==
  /\ loop = "swap"
  /\ \/ Swapped(Candidates[cand]) /\ Goto("guard")
     \/ SwapFailed(Candidates[cand]) /\ Skip
  /\ UNCHANGED <<probeVars, writable, authors>>

\* Mutant: the candidate is taken to be on the lane.
GuardTrusts ==
  /\ loop = "guard"
  /\ Goto("health")
  /\ UNCHANGED <<probeVars, laneVars, writable, authors>>

\* GUARD: lane_profile must name the candidate; when ssh fails it names nothing.
Guard ==
  /\ loop = "guard"
  /\ \/ env = Candidates[cand] /\ Goto("health")
     \/ Skip
  /\ UNCHANGED <<probeVars, laneVars, writable, authors>>

\* health_wait: some poll finds the lane ready, or the time is up.  Only the sleeps
\* between polls are counted: a poll that hangs (Hang) brings no timeout nearer.
HealthWait ==
  /\ loop = "health"
  /\ \/ health = "ready" /\ Goto("run")
     \/ Skip
  /\ UNCHANGED <<probeVars, laneVars, writable, authors>>

\* run.sh starts the probe under the candidate's label, or fails before it does; the
\* run of another candidate is of no interest here.
Run ==
  /\ loop = "run"
  /\ \/ Candidates[cand] = Followed /\ Start /\ Goto("probe")
     \/ Skip /\ UNCHANGED probeVars
  /\ UNCHANGED <<laneVars, writable, authors>>

\* The candidate's answer comes from what is on the lane.
ProbeAnswer ==
  /\ loop = "probe"
  /\ health = "ready"
  /\ Extract
  /\ authors' = authors \cup {<<run, serving>>}
  /\ UNCHANGED <<laneVars, writable, loopVars>>

ProbeWork ==
  /\ loop \in {"probe", "interrupted"}
  /\ OwnWork
  /\ UNCHANGED <<laneVars, writable, loopVars, authors>>

ProbeDies ==
  /\ loop = "probe"
  /\ Die
  /\ UNCHANGED <<laneVars, writable, loopVars, authors>>

\* The probe's process is over, well or not; the loop goes on either way.
RunEnd ==
  /\ phase \in Ended
  /\ \/ loop = "probe" /\ Skip
     \/ loop = "interrupted" /\ Goto("restore")
  /\ UNCHANGED <<probeVars, laneVars, writable, authors>>

-----------------------------------------------------------------------------
End(word) == loop' = "off" /\ said' = word /\ UNCHANGED <<cand, loops, hung>>

\* Mutant: health_wait follows whether or not the swap went through.
RestoreRegardless ==
  /\ loop = "restore"
  /\ Swapped(Default) \/ SwapFailed(Default)
  /\ Goto("restore_health")
  /\ UNCHANGED <<probeVars, writable, authors>>

\* restore_default, on EXIT.
Restore ==
  /\ loop = "restore"
  /\ \/ Swapped(Default) /\ Goto("restore_health")
     \/ SwapFailed(Default) /\ End("warning")
  /\ UNCHANGED <<probeVars, writable, authors>>

RestoreHealth ==
  /\ loop = "restore_health"
  /\ \/ health = "ready" /\ End("restored")
     \/ End("warning")
  /\ UNCHANGED <<probeVars, laneVars, writable, authors>>

-----------------------------------------------------------------------------
\* The ssh at hand does not return, whatever it has done on the swap host by then.
Hang ==
  /\ ~hung
  /\ \/ loop = "swap" /\ (Swapped(Candidates[cand]) \/ SwapFailed(Candidates[cand]))
     \/ loop = "restore" /\ (Swapped(Default) \/ SwapFailed(Default))
     \/ loop \in {"guard", "health", "restore_health"} /\ UNCHANGED laneVars
  /\ hung' = TRUE
  /\ UNCHANGED <<probeVars, writable, loop, cand, loops, said, authors>>

\* It returns after all, or its connection is reset; nothing makes it.
Unhang ==
  /\ hung
  /\ hung' = FALSE
  /\ UNCHANGED <<probeVars, laneVars, writable, loop, cand, loops, said, authors>>

\* Ctrl-C: an ssh dies, the probe raises where it stands or dies, and the trap runs.
\* In the trap itself it ends the loop, as a kill does.
Interrupt ==
  /\ \/ /\ loop \in {"swap", "guard", "health", "run"}
        /\ loop' = "restore"
        /\ UNCHANGED probeVars
     \/ /\ loop = "probe" /\ phase \notin Ended
        /\ Raise \/ Die
        /\ loop' = "interrupted"
  /\ hung' = FALSE
  /\ UNCHANGED <<laneVars, writable, cand, loops, said, authors>>

Kill ==
  /\ loop # "off"
  /\ loop' = "off"
  /\ said' = "nothing"
  /\ hung' = FALSE
  /\ IF phase \in Ended THEN UNCHANGED probeVars ELSE Die
  /\ UNCHANGED <<laneVars, writable, cand, loops, authors>>

\* On the swap host: the model has loaded, or it crashes.
LaneTurns ==
  /\ \/ health = "loading" /\ health' = "ready"
     \/ health # "down" /\ health' = "down"
  /\ UNCHANGED <<probeVars, env, serving, writable, loopVars, authors>>

Production == ProdWrites /\ UNCHANGED <<laneVars, writable, loopVars, authors>>

LoopWork ==
  /\ ~hung
  /\ \/ SwapLane \/ Guard \/ HealthWait \/ Run \/ RunEnd \/ Restore \/ RestoreHealth
     \/ ProbeAnswer \/ ProbeWork

LaneNext ==
  \/ StartLoop \/ LoopWork \/ ProbeDies \/ Hang \/ Unhang \/ Interrupt \/ Kill
  \/ LaneTurns \/ Production

LaneSpec == LaneInit /\ [][LaneNext]_allVars

\* Loop and probe run on for as long as they live and no ssh hangs; that a hanging ssh
\* returns is not assumed.
LaneFairSpec == LaneSpec /\ WF_allVars(LoopWork)

-----------------------------------------------------------------------------
(* NEVER run a candidate against the wrong model (probe_loop.sh): every    *)
(* answer a run under the candidate's label uses is the candidate's,       *)
(* whatever became of the swaps before it, of lane.env and of the lane.    *)
RowsAreByTheCandidate == \A author \in authors : author[2] = Followed

(* Action property: the loop says that the default is restored only with a *)
(* lane that is ready, and that serves the default if lane.env could be    *)
(* written; if it could not, what the lane served before is back.          *)
RestoreIsVerified ==
  [][said # "restored" /\ said' = "restored" =>
       /\ health' = "ready" /\ serving' = env'
       /\ writable' => serving' = Default]_allVars

(* A loop that was started comes to its end, and each candidate is left    *)
(* behind, whatever fails on the way - or it stands in an ssh that hangs,  *)
(* which is the one thing its timeout does not cover.                      *)
LoopEnds == loop # "off" ~> (loop = "off" \/ hung)

=============================================================================
