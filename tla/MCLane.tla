-------------------------------- MODULE MCLane --------------------------------
(* An instance of LaneLoop over that of Probe: two candidates, of which the  *)
(* first is the default and the second is followed.                          *)
EXTENDS LaneLoop, MCProbe

TwoCandidates == <<"other", "followed">>

\* Of a run that is over only its rows are left to matter, and that they are there;
\* of a run under way, which files are its own and whether they are up to date.  The
\* properties are told apart as they stand.
Own(f) == f \in DOMAIN disk /\ disk[f].run = run
Underway ==
  IF phase \in Ended THEN <<>>
  ELSE <<phase, at, todo, log, tally, before, prodWas,
         {r \in schema.rows : r.run = run}, \E r \in schema.rows : r.run # run,
         [f \in Files |-> Own(f)],
         Own("records") /\ disk["records"].content = schema.rows,
         Own("scorecard") /\ disk["scorecard"].content.rows = schema.rows,
         Own("attempts") /\ disk["attempts"].content = log>>
Behaviour ==
  <<run, prod, schema.exists, schema.rows # {}, Underway,
    env, writable, serving, health, hung, loop, cand, loops,
    ScorecardAddsUp, BreachIsReported, RowsAreByTheCandidate>>

=============================================================================
