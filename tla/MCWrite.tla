------------------------------- MODULE MCWrite -------------------------------
(***************************************************************************)
(* Instances of WriteEnrichment.  Two chunks share a boilerplate sentence: *)
(* "filed" supports claim c1 wherever it is sliced from, "reversed" only   *)
(* occurs in k1.  Version 1 of a chunk moves everything: the offsets that  *)
(* were right for version 0 are blank, or out of range, or hit other text. *)
(***************************************************************************)
EXTENDS WriteEnrichment, TLC

CONSTANTS k1, k2, mangled   \* mangled: an id text of no chunk

AllTexts == Chunks \X Versions

Sliced ==
  [t \in AllTexts |->
     [o \in Offsets |->
        CASE t = <<k1, 0>> /\ o = "o1" -> "filed"
          [] t = <<k1, 0>> /\ o = "o2" -> "reversed"
          [] t = <<k2, 0>> /\ o = "o1" -> "filed"
          [] t = <<k2, 0>> /\ o = "o2" -> "beyond"
          [] t = <<k1, 1>> /\ o = "o1" -> "blank"
          [] t = <<k1, 1>> /\ o = "o2" -> "filed"
          [] OTHER                     -> "beyond"]]

\* Every cited surface is in "filed", none in "reversed".
Supported ==
  [s \in Spans |-> IF s = "filed" THEN (Claims \cap {"c1"}) \cup Surfaces ELSE Claims \cap {"c2"}]

\* Surfaces: an actor in two forms and a date.
Normalized == [s \in Surfaces |-> IF s = " B. Smith" THEN "B. Smith" ELSE s]

\* What a payload may cite: nothing or a date; or an actor, with or without a date.
NoCitation == {<<>>}
MaybeDate == {<<>>, <<"2025">>}
ActorAndDate == {<<"B. Smith", "2025">>, <<" B. Smith">>}

\* Workstreams: one each, or everyone in "default".
Private == [a \in Agents |-> a]
Shared == [a \in Agents |-> "default"]

\* Ids and agents are alike; so are the chunks where one span fills every text.
Symmetry ==
  Permutations(RecordIds) \cup Permutations(Agents) \cup Permutations(Chunks)

\* Runs whose properties read neither answers nor the resolver's histories tell
\* states apart by what a step may read: an Entity is read while it is awaited,
\* a payload's reference until it is resolved.
Unresolved(a) == pc[a] = "resolve"
Behaviour ==
  <<mapVars, corpus, held, focus, pc, entity, rpc, task,
    [a \in Agents |->
       <<IF pc[a] = "idle" \/ Unresolved(a)
         THEN call[a]
         ELSE [call[a] EXCEPT !.handle = None, !.echo = None],
         [work[a] EXCEPT !.meant = None, !.slip = FALSE, !.overtaken = FALSE],
         IF pc[a] = "resolving" THEN resolved[a] ELSE None>>],
    {[r EXCEPT !.meant = None, !.slip = FALSE, !.overtaken = FALSE] : r \in records}>>

\* A run about entity refs and references leaves out what is copied to the row and
\* not read again, a tier that may pass the gate either way, handles no payload
\* sends, and of an agent's memory what its next reference cannot tell apart: it
\* misses by a handle it was shown for another chunk, or by a current Fragment that
\* is not its own although it was the last to read.
Hits(w) == w.meant # None /\ ~w.slip /\ w.chunk # w.meant => w.overtaken
Remembered(a) ==
  LET w == WsOf[a]
  IN  <<held[a].handle \in Handles => held[a].chunk = Lookup(w, held[a].handle),
        {held[a].handle} \cap Handles,
        lastRead[w] = a, lastRead[w] = a => focus[a] = current[w]>>
Reference(a) ==
  IF call[a].handle # None
  THEN <<call[a].handle, ~work[a].slip => work[a].meant = Lookup(WsOf[a], call[a].handle)>>
  ELSE <<None, lastRead[WsOf[a]] = a => work[a].meant = current[WsOf[a]]>>
Registry ==
  <<[w \in Workstreams |-> [n \in Handles |-> Lookup(w, n)]], current, corpus,
    pc, entity, rpc, task,
    [a \in Agents |->
       <<Remembered(a),
         CASE pc[a] = "idle" -> <<>>
           [] pc[a] = "resolve" -> <<call[a].cites, Reference(a)>>
           [] OTHER -> <<call[a].cites, work[a].chunk, Hits(work[a]), work[a].id,
                         work[a].todo, work[a].refs>>,
         IF pc[a] = "resolving" THEN resolved[a] ELSE None>>],
    {<<r.id, r.chunk, r.cites, r.refs, Hits(r)>> : r \in records},
    {k \in Surfaces : entity[k] # None /\ entity[k].first \in givenUp}>>

=============================================================================
