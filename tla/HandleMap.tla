------------------------------ MODULE HandleMap ------------------------------
(***************************************************************************)
(* grounding/handles.py: the in-process, workstream-keyed map from Chunk   *)
(* Handles to chunk ids, and each workstream's current Fragment.  Handles  *)
(* are F1, F2, ... in minting order, so a workstream's two dictionaries    *)
(* are one sequence of distinct chunks: handle F<n> is position n.  Every  *)
(* method runs under the map's lock: one action each.                      *)
(***************************************************************************)
EXTENDS Naturals, Sequences, SequencesExt

CONSTANTS Workstreams, Chunks, None

ASSUME NoneIsNoChunk == None \notin Chunks

VARIABLES
  handles,   \* handles[w][n] is the chunk of handle F<n> in workstream w
  current    \* current[w] is the workstream's current Fragment, or None

mapVars == <<handles, current>>

MapTypeOK ==
  /\ handles \in [Workstreams -> Seq(Chunks)]
  /\ current \in [Workstreams -> Chunks \cup {None}]

MapInit ==
  /\ handles = [w \in Workstreams |-> <<>>]
  /\ current = [w \in Workstreams |-> None]

\* Mutant: new chunks are numbered from the front.
MintedInFront(table, k) == IF k \in ToSet(table) THEN table ELSE <<k>> \o table

\* mint on one workstream's table: a known chunk keeps its handle.
Minted(table, k) == IF k \in ToSet(table) THEN table ELSE Append(table, k)

\* The tables after get_chunk has presented k.
Mint(w, k) == [handles EXCEPT ![w] = Minted(@, k)]

\* The tables after get_neighbors has presented k, then n.
MintBoth(w, k, n) == [handles EXCEPT ![w] = Minted(Minted(@, k), n)]

\* The handle a minted chunk has in table.
HandleIn(table, k) == CHOOSE n \in DOMAIN table : table[n] = k

\* resolve: the chunk of handle n, or None if the workstream never minted it.
Lookup(w, n) == IF n \in DOMAIN handles[w] THEN handles[w][n] ELSE None

=============================================================================
