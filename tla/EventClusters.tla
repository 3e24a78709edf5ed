---------------------------- MODULE EventClusters ----------------------------
(***************************************************************************)
(* What the Codex promises about same_event: every grounded pairwise       *)
(* assertion merges, at once and for good, the clusters of its two         *)
(* Enrichment Records (EventMaterializer's docstring: "union-find over     *)
(* record_ids, including transitive merges (A~B, B~C => one event)").      *)
(* EventMaterializer.tla refines it, one SQL statement at a time.          *)
(***************************************************************************)

CONSTANT Records   \* the Enrichment Records

VARIABLE cluster   \* cluster[r]: the records known to describe r's event

TypeOK == cluster \in [Records -> SUBSET Records]

Init == cluster = [r \in Records |-> {r}]

\* One grounded same_event Link between a and b.
Assert(a, b) ==
  LET joined == cluster[a] \cup cluster[b]
  IN  cluster' = [r \in Records |-> IF r \in joined THEN joined ELSE cluster[r]]

Next == \E a, b \in Records : Assert(a, b)

Spec == Init /\ [][Next]_cluster

-----------------------------------------------------------------------------
(* The clusters are the classes of an equivalence: "A~B, B~C => one event" *)
(* needs every member of a cluster to agree on what the cluster is.        *)
IsPartition ==
  \A r \in Records :
    /\ r \in cluster[r]
    /\ \A s \in cluster[r] : cluster[s] = cluster[r]

(* Nothing is ever un-merged: there is no code that splits an event. *)
ClustersOnlyGrow ==
  [][\A r \in Records : cluster[r] \subseteq cluster'[r]]_cluster

=============================================================================
