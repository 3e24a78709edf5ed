----------------------------- MODULE MCEntities -----------------------------
(* Instances of EntityResolver: one name observed in three forms, and a date. *)
EXTENDS EntityResolver

\* "B. Smith" is canonical; the spaced forms normalize to it; the date is trimmed.
Forms == {"B. Smith", "B.  Smith", " B. Smith", "2025-02-18"}

Normalized ==
  [s \in Forms |-> IF s = "2025-02-18" THEN s ELSE "B. Smith"]

=============================================================================
