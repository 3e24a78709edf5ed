---------------------------- MODULE GroundingCore ----------------------------
(***************************************************************************)
(* grounding/core.py and grounding/types.py: the decisions write_enrichment*)
(* and link_events share.  A text is the content a chunk had when it was   *)
(* loaded; SHA-256 is collision-free here, so a hash is what it hashes.    *)
(***************************************************************************)
EXTENDS Naturals

CONSTANTS
  Texts,     \* the texts chunks may have
  Offsets,   \* the [char_start, char_end] pairs a model may send
  Spans,     \* the non-blank strings a slice may yield
  SliceOf    \* [Texts -> [Offsets -> Spans \cup {"beyond", "blank"}]]

ASSUME SliceAssumption ==
  /\ SliceOf \in [Texts -> [Offsets -> Spans \cup {"beyond", "blank"}]]
  /\ Spans \cap {"beyond", "blank"} = {}

Tiers == {"fact", "interpretation"}
Verdicts == {"grounded", "partial", "ungrounded"}

\* slice_span's refusal of a slice, or "" when it yields an Evidence Span.
SliceError(slice) ==
  CASE slice = "beyond" -> "bad_offsets"
    [] slice = "blank"  -> "empty_span"
    [] OTHER            -> ""

\* Mutant: a partly grounded fact is flagged instead of rejected.
GateLenient(tier, verdict) ==
  CASE verdict = "grounded" -> "accept"
    [] verdict = "partial"  -> "flag"
    [] OTHER -> "reject"

\* gate: what a verdict does to a payload of the tier.
Gate(tier, verdict) ==
  CASE verdict = "grounded" -> "accept"
    [] verdict = "partial" /\ tier = "interpretation" -> "flag"
    [] OTHER -> "reject"

\* build_attestation: the verdict, the values the judge named, and the hashes.
Attestation(ruling, hashes) ==
  [verdict |-> ruling.verdict, failing |-> ruling.failing, hashes |-> hashes]

=============================================================================
