-------------------------------- MODULE Quotes --------------------------------
(***************************************************************************)
(* locate_quote (probe/extraction.py): where in a chunk's text a quote is  *)
(* that a model copied.  A text is a sequence of characters; a span is a   *)
(* pair of offsets <<start, end>>, from 0 and half open, as in Python.     *)
(***************************************************************************)
EXTENDS Integers, SequencesExt

CONSTANTS
  Blanks,    \* the white space among the characters
  NotFound

Cut(text, span) == SubSeq(text, span[1] + 1, span[2])

\* str.strip
Strip(s) ==
  LET solid == {i \in DOMAIN s : s[i] \notin Blanks}
  IN  IF solid = {} THEN <<>> ELSE SubSeq(s, Min(solid), Max(solid))

\* The tokens up to character i of s, given those before it: white space ends a token,
\* any other character begins one or goes on with it.
Tokens(before, s, i) ==
  CASE s[i] \in Blanks -> before
    [] s[i] \notin Blanks /\ (i = 1 \/ s[i - 1] \in Blanks) -> Append(before, <<s[i]>>)
    [] OTHER -> [before EXCEPT ![Len(before)] = Append(@, s[i])]

\* str.split
Split(s) ==
  LET upTo[i \in 0..Len(s)] == IF i = 0 THEN <<>> ELSE Tokens(upTo[i - 1], s, i)
  IN  upTo[Len(s)]

\* re.match of the tokens, joined by \s+, at offset start: the offsets it may end at,
\* of which there is at most one.
MatchEnds(text, start, tokens) ==
  LET Joins(k, d, p) == IF k = 1 THEN p = d
                        ELSE p > d /\ \A h \in d + 1..p : text[h] \in Blanks
      ends[k \in 0..Len(tokens)] ==
        IF k = 0 THEN {start}
        ELSE {e \in start..Len(text) :
                \E d \in ends[k - 1] :
                  LET p == e - Len(tokens[k])
                  IN  p >= d /\ Joins(k, d, p) /\ Cut(text, <<p, e>>) = tokens[k]}
  IN  ends[Len(tokens)]

Spaced(text, quote) ==
  UNION {{i} \X MatchEnds(text, i, Split(quote)) : i \in 0..Len(text)}

\* Mutant: the end is counted from the quote as it came.
VerbatimUnstripped(text, quote) ==
  LET q == Strip(quote)
  IN  {<<i, i + Len(quote)>> : i \in {h \in 0..Len(text) - Len(q) : Cut(text, <<h, h + Len(q)>>) = q}}

\* Where text holds the stripped quote.
Verbatim(text, quote) ==
  LET q == Strip(quote)
  IN  {<<i, i + Len(q)>> : i \in {h \in 0..Len(text) - Len(q) : Cut(text, <<h, h + Len(q)>>) = q}}

\* text.find of the stripped quote first, re.search of its tokens second.
LocateQuote(text, quote) ==
  LET verbatim == Verbatim(text, quote)
      spans    == IF verbatim # {} THEN verbatim ELSE Spaced(text, quote)
  IN  IF Strip(quote) = <<>> \/ spans = {} THEN NotFound
      ELSE CHOOSE span \in spans : \A other \in spans : span[1] <= other[1]

-----------------------------------------------------------------------------
\* The spans of a text that begin and end with a character of their own and read,
\* word for word, like the quote.
Readings(text, quote) ==
  {span \in (0..Len(text)) \X (0..Len(text)) :
     LET s == Cut(text, span)
     IN  s # <<>> /\ Strip(s) = s /\ Split(s) = Split(quote)}

\* A span is one of the readings, the first of the verbatim ones if there are any,
\* the first of all otherwise; without a reading there is no span.
WellLocated(text, quote, found) ==
  LET readings == Readings(text, quote)
      verbatim == {span \in readings : Cut(text, span) = Strip(quote)}
      best     == IF verbatim # {} THEN verbatim ELSE readings
  IN  IF readings = {} THEN found = NotFound
      ELSE found \in best /\ \A span \in best : found[1] <= span[1]

=============================================================================
