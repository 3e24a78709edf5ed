-------------------------------- MODULE Passes --------------------------------
(***************************************************************************)
(* What the multipass passes (multipass/passes/) make of the model's       *)
(* replies, from pass to pass, and what the review of a run                *)
(* (multipass/review.py) shows of it.  A pass is one step: its calls for   *)
(* the chunks do not see each other, and Multipass has their order.  Pass  *)
(* 3 is one attempt here; FillLoop has its retries.                        *)
(*                                                                         *)
(* A call may raise, and the pipeline records an error in place of a state *)
(* (multipass/pipeline.py).  Of the regular expressions that normalize a   *)
(* name or a keyword only the outcome is given: a string, "" if nothing of *)
(* it is left.  Where a string is due the replies have a string or         *)
(* something a parser skips: str() of other values is left out.  What the  *)
(* parsers return each once, in the order found, is a set here: nothing    *)
(* that follows looks at its order.                                        *)
(***************************************************************************)
EXTENDS Quotes, ModelReplies, FiniteSets

CONSTANTS
  Chunks,
  TextOf,          \* each chunk's text
  NormalType,      \* normalize_type, [strings -> strings]
  NormalKeyword,   \* normalize_keyword, the same
  Trivial,         \* stopwords and keywords of one character, normalized
  Answers,         \* what a model may answer, pass by pass
  SampleTexts,     \* what locate_quote is tried on
  SampleQuotes,
  Raised           \* what a call that raises yields, and the error recorded for it

ASSUME NormalsAssumption ==
  \A normal \in {NormalType, NormalKeyword} : \A s \in DOMAIN normal :
    normal[s] # "" => normal[s] \in DOMAIN normal /\ normal[normal[s]] = normal[s]

\* Texts and arrays end, and no error is a pass's state for a chunk.
ASSUME ListsAssumption ==
  /\ \A s \in SampleTexts \cup SampleQuotes : s \in Seq(ToSet(s))
  /\ \A reply \in Answers["2_objecttypes"] : SafeArray(reply) \in Seq(ToSet(SafeArray(reply)))
ASSUME RaisedAssumption == \A b \in BOOLEAN : Raised # [grounded |-> b]

VARIABLES
  done,     \* how many passes are through
  said,     \* history: the replies of each pass, <<>> before it
  states,   \* results: the state of each pass that is through, <<>> before it
  rows,     \* the chunks with a record in the scratch schema
  review    \* review.md, or <<>>

vars == <<done, said, states, rows, review>>

-----------------------------------------------------------------------------
Names == <<"1_prose", "2_objecttypes", "2_9_consolidate", "3_fillvalues",
           "4_keywords", "4_9_cleanup", "5_meaning">>

\* parse_prose_label: its text says prose, and nothing like non-prose.
Label(reply) == IF reply.text = "prose" THEN "prose" ELSE "non_prose"

\* parse_type_list: strings, or objects with a name.
TypeList(reply) ==
  LET Named(item)  == \/ Is(item, "string")
                      \/ Is(item, "object") /\ Is(Field(item.object, "name"), "string")
      NameOf(item) == IF Is(item, "string") THEN item.string ELSE item.object.name.string
      named        == {item \in ToSet(SafeArray(reply)) : Named(item)}
  IN  {NormalType[NameOf(item)] : item \in named} \ {""}

\* The mapping of a reply, as given.
Given(reply) ==
  LET mapping == Field(SafeObject(reply), "mapping")
  IN  IF Is(mapping, "object")
      THEN [t \in DOMAIN mapping.object |-> mapping.object[t].string] ELSE <<>>

\* Mutant: what the model leaves out of the mapping stays out.
ConsolidationAsGiven(reply, raw) ==
  [mapping |-> Given(reply), final |-> {Given(reply)[t] : t \in DOMAIN Given(reply)}]

\* parse_consolidation: the model's mapping, the identity for types it leaves out;
\* its canonical list, the mapping's targets for want of one.
Consolidation(reply, raw) ==
  LET listed  == Field(SafeObject(reply), "canonical")
      given   == Given(reply)
      mapping == [t \in DOMAIN given \cup raw |-> IF t \in DOMAIN given THEN given[t] ELSE t]
  IN  [mapping |-> mapping,
       final   |-> IF Is(listed, "array") /\ listed.array # <<>>
                   THEN {c.string : c \in ToSet(listed.array)}
                   ELSE {mapping[t] : t \in DOMAIN mapping}]

\* parse_fill and make_grounder: where the quote of a reply is, "" being found nowhere.
Pointed(k, reply) ==
  LET quote == Field(SafeObject(reply), "quote")
  IN  IF Is(quote, "string") THEN LocateQuote(TextOf[k], quote.string) ELSE NotFound

\* parse_keyword_list: strings only.
KeywordList(reply) ==
  LET words == {item \in ToSet(SafeArray(reply)) : Is(item, "string")}
  IN  {NormalKeyword[item.string] : item \in words} \ {""}

\* clean_keyword
CleanKeyword(word) == IF NormalKeyword[word] \in Trivial THEN "" ELSE NormalKeyword[word]

\* parse_meaning: what is not such an object is taken for the meaning, as it stands.
Meaning(reply) ==
  LET meaning == Field(SafeObject(reply), "claim_meaning")
  IN  IF Is(meaning, "string") /\ meaning # Str("") THEN meaning.string ELSE reply.text

-----------------------------------------------------------------------------
Init ==
  /\ done = 0
  /\ said = [name \in ToSet(Names) |-> <<>>]
  /\ states = [name \in ToSet(Names) |-> <<>>]
  /\ rows = {}
  /\ review = <<>>

Next1(name) == done < Len(Names) /\ Names[done + 1] = name /\ done' = done + 1

\* The pass's state goes into results and on disk.
Through(name, replies, state) ==
  /\ said' = [said EXCEPT ![name] = replies]
  /\ states' = [states EXCEPT ![name] = state]

\* What process_chunk of a pass makes of its reply.
Output(name, reply) ==
  CASE name = "1_prose"       -> Label(reply)
    [] name = "2_objecttypes" -> TypeList(reply)
    [] name = "4_keywords"    -> KeywordList(reply)
    [] name = "5_meaning"     -> Meaning(reply)

\* process_chunk for every chunk: what it returns, or an error.
PerChunk(name) ==
  /\ Next1(name)
  /\ \E replies \in [Chunks -> Answers[name] \cup {Raised}] :
       Through(name, replies, [k \in Chunks |-> IF replies[k] = Raised THEN Raised
                                                ELSE Output(name, replies[k])])
  /\ UNCHANGED <<rows, review>>

Prose == PerChunk("1_prose")
ObjectTypes == PerChunk("2_objecttypes")
Keywords == PerChunk("4_keywords")
Meanings == PerChunk("5_meaning")

\* out.get(key, []): an error has no list.
Listed(name, k) == IF states[name][k] = Raised THEN {} ELSE states[name][k]

Consolidate ==
  /\ Next1("2_9_consolidate")
  /\ \E reply \in Answers["2_9_consolidate"] \cup {Raised} :
       Through("2_9_consolidate", reply,
               IF reply = Raised THEN Raised
               ELSE Consolidation(reply, UNION {Listed("2_objecttypes", k) : k \in Chunks}))
  /\ UNCHANGED <<rows, review>>

\* A quote that is found goes to write_enrichment, which stores a record or does
\* not; a call that raises may have stored one.
FillValues ==
  /\ Next1("3_fillvalues")
  /\ \E replies \in [Chunks -> Answers["3_fillvalues"] \cup {Raised}], stored \in SUBSET Chunks :
       /\ \A k \in stored : replies[k] # Raised => Pointed(k, replies[k]) # NotFound
       /\ rows' = stored
       /\ Through("3_fillvalues", replies,
                  [k \in Chunks |-> IF replies[k] = Raised THEN Raised
                                    ELSE [grounded |-> k \in stored]])
  /\ UNCHANGED review

Cleanup ==
  LET raw     == UNION {Listed("4_keywords", k) : k \in Chunks}
      cleaned == [k \in Chunks |-> {CleanKeyword(w) : w \in Listed("4_keywords", k)} \ {""}]
  IN  /\ Next1("4_9_cleanup")
      /\ Through("4_9_cleanup", "none",
                 [final |-> {CleanKeyword(w) : w \in raw} \ {""}, cleaned |-> cleaned])
      /\ UNCHANGED <<rows, review>>

\* render_review: what one chunk's part shows.
Part(k) ==
  LET consolidated == states["2_9_consolidate"]
      Target(t)    == IF consolidated # Raised /\ t \in DOMAIN consolidated.mapping
                      THEN consolidated.mapping[t] ELSE t
      fill         == states["3_fillvalues"][k]
      types        == Listed("2_objecttypes", k)
  IN  [types     |-> types,
       canonical |-> {Target(t) : t \in types},
       record    |-> fill # Raised /\ fill.grounded /\ k \in rows,
       keywords  |-> states["4_9_cleanup"].cleaned[k],
       meaning   |-> states["5_meaning"][k]]

Review ==
  /\ done = Len(Names)
  /\ review = <<>>
  /\ review' = [parts |-> [k \in Chunks |-> Part(k)],
                grounded |-> Cardinality({k \in Chunks :
                  states["3_fillvalues"][k] # Raised /\ states["3_fillvalues"][k].grounded}),
                records |-> Cardinality(rows),
                schema |-> IF states["2_9_consolidate"] = Raised THEN {}
                           ELSE states["2_9_consolidate"].final,
                vocabulary |-> states["4_9_cleanup"].final]
  /\ UNCHANGED <<done, said, states, rows>>

Next ==
  \/ Prose \/ ObjectTypes \/ Consolidate \/ FillValues \/ Keywords \/ Cleanup \/ Meanings
  \/ Review

Spec == Init /\ [][Next]_vars

-----------------------------------------------------------------------------
(* The offsets code computes for a quote point at the quote: at its words  *)
(* in their order with no more than white space between, from the first to *)
(* the last character, at a verbatim copy if there is one; and a quote the *)
(* text does not have is not found.                                        *)
QuotesAreLocated ==
  done = 0 =>
    \A text \in SampleTexts, quote \in SampleQuotes :
      WellLocated(text, quote, LocateQuote(text, quote))

\* Every type a chunk's reply names, with its target.
ShowsTypes ==
  LET parts  == review.parts
      mapped == states["2_9_consolidate"]
  IN  \A k \in Chunks :
        /\ said["2_objecttypes"][k] = Raised => parts[k].types = {}
        /\ Cardinality(parts[k].canonical) <= Cardinality(parts[k].types)
        /\ mapped # Raised =>
             /\ parts[k].types \subseteq DOMAIN mapped.mapping
             /\ parts[k].canonical = {mapped.mapping[t] : t \in parts[k].types}

\* The vocabulary and what it comes from.
ShowsKeywords ==
  /\ review.vocabulary = UNION {review.parts[k].keywords : k \in Chunks}
  /\ review.vocabulary \cap (Trivial \cup {""}) = {}

\* The records and how many they are.
ShowsRecords ==
  /\ review.grounded = Cardinality({k \in Chunks : review.parts[k].record})
  /\ \A k \in rows : review.parts[k].record \/ said["3_fillvalues"][k] = Raised

(* One bad reply must not cost more than its own chunk or pass, and the    *)
(* review tells what the run did: every type a chunk's reply names is      *)
(* shown, with the target the consolidation has for it, and unless 2.9     *)
(* raised it has one for every type of every chunk; the vocabulary is what *)
(* the chunks' keywords add up to, none of them trivial; a record is shown *)
(* where one was grounded, and every stored record that is not shown is    *)
(* one whose call raised.                                                  *)
ReviewTellsTheRun == review # <<>> => ShowsTypes /\ ShowsKeywords /\ ShowsRecords

=============================================================================
