----------------------------- MODULE ModelReplies -----------------------------
(***************************************************************************)
(* What the parsers make of a model's reply (probe/extraction.py,          *)
(* multipass/parsing.py and the passes): json.loads of the whole reply, or *)
(* of the widest [...] or {...} in it.                                     *)
(*                                                                         *)
(* A JSON value is a record whose one field is its type; "invalid" is the  *)
(* type of what does not parse.  A reply is what each of the three         *)
(* readings of it yields, and what its text says where a pass looks at     *)
(* the text.                                                               *)
(***************************************************************************)
EXTENDS Naturals, Sequences

Invalid == [invalid |-> TRUE]
Str(s) == [string |-> s]
Arr(items) == [array |-> items]
Obj(fields) == [object |-> fields]
Number == [number |-> 0]

Is(json, type) == DOMAIN json = {type}

\* A reply that is JSON as it stands, and one that is chat around some JSON.
Whole(json) == [whole |-> json, array |-> Invalid, object |-> Invalid, text |-> "json"]
Around(array, object, text) ==
  [whole |-> Invalid, array |-> array, object |-> object, text |-> text]

\* json.loads of the whole, else of the region.
Loads(reply, region) ==
  IF Is(reply.whole, "invalid") THEN reply[region] ELSE reply.whole

\* safe_json_array
SafeArray(reply) ==
  LET json == Loads(reply, "array") IN IF Is(json, "array") THEN json.array ELSE <<>>

\* safe_json_object, and how 2.9, 3 and 5 read theirs: the fields, none of them if
\* there is no object.
SafeObject(reply) ==
  LET json == Loads(reply, "object") IN IF Is(json, "object") THEN json.object ELSE <<>>

\* obj.get(key), with Invalid for a key that is not there.
Field(fields, key) == IF key \in DOMAIN fields THEN fields[key] ELSE Invalid

=============================================================================
