------------------------------- MODULE MCPasses -------------------------------
(* An instance of Passes: two chunks, replies that name the same type in two *)
(* spellings, leave a type out of the mapping, or are no JSON.               *)
EXTENDS Passes, TLC

TwoChunks == {"k1", "k2"}

White == {" ", "\n"}

SomeTexts == [k \in TwoChunks |-> IF k = "k1" THEN <<"a", " ", "b">> ELSE <<"a", "b">>]

Types == ("Date" :> "date") @@ ("date" :> "date") @@ ("fact" :> "fact") @@ ("--" :> "")
Words == ("Appeal " :> "appeal") @@ ("appeal" :> "appeal") @@ ("the" :> "the") @@ (" " :> "")

Chat == Around(Invalid, Invalid, "chat")

SomeAnswers ==
  [name \in ToSet(Names) |->
     CASE name = "1_prose" -> {Around(Invalid, Invalid, "prose"), Chat}
       [] name = "2_objecttypes" ->
            {Whole(Arr(<<Str("Date"), Number, Str("date"), Obj([name |-> Str("fact")])>>)),
             Around(Arr(<<Str("--"), Str("fact")>>), Invalid, "chat"),
             Whole(Obj([types |-> Arr(<<Str("date")>>)]))}
       [] name = "2_9_consolidate" ->
            {Whole(Obj([canonical |-> Arr(<<Str("event")>>), mapping |-> Obj([fact |-> Str("event")])])),
             Around(Invalid, Obj([mapping |-> Obj([fact |-> Str("date")])]), "chat"),
             Chat}
       [] name = "3_fillvalues" -> {Whole(Obj([quote |-> Str(<<" ", "a", " ", " ", "b">>)]))}
       [] name = "4_keywords" ->
            {Whole(Arr(<<Str("Appeal "), Str("the"), Number, Str("appeal")>>)),
             Around(Arr(<<Str(" "), Str("the")>>), Invalid, "chat")}
       [] name = "4_9_cleanup" -> {}
       [] name = "5_meaning" -> {Whole(Obj([claim_meaning |-> Str("")]))}]

\* Every text of up to five characters and every quote of up to three, white space
\* among them; and some with another kind of white space.
UpTo(n) == UNION {[1..i -> {"a", "b", " "}] : i \in 0..n}
TextsUpTo5 == UpTo(5) \cup {<<"a", "\n", "b">>, <<"a", " ", "\n", "b", "a">>, <<"\n", "b">>}
QuotesUpTo3 == UpTo(3) \cup {<<"\n", "a", " ", "b">>, <<"a", "\n", "b">>, <<"b", " ", "a", "b", "\n">>}

=============================================================================
