------------------------------- MODULE MCProbe -------------------------------
(* An instance of Probe: a slice of two chunks, and a candidate that quotes  *)
(* the first one verbatim and the second with other white space.             *)
EXTENDS Probe

TwoChunks == <<"k1", "k2">>

SomeTexts == [k \in {"k1", "k2"} |-> IF k = "k1" THEN <<"a", " ", "b">>
                                     ELSE <<"a", "n", " ", "b">>]

Item(quote, tier) == Obj([quote |-> Str(quote), tier |-> Str(tier)])

\* A bare array; an object around one, with quotes of no chunk and of none; and chat.
SomeReplies ==
  {Whole(Arr(<<Item(<<"a", " ", "b">>, "fact")>>)),
   Whole(Obj([facts |-> Arr(<<Item(<<"a", "n", "b">>, "fact"), Number,
                              Item(<<" ">>, "fact"),
                              Item(<<"n", " ", " ", "b">>, "interpretation")>>)])),
   Around(Invalid, Invalid, "chat")}

=============================================================================
