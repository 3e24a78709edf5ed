------------------------------ MODULE MCEvents ------------------------------
(* Instances of EventMaterializer.  Record ids are small numbers, their     *)
(* rank in string order.                                                    *)
EXTENDS EventMaterializer

\* Every caller echoes the record id exactly as it was handed out.
OneSpelling == [n \in Names |-> n]

\* Name 3 is a second spelling (say, upper case) of record 1's uuid.
TwoSpellings == [n \in Names |-> IF n = 3 THEN 1 ELSE n]

=============================================================================
