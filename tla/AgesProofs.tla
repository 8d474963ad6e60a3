------------------------------ MODULE AgesProofs ------------------------------
EXTENDS Ages, TLAPS

(* An age moved by the clock is an age, is None only if it was, and is     *)
(* never more than FORGET.                                                 *)
LEMMA LaterType ==
  ASSUME NEW age \in Age, NEW d \in Int
  PROVE  /\ Later(age, d) \in Age
         /\ Later(age, d) = None <=> age = None
         /\ Later(age, d) # None => Later(age, d) <= FORGET
  BY AgeAssumption DEF Later, Age

LEMMA SoonerType ==
  ASSUME NEW left \in Age, NEW d \in Int
  PROVE  /\ Sooner(left, d) \in Age
         /\ Sooner(left, d) = None <=> left = None
  BY AgeAssumption DEF Sooner, Age
=============================================================================
