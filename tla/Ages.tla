--------------------------------- MODULE Ages ---------------------------------
(***************************************************************************)
(* The code keeps the clock reading of an input and compares `now - t`.    *)
(* The modules keep `now - t` itself, the reading's age, and move every    *)
(* age with the clock.  An age stops growing at FORGET, which is beyond    *)
(* every bound ages are compared with; None is the age of a reading that   *)
(* was never taken.                                                        *)
(***************************************************************************)
EXTENDS Integers

CONSTANTS
  None,     \* Python's None
  FORGET    \* the age at which ages stop growing

ASSUME AgeAssumption ==
  /\ None \notin Int
  /\ FORGET \in Nat

Age == Int \cup {None}

\* the age after the clock has moved by d
Later(age, d) ==
  IF age = None THEN None ELSE IF age + d > FORGET THEN FORGET ELSE age + d

\* what is left of a delay after the clock has moved by d
Sooner(left, d) ==
  IF left = None THEN None ELSE IF left - d < -FORGET THEN -FORGET ELSE left - d
=============================================================================
