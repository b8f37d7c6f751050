-------------------------- MODULE MCWorkflowEngine --------------------------
(* Two objects of one definition, a[b[c] d]; another one, x[e d] b, where e is   *)
(* disabled; and a twin of the first, a[b[c[d]]], that differs in nesting alone. *)
EXTENDS WorkflowEngine

CONSTANTS a, b, c, d, x, e, k1, k2

SomeSteps == {"w1", "w2", "w4"} \X {a, b, c, d} \cup {"w3"} \X {x, d, b, e}

SomeRoots == [w \in Workflows |-> IF w = "w3" THEN <<<<w, x>>, <<w, b>>>> ELSE <<<<w, a>>>>]

SomeKids == [s \in Steps |->
  CASE s[2] = a /\ s[1] = "w4" -> <<<<s[1], b>>>>
    [] s[2] = a /\ s[1] # "w4" -> <<<<s[1], b>>, <<s[1], d>>>>
    [] s[2] = b /\ s[1] # "w3" -> <<<<s[1], c>>>>
    [] s[2] = c /\ s[1] = "w4" -> <<<<s[1], d>>>>
    [] s[2] = x -> <<<<s[1], e>>, <<s[1], d>>>>
    [] OTHER -> <<>>]

SomeDefinitions == [s \in Steps |-> s[2]]

SomeOperators == [n \in {a, b, c, d, x, e} |->
  CASE n \in {a, b} -> "And" [] n = x -> "Or" [] OTHER -> "None"]

SomeProperties == [s \in Steps |->
  [k \in PropertyKeys |->
     IF (s[2] \in {a, x} /\ k = k1) \/ (s[2] = b /\ k = k2) \/ (s[2] = d /\ k = k1)
     THEN s[2] ELSE None]]
=============================================================================
