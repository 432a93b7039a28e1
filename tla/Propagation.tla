----------------------------- MODULE Propagation -----------------------------
(***************************************************************************)
(* What a propagation engine does, with no units, no queues and no memory: *)
(* assignments wait on the trail, an assignment is taken from the trail    *)
(* once, each of its clauses that have to be read is examined once, and a  *)
(* clause that becomes unit puts one new assignment on the trail.  Any     *)
(* number of assignments may be taken, and any number of clauses examined, *)
(* in one step.                                                            *)
(***************************************************************************)
EXTENDS Integers

CONSTANTS
  Assign,           \* assignments
  is_read_clause,   \* <<assignment, watcherId>>: the clauses to be read
  get_generated,    \* clause -> new assignment or Nothing
  Nothing

VARIABLES
  trail,       \* assignments nobody has taken yet
  started,     \* assignments that were taken from the trail
  examined     \* clause -> how often it has been examined

vars == <<trail, started, examined>>

Init == /\ trail = {} /\ started = {}
        /\ examined = [c \in is_read_clause |-> 0]

Work == {c \in is_read_clause : c[1] \in started /\ examined[c] = 0}
Generated(E) == {get_generated[c] : c \in E} \ {Nothing}

\* The solver pushes new assignments.
Submit(T) ==
  /\ T \cap (trail \cup started) = {}
  /\ trail' = trail \cup T
  /\ UNCHANGED <<started, examined>>

Propagate(S, E) ==
  /\ trail' = (trail \ S) \cup Generated(E)
  /\ started' = started \cup S
  /\ examined' = [c \in is_read_clause |-> IF c \in E THEN 1 ELSE examined[c]]

Next == \/ \E T \in SUBSET Assign : Submit(T)
        \/ \E S \in SUBSET trail, E \in SUBSET Work : Propagate(S, E)

Spec == Init /\ [][Next]_vars
=============================================================================
