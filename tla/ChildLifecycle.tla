--------------------------- MODULE ChildLifecycle ---------------------------
(***************************************************************************)
(* What the supervisor's process table promises about the children of each *)
(* role, without threads, locks or signals: a role has at most one child;  *)
(* the child is started under a new pid, runs, dies and is waited for, and *)
(* only then may the next one start.                                       *)
(***************************************************************************)
EXTENDS Naturals

CONSTANT Roles

VARIABLES
  running,  \* the running child of each role, as a set of at most one pid
  dead,     \* the child that died and was not waited for
  last      \* the pid given out last

lifeVars == <<running, dead, last>>

Init ==
  /\ running = [r \in Roles |-> {}]
  /\ dead = [r \in Roles |-> {}]
  /\ last = [r \in Roles |-> 0]

Start(r) ==
  /\ running[r] = {} /\ dead[r] = {}
  /\ last' = [last EXCEPT ![r] = @ + 1]
  /\ running' = [running EXCEPT ![r] = {last[r] + 1}]
  /\ UNCHANGED dead

Die(r) ==
  /\ running[r] # {} /\ dead[r] = {}
  /\ running' = [running EXCEPT ![r] = {}]
  /\ dead' = [dead EXCEPT ![r] = running[r]]
  /\ UNCHANGED last

Collect(r) ==
  /\ dead[r] # {}
  /\ dead' = [dead EXCEPT ![r] = {}]
  /\ UNCHANGED <<running, last>>

Next == \E r \in Roles : Start(r) \/ Die(r) \/ Collect(r)

Spec == Init /\ [][Next]_lifeVars

=============================================================================
