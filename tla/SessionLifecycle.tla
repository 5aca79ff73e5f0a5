-------------------------- MODULE SessionLifecycle --------------------------
(***************************************************************************)
(* What the registry promises about every session object, whatever threads *)
(* act on it: it is admitted at most once, and only under an id that no    *)
(* registered object has; once detached it never comes back; disconnect()  *)
(* runs on it at most once, and only after it was detached.                *)
(***************************************************************************)
EXTENDS Naturals

CONSTANTS
  Object,   \* session objects
  IdOf      \* the id of each object

VARIABLES
  life,         \* per object: "new", "registered" or "detached"
  disconnects   \* per object: how often disconnect() has run

vars == <<life, disconnects>>

Stages == {"new", "registered", "detached"}

Init ==
  /\ life = [s \in Object |-> "new"]
  /\ disconnects = [s \in Object |-> 0]

\* The object is built and offered to the registry, which refuses it when the
\* id is taken.
Offer(s) ==
  /\ life[s] = "new"
  /\ life' = [life EXCEPT ![s] =
       IF \E u \in Object : life[u] = "registered" /\ IdOf[u] = IdOf[s]
         THEN "detached" ELSE "registered"]
  /\ UNCHANGED disconnects

Detach(s) ==
  /\ life[s] = "registered"
  /\ life' = [life EXCEPT ![s] = "detached"]
  /\ UNCHANGED disconnects

Disconnect(s) ==
  /\ life[s] = "detached"
  /\ disconnects[s] = 0
  /\ disconnects' = [disconnects EXCEPT ![s] = 1]
  /\ UNCHANGED life

Next == \E s \in Object : Offer(s) \/ Detach(s) \/ Disconnect(s)

Spec == Init /\ [][Next]_vars
=============================================================================
