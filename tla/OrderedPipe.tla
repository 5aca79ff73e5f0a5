---------------------------- MODULE OrderedPipe ----------------------------
(***************************************************************************)
(* What sending on a session promises: messages leave in the order they    *)
(* were accepted, each once and whole, until the connection breaks; after  *)
(* a message has been cut nothing follows it on the wire.                  *)
(***************************************************************************)
EXTENDS Naturals, Sequences

CONSTANT Message

VARIABLES
  sent,    \* the messages accepted, in order
  wire,    \* the messages that have left whole, in order
  cut      \* TRUE when the last message has left in part only

vars == <<sent, wire, cut>>

Init == sent = <<>> /\ wire = <<>> /\ cut = FALSE

Accept(m) == /\ sent' = Append(sent, m)
             /\ UNCHANGED <<wire, cut>>

Deliver == /\ ~cut
           /\ Len(wire) < Len(sent)
           /\ wire' = Append(wire, sent[Len(wire) + 1])
           /\ UNCHANGED <<sent, cut>>

Cut == /\ cut' = TRUE
       /\ UNCHANGED <<sent, wire>>

Next == (\E m \in Message : Accept(m)) \/ Deliver \/ Cut

Spec == Init /\ [][Next]_vars
=============================================================================
