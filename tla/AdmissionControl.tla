-------------------------- MODULE AdmissionControl --------------------------
(***************************************************************************)
(* What the two-level semaphore of gloam-commands promises an application:  *)
(* an interaction is admitted at most once, in one step, and only while     *)
(* both its command and the whole framework have room; after it has left it *)
(* counts against nothing.  No permits, no order of acquisition, no         *)
(* refusals: Execution implements this.                                     *)
(***************************************************************************)
EXTENDS Integers, FiniteSets

CONSTANTS Interactions, Commands, Limited, CommandLimit, GlobalLimit, NoCommand

VARIABLES bound,     \* the command each interaction resolved to
          active,    \* interactions being executed
          departed   \* interactions whose execution has ended

avars == <<bound, active, departed>>

Of(c) == {i \in active : bound[i] = c}

AInit ==
  /\ bound = [i \in Interactions |-> NoCommand]
  /\ active = {}
  /\ departed = {}

Bind(i, c) ==
  /\ bound[i] = NoCommand
  /\ i \notin active \cup departed
  /\ bound' = [bound EXCEPT ![i] = c]
  /\ UNCHANGED <<active, departed>>

Admit(i) ==
  /\ i \notin active \cup departed
  /\ Cardinality(active) < GlobalLimit
  /\ bound[i] \in Limited => Cardinality(Of(bound[i])) < CommandLimit[bound[i]]
  /\ active' = active \cup {i}
  /\ UNCHANGED <<bound, departed>>

Leave(i) ==
  /\ i \in active
  /\ active' = active \ {i}
  /\ departed' = departed \cup {i}
  /\ UNCHANGED bound

ANext ==
  \E i \in Interactions :
    \/ \E c \in Commands : Bind(i, c)
    \/ Admit(i)
    \/ Leave(i)

ASpec == AInit /\ [][ANext]_avars
=============================================================================
