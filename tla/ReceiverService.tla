--------------------------- MODULE ReceiverService ---------------------------
(***************************************************************************)
(* What the supervisor of one receiver instance promises to the host: at   *)
(* any time at most one process group serves the instance, a group is only *)
(* launched for the generation the host asked for last, and a group the    *)
(* host no longer wants is eventually gone.                                *)
(***************************************************************************)
EXTENDS Integers

CONSTANT Groups        \* names of process groups and of generations

None == 0              \* the host asked for the instance to be stopped

VARIABLES wanted,      \* the generation asked for last, or None
          live         \* the live process groups, each with its generation
vars == <<wanted, live>>

Init == wanted = None /\ live = {}

\* The host asks for a generation, or for a stop.
Request == wanted' \in Groups \cup {None} /\ UNCHANGED live

\* A group is launched, never beside another one and never for anything but
\* the latest request.
Launch ==
  /\ wanted # None
  /\ live = {}
  /\ \E g \in Groups : live' = {<<g, wanted>>}
  /\ UNCHANGED wanted

\* The group goes away: it crashed, or it was stopped.
Retire == live # {} /\ live' = {} /\ UNCHANGED wanted

Next == Request \/ Launch \/ Retire

Obsolete == \E g \in live : g[2] # wanted

Safety == Init /\ [][Next]_vars

\* What the host no longer wants does not stay for ever.
Spec == Safety /\ WF_vars(Obsolete /\ Retire)
=============================================================================
