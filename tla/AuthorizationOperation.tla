----------------------- MODULE AuthorizationOperation -----------------------
(***************************************************************************)
(* What the OAuth operation of one source promises to its user, with no    *)
(* requests, versions or files: it waits for a callback, one exchange      *)
(* settles it, and what was settled, cancelled or expired stays so until   *)
(* a new operation begins or the source is deleted.                        *)
(***************************************************************************)

VARIABLES
  state,   \* state of the operation, "none" if there is none
  due      \* its expiresAtUnix has passed
vars == <<state, due>>

Active == {"waiting-for-callback", "validating"}

Init == state = "none" /\ due = FALSE

\* An active operation that is not due is never replaced.
Begin ==
  /\ state \in Active => due
  /\ state' = "waiting-for-callback"
  /\ due' = FALSE

Validate ==
  /\ state = "waiting-for-callback"
  /\ state' = "validating"
  /\ UNCHANGED due

Settle ==
  /\ state = "validating"
  /\ state' \in {"succeeded", "failed"}
  /\ UNCHANGED due

Cancel ==
  /\ state \in Active
  /\ state' = "cancelled"
  /\ UNCHANGED due

Expire ==
  /\ state \in Active
  /\ due
  /\ state' = "expired"
  /\ UNCHANGED due

Delete ==
  /\ state # "none"
  /\ state' = "none"
  /\ due' = FALSE

Age ==
  /\ state \in Active
  /\ due' = TRUE
  /\ UNCHANGED state

Next == Begin \/ Validate \/ Settle \/ Cancel \/ Expire \/ Delete \/ Age

Spec == Init /\ [][Next]_vars
===============================================================================
