----------------------------- MODULE UnitOfWork -----------------------------
(***************************************************************************)
(* What an editing context promises its application: the application       *)
(* changes its view of the objects as it likes, and a save that returns    *)
(* has made the database equal to that view, in one step and at one moment *)
(* of the call.  A save that raises may have written nothing or, when it   *)
(* raises after it has written, all of it.                                 *)
(***************************************************************************)
CONSTANTS Object, Value

VARIABLES
  stored,  \* the values in the database
  view,    \* the values that the application sees
  save     \* the save in progress: none, not yet written, written

vars == <<stored, view, save>>

Init ==
  /\ stored \in [Object -> Value]
  /\ view = stored
  /\ save = "none"

(* The application's code, which a save may call back as well.             *)
Change ==
  /\ view' \in [Object -> Value]
  /\ UNCHANGED <<stored, save>>

Start ==
  /\ save = "none"
  /\ save' = "open"
  /\ UNCHANGED <<stored, view>>

Write ==
  /\ save = "open"
  /\ stored' = view
  /\ save' = "written"
  /\ UNCHANGED view

(* A callback that raises may have changed the view before.                *)
Raise ==
  /\ save = "open"
  /\ save' = "none"
  /\ view' \in [Object -> Value]
  /\ UNCHANGED stored

Return ==
  /\ save = "written"
  /\ save' = "none"
  /\ view' \in [Object -> Value]
  /\ UNCHANGED stored

Next == Change \/ Start \/ Write \/ Raise \/ Return

Spec == Init /\ [][Next]_vars
=============================================================================
