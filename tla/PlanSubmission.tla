--------------------------- MODULE PlanSubmission ---------------------------
(***************************************************************************)
(* What `cluster upgrade` promises of the one Plan of a cluster: each      *)
(* command submits its version in one step and at most once, to the plan   *)
(* that is there then or, if there is none, to a new one; it takes nothing *)
(* away that the controller has recorded, and it is confirmed only to who  *)
(* has submitted. That the code needs up to three calls for it, between    *)
(* which anything may happen, is nowhere to be seen.                       *)
(***************************************************************************)

CONSTANTS Operators,  \* executions of `cluster upgrade`
          NoOperator

VARIABLES by,         \* whose version the plan holds; NoOperator without a plan
          status,     \* has the controller recorded status in it?
          submitted,  \* operators that have submitted
          confirmed   \* operators that were told so

vars == <<by, status, submitted, confirmed>>

Init == by = NoOperator /\ status = FALSE /\ submitted = {} /\ confirmed = {}

Submit(o) ==
  /\ o \notin submitted
  /\ submitted' = submitted \cup {o}
  /\ by' = o
  /\ UNCHANGED <<status, confirmed>>

Confirm(o) ==
  /\ o \in submitted \ confirmed
  /\ confirmed' = confirmed \cup {o}
  /\ UNCHANGED <<by, status, submitted>>

Mark ==
  /\ by /= NoOperator
  /\ status' = TRUE
  /\ UNCHANGED <<by, submitted, confirmed>>

Delete ==
  /\ by' = NoOperator /\ status' = FALSE
  /\ UNCHANGED <<submitted, confirmed>>

Next == (\E o \in Operators : Submit(o) \/ Confirm(o)) \/ Mark \/ Delete

Spec == Init /\ [][Next]_vars
=============================================================================
