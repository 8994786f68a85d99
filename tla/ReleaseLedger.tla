---------------------------- MODULE ReleaseLedger ---------------------------
(***************************************************************************)
(* What the state file promises: it is a register that moves, in one step, *)
(* from one whole record to the next; only a run whose Helm phase succeeded*)
(* is recorded, and each of them at most once.                             *)
(***************************************************************************)

CONSTANTS Runs,   \* executions of `app install` and `app upgrade`
          NoRun

VARIABLES installed,  \* runs whose Helm phase succeeded
          recorded,  \* runs whose record has been in the file
          entry      \* the run the file tells of

vars == <<installed, recorded, entry>>

Init == installed = {} /\ recorded = {} /\ entry = NoRun

Install(r) ==
  /\ r \notin installed
  /\ installed' = installed \cup {r}
  /\ UNCHANGED <<recorded, entry>>

Record(r) ==
  /\ r \in installed \ recorded
  /\ recorded' = recorded \cup {r}
  /\ entry' = r
  /\ UNCHANGED installed

Next == \E r \in Runs : Install(r) \/ Record(r)

Spec == Init /\ [][Next]_vars
=============================================================================
