----------------------------- MODULE Reconciler -----------------------------
(***************************************************************************)
(* What a reconciling overlay promises about one kernel table, whatever    *)
(* its inputs do: nothing is touched outside a pass; as long as the inputs *)
(* of the pass stand, a pass neither removes an item that is wanted nor    *)
(* installs one that is not; and a pass that reports success has left      *)
(* exactly the wanted items.  How a pass gets there, what fails in it and  *)
(* how many callers compete for it is the business of the implementation   *)
(* (module IpsecRefinement).                                               *)
(***************************************************************************)
CONSTANT Item

VARIABLES
  desired,     \* the items the inputs ask for
  installed,   \* the items in the table
  busy,        \* is a pass running?
  status,      \* outcome of the last pass: "none", "nil" or "err"
  moved        \* have inputs been replaced since the last pass began?

vars == <<desired, installed, busy, status, moved>>

Init ==
  /\ desired \in SUBSET Item /\ installed \in SUBSET Item
  /\ busy = FALSE /\ status = "none" /\ moved = TRUE

(* Inputs are replaced; that may or may not change what is wanted.         *)
Retarget ==
  /\ desired' \in SUBSET Item
  /\ moved' \in {moved, TRUE} /\ (desired' # desired => moved')
  /\ UNCHANGED <<installed, busy, status>>

(* The process is started again and takes in its inputs afresh.            *)
Start ==
  /\ ~busy /\ moved /\ desired' \in SUBSET Item
  /\ UNCHANGED <<installed, busy, status, moved>>

Begin ==
  /\ ~busy /\ busy' = TRUE /\ moved' = FALSE
  /\ UNCHANGED <<desired, installed, status>>

(* A pass that cannot even begin.                                          *)
Refuse == ~busy /\ status' = "err" /\ UNCHANGED <<desired, installed, busy, moved>>

Edit ==
  /\ busy
  /\ installed' \in SUBSET Item
  /\ ~moved => /\ installed \cap desired \subseteq installed'
               /\ installed' \subseteq installed \cup desired
  /\ UNCHANGED <<desired, busy, status, moved>>

Succeed ==
  /\ busy /\ busy' = FALSE /\ status' = "nil"
  /\ ~moved => installed = desired
  /\ UNCHANGED <<desired, installed, moved>>

Fail == busy /\ busy' = FALSE /\ status' = "err" /\ UNCHANGED <<desired, installed, moved>>

(* The process ends; the kernel keeps the table.                           *)
Crash ==
  /\ busy' = FALSE /\ status' = "none" /\ moved' = TRUE
  /\ UNCHANGED <<desired, installed>>

Next == Retarget \/ Start \/ Begin \/ Refuse \/ Edit \/ Succeed \/ Fail \/ Crash

Spec == Init /\ [][Next]_vars

=============================================================================
