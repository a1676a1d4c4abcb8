---------------------------- MODULE LabRegistry ----------------------------
(***************************************************************************)
(* What `netnslab deploy` and `netnslab destroy` promise about a lab,      *)
(* whatever number of kernel objects and files it is made of.  A lab is    *)
(* absent or deployed whenever no command works on it: deployed means      *)
(* that all of it exists, absent that nothing of it is left.  A deploy     *)
(* ends in either; a destroy only in absent.  Nothing is promised about a  *)
(* lab that was damaged: a command was killed while it worked on it, or    *)
(* failed to remove something.  LabLifecycle implements this one `ip`      *)
(* command at a time.                                                      *)
(***************************************************************************)
CONSTANT Labs

VARIABLES
  status,   \* per lab: absent, building, deployed, removing, damaged
  extent    \* per lab: how much of it exists, none, some or all

vars == <<status, extent>>

Extents == {"none", "some", "all"}

Init ==
  /\ status = [l \in Labs |-> "absent"]
  /\ extent = [l \in Labs |-> "none"]

(* A command takes the lab on: a deploy one that is absent, a destroy one  *)
(* that is deployed.                                                       *)
Begin(l) ==
  /\ \/ status[l] = "absent"   /\ status' = [status EXCEPT ![l] = "building"]
     \/ status[l] = "deployed" /\ status' = [status EXCEPT ![l] = "removing"]
  /\ UNCHANGED extent

(* The command creates or removes something.                               *)
Work(l) ==
  /\ status[l] \in {"building", "removing", "damaged"}
  /\ \E e \in Extents : extent' = [extent EXCEPT ![l] = e]
  /\ UNCHANGED status

Commit(l) ==
  /\ status[l] = "building"
  /\ status' = [status EXCEPT ![l] = "deployed"]
  /\ extent' = [extent EXCEPT ![l] = "all"]

(* The end of a rollback or of a destroy.                                  *)
Clear(l) ==
  /\ status[l] \in {"building", "removing"}
  /\ status' = [status EXCEPT ![l] = "absent"]
  /\ extent' = [extent EXCEPT ![l] = "none"]

Damage(l) ==
  /\ status' = [status EXCEPT ![l] = "damaged"]
  /\ \E e \in Extents : extent' = [extent EXCEPT ![l] = e]

Next == \E l \in Labs : Begin(l) \/ Work(l) \/ Commit(l) \/ Clear(l) \/ Damage(l)

Spec == Init /\ [][Next]_vars
=============================================================================
