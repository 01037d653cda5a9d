------------------------------ MODULE WorkerMC ------------------------------
(* Small instances of Worker for TLC. *)
EXTENDS Worker, TLC

CONSTANTS t1, t2, t3, tart, vetu, parallels, i1, i2, i3

(* One worker with two units of a resource, a task of each isolation that  *)
(* the security settings allow, one of the isolation they forbid, which    *)
(* uses none of the resource, and a standby configuration for each of the  *)
(* three.                                                                  *)
MCTasks == {t1, t2}
MCThreeTasks == {t1, t2, t3}
MCIsolations == {tart, vetu}
MCThreeIsolations == {tart, vetu, parallels}
MCVetu == {vetu}
MCInstances == {i1, i2, i3}
(* Instances are interchangeable identities. *)
MCSymmetry == Permutations(MCInstances)
MCOneTask == {t1}
MCOneTaskIsolation == [t \in {t1} |-> tart]
MCOneResourcesToUse == [t \in {t1} |-> [vms |-> 1]]
MCTwoInstances == {i1, i2}
MCNoMatch == [m \in {} |-> 0]
MCResources == {"vms"}
MCTotal == [r \in MCResources |-> 2]
MCTaskIsolation == [t \in MCTasks |-> IF t = t1 THEN tart ELSE vetu]
MCThreeTaskIsolation ==
    [t \in MCThreeTasks |->
        CASE t = t1 -> tart [] t = t2 -> vetu [] OTHER -> parallels]
MCThreeResourcesToUse ==
    [t \in MCThreeTasks |-> [vms |-> IF t = t3 THEN 0 ELSE 1]]
MCResourcesToUse == [t \in MCTasks |-> [vms |-> 1]]
MCStandby == {[isolation |-> tart, resources |-> [vms |-> 1]],
              [isolation |-> vetu, resources |-> [vms |-> 1]]}
MCThreeStandby ==
    MCStandby \cup {[isolation |-> parallels, resources |-> [vms |-> 1]]}
MCTartStandby == {[isolation |-> tart, resources |-> [vms |-> 1]]}
MCOneModifier == [m \in {1} |-> [vms |-> 1]]
=============================================================================
