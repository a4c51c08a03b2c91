---------------------------- MODULE PrismCentral ----------------------------
(***************************************************************************)
(* Nutanix Prism Central as the actuator sees it through the vendored      *)
(* prism-go-client: an inventory of virtual machines that bear the         *)
(* Machine's name, and the asynchronous tasks that create them, power them *)
(* on and delete them.  A request starts a task and returns; the caller    *)
(* then polls the task (Operation.Wait).  Giving up the wait does not stop *)
(* the task.                                                               *)
(*                                                                         *)
(* Everything that can go wrong in the environment is drawn from           *)
(* FaultKinds and counted, so that a configuration names the failures it   *)
(* admits and MaxFaults bounds how many of them happen.                    *)
(***************************************************************************)
EXTENDS Integers, FiniteSets

CONSTANTS
    Uuids,       \* VM UUIDs Prism Central can hand out (bounds the number of VMs ever created)
    None,        \* an unset pointer or an empty string
    FaultKinds,  \* the kinds of failure that may happen
    MaxFaults    \* bound on the number of failures

AllFaultKinds ==
    { "api",          \* a Prism Central call fails and has no effect
      "lost",         \* a call or a wait fails although its task goes on
      "task",         \* an accepted task fails
      "textNotFound", \* a Prism Central call fails with a message that contains "not found"
      "kube",         \* a call of the Kubernetes API fails and has no effect
      "crash",        \* the controller stops; its successor starts from nothing
      "external" }    \* somebody deletes a VM behind the controller's back

ASSUME NoneAssumption == None \notin Uuids
ASSUME FaultAssumption == FaultKinds \subseteq AllFaultKinds /\ MaxFaults \in Nat

VARIABLES
    vmState,  \* life of every UUID
    tasks,    \* power-on and delete tasks that are running
    faults,   \* failures so far
    misreads  \* history: how many of them were taken for the absence of a VM that exists

pcVars == <<vmState, tasks>>

VMStates == {"free", "creating", "off", "on", "gone"}
Task == {"powerOn", "delete"} \X Uuids

\* One more failure of the given kind; NoFault is its absence.
Fault(kind) ==
    /\ kind \in FaultKinds
    /\ faults < MaxFaults
    /\ faults' = faults + 1
    /\ misreads' = IF kind = "textNotFound" THEN misreads + 1 ELSE misreads

NoFault == UNCHANGED <<faults, misreads>>

\* The VMs a List filtered by the Machine's name returns.
Alive == {u \in Uuids : vmState[u] \in {"off", "on"}}

\* VMs whose create task is still running: invisible to List and Get.
Creating == {u \in Uuids : vmState[u] = "creating"}

TasksOf(u) == {t \in tasks : t[2] = u}

PCTypeOK ==
    /\ vmState \in [Uuids -> VMStates]
    /\ tasks \subseteq Task
    /\ faults \in 0 .. MaxFaults
    /\ misreads \in 0 .. faults

PCInit ==
    /\ vmState = [u \in Uuids |-> "free"]
    /\ tasks = {}
    /\ faults = 0
    /\ misreads = 0

-----------------------------------------------------------------------------
(* Lookups.  rec is the Machine as the caller holds it.                    *)

\* Mutant: every lookup goes by name and takes the first VM.
FindsByNameOnly(rec, u) == u \in Alive

\* findVMByUUID and findVMByName: the lookup of reconciler.go uses the
\* recorded VmUUID when there is one and the Machine's name otherwise.
Finds(rec, u) ==
    IF rec.vmUUID # None THEN u = rec.vmUUID /\ u \in Alive ELSE Alive = {u}

\* Mutant: without a VmUUID there is no VM.
FindsNoneByUUID(rec) == rec.vmUUID \notin Alive

\* No VM is there to be found: the lookup fails, and rightly with "not found".
FindsNone(rec) ==
    IF rec.vmUUID # None THEN rec.vmUUID \notin Alive ELSE Alive = {}

\* "found more than one": an error that isNotFoundError does not recognise.
FindFails(rec) == ~FindsNone(rec) /\ \A u \in Uuids : ~Finds(rec, u)

\* isNotFoundError is a test on the text of the error: a lookup, a delete
\* request or a wait that fails for any other reason counts as "there is no
\* such VM" when the text says "not found" or "not_found".
ReadsNone(rec) ==
    (NoFault /\ FindsNone(rec)) \/ (Fault("textNotFound") /\ ~FindsNone(rec))

ReadsGone(u) ==
    (NoFault /\ u \notin Alive) \/ (Fault("textNotFound") /\ u \in Alive)

-----------------------------------------------------------------------------
(* Requests.                                                               *)

SubmitCreate(u) ==
    /\ vmState[u] = "free"
    /\ vmState' = [vmState EXCEPT ![u] = "creating"]
    /\ UNCHANGED tasks

Submit(kind, u) ==
    /\ tasks' = tasks \cup {<<kind, u>>}
    /\ UNCHANGED vmState

-----------------------------------------------------------------------------
(* Tasks run on their own.                                                 *)

CreateDone(u) ==
    /\ vmState[u] = "creating"
    /\ vmState' = [vmState EXCEPT ![u] = "off"]
    /\ NoFault
    /\ UNCHANGED tasks

CreateFailed(u) ==
    /\ vmState[u] = "creating"
    /\ Fault("task")
    /\ vmState' = [vmState EXCEPT ![u] = "gone"]
    /\ UNCHANGED tasks

PowerOnDone(u) ==
    /\ <<"powerOn", u>> \in tasks
    /\ vmState' = [vmState EXCEPT ![u] = "on"]
    /\ tasks' = tasks \ {<<"powerOn", u>>}
    /\ NoFault

DeleteDone(u) ==
    /\ <<"delete", u>> \in tasks
    /\ vmState' = [vmState EXCEPT ![u] = "gone"]
    /\ tasks' = tasks \ TasksOf(u)
    /\ NoFault

TaskFailed(t) ==
    /\ t \in tasks
    /\ Fault("task")
    /\ tasks' = tasks \ {t}
    /\ UNCHANGED vmState

\* An administrator deletes the VM in Prism Central.
ExternalDelete(u) ==
    /\ u \in Alive
    /\ Fault("external")
    /\ vmState' = [vmState EXCEPT ![u] = "gone"]
    /\ tasks' = tasks \ TasksOf(u)

PCNext ==
    \/ \E u \in Uuids : CreateDone(u)
    \/ \E u \in Uuids : CreateFailed(u)
    \/ \E u \in Uuids : PowerOnDone(u)
    \/ \E u \in Uuids : DeleteDone(u)
    \/ \E u \in Uuids : ExternalDelete(u)
    \/ \E t \in tasks : TaskFailed(t)

\* A task that Prism Central accepted ends, one way or the other.
PCFairness ==
    \A u \in Uuids :
        /\ WF_pcVars(CreateDone(u))
        /\ WF_pcVars(PowerOnDone(u))
        /\ WF_pcVars(DeleteDone(u))
=============================================================================
