--------------------------- MODULE SandboxUpgrade ---------------------------
(***************************************************************************)
(* One employee and its sandboxes: the request that queues an upgrade      *)
(* (internal/handler/employees_upgrade.go), the worker that carries it out *)
(* and rolls it back, the retirement of the old sandbox                    *)
(* (internal/tasks/employee_sandbox_*.go), the trigger deliveries that     *)
(* write to the runtime meanwhile (employee_trigger_dispatch.go), the sync *)
(* that creates a missing sandbox and the health check                     *)
(* (internal/sandbox/orchestrator_health.go).                              *)
(*                                                                         *)
(* A step is one statement or transaction, one provider call, or one call  *)
(* of a runtime.  Sandbox rows are numbered in creation order, so that     *)
(* "ORDER BY created_at DESC" is the greatest number.                      *)
(***************************************************************************)
EXTENDS Naturals, FiniteSets, FiniteSetsExt

CONSTANTS
  MaxBoxes,     \* bound: sandboxes ever created
  MaxUpgrades,  \* bound: upgrade rows ever created
  MaxWrites,    \* bound: messages the runtimes accept
  Callers,      \* StartSandboxUpgrade requests that may run at once
  Deliveries,   \* trigger deliveries that may run at once
  MaxEvents     \* bound: failures, crashes and provider faults

ASSUME UpgradeConstants ==
  /\ MaxBoxes \in Nat \ {0} /\ MaxUpgrades \in Nat \ {0}
  /\ MaxWrites \in Nat /\ MaxEvents \in Nat

VARIABLES
  box,      \* the sandboxes: row status, provider resource, runtime database
  upgrade,  \* the employee_sandbox_upgrades rows
  slot,     \* the queue's task with the ID "employee-sandbox-upgrade:<employee>"
  caller,   \* StartSandboxUpgrade requests
  worker,   \* EmployeeSandboxUpgradeHandler.run
  retire,   \* retirement tasks: the scheduled ones and the one past its checks
  delivery, \* EmployeeTriggerDispatchHandler.deliver
  probe,    \* checkSandboxHealth between the provider's answer and its write
  sync,     \* the sandbox ensureEmployeeSandbox is creating
  acked,    \* number of messages accepted so far: message n is the n-th
  exempt,   \* history: messages accepted during an upgrade, by a sandbox that was being retired or
            \* no longer the current, running one, or held by one whose retirement is due when a
            \* health check calls it stopped, or a second upgrade is replacing it or gives up with
            \* it stopped
  lost,     \* history: upgrades whose task or process went away before they settled
  fallen,   \* history: a health check, a crash, a timeout or an upgrade of a sandbox replaced
            \* meanwhile changed which sandbox is current
  events    \* what MaxEvents bounds

vars == <<box, upgrade, slot, caller, worker, retire, delivery, probe, sync,
          acked, exempt, lost, fallen, events>>
-----------------------------------------------------------------------------
Boxes == 1 .. MaxBoxes
Upgrades == 1 .. MaxUpgrades
Writes == 1 .. MaxWrites
Statuses == {"none", "creating", "running", "stopped", "error", "gone"}
Resources == {"none", "up", "down", "broken", "gone"}
ActiveStatus == {"queued", "running"}
Phases == {"backup", "create", "restore", "stop_new", "start_new", "sync", "pause", "cleanup", "finish"}

BoxState == [row : Statuses, res : Resources, db : SUBSET Writes]
UpgradeState == [st : ActiveStatus \cup {"none", "succeeded", "failed"},
                 old : 0 .. MaxBoxes, new : 0 .. MaxBoxes]
SlotState == [st : {"free", "pending", "active", "archived"}, u : 0 .. MaxUpgrades]
CallerState == [pc : {"idle", "checked", "cleared", "created"}, u : 0 .. MaxUpgrades]
WorkerState == [pc : Phases \cup {"idle", "provision", "undo", "undo_old"}, u : 0 .. MaxUpgrades,
                old : 0 .. MaxBoxes, new : 0 .. MaxBoxes, backup : SUBSET Writes, paused : BOOLEAN]
DeliveryState == [pc : {"idle", "loaded"}, b : 0 .. MaxBoxes, st : Statuses]

NoBox == [row |-> "none", res |-> "none", db |-> {}]
NoUpgrade == [st |-> "none", old |-> 0, new |-> 0]
IdleWorker == [pc |-> "idle", u |-> 0, old |-> 0, new |-> 0, backup |-> {}, paused |-> FALSE]
IdleDelivery == [pc |-> "idle", b |-> 0, st |-> "none"]
NoProbe == [b |-> 0, st |-> "none"]
FreeSlot == [st |-> "free", u |-> 0]

\* status <> 'error', newest first: the current sandbox of every reader
Rows == {b \in Boxes : box[b].row \notin {"none", "gone", "error"}}
Newest == IF Rows = {} THEN 0 ELSE Max(Rows)
Unmade == {b \in Boxes : box[b].row = "none"}
NextBox == Min(Unmade)
FreeUpgrades == {u \in Upgrades : upgrade[u].st = "none"}
NextUpgrade == Min(FreeUpgrades)

\* activeEmployeeSandboxUpgrade
ActiveUpgrades == {u \in Upgrades : upgrade[u].st \in ActiveStatus}
RetirementDue(b) == \E u \in retire.due : upgrade[u].st = "succeeded" /\ upgrade[u].old = b

\* An UPDATE by id changes nothing once the row is deleted
SetRow(b, st) == IF box[b].row = "gone" THEN box[b] ELSE [box[b] EXCEPT !.row = st]
Fault == events < MaxEvents /\ events' = events + 1
NoFault == UNCHANGED events

\* A sandbox in use again is left to the retirement that is still due
LeftToRetire(b) == exempt' = IF RetirementDue(b) THEN exempt \cup box[b].db ELSE exempt

Init ==
  /\ box = [b \in Boxes |-> IF b = 1 THEN [row |-> "running", res |-> "up", db |-> {}] ELSE NoBox]
  /\ upgrade = [u \in Upgrades |-> NoUpgrade]
  /\ slot = FreeSlot
  /\ caller = [c \in Callers |-> [pc |-> "idle", u |-> 0]]
  /\ worker = IdleWorker
  /\ retire = [due |-> {}, at |-> 0]
  /\ delivery = [d \in Deliveries |-> IdleDelivery]
  /\ probe = NoProbe
  /\ sync = 0
  /\ acked = 0 /\ exempt = {} /\ lost = {} /\ fallen = FALSE /\ events = 0
-----------------------------------------------------------------------------
(* StartSandboxUpgrade.                                                    *)

SetCaller(c, pc, u) == caller' = [caller EXCEPT ![c] = [pc |-> pc, u |-> u]]

\* An active upgrade is returned as it is; otherwise the request goes on
CheckActive(c) ==
  /\ caller[c].pc = "idle" /\ ActiveUpgrades = {} /\ FreeUpgrades # {}
  /\ SetCaller(c, "checked", 0)
  /\ NoFault
  /\ UNCHANGED <<box, upgrade, slot, worker, retire, delivery, probe, sync, acked, exempt, lost, fallen>>

\* DeleteTask removes a pending or an archived task and refuses an active one
ClearStale(c) ==
  /\ caller[c].pc = "checked"
  /\ IF slot.st = "active"
       THEN SetCaller(c, "idle", 0) /\ UNCHANGED <<slot, lost>>
       ELSE /\ SetCaller(c, "cleared", 0)
            /\ slot' = FreeSlot
            /\ lost' = IF slot.st = "pending" THEN lost \cup {slot.u} ELSE lost
  /\ NoFault
  /\ UNCHANGED <<box, upgrade, worker, retire, delivery, probe, sync, acked, exempt, fallen>>

CreateUpgrade(c) ==
  /\ caller[c].pc = "cleared"
  /\ IF Newest = 0 \/ FreeUpgrades = {}
       THEN SetCaller(c, "idle", 0) /\ UNCHANGED upgrade
       ELSE /\ SetCaller(c, "created", NextUpgrade)
            /\ upgrade' = [upgrade EXCEPT ![NextUpgrade] =
                             [st |-> "queued", old |-> Newest, new |-> 0]]
  /\ NoFault
  /\ UNCHANGED <<box, slot, worker, retire, delivery, probe, sync, acked, exempt, lost, fallen>>

\* A task ID conflict fails the new row
EnqueueUpgrade(c) ==
  LET u == caller[c].u IN
  /\ caller[c].pc = "created"
  /\ SetCaller(c, "idle", 0)
  /\ IF slot.st = "free"
       THEN slot' = [st |-> "pending", u |-> u] /\ UNCHANGED upgrade
       ELSE upgrade' = [upgrade EXCEPT ![u].st = "failed"] /\ UNCHANGED slot
  /\ NoFault
  /\ UNCHANGED <<box, worker, retire, delivery, probe, sync, acked, exempt, lost, fallen>>

\* Redis answers with an error, having stored the task or not: markUpgradeFailed
EnqueueFails(c) ==
  LET u == caller[c].u IN
  /\ caller[c].pc = "created"
  /\ SetCaller(c, "idle", 0)
  /\ upgrade' = [upgrade EXCEPT ![u].st = "failed"]
  /\ slot' \in {slot} \cup (IF slot.st = "free" THEN {[st |-> "pending", u |-> u]} ELSE {})
  /\ Fault
  /\ UNCHANGED <<box, worker, retire, delivery, probe, sync, acked, exempt, lost, fallen>>

CallerCrashes(c) ==
  /\ caller[c].pc = "created"
  /\ SetCaller(c, "idle", 0)
  /\ lost' = lost \cup {caller[c].u}
  /\ Fault
  /\ UNCHANGED <<box, upgrade, slot, worker, retire, delivery, probe, sync, acked, exempt, fallen>>
-----------------------------------------------------------------------------
(* CreateEmployeeSandbox, for the worker and for a sync: a row, then the   *)
(* provider's resource, then the running row.                              *)

NewRow == box' = [box EXCEPT ![NextBox] = [NoBox EXCEPT !.row = "creating"]]
Provisioned(b) == box' = [box EXCEPT ![b] = [row |-> "running", res |-> "up", db |-> {}]]
\* The provider refuses (the row is deleted), or no endpoint, health or clone (an error row)
NotProvisioned(b) ==
  box' \in {[box EXCEPT ![b] = [NoBox EXCEPT !.row = "gone"]],
            [box EXCEPT ![b] = [row |-> "error", res |-> "up", db |-> {}]]}
-----------------------------------------------------------------------------
(* EmployeeSandboxUpgradeHandler.run.                                      *)

At(pc) == worker.pc = pc
Goto(pc) == worker' = [worker EXCEPT !.pc = pc]
Ends(st, queue) ==
  /\ upgrade' = [upgrade EXCEPT ![worker.u].st = st]
  /\ slot' = IF queue = "free" THEN FreeSlot ELSE [st |-> queue, u |-> worker.u]
  /\ worker' = IdleWorker

\* loadAndStart: a settled upgrade is a no-op, a missing old sandbox a failure.  The old
\* sandbox is the one the request recorded, which a racing upgrade may have replaced since
LoadAndStart ==
  LET u == slot.u IN
  /\ slot.st = "pending" /\ At("idle")
  /\ \/ /\ upgrade[u].st \notin ActiveStatus
        /\ slot' = FreeSlot
        /\ UNCHANGED <<upgrade, worker, fallen>>
     \/ /\ upgrade[u].st \in ActiveStatus /\ upgrade[u].old \notin Rows
        /\ upgrade' = [upgrade EXCEPT ![u].st = "failed"]
        /\ slot' = [slot EXCEPT !.st = "archived"]
        /\ UNCHANGED <<worker, fallen>>
     \/ /\ upgrade[u].st \in ActiveStatus /\ upgrade[u].old \in Rows
        /\ upgrade' = [upgrade EXCEPT ![u].st = "running"]
        /\ slot' = [slot EXCEPT !.st = "active"]
        /\ worker' = [IdleWorker EXCEPT !.pc = "backup", !.u = u, !.old = upgrade[u].old]
        /\ fallen' = (fallen \/ upgrade[u].old # Newest)
  /\ NoFault
  /\ UNCHANGED <<box, caller, retire, delivery, probe, sync, acked, exempt, lost>>

RunBackup ==
  /\ At("backup") /\ box[worker.old].res = "up"
  /\ worker' = [worker EXCEPT !.pc = "create", !.backup = box[worker.old].db]
  /\ NoFault
  /\ UNCHANGED <<box, upgrade, slot, caller, retire, delivery, probe, sync, acked, exempt, lost, fallen>>

CreateRow ==
  /\ At("create") /\ Unmade # {}
  /\ NewRow
  /\ worker' = [worker EXCEPT !.pc = "provision", !.new = NextBox]
  /\ NoFault
  /\ UNCHANGED <<upgrade, slot, caller, retire, delivery, probe, sync, acked, exempt, lost, fallen>>

Provision ==
  /\ At("provision")
  /\ \/ /\ Provisioned(worker.new) /\ NoFault
        /\ Goto("restore")
        /\ upgrade' = [upgrade EXCEPT ![worker.u].new = worker.new]
     \/ /\ NotProvisioned(worker.new) /\ Fault
        /\ worker' = [worker EXCEPT !.pc = "undo", !.new = 0]
        /\ UNCHANGED upgrade
  /\ UNCHANGED <<slot, caller, retire, delivery, probe, sync, acked, exempt, lost, fallen>>

\* Mutant: the backup is not restored.
NoRestore ==
  /\ At("restore") /\ box[worker.new].res = "up"
  /\ Goto("stop_new")
  /\ NoFault
  /\ UNCHANGED <<box, upgrade, slot, caller, retire, delivery, probe, sync, acked, exempt, lost, fallen>>

RunRestore ==
  /\ At("restore") /\ box[worker.new].res = "up"
  /\ box' = [box EXCEPT ![worker.new].db = worker.backup]
  /\ Goto("stop_new")
  /\ NoFault
  /\ UNCHANGED <<upgrade, slot, caller, retire, delivery, probe, sync, acked, exempt, lost, fallen>>

\* StopSandbox and StartEmployeeSandbox on what the provider can still stop and start
CanStop(b) == box[b].res \in {"up", "down"}
Stopped(b) == box' = [box EXCEPT ![b] = [SetRow(b, "stopped") EXCEPT !.res = "down"]]
Started(b) == box' = [box EXCEPT ![b] = [SetRow(b, "running") EXCEPT !.res = "up"]]

StopNew ==
  /\ At("stop_new") /\ CanStop(worker.new)
  /\ Stopped(worker.new) /\ Goto("start_new")
  /\ NoFault
  /\ UNCHANGED <<upgrade, slot, caller, retire, delivery, probe, sync, acked, exempt, lost, fallen>>

StartNew ==
  /\ At("start_new") /\ CanStop(worker.new)
  /\ Started(worker.new) /\ Goto("sync")
  /\ NoFault
  /\ UNCHANGED <<upgrade, slot, caller, retire, delivery, probe, sync, acked, exempt, lost, fallen>>

SyncRuntime ==
  /\ At("sync") /\ box[worker.new].res = "up"
  /\ Goto("pause")
  /\ NoFault
  /\ UNCHANGED <<box, upgrade, slot, caller, retire, delivery, probe, sync, acked, exempt, lost, fallen>>

PauseOld ==
  /\ At("pause") /\ CanStop(worker.old)
  /\ Stopped(worker.old)
  /\ worker' = [worker EXCEPT !.pc = "cleanup", !.paused = TRUE]
  /\ NoFault
  /\ UNCHANGED <<upgrade, slot, caller, retire, delivery, probe, sync, acked, exempt, lost, fallen>>

\* scheduleOldSandboxRetirement; a failure is only logged
ScheduleRetirement ==
  /\ At("cleanup")
  /\ \/ retire' = [retire EXCEPT !.due = @ \cup {worker.u}] /\ NoFault
     \/ UNCHANGED retire /\ Fault
  /\ Goto("finish")
  /\ UNCHANGED <<box, upgrade, slot, caller, delivery, probe, sync, acked, exempt, lost, fallen>>

MarkSucceeded ==
  /\ At("finish")
  /\ Ends("succeeded", "free")
  /\ NoFault
  /\ UNCHANGED <<box, caller, retire, delivery, probe, sync, acked, exempt, lost, fallen>>

\* Any phase may return an error: fail()
Cannot == \/ At("backup") /\ box[worker.old].res # "up"
          \/ worker.pc \in {"restore", "sync"} /\ box[worker.new].res # "up"
          \/ worker.pc \in {"stop_new", "start_new"} /\ ~CanStop(worker.new)
          \/ At("pause") /\ ~CanStop(worker.old)
          \/ At("create") /\ Unmade = {}
PhaseFails ==
  /\ worker.pc \in Phases
  /\ Goto("undo")
  /\ (Cannot /\ NoFault) \/ (~Cannot /\ Fault)
  /\ UNCHANGED <<box, upgrade, slot, caller, retire, delivery, probe, sync, acked, exempt, lost, fallen>>

\* DeleteSandbox drops the row even when the provider's delete fails
Deleted(b) ==
  \/ box' = [box EXCEPT ![b] = [row |-> "gone", res |-> "gone", db |-> {}]] /\ NoFault
  \/ box' = [box EXCEPT ![b].row = "gone"] /\ Fault

UndoNew ==
  /\ At("undo")
  /\ IF worker.new = 0 THEN UNCHANGED <<box, events>> ELSE Deleted(worker.new)
  /\ Goto("undo_old")
  /\ UNCHANGED <<upgrade, slot, caller, retire, delivery, probe, sync, acked, exempt, lost, fallen>>

\* Mutant: a failed upgrade is not marked failed.
UndoForgotten ==
  /\ At("undo_old")
  /\ slot' = [slot EXCEPT !.st = "archived"] /\ worker' = IdleWorker
  /\ NoFault
  /\ UNCHANGED <<box, upgrade, caller, retire, delivery, probe, sync, acked, exempt, lost, fallen>>

\* A paused old sandbox is started again, an unpaused one only marked running
UndoOld ==
  /\ At("undo_old")
  /\ \/ /\ worker.paused /\ CanStop(worker.old) /\ Started(worker.old)
        /\ NoFault /\ UNCHANGED exempt
     \/ /\ worker.paused /\ UNCHANGED box
        /\ IF CanStop(worker.old) THEN Fault ELSE NoFault
        /\ LeftToRetire(worker.old)
     \/ /\ ~worker.paused
        /\ box' = [box EXCEPT ![worker.old] = SetRow(worker.old, "running")]
        /\ NoFault /\ UNCHANGED exempt
  /\ Ends("failed", "archived")
  /\ UNCHANGED <<caller, retire, delivery, probe, sync, acked, lost, fallen>>

\* Mutant: the queue does not notice that its worker died.
CrashUnnoticed ==
  /\ worker.pc # "idle"
  /\ worker' = IdleWorker
  /\ lost' = lost \cup {worker.u} /\ fallen' = TRUE
  /\ Fault
  /\ UNCHANGED <<box, upgrade, slot, caller, retire, delivery, probe, sync, acked, exempt>>

\* The process dies, or a markPhase of the first phases fails: MaxRetry(0), nothing resumes it
WorkerCrashes ==
  /\ worker.pc # "idle"
  /\ Ends("running", "archived")
  /\ lost' = lost \cup {worker.u} /\ fallen' = TRUE
  /\ IF At("undo_old") /\ worker.paused THEN LeftToRetire(worker.old) ELSE UNCHANGED exempt
  /\ Fault
  /\ UNCHANGED <<box, caller, retire, delivery, probe, sync, acked>>

\* The task's deadline: fail() runs with a dead context, so only DeleteSandbox's row goes
WorkerTimesOut ==
  /\ worker.pc \in Phases
  /\ Ends("running", "archived")
  /\ box' = IF worker.new = 0 THEN box ELSE [box EXCEPT ![worker.new].row = "gone"]
  /\ lost' = lost \cup {worker.u} /\ fallen' = TRUE
  /\ Fault
  /\ UNCHANGED <<caller, retire, delivery, probe, sync, acked, exempt>>
-----------------------------------------------------------------------------
(* EmployeeSandboxRetireHandler.retire, 24 hours after it was scheduled.   *)

\* Mutant: a sandbox that is running again is retired.
RetireUnguarded(u) == /\ retire.at = 0 /\ u \in retire.due /\ worker.u # u
                      /\ upgrade[u].st = "succeeded" /\ upgrade[u].old \in Rows

RetireAllowed(u) == /\ retire.at = 0 /\ u \in retire.due /\ worker.u # u
                    /\ upgrade[u].st = "succeeded"
                    /\ box[upgrade[u].old].row = "stopped"

\* A later upgrade of the same sandbox, just past PauseOld, does not stop the retirement
RetireCheck(u) ==
  /\ RetireAllowed(u)
  /\ retire' = [due |-> retire.due \ {u}, at |-> upgrade[u].old]
  /\ IF worker.paused /\ worker.old = upgrade[u].old
       THEN LeftToRetire(worker.old) ELSE UNCHANGED exempt
  /\ NoFault
  /\ UNCHANGED <<box, upgrade, slot, caller, worker, delivery, probe, sync, acked, lost, fallen>>

\* Any other state of the two rows ends the task
RetireSkipped(u) ==
  /\ retire.at = 0 /\ u \in retire.due /\ worker.u # u
  /\ ~RetireAllowed(u)
  /\ retire' = [retire EXCEPT !.due = @ \ {u}]
  /\ NoFault
  /\ UNCHANGED <<box, upgrade, slot, caller, worker, delivery, probe, sync, acked, exempt, lost, fallen>>

RetireDelete ==
  /\ retire.at # 0
  /\ Deleted(retire.at)
  /\ retire' = [retire EXCEPT !.at = 0]
  /\ UNCHANGED <<upgrade, slot, caller, worker, delivery, probe, sync, acked, exempt, lost, fallen>>
-----------------------------------------------------------------------------
(* deliver: the current sandbox as loaded, started if it was stopped then. *)
(* A sandbox still being created has no endpoint: that delivery fails.     *)

LoadEmployeeSandbox(d) ==
  /\ delivery[d].pc = "idle" /\ acked < MaxWrites
  /\ Newest # 0 /\ box[Newest].row # "creating"
  /\ delivery' = [delivery EXCEPT ![d] = [pc |-> "loaded", b |-> Newest, st |-> box[Newest].row]]
  /\ NoFault
  /\ UNCHANGED <<box, upgrade, slot, caller, worker, retire, probe, sync, acked, exempt, lost, fallen>>

StartStopped(d) ==
  LET b == delivery[d].b IN
  /\ delivery[d].pc = "loaded" /\ delivery[d].st = "stopped"
  /\ IF CanStop(b)
       THEN Started(b) /\ delivery' = [delivery EXCEPT ![d].st = "running"]
       ELSE UNCHANGED box /\ delivery' = [delivery EXCEPT ![d] = IdleDelivery]
  /\ NoFault
  /\ UNCHANGED <<upgrade, slot, caller, worker, retire, probe, sync, acked, exempt, lost, fallen>>

\* PostHTTPMessage: the runtime accepts the message, or is not there
PostMessage(d) ==
  LET b == delivery[d].b IN
  /\ delivery[d].pc = "loaded" /\ delivery[d].st = "running"
  /\ delivery' = [delivery EXCEPT ![d] = IdleDelivery]
  /\ IF box[b].res = "up" /\ acked < MaxWrites
       THEN /\ acked' = acked + 1
            /\ box' = [box EXCEPT ![b].db = @ \cup {acked + 1}]
            /\ exempt' = IF \/ worker.pc \notin {"idle", "backup"} \/ retire.at = b
                            \/ b # Newest \/ box[b].row # "running"
                           THEN exempt \cup {acked + 1} ELSE exempt
       ELSE UNCHANGED <<acked, box, exempt>>
  /\ NoFault
  /\ UNCHANGED <<upgrade, slot, caller, worker, retire, probe, sync, lost, fallen>>
-----------------------------------------------------------------------------
(* Sync, the health check and the provider.                                *)

\* Sync is refused during an upgrade and creates a sandbox only when there is none
EnsureEmployeeSandbox ==
  /\ sync = 0 /\ ActiveUpgrades = {} /\ Newest = 0 /\ Unmade # {}
  /\ NewRow
  /\ sync' = NextBox
  /\ NoFault
  /\ UNCHANGED <<upgrade, slot, caller, worker, retire, delivery, probe, acked, exempt, lost, fallen>>

SyncProvision ==
  /\ sync # 0
  /\ (Provisioned(sync) /\ NoFault) \/ (NotProvisioned(sync) /\ Fault)
  /\ sync' = 0
  /\ UNCHANGED <<upgrade, slot, caller, worker, retire, delivery, probe, acked, exempt, lost, fallen>>

\* Only running rows are asked about, and a running answer writes nothing
ProbeSandbox(b) ==
  /\ probe = NoProbe
  /\ box[b].row = "running" /\ box[b].res \in {"down", "broken"}
  /\ probe' = [b |-> b, st |-> IF box[b].res = "down" THEN "stopped" ELSE "error"]
  /\ NoFault
  /\ UNCHANGED <<box, upgrade, slot, caller, worker, retire, delivery, sync, acked, exempt, lost, fallen>>

\* The provider's answer is written whatever happened to the row since
RecordHealth ==
  LET b == probe.b IN
  /\ probe # NoProbe
  /\ box' = [box EXCEPT ![b] = SetRow(b, probe.st)]
  /\ fallen' = (fallen \/ probe.st = "error")
  /\ IF probe.st = "stopped" THEN LeftToRetire(b) ELSE UNCHANGED exempt
  /\ probe' = NoProbe
  /\ NoFault
  /\ UNCHANGED <<upgrade, slot, caller, worker, retire, delivery, sync, acked, lost>>

ProviderFault(b) ==
  /\ box[b].res = "up"
  /\ \E r \in {"down", "broken"} : box' = [box EXCEPT ![b].res = r]
  /\ Fault
  /\ UNCHANGED <<upgrade, slot, caller, worker, retire, delivery, probe, sync, acked, exempt, lost, fallen>>
-----------------------------------------------------------------------------
CallerStep(c) == CheckActive(c) \/ ClearStale(c) \/ CreateUpgrade(c) \/ EnqueueUpgrade(c)
WorkerStep == \/ LoadAndStart \/ RunBackup \/ CreateRow \/ Provision \/ RunRestore
              \/ StopNew \/ StartNew \/ SyncRuntime \/ PauseOld \/ ScheduleRetirement
              \/ MarkSucceeded \/ PhaseFails \/ UndoNew \/ UndoOld
DeliveryStep(d) == LoadEmployeeSandbox(d) \/ StartStopped(d) \/ PostMessage(d)

Next ==
  \/ \E c \in Callers : CallerStep(c) \/ EnqueueFails(c) \/ CallerCrashes(c)
  \/ WorkerStep \/ WorkerCrashes \/ WorkerTimesOut
  \/ \E u \in Upgrades : RetireCheck(u) \/ RetireSkipped(u)
  \/ RetireDelete
  \/ \E d \in Deliveries : DeliveryStep(d)
  \/ EnsureEmployeeSandbox \/ SyncProvision
  \/ \E b \in Boxes : ProbeSandbox(b) \/ ProviderFault(b)
  \/ RecordHealth

Spec == Init /\ [][Next]_vars
-----------------------------------------------------------------------------
\* The types of the variables; the queue calls the task active while its worker runs.
TypeOK ==
  /\ box \in [Boxes -> BoxState]
  /\ upgrade \in [Upgrades -> UpgradeState]
  /\ slot \in SlotState /\ (slot.st = "active" <=> worker.pc # "idle")
  /\ caller \in [Callers -> CallerState]
  /\ worker \in WorkerState
  /\ retire \in [due : SUBSET Upgrades, at : 0 .. MaxBoxes]
  /\ delivery \in [Deliveries -> DeliveryState]
  /\ probe \in [b : 0 .. MaxBoxes, st : {"none", "stopped", "error"}]
  /\ sync \in 0 .. MaxBoxes
  /\ acked \in 0 .. MaxWrites /\ exempt \subseteq 1 .. acked
  /\ lost \subseteq Upgrades /\ fallen \in BOOLEAN /\ events \in 0 .. MaxEvents

Kept == (1 .. acked) \ exempt

\* A message a runtime accepted outside an upgrade and a retirement is never
\* destroyed: its database is in a resource that still exists.  It is what the
\* backup, the order of the phases, the rollback of run() and the guards of
\* retire() are for, also when a sandbox that was retired by name is back in use.
AcceptedIsDurable == \A w \in Kept : \E b \in Boxes : w \in box[b].db

\* Between upgrades the sandbox the next trigger is delivered to has every such
\* message, unless a health check, a crash, a timeout or a late racing upgrade
\* changed which one is current: an upgrade that succeeds hands over the whole database, one that
\* fails leaves the old sandbox current.
CurrentHasEverything ==
  worker.pc = "idle" /\ ~fallen /\ Newest # 0 => Kept \subseteq box[Newest].db

\* An upgrade that is queued or running blocks every later upgrade and sync of
\* the employee, so someone must still be about to settle it: the request that
\* created it, its task in the queue or the worker, unless its task was deleted
\* by a racing request or its process died.
ActiveUpgradeIsDriven ==
  \A u \in ActiveUpgrades :
    \/ u \in lost
    \/ slot.st \in {"pending", "active"} /\ slot.u = u
    \/ \E c \in Callers : caller[c] = [pc |-> "created", u |-> u]
=============================================================================
