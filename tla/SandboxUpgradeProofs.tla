------------------------ MODULE SandboxUpgradeProofs ------------------------
(***************************************************************************)
(* Proofs about SandboxUpgrade, for any number of sandboxes, upgrades,     *)
(* messages, requests, deliveries and faults.                              *)
(*                                                                         *)
(* ActiveUpgradeIsDriven needs what the queue, the requests and the worker *)
(* refer to (Tasked).  The two properties about messages need which boxes  *)
(* the actors hold (Made), that the backup covers the old sandbox until    *)
(* the new one does (Saved), that a message kept is in a box nobody may    *)
(* delete (Durable) and, while nothing has changed which sandbox is        *)
(* current, that it is in the one the worker replaces (Current).           *)
(***************************************************************************)
EXTENDS SandboxUpgrade, WellFoundedInduction, TLAPS

Busy == worker.pc # "idle"
Restored == {"stop_new", "start_new", "sync", "pause", "cleanup", "finish"}
Copying == {"create", "provision", "restore"}

Succeeded(u) == upgrade[u].st = "succeeded"

\* What the queue, the requests and the worker refer to
Tasked ==
  /\ slot.st = "pending" => slot.u \in Upgrades /\ upgrade[slot.u].st # "none"
  /\ \A c \in Callers : caller[c].pc = "created" =>
       caller[c].u \in Upgrades /\ upgrade[caller[c].u].st # "none"
  /\ Busy => /\ worker.u \in Upgrades /\ slot.u = worker.u
             /\ upgrade[worker.u].st # "none" /\ upgrade[worker.u].old = worker.old
  /\ ~Busy => worker.u = 0
  /\ ActiveUpgradeIsDriven

\* Rows are made in order, and an upgrade, a retirement and a sync have made ones
Numbered == \A b, d \in Boxes : box[b].row = "none" /\ b < d => box[d].row = "none"
Replaces(u) ==
  /\ upgrade[u].st # "none" => upgrade[u].old \in Boxes /\ box[upgrade[u].old].row # "none"
  /\ Succeeded(u) => box[upgrade[u].old].res # "none"
Retiring == retire.at # 0 => box[retire.at].row # "none" /\ box[retire.at].res # "none"
Syncing == sync # 0 => box[sync].row # "none" /\ box[sync].res = "none"
Probing == probe # NoProbe => /\ probe.b \in Boxes /\ probe.st \in {"stopped", "error"}
                              /\ box[probe.b].row # "none"
Delivering(d) == delivery[d].pc = "loaded" => delivery[d].b \in Boxes /\ box[delivery[d].b].row # "none"

\* The worker's new sandbox is nobody else's
Creating ==
  /\ worker.pc \in {"idle", "backup", "create"} => worker.new = 0
  /\ worker.pc \in {"provision", "restore"} \cup Restored => worker.new # 0
  /\ worker.pc = "provision" => box[worker.new].res = "none"
  /\ worker.pc \in Copying \cup Restored => box[worker.old].res # "none"
  /\ worker.paused => worker.pc \in {"cleanup", "finish", "undo", "undo_old"} /\ worker.new # 0
Private ==
  worker.new # 0 =>
    /\ box[worker.new].row # "none" /\ worker.new \notin {worker.old, retire.at, sync}
    /\ \A u \in Upgrades : Succeeded(u) => upgrade[u].old # worker.new

Made ==
  /\ Numbered /\ Retiring /\ Syncing /\ Probing /\ Creating /\ Private
  /\ \A u \in Upgrades : Replaces(u)
  /\ \A d \in Deliveries : Delivering(d)
  /\ \A b \in Boxes : box[b].db \subseteq 1 .. acked
  /\ worker.backup \subseteq 1 .. acked

\* The backup has what the old sandbox has, then the new sandbox has it
Saved ==
  /\ worker.pc \in Copying => box[worker.old].db \ exempt \subseteq worker.backup
  /\ worker.pc \in Restored \/ (worker.pc = "undo" /\ worker.paused) =>
       box[worker.old].db \ exempt \subseteq box[worker.new].db

\* A box that may be deleted, or is being made, and one that is neither
Condemned(b) ==
  \/ retire.at = b
  \/ /\ box[b].row = "stopped" /\ ~(worker.paused /\ worker.old = b)
     /\ \E u \in retire.due : worker.u # u /\ Succeeded(u) /\ upgrade[u].old = b
Firm(b) == box[b].row # "none" /\ b # sync /\ b # worker.new /\ ~Condemned(b)
Durable == \A w \in Kept : \E b \in Boxes : Firm(b) /\ w \in box[b].db

\* The current sandbox, which is the worker's old one during an upgrade
Reached(b, cur) == b <= cur \/ (b = worker.new /\ worker.pc # "provision") \/ box[b].row = "gone"
Leads(cur) ==
  /\ cur \in Rows /\ (Busy => cur = worker.old)
  /\ \A b \in Rows : b <= cur \/ b = worker.new
  /\ worker.new # 0 => cur < worker.new
  /\ retire.at # cur /\ \A u \in Upgrades : Succeeded(u) => upgrade[u].old # cur
  /\ \A d \in Deliveries : delivery[d].pc = "loaded" => Reached(delivery[d].b, cur)
  /\ probe # NoProbe => Reached(probe.b, cur)
  /\ Kept \subseteq box[cur].db
HandsOver ==
  /\ sync = 0
  /\ worker.pc = "provision" => box[worker.new].row = "creating"
  /\ worker.pc \in {"restore"} \cup Restored => worker.new \in Rows
  /\ worker.pc = "undo_old" => worker.new = 0 \/ box[worker.new].row = "gone"
  /\ worker.pc \in Copying => Kept \subseteq worker.backup
  /\ worker.pc \in Restored => Kept \subseteq box[worker.new].db
Current == ~fallen => HandsOver /\ \E cur \in Boxes : Leads(cur)

IndInv == TypeOK /\ Tasked /\ Made /\ Saved /\ Durable /\ Current
-----------------------------------------------------------------------------
(* A set of numbers has a least one, and a greatest one if it is bounded.  *)
LEMMA LeastNumber ==
  ASSUME NEW T \in SUBSET Nat, T # {} PROVE \E x \in T : \A y \in T : x <= y
<1> DEFINE R == OpToRel(<, Nat)
<1>1. IsWellFoundedOn(R, Nat)
  BY NatLessThanWellFounded
<1> HIDE DEF R
<1>2. \E x \in T : \A y \in T : ~ (<<y, x>> \in R)
  BY <1>1, WFMin
<1>3. \A x \in T, y \in T : ~ (<<y, x>> \in R) => x <= y
  BY DEF R, OpToRel
<1> QED
  BY <1>2, <1>3

(* Its mirror image, for a bounded set.                                    *)
LEMMA GreatestNumber ==
  ASSUME NEW n \in Nat, NEW T \in SUBSET (1 .. n), T # {}
  PROVE  \E x \in T : \A y \in T : y <= x
<1> DEFINE D == {d \in 0 .. n : n - d \in T}
<1>1. PICK t \in T : TRUE
  OBVIOUS
<1>2. n - t \in 0 .. n /\ n - (n - t) = t
  OBVIOUS
<1>3. n - t \in D
  BY <1>2
<1>4. D \in SUBSET Nat /\ D # {}
  <2>1. D \subseteq 0 .. n
    OBVIOUS
  <2>2. D \subseteq Nat
    BY <2>1
  <2> QED
    BY <1>3, <2>2
<1>5. PICK d \in D : \A y \in D : d <= y
  BY <1>4, LeastNumber
<1>6. d \in Nat /\ n - d \in T
  OBVIOUS
<1>7. ASSUME NEW y \in T PROVE y <= n - d
  <2>1. n - y \in 0 .. n /\ n - (n - y) = y
    OBVIOUS
  <2>2. n - y \in D
    BY <2>1
  <2>3. d <= n - y
    BY <1>5, <2>2
  <2> QED
    BY <1>6, <2>1, <2>3
<1> QED
  BY <1>6, <1>7

(* The current sandbox is the newest row, and the next row is the first    *)
(* one that was never made.                                                *)
LEMMA NewestIs == Rows # {} => Newest \in Rows /\ \A b \in Rows : b <= Newest
<1> SUFFICES ASSUME Rows # {} PROVE Newest \in Rows /\ \A b \in Rows : b <= Newest
  OBVIOUS
<1>1. Rows \in SUBSET (1 .. MaxBoxes) /\ MaxBoxes \in Nat
  BY UpgradeConstants DEF Rows, Boxes
<1>2. \E x \in Rows : \A y \in Rows : x >= y
  BY <1>1, GreatestNumber
<1>3. Max(Rows) \in Rows /\ \A b \in Rows : Max(Rows) >= b
  BY <1>2 DEF Max
<1> QED
  BY <1>1, <1>3 DEF Newest

(* Newest is a box, or 0 when there is no row.                             *)
LEMMA NewestType == Newest \in 0 .. MaxBoxes /\ (Newest # 0 => Newest \in Rows /\ Newest \in Boxes)
<1>1. Rows \subseteq Boxes
  BY DEF Rows
<1>2. CASE Rows = {}
  <2>1. Newest = 0
    BY <1>2 DEF Newest
  <2> QED
    BY <2>1, UpgradeConstants
<1>3. CASE Rows # {}
  <2>1. Newest \in Rows
    BY <1>3, NewestIs
  <2>2. Newest \in Boxes
    BY <1>1, <2>1
  <2> QED
    BY <2>1, <2>2, UpgradeConstants DEF Boxes
<1> QED
  BY <1>2, <1>3

(* NewRow takes the first row that was never made.                         *)
LEMMA NextBoxIs == Unmade # {} => NextBox \in Unmade /\ \A b \in Unmade : NextBox <= b
<1> SUFFICES ASSUME Unmade # {} PROVE NextBox \in Unmade /\ \A b \in Unmade : NextBox <= b
  OBVIOUS
<1>1. Unmade \in SUBSET Nat
  BY UpgradeConstants DEF Unmade, Boxes
<1>2. \E x \in Unmade : \A y \in Unmade : x =< y
  BY <1>1, LeastNumber
<1> QED
  BY <1>2 DEF NextBox, Min

(* CreateUpgrade takes a free upgrade row.                                 *)
LEMMA NextUpgradeIs == FreeUpgrades # {} => NextUpgrade \in FreeUpgrades
<1> SUFFICES ASSUME FreeUpgrades # {} PROVE NextUpgrade \in FreeUpgrades
  OBVIOUS
<1>1. FreeUpgrades \in SUBSET Nat
  BY UpgradeConstants DEF FreeUpgrades, Upgrades
<1>2. \E x \in FreeUpgrades : \A y \in FreeUpgrades : x =< y
  BY <1>1, LeastNumber
<1> QED
  BY <1>2 DEF NextUpgrade, Min
-----------------------------------------------------------------------------
(* What a step may do to a sandbox.                                        *)
Moved(b, row, res, db) ==
  /\ box' \in [Boxes -> BoxState]
  /\ box'[b].row = row /\ box'[b].res = res /\ box'[b].db = db
  /\ \A d \in Boxes \ {b} : box'[d] = box[d]

(* A box is replaced as a whole.                                           *)
LEMMA MovedBy ==
  ASSUME TypeOK, NEW b \in Boxes, NEW r \in BoxState, box' = [box EXCEPT ![b] = r]
  PROVE  Moved(b, r.row, r.res, r.db)
BY DEF Moved, TypeOK

(* Updates of one field of a box.                                          *)
LEMMA BoxFields ==
  ASSUME NEW r \in BoxState
  PROVE  /\ r.row \in Statuses /\ r.res \in Resources /\ r.db \in SUBSET Writes
         /\ \A st \in Statuses : /\ [r EXCEPT !.row = st] \in BoxState
                                 /\ [r EXCEPT !.row = st].row = st
                                 /\ [r EXCEPT !.row = st].res = r.res
                                 /\ [r EXCEPT !.row = st].db = r.db
         /\ \A x \in Resources : /\ [r EXCEPT !.res = x] \in BoxState
                                 /\ [r EXCEPT !.res = x].row = r.row
                                 /\ [r EXCEPT !.res = x].res = x
                                 /\ [r EXCEPT !.res = x].db = r.db
         /\ \A D \in SUBSET Writes : /\ [r EXCEPT !.db = D] \in BoxState
                                     /\ [r EXCEPT !.db = D].row = r.row
                                     /\ [r EXCEPT !.db = D].res = r.res
                                     /\ [r EXCEPT !.db = D].db = D
BY DEF BoxState

(* What SetRow writes.                                                     *)
LEMMA RowWritten ==
  ASSUME TypeOK, NEW b \in Boxes, NEW st \in Statuses
  PROVE  /\ SetRow(b, st) \in BoxState
         /\ SetRow(b, st).row = (IF box[b].row = "gone" THEN "gone" ELSE st)
         /\ SetRow(b, st).res = box[b].res /\ SetRow(b, st).db = box[b].db
<1>1. box[b] \in BoxState
  BY DEF TypeOK
<1> QED
  BY <1>1, BoxFields DEF SetRow

(* Stop, start and a written row leave a deleted row alone.                *)
LEMMA StopMoves ==
  ASSUME TypeOK, NEW b \in Boxes, Stopped(b)
  PROVE  Moved(b, IF box[b].row = "gone" THEN "gone" ELSE "stopped", "down", box[b].db)
<1> DEFINE v == SetRow(b, "stopped")
           u == [v EXCEPT !.res = "down"]
<1>1. box[b] \in BoxState
  BY DEF TypeOK
<1>0. /\ v \in BoxState /\ v.row = (IF box[b].row = "gone" THEN "gone" ELSE "stopped")
      /\ v.res = box[b].res /\ v.db = box[b].db /\ "down" \in Resources
  <2>1. "stopped" \in Statuses
    BY DEF Statuses
  <2> QED
    BY <2>1, RowWritten DEF Resources
<1>2. u \in BoxState /\ u.row = (IF box[b].row = "gone" THEN "gone" ELSE "stopped") /\ u.res = "down" /\ u.db = box[b].db
  <2> HIDE DEF v
  <2> QED
    BY <1>0, BoxFields
<1>3. box' = [box EXCEPT ![b] = u]
  BY DEF Stopped
<1> HIDE DEF u
<1>4. Moved(b, u.row, u.res, u.db)
  BY <1>2, <1>3, MovedBy
<1> QED
  BY <1>2, <1>4 DEF Moved

(* A start.                                                                *)
LEMMA StartMoves ==
  ASSUME TypeOK, NEW b \in Boxes, Started(b)
  PROVE  Moved(b, IF box[b].row = "gone" THEN "gone" ELSE "running", "up", box[b].db)
<1> DEFINE v == SetRow(b, "running")
           u == [v EXCEPT !.res = "up"]
<1>1. box[b] \in BoxState
  BY DEF TypeOK
<1>0. /\ v \in BoxState /\ v.row = (IF box[b].row = "gone" THEN "gone" ELSE "running")
      /\ v.res = box[b].res /\ v.db = box[b].db /\ "up" \in Resources
  <2>1. "running" \in Statuses
    BY DEF Statuses
  <2> QED
    BY <2>1, RowWritten DEF Resources
<1>2. u \in BoxState /\ u.row = (IF box[b].row = "gone" THEN "gone" ELSE "running") /\ u.res = "up" /\ u.db = box[b].db
  <2> HIDE DEF v
  <2> QED
    BY <1>0, BoxFields
<1>3. box' = [box EXCEPT ![b] = u]
  BY DEF Started
<1> HIDE DEF u
<1>4. Moved(b, u.row, u.res, u.db)
  BY <1>2, <1>3, MovedBy
<1> QED
  BY <1>2, <1>4 DEF Moved

(* A status that is only written to the row.                               *)
LEMMA RowMoves ==
  ASSUME TypeOK, NEW b \in Boxes, NEW st \in Statuses, box' = [box EXCEPT ![b] = SetRow(b, st)]
  PROVE  Moved(b, IF box[b].row = "gone" THEN "gone" ELSE st, box[b].res, box[b].db)
<1> DEFINE u == SetRow(b, st)
<1>1. box[b] \in BoxState
  BY DEF TypeOK
<1>2. u \in BoxState /\ u.row = (IF box[b].row = "gone" THEN "gone" ELSE st) /\ u.res = box[b].res /\ u.db = box[b].db
  BY RowWritten
<1>3. box' = [box EXCEPT ![b] = u]
  BY DEF SetRow
<1> HIDE DEF u
<1>4. Moved(b, u.row, u.res, u.db)
  BY <1>2, <1>3, MovedBy
<1> QED
  BY <1>2, <1>4 DEF Moved

(* Fields on their own: a deleted row, a resource, a database.             *)
LEMMA GoneMoves ==
  ASSUME TypeOK, NEW b \in Boxes, box' = [box EXCEPT ![b].row = "gone"]
  PROVE  Moved(b, "gone", box[b].res, box[b].db)
<1> DEFINE u == [box[b] EXCEPT !.row = "gone"]
<1>1. box[b] \in BoxState
  BY DEF TypeOK
<1>2. u \in BoxState /\ u.row = "gone" /\ u.res = box[b].res /\ u.db = box[b].db
  BY <1>1 DEF BoxState, Statuses
<1>3. box' = [box EXCEPT ![b] = u]
  BY DEF TypeOK
<1> HIDE DEF u
<1>4. Moved(b, u.row, u.res, u.db)
  BY <1>2, <1>3, MovedBy
<1> QED
  BY <1>2, <1>4 DEF Moved

(* A resource the provider changes.                                        *)
LEMMA ResMoves ==
  ASSUME TypeOK, NEW b \in Boxes, NEW r \in Resources, box' = [box EXCEPT ![b].res = r]
  PROVE  Moved(b, box[b].row, r, box[b].db)
<1> DEFINE u == [box[b] EXCEPT !.res = r]
<1>1. box[b] \in BoxState
  BY DEF TypeOK
<1>2. u \in BoxState /\ u.row = box[b].row /\ u.res = r /\ u.db = box[b].db
  BY <1>1 DEF BoxState, Statuses
<1>3. box' = [box EXCEPT ![b] = u]
  BY DEF TypeOK
<1> HIDE DEF u
<1>4. Moved(b, u.row, u.res, u.db)
  BY <1>2, <1>3, MovedBy
<1> QED
  BY <1>2, <1>4 DEF Moved

(* A database that is written.                                             *)
LEMMA DbMoves ==
  ASSUME TypeOK, NEW b \in Boxes, NEW D \in SUBSET Writes, box' = [box EXCEPT ![b].db = D]
  PROVE  Moved(b, box[b].row, box[b].res, D)
<1> DEFINE u == [box[b] EXCEPT !.db = D]
<1>1. box[b] \in BoxState
  BY DEF TypeOK
<1>2. u \in BoxState /\ u.row = box[b].row /\ u.res = box[b].res /\ u.db = D
  BY <1>1 DEF BoxState, Statuses
<1>3. box' = [box EXCEPT ![b] = u]
  BY DEF TypeOK
<1> HIDE DEF u
<1>4. Moved(b, u.row, u.res, u.db)
  BY <1>2, <1>3, MovedBy
<1> QED
  BY <1>2, <1>4 DEF Moved

(* The steps of CreateEmployeeSandbox, and DeleteSandbox.                  *)
LEMMA ProvisionMoves ==
  ASSUME TypeOK, NEW b \in Boxes, Provisioned(b)
  PROVE  Moved(b, "running", "up", {})
<1> DEFINE u == [row |-> "running", res |-> "up", db |-> {}]
<1>1. box[b] \in BoxState
  BY DEF TypeOK
<1>2. u \in BoxState /\ u.row = "running" /\ u.res = "up" /\ u.db = {}
  BY DEF BoxState, Statuses, Resources, NoBox
<1>3. box' = [box EXCEPT ![b] = u]
  BY DEF Provisioned
<1> HIDE DEF u
<1>4. Moved(b, u.row, u.res, u.db)
  BY <1>2, <1>3, MovedBy
<1> QED
  BY <1>2, <1>4 DEF Moved

(* that the provider refused,                                              *)
LEMMA RefuseMoves ==
  ASSUME TypeOK, NEW b \in Boxes, box' = [box EXCEPT ![b] = [NoBox EXCEPT !.row = "gone"]]
  PROVE  Moved(b, "gone", "none", {})
<1> DEFINE u == [NoBox EXCEPT !.row = "gone"]
<1>1. box[b] \in BoxState
  BY DEF TypeOK
<1>2. u \in BoxState /\ u.row = "gone" /\ u.res = "none" /\ u.db = {}
  BY DEF BoxState, Statuses, Resources, NoBox
<1>3. box' = [box EXCEPT ![b] = u]
  BY DEF NoBox
<1> HIDE DEF u
<1>4. Moved(b, u.row, u.res, u.db)
  BY <1>2, <1>3, MovedBy
<1> QED
  BY <1>2, <1>4 DEF Moved

(* that never became healthy,                                              *)
LEMMA BreakMoves ==
  ASSUME TypeOK, NEW b \in Boxes, box' = [box EXCEPT ![b] = [row |-> "error", res |-> "up", db |-> {}]]
  PROVE  Moved(b, "error", "up", {})
<1> DEFINE u == [row |-> "error", res |-> "up", db |-> {}]
<1>1. box[b] \in BoxState
  BY DEF TypeOK
<1>2. u \in BoxState /\ u.row = "error" /\ u.res = "up" /\ u.db = {}
  BY DEF BoxState, Statuses, Resources, NoBox
<1>3. box' = [box EXCEPT ![b] = u]
  BY DEF TypeOK
<1> HIDE DEF u
<1>4. Moved(b, u.row, u.res, u.db)
  BY <1>2, <1>3, MovedBy
<1> QED
  BY <1>2, <1>4 DEF Moved

(* that was deleted,                                                       *)
LEMMA EraseMoves ==
  ASSUME TypeOK, NEW b \in Boxes, box' = [box EXCEPT ![b] = [row |-> "gone", res |-> "gone", db |-> {}]]
  PROVE  Moved(b, "gone", "gone", {})
<1> DEFINE u == [row |-> "gone", res |-> "gone", db |-> {}]
<1>1. box[b] \in BoxState
  BY DEF TypeOK
<1>2. u \in BoxState /\ u.row = "gone" /\ u.res = "gone" /\ u.db = {}
  BY DEF BoxState, Statuses, Resources, NoBox
<1>3. box' = [box EXCEPT ![b] = u]
  BY DEF TypeOK
<1> HIDE DEF u
<1>4. Moved(b, u.row, u.res, u.db)
  BY <1>2, <1>3, MovedBy
<1> QED
  BY <1>2, <1>4 DEF Moved

(* and that was only recorded.                                             *)
LEMMA CreateMoves ==
  ASSUME TypeOK, NEW b \in Boxes, box' = [box EXCEPT ![b] = [NoBox EXCEPT !.row = "creating"]]
  PROVE  Moved(b, "creating", "none", {})
<1> DEFINE u == [NoBox EXCEPT !.row = "creating"]
<1>1. box[b] \in BoxState
  BY DEF TypeOK
<1>2. u \in BoxState /\ u.row = "creating" /\ u.res = "none" /\ u.db = {}
  BY DEF BoxState, Statuses, Resources, NoBox
<1>3. box' = [box EXCEPT ![b] = u]
  BY DEF NoBox
<1> HIDE DEF u
<1>4. Moved(b, u.row, u.res, u.db)
  BY <1>2, <1>3, MovedBy
<1> QED
  BY <1>2, <1>4 DEF Moved

(* NotProvisioned and Deleted leave one of two boxes each.                 *)
LEMMA RefusedMoves ==
  ASSUME TypeOK, NEW b \in Boxes, NotProvisioned(b)
  PROVE  \E row \in {"gone", "error"}, res \in {"none", "up"} : Moved(b, row, res, {})
<1>1. CASE box' = [box EXCEPT ![b] = [NoBox EXCEPT !.row = "gone"]]
  BY <1>1, RefuseMoves
<1>2. CASE box' = [box EXCEPT ![b] = [row |-> "error", res |-> "up", db |-> {}]]
  BY <1>2, BreakMoves
<1> QED
  BY <1>1, <1>2 DEF NotProvisioned

(* DeleteSandbox drops the row, with or without the resource.              *)
LEMMA DeleteMoves ==
  ASSUME TypeOK, NEW b \in Boxes, Deleted(b)
  PROVE  /\ \E res \in {"gone", box[b].res}, db \in {{}, box[b].db} : Moved(b, "gone", res, db)
         /\ events' \in 0 .. MaxEvents
<1>1. box' = [box EXCEPT ![b] = [row |-> "gone", res |-> "gone", db |-> {}]] =>
        Moved(b, "gone", "gone", {})
  BY EraseMoves
<1>2. box' = [box EXCEPT ![b].row = "gone"] => Moved(b, "gone", box[b].res, box[b].db)
  BY GoneMoves
<1>3. Moved(b, "gone", "gone", {}) \/ Moved(b, "gone", box[b].res, box[b].db)
  BY <1>1, <1>2 DEF Deleted
<1>4. events' \in 0 .. MaxEvents
  BY UpgradeConstants DEF Deleted, NoFault, Fault, TypeOK
<1> QED
  BY <1>3, <1>4, Zenon

(* The next row is the least that was never made, so rows stay numbered.   *)
LEMMA NewRowMoves ==
  ASSUME TypeOK, Unmade # {}, NewRow
  PROVE  /\ NextBox \in Boxes /\ box[NextBox].row = "none"
         /\ \A d \in Boxes : box[d].row = "none" => NextBox <= d
         /\ Moved(NextBox, "creating", "none", {})
<1> DEFINE b == NextBox
<1>1. b \in Boxes /\ box[b].row = "none" /\ \A d \in Boxes : box[d].row = "none" => b <= d
  BY NextBoxIs DEF Unmade
<1>2. box' = [box EXCEPT ![b] = [NoBox EXCEPT !.row = "creating"]]
  BY DEF NewRow
<1> HIDE DEF b
<1>3. Moved(b, "creating", "none", {})
  BY <1>1, <1>2, CreateMoves
<1> QED
  BY <1>1, <1>3 DEF b
-----------------------------------------------------------------------------
(* Who has which box and which upgrade.                                    *)
LEMMA Held ==
  ASSUME TypeOK, Tasked, Made
  PROVE  /\ Busy => /\ worker.u \in Upgrades /\ worker.old \in Boxes /\ worker.old # 0
                    /\ box[worker.old].row # "none" /\ slot.st = "active" /\ slot.u = worker.u
         /\ worker.new # 0 => worker.new \in Boxes
         /\ retire.at # 0 => retire.at \in Boxes
         /\ sync # 0 => sync \in Boxes
         /\ 0 \notin Boxes
<1>1. /\ worker.new \in 0 .. MaxBoxes /\ retire.at \in 0 .. MaxBoxes /\ sync \in 0 .. MaxBoxes
      /\ slot.st = "active" <=> worker.pc # "idle"
  BY DEF TypeOK, WorkerState
<1>2. Busy => /\ worker.u \in Upgrades /\ worker.old \in Boxes
              /\ box[worker.old].row # "none" /\ slot.st = "active" /\ slot.u = worker.u
  BY <1>1 DEF Tasked, Made, Replaces, Busy
<1> QED
  BY <1>1, <1>2, UpgradeConstants DEF Boxes

(* A step that leaves the queue and the worker's task alone.               *)
LEMMA TaskedFrame ==
  ASSUME TypeOK, Tasked, UNCHANGED <<slot, caller, lost>>,
         \A u \in Upgrades : upgrade'[u].st = upgrade[u].st /\ upgrade'[u].old = upgrade[u].old,
         worker'.pc # "idle" <=> worker.pc # "idle",
         worker'.u = worker.u, worker'.old = worker.old
  PROVE  Tasked'
BY DEF Tasked, Busy, ActiveUpgradeIsDriven, ActiveUpgrades, TypeOK

(* Steps that make no row; that make no upgrade succeed.                   *)
Lasting == \A b \in Boxes : /\ box'[b].row = "none" <=> box[b].row = "none"
                            /\ box[b].res # "none" => box'[b].res # "none"
Older == \A u \in Upgrades :
           /\ upgrade'[u].st # "none" => upgrade[u].st # "none" /\ upgrade'[u].old = upgrade[u].old
           /\ upgrade'[u].st = "succeeded" => upgrade[u].st = "succeeded"

(* Such steps keep the upgrades' boxes and what the worker has to itself.  *)
LEMMA ReplacesFrame ==
  ASSUME Made, Lasting, Older PROVE \A u \in Upgrades : Replaces(u)'
BY DEF Made, Replaces, Succeeded, Lasting, Older

(* The worker's new sandbox stays its own.                                 *)
LEMMA PrivateFrame ==
  ASSUME TypeOK, Tasked, Made, Lasting, Older, sync' \in {0, sync},
         worker'.new = worker.new /\ worker'.old = worker.old,
         retire'.at \in {0, retire.at} \/ \E u \in Upgrades : Succeeded(u) /\ retire'.at = upgrade[u].old
  PROVE  Private'
<1> SUFFICES ASSUME worker'.new # 0 PROVE Private'
  BY DEF Private
<1>1. worker'.new = worker.new /\ worker'.old = worker.old /\ worker.new \in Boxes
  BY Held
<1>2. /\ box[worker.new].row # "none" /\ worker.new \notin {worker.old, retire.at, sync}
      /\ \A u \in Upgrades : Succeeded(u) => upgrade[u].old # worker.new
  BY <1>1 DEF Made, Private
<1>3. box'[worker.new].row # "none" /\ worker.new \notin {worker'.old, retire'.at, sync'}
  BY <1>1, <1>2 DEF Lasting
<1>4. \A u \in Upgrades : upgrade'[u].st = "succeeded" => upgrade'[u].old # worker.new
  BY <1>2 DEF Older, Succeeded
<1> QED
  BY <1>1, <1>3, <1>4 DEF Private, Succeeded

(* What is left of Made for a step that makes no row.                      *)
LEMMA MadeFrame ==
  ASSUME TypeOK, Tasked, Made, Lasting, \A u \in Upgrades : Replaces(u)', Private', Creating',
         retire'.at \in {0, retire.at} \/ \E u \in Upgrades : Succeeded(u) /\ retire'.at = upgrade[u].old,
         sync' = 0 \/ (sync' = sync /\ box'[sync].res = box[sync].res),
         probe' \in {probe, NoProbe} \/ (probe'.b \in Rows /\ probe'.st \in {"stopped", "error"}),
         \A d \in Deliveries : delivery'[d].pc = "loaded" =>
           \/ delivery[d].pc = "loaded" /\ delivery'[d].b = delivery[d].b
           \/ delivery'[d].b \in Rows,
         \A b \in Boxes : box'[b].db \subseteq 1 .. acked', worker'.backup \subseteq 1 .. acked'
  PROVE  Made'
<1>1. Numbered'
  BY DEF Made, Numbered, Lasting
<1>2. \A b \in Rows : b \in Boxes /\ box[b].row # "none"
  BY DEF Rows
<1>3. Retiring'
  BY Held DEF Made, Retiring, Replaces, Succeeded, Lasting
<1>4. Syncing'
  BY Held DEF Made, Syncing, Lasting
<1>5. Probing'
  BY <1>2 DEF Made, Probing, Lasting
<1>6. \A d \in Deliveries : Delivering(d)'
  BY <1>2 DEF Made, Delivering, Lasting
<1> QED
  BY <1>1, <1>3, <1>4, <1>5, <1>6 DEF Made

(* Steps that give nobody a box and no box a message.                      *)
LEMMA MadeKept ==
  ASSUME TypeOK, Tasked, Made, Lasting, Older, Creating',
         UNCHANGED <<retire, probe, delivery, sync, acked>>,
         sync # 0 => box'[sync].res = box[sync].res,
         worker'.new = 0 \/ (worker'.new = worker.new /\ worker'.old = worker.old),
         \A b \in Boxes : box'[b].db \subseteq 1 .. acked, worker'.backup \subseteq 1 .. acked
  PROVE  Made'
<1>1. \A u \in Upgrades : Replaces(u)'
  BY ReplacesFrame
<1>2. CASE worker'.new = 0
  <2>1. Private'
    BY <1>2 DEF Private
  <2> QED
    BY <1>1, <2>1, MadeFrame
<1>3. CASE worker'.new = worker.new /\ worker'.old = worker.old
  <2>1. Private'
    BY <1>3, PrivateFrame
  <2> QED
    BY <1>1, <2>1, MadeFrame
<1> QED
  BY <1>2, <1>3

(* A step that keeps the firm boxes, and what they have, keeps Durable.    *)
LEMMA DurableFrame ==
  ASSUME Durable, acked' = acked, exempt \subseteq exempt',
         \A b \in Boxes : Firm(b) => \/ Firm(b)' /\ box[b].db \subseteq box'[b].db
                                     \/ box[b].db \subseteq exempt'
  PROVE  Durable'
<1>1. Kept' \subseteq Kept
  BY DEF Kept
<1> SUFFICES ASSUME NEW w \in Kept' PROVE \E b \in Boxes : Firm(b)' /\ w \in box'[b].db
  BY DEF Durable
<1>2. PICK b \in Boxes : Firm(b) /\ w \in box[b].db
  BY <1>1 DEF Durable
<1>3. w \notin exempt'
  BY DEF Kept
<1> QED
  BY <1>2, <1>3

(* A step that leaves the current sandbox current.                         *)
LEMMA LeadsFrame ==
  ASSUME TypeOK, NEW cur \in Boxes, Leads(cur), Older,
         cur \in Rows', Kept' \subseteq box'[cur].db,
         \A b \in Boxes : /\ box[b].row = "gone" => box'[b].row = "gone"
                          /\ b \in Rows' => b \in Rows \/ b = worker.new \/ b <= cur,
         worker'.new = worker.new, worker'.old = worker.old,
         worker'.pc # "idle" => worker.pc # "idle",
         worker'.pc = "provision" => worker.pc = "provision",
         retire'.at \in {0, retire.at} \/ \E u \in Upgrades : Succeeded(u) /\ retire'.at = upgrade[u].old,
         probe' \in {probe, NoProbe}
           \/ (probe'.b \in Rows /\ ~(probe'.b = worker.new /\ worker.pc = "provision")),
         \A d \in Deliveries : delivery'[d].pc = "loaded" =>
           \/ delivery[d].pc = "loaded" /\ delivery'[d].b = delivery[d].b
           \/ /\ delivery'[d].b \in Rows
              /\ ~(delivery'[d].b = worker.new /\ worker.pc = "provision")
  PROVE  Leads(cur)'
<1>1. /\ cur \in Rows /\ (worker.pc # "idle" => cur = worker.old)
      /\ \A b \in Rows : b <= cur \/ b = worker.new
      /\ worker.new # 0 => cur < worker.new
      /\ retire.at # cur /\ \A u \in Upgrades : upgrade[u].st = "succeeded" => upgrade[u].old # cur
      /\ \A d \in Deliveries : delivery[d].pc = "loaded" => Reached(delivery[d].b, cur)
      /\ probe # NoProbe => Reached(probe.b, cur)
  BY DEF Leads, Busy, Succeeded
<1>2. (worker'.pc # "idle" => cur = worker'.old) /\ (worker'.new # 0 => cur < worker'.new)
  BY <1>1
<1>3. \A b \in Rows' : b <= cur \/ b = worker'.new
  <2> SUFFICES ASSUME NEW b \in Rows' PROVE b <= cur \/ b = worker'.new
    OBVIOUS
  <2>1. b \in Boxes
    BY DEF Rows
  <2> QED
    BY <1>1, <2>1
<1>4. retire'.at # cur
  <2>1. cur # 0
    BY UpgradeConstants DEF Boxes
  <2> QED
    BY <1>1, <2>1 DEF Succeeded
<1>5. \A u \in Upgrades : upgrade'[u].st = "succeeded" => upgrade'[u].old # cur
  BY <1>1 DEF Older
<1>6. \A b \in 0 .. MaxBoxes : Reached(b, cur) => b <= cur \/ (b = worker'.new /\ worker'.pc # "provision")
                                          \/ box'[b].row = "gone"
  <2> SUFFICES ASSUME NEW b \in 0 .. MaxBoxes, Reached(b, cur)
               PROVE  b <= cur \/ (b = worker'.new /\ worker'.pc # "provision") \/ box'[b].row = "gone"
    OBVIOUS
  <2>1. b = 0 \/ b \in Boxes
    BY UpgradeConstants DEF Boxes
  <2>2. b = 0 => b <= cur
    BY UpgradeConstants DEF Boxes
  <2> QED
    BY <2>1, <2>2 DEF Reached
<1>7. \A b \in Rows : b \in 0 .. MaxBoxes /\ (~(b = worker.new /\ worker.pc = "provision") => Reached(b, cur))
  BY <1>1, UpgradeConstants DEF Rows, Boxes, Reached
<1>8. probe' # NoProbe => Reached(probe'.b, cur) /\ probe'.b \in 0 .. MaxBoxes
  <2>1. probe.b \in 0 .. MaxBoxes
    BY DEF TypeOK
  <2> QED
    BY <1>1, <1>7, <2>1
<1>9. \A d \in Deliveries : delivery'[d].pc = "loaded" => Reached(delivery'[d].b, cur)
                                                        /\ delivery'[d].b \in 0 .. MaxBoxes
  <2>1. \A d \in Deliveries : delivery[d].b \in 0 .. MaxBoxes
    BY DEF TypeOK, DeliveryState
  <2> QED
    BY <1>1, <1>7, <2>1
<1>10. /\ probe' # NoProbe => Reached(probe.b, cur)'
       /\ \A d \in Deliveries : delivery'[d].pc = "loaded" => Reached(delivery[d].b, cur)'
  BY <1>6, <1>8, <1>9 DEF Reached
<1> QED
  BY <1>2, <1>3, <1>4, <1>5, <1>10 DEF Leads, Busy, Succeeded

(* The same for a step that only moves the worker and its boxes.           *)
LEMMA LeadsKept ==
  ASSUME TypeOK, NEW cur \in Boxes, Leads(cur), UNCHANGED <<retire, upgrade, delivery, probe>>,
         cur \in Rows', Kept' \subseteq box'[cur].db,
         \A b \in Boxes : /\ box[b].row = "gone" => box'[b].row = "gone"
                          /\ b \in Rows' => b \in Rows \/ b = worker.new \/ b <= cur,
         worker'.new = worker.new, worker'.old = worker.old,
         worker'.pc # "idle" => worker.pc # "idle",
         worker'.pc = "provision" => worker.pc = "provision"
  PROVE  Leads(cur)'
<1>1. Older
  BY DEF Older
<1> QED
  BY <1>1, LeadsFrame

(* Steps that only touch the queue, the requests and the upgrades' rows.   *)
LEMMA QueueFrame ==
  ASSUME TypeOK, Tasked, Made, Saved, Durable, Current, \A u \in Upgrades : Replaces(u)',
         \A u \in Upgrades : upgrade'[u].st = "succeeded" =>
           upgrade[u].st = "succeeded" /\ upgrade'[u].old = upgrade[u].old,
         UNCHANGED <<box, worker, retire, delivery, probe, sync, acked, exempt, fallen>>
  PROVE  Made' /\ Saved' /\ Durable' /\ Current'
<1>1. Private' /\ Creating'
  BY DEF Made, Private, Creating, Succeeded
<1>2. Made'
  <2>1. (\A b \in Boxes : box'[b].db \subseteq 1 .. acked') /\ worker'.backup \subseteq 1 .. acked' /\ Lasting
    BY DEF Made, Lasting
  <2> QED
    BY <1>1, <2>1, MadeFrame
<1>3. Saved'
  BY DEF Saved
<1>4. Durable'
  <2>1. \A b \in Boxes : Condemned(b)' => Condemned(b)
    <3>1. retire.due \subseteq Upgrades
      BY DEF TypeOK
    <3> QED
      BY <3>1 DEF Condemned, Succeeded
  <2>2. \A b \in Boxes : Firm(b) => Firm(b)'
    BY <2>1 DEF Firm
  <2> QED
    BY <2>2, DurableFrame
<1>5. Current'
  <2>1. \A cur \in Boxes : Leads(cur) => Leads(cur)'
    BY DEF Leads, Rows, Busy, Reached, Kept, Succeeded
  <2>2. HandsOver => HandsOver'
    BY DEF HandsOver, Rows, Kept
  <2> QED
    BY <2>1, <2>2 DEF Current
<1> QED
  BY <1>2, <1>3, <1>4, <1>5

(* The worker's phases keep the inductive invariant.                       *)
LEMMA BackupKeeps ==
  ASSUME IndInv, RunBackup PROVE IndInv'
<1>0. TypeOK /\ Tasked /\ Made /\ Saved /\ Durable /\ Current
  BY DEF IndInv
<1>g. worker.pc = "backup" /\ box[worker.old].res = "up" /\ worker.old \in Boxes
  BY <1>0, Held DEF RunBackup, At, Busy
<1>w. /\ worker'.pc = "create" /\ worker'.u = worker.u /\ worker'.old = worker.old
      /\ worker'.new = worker.new /\ worker'.backup = box[worker.old].db
      /\ worker'.paused = worker.paused /\ worker.pc = "backup"
      /\ UNCHANGED <<box, upgrade, slot, caller, retire, delivery, probe, sync, acked, exempt,
                     lost, fallen, events>>
  BY <1>0, <1>g DEF RunBackup, At, NoFault, TypeOK, WorkerState
<1>t. TypeOK'
  <2>1. worker' \in WorkerState
    BY <1>0, <1>g DEF RunBackup, TypeOK, WorkerState, BoxState, Phases
  <2> QED
    BY <1>0, <1>w, <2>1 DEF TypeOK
<1>q. Tasked'
  BY <1>0, <1>w, TaskedFrame
<1>m. Made'
  <2>1. Creating'
    BY <1>0, <1>g, <1>w DEF Made, Creating, Restored, Copying
  <2>2. worker'.backup \subseteq 1 .. acked /\ \A b \in Boxes : box'[b].db \subseteq 1 .. acked
    BY <1>0, <1>g, <1>w DEF Made
  <2> QED
    BY <1>0, <1>w, <2>1, <2>2, MadeKept DEF Lasting, Older
<1>s. Saved'
  BY <1>w DEF Saved, Copying, Restored
<1>d. Durable'
  BY <1>0, <1>w, DurableFrame DEF Firm, Condemned, Succeeded
<1>c. Current'
  <2> SUFFICES ASSUME ~fallen PROVE Current'
    BY <1>w DEF Current
  <2>1. PICK cur \in Boxes : Leads(cur)
    BY <1>0 DEF Current
  <2>2. HandsOver'
    BY <1>0, <1>w, <2>1 DEF Current, HandsOver, Leads, Kept, Restored, Copying, Busy
  <2>3. Leads(cur)'
    BY <1>w, <2>1 DEF Leads, Rows, Busy, Reached, Kept, Succeeded
  <2> QED
    BY <2>2, <2>3 DEF Current
<1> QED
  BY <1>t, <1>q, <1>m, <1>s, <1>d, <1>c DEF IndInv

(* SyncRuntime goes on to the pause.                                       *)
LEMMA SyncRuntimeKeeps ==
  ASSUME IndInv, SyncRuntime PROVE IndInv'
<1>0. TypeOK /\ Tasked /\ Made /\ Saved /\ Durable /\ Current
  BY DEF IndInv
<1>g. worker.pc = "sync" /\ worker.old \in Boxes /\ worker.old # 0 /\ 0 \notin Boxes
  BY <1>0, Held DEF SyncRuntime, At, Busy
<1>w. /\ worker'.pc = "pause" /\ worker'.u = worker.u /\ worker'.old = worker.old
      /\ worker'.new = worker.new /\ worker'.backup = worker.backup
      /\ worker'.paused = worker.paused
      /\ UNCHANGED <<box, upgrade, slot, caller, retire, delivery, probe, sync, acked,
                     exempt, lost, fallen, events>>
  BY <1>0 DEF SyncRuntime, At, Goto, NoFault, TypeOK, WorkerState
<1>t. TypeOK'
  <2>1. worker' \in WorkerState
    BY <1>0, <1>g DEF SyncRuntime, Goto, TypeOK, WorkerState, Phases
  <2> QED
    BY <1>0, <1>g, <1>w, <2>1 DEF TypeOK
<1>q. Tasked'
  BY <1>0, <1>g, <1>w, TaskedFrame
<1>m. Made'
  <2>1. Creating'
    BY <1>0, <1>g, <1>w DEF Made, Creating, Private, Restored, Copying
  <2>2. worker'.backup \subseteq 1 .. acked /\ \A b \in Boxes : box'[b].db \subseteq 1 .. acked
    BY <1>0, <1>g, <1>w DEF Made
  <2>3. Lasting /\ Older /\ (sync # 0 => box'[sync].res = box[sync].res)
    BY <1>0, <1>g, <1>w, Held DEF Lasting, Older, Made, Syncing, Private, Creating
  <2> QED
    BY <1>0, <1>w, <2>1, <2>2, <2>3, MadeKept
<1>s. Saved'
  BY <1>0, <1>g, <1>w DEF Saved, Copying, Restored, Made, Private, Creating
<1>d. Durable'
  BY <1>0, <1>g, <1>w, DurableFrame DEF Firm, Condemned, Succeeded
<1>c. Current'
  <2> SUFFICES ASSUME ~fallen' PROVE Current'
    BY DEF Current
  <2>1. PICK cur \in Boxes : Leads(cur) /\ HandsOver
    BY <1>0, <1>w DEF Current
  <2>2. HandsOver'
    BY <1>0, <1>g, <1>w, <2>1 DEF HandsOver, Leads, Kept, Restored, Copying, Busy, Rows
  <2>3. /\ cur \in Rows' /\ Kept' \subseteq box'[cur].db
        /\ \A b \in Boxes : /\ box[b].row = "gone" => box'[b].row = "gone"
                            /\ b \in Rows' => b \in Rows \/ b = worker.new \/ b <= cur
    BY <1>0, <1>g, <1>w, <2>1 DEF Leads, Rows, Busy, Kept
  <2>4. Leads(cur)'
    BY <1>0, <1>g, <1>w, <2>1, <2>3, LeadsKept
  <2> QED
    BY <2>2, <2>4 DEF Current
<1> QED
  BY <1>t, <1>q, <1>m, <1>s, <1>d, <1>c DEF IndInv

(* A phase that fails starts the rollback.                                 *)
LEMMA PhaseFailsKeeps ==
  ASSUME IndInv, PhaseFails PROVE IndInv'
<1>0. TypeOK /\ Tasked /\ Made /\ Saved /\ Durable /\ Current
  BY DEF IndInv
<1>g. /\ worker.pc \in Phases /\ worker.pc # "idle" /\ worker.old \in Boxes
      /\ worker.old # 0 /\ 0 \notin Boxes
  BY <1>0, Held DEF PhaseFails, At, Busy, Phases
<1>w. /\ worker'.pc = "undo" /\ worker'.u = worker.u /\ worker'.old = worker.old
      /\ worker'.new = worker.new /\ worker'.backup = worker.backup
      /\ worker'.paused = worker.paused
      /\ UNCHANGED <<box, upgrade, slot, caller, retire, delivery, probe, sync, acked,
                     exempt, lost, fallen>>
  BY <1>0 DEF PhaseFails, At, Goto, NoFault, TypeOK, WorkerState
<1>e. events' \in 0 .. MaxEvents
  BY <1>0, UpgradeConstants DEF PhaseFails, Fault, NoFault, TypeOK
<1>t. TypeOK'
  <2>1. worker' \in WorkerState
    BY <1>0, <1>g DEF PhaseFails, Goto, TypeOK, WorkerState, Phases
  <2> QED
    BY <1>0, <1>g, <1>w, <2>1, <1>e DEF TypeOK
<1>q. Tasked'
  BY <1>0, <1>g, <1>w, TaskedFrame
<1>m. Made'
  <2>1. Creating'
    BY <1>0, <1>g, <1>w DEF Made, Creating, Private, Restored, Copying
  <2>2. worker'.backup \subseteq 1 .. acked /\ \A b \in Boxes : box'[b].db \subseteq 1 .. acked
    BY <1>0, <1>g, <1>w DEF Made
  <2>3. Lasting /\ Older /\ (sync # 0 => box'[sync].res = box[sync].res)
    BY <1>0, <1>g, <1>w, Held DEF Lasting, Older, Made, Syncing, Private, Creating
  <2> QED
    BY <1>0, <1>w, <2>1, <2>2, <2>3, MadeKept
<1>s. Saved'
  <2>1. worker.paused => worker.pc \in {"cleanup", "finish", "undo", "undo_old"}
    BY <1>0 DEF Made, Creating
  <2> QED
    BY <1>0, <1>g, <1>w, <2>1 DEF Saved, Copying, Restored, Phases
<1>d. Durable'
  BY <1>0, <1>g, <1>w, DurableFrame DEF Firm, Condemned, Succeeded
<1>c. Current'
  <2> SUFFICES ASSUME ~fallen' PROVE Current'
    BY DEF Current
  <2>1. PICK cur \in Boxes : Leads(cur) /\ HandsOver
    BY <1>0, <1>w DEF Current
  <2>2. HandsOver'
    BY <1>0, <1>g, <1>w, <2>1 DEF HandsOver, Leads, Kept, Restored, Copying, Busy, Rows
  <2>3. /\ cur \in Rows' /\ Kept' \subseteq box'[cur].db
        /\ \A b \in Boxes : /\ box[b].row = "gone" => box'[b].row = "gone"
                            /\ b \in Rows' => b \in Rows \/ b = worker.new \/ b <= cur
    BY <1>0, <1>g, <1>w, <2>1 DEF Leads, Rows, Busy, Kept
  <2>4. Leads(cur)'
    BY <1>0, <1>g, <1>w, <2>1, <2>3, LeadsKept
  <2> QED
    BY <2>2, <2>4 DEF Current
<1> QED
  BY <1>t, <1>q, <1>m, <1>s, <1>d, <1>c DEF IndInv

(* The new sandbox is stopped                                              *)
LEMMA StopNewKeeps ==
  ASSUME IndInv, StopNew PROVE IndInv'
<1>0. TypeOK /\ Tasked /\ Made /\ Saved /\ Durable /\ Current
  BY DEF IndInv
<1>g. /\ worker.pc = "stop_new" /\ worker.new \in Boxes /\ worker.new # worker.old
      /\ worker.old \in Boxes /\ worker.old # 0 /\ 0 \notin Boxes
  BY <1>0, Held DEF StopNew, At, Busy, Made, Creating, Private, Restored, Phases
<1>w. /\ worker'.pc = "start_new" /\ worker'.u = worker.u /\ worker'.old = worker.old
      /\ worker'.new = worker.new /\ worker'.backup = worker.backup
      /\ worker'.paused = worker.paused
      /\ UNCHANGED <<upgrade, slot, caller, retire, delivery, probe, sync, acked,
                     exempt, lost, fallen, events>>
  BY <1>0 DEF StopNew, At, Goto, NoFault, TypeOK, WorkerState
<1>b. /\ box' \in [Boxes -> BoxState]
      /\ box'[worker.new].row = (IF box[worker.new].row = "gone" THEN "gone" ELSE "stopped")
      /\ box'[worker.new].res = "down" /\ box'[worker.new].db = box[worker.new].db
      /\ \A d \in Boxes \ {worker.new} : box'[d] = box[d]
  <2>1. Moved(worker.new, IF box[worker.new].row = "gone" THEN "gone" ELSE "stopped", "down",
              box[worker.new].db)
    BY <1>0, <1>g, StopMoves DEF StopNew
  <2> QED
    BY <2>1 DEF Moved
<1>t. TypeOK'
  <2>1. worker' \in WorkerState
    BY <1>0, <1>g DEF StopNew, Goto, TypeOK, WorkerState, Phases
  <2> QED
    BY <1>0, <1>g, <1>w, <1>b, <2>1 DEF TypeOK
<1>q. Tasked'
  BY <1>0, <1>g, <1>w, TaskedFrame
<1>m. Made'
  <2>1. Creating'
    BY <1>0, <1>g, <1>w, <1>b DEF Made, Creating, Private, Restored, Copying
  <2>2. worker'.backup \subseteq 1 .. acked /\ \A b \in Boxes : box'[b].db \subseteq 1 .. acked
    BY <1>0, <1>g, <1>w, <1>b DEF Made
  <2>3. Lasting /\ Older /\ (sync # 0 => box'[sync].res = box[sync].res)
    BY <1>0, <1>g, <1>w, <1>b, Held DEF Lasting, Older, Made, Syncing, Private, Creating
  <2> QED
    BY <1>0, <1>w, <2>1, <2>2, <2>3, MadeKept
<1>s. Saved'
  BY <1>0, <1>g, <1>w, <1>b DEF Saved, Copying, Restored, Made, Private, Creating
<1>d. Durable'
  BY <1>0, <1>g, <1>w, <1>b, DurableFrame DEF Firm, Condemned, Succeeded
<1>c. Current'
  <2> SUFFICES ASSUME ~fallen' PROVE Current'
    BY DEF Current
  <2>1. PICK cur \in Boxes : Leads(cur) /\ HandsOver
    BY <1>0, <1>w DEF Current
  <2>2. HandsOver'
    BY <1>0, <1>g, <1>w, <1>b, <2>1 DEF HandsOver, Leads, Kept, Restored, Copying, Busy, Rows
  <2>3. /\ cur \in Rows' /\ Kept' \subseteq box'[cur].db
        /\ \A b \in Boxes : /\ box[b].row = "gone" => box'[b].row = "gone"
                            /\ b \in Rows' => b \in Rows \/ b = worker.new \/ b <= cur
    BY <1>0, <1>g, <1>w, <1>b, <2>1 DEF Leads, Rows, Busy, Kept
  <2>4. Leads(cur)'
    BY <1>0, <1>g, <1>w, <2>1, <2>3, LeadsKept
  <2> QED
    BY <2>2, <2>4 DEF Current
<1> QED
  BY <1>t, <1>q, <1>m, <1>s, <1>d, <1>c DEF IndInv

(* and started again.                                                      *)
LEMMA StartNewKeeps ==
  ASSUME IndInv, StartNew PROVE IndInv'
<1>0. TypeOK /\ Tasked /\ Made /\ Saved /\ Durable /\ Current
  BY DEF IndInv
<1>g. /\ worker.pc = "start_new" /\ worker.new \in Boxes /\ worker.new # worker.old
      /\ worker.old \in Boxes /\ worker.old # 0 /\ 0 \notin Boxes
  BY <1>0, Held DEF StartNew, At, Busy, Made, Creating, Private, Restored, Phases
<1>w. /\ worker'.pc = "sync" /\ worker'.u = worker.u /\ worker'.old = worker.old
      /\ worker'.new = worker.new /\ worker'.backup = worker.backup
      /\ worker'.paused = worker.paused
      /\ UNCHANGED <<upgrade, slot, caller, retire, delivery, probe, sync, acked,
                     exempt, lost, fallen, events>>
  BY <1>0 DEF StartNew, At, Goto, NoFault, TypeOK, WorkerState
<1>b. /\ box' \in [Boxes -> BoxState]
      /\ box'[worker.new].row = (IF box[worker.new].row = "gone" THEN "gone" ELSE "running")
      /\ box'[worker.new].res = "up" /\ box'[worker.new].db = box[worker.new].db
      /\ \A d \in Boxes \ {worker.new} : box'[d] = box[d]
  <2>1. Moved(worker.new, IF box[worker.new].row = "gone" THEN "gone" ELSE "running", "up",
              box[worker.new].db)
    BY <1>0, <1>g, StartMoves DEF StartNew
  <2> QED
    BY <2>1 DEF Moved
<1>t. TypeOK'
  <2>1. worker' \in WorkerState
    BY <1>0, <1>g DEF StartNew, Goto, TypeOK, WorkerState, Phases
  <2> QED
    BY <1>0, <1>g, <1>w, <1>b, <2>1 DEF TypeOK
<1>q. Tasked'
  BY <1>0, <1>g, <1>w, TaskedFrame
<1>m. Made'
  <2>1. Creating'
    BY <1>0, <1>g, <1>w, <1>b DEF Made, Creating, Private, Restored, Copying
  <2>2. worker'.backup \subseteq 1 .. acked /\ \A b \in Boxes : box'[b].db \subseteq 1 .. acked
    BY <1>0, <1>g, <1>w, <1>b DEF Made
  <2>3. Lasting /\ Older /\ (sync # 0 => box'[sync].res = box[sync].res)
    BY <1>0, <1>g, <1>w, <1>b, Held DEF Lasting, Older, Made, Syncing, Private, Creating
  <2> QED
    BY <1>0, <1>w, <2>1, <2>2, <2>3, MadeKept
<1>s. Saved'
  BY <1>0, <1>g, <1>w, <1>b DEF Saved, Copying, Restored, Made, Private, Creating
<1>d. Durable'
  BY <1>0, <1>g, <1>w, <1>b, DurableFrame DEF Firm, Condemned, Succeeded
<1>c. Current'
  <2> SUFFICES ASSUME ~fallen' PROVE Current'
    BY DEF Current
  <2>1. PICK cur \in Boxes : Leads(cur) /\ HandsOver
    BY <1>0, <1>w DEF Current
  <2>2. HandsOver'
    BY <1>0, <1>g, <1>w, <1>b, <2>1 DEF HandsOver, Leads, Kept, Restored, Copying, Busy, Rows
  <2>3. /\ cur \in Rows' /\ Kept' \subseteq box'[cur].db
        /\ \A b \in Boxes : /\ box[b].row = "gone" => box'[b].row = "gone"
                            /\ b \in Rows' => b \in Rows \/ b = worker.new \/ b <= cur
    BY <1>0, <1>g, <1>w, <1>b, <2>1 DEF Leads, Rows, Busy, Kept
  <2>4. Leads(cur)'
    BY <1>0, <1>g, <1>w, <2>1, <2>3, LeadsKept
  <2> QED
    BY <2>2, <2>4 DEF Current
<1> QED
  BY <1>t, <1>q, <1>m, <1>s, <1>d, <1>c DEF IndInv

(* The old sandbox is paused: it is not condemned while the worker has it. *)
LEMMA PauseOldKeeps ==
  ASSUME IndInv, PauseOld PROVE IndInv'
<1>0. TypeOK /\ Tasked /\ Made /\ Saved /\ Durable /\ Current
  BY DEF IndInv
<1>g. /\ worker.pc = "pause" /\ worker.new \in Boxes /\ worker.new # worker.old
      /\ worker.old \in Boxes /\ worker.old # 0 /\ 0 \notin Boxes
  BY <1>0, Held DEF PauseOld, At, Busy, Made, Creating, Private, Restored, Phases
<1>w. /\ worker'.pc = "cleanup" /\ worker'.u = worker.u /\ worker'.old = worker.old
      /\ worker'.new = worker.new /\ worker'.backup = worker.backup
      /\ worker'.paused = TRUE
      /\ UNCHANGED <<upgrade, slot, caller, retire, delivery, probe, sync, acked,
                     exempt, lost, fallen, events>>
  BY <1>0 DEF PauseOld, At, Goto, NoFault, TypeOK, WorkerState
<1>b. /\ box' \in [Boxes -> BoxState]
      /\ box'[worker.old].row = (IF box[worker.old].row = "gone" THEN "gone" ELSE "stopped")
      /\ box'[worker.old].res = "down" /\ box'[worker.old].db = box[worker.old].db
      /\ \A d \in Boxes \ {worker.old} : box'[d] = box[d]
  <2>1. Moved(worker.old, IF box[worker.old].row = "gone" THEN "gone" ELSE "stopped", "down",
              box[worker.old].db)
    BY <1>0, <1>g, StopMoves DEF PauseOld
  <2> QED
    BY <2>1 DEF Moved
<1>t. TypeOK'
  <2>1. worker' \in WorkerState
    BY <1>0, <1>g DEF PauseOld, Goto, TypeOK, WorkerState, Phases
  <2> QED
    BY <1>0, <1>g, <1>w, <1>b, <2>1 DEF TypeOK
<1>q. Tasked'
  BY <1>0, <1>g, <1>w, TaskedFrame
<1>m. Made'
  <2>1. Creating'
    BY <1>0, <1>g, <1>w, <1>b DEF Made, Creating, Private, Restored, Copying
  <2>2. worker'.backup \subseteq 1 .. acked /\ \A b \in Boxes : box'[b].db \subseteq 1 .. acked
    BY <1>0, <1>g, <1>w, <1>b DEF Made
  <2>3. Lasting /\ Older /\ (sync # 0 => box'[sync].res = box[sync].res)
    <3>1. box[worker.old].row # "none" /\ box[worker.old].res # "none"
      BY <1>0, <1>g, Held DEF Made, Creating, Restored, Busy
    <3>2. sync # 0 => sync \in Boxes /\ sync # worker.old
      BY <1>0, <3>1, Held DEF Made, Syncing
    <3> QED
      BY <1>g, <1>w, <1>b, <3>1, <3>2 DEF Lasting, Older
  <2> QED
    BY <1>0, <1>w, <2>1, <2>2, <2>3, MadeKept
<1>s. Saved'
  BY <1>0, <1>g, <1>w, <1>b DEF Saved, Copying, Restored, Made, Private, Creating
<1>d. Durable'
  BY <1>0, <1>g, <1>w, <1>b, DurableFrame DEF Firm, Condemned, Succeeded
<1>c. Current'
  <2> SUFFICES ASSUME ~fallen' PROVE Current'
    BY DEF Current
  <2>1. PICK cur \in Boxes : Leads(cur) /\ HandsOver
    BY <1>0, <1>w DEF Current
  <2>2. HandsOver'
    BY <1>0, <1>g, <1>w, <1>b, <2>1 DEF HandsOver, Leads, Kept, Restored, Copying, Busy, Rows
  <2>3. /\ cur \in Rows' /\ Kept' \subseteq box'[cur].db
        /\ \A b \in Boxes : /\ box[b].row = "gone" => box'[b].row = "gone"
                            /\ b \in Rows' => b \in Rows \/ b = worker.new \/ b <= cur
    BY <1>0, <1>g, <1>w, <1>b, <2>1 DEF Leads, Rows, Busy, Kept
  <2>4. Leads(cur)'
    BY <1>0, <1>g, <1>w, <2>1, <2>3, LeadsKept
  <2> QED
    BY <2>2, <2>4 DEF Current
<1> QED
  BY <1>t, <1>q, <1>m, <1>s, <1>d, <1>c DEF IndInv

(* The restore gives the new sandbox the backup.                           *)
LEMMA RestoreKeeps ==
  ASSUME IndInv, RunRestore PROVE IndInv'
<1>0. TypeOK /\ Tasked /\ Made /\ Saved /\ Durable /\ Current
  BY DEF IndInv
<1>g. /\ worker.pc = "restore" /\ worker.new \in Boxes /\ worker.new # worker.old
      /\ worker.old \in Boxes /\ worker.old # 0 /\ 0 \notin Boxes
  BY <1>0, Held DEF RunRestore, At, Busy, Made, Creating, Private, Restored, Phases
<1>w. /\ worker'.pc = "stop_new" /\ worker'.u = worker.u /\ worker'.old = worker.old
      /\ worker'.new = worker.new /\ worker'.backup = worker.backup
      /\ worker'.paused = worker.paused
      /\ UNCHANGED <<upgrade, slot, caller, retire, delivery, probe, sync, acked,
                     exempt, lost, fallen, events>>
  BY <1>0 DEF RunRestore, At, Goto, NoFault, TypeOK, WorkerState
<1>b. /\ box' \in [Boxes -> BoxState] /\ box'[worker.new].row = box[worker.new].row
      /\ box'[worker.new].res = box[worker.new].res /\ box'[worker.new].db = worker.backup
      /\ \A d \in Boxes \ {worker.new} : box'[d] = box[d]
  <2>1. Moved(worker.new, box[worker.new].row, box[worker.new].res, worker.backup)
    BY <1>0, <1>g, DbMoves DEF RunRestore, TypeOK, WorkerState
  <2> QED
    BY <2>1 DEF Moved
<1>t. TypeOK'
  <2>1. worker' \in WorkerState
    BY <1>0, <1>g DEF RunRestore, Goto, TypeOK, WorkerState, Phases
  <2> QED
    BY <1>0, <1>g, <1>w, <1>b, <2>1 DEF TypeOK
<1>q. Tasked'
  BY <1>0, <1>g, <1>w, TaskedFrame
<1>m. Made'
  <2>1. Creating'
    BY <1>0, <1>g, <1>w, <1>b DEF Made, Creating, Private, Restored, Copying
  <2>2. worker'.backup \subseteq 1 .. acked /\ \A b \in Boxes : box'[b].db \subseteq 1 .. acked
    BY <1>0, <1>g, <1>w, <1>b DEF Made
  <2>3. Lasting /\ Older /\ (sync # 0 => box'[sync].res = box[sync].res)
    BY <1>0, <1>g, <1>w, <1>b, Held DEF Lasting, Older, Made, Syncing, Private, Creating
  <2> QED
    BY <1>0, <1>w, <2>1, <2>2, <2>3, MadeKept
<1>s. Saved'
  BY <1>0, <1>g, <1>w, <1>b DEF Saved, Copying, Restored, Made, Private, Creating
<1>d. Durable'
  BY <1>0, <1>g, <1>w, <1>b, DurableFrame DEF Firm, Condemned, Succeeded
<1>c. Current'
  <2> SUFFICES ASSUME ~fallen' PROVE Current'
    BY DEF Current
  <2>1. PICK cur \in Boxes : Leads(cur) /\ HandsOver
    BY <1>0, <1>w DEF Current
  <2>2. HandsOver'
    BY <1>0, <1>g, <1>w, <1>b, <2>1 DEF HandsOver, Leads, Kept, Restored, Copying, Busy, Rows
  <2>3. /\ cur \in Rows' /\ Kept' \subseteq box'[cur].db
        /\ \A b \in Boxes : /\ box[b].row = "gone" => box'[b].row = "gone"
                            /\ b \in Rows' => b \in Rows \/ b = worker.new \/ b <= cur
    BY <1>0, <1>g, <1>w, <1>b, <2>1 DEF Leads, Rows, Busy, Kept
  <2>4. Leads(cur)'
    BY <1>0, <1>g, <1>w, <2>1, <2>3, LeadsKept
  <2> QED
    BY <2>2, <2>4 DEF Current
<1> QED
  BY <1>t, <1>q, <1>m, <1>s, <1>d, <1>c DEF IndInv

(* A step that makes the next row.                                         *)
LEMMA MadeNewRow ==
  ASSUME TypeOK, Tasked, Made, NEW n \in Boxes, box[n].row = "none",
         \A d \in Boxes : box[d].row = "none" => n <= d, Moved(n, "creating", "none", {}),
         UNCHANGED <<upgrade, retire, delivery, probe, acked>>, worker'.backup = worker.backup,
         Creating', Private', Syncing'
  PROVE  Made'
<1>1. /\ box'[n].row = "creating" /\ box'[n].res = "none" /\ box'[n].db = {}
      /\ \A d \in Boxes \ {n} : box'[d] = box[d]
  BY DEF Moved
<1>2. Numbered'
  <2> SUFFICES ASSUME NEW b \in Boxes, NEW d \in Boxes, box'[b].row = "none", b < d
               PROVE  box'[d].row = "none"
    BY DEF Numbered
  <2>1. b # n /\ box[b].row = "none"
    BY <1>1
  <2>2. n <= b /\ box[d].row = "none"
    BY <2>1 DEF Made, Numbered
  <2>3. d # n
    BY <2>2, UpgradeConstants DEF Boxes
  <2> QED
    BY <1>1, <2>2, <2>3
<1>3. Retiring'
  BY <1>1, Held DEF Made, Retiring
<1>4. Probing'
  BY <1>1 DEF Made, Probing
<1>5. \A u \in Upgrades : Replaces(u)'
  BY <1>1 DEF Made, Replaces, Succeeded
<1>6. \A d \in Deliveries : Delivering(d)'
  BY <1>1 DEF Made, Delivering
<1>7. (\A b \in Boxes : box'[b].db \subseteq 1 .. acked') /\ worker'.backup \subseteq 1 .. acked'
  BY <1>1 DEF Made
<1> QED
  BY <1>2, <1>3, <1>4, <1>5, <1>6, <1>7 DEF Made

(* The new row is greater than the current one.                            *)
LEMMA CreateRowKeeps ==
  ASSUME IndInv, CreateRow PROVE IndInv'
<1>0. TypeOK /\ Tasked /\ Made /\ Saved /\ Durable /\ Current
  BY DEF IndInv
<1>g. worker.pc = "create" /\ worker.old \in Boxes /\ worker.new = 0 /\ 0 \notin Boxes
  BY <1>0, Held DEF CreateRow, At, Busy, Made, Creating
<1>n. PICK n \in Boxes : /\ n = NextBox /\ box[n].row = "none"
                         /\ \A d \in Boxes : box[d].row = "none" => n <= d
                         /\ Moved(n, "creating", "none", {})
  <2>1. Unmade # {} /\ NewRow
    BY DEF CreateRow
  <2> QED
    BY <1>0, <2>1, NewRowMoves
<1>b. /\ box' \in [Boxes -> BoxState] /\ box'[n].row = "creating" /\ box'[n].res = "none"
      /\ box'[n].db = {} /\ \A d \in Boxes \ {n} : box'[d] = box[d]
  BY <1>n DEF Moved

<1>w. /\ worker'.pc = "provision" /\ worker'.u = worker.u /\ worker'.old = worker.old
      /\ worker'.new = n /\ worker'.backup = worker.backup /\ worker'.paused = worker.paused
      /\ UNCHANGED <<upgrade, slot, caller, retire, delivery, probe, sync, acked, exempt,
                     lost, fallen, events>>
  BY <1>0, <1>n DEF CreateRow, NoFault, TypeOK, WorkerState
<1>o. /\ worker.old # n /\ retire.at # n /\ sync # n
      /\ \A u \in Upgrades : upgrade[u].st = "succeeded" => upgrade[u].old # n
  BY <1>0, <1>g, <1>n, Held DEF Busy, Made, Retiring, Syncing, Replaces
<1>t. TypeOK'
  <2>1. worker' \in WorkerState
    <3>1. n \in 0 .. MaxBoxes
      BY UpgradeConstants DEF Boxes
    <3> QED
      BY <1>0, <1>n, <3>1 DEF CreateRow, TypeOK, WorkerState, Phases
  <2> QED
    BY <1>0, <1>g, <1>w, <1>b, <2>1 DEF TypeOK
<1>q. Tasked'
  BY <1>0, <1>g, <1>w, TaskedFrame
<1>m. Made'
  <2>1. Creating'
    BY <1>0, <1>g, <1>w, <1>b, <1>o DEF Made, Creating, Restored, Copying
  <2>2. Private'
    BY <1>w, <1>b, <1>o DEF Private, Succeeded
  <2>3. Syncing'
    BY <1>0, <1>w, <1>b, <1>o, Held DEF Made, Syncing
  <2> QED
    BY <1>0, <1>n, <1>w, <2>1, <2>2, <2>3, MadeNewRow
<1>s. Saved'
  BY <1>0, <1>g, <1>w, <1>b, <1>o DEF Saved, Copying, Restored
<1>d. Durable'
  BY <1>0, <1>n, <1>w, <1>b, DurableFrame DEF Firm, Condemned, Succeeded
<1>c. Current'
  <2> SUFFICES ASSUME ~fallen' PROVE Current'
    BY DEF Current
  <2>1. PICK cur \in Boxes : Leads(cur) /\ HandsOver
    BY <1>0, <1>w DEF Current
  <2>2. HandsOver'
    BY <1>g, <1>w, <1>b, <2>1 DEF HandsOver, Kept, Restored, Copying
  <2>3. cur # n /\ cur < n /\ cur \in Rows'
    <3>1. cur \in Rows /\ box[cur].row # "none"
      BY <2>1 DEF Leads, Rows
    <3>2. ~(n < cur)
      BY <1>0, <1>n, <3>1 DEF Made, Numbered
    <3>3. cur < n
      BY <1>n, <3>1, <3>2, UpgradeConstants DEF Boxes
    <3> QED
      BY <1>n, <1>b, <3>1, <3>3 DEF Rows
  <2>4. \A b \in Rows' : b <= cur \/ b = n
    BY <1>g, <1>b, <2>1 DEF Leads, Rows
  <2>5. \A b \in 0 .. MaxBoxes : Reached(b, cur) => b <= cur \/ box'[b].row = "gone"
    <3> SUFFICES ASSUME NEW b \in 0 .. MaxBoxes, Reached(b, cur) PROVE b <= cur \/ box'[b].row = "gone"
      OBVIOUS
    <3>1. b = 0 \/ b \in Boxes
      BY UpgradeConstants DEF Boxes
    <3>2. 0 <= cur
      BY UpgradeConstants DEF Boxes
    <3> QED
      BY <1>g, <1>n, <1>b, <3>1, <3>2 DEF Reached
  <2>6. \A b \in 0 .. MaxBoxes : Reached(b, cur) => Reached(b, cur)'
    BY <2>5 DEF Reached
  <2>7. probe.b \in 0 .. MaxBoxes /\ \A d \in Deliveries : delivery[d].b \in 0 .. MaxBoxes
    BY <1>0 DEF TypeOK, DeliveryState
  <2>8. probe' # NoProbe => Reached(probe.b, cur)'
    BY <1>w, <2>1, <2>6, <2>7 DEF Leads
  <2>9. \A d \in Deliveries : delivery'[d].pc = "loaded" => Reached(delivery[d].b, cur)'
    BY <1>w, <2>1, <2>6, <2>7 DEF Leads
  <2>10. Leads(cur)'
    BY <1>g, <1>w, <1>b, <2>1, <2>3, <2>4, <2>8, <2>9 DEF Leads, Busy, Succeeded, Kept
  <2> QED
    BY <2>2, <2>10 DEF Current
<1> QED
  BY <1>t, <1>q, <1>m, <1>s, <1>d, <1>c DEF IndInv

(* Writing an upgrade's row; what ends a worker.                           *)
LEMMA UpgradeWritten ==
  ASSUME TypeOK, NEW u \in Upgrades,
         NEW st \in {"queued", "running", "succeeded", "failed"},
         upgrade' = [upgrade EXCEPT ![u].st = st]
  PROVE  /\ upgrade' \in [Upgrades -> UpgradeState]
         /\ upgrade'[u].st = st /\ upgrade'[u].old = upgrade[u].old
         /\ \A v \in Upgrades \ {u} : upgrade'[v] = upgrade[v]
<1>1. upgrade[u] \in UpgradeState
  BY DEF TypeOK
<1> DEFINE r == [upgrade[u] EXCEPT !.st = st]
<1>2. r \in UpgradeState /\ r.st = st /\ r.old = upgrade[u].old
  BY <1>1 DEF UpgradeState, ActiveStatus
<1>3. upgrade' = [upgrade EXCEPT ![u] = r]
  OBVIOUS
<1> HIDE DEF r
<1> QED
  BY <1>2, <1>3 DEF TypeOK

(* Recording the new sandbox in the upgrade's row.                         *)
LEMMA UpgradeNewBox ==
  ASSUME TypeOK, NEW u \in Upgrades, NEW n \in Boxes, upgrade' = [upgrade EXCEPT ![u].new = n]
  PROVE  /\ upgrade' \in [Upgrades -> UpgradeState]
         /\ \A v \in Upgrades : upgrade'[v].st = upgrade[v].st /\ upgrade'[v].old = upgrade[v].old
<1>1. upgrade[u] \in UpgradeState /\ n \in 0 .. MaxBoxes
  BY UpgradeConstants DEF TypeOK, Boxes
<1> DEFINE r == [upgrade[u] EXCEPT !.new = n]
<1>2. r \in UpgradeState /\ r.st = upgrade[u].st /\ r.old = upgrade[u].old
  BY <1>1 DEF UpgradeState, ActiveStatus
<1>3. upgrade' = [upgrade EXCEPT ![u] = r]
  OBVIOUS
<1> HIDE DEF r
<1> QED
  BY <1>2, <1>3 DEF TypeOK

(* What Ends leaves behind.                                                *)
LEMMA EndsBy ==
  ASSUME TypeOK, NEW st \in {"running", "succeeded", "failed"}, NEW queue \in {"free", "archived"},
         Ends(st, queue), worker.u \in Upgrades
  PROVE  /\ upgrade' \in [Upgrades -> UpgradeState]
         /\ upgrade'[worker.u].st = st /\ upgrade'[worker.u].old = upgrade[worker.u].old
         /\ \A v \in Upgrades \ {worker.u} : upgrade'[v] = upgrade[v]
         /\ slot' \in SlotState /\ slot'.st = queue
         /\ worker' \in WorkerState /\ worker'.pc = "idle" /\ worker'.u = 0 /\ worker'.old = 0
         /\ worker'.new = 0 /\ worker'.backup = {} /\ ~worker'.paused
<1>1. upgrade' = [upgrade EXCEPT ![worker.u].st = st]
  BY DEF Ends
<1>2. slot' = (IF queue = "free" THEN FreeSlot ELSE [st |-> queue, u |-> worker.u])
  BY DEF Ends
<1>3. slot' \in SlotState /\ slot'.st = queue
  BY <1>2, UpgradeConstants DEF SlotState, FreeSlot, Upgrades
<1>4. worker' = IdleWorker
  BY DEF Ends
<1>5. /\ worker' \in WorkerState /\ worker'.pc = "idle" /\ worker'.u = 0 /\ worker'.old = 0
      /\ worker'.new = 0 /\ worker'.backup = {} /\ ~worker'.paused
  BY <1>4, UpgradeConstants DEF IdleWorker, WorkerState
<1> QED
  BY <1>1, <1>3, <1>5, UpgradeWritten

(* An upgrade that ends is settled or lost.                                *)
LEMMA EndTasked ==
  ASSUME TypeOK, Tasked, worker.pc # "idle", worker'.pc = "idle", worker'.u = 0,
         slot'.st \in {"free", "archived"}, UNCHANGED caller, lost \subseteq lost',
         upgrade'[worker.u].st \in {"succeeded", "failed"} \/ worker.u \in lost',
         upgrade'[worker.u].st # "none", \A v \in Upgrades \ {worker.u} : upgrade'[v] = upgrade[v]
  PROVE  Tasked'
<1>1. worker.u \in Upgrades /\ slot.u = worker.u
  BY DEF Tasked, Busy
<1>2. ActiveUpgradeIsDriven'
  <2> SUFFICES ASSUME NEW u \in Upgrades, upgrade'[u].st \in ActiveStatus
               PROVE  u \in lost' \/ \E c \in Callers : caller'[c] = [pc |-> "created", u |-> u]
    BY DEF ActiveUpgradeIsDriven, ActiveUpgrades
  <2>1. CASE u = worker.u
    BY <2>1 DEF ActiveStatus
  <2>2. CASE u # worker.u
    BY <1>1, <2>2 DEF Tasked, ActiveUpgradeIsDriven, ActiveUpgrades
  <2> QED
    BY <2>1, <2>2
<1> QED
  BY <1>2 DEF Tasked, Busy

(* A worker that ends keeps the messages: the new sandbox has those of the *)
(* old one, or the old one is still firm.                                  *)
LEMMA EndDurable ==
  ASSUME TypeOK, Tasked, Made, Durable, worker.pc # "idle",
         worker'.u = 0, worker'.new = 0, ~worker'.paused, UNCHANGED <<retire, sync, acked>>,
         exempt \subseteq exempt',
         \A u \in Upgrades : /\ upgrade'[u].old = upgrade[u].old
                             /\ u # worker.u => upgrade'[u].st = upgrade[u].st,
         Lasting,
         \A b \in Boxes : /\ b # worker.new => box'[b].db = box[b].db
                          /\ box'[b].row = "stopped" => b = worker.old \/ box[b].row = "stopped",
         \/ /\ worker.new # 0
            /\ box[worker.old].db \ exempt \subseteq box'[worker.new].db
         \/ /\ upgrade'[worker.u].st # "succeeded"
            /\ \A b \in Boxes : b = worker.old /\ Firm(b) =>
                 ~Condemned(b)' \/ box[b].db \subseteq exempt'
  PROVE  Durable'
<1>h. worker.u \in Upgrades /\ worker.old \in Boxes /\ upgrade[worker.u].old = worker.old
  BY Held DEF Busy, Tasked
<1>k. Kept' \subseteq Kept
  BY DEF Kept
<1> SUFFICES ASSUME NEW w \in Kept' PROVE \E b \in Boxes : Firm(b)' /\ w \in box'[b].db
  BY DEF Durable
<1>1. PICK b \in Boxes : Firm(b) /\ w \in box[b].db
  BY <1>k DEF Durable
<1>2. w \notin exempt' /\ w \notin exempt
  BY DEF Kept
<1>3. 0 \notin Boxes /\ b # worker.new /\ box'[b].db = box[b].db
  BY <1>1, UpgradeConstants DEF Firm, Boxes
<1>4. retire.due \subseteq Upgrades
  BY DEF TypeOK
<1>5. CASE b # worker.old
  <2>1. ~Condemned(b)'
    <3>1. ~Condemned(b)
      BY <1>1 DEF Firm
    <3> QED
      BY <1>h, <1>4, <1>5, <3>1 DEF Condemned, Succeeded
  <2>2. Firm(b)'
    BY <1>1, <1>3, <2>1 DEF Firm, Lasting
  <2> QED
    BY <1>1, <1>3, <2>2
<1>6. CASE b = worker.old /\ worker.new # 0 /\ box[worker.old].db \ exempt \subseteq box'[worker.new].db
  <2>1. /\ worker.new \in Boxes /\ box[worker.new].row # "none"
        /\ worker.new \notin {worker.old, retire.at, sync}
        /\ \A u \in Upgrades : Succeeded(u) => upgrade[u].old # worker.new
    BY <1>6, Held DEF Made, Private
  <2>2. PICK n \in Boxes : n = worker.new
    BY <2>1
  <2>3. /\ w \in box'[n].db /\ box'[n].row # "none" /\ n # sync' /\ n # worker'.new
        /\ n # retire'.at /\ \A u \in Upgrades : upgrade'[u].st = "succeeded" => upgrade'[u].old # n
    BY <1>h, <1>1, <1>2, <1>6, <2>1, <2>2 DEF Lasting, Succeeded
  <2>4. Firm(n)'
    BY <1>4, <2>3 DEF Firm, Condemned, Succeeded
  <2> QED
    BY <2>3, <2>4
<1>7. CASE b = worker.old /\ (~Condemned(b)' \/ box[b].db \subseteq exempt')
  <2>1. Firm(b)'
    BY <1>1, <1>2, <1>3, <1>7 DEF Firm, Lasting
  <2> QED
    BY <1>1, <1>3, <2>1
<1> QED
  BY <1>1, <1>5, <1>6, <1>7

(* The new sandbox is provisioned.                                         *)
LEMMA ProvisionedKeeps ==
  ASSUME IndInv, At("provision"), Provisioned(worker.new), NoFault, Goto("restore"),
         upgrade' = [upgrade EXCEPT ![worker.u].new = worker.new],
         UNCHANGED <<slot, caller, retire, delivery, probe, sync, acked, exempt, lost, fallen>>
  PROVE IndInv'
<1>0. TypeOK /\ Tasked /\ Made /\ Saved /\ Durable /\ Current
  BY DEF IndInv
<1>g. /\ worker.pc = "provision" /\ worker.old \in Boxes /\ worker.new \in Boxes /\ 0 \notin Boxes
      /\ worker.new # worker.old /\ worker.new # 0 /\ worker.u \in Upgrades
      /\ box[worker.new].res = "none" /\ ~worker.paused
  BY <1>0, Held DEF At, Busy, Made, Creating, Private
<1>w. /\ worker'.pc = "restore" /\ worker'.u = worker.u /\ worker'.old = worker.old
      /\ worker'.new = worker.new /\ worker'.backup = worker.backup
      /\ worker'.paused = worker.paused
      /\ UNCHANGED <<slot, caller, retire, delivery, probe, sync, acked, exempt, lost,
                     fallen, events>>
      /\ upgrade' \in [Upgrades -> UpgradeState]
      /\ \A v \in Upgrades : upgrade'[v].st = upgrade[v].st /\ upgrade'[v].old = upgrade[v].old
  <2>1. /\ upgrade' \in [Upgrades -> UpgradeState]
        /\ \A v \in Upgrades : upgrade'[v].st = upgrade[v].st /\ upgrade'[v].old = upgrade[v].old
    BY <1>0, <1>g, UpgradeNewBox
  <2> QED
    BY <1>0, <2>1 DEF Goto, NoFault, TypeOK, WorkerState
<1>b. /\ box' \in [Boxes -> BoxState] /\ box'[worker.new].row = "running"
      /\ box'[worker.new].res = "up" /\ box'[worker.new].db = {}
      /\ \A d \in Boxes \ {worker.new} : box'[d] = box[d]
  BY <1>0, <1>g, ProvisionMoves DEF Moved
<1>t. TypeOK'
  <2>1. worker' \in WorkerState
    BY <1>0, <1>g DEF Goto, TypeOK, WorkerState, Phases
  <2> QED
    BY <1>0, <1>g, <1>w, <1>b, <2>1 DEF TypeOK
<1>q. Tasked'
  BY <1>0, <1>g, <1>w, TaskedFrame
<1>m. Made'
  <2>1. Creating'
    BY <1>0, <1>g, <1>w, <1>b DEF Made, Creating, Private, Restored, Copying
  <2>2. worker'.backup \subseteq 1 .. acked /\ \A b \in Boxes : box'[b].db \subseteq 1 .. acked
    BY <1>0, <1>g, <1>w, <1>b DEF Made
  <2>3. Lasting /\ Older /\ (sync # 0 => box'[sync].res = box[sync].res)
    BY <1>0, <1>g, <1>w, <1>b, Held DEF Lasting, Older, Made, Syncing, Private
  <2> QED
    BY <1>0, <1>g, <1>w, <2>1, <2>2, <2>3, MadeKept
<1>s. Saved'
  BY <1>0, <1>g, <1>w, <1>b DEF Saved, Copying, Restored
<1>d. Durable'
  <2>1. retire.due \subseteq Upgrades
    BY <1>0 DEF TypeOK
  <2> QED
    BY <1>0, <1>g, <1>w, <1>b, <2>1, DurableFrame DEF Firm, Condemned, Succeeded
<1>c. Current'
  <2> SUFFICES ASSUME ~fallen' PROVE Current'
    BY DEF Current
  <2>1. PICK cur \in Boxes : Leads(cur) /\ HandsOver
    BY <1>0, <1>w DEF Current
  <2>2. HandsOver'
    BY <1>0, <1>g, <1>w, <1>b, <2>1 DEF HandsOver, Leads, Kept, Restored, Copying, Busy, Rows
  <2>3. /\ cur \in Rows' /\ Kept' \subseteq box'[cur].db
        /\ \A b \in Boxes : /\ box[b].row = "gone" => box'[b].row = "gone"
                            /\ b \in Rows' => b \in Rows \/ b = worker.new \/ b <= cur
    BY <1>0, <1>g, <1>w, <1>b, <2>1 DEF Leads, Rows, Busy, Kept, HandsOver
  <2>4. Leads(cur)'
    <3>1. Older
      BY <1>w DEF Older
    <3> QED
      BY <1>0, <1>g, <1>w, <2>1, <2>3, <3>1, LeadsFrame
  <2> QED
    BY <2>2, <2>4 DEF Current
<1> QED
  BY <1>t, <1>q, <1>m, <1>s, <1>d, <1>c DEF IndInv

(* Or it is not, and it is nobody's then.                                  *)
LEMMA RefusedKeeps ==
  ASSUME IndInv, At("provision"), NotProvisioned(worker.new), Fault,
         worker' = [worker EXCEPT !.pc = "undo", !.new = 0], UNCHANGED upgrade,
         UNCHANGED <<slot, caller, retire, delivery, probe, sync, acked, exempt, lost, fallen>>
  PROVE IndInv'
<1>0. TypeOK /\ Tasked /\ Made /\ Saved /\ Durable /\ Current
  BY DEF IndInv
<1>g. /\ worker.pc = "provision" /\ worker.old \in Boxes /\ worker.new \in Boxes /\ 0 \notin Boxes
      /\ worker.new # worker.old /\ worker.new # 0 /\ worker.u \in Upgrades
      /\ box[worker.new].res = "none" /\ ~worker.paused
  BY <1>0, Held DEF At, Busy, Made, Creating, Private
<1>w. /\ worker'.pc = "undo" /\ worker'.u = worker.u /\ worker'.old = worker.old
      /\ worker'.new = 0 /\ worker'.backup = worker.backup /\ worker'.paused = worker.paused
      /\ UNCHANGED <<upgrade, slot, caller, retire, delivery, probe, sync, acked, exempt,
                     lost, fallen>>
  BY <1>0 DEF TypeOK, WorkerState
<1>b. /\ box' \in [Boxes -> BoxState] /\ box'[worker.new].row \in {"gone", "error"}
      /\ box'[worker.new].db = {} /\ \A d \in Boxes \ {worker.new} : box'[d] = box[d]
  BY <1>0, <1>g, RefusedMoves DEF Moved
<1>t. TypeOK'
  <2>1. worker' \in WorkerState
    <3>1. 0 \in 0 .. MaxBoxes /\ "undo" \in Phases \cup {"idle", "provision", "undo", "undo_old"}
      BY UpgradeConstants
    <3> QED
      BY <1>0, <3>1 DEF TypeOK, WorkerState
  <2>2. events' \in 0 .. MaxEvents
    BY <1>0, UpgradeConstants DEF TypeOK, Fault
  <2> QED
    BY <1>0, <1>g, <1>w, <1>b, <2>1, <2>2 DEF TypeOK
<1>q. Tasked'
  BY <1>0, <1>g, <1>w, TaskedFrame
<1>m. Made'
  <2>1. Creating'
    BY <1>0, <1>g, <1>w, <1>b DEF Made, Creating, Private, Restored, Copying
  <2>2. worker'.backup \subseteq 1 .. acked /\ \A b \in Boxes : box'[b].db \subseteq 1 .. acked
    BY <1>0, <1>g, <1>w, <1>b DEF Made
  <2>3. Lasting /\ Older /\ (sync # 0 => box'[sync].res = box[sync].res)
    BY <1>0, <1>g, <1>w, <1>b, Held DEF Lasting, Older, Made, Syncing, Private
  <2> QED
    BY <1>0, <1>g, <1>w, <2>1, <2>2, <2>3, MadeKept
<1>s. Saved'
  BY <1>0, <1>g, <1>w, <1>b DEF Saved, Copying, Restored
<1>d. Durable'
  <2>1. \A b \in Boxes : Firm(b) => Firm(b)' /\ box'[b].db = box[b].db
    BY <1>g, <1>w, <1>b DEF Firm, Condemned, Succeeded
  <2> QED
    BY <1>0, <1>w, <2>1, DurableFrame
<1>c. Current'
  <2> SUFFICES ASSUME ~fallen' PROVE Current'
    BY DEF Current
  <2>1. PICK cur \in Boxes : Leads(cur) /\ HandsOver
    BY <1>0, <1>w DEF Current
  <2>2. HandsOver'
    BY <1>g, <1>w, <1>b, <2>1 DEF HandsOver, Kept, Restored, Copying
  <2>3. cur = worker.old /\ cur \in Rows' /\ \A b \in Rows' : b <= cur
    BY <1>g, <1>w, <1>b, <2>1 DEF Leads, Rows, Busy
  <2>5. \A b \in 0 .. MaxBoxes : Reached(b, cur) => b <= cur \/ box'[b].row = "gone"
    <3> SUFFICES ASSUME NEW b \in 0 .. MaxBoxes, Reached(b, cur) PROVE b <= cur \/ box'[b].row = "gone"
      OBVIOUS
    <3>1. b = 0 \/ b \in Boxes
      BY UpgradeConstants DEF Boxes
    <3>2. 0 <= cur
      BY UpgradeConstants DEF Boxes
    <3>3. box[worker.new].row = "creating"
      BY <1>g, <2>1 DEF HandsOver
    <3> QED
      BY <1>g, <1>b, <3>1, <3>2, <3>3 DEF Reached
  <2>6. \A b \in 0 .. MaxBoxes : Reached(b, cur) => Reached(b, cur)'
    BY <2>5 DEF Reached
  <2>7. probe.b \in 0 .. MaxBoxes /\ \A d \in Deliveries : delivery[d].b \in 0 .. MaxBoxes
    BY <1>0 DEF TypeOK, DeliveryState
  <2>8. probe' # NoProbe => Reached(probe.b, cur)'
    BY <1>w, <2>1, <2>6, <2>7 DEF Leads
  <2>9. \A d \in Deliveries : delivery'[d].pc = "loaded" => Reached(delivery[d].b, cur)'
    BY <1>w, <2>1, <2>6, <2>7 DEF Leads
  <2>10. Leads(cur)'
    BY <1>g, <1>w, <1>b, <2>1, <2>3, <2>8, <2>9 DEF Leads, Busy, Succeeded, Kept
  <2> QED
    BY <2>2, <2>10 DEF Current
<1> QED
  BY <1>t, <1>q, <1>m, <1>s, <1>d, <1>c DEF IndInv

(* Provision is one of the two.                                            *)
LEMMA ProvisionKeeps == IndInv /\ Provision => IndInv'
BY ProvisionedKeeps, RefusedKeeps DEF Provision

(* A retirement is due only once its upgrade has succeeded.                *)
LEMMA ScheduleKeeps ==
  ASSUME IndInv, ScheduleRetirement PROVE IndInv'
<1>0. TypeOK /\ Tasked /\ Made /\ Saved /\ Durable /\ Current
  BY DEF IndInv
<1>g. worker.pc = "cleanup" /\ worker.old \in Boxes /\ 0 \notin Boxes /\ worker.u \in Upgrades
  BY <1>0, Held DEF At, Busy, ScheduleRetirement
<1>w. /\ worker'.pc = "finish" /\ worker'.u = worker.u /\ worker'.old = worker.old
      /\ worker'.new = worker.new /\ worker'.backup = worker.backup
      /\ worker'.paused = worker.paused /\ worker' \in WorkerState
      /\ UNCHANGED <<box, upgrade, slot, caller, delivery, probe, sync, acked, exempt, lost,
                     fallen>>
  BY <1>0 DEF ScheduleRetirement, Goto, TypeOK, WorkerState, Phases
<1>r. /\ retire' \in [due : SUBSET Upgrades, at : 0 .. MaxBoxes] /\ retire'.at = retire.at
      /\ retire'.due \subseteq retire.due \cup {worker.u} /\ events' \in 0 .. MaxEvents
  <2>1. retire.due \in SUBSET Upgrades /\ retire.at \in 0 .. MaxBoxes /\ events \in 0 .. MaxEvents
    BY <1>0 DEF TypeOK
  <2>2. CASE retire' = [retire EXCEPT !.due = @ \cup {worker.u}] /\ NoFault
    BY <1>0, <1>g, <2>1, <2>2 DEF TypeOK, NoFault
  <2>3. CASE UNCHANGED retire /\ Fault
    BY <1>0, <2>1, <2>3, UpgradeConstants DEF TypeOK, Fault
  <2> QED
    BY <2>2, <2>3 DEF ScheduleRetirement
<1>t. TypeOK'
  BY <1>0, <1>g, <1>w, <1>r DEF TypeOK
<1>q. Tasked'
  BY <1>0, <1>g, <1>w, TaskedFrame
<1>m. Made'
  <2>1. Creating' /\ Lasting /\ Older
    BY <1>0, <1>g, <1>w DEF Made, Creating, Restored, Copying, Lasting, Older
  <2>2. (\A b \in Boxes : box'[b].db \subseteq 1 .. acked') /\ worker'.backup \subseteq 1 .. acked'
    BY <1>0, <1>w DEF Made
  <2>3. \A u \in Upgrades : Replaces(u)'
    BY <1>0, <2>1, ReplacesFrame
  <2>4. Private'
    BY <1>0, <1>w, <1>r, <2>1, PrivateFrame
  <2> QED
    BY <1>0, <1>w, <1>r, <2>1, <2>2, <2>3, <2>4, MadeFrame
<1>s. Saved'
  BY <1>0, <1>g, <1>w DEF Saved, Copying, Restored
<1>d. Durable'
  <2>1. \A b \in Boxes : Condemned(b)' => Condemned(b)
    BY <1>g, <1>w, <1>r DEF Condemned, Succeeded
  <2> QED
    BY <1>0, <1>w, <2>1, DurableFrame DEF Firm
<1>c. Current'
  <2> SUFFICES ASSUME ~fallen' PROVE Current'
    BY DEF Current
  <2>1. PICK cur \in Boxes : Leads(cur) /\ HandsOver
    BY <1>0, <1>w DEF Current
  <2>2. HandsOver'
    BY <1>0, <1>g, <1>w, <2>1 DEF HandsOver, Leads, Kept, Restored, Copying, Busy, Rows
  <2>3. /\ cur \in Rows' /\ Kept' \subseteq box'[cur].db
        /\ \A b \in Boxes : /\ box[b].row = "gone" => box'[b].row = "gone"
                            /\ b \in Rows' => b \in Rows \/ b = worker.new \/ b <= cur
    BY <1>0, <1>g, <1>w, <2>1 DEF Leads, Rows, Busy, Kept
  <2>4. Leads(cur)'
    <3>1. Older
      BY <1>w DEF Older
    <3> QED
      BY <1>0, <1>g, <1>w, <1>r, <2>1, <2>3, <3>1, LeadsFrame
  <2> QED
    BY <2>2, <2>4 DEF Current
<1> QED
  BY <1>t, <1>q, <1>m, <1>s, <1>d, <1>c DEF IndInv

(* The old sandbox stays current when its upgrade is rolled back.          *)
LEMMA LeadsEnd ==
  ASSUME TypeOK, NEW cur \in Boxes, Leads(cur), Older, UNCHANGED <<retire, delivery, probe>>,
         cur \in Rows', Kept' \subseteq box'[cur].db,
         \A b \in Boxes : /\ box[b].row = "gone" => box'[b].row = "gone"
                          /\ b \in Rows' => b \in Rows \/ b <= cur,
         worker.new = 0 \/ box[worker.new].row = "gone", worker'.new = 0, worker'.pc = "idle"
  PROVE  Leads(cur)'
<1>1. 0 \notin Boxes /\ 0 <= cur /\ \A b \in 0 .. MaxBoxes : b = 0 \/ b \in Boxes
  BY UpgradeConstants DEF Boxes
<1>2. \A b \in Rows' : b \in Boxes /\ (b \in Rows => box[b].row # "gone")
  BY DEF Rows
<1>3. \A b \in Rows' : b <= cur
  BY <1>1, <1>2 DEF Leads
<1>5. \A b \in 0 .. MaxBoxes : Reached(b, cur) => b <= cur \/ box'[b].row = "gone"
  BY <1>1 DEF Reached
<1>6. \A b \in 0 .. MaxBoxes : Reached(b, cur) => Reached(b, cur)'
  BY <1>5 DEF Reached
<1>7. probe.b \in 0 .. MaxBoxes /\ \A d \in Deliveries : delivery[d].b \in 0 .. MaxBoxes
  BY DEF TypeOK, DeliveryState
<1>8. probe' # NoProbe => Reached(probe.b, cur)'
  BY <1>6, <1>7 DEF Leads
<1>9. \A d \in Deliveries : delivery'[d].pc = "loaded" => Reached(delivery[d].b, cur)'
  BY <1>6, <1>7 DEF Leads
<1>10. \A u \in Upgrades : upgrade'[u].st = "succeeded" => upgrade'[u].old # cur
  BY DEF Older, Leads, Succeeded
<1> QED
  BY <1>3, <1>8, <1>9, <1>10 DEF Leads, Busy, Succeeded

(* The new sandbox becomes the current one, and has every message kept.    *)
LEMMA MarkSucceededKeeps ==
  ASSUME IndInv, MarkSucceeded PROVE IndInv'
<1>0. TypeOK /\ Tasked /\ Made /\ Saved /\ Durable /\ Current
  BY DEF IndInv
<1>g. /\ worker.pc = "finish" /\ worker.pc # "idle" /\ worker.u \in Upgrades
      /\ worker.old \in Boxes
      /\ 0 \notin Boxes /\ upgrade[worker.u].old = worker.old /\ upgrade[worker.u].st # "none"
      /\ worker.new # 0 => worker.new \in Boxes /\ worker.new # worker.old
      /\ retire.due \subseteq Upgrades
  BY <1>0, Held DEF MarkSucceeded, At, Busy, Tasked, Made, Private, TypeOK, Phases
<1>w. /\ upgrade' \in [Upgrades -> UpgradeState] /\ upgrade'[worker.u].st = "succeeded"
      /\ upgrade'[worker.u].old = upgrade[worker.u].old
      /\ \A v \in Upgrades \ {worker.u} : upgrade'[v] = upgrade[v]
      /\ slot' \in SlotState /\ slot'.st = "free"
      /\ worker' \in WorkerState /\ worker'.pc = "idle" /\ worker'.u = 0 /\ worker'.old = 0
      /\ worker'.new = 0 /\ worker'.backup = {} /\ ~worker'.paused
      /\ UNCHANGED <<box, caller, retire, delivery, probe, sync, acked, exempt, lost, fallen,
                     events>>
  <2>1. Ends("succeeded", "free")
    BY DEF MarkSucceeded, At
  <2> QED
    BY <1>0, <1>g, <2>1, EndsBy DEF MarkSucceeded, At, NoFault
<1>n. /\ worker.new # 0 /\ worker.new \in Boxes /\ worker.old # worker.new
      /\ retire.at # worker.new
      /\ box[worker.old].res # "none" /\ box[worker.old].row # "none"
      /\ \A u \in Upgrades : upgrade'[u].st = "succeeded" => upgrade'[u].old # worker.new
  BY <1>0, <1>g, <1>w, Held DEF Made, Creating, Private, Succeeded, Restored, Busy
<1>t. TypeOK'
  BY <1>0, <1>g, <1>w DEF TypeOK
<1>q. Tasked'
  BY <1>0, <1>g, <1>w, EndTasked
<1>m. Made'
  <2>1. Creating' /\ Private'
    BY <1>w DEF Creating, Private, Restored, Copying
  <2>2. (\A b \in Boxes : box'[b].db \subseteq 1 .. acked') /\ worker'.backup \subseteq 1 .. acked' /\ Lasting
    BY <1>0, <1>w DEF Made, Lasting
  <2>3. \A u \in Upgrades : Replaces(u)'
    <3> SUFFICES ASSUME NEW u \in Upgrades PROVE Replaces(u)'
      OBVIOUS
    <3>1. CASE u = worker.u
      BY <1>g, <1>w, <1>n, <3>1 DEF Replaces, Succeeded
    <3>2. CASE u # worker.u
      BY <1>0, <1>w, <3>2 DEF Made, Replaces, Succeeded
    <3> QED
      BY <3>1, <3>2
  <2> QED
    BY <1>0, <1>w, <2>1, <2>2, <2>3, MadeFrame
<1>s. Saved'
  BY <1>w DEF Saved, Copying, Restored
<1>d. Durable'
  <2>1. box[worker.old].db \ exempt \subseteq box'[worker.new].db /\ Lasting
    BY <1>0, <1>g, <1>w DEF Saved, Restored, Lasting
  <2>2. \A u \in Upgrades : /\ upgrade'[u].old = upgrade[u].old
                            /\ u # worker.u => upgrade'[u].st = upgrade[u].st
    BY <1>w
  <2>3. \A b \in Boxes : box'[b].db = box[b].db /\ box'[b].row = box[b].row
    BY <1>w
  <2>4. /\ worker.pc # "idle" /\ worker'.u = 0 /\ worker'.new = 0 /\ ~worker'.paused
        /\ UNCHANGED <<retire, sync, acked, exempt>> /\ worker.new # 0
    BY <1>g, <1>w, <1>n
  <2> QED
    BY <1>0, <2>1, <2>2, <2>3, <2>4, EndDurable
<1>c. Current'
  <2> SUFFICES ASSUME ~fallen' PROVE Current'
    BY DEF Current
  <2>1. PICK cur \in Boxes : Leads(cur) /\ HandsOver
    BY <1>0, <1>w DEF Current
  <2>2. HandsOver'
    BY <1>w, <2>1 DEF HandsOver, Restored, Copying
  <2>3. PICK n \in Boxes : n = worker.new
    BY <1>n
  <2>4. /\ cur < n /\ n \in Rows /\ Kept \subseteq box[n].db /\ \A b \in Rows : b <= n
    BY <1>g, <1>n, <2>1, <2>3, UpgradeConstants DEF HandsOver, Leads, Restored, Rows, Boxes
  <2>6. \A b \in 0 .. MaxBoxes : Reached(b, cur) => Reached(b, n)'
    BY <1>w, <2>3, <2>4, UpgradeConstants DEF Reached, Boxes
  <2>7. probe.b \in 0 .. MaxBoxes /\ \A d \in Deliveries : delivery[d].b \in 0 .. MaxBoxes
    BY <1>0 DEF TypeOK, DeliveryState
  <2>8. probe' # NoProbe => Reached(probe.b, n)'
    BY <1>w, <2>1, <2>6, <2>7 DEF Leads
  <2>9. \A d \in Deliveries : delivery'[d].pc = "loaded" => Reached(delivery[d].b, n)'
    BY <1>w, <2>1, <2>6, <2>7 DEF Leads
  <2>10. n \in Rows' /\ Kept' \subseteq box'[n].db /\ \A b \in Rows' : b <= n
    BY <1>w, <2>4 DEF Rows, Kept
  <2>11. Leads(n)'
    BY <1>w, <1>n, <2>3, <2>8, <2>9, <2>10 DEF Leads, Busy, Succeeded
  <2> QED
    BY <2>2, <2>11 DEF Current
<1> QED
  BY <1>t, <1>q, <1>m, <1>s, <1>d, <1>c DEF IndInv

(* The rollback deletes the new sandbox, which is not firm.                *)
LEMMA UndoNewKeeps ==
  ASSUME IndInv, UndoNew PROVE IndInv'
<1>0. TypeOK /\ Tasked /\ Made /\ Saved /\ Durable /\ Current
  BY DEF IndInv
<1>g. /\ worker.pc = "undo" /\ worker.old \in Boxes /\ worker.u \in Upgrades /\ 0 \notin Boxes
      /\ worker.new # 0 => worker.new \in Boxes /\ worker.new # worker.old /\ worker.new # sync
  BY <1>0, Held DEF UndoNew, At, Busy, Made, Private
<1>w. /\ worker'.pc = "undo_old" /\ worker'.u = worker.u /\ worker'.old = worker.old
      /\ worker'.new = worker.new /\ worker'.backup = worker.backup
      /\ worker'.paused = worker.paused /\ worker' \in WorkerState
      /\ UNCHANGED <<upgrade, slot, caller, retire, delivery, probe, sync, acked, exempt,
                     lost, fallen>>
  BY <1>0 DEF UndoNew, Goto, TypeOK, WorkerState
<1>b. /\ box' \in [Boxes -> BoxState] /\ events' \in 0 .. MaxEvents
      /\ \A d \in Boxes : d # worker.new => box'[d] = box[d]
      /\ worker.new # 0 => /\ box'[worker.new].row = "gone"
                           /\ box[worker.new].res # "none" => box'[worker.new].res # "none"
                           /\ box'[worker.new].db \subseteq box[worker.new].db
  <2>1. CASE worker.new = 0
    BY <1>0, <1>g, <2>1 DEF UndoNew, TypeOK
  <2>2. CASE worker.new # 0
    <3>1. Deleted(worker.new)
      BY <2>2 DEF UndoNew
    <3>2. events' \in 0 .. MaxEvents
      BY <1>0, <1>g, <2>2, <3>1, DeleteMoves
    <3>3. PICK res \in {"gone", box[worker.new].res}, db \in {{}, box[worker.new].db} :
            Moved(worker.new, "gone", res, db)
      BY <1>0, <1>g, <2>2, <3>1, DeleteMoves
    <3> QED
      BY <1>g, <2>2, <3>2, <3>3 DEF Moved
  <2> QED
    BY <2>1, <2>2
<1>t. TypeOK'
  BY <1>0, <1>g, <1>w, <1>b DEF TypeOK
<1>q. Tasked'
  BY <1>0, <1>g, <1>w, TaskedFrame
<1>m. Made'
  <2>1. Creating'
    BY <1>0, <1>g, <1>w, <1>b DEF Made, Creating, Restored, Copying
  <2>2. worker'.backup \subseteq 1 .. acked /\ \A b \in Boxes : box'[b].db \subseteq 1 .. acked
    BY <1>0, <1>g, <1>w, <1>b DEF Made
  <2>3. Lasting /\ Older /\ (sync # 0 => box'[sync].res = box[sync].res)
    BY <1>0, <1>g, <1>w, <1>b, Held DEF Lasting, Older, Made, Private
  <2> QED
    BY <1>0, <1>g, <1>w, <2>1, <2>2, <2>3, MadeKept
<1>s. Saved'
  BY <1>w DEF Saved, Copying, Restored
<1>d. Durable'
  <2>1. \A b \in Boxes : Firm(b) => Firm(b)' /\ box'[b].db = box[b].db
    BY <1>g, <1>w, <1>b DEF Firm, Condemned, Succeeded
  <2> QED
    BY <1>0, <1>w, <2>1, DurableFrame
<1>c. Current'
  <2> SUFFICES ASSUME ~fallen' PROVE Current'
    BY DEF Current
  <2>1. PICK cur \in Boxes : Leads(cur) /\ HandsOver
    BY <1>0, <1>w DEF Current
  <2>2. HandsOver'
    BY <1>g, <1>w, <1>b, <2>1 DEF HandsOver, Restored, Copying
  <2>3. /\ cur \in Rows' /\ Kept' \subseteq box'[cur].db
        /\ \A b \in Boxes : /\ box[b].row = "gone" => box'[b].row = "gone"
                            /\ b \in Rows' => b \in Rows \/ b = worker.new \/ b <= cur
    BY <1>0, <1>g, <1>w, <1>b, <2>1 DEF Leads, Rows, Busy, Kept
  <2>4. Leads(cur)'
    BY <1>0, <1>g, <1>w, <2>1, <2>3, LeadsKept
  <2> QED
    BY <2>2, <2>4 DEF Current
<1> QED
  BY <1>t, <1>q, <1>m, <1>s, <1>d, <1>c DEF IndInv

(* The paused old sandbox is started,                                      *)
LEMMA RestartedKeeps ==
  ASSUME IndInv, At("undo_old"), worker.paused, CanStop(worker.old),
         Started(worker.old), NoFault, UNCHANGED exempt, Ends("failed", "archived"),
         UNCHANGED <<caller, retire, delivery, probe, sync, acked, lost, fallen>>
  PROVE IndInv'
<1>0. TypeOK /\ Tasked /\ Made /\ Saved /\ Durable /\ Current
  BY DEF IndInv
<1>g. /\ worker.pc = "undo_old" /\ worker.pc # "idle" /\ worker.u \in Upgrades
      /\ worker.old \in Boxes
      /\ 0 \notin Boxes /\ upgrade[worker.u].old = worker.old /\ upgrade[worker.u].st # "none"
      /\ worker.new # 0 => worker.new \in Boxes /\ worker.new # worker.old
      /\ retire.due \subseteq Upgrades
  BY <1>0, Held DEF At, Busy, Tasked, Made, Private, TypeOK, Phases
<1>w. /\ upgrade' \in [Upgrades -> UpgradeState] /\ upgrade'[worker.u].st = "failed"
      /\ upgrade'[worker.u].old = upgrade[worker.u].old
      /\ \A v \in Upgrades \ {worker.u} : upgrade'[v] = upgrade[v]
      /\ slot' \in SlotState /\ slot'.st = "archived"
      /\ worker' \in WorkerState /\ worker'.pc = "idle" /\ worker'.u = 0 /\ worker'.old = 0
      /\ worker'.new = 0 /\ worker'.backup = {} /\ ~worker'.paused
      /\ UNCHANGED <<caller, retire, delivery, probe, sync, acked, lost, fallen>>
  <2>1. Ends("failed", "archived")
    BY DEF At
  <2> QED
    BY <1>0, <1>g, <2>1, EndsBy DEF At, NoFault
<1>o. Older
  BY <1>g, <1>w DEF Older
<1>b. /\ box' \in [Boxes -> BoxState] /\ events' \in 0 .. MaxEvents /\ exempt' = exempt
      /\ box'[worker.old].row = (IF box[worker.old].row = "gone" THEN "gone" ELSE "running")
      /\ \A b \in Boxes : /\ box'[b].db = box[b].db /\ (box'[b].row = "none" <=> box[b].row = "none")
                          /\ box[b].res # "none" => box'[b].res # "none"
                          /\ b = sync => box'[b].res = box[b].res
                          /\ box[b].row = "gone" => box'[b].row = "gone"
                          /\ b # worker.old => box'[b] = box[b]
  <2>1. box' \in [Boxes -> BoxState] /\ \A d \in Boxes \ {worker.old} : box'[d] = box[d]
    BY <1>0, <1>g, StartMoves DEF Moved
  <2>2. /\ box'[worker.old].row = (IF box[worker.old].row = "gone" THEN "gone" ELSE "running")
        /\ box'[worker.old].res = "up" /\ box'[worker.old].db = box[worker.old].db
    BY <1>0, <1>g, StartMoves DEF Moved
  <2>3. box[worker.old].row # "none" /\ worker.old # sync
    BY <1>0, <1>g, Held DEF Busy, CanStop, Made, Syncing
  <2>4. events' \in 0 .. MaxEvents
    BY <1>0 DEF NoFault, TypeOK
  <2> QED
    BY <2>1, <2>2, <2>3, <2>4
<1>t. TypeOK'
  BY <1>0, <1>g, <1>w, <1>b DEF TypeOK
<1>q. Tasked'
  BY <1>0, <1>g, <1>w, EndTasked
<1>m. Made'
  <2>1. Creating'
    BY <1>w DEF Creating, Restored, Copying
  <2>2. worker'.backup \subseteq 1 .. acked /\ \A b \in Boxes : box'[b].db \subseteq 1 .. acked
    BY <1>0, <1>w, <1>b DEF Made
  <2>3. Lasting /\ (sync # 0 => box'[sync].res = box[sync].res)
    BY <1>0, <1>g, <1>w, <1>b, Held DEF Lasting, Made
  <2> QED
    BY <1>0, <1>w, <1>o, <2>1, <2>2, <2>3, MadeKept
<1>s. Saved'
  BY <1>w DEF Saved, Copying, Restored
<1>d. Durable'
  <2>2. \A u \in Upgrades : /\ upgrade'[u].old = upgrade[u].old
                            /\ u # worker.u => upgrade'[u].st = upgrade[u].st
    BY <1>w
  <2>1. Lasting
    BY <1>b DEF Lasting
  <2>3. \A b \in Boxes : b = worker.old /\ Firm(b) => ~Condemned(b)' \/ box[b].db \subseteq exempt'
    BY <1>g, <1>w, <1>b DEF Firm, Condemned
  <2>4. \A b \in Boxes : /\ box'[b].db = box[b].db
                         /\ box'[b].row = "stopped" => b = worker.old \/ box[b].row = "stopped"
    BY <1>b
  <2>5. /\ worker.pc # "idle" /\ worker'.u = 0 /\ worker'.new = 0 /\ ~worker'.paused
        /\ UNCHANGED <<retire, sync, acked>> /\ upgrade'[worker.u].st # "succeeded"
    BY <1>g, <1>w
  <2> QED
    BY <1>0, <1>b, <2>1, <2>2, <2>3, <2>4, <2>5, EndDurable
<1>c. Current'
  <2> SUFFICES ASSUME ~fallen' PROVE Current'
    BY DEF Current
  <2>1. PICK cur \in Boxes : Leads(cur) /\ HandsOver
    BY <1>0, <1>w DEF Current
  <2>2. HandsOver'
    BY <1>w, <2>1 DEF HandsOver, Restored, Copying
  <2>3. /\ cur \in Rows' /\ Kept' \subseteq box'[cur].db
        /\ \A b \in Boxes : /\ box[b].row = "gone" => box'[b].row = "gone"
                            /\ b \in Rows' => b \in Rows \/ b = worker.new \/ b <= cur
    BY <1>0, <1>g, <1>w, <1>b, <2>1 DEF Leads, Rows, Busy, Kept
  <2>4. Leads(cur)'
    <3>1. \A b \in Boxes : b \in Rows' => b \in Rows \/ b <= cur
      BY <1>g, <1>b, <2>1 DEF Rows, Leads, Busy
    <3>2. worker.new = 0 \/ box[worker.new].row = "gone"
      BY <1>g, <2>1 DEF HandsOver
    <3> QED
      BY <1>0, <1>w, <1>o, <2>1, <2>3, <3>1, <3>2, LeadsEnd
  <2> QED
    BY <2>2, <2>4 DEF Current
<1> QED
  BY <1>t, <1>q, <1>m, <1>s, <1>d, <1>c DEF IndInv

(* the unpaused one is marked running,                                     *)
LEMMA RemarkedKeeps ==
  ASSUME IndInv, At("undo_old"), ~worker.paused,
         box' = [box EXCEPT ![worker.old] = SetRow(worker.old, "running")], NoFault, UNCHANGED exempt, Ends("failed", "archived"),
         UNCHANGED <<caller, retire, delivery, probe, sync, acked, lost, fallen>>
  PROVE IndInv'
<1>0. TypeOK /\ Tasked /\ Made /\ Saved /\ Durable /\ Current
  BY DEF IndInv
<1>g. /\ worker.pc = "undo_old" /\ worker.pc # "idle" /\ worker.u \in Upgrades
      /\ worker.old \in Boxes
      /\ 0 \notin Boxes /\ upgrade[worker.u].old = worker.old /\ upgrade[worker.u].st # "none"
      /\ worker.new # 0 => worker.new \in Boxes /\ worker.new # worker.old
      /\ retire.due \subseteq Upgrades
  BY <1>0, Held DEF At, Busy, Tasked, Made, Private, TypeOK, Phases
<1>w. /\ upgrade' \in [Upgrades -> UpgradeState] /\ upgrade'[worker.u].st = "failed"
      /\ upgrade'[worker.u].old = upgrade[worker.u].old
      /\ \A v \in Upgrades \ {worker.u} : upgrade'[v] = upgrade[v]
      /\ slot' \in SlotState /\ slot'.st = "archived"
      /\ worker' \in WorkerState /\ worker'.pc = "idle" /\ worker'.u = 0 /\ worker'.old = 0
      /\ worker'.new = 0 /\ worker'.backup = {} /\ ~worker'.paused
      /\ UNCHANGED <<caller, retire, delivery, probe, sync, acked, lost, fallen>>
  <2>1. Ends("failed", "archived")
    BY DEF At
  <2> QED
    BY <1>0, <1>g, <2>1, EndsBy DEF At, NoFault
<1>o. Older
  BY <1>g, <1>w DEF Older
<1>b. /\ box' \in [Boxes -> BoxState] /\ events' \in 0 .. MaxEvents /\ exempt' = exempt
      /\ box'[worker.old].row = (IF box[worker.old].row = "gone" THEN "gone" ELSE "running")
      /\ \A b \in Boxes : /\ box'[b].db = box[b].db /\ (box'[b].row = "none" <=> box[b].row = "none")
                          /\ box[b].res # "none" => box'[b].res # "none"
                          /\ b = sync => box'[b].res = box[b].res
                          /\ box[b].row = "gone" => box'[b].row = "gone"
                          /\ b # worker.old => box'[b] = box[b]
  <2>0. Moved(worker.old, IF box[worker.old].row = "gone" THEN "gone" ELSE "running",
              box[worker.old].res, box[worker.old].db)
    <3>1. "running" \in Statuses
      BY DEF Statuses
    <3> QED
      BY <1>0, <1>g, <3>1, RowMoves
  <2>1. box' \in [Boxes -> BoxState] /\ \A d \in Boxes \ {worker.old} : box'[d] = box[d]
    BY <2>0 DEF Moved
  <2>2. /\ box'[worker.old].row = (IF box[worker.old].row = "gone" THEN "gone" ELSE "running")
        /\ box'[worker.old].res = box[worker.old].res /\ box'[worker.old].db = box[worker.old].db
    BY <2>0 DEF Moved
  <2>3. box[worker.old].row # "none"
    BY <1>0, <1>g, Held DEF Busy
  <2>4. events' \in 0 .. MaxEvents
    BY <1>0 DEF NoFault, TypeOK
  <2> QED
    BY <2>1, <2>2, <2>3, <2>4
<1>t. TypeOK'
  BY <1>0, <1>g, <1>w, <1>b DEF TypeOK
<1>q. Tasked'
  BY <1>0, <1>g, <1>w, EndTasked
<1>m. Made'
  <2>1. Creating'
    BY <1>w DEF Creating, Restored, Copying
  <2>2. worker'.backup \subseteq 1 .. acked /\ \A b \in Boxes : box'[b].db \subseteq 1 .. acked
    BY <1>0, <1>w, <1>b DEF Made
  <2>3. Lasting /\ (sync # 0 => box'[sync].res = box[sync].res)
    BY <1>0, <1>g, <1>w, <1>b, Held DEF Lasting, Made
  <2> QED
    BY <1>0, <1>w, <1>o, <2>1, <2>2, <2>3, MadeKept
<1>s. Saved'
  BY <1>w DEF Saved, Copying, Restored
<1>d. Durable'
  <2>2. \A u \in Upgrades : /\ upgrade'[u].old = upgrade[u].old
                            /\ u # worker.u => upgrade'[u].st = upgrade[u].st
    BY <1>w
  <2>1. Lasting
    BY <1>b DEF Lasting
  <2>3. \A b \in Boxes : b = worker.old /\ Firm(b) => ~Condemned(b)' \/ box[b].db \subseteq exempt'
    BY <1>g, <1>w, <1>b DEF Firm, Condemned
  <2>4. \A b \in Boxes : /\ box'[b].db = box[b].db
                         /\ box'[b].row = "stopped" => b = worker.old \/ box[b].row = "stopped"
    BY <1>b
  <2>5. /\ worker.pc # "idle" /\ worker'.u = 0 /\ worker'.new = 0 /\ ~worker'.paused
        /\ UNCHANGED <<retire, sync, acked>> /\ upgrade'[worker.u].st # "succeeded"
    BY <1>g, <1>w
  <2> QED
    BY <1>0, <1>b, <2>1, <2>2, <2>3, <2>4, <2>5, EndDurable
<1>c. Current'
  <2> SUFFICES ASSUME ~fallen' PROVE Current'
    BY DEF Current
  <2>1. PICK cur \in Boxes : Leads(cur) /\ HandsOver
    BY <1>0, <1>w DEF Current
  <2>2. HandsOver'
    BY <1>w, <2>1 DEF HandsOver, Restored, Copying
  <2>3. /\ cur \in Rows' /\ Kept' \subseteq box'[cur].db
        /\ \A b \in Boxes : /\ box[b].row = "gone" => box'[b].row = "gone"
                            /\ b \in Rows' => b \in Rows \/ b = worker.new \/ b <= cur
    BY <1>0, <1>g, <1>w, <1>b, <2>1 DEF Leads, Rows, Busy, Kept
  <2>4. Leads(cur)'
    <3>1. \A b \in Boxes : b \in Rows' => b \in Rows \/ b <= cur
      BY <1>g, <1>b, <2>1 DEF Rows, Leads, Busy
    <3>2. worker.new = 0 \/ box[worker.new].row = "gone"
      BY <1>g, <2>1 DEF HandsOver
    <3> QED
      BY <1>0, <1>w, <1>o, <2>1, <2>3, <3>1, <3>2, LeadsEnd
  <2> QED
    BY <2>2, <2>4 DEF Current
<1> QED
  BY <1>t, <1>q, <1>m, <1>s, <1>d, <1>c DEF IndInv

(* or it is left stopped, and to the retirement that may be due.           *)
LEMMA LeftStoppedKeeps ==
  ASSUME IndInv, At("undo_old"), worker.paused, UNCHANGED box,
         IF CanStop(worker.old) THEN Fault ELSE NoFault, LeftToRetire(worker.old), Ends("failed", "archived"),
         UNCHANGED <<caller, retire, delivery, probe, sync, acked, lost, fallen>>
  PROVE IndInv'
<1>0. TypeOK /\ Tasked /\ Made /\ Saved /\ Durable /\ Current
  BY DEF IndInv
<1>g. /\ worker.pc = "undo_old" /\ worker.pc # "idle" /\ worker.u \in Upgrades
      /\ worker.old \in Boxes
      /\ 0 \notin Boxes /\ upgrade[worker.u].old = worker.old /\ upgrade[worker.u].st # "none"
      /\ worker.new # 0 => worker.new \in Boxes /\ worker.new # worker.old
      /\ retire.due \subseteq Upgrades
  BY <1>0, Held DEF At, Busy, Tasked, Made, Private, TypeOK, Phases
<1>w. /\ upgrade' \in [Upgrades -> UpgradeState] /\ upgrade'[worker.u].st = "failed"
      /\ upgrade'[worker.u].old = upgrade[worker.u].old
      /\ \A v \in Upgrades \ {worker.u} : upgrade'[v] = upgrade[v]
      /\ slot' \in SlotState /\ slot'.st = "archived"
      /\ worker' \in WorkerState /\ worker'.pc = "idle" /\ worker'.u = 0 /\ worker'.old = 0
      /\ worker'.new = 0 /\ worker'.backup = {} /\ ~worker'.paused
      /\ UNCHANGED <<caller, retire, delivery, probe, sync, acked, lost, fallen>>
  <2>1. Ends("failed", "archived")
    BY DEF At
  <2> QED
    BY <1>0, <1>g, <2>1, EndsBy DEF At, NoFault
<1>o. Older
  BY <1>g, <1>w DEF Older
<1>b. /\ box' \in [Boxes -> BoxState] /\ events' \in 0 .. MaxEvents /\ exempt \subseteq exempt'
      /\ exempt' \subseteq 1 .. acked /\ UNCHANGED box
      /\ RetirementDue(worker.old) => box[worker.old].db \subseteq exempt'
  <2>1. events' \in 0 .. MaxEvents
    BY <1>0, UpgradeConstants DEF Fault, NoFault, TypeOK
  <2> QED
    BY <1>0, <1>g, <2>1 DEF LeftToRetire, TypeOK, Made
<1>t. TypeOK'
  BY <1>0, <1>g, <1>w, <1>b DEF TypeOK
<1>q. Tasked'
  BY <1>0, <1>g, <1>w, EndTasked
<1>m. Made'
  <2>1. Creating'
    BY <1>w DEF Creating, Restored, Copying
  <2>2. worker'.backup \subseteq 1 .. acked /\ \A b \in Boxes : box'[b].db \subseteq 1 .. acked
    BY <1>0, <1>w, <1>b DEF Made
  <2>3. Lasting /\ (sync # 0 => box'[sync].res = box[sync].res)
    BY <1>0, <1>g, <1>w, <1>b, Held DEF Lasting, Made
  <2> QED
    BY <1>0, <1>w, <1>o, <2>1, <2>2, <2>3, MadeKept
<1>s. Saved'
  BY <1>w DEF Saved, Copying, Restored
<1>d. Durable'
  <2>2. \A u \in Upgrades : /\ upgrade'[u].old = upgrade[u].old
                            /\ u # worker.u => upgrade'[u].st = upgrade[u].st
    BY <1>w
  <2>1. Lasting
    BY <1>b DEF Lasting
  <2>3. \A b \in Boxes : b = worker.old /\ Firm(b) => ~Condemned(b)' \/ box[b].db \subseteq exempt'
    BY <1>g, <1>w, <1>b DEF Firm, Condemned, Succeeded, RetirementDue
  <2>4. \A b \in Boxes : /\ box'[b].db = box[b].db
                         /\ box'[b].row = "stopped" => b = worker.old \/ box[b].row = "stopped"
    BY <1>b
  <2>5. /\ worker.pc # "idle" /\ worker'.u = 0 /\ worker'.new = 0 /\ ~worker'.paused
        /\ UNCHANGED <<retire, sync, acked>> /\ upgrade'[worker.u].st # "succeeded"
    BY <1>g, <1>w
  <2> QED
    BY <1>0, <1>b, <2>1, <2>2, <2>3, <2>4, <2>5, EndDurable
<1>c. Current'
  <2> SUFFICES ASSUME ~fallen' PROVE Current'
    BY DEF Current
  <2>1. PICK cur \in Boxes : Leads(cur) /\ HandsOver
    BY <1>0, <1>w DEF Current
  <2>2. HandsOver'
    BY <1>w, <2>1 DEF HandsOver, Restored, Copying
  <2>3. /\ cur \in Rows' /\ Kept' \subseteq box'[cur].db
        /\ \A b \in Boxes : /\ box[b].row = "gone" => box'[b].row = "gone"
                            /\ b \in Rows' => b \in Rows \/ b = worker.new \/ b <= cur
    BY <1>0, <1>g, <1>w, <1>b, <2>1 DEF Leads, Rows, Busy, Kept
  <2>4. Leads(cur)'
    <3>1. \A b \in Boxes : b \in Rows' => b \in Rows \/ b <= cur
      BY <1>g, <1>b, <2>1 DEF Rows, Leads, Busy
    <3>2. worker.new = 0 \/ box[worker.new].row = "gone"
      BY <1>g, <2>1 DEF HandsOver
    <3> QED
      BY <1>0, <1>w, <1>o, <2>1, <2>3, <3>1, <3>2, LeadsEnd
  <2> QED
    BY <2>2, <2>4 DEF Current
<1> QED
  BY <1>t, <1>q, <1>m, <1>s, <1>d, <1>c DEF IndInv

(* UndoOld is one of the three.                                            *)
LEMMA UndoOldKeeps == IndInv /\ UndoOld => IndInv'
BY RestartedKeeps, RemarkedKeeps, LeftStoppedKeeps DEF UndoOld

(* A crash leaves the old sandbox, the new one, or both.                   *)
LEMMA CrashKeeps ==
  ASSUME IndInv, WorkerCrashes PROVE IndInv'
<1>0. TypeOK /\ Tasked /\ Made /\ Saved /\ Durable /\ Current
  BY DEF IndInv
<1>g. /\ worker.pc # "idle" /\ worker.pc # "idle" /\ worker.u \in Upgrades /\ worker.old \in Boxes
      /\ 0 \notin Boxes /\ upgrade[worker.u].old = worker.old /\ upgrade[worker.u].st # "none"
      /\ worker.new # 0 => worker.new \in Boxes /\ worker.new # worker.old
      /\ retire.due \subseteq Upgrades
  BY <1>0, Held DEF WorkerCrashes, Busy, Tasked, Made, Private, TypeOK, Phases
<1>w. /\ upgrade' \in [Upgrades -> UpgradeState] /\ upgrade'[worker.u].st = "running"
      /\ upgrade'[worker.u].old = upgrade[worker.u].old
      /\ \A v \in Upgrades \ {worker.u} : upgrade'[v] = upgrade[v]
      /\ slot' \in SlotState /\ slot'.st = "archived"
      /\ worker' \in WorkerState /\ worker'.pc = "idle" /\ worker'.u = 0 /\ worker'.old = 0
      /\ worker'.new = 0 /\ worker'.backup = {} /\ ~worker'.paused
      /\ UNCHANGED <<box, caller, retire, delivery, probe, sync, acked>>
  <2>1. Ends("running", "archived")
    BY DEF WorkerCrashes
  <2> QED
    BY <1>0, <1>g, <2>1, EndsBy DEF WorkerCrashes, NoFault
<1>o. Older
  BY <1>g, <1>w DEF Older
<1>b. /\ lost' = lost \cup {worker.u} /\ fallen' = TRUE /\ events' \in 0 .. MaxEvents
      /\ exempt \subseteq exempt' /\ exempt' \subseteq 1 .. acked
      /\ worker.pc = "undo_old" /\ worker.paused /\ RetirementDue(worker.old) => box[worker.old].db \subseteq exempt'
  <2>1. lost' = lost \cup {worker.u} /\ fallen' = TRUE /\ events' \in 0 .. MaxEvents
    BY <1>0, UpgradeConstants DEF WorkerCrashes, Fault, TypeOK
  <2>2. IF worker.pc = "undo_old" /\ worker.paused THEN LeftToRetire(worker.old) ELSE UNCHANGED exempt
    BY DEF WorkerCrashes, At
  <2>3. box[worker.old].db \subseteq 1 .. acked /\ exempt \subseteq 1 .. acked
    BY <1>0, <1>g DEF Made, TypeOK
  <2> QED
    BY <2>1, <2>2, <2>3 DEF LeftToRetire
<1>t. TypeOK'
  BY <1>0, <1>g, <1>w, <1>b DEF TypeOK
<1>q. Tasked'
  BY <1>0, <1>g, <1>w, <1>b, EndTasked
<1>m. Made'
  <2>1. Creating'
    BY <1>w DEF Creating, Restored, Copying
  <2>2. worker'.backup \subseteq 1 .. acked /\ \A b \in Boxes : box'[b].db \subseteq 1 .. acked
    BY <1>0, <1>w, <1>b DEF Made
  <2>3. Lasting /\ (sync # 0 => box'[sync].res = box[sync].res)
    BY <1>0, <1>g, <1>w, <1>b, Held DEF Lasting, Made
  <2> QED
    BY <1>0, <1>w, <1>o, <2>1, <2>2, <2>3, MadeKept
<1>s. Saved'
  BY <1>w DEF Saved, Copying, Restored
<1>d. Durable'
  <2>2. \A u \in Upgrades : /\ upgrade'[u].old = upgrade[u].old
                            /\ u # worker.u => upgrade'[u].st = upgrade[u].st
    BY <1>w
  <2>1. Lasting
    BY <1>w DEF Lasting
  <2>3. worker.paused => worker.pc \in {"cleanup", "finish", "undo", "undo_old"} /\ worker.new # 0
    BY <1>0 DEF Made, Creating
  <2>4. \A b \in Boxes : /\ box'[b].db = box[b].db
                         /\ box'[b].row = "stopped" => b = worker.old \/ box[b].row = "stopped"
    BY <1>w
  <2>5. /\ worker.pc # "idle" /\ worker'.u = 0 /\ worker'.new = 0 /\ ~worker'.paused
        /\ UNCHANGED <<retire, sync, acked>> /\ upgrade'[worker.u].st # "succeeded"
    BY <1>g, <1>w
  <2>6. CASE worker.paused /\ worker.pc # "undo_old"
    <3>1. box[worker.old].db \ exempt \subseteq box'[worker.new].db
      BY <1>0, <1>w, <2>3, <2>6 DEF Saved, Restored
    <3> QED
      BY <1>0, <1>b, <2>1, <2>2, <2>3, <2>4, <2>5, <2>6, <3>1, EndDurable
  <2>7. CASE ~worker.paused \/ worker.pc = "undo_old"
    <3>1. \A b \in Boxes : b = worker.old /\ Firm(b) => ~Condemned(b)' \/ box[b].db \subseteq exempt'
      BY <1>g, <1>w, <1>b, <2>7 DEF Firm, Condemned, Succeeded, RetirementDue
    <3> QED
      BY <1>0, <1>b, <2>1, <2>2, <2>4, <2>5, <3>1, EndDurable
  <2> QED
    BY <2>6, <2>7
<1>c. Current'
  <2>1. fallen'
    BY DEF WorkerCrashes
  <2> QED
    BY <2>1 DEF Current
<1> QED
  BY <1>t, <1>q, <1>m, <1>s, <1>d, <1>c DEF IndInv

(* So does a timeout, which only drops the new row.                        *)
LEMMA TimeoutKeeps ==
  ASSUME IndInv, WorkerTimesOut PROVE IndInv'
<1>0. TypeOK /\ Tasked /\ Made /\ Saved /\ Durable /\ Current
  BY DEF IndInv
<1>g. /\ worker.pc \in Phases /\ worker.pc # "idle" /\ worker.u \in Upgrades
      /\ worker.old \in Boxes
      /\ 0 \notin Boxes /\ upgrade[worker.u].old = worker.old /\ upgrade[worker.u].st # "none"
      /\ worker.new # 0 => worker.new \in Boxes /\ worker.new # worker.old
      /\ retire.due \subseteq Upgrades
  BY <1>0, Held DEF WorkerTimesOut, Busy, Tasked, Made, Private, TypeOK, Phases
<1>w. /\ upgrade' \in [Upgrades -> UpgradeState] /\ upgrade'[worker.u].st = "running"
      /\ upgrade'[worker.u].old = upgrade[worker.u].old
      /\ \A v \in Upgrades \ {worker.u} : upgrade'[v] = upgrade[v]
      /\ slot' \in SlotState /\ slot'.st = "archived"
      /\ worker' \in WorkerState /\ worker'.pc = "idle" /\ worker'.u = 0 /\ worker'.old = 0
      /\ worker'.new = 0 /\ worker'.backup = {} /\ ~worker'.paused
      /\ UNCHANGED <<caller, retire, delivery, probe, sync, acked, exempt>>
  <2>1. Ends("running", "archived")
    BY DEF WorkerTimesOut
  <2> QED
    BY <1>0, <1>g, <2>1, EndsBy DEF WorkerTimesOut, NoFault
<1>o. Older
  BY <1>g, <1>w DEF Older
<1>b. /\ lost' = lost \cup {worker.u} /\ fallen' = TRUE /\ events' \in 0 .. MaxEvents
      /\ box' \in [Boxes -> BoxState]
      /\ \A b \in Boxes : /\ box'[b].db = box[b].db /\ box'[b].res = box[b].res
                          /\ b # worker.new => box'[b] = box[b]
                          /\ b = worker.new => box'[b].row = "gone" /\ box[b].row # "none"
  <2>1. lost' = lost \cup {worker.u} /\ fallen' = TRUE /\ events' \in 0 .. MaxEvents
    BY <1>0, UpgradeConstants DEF WorkerTimesOut, Fault, TypeOK
  <2>2. CASE worker.new = 0
    BY <1>0, <1>g, <2>1, <2>2 DEF WorkerTimesOut, TypeOK
  <2>3. CASE worker.new # 0
    <3>1. box' = [box EXCEPT ![worker.new].row = "gone"]
      BY <2>3 DEF WorkerTimesOut
    <3>2. Moved(worker.new, "gone", box[worker.new].res, box[worker.new].db)
      BY <1>0, <1>g, <2>3, <3>1, GoneMoves
    <3>3. box[worker.new].row # "none"
      BY <1>0, <2>3 DEF Made, Private
    <3> QED
      BY <2>1, <3>2, <3>3 DEF Moved
  <2> QED
    BY <2>2, <2>3
<1>t. TypeOK'
  BY <1>0, <1>g, <1>w, <1>b DEF TypeOK
<1>q. Tasked'
  BY <1>0, <1>g, <1>w, <1>b, EndTasked
<1>m. Made'
  <2>1. Creating'
    BY <1>w DEF Creating, Restored, Copying
  <2>2. worker'.backup \subseteq 1 .. acked /\ \A b \in Boxes : box'[b].db \subseteq 1 .. acked
    BY <1>0, <1>w, <1>b DEF Made
  <2>3. Lasting /\ (sync # 0 => box'[sync].res = box[sync].res)
    BY <1>0, <1>g, <1>w, <1>b, Held DEF Lasting, Made
  <2> QED
    BY <1>0, <1>w, <1>o, <2>1, <2>2, <2>3, MadeKept
<1>s. Saved'
  BY <1>w DEF Saved, Copying, Restored
<1>d. Durable'
  <2>2. \A u \in Upgrades : /\ upgrade'[u].old = upgrade[u].old
                            /\ u # worker.u => upgrade'[u].st = upgrade[u].st
    BY <1>w
  <2>1. Lasting
    BY <1>b DEF Lasting
  <2>3. worker.paused => worker.pc \in {"cleanup", "finish"} /\ worker.new # 0
    BY <1>0, <1>g DEF Made, Creating, Phases
  <2>4. \A b \in Boxes : /\ box'[b].db = box[b].db
                         /\ box'[b].row = "stopped" => b = worker.old \/ box[b].row = "stopped"
    BY <1>b
  <2>5. /\ worker.pc # "idle" /\ worker'.u = 0 /\ worker'.new = 0 /\ ~worker'.paused
        /\ UNCHANGED <<retire, sync, acked, exempt>> /\ upgrade'[worker.u].st # "succeeded"
    BY <1>g, <1>w
  <2>6. CASE worker.paused
    <3>1. box[worker.old].db \ exempt \subseteq box[worker.new].db /\ worker.new \in Boxes
      BY <1>0, <1>g, <2>3, <2>6 DEF Saved, Restored
    <3>2. box[worker.old].db \ exempt \subseteq box'[worker.new].db
      BY <2>4, <3>1
    <3> QED
      BY <1>0, <2>1, <2>2, <2>3, <2>4, <2>5, <2>6, <3>2, EndDurable
  <2>7. CASE ~worker.paused
    <3>1. \A b \in Boxes : b = worker.old /\ Firm(b) => ~Condemned(b)'
      BY <1>g, <1>w, <1>b, <2>7 DEF Firm, Condemned, Succeeded
    <3> QED
      BY <1>0, <2>1, <2>2, <2>4, <2>5, <3>1, EndDurable
  <2> QED
    BY <2>6, <2>7
<1>c. Current'
  <2>1. fallen'
    BY DEF WorkerTimesOut
  <2> QED
    BY <2>1 DEF Current
<1> QED
  BY <1>t, <1>q, <1>m, <1>s, <1>d, <1>c DEF IndInv
-----------------------------------------------------------------------------
(* The requests and the queue.                                             *)
LEMMA QueueKeeps ==
  ASSUME IndInv, TypeOK', Tasked',
         UNCHANGED <<box, worker, retire, delivery, probe, sync, acked, exempt, fallen>>,
         \A u \in Upgrades :
           \/ upgrade'[u] = upgrade[u]
           \/ /\ upgrade'[u].st \in {"queued", "running", "failed"}
              /\ \/ upgrade[u].st # "none" /\ upgrade'[u].old = upgrade[u].old
                 \/ upgrade'[u].old \in Rows
  PROVE  IndInv'
<1>0. TypeOK /\ Tasked /\ Made /\ Saved /\ Durable /\ Current
  BY DEF IndInv
<1>1. \A b \in Rows : b \in Boxes /\ box[b].row # "none"
  BY DEF Rows
<1>2. \A u \in Upgrades : Replaces(u)'
  BY <1>0, <1>1 DEF Made, Replaces, Succeeded
<1>3. \A u \in Upgrades : upgrade'[u].st = "succeeded" =>
        upgrade[u].st = "succeeded" /\ upgrade'[u].old = upgrade[u].old
  OBVIOUS
<1> QED
  BY <1>0, <1>2, <1>3, QueueFrame DEF IndInv

(* What a request records of itself.                                       *)
LEMMA CallerSet ==
  ASSUME TypeOK, NEW c \in Callers, NEW pc \in {"idle", "checked", "cleared", "created"},
         NEW u \in 0 .. MaxUpgrades, SetCaller(c, pc, u)
  PROVE  /\ caller' \in [Callers -> CallerState]
         /\ caller'[c] = [pc |-> pc, u |-> u] /\ caller'[c].pc = pc /\ caller'[c].u = u
         /\ \A d \in Callers \ {c} : caller'[d] = caller[d]
<1>1. [pc |-> pc, u |-> u] \in CallerState
  BY DEF CallerState
<1> QED
  BY <1>1 DEF SetCaller, TypeOK

(* StartSandboxUpgrade checks,                                             *)
LEMMA CheckKeeps ==
  ASSUME IndInv, NEW c \in Callers, CheckActive(c) PROVE IndInv'
<1>0. TypeOK /\ Tasked
  BY DEF IndInv
<1>z. 0 \in 0 .. MaxUpgrades /\ 0 \notin Upgrades /\ Upgrades \subseteq 0 .. MaxUpgrades
  BY UpgradeConstants DEF Upgrades
<1>w. /\ caller[c].pc = "idle" /\ UNCHANGED <<box, upgrade, slot, worker, retire, delivery,
                                              probe, sync, acked, exempt, lost, fallen,
                                              events>>
      /\ caller' \in [Callers -> CallerState] /\ caller'[c].pc = "checked"
      /\ \A d \in Callers \ {c} : caller'[d] = caller[d]
  BY <1>0, <1>z, CallerSet DEF CheckActive, NoFault
<1>t. TypeOK'
  BY <1>0, <1>w DEF TypeOK
<1>q. Tasked'
  <2>1. ActiveUpgradeIsDriven'
    <3> SUFFICES ASSUME NEW u \in Upgrades, upgrade'[u].st \in ActiveStatus
                 PROVE  \/ u \in lost' \/ (slot'.st \in {"pending", "active"} /\ slot'.u = u)
                        \/ \E d \in Callers : caller'[d] = [pc |-> "created", u |-> u]
      BY DEF ActiveUpgradeIsDriven, ActiveUpgrades
    <3>1. upgrade[u].st \in ActiveStatus =>
            \/ u \in lost \/ (slot.st \in {"pending", "active"} /\ slot.u = u)
            \/ \E d \in Callers : caller[d] = [pc |-> "created", u |-> u]
      BY <1>0 DEF Tasked, ActiveUpgradeIsDriven, ActiveUpgrades
    <3>2. \A d \in Callers : caller[d] = [pc |-> "created", u |-> u] => d # c
      BY <1>w
    <3> QED
      BY <1>w, <3>1, <3>2
  <2> QED
    BY <1>0, <1>w, <2>1 DEF Tasked, Busy
<1>u. \A u \in Upgrades :
        \/ upgrade'[u] = upgrade[u]
        \/ /\ upgrade'[u].st \in {"queued", "running", "failed"}
           /\ \/ upgrade[u].st # "none" /\ upgrade'[u].old = upgrade[u].old
              \/ upgrade'[u].old \in Rows
  BY <1>w
<1> QED
  BY <1>w, <1>t, <1>q, <1>u, QueueKeeps

(* deletes a stale task,                                                   *)
LEMMA ClearKeeps ==
  ASSUME IndInv, NEW c \in Callers, ClearStale(c) PROVE IndInv'
<1>0. TypeOK /\ Tasked
  BY DEF IndInv
<1>z. 0 \in 0 .. MaxUpgrades /\ 0 \notin Upgrades /\ Upgrades \subseteq 0 .. MaxUpgrades
  BY UpgradeConstants DEF Upgrades
<1>w. /\ caller[c].pc = "checked" /\ UNCHANGED <<box, upgrade, worker, retire, delivery,
                                                 probe, sync, acked, exempt, fallen, events>>
      /\ caller' \in [Callers -> CallerState] /\ caller'[c].pc \in {"idle", "cleared"}
      /\ \A d \in Callers \ {c} : caller'[d] = caller[d]
  BY <1>0, <1>z, CallerSet DEF ClearStale, NoFault
<1>x. \/ UNCHANGED <<slot, lost>>
      \/ /\ slot.st # "active" /\ slot' = FreeSlot
         /\ lost' = IF slot.st = "pending" THEN lost \cup {slot.u} ELSE lost
  BY DEF ClearStale
<1>s. /\ slot.st \in {"free", "pending", "active", "archived"} /\ slot' \in SlotState
      /\ slot' = slot \/ (slot'.st = "free" /\ slot.st # "active")
      /\ lost \subseteq lost' /\ lost' \subseteq Upgrades
      /\ slot.st = "pending" => slot' = slot \/ slot.u \in lost'
  <2>1. /\ slot.st \in {"free", "pending", "active", "archived"} /\ slot \in SlotState
        /\ FreeSlot \in SlotState /\ FreeSlot.st = "free" /\ lost \subseteq Upgrades
        /\ slot.st = "pending" => slot.u \in Upgrades
    BY <1>0, <1>z DEF FreeSlot, SlotState, TypeOK, Tasked
  <2> QED
    BY <1>x, <2>1
<1>t. TypeOK'
  BY <1>0, <1>w, <1>s DEF TypeOK
<1>q. Tasked'
  <2>1. ActiveUpgradeIsDriven'
    <3> SUFFICES ASSUME NEW u \in Upgrades, upgrade'[u].st \in ActiveStatus
                 PROVE  \/ u \in lost' \/ (slot'.st \in {"pending", "active"} /\ slot'.u = u)
                        \/ \E d \in Callers : caller'[d] = [pc |-> "created", u |-> u]
      BY DEF ActiveUpgradeIsDriven, ActiveUpgrades
    <3>1. upgrade[u].st \in ActiveStatus =>
            \/ u \in lost \/ (slot.st \in {"pending", "active"} /\ slot.u = u)
            \/ \E d \in Callers : caller[d] = [pc |-> "created", u |-> u]
      BY <1>0 DEF Tasked, ActiveUpgradeIsDriven, ActiveUpgrades
    <3>2. \A d \in Callers : caller[d] = [pc |-> "created", u |-> u] => d # c
      BY <1>w
    <3> QED
      BY <1>w, <1>s, <3>1, <3>2
  <2>2. worker.pc # "idle" => slot.st = "active"
    BY <1>0 DEF TypeOK
  <2> QED
    BY <1>0, <1>w, <1>s, <2>1, <2>2 DEF Tasked, Busy
<1>u. \A u \in Upgrades :
        \/ upgrade'[u] = upgrade[u]
        \/ /\ upgrade'[u].st \in {"queued", "running", "failed"}
           /\ \/ upgrade[u].st # "none" /\ upgrade'[u].old = upgrade[u].old
              \/ upgrade'[u].old \in Rows
  BY <1>w
<1> QED
  BY <1>w, <1>t, <1>q, <1>u, QueueKeeps

(* creates its row                                                         *)
LEMMA CreateUpgradeKeeps ==
  ASSUME IndInv, NEW c \in Callers, CreateUpgrade(c) PROVE IndInv'
<1>0. TypeOK /\ Tasked
  BY DEF IndInv
<1>z. 0 \in 0 .. MaxUpgrades /\ 0 \notin Upgrades /\ Upgrades \subseteq 0 .. MaxUpgrades
  BY UpgradeConstants DEF Upgrades
<1>w. /\ caller[c].pc = "cleared" /\ UNCHANGED <<box, slot, worker, retire, delivery, probe,
                                                 sync, acked, exempt, lost, fallen, events>>
  BY DEF CreateUpgrade, NoFault
<1>x. \/ /\ UNCHANGED upgrade
         /\ caller' \in [Callers -> CallerState] /\ caller'[c].pc = "idle"
         /\ \A d \in Callers \ {c} : caller'[d] = caller[d]
      \/ \E n \in Upgrades :
           /\ upgrade[n].st = "none" /\ Newest \in Rows
           /\ upgrade' \in [Upgrades -> UpgradeState]
           /\ upgrade'[n].st = "queued" /\ upgrade'[n].old = Newest
           /\ \A v \in Upgrades \ {n} : upgrade'[v] = upgrade[v]
           /\ caller' \in [Callers -> CallerState] /\ caller'[c] = [pc |-> "created", u |-> n]
           /\ caller'[c].u = n /\ \A d \in Callers \ {c} : caller'[d] = caller[d]
  <2>1. CASE Newest = 0 \/ FreeUpgrades = {}
    BY <1>0, <1>z, <2>1, CallerSet DEF CreateUpgrade
  <2>2. CASE Newest # 0 /\ FreeUpgrades # {}
    <3>1. PICK n \in Upgrades : n = NextUpgrade /\ upgrade[n].st = "none"
      BY <2>2, NextUpgradeIs DEF FreeUpgrades
    <3>2. SetCaller(c, "created", n)
      BY <2>2, <3>1 DEF CreateUpgrade
    <3>3. upgrade' = [upgrade EXCEPT ![n] = [st |-> "queued", old |-> Newest, new |-> 0]]
      BY <2>2, <3>1 DEF CreateUpgrade
    <3>4. Newest \in Rows /\ Newest \in 0 .. MaxBoxes /\ 0 \in 0 .. MaxBoxes
      BY <2>2, NewestType, UpgradeConstants
    <3>5. [st |-> "queued", old |-> Newest, new |-> 0] \in UpgradeState
      BY <3>4 DEF UpgradeState, ActiveStatus
    <3>6. /\ upgrade' \in [Upgrades -> UpgradeState]
          /\ upgrade'[n].st = "queued" /\ upgrade'[n].old = Newest
          /\ \A v \in Upgrades \ {n} : upgrade'[v] = upgrade[v]
      BY <1>0, <3>3, <3>5 DEF TypeOK
    <3>7. /\ caller' \in [Callers -> CallerState] /\ caller'[c] = [pc |-> "created", u |-> n]
          /\ caller'[c].u = n /\ \A d \in Callers \ {c} : caller'[d] = caller[d]
      BY <1>0, <1>z, <3>2, CallerSet
    <3> QED
      BY <3>1, <3>4, <3>6, <3>7, Zenon
  <2> QED
    BY <2>1, <2>2
<1>t. TypeOK'
  BY <1>0, <1>w, <1>x DEF TypeOK
<1>q. Tasked'
  <2>1. ActiveUpgradeIsDriven'
    <3> SUFFICES ASSUME NEW u \in Upgrades, upgrade'[u].st \in ActiveStatus
                 PROVE  \/ u \in lost' \/ (slot'.st \in {"pending", "active"} /\ slot'.u = u)
                        \/ \E d \in Callers : caller'[d] = [pc |-> "created", u |-> u]
      BY DEF ActiveUpgradeIsDriven, ActiveUpgrades
    <3>1. upgrade[u].st \in ActiveStatus =>
            \/ u \in lost \/ (slot.st \in {"pending", "active"} /\ slot.u = u)
            \/ \E d \in Callers : caller[d] = [pc |-> "created", u |-> u]
      BY <1>0 DEF Tasked, ActiveUpgradeIsDriven, ActiveUpgrades
    <3>2. \A d \in Callers : caller[d] = [pc |-> "created", u |-> u] => d # c
      BY <1>w
    <3> QED
      BY <1>w, <1>x, <3>1, <3>2
  <2>2. \A v \in Upgrades : upgrade[v].st # "none" => upgrade'[v] = upgrade[v]
    BY <1>x
  <2>3. \A d \in Callers : caller'[d].pc = "created" =>
          caller'[d].u \in Upgrades /\ upgrade'[caller'[d].u].st # "none"
    <3>0. \A d \in Callers \ {c} : caller'[d] = caller[d]
      BY <1>x
    <3>1. \A d \in Callers \ {c} : caller'[d].pc = "created" =>
            caller'[d].u \in Upgrades /\ upgrade'[caller'[d].u].st # "none"
      BY <1>0, <2>2, <3>0 DEF Tasked
    <3>2. caller'[c].pc = "created" => caller'[c].u \in Upgrades /\ upgrade'[caller'[c].u].st # "none"
      BY <1>x
    <3> QED
      BY <3>1, <3>2
  <2> QED
    BY <1>0, <1>w, <2>1, <2>2, <2>3 DEF Tasked, Busy
<1>u. \A u \in Upgrades :
        \/ upgrade'[u] = upgrade[u]
        \/ /\ upgrade'[u].st \in {"queued", "running", "failed"}
           /\ \/ upgrade[u].st # "none" /\ upgrade'[u].old = upgrade[u].old
              \/ upgrade'[u].old \in Rows
  BY <1>x
<1> QED
  BY <1>w, <1>t, <1>q, <1>u, QueueKeeps

(* and enqueues the task,                                                  *)
LEMMA EnqueueKeeps ==
  ASSUME IndInv, NEW c \in Callers, EnqueueUpgrade(c) PROVE IndInv'
<1>0. TypeOK /\ Tasked
  BY DEF IndInv
<1>z. 0 \in 0 .. MaxUpgrades /\ 0 \notin Upgrades /\ Upgrades \subseteq 0 .. MaxUpgrades
  BY UpgradeConstants DEF Upgrades
<1>g. /\ caller[c].pc = "created" /\ caller[c].u \in Upgrades /\ upgrade[caller[c].u].st # "none"
      /\ caller' \in [Callers -> CallerState] /\ caller'[c].pc = "idle"
      /\ \A d \in Callers \ {c} : caller'[d] = caller[d]
  BY <1>0, <1>z, CallerSet DEF EnqueueUpgrade, Tasked
<1>w. UNCHANGED <<box, worker, retire, delivery, probe, sync, acked, exempt, lost, fallen,
                  events>>
  BY DEF EnqueueUpgrade, NoFault
<1>s. \/ /\ slot.st = "free" /\ slot' \in SlotState /\ slot'.st = "pending"
         /\ slot'.u = caller[c].u
         /\ UNCHANGED upgrade
      \/ /\ slot' = slot
         /\ upgrade' \in [Upgrades -> UpgradeState] /\ upgrade'[caller[c].u].st = "failed"
         /\ upgrade'[caller[c].u].old = upgrade[caller[c].u].old
         /\ \A v \in Upgrades \ {caller[c].u} : upgrade'[v] = upgrade[v]
  <2>1. CASE slot.st = "free"
    BY <1>g, <1>z, <2>1 DEF EnqueueUpgrade, SlotState
  <2>2. CASE slot.st # "free"
    BY <1>0, <1>g, <2>2, UpgradeWritten DEF EnqueueUpgrade
  <2> QED
    BY <2>1, <2>2
<1>i. slot.st = "active" <=> worker.pc # "idle"
  BY <1>0 DEF TypeOK
<1>t. TypeOK'
  BY <1>0, <1>g, <1>w, <1>s, <1>i DEF TypeOK
<1>q. Tasked'
  <2>1. ActiveUpgradeIsDriven'
    <3> SUFFICES ASSUME NEW u \in Upgrades, upgrade'[u].st \in ActiveStatus
                 PROVE  \/ u \in lost' \/ (slot'.st \in {"pending", "active"} /\ slot'.u = u)
                        \/ \E d \in Callers : caller'[d] = [pc |-> "created", u |-> u]
      BY DEF ActiveUpgradeIsDriven, ActiveUpgrades
    <3>1. upgrade[u].st \in ActiveStatus =>
            \/ u \in lost \/ (slot.st \in {"pending", "active"} /\ slot.u = u)
            \/ \E d \in Callers : caller[d] = [pc |-> "created", u |-> u]
      BY <1>0 DEF Tasked, ActiveUpgradeIsDriven, ActiveUpgrades
    <3>2. \A d \in Callers : caller[d] = [pc |-> "created", u |-> u] => d # c \/ u = caller[c].u
      OBVIOUS
    <3> QED
      BY <1>g, <1>w, <1>s, <3>1, <3>2 DEF ActiveStatus
  <2> QED
    BY <1>0, <1>g, <1>w, <1>s, <1>i, <2>1 DEF Tasked, Busy
<1>u. \A u \in Upgrades :
        \/ upgrade'[u] = upgrade[u]
        \/ /\ upgrade'[u].st \in {"queued", "running", "failed"}
           /\ \/ upgrade[u].st # "none" /\ upgrade'[u].old = upgrade[u].old
              \/ upgrade'[u].old \in Rows
  BY <1>g, <1>s
<1> QED
  BY <1>w, <1>t, <1>q, <1>u, QueueKeeps

(* which may fail,                                                         *)
LEMMA EnqueueFailsKeeps ==
  ASSUME IndInv, NEW c \in Callers, EnqueueFails(c) PROVE IndInv'
<1>0. TypeOK /\ Tasked
  BY DEF IndInv
<1>z. 0 \in 0 .. MaxUpgrades /\ 0 \notin Upgrades /\ Upgrades \subseteq 0 .. MaxUpgrades
  BY UpgradeConstants DEF Upgrades
<1>g. /\ caller[c].pc = "created" /\ caller[c].u \in Upgrades /\ upgrade[caller[c].u].st # "none"
      /\ caller' \in [Callers -> CallerState] /\ caller'[c].pc = "idle"
      /\ \A d \in Callers \ {c} : caller'[d] = caller[d]
  BY <1>0, <1>z, CallerSet DEF EnqueueFails, Tasked
<1>w. UNCHANGED <<box, worker, retire, delivery, probe, sync, acked, exempt, lost, fallen>>
      /\ events' \in 0 .. MaxEvents
  BY <1>0, UpgradeConstants DEF EnqueueFails, Fault, TypeOK
<1>s. /\ \/ slot' = slot
         \/ slot.st = "free" /\ slot' \in SlotState /\ slot'.st = "pending" /\ slot'.u = caller[c].u
      /\ upgrade' \in [Upgrades -> UpgradeState] /\ upgrade'[caller[c].u].st = "failed"
      /\ upgrade'[caller[c].u].old = upgrade[caller[c].u].old
      /\ \A v \in Upgrades \ {caller[c].u} : upgrade'[v] = upgrade[v]
  <2>1. \/ slot' = slot
        \/ slot.st = "free" /\ slot' \in SlotState /\ slot'.st = "pending" /\ slot'.u = caller[c].u
    BY <1>g, <1>z DEF EnqueueFails, SlotState
  <2> QED
    BY <1>0, <1>g, <2>1, UpgradeWritten DEF EnqueueFails
<1>i. slot.st = "active" <=> worker.pc # "idle"
  BY <1>0 DEF TypeOK
<1>t. TypeOK'
  BY <1>0, <1>g, <1>w, <1>s, <1>i DEF TypeOK
<1>q. Tasked'
  <2>1. ActiveUpgradeIsDriven'
    <3> SUFFICES ASSUME NEW u \in Upgrades, upgrade'[u].st \in ActiveStatus
                 PROVE  \/ u \in lost' \/ (slot'.st \in {"pending", "active"} /\ slot'.u = u)
                        \/ \E d \in Callers : caller'[d] = [pc |-> "created", u |-> u]
      BY DEF ActiveUpgradeIsDriven, ActiveUpgrades
    <3>1. upgrade[u].st \in ActiveStatus =>
            \/ u \in lost \/ (slot.st \in {"pending", "active"} /\ slot.u = u)
            \/ \E d \in Callers : caller[d] = [pc |-> "created", u |-> u]
      BY <1>0 DEF Tasked, ActiveUpgradeIsDriven, ActiveUpgrades
    <3>2. \A d \in Callers : caller[d] = [pc |-> "created", u |-> u] => d # c \/ u = caller[c].u
      OBVIOUS
    <3> QED
      BY <1>g, <1>w, <1>s, <3>1, <3>2 DEF ActiveStatus
  <2> QED
    BY <1>0, <1>g, <1>w, <1>s, <1>i, <2>1 DEF Tasked, Busy
<1>u. \A u \in Upgrades :
        \/ upgrade'[u] = upgrade[u]
        \/ /\ upgrade'[u].st \in {"queued", "running", "failed"}
           /\ \/ upgrade[u].st # "none" /\ upgrade'[u].old = upgrade[u].old
              \/ upgrade'[u].old \in Rows
  BY <1>g, <1>s
<1> QED
  BY <1>w, <1>t, <1>q, <1>u, QueueKeeps

(* or dies before it does.                                                 *)
LEMMA CallerCrashKeeps ==
  ASSUME IndInv, NEW c \in Callers, CallerCrashes(c) PROVE IndInv'
<1>0. TypeOK /\ Tasked
  BY DEF IndInv
<1>z. 0 \in 0 .. MaxUpgrades /\ 0 \notin Upgrades /\ Upgrades \subseteq 0 .. MaxUpgrades
  BY UpgradeConstants DEF Upgrades
<1>g. /\ caller[c].pc = "created" /\ caller[c].u \in Upgrades /\ upgrade[caller[c].u].st # "none"
      /\ caller' \in [Callers -> CallerState] /\ caller'[c].pc = "idle"
      /\ \A d \in Callers \ {c} : caller'[d] = caller[d]
  BY <1>0, <1>z, CallerSet DEF CallerCrashes, Tasked
<1>w. UNCHANGED <<box, upgrade, slot, worker, retire, delivery, probe, sync, acked, exempt,
                  fallen>>
      /\ lost' = lost \cup {caller[c].u} /\ events' \in 0 .. MaxEvents
  BY <1>0, UpgradeConstants DEF CallerCrashes, Fault, TypeOK
<1>t. TypeOK'
  BY <1>0, <1>g, <1>w DEF TypeOK
<1>q. Tasked'
  <2>1. ActiveUpgradeIsDriven'
    <3> SUFFICES ASSUME NEW u \in Upgrades, upgrade'[u].st \in ActiveStatus
                 PROVE  \/ u \in lost' \/ (slot'.st \in {"pending", "active"} /\ slot'.u = u)
                        \/ \E d \in Callers : caller'[d] = [pc |-> "created", u |-> u]
      BY DEF ActiveUpgradeIsDriven, ActiveUpgrades
    <3>1. upgrade[u].st \in ActiveStatus =>
            \/ u \in lost \/ (slot.st \in {"pending", "active"} /\ slot.u = u)
            \/ \E d \in Callers : caller[d] = [pc |-> "created", u |-> u]
      BY <1>0 DEF Tasked, ActiveUpgradeIsDriven, ActiveUpgrades
    <3>2. \A d \in Callers : caller[d] = [pc |-> "created", u |-> u] => d # c \/ u = caller[c].u
      OBVIOUS
    <3> QED
      BY <1>g, <1>w, <3>1, <3>2 DEF ActiveStatus
  <2> QED
    BY <1>0, <1>g, <1>w, <2>1 DEF Tasked, Busy
<1>u. \A u \in Upgrades :
        \/ upgrade'[u] = upgrade[u]
        \/ /\ upgrade'[u].st \in {"queued", "running", "failed"}
           /\ \/ upgrade[u].st # "none" /\ upgrade'[u].old = upgrade[u].old
              \/ upgrade'[u].old \in Rows
  BY <1>w
<1> QED
  BY <1>w, <1>t, <1>q, <1>u, QueueKeeps

(* loadAndStart: a settled upgrade,                                        *)
LEMMA SettledKeeps ==
  ASSUME IndInv, slot.st = "pending", At("idle"), NoFault,
         UNCHANGED <<box, caller, retire, delivery, probe, sync, acked, exempt, lost>>,
         upgrade[slot.u].st \notin ActiveStatus, slot' = FreeSlot, UNCHANGED <<upgrade,
                                                                               worker,
                                                                               fallen>>
  PROVE IndInv'
<1>0. TypeOK /\ Tasked
  BY DEF IndInv
<1>z. 0 \in 0 .. MaxUpgrades /\ 0 \notin Upgrades /\ Upgrades \subseteq 0 .. MaxUpgrades
  BY UpgradeConstants DEF Upgrades
<1>g. /\ slot.st = "pending" /\ worker.pc = "idle" /\ slot.u \in Upgrades
      /\ upgrade[slot.u].st # "none"
  BY <1>0 DEF At, Tasked
<1>w. UNCHANGED <<box, upgrade, caller, worker, retire, delivery, probe, sync, acked, exempt,
                  lost, fallen, events>>
      /\ slot' \in SlotState /\ slot'.st = "free"
  BY <1>z DEF NoFault, FreeSlot, SlotState
<1>t. TypeOK'
  BY <1>0, <1>g, <1>w DEF TypeOK
<1>q. Tasked'
  <2>1. ActiveUpgradeIsDriven'
    <3> SUFFICES ASSUME NEW u \in Upgrades, upgrade'[u].st \in ActiveStatus
                 PROVE  \/ u \in lost' \/ (slot'.st \in {"pending", "active"} /\ slot'.u = u)
                        \/ \E d \in Callers : caller'[d] = [pc |-> "created", u |-> u]
      BY DEF ActiveUpgradeIsDriven, ActiveUpgrades
    <3>1. upgrade[u].st \in ActiveStatus =>
            \/ u \in lost \/ (slot.st \in {"pending", "active"} /\ slot.u = u)
            \/ \E d \in Callers : caller[d] = [pc |-> "created", u |-> u]
      BY <1>0 DEF Tasked, ActiveUpgradeIsDriven, ActiveUpgrades
    <3> QED
      BY <1>w, <3>1
  <2> QED
    BY <1>0, <1>g, <1>w, <2>1 DEF Tasked, Busy
<1>u. \A u \in Upgrades :
        \/ upgrade'[u] = upgrade[u]
        \/ /\ upgrade'[u].st \in {"queued", "running", "failed"}
           /\ \/ upgrade[u].st # "none" /\ upgrade'[u].old = upgrade[u].old
              \/ upgrade'[u].old \in Rows
  BY <1>w
<1> QED
  BY <1>w, <1>t, <1>q, <1>u, QueueKeeps

(* a missing old sandbox,                                                  *)
LEMMA OldMissingKeeps ==
  ASSUME IndInv, slot.st = "pending", At("idle"), NoFault,
         UNCHANGED <<box, caller, retire, delivery, probe, sync, acked, exempt, lost>>,
         upgrade' = [upgrade EXCEPT ![slot.u].st = "failed"], slot' = [slot EXCEPT !.st = "archived"],
         UNCHANGED <<worker, fallen>>
  PROVE IndInv'
<1>0. TypeOK /\ Tasked
  BY DEF IndInv
<1>z. 0 \in 0 .. MaxUpgrades /\ 0 \notin Upgrades /\ Upgrades \subseteq 0 .. MaxUpgrades
  BY UpgradeConstants DEF Upgrades
<1>g. /\ slot.st = "pending" /\ worker.pc = "idle" /\ slot.u \in Upgrades
      /\ upgrade[slot.u].st # "none"
  BY <1>0 DEF At, Tasked
<1>w. UNCHANGED <<box, caller, worker, retire, delivery, probe, sync, acked, exempt, lost,
                  fallen, events>>
      /\ slot' \in SlotState /\ slot'.st = "archived"
  BY <1>0 DEF NoFault, TypeOK, SlotState
<1>s. /\ upgrade' \in [Upgrades -> UpgradeState] /\ upgrade'[slot.u].st = "failed"
      /\ upgrade'[slot.u].old = upgrade[slot.u].old
      /\ \A v \in Upgrades \ {slot.u} : upgrade'[v] = upgrade[v]
  BY <1>0, <1>g, UpgradeWritten
<1>t. TypeOK'
  BY <1>0, <1>g, <1>w, <1>s DEF TypeOK
<1>q. Tasked'
  <2>1. ActiveUpgradeIsDriven'
    <3> SUFFICES ASSUME NEW u \in Upgrades, upgrade'[u].st \in ActiveStatus
                 PROVE  \/ u \in lost' \/ (slot'.st \in {"pending", "active"} /\ slot'.u = u)
                        \/ \E d \in Callers : caller'[d] = [pc |-> "created", u |-> u]
      BY DEF ActiveUpgradeIsDriven, ActiveUpgrades
    <3>1. upgrade[u].st \in ActiveStatus =>
            \/ u \in lost \/ (slot.st \in {"pending", "active"} /\ slot.u = u)
            \/ \E d \in Callers : caller[d] = [pc |-> "created", u |-> u]
      BY <1>0 DEF Tasked, ActiveUpgradeIsDriven, ActiveUpgrades
    <3> QED
      BY <1>g, <1>w, <1>s, <3>1 DEF ActiveStatus
  <2> QED
    BY <1>0, <1>g, <1>w, <1>s, <2>1 DEF Tasked, Busy
<1>u. \A u \in Upgrades :
        \/ upgrade'[u] = upgrade[u]
        \/ /\ upgrade'[u].st \in {"queued", "running", "failed"}
           /\ \/ upgrade[u].st # "none" /\ upgrade'[u].old = upgrade[u].old
              \/ upgrade'[u].old \in Rows
  BY <1>g, <1>s
<1> QED
  BY <1>w, <1>t, <1>q, <1>u, QueueKeeps

(* or the start of the worker, on the newest row unless another is current. *)
LEMMA StartedKeeps ==
  ASSUME IndInv, slot.st = "pending", At("idle"), NoFault,
         UNCHANGED <<box, caller, retire, delivery, probe, sync, acked, exempt, lost>>,
         upgrade[slot.u].old \in Rows,
         upgrade' = [upgrade EXCEPT ![slot.u].st = "running"], slot' = [slot EXCEPT !.st = "active"],
         worker' = [IdleWorker EXCEPT !.pc = "backup", !.u = slot.u, !.old = upgrade[slot.u].old],
         fallen' = (fallen \/ upgrade[slot.u].old # Newest)
  PROVE IndInv'
<1>0. TypeOK /\ Tasked /\ Made /\ Saved /\ Durable /\ Current
  BY DEF IndInv
<1>z. 0 \in 0 .. MaxUpgrades /\ 0 \notin Upgrades /\ Upgrades \subseteq 0 .. MaxUpgrades
  BY UpgradeConstants DEF Upgrades
<1>g. /\ slot.st = "pending" /\ worker.pc = "idle" /\ slot.u \in Upgrades
      /\ upgrade[slot.u].st # "none"
  BY <1>0 DEF At, Tasked
<1>w. /\ UNCHANGED <<box, caller, retire, delivery, probe, sync, acked, exempt, lost, events>>
      /\ slot' \in SlotState /\ slot'.st = "active" /\ slot'.u = slot.u
      /\ worker'.pc = "backup" /\ worker'.u = slot.u /\ worker'.old = upgrade[slot.u].old
      /\ worker'.new = 0 /\ worker'.backup = {} /\ ~worker'.paused
  BY <1>0 DEF NoFault, TypeOK, SlotState, IdleWorker
<1>v. /\ upgrade' \in [Upgrades -> UpgradeState] /\ upgrade'[slot.u].st = "running"
      /\ upgrade'[slot.u].old = upgrade[slot.u].old
      /\ \A v \in Upgrades \ {slot.u} : upgrade'[v] = upgrade[v]
  BY <1>0, <1>g, UpgradeWritten
<1>o. Older
  BY <1>g, <1>v DEF Older
<1>i. worker.u = 0 /\ worker.new = 0 /\ ~worker.paused /\ 0 \notin Boxes
  BY <1>0, <1>g, UpgradeConstants DEF Tasked, Busy, Made, Creating, Boxes
<1>t. TypeOK'
  <2>1. worker' \in WorkerState
    <3>1. /\ 0 \in 0 .. MaxBoxes /\ "backup" \in Phases /\ slot.u \in 0 .. MaxUpgrades
          /\ upgrade[slot.u].old \in 0 .. MaxBoxes
      BY <1>0, <1>g, <1>z, UpgradeConstants DEF Phases, TypeOK, UpgradeState
    <3> QED
      BY <3>1 DEF WorkerState, IdleWorker
  <2>2. fallen' \in BOOLEAN
    OBVIOUS
  <2> QED
    BY <1>0, <1>w, <1>v, <2>1, <2>2 DEF TypeOK
<1>q. Tasked'
  <2>1. ActiveUpgradeIsDriven'
    <3> SUFFICES ASSUME NEW u \in Upgrades, upgrade'[u].st \in ActiveStatus
                 PROVE  \/ u \in lost' \/ (slot'.st \in {"pending", "active"} /\ slot'.u = u)
                        \/ \E d \in Callers : caller'[d] = [pc |-> "created", u |-> u]
      BY DEF ActiveUpgradeIsDriven, ActiveUpgrades
    <3>1. upgrade[u].st \in ActiveStatus =>
            \/ u \in lost \/ (slot.st \in {"pending", "active"} /\ slot.u = u)
            \/ \E d \in Callers : caller[d] = [pc |-> "created", u |-> u]
      BY <1>0 DEF Tasked, ActiveUpgradeIsDriven, ActiveUpgrades
    <3> QED
      BY <1>g, <1>w, <1>v, <3>1
  <2> QED
    BY <1>0, <1>g, <1>w, <1>v, <2>1 DEF Tasked, Busy
<1>m. Made'
  <2>1. Creating' /\ Lasting /\ (sync # 0 => box'[sync].res = box[sync].res)
    BY <1>w DEF Creating, Restored, Copying, Lasting
  <2>2. worker'.backup \subseteq 1 .. acked /\ \A b \in Boxes : box'[b].db \subseteq 1 .. acked
    BY <1>0, <1>w DEF Made
  <2> QED
    BY <1>0, <1>w, <1>o, <2>1, <2>2, MadeKept
<1>s. Saved'
  BY <1>w DEF Saved, Copying, Restored
<1>d. Durable'
  <2>1. retire.due \subseteq Upgrades
    BY <1>0 DEF TypeOK
  <2>2. \A b \in Boxes : Condemned(b)' => Condemned(b)
    <3> SUFFICES ASSUME NEW b \in Boxes, Condemned(b)' PROVE Condemned(b)
      OBVIOUS
    <3>1. CASE retire'.at = b
      BY <1>w, <3>1 DEF Condemned
    <3>2. CASE /\ box'[b].row = "stopped"
               /\ \E u \in retire'.due : upgrade'[u].st = "succeeded" /\ upgrade'[u].old = b
      <4>1. PICK u \in retire.due : upgrade'[u].st = "succeeded" /\ upgrade'[u].old = b
        BY <1>w, <3>2
      <4>2. u \in Upgrades /\ upgrade[u].st = "succeeded" /\ upgrade[u].old = b /\ worker.u # u
        BY <1>z, <1>i, <1>v, <2>1, <4>1
      <4> QED
        BY <1>w, <1>i, <3>2, <4>2 DEF Condemned, Succeeded
    <3> QED
      BY <3>1, <3>2 DEF Condemned, Succeeded
  <2> QED
    BY <1>0, <1>w, <1>i, <2>2, DurableFrame DEF Firm
<1>c. Current'
  <2> SUFFICES ASSUME ~fallen' PROVE Current'
    BY DEF Current
  <2>1. PICK cur \in Boxes : Leads(cur) /\ HandsOver
    BY <1>0 DEF Current
  <2>2. HandsOver'
    BY <1>w, <2>1 DEF HandsOver, Restored, Copying
  <2>3. cur = upgrade[slot.u].old
    <3>1. Newest \in Rows /\ cur <= Newest
      BY <2>1, NewestIs DEF Leads
    <3>2. Newest <= cur /\ Newest \in Boxes
      BY <1>i, <2>1, <3>1 DEF Leads, Rows
    <3>3. upgrade[slot.u].old = Newest
      BY Zenon
    <3> QED
      BY <3>1, <3>2, <3>3, UpgradeConstants DEF Boxes
  <2>4. \A b \in 0 .. MaxBoxes : Reached(b, cur) => Reached(b, cur)'
    BY <1>w, <1>i, UpgradeConstants DEF Reached, Boxes
  <2>5. probe.b \in 0 .. MaxBoxes /\ \A d \in Deliveries : delivery[d].b \in 0 .. MaxBoxes
    BY <1>0 DEF TypeOK, DeliveryState
  <2>6. probe' # NoProbe => Reached(probe.b, cur)'
    BY <1>w, <2>1, <2>4, <2>5 DEF Leads
  <2>7. \A d \in Deliveries : delivery'[d].pc = "loaded" => Reached(delivery[d].b, cur)'
    BY <1>w, <2>1, <2>4, <2>5 DEF Leads
  <2>8. \A u \in Upgrades : upgrade'[u].st = "succeeded" => upgrade'[u].old # cur
    BY <1>o, <2>1 DEF Older, Leads, Succeeded
  <2>9. /\ cur \in Rows' /\ Kept' \subseteq box'[cur].db /\ (\A b \in Rows' : b <= cur) /\ retire'.at # cur
    BY <1>w, <1>i, <2>1 DEF Leads, Rows, Kept
  <2>10. Leads(cur)'
    BY <1>w, <2>3, <2>6, <2>7, <2>8, <2>9 DEF Leads, Busy, Succeeded
  <2> QED
    BY <2>2, <2>10 DEF Current
<1> QED
  BY <1>t, <1>q, <1>m, <1>s, <1>d, <1>c DEF IndInv

(* LoadAndStart is one of the three.                                       *)
LEMMA LoadAndStartKeeps == IndInv /\ LoadAndStart => IndInv'
BY SettledKeeps, OldMissingKeeps, StartedKeeps DEF LoadAndStart
-----------------------------------------------------------------------------
(* The retirement, the deliveries, the sync, the health check and the      *)
(* provider.                                                               *)
LEMMA Idle0 ==
  ASSUME TypeOK, Tasked, Made
  PROVE  /\ 0 \notin Boxes /\ retire.due \subseteq Upgrades /\ retire.at \in 0 .. MaxBoxes
         /\ worker.pc # "idle" => worker.old \in Boxes /\ box[worker.old].row # "none"
         /\ worker.new # 0 => /\ worker.new \in Boxes /\ box[worker.new].row # "none"
                              /\ worker.new \notin {worker.old, retire.at, sync}
         /\ sync # 0 => sync \in Boxes /\ box[sync].row # "none" /\ box[sync].res = "none"
         /\ worker.pc = "provision" => box[worker.new].res = "none"
         /\ worker.pc \in Copying \cup Restored => worker.pc # "idle" /\ box[worker.old].res # "none"
BY Held DEF TypeOK, Busy, Made, Private, Syncing, Creating, Copying, Restored

(* The box that passes the retirement's checks was already condemned.      *)
LEMMA RetireCheckKeeps ==
  ASSUME IndInv, NEW u \in Upgrades, RetireCheck(u) PROVE IndInv'
<1>0. TypeOK /\ Tasked /\ Made /\ Saved /\ Durable /\ Current
  BY DEF IndInv
<1>h. /\ 0 \notin Boxes /\ retire.due \subseteq Upgrades /\ retire.at \in 0 .. MaxBoxes
      /\ worker.pc # "idle" => worker.old \in Boxes /\ box[worker.old].row # "none"
      /\ worker.new # 0 => /\ worker.new \in Boxes /\ box[worker.new].row # "none"
                           /\ worker.new \notin {worker.old, retire.at, sync}
      /\ sync # 0 => sync \in Boxes /\ box[sync].row # "none" /\ box[sync].res = "none"
      /\ worker.pc = "provision" => box[worker.new].res = "none"
      /\ worker.pc \in Copying \cup Restored => worker.pc # "idle" /\ box[worker.old].res # "none"
  BY <1>0, Idle0

<1>g. /\ retire.at = 0 /\ u \in retire.due /\ worker.u # u /\ upgrade[u].st = "succeeded"
      /\ upgrade[u].old \in Boxes /\ box[upgrade[u].old].row = "stopped"
  BY <1>0 DEF RetireCheck, RetireAllowed, Made, Replaces
<1>w. /\ UNCHANGED <<box, upgrade, slot, caller, worker, delivery, probe, sync, acked, lost,
                     fallen, events>>
      /\ retire' = [due |-> retire.due \ {u}, at |-> upgrade[u].old]
  BY DEF RetireCheck, NoFault
<1>r. /\ retire'.due = retire.due \ {u} /\ retire'.at = upgrade[u].old
      /\ retire' \in [due : SUBSET Upgrades, at : 0 .. MaxBoxes]
      /\ \E v \in Upgrades : Succeeded(v) /\ retire'.at = upgrade[v].old
  <2>1. upgrade[u].old \in 0 .. MaxBoxes
    BY <1>0 DEF TypeOK, UpgradeState
  <2> QED
    BY <1>h, <1>g, <1>w, <2>1 DEF Succeeded
<1>x. /\ exempt \subseteq exempt' /\ exempt' \subseteq 1 .. acked
      /\ worker.paused /\ worker.old = upgrade[u].old => box[upgrade[u].old].db \subseteq exempt'
  <2>1. box[upgrade[u].old].db \subseteq 1 .. acked /\ exempt \subseteq 1 .. acked
    BY <1>0, <1>g DEF Made, TypeOK
  <2>2. RetirementDue(upgrade[u].old)
    BY <1>g DEF RetirementDue
  <2> QED
    BY <2>1, <2>2 DEF RetireCheck, LeftToRetire
<1>t. TypeOK'
  BY <1>0, <1>w, <1>r, <1>x DEF TypeOK
<1>q. Tasked'
  BY <1>0, <1>w, TaskedFrame
<1>m. Made'
  <2>1. Creating'
    BY <1>0, <1>h, <1>w, <1>r DEF Made, Creating, Restored, Copying
  <2>2. (\A a \in Boxes : box'[a].db \subseteq 1 .. acked') /\ worker'.backup \subseteq 1 .. acked'
    BY <1>0, <1>w, <1>r DEF Made
  <2>3. Lasting /\ Older
    BY <1>0, <1>h, <1>w, <1>r DEF Lasting, Older
  <2>4. \A v \in Upgrades : Replaces(v)'
    BY <1>0, <2>3, ReplacesFrame
  <2>5. Private'
    BY <1>0, <1>w, <1>r, <2>3, PrivateFrame
  <2> QED
    BY <1>0, <1>h, <1>w, <1>r, <2>1, <2>2, <2>3, <2>4, <2>5, MadeFrame
<1>s. Saved'
  BY <1>0, <1>w, <1>x DEF Saved
<1>d. Durable'
  <2> SUFFICES ASSUME NEW b \in Boxes, Firm(b)
               PROVE  (Firm(b)' /\ box[b].db \subseteq box'[b].db) \/ box[b].db \subseteq exempt'
    BY <1>0, <1>w, <1>x, DurableFrame
  <2>1. CASE b = upgrade[u].old
    BY <1>g, <1>x, <2>1 DEF Firm, Condemned, Succeeded
  <2>2. CASE b # upgrade[u].old
    BY <1>g, <1>w, <1>r, <2>2 DEF Firm, Condemned, Succeeded
  <2> QED
    BY <2>1, <2>2
<1>c. Current'
  <2> SUFFICES ASSUME ~fallen' PROVE Current'
    BY DEF Current
  <2>1. PICK cur \in Boxes : Leads(cur) /\ HandsOver
    BY <1>0, <1>w DEF Current
  <2>2. HandsOver'
    BY <1>0, <1>h, <1>w, <1>r, <1>x, <2>1 DEF HandsOver, Leads, Kept, Restored, Copying, Busy,
      Rows
  <2>3. /\ cur \in Rows' /\ Kept' \subseteq box'[cur].db
        /\ \A b \in Boxes : /\ box[b].row = "gone" => box'[b].row = "gone"
                            /\ b \in Rows' => b \in Rows \/ b = worker.new \/ b <= cur
    BY <1>0, <1>h, <1>w, <1>r, <1>x, <2>1 DEF Leads, Rows, Busy, Kept
  <2>4. Leads(cur)'
    <3>1. Older
      BY <1>w DEF Older
    <3> QED
      BY <1>0, <1>w, <1>r, <1>x, <2>1, <2>3, <3>1, LeadsFrame
  <2> QED
    BY <2>2, <2>4 DEF Current
<1> QED
  BY <1>t, <1>q, <1>m, <1>s, <1>d, <1>c DEF IndInv

(* A retirement that ends condemns nothing.                                *)
LEMMA RetireSkippedKeeps ==
  ASSUME IndInv, NEW u \in Upgrades, RetireSkipped(u) PROVE IndInv'
<1>0. TypeOK /\ Tasked /\ Made /\ Saved /\ Durable /\ Current
  BY DEF IndInv
<1>h. /\ 0 \notin Boxes /\ retire.due \subseteq Upgrades /\ retire.at \in 0 .. MaxBoxes
      /\ worker.pc # "idle" => worker.old \in Boxes /\ box[worker.old].row # "none"
      /\ worker.new # 0 => /\ worker.new \in Boxes /\ box[worker.new].row # "none"
                           /\ worker.new \notin {worker.old, retire.at, sync}
      /\ sync # 0 => sync \in Boxes /\ box[sync].row # "none" /\ box[sync].res = "none"
      /\ worker.pc = "provision" => box[worker.new].res = "none"
      /\ worker.pc \in Copying \cup Restored => worker.pc # "idle" /\ box[worker.old].res # "none"
  BY <1>0, Idle0

<1>w. /\ UNCHANGED <<box, upgrade, slot, caller, worker, delivery, probe, sync, acked,
                     exempt, lost, fallen, events>>
      /\ retire' = [retire EXCEPT !.due = @ \ {u}]
  BY DEF RetireSkipped, NoFault
<1>r. /\ retire'.due = retire.due \ {u} /\ retire'.at = retire.at
      /\ retire' \in [due : SUBSET Upgrades, at : 0 .. MaxBoxes]
  BY <1>0, <1>w DEF TypeOK
<1>t. TypeOK'
  BY <1>0, <1>w, <1>r DEF TypeOK
<1>q. Tasked'
  BY <1>0, <1>w, TaskedFrame
<1>m. Made'
  <2>1. Creating'
    BY <1>0, <1>h, <1>w, <1>r DEF Made, Creating, Restored, Copying
  <2>2. (\A a \in Boxes : box'[a].db \subseteq 1 .. acked') /\ worker'.backup \subseteq 1 .. acked'
    BY <1>0, <1>w, <1>r DEF Made
  <2>3. Lasting /\ Older
    BY <1>0, <1>h, <1>w, <1>r DEF Lasting, Older
  <2>4. \A v \in Upgrades : Replaces(v)'
    BY <1>0, <2>3, ReplacesFrame
  <2>5. Private'
    BY <1>0, <1>w, <1>r, <2>3, PrivateFrame
  <2> QED
    BY <1>0, <1>h, <1>w, <1>r, <2>1, <2>2, <2>3, <2>4, <2>5, MadeFrame
<1>s. Saved'
  BY <1>0, <1>w DEF Saved
<1>d. Durable'
  BY <1>0, <1>w, <1>r, DurableFrame DEF Firm, Condemned, Succeeded
<1>c. Current'
  <2> SUFFICES ASSUME ~fallen' PROVE Current'
    BY DEF Current
  <2>1. PICK cur \in Boxes : Leads(cur) /\ HandsOver
    BY <1>0, <1>w DEF Current
  <2>2. HandsOver'
    BY <1>0, <1>h, <1>w, <1>r, <2>1 DEF HandsOver, Leads, Kept, Restored, Copying, Busy, Rows
  <2>3. /\ cur \in Rows' /\ Kept' \subseteq box'[cur].db
        /\ \A b \in Boxes : /\ box[b].row = "gone" => box'[b].row = "gone"
                            /\ b \in Rows' => b \in Rows \/ b = worker.new \/ b <= cur
    BY <1>0, <1>h, <1>w, <1>r, <2>1 DEF Leads, Rows, Busy, Kept
  <2>4. Leads(cur)'
    <3>1. Older
      BY <1>w DEF Older
    <3> QED
      BY <1>0, <1>w, <1>r, <2>1, <2>3, <3>1, LeadsFrame
  <2> QED
    BY <2>2, <2>4 DEF Current
<1> QED
  BY <1>t, <1>q, <1>m, <1>s, <1>d, <1>c DEF IndInv

(* The deletion takes a condemned box.                                     *)
LEMMA RetireDeleteKeeps ==
  ASSUME IndInv, RetireDelete PROVE IndInv'
<1>0. TypeOK /\ Tasked /\ Made /\ Saved /\ Durable /\ Current
  BY DEF IndInv
<1>h. /\ 0 \notin Boxes /\ retire.due \subseteq Upgrades /\ retire.at \in 0 .. MaxBoxes
      /\ worker.pc # "idle" => worker.old \in Boxes /\ box[worker.old].row # "none"
      /\ worker.new # 0 => /\ worker.new \in Boxes /\ box[worker.new].row # "none"
                           /\ worker.new \notin {worker.old, retire.at, sync}
      /\ sync # 0 => sync \in Boxes /\ box[sync].row # "none" /\ box[sync].res = "none"
      /\ worker.pc = "provision" => box[worker.new].res = "none"
      /\ worker.pc \in Copying \cup Restored => worker.pc # "idle" /\ box[worker.old].res # "none"
  BY <1>0, Idle0

<1>g. /\ retire.at # 0 /\ retire.at \in Boxes /\ box[retire.at].row # "none"
      /\ box[retire.at].res # "none"
  BY <1>0, Held DEF RetireDelete, Made, Retiring
<1>w. UNCHANGED <<upgrade, slot, caller, worker, delivery, probe, sync, acked, exempt, lost,
                  fallen>>
  BY DEF RetireDelete
<1>r. /\ retire'.due = retire.due /\ retire'.at = 0
      /\ retire' \in [due : SUBSET Upgrades, at : 0 .. MaxBoxes]
  BY <1>0, UpgradeConstants DEF RetireDelete, TypeOK
<1>b. /\ box' \in [Boxes -> BoxState] /\ events' \in 0 .. MaxEvents
      /\ box'[retire.at].row = "gone" /\ box'[retire.at].res # "none"
      /\ box'[retire.at].db \subseteq box[retire.at].db
      /\ \A d \in Boxes \ {retire.at} : box'[d] = box[d]
  <2>1. Deleted(retire.at)
    BY DEF RetireDelete
  <2>2. PICK res \in {"gone", box[retire.at].res}, db \in {{}, box[retire.at].db} :
          Moved(retire.at, "gone", res, db)
    BY <1>0, <1>g, <2>1, DeleteMoves
  <2>3. events' \in 0 .. MaxEvents
    BY <1>0, <1>g, <2>1, DeleteMoves
  <2> QED
    BY <1>g, <2>2, <2>3 DEF Moved
<1>t. TypeOK'
  BY <1>0, <1>w, <1>r, <1>b DEF TypeOK
<1>q. Tasked'
  BY <1>0, <1>w, TaskedFrame
<1>m. Made'
  <2>1. Creating'
    BY <1>0, <1>h, <1>g, <1>w, <1>r, <1>b DEF Made, Creating, Restored, Copying
  <2>2. (\A a \in Boxes : box'[a].db \subseteq 1 .. acked') /\ worker'.backup \subseteq 1 .. acked'
    BY <1>0, <1>g, <1>w, <1>r, <1>b DEF Made
  <2>3. Lasting /\ Older
    BY <1>0, <1>h, <1>g, <1>w, <1>r, <1>b DEF Lasting, Older
  <2>4. \A v \in Upgrades : Replaces(v)'
    BY <1>0, <2>3, ReplacesFrame
  <2>5. Private'
    BY <1>0, <1>g, <1>w, <1>r, <1>b, <2>3, PrivateFrame
  <2> QED
    BY <1>0, <1>h, <1>g, <1>w, <1>r, <1>b, <2>1, <2>2, <2>3, <2>4, <2>5, MadeFrame
<1>s. Saved'
  <2>1. \A b \in Boxes : box'[b].db \subseteq box[b].db
    BY <1>b
  <2>2. worker.new # 0 => box'[worker.new] = box[worker.new]
    BY <1>h, <1>b
  <2>3. worker.pc \in Restored \/ (worker.pc = "undo" /\ worker.paused) => worker.new # 0
    BY <1>0 DEF Made, Creating
  <2>4. worker.pc \in Copying \cup Restored \cup {"undo"} => worker.old \in Boxes
    BY <1>h DEF Copying, Restored
  <2> QED
    BY <1>0, <1>w, <2>1, <2>2, <2>3, <2>4 DEF Saved
<1>d. Durable'
  <2>1. \A b \in Boxes : Firm(b) => Firm(b)' /\ box'[b].db = box[b].db
    BY <1>h, <1>w, <1>r, <1>b DEF Firm, Condemned, Succeeded
  <2> QED
    BY <1>0, <1>w, <2>1, DurableFrame
<1>c. Current'
  <2> SUFFICES ASSUME ~fallen' PROVE Current'
    BY DEF Current
  <2>1. PICK cur \in Boxes : Leads(cur) /\ HandsOver
    BY <1>0, <1>w DEF Current
  <2>2. HandsOver'
    <3>1. worker.new # 0 => box'[worker.new] = box[worker.new]
      BY <1>h, <1>b
    <3>2. worker.pc \in {"provision", "restore"} \cup Restored => worker.new # 0
      BY <1>0 DEF Made, Creating
    <3> QED
      BY <1>h, <1>w, <2>1, <3>1, <3>2 DEF HandsOver, Rows, Kept, Restored
  <2>3. /\ cur \in Rows' /\ Kept' \subseteq box'[cur].db
        /\ \A b \in Boxes : /\ box[b].row = "gone" => box'[b].row = "gone"
                            /\ b \in Rows' => b \in Rows \/ b = worker.new \/ b <= cur
    BY <1>0, <1>h, <1>g, <1>w, <1>r, <1>b, <2>1 DEF Leads, Rows, Busy, Kept
  <2>4. Leads(cur)'
    <3>1. Older
      BY <1>w DEF Older
    <3> QED
      BY <1>0, <1>g, <1>w, <1>r, <1>b, <2>1, <2>3, <3>1, LeadsFrame
  <2> QED
    BY <2>2, <2>4 DEF Current
<1> QED
  BY <1>t, <1>q, <1>m, <1>s, <1>d, <1>c DEF IndInv

(* A step of someone else leaves the worker's hand-over alone.             *)
LEMMA HandsOverFrame ==
  ASSUME TypeOK, Tasked, Made, HandsOver, UNCHANGED <<worker, sync>>, Kept' \subseteq Kept,
         \A a \in Boxes : /\ a \in Rows => a \in Rows' /\ box[a].db \subseteq box'[a].db
                          /\ box[a].row = "gone" => box'[a].row = "gone"
                          /\ worker.pc = "provision" /\ a = worker.new => box'[a].row = box[a].row
  PROVE  HandsOver'
<1>1. worker.pc \in {"provision", "restore"} \cup Restored => worker.new # 0
  BY DEF Made, Creating
<1>2. worker.new # 0 => worker.new \in Boxes
  BY Held
<1>3. /\ worker.pc = "provision" => box'[worker.new].row = "creating"
      /\ worker.pc = "undo_old" => worker.new = 0 \/ box'[worker.new].row = "gone"
  BY <1>1, <1>2 DEF HandsOver
<1>4. worker.pc \in {"restore"} \cup Restored => worker.new \in Rows'
  BY <1>1, <1>2 DEF HandsOver
<1>5. worker.pc \in Restored => Kept' \subseteq box'[worker.new].db
  BY <1>1, <1>2 DEF HandsOver
<1> QED
  BY <1>3, <1>4, <1>5 DEF HandsOver

(* What a delivery records of itself.                                      *)
LEMMA DeliverySet ==
  ASSUME TypeOK, NEW d \in Deliveries, NEW r \in DeliveryState,
         delivery' = [delivery EXCEPT ![d] = r]
  PROVE  /\ delivery' \in [Deliveries -> DeliveryState] /\ delivery'[d] = r
         /\ \A e \in Deliveries \ {d} : delivery'[e] = delivery[e]
BY DEF TypeOK

(* A delivery that has ended.                                              *)
LEMMA IdleDeliveryType == IdleDelivery \in DeliveryState /\ IdleDelivery.pc = "idle"
BY UpgradeConstants DEF IdleDelivery, DeliveryState, Statuses

(* A delivery loads the newest row.                                        *)
LEMMA LoadSandboxKeeps ==
  ASSUME IndInv, NEW d \in Deliveries, LoadEmployeeSandbox(d) PROVE IndInv'
<1>0. TypeOK /\ Tasked /\ Made /\ Saved /\ Durable /\ Current
  BY DEF IndInv
<1>h. /\ 0 \notin Boxes /\ retire.due \subseteq Upgrades /\ retire.at \in 0 .. MaxBoxes
      /\ worker.pc # "idle" => worker.old \in Boxes /\ box[worker.old].row # "none"
      /\ worker.new # 0 => /\ worker.new \in Boxes /\ box[worker.new].row # "none"
                           /\ worker.new \notin {worker.old, retire.at, sync}
      /\ sync # 0 => sync \in Boxes /\ box[sync].row # "none" /\ box[sync].res = "none"
      /\ worker.pc = "provision" => box[worker.new].res = "none"
      /\ worker.pc \in Copying \cup Restored => worker.pc # "idle" /\ box[worker.old].res # "none"
  BY <1>0, Idle0

<1>w. UNCHANGED <<box, upgrade, slot, caller, worker, retire, probe, sync, acked, exempt,
                  lost, fallen, events>>
  BY DEF LoadEmployeeSandbox, NoFault
<1>n. PICK n \in Boxes : n = Newest /\ n \in Rows /\ box[n].row # "creating" /\ n \in 0 .. MaxBoxes
  BY NewestType DEF LoadEmployeeSandbox
<1>v. /\ delivery' \in [Deliveries -> DeliveryState] /\ delivery'[d].b = n
      /\ \A e \in Deliveries \ {d} : delivery'[e] = delivery[e]
  <2>1. [pc |-> "loaded", b |-> n, st |-> box[n].row] \in DeliveryState
    BY <1>0, <1>n DEF TypeOK, BoxState, DeliveryState
  <2>2. delivery' = [delivery EXCEPT ![d] = [pc |-> "loaded", b |-> n, st |-> box[n].row]]
    BY <1>n DEF LoadEmployeeSandbox
  <2> QED
    BY <1>0, <2>1, <2>2, DeliverySet
<1>t. TypeOK'
  BY <1>0, <1>w, <1>v DEF TypeOK
<1>q. Tasked'
  BY <1>0, <1>w, TaskedFrame
<1>m. Made'
  <2>1. Creating'
    BY <1>0, <1>h, <1>w, <1>n, <1>v DEF Made, Creating, Restored, Copying
  <2>2. (\A a \in Boxes : box'[a].db \subseteq 1 .. acked') /\ worker'.backup \subseteq 1 .. acked'
    BY <1>0, <1>w, <1>n, <1>v DEF Made
  <2>3. Lasting /\ Older
    BY <1>0, <1>h, <1>w, <1>n, <1>v DEF Lasting, Older
  <2>4. \A v \in Upgrades : Replaces(v)'
    BY <1>0, <2>3, ReplacesFrame
  <2>5. Private'
    BY <1>0, <1>w, <1>n, <1>v, <2>3, PrivateFrame
  <2> QED
    BY <1>0, <1>h, <1>w, <1>n, <1>v, <2>1, <2>2, <2>3, <2>4, <2>5, MadeFrame
<1>s. Saved'
  BY <1>0, <1>w DEF Saved
<1>d. Durable'
  BY <1>0, <1>w, DurableFrame DEF Firm, Condemned, Succeeded
<1>c. Current'
  <2> SUFFICES ASSUME ~fallen' PROVE Current'
    BY DEF Current
  <2>1. PICK cur \in Boxes : Leads(cur) /\ HandsOver
    BY <1>0, <1>w DEF Current
  <2>2. HandsOver'
    BY <1>0, <1>h, <1>w, <2>1 DEF HandsOver, Leads, Kept, Restored, Copying, Busy, Rows
  <2>3. /\ cur \in Rows' /\ Kept' \subseteq box'[cur].db
        /\ \A b \in Boxes : /\ box[b].row = "gone" => box'[b].row = "gone"
                            /\ b \in Rows' => b \in Rows \/ b = worker.new \/ b <= cur
    BY <1>0, <1>h, <1>w, <2>1 DEF Leads, Rows, Busy, Kept
  <2>4. Leads(cur)'
    <3>1. Older
      BY <1>w DEF Older
    <3>2. ~(n = worker.new /\ worker.pc = "provision")
      BY <1>n, <2>1 DEF HandsOver
    <3>3. \A e \in Deliveries : delivery'[e].pc = "loaded" =>
            \/ delivery[e].pc = "loaded" /\ delivery'[e].b = delivery[e].b
            \/ delivery'[e].b \in Rows /\ ~(delivery'[e].b = worker.new /\ worker.pc = "provision")
      BY <1>n, <1>v, <3>2
    <3> QED
      BY <1>0, <1>w, <2>1, <2>3, <3>1, <3>3, LeadsFrame
  <2> QED
    BY <2>2, <2>4 DEF Current
<1> QED
  BY <1>t, <1>q, <1>m, <1>s, <1>d, <1>c DEF IndInv

(* It starts a stopped sandbox, which condemns none.                       *)
LEMMA StartStoppedKeeps ==
  ASSUME IndInv, NEW d \in Deliveries, StartStopped(d) PROVE IndInv'
<1>0. TypeOK /\ Tasked /\ Made /\ Saved /\ Durable /\ Current
  BY DEF IndInv
<1>h. /\ 0 \notin Boxes /\ retire.due \subseteq Upgrades /\ retire.at \in 0 .. MaxBoxes
      /\ worker.pc # "idle" => worker.old \in Boxes /\ box[worker.old].row # "none"
      /\ worker.new # 0 => /\ worker.new \in Boxes /\ box[worker.new].row # "none"
                           /\ worker.new \notin {worker.old, retire.at, sync}
      /\ sync # 0 => sync \in Boxes /\ box[sync].row # "none" /\ box[sync].res = "none"
      /\ worker.pc = "provision" => box[worker.new].res = "none"
      /\ worker.pc \in Copying \cup Restored => worker.pc # "idle" /\ box[worker.old].res # "none"
  BY <1>0, Idle0

<1>w. UNCHANGED <<upgrade, slot, caller, worker, retire, probe, sync, acked, exempt, lost,
                  fallen, events>>
  BY DEF StartStopped, NoFault
<1>n. PICK b \in Boxes : b = delivery[d].b /\ box[b].row # "none"
  BY <1>0 DEF StartStopped, Made, Delivering
<1>l. delivery[d] \in DeliveryState /\ delivery[d].pc = "loaded"
  BY <1>0 DEF TypeOK, StartStopped
<1>b. \/ /\ UNCHANGED box /\ delivery' = [delivery EXCEPT ![d] = IdleDelivery]
      \/ /\ box[b].res # "none" /\ delivery' = [delivery EXCEPT ![d].st = "running"]
         /\ Moved(b, IF box[b].row = "gone" THEN "gone" ELSE "running", "up", box[b].db)
  <2>1. CASE CanStop(b)
    BY <1>0, <1>n, <2>1, StartMoves DEF StartStopped, CanStop
  <2>2. CASE ~CanStop(b)
    BY <1>n, <2>2 DEF StartStopped
  <2> QED
    BY <2>1, <2>2
<1>x. /\ box' \in [Boxes -> BoxState] /\ \A a \in Boxes \ {b} : box'[a] = box[a]
      /\ box'[b].db = box[b].db
      /\ \/ box'[b] = box[b]
         \/ /\ box[b].res # "none" /\ box'[b].res # "none"
            /\ box'[b].row = (IF box[b].row = "gone" THEN "gone" ELSE "running")
  BY <1>0, <1>b DEF Moved, TypeOK
<1>v. /\ delivery' \in [Deliveries -> DeliveryState]
      /\ delivery'[d].pc = "loaded" => delivery'[d].b = delivery[d].b
      /\ \A e \in Deliveries \ {d} : delivery'[e] = delivery[e]
  <2>1. CASE delivery' = [delivery EXCEPT ![d] = IdleDelivery]
    BY <1>0, <2>1, IdleDeliveryType, DeliverySet
  <2>2. CASE delivery' = [delivery EXCEPT ![d].st = "running"]
    <3> DEFINE r == [delivery[d] EXCEPT !.st = "running"]
    <3>1. r \in DeliveryState /\ r.b = delivery[d].b
      BY <1>l DEF DeliveryState, Statuses
    <3>2. delivery' = [delivery EXCEPT ![d] = r]
      BY <2>2
    <3> HIDE DEF r
    <3> QED
      BY <1>0, <3>1, <3>2, DeliverySet
  <2> QED
    BY <1>b, <2>1, <2>2
<1>t. TypeOK'
  BY <1>0, <1>w, <1>x, <1>v DEF TypeOK
<1>q. Tasked'
  BY <1>0, <1>w, TaskedFrame
<1>m. Made'
  <2>1. Creating'
    BY <1>0, <1>h, <1>w, <1>n, <1>l, <1>x, <1>v DEF Made, Creating, Restored, Copying
  <2>2. (\A a \in Boxes : box'[a].db \subseteq 1 .. acked') /\ worker'.backup \subseteq 1 .. acked'
    BY <1>0, <1>w, <1>n, <1>l, <1>x, <1>v DEF Made
  <2>3. Lasting /\ Older
    BY <1>0, <1>h, <1>w, <1>n, <1>l, <1>x, <1>v DEF Lasting, Older
  <2>4. \A v \in Upgrades : Replaces(v)'
    BY <1>0, <2>3, ReplacesFrame
  <2>5. Private'
    BY <1>0, <1>w, <1>n, <1>l, <1>x, <1>v, <2>3, PrivateFrame
  <2> QED
    BY <1>0, <1>h, <1>w, <1>n, <1>l, <1>x, <1>v, <2>1, <2>2, <2>3, <2>4, <2>5, MadeFrame
<1>s. Saved'
  <2>1. \A a \in Boxes : box'[a].db = box[a].db
    BY <1>x
  <2>2. worker.pc \in Restored \/ (worker.pc = "undo" /\ worker.paused) => worker.new \in Boxes
    BY <1>0, <1>h DEF Made, Creating
  <2>3. worker.pc \in Copying \cup Restored \cup {"undo"} => worker.old \in Boxes
    BY <1>h DEF Copying, Restored
  <2> QED
    BY <1>0, <1>w, <2>1, <2>2, <2>3 DEF Saved
<1>d. Durable'
  <2>1. \A a \in Boxes : Firm(a) => Firm(a)' /\ box'[a].db = box[a].db
    BY <1>w, <1>n, <1>x DEF Firm, Condemned, Succeeded
  <2> QED
    BY <1>0, <1>w, <2>1, DurableFrame
<1>c. Current'
  <2> SUFFICES ASSUME ~fallen' PROVE Current'
    BY DEF Current
  <2>1. PICK cur \in Boxes : Leads(cur) /\ HandsOver
    BY <1>0, <1>w DEF Current
  <2>2. HandsOver'
    <3>1. \A a \in Boxes : /\ a \in Rows => a \in Rows' /\ box[a].db \subseteq box'[a].db
                           /\ box[a].row = "gone" => box'[a].row = "gone"
                           /\ worker.pc = "provision" /\ a = worker.new => box'[a].row = box[a].row
      BY <1>h, <1>x DEF Rows
    <3>2. Kept' \subseteq Kept
      BY <1>w DEF Kept
    <3> QED
      BY <1>0, <1>w, <2>1, <3>1, <3>2, HandsOverFrame
  <2>3. /\ cur \in Rows' /\ Kept' \subseteq box'[cur].db
        /\ \A a \in Boxes : /\ box[a].row = "gone" => box'[a].row = "gone"
                            /\ a \in Rows' => a \in Rows \/ a = worker.new \/ a <= cur
    <3>1. cur \in Rows' /\ Kept' \subseteq box'[cur].db
      BY <1>w, <1>x, <2>1 DEF Leads, Rows, Kept
    <3>2. \A a \in Boxes : box[a].row = "gone" => box'[a].row = "gone"
      BY <1>x
    <3>3. b \in Rows' => b = worker.new \/ b <= cur
      <4>1. Reached(b, cur)
        BY <1>n, <1>l, <2>1 DEF Leads
      <4> QED
        BY <1>x, <4>1 DEF Reached, Rows
    <3>4. \A a \in Boxes \ {b} : a \in Rows' => a \in Rows
      BY <1>x DEF Rows
    <3> QED
      BY <3>1, <3>2, <3>3, <3>4
  <2>4. Leads(cur)'
    <3>1. \A e \in Deliveries : delivery'[e].pc = "loaded" =>
            delivery[e].pc = "loaded" /\ delivery'[e].b = delivery[e].b
      BY <1>l, <1>v
    <3>2. Older
      BY <1>w DEF Older
    <3> QED
      BY <1>0, <1>w, <2>1, <2>3, <3>1, <3>2, LeadsFrame
  <2> QED
    BY <2>2, <2>4 DEF Current
<1> QED
  BY <1>t, <1>q, <1>m, <1>s, <1>d, <1>c DEF IndInv

(* A message that nobody accepts                                           *)
LEMMA NotPostedKeeps ==
  ASSUME IndInv, NEW d \in Deliveries, delivery[d].pc = "loaded",
         delivery' = [delivery EXCEPT ![d] = IdleDelivery], NoFault,
         UNCHANGED <<upgrade, slot, caller, worker, retire, probe, sync, lost, fallen>>,
         UNCHANGED <<acked, box, exempt>>
  PROVE IndInv'
<1>0. TypeOK /\ Tasked /\ Made /\ Saved /\ Durable /\ Current
  BY DEF IndInv
<1>h. /\ 0 \notin Boxes /\ retire.due \subseteq Upgrades /\ retire.at \in 0 .. MaxBoxes
      /\ worker.pc # "idle" => worker.old \in Boxes /\ box[worker.old].row # "none"
      /\ worker.new # 0 => /\ worker.new \in Boxes /\ box[worker.new].row # "none"
                           /\ worker.new \notin {worker.old, retire.at, sync}
      /\ sync # 0 => sync \in Boxes /\ box[sync].row # "none" /\ box[sync].res = "none"
      /\ worker.pc = "provision" => box[worker.new].res = "none"
      /\ worker.pc \in Copying \cup Restored => worker.pc # "idle" /\ box[worker.old].res # "none"
  BY <1>0, Idle0

<1>w. UNCHANGED <<box, upgrade, slot, caller, worker, retire, probe, sync, acked, exempt,
                  lost, fallen, events>>
  BY DEF NoFault
<1>v. /\ delivery' \in [Deliveries -> DeliveryState] /\ delivery'[d].pc = "idle"
      /\ \A e \in Deliveries \ {d} : delivery'[e] = delivery[e]
  BY <1>0, IdleDeliveryType, DeliverySet
<1>t. TypeOK'
  BY <1>0, <1>w, <1>v DEF TypeOK
<1>q. Tasked'
  BY <1>0, <1>w, TaskedFrame
<1>m. Made'
  <2>1. Creating'
    BY <1>0, <1>h, <1>w, <1>v DEF Made, Creating, Restored, Copying
  <2>2. (\A a \in Boxes : box'[a].db \subseteq 1 .. acked') /\ worker'.backup \subseteq 1 .. acked'
    BY <1>0, <1>w, <1>v DEF Made
  <2>3. Lasting /\ Older
    BY <1>0, <1>h, <1>w, <1>v DEF Lasting, Older
  <2>4. \A v \in Upgrades : Replaces(v)'
    BY <1>0, <2>3, ReplacesFrame
  <2>5. Private'
    BY <1>0, <1>w, <1>v, <2>3, PrivateFrame
  <2> QED
    BY <1>0, <1>h, <1>w, <1>v, <2>1, <2>2, <2>3, <2>4, <2>5, MadeFrame
<1>s. Saved'
  BY <1>0, <1>w DEF Saved
<1>d. Durable'
  BY <1>0, <1>w, DurableFrame DEF Firm, Condemned, Succeeded
<1>c. Current'
  <2> SUFFICES ASSUME ~fallen' PROVE Current'
    BY DEF Current
  <2>1. PICK cur \in Boxes : Leads(cur) /\ HandsOver
    BY <1>0, <1>w DEF Current
  <2>2. HandsOver'
    BY <1>0, <1>h, <1>w, <2>1 DEF HandsOver, Leads, Kept, Restored, Copying, Busy, Rows
  <2>3. /\ cur \in Rows' /\ Kept' \subseteq box'[cur].db
        /\ \A b \in Boxes : /\ box[b].row = "gone" => box'[b].row = "gone"
                            /\ b \in Rows' => b \in Rows \/ b = worker.new \/ b <= cur
    BY <1>0, <1>h, <1>w, <2>1 DEF Leads, Rows, Busy, Kept
  <2>4. Leads(cur)'
    <3>1. \A e \in Deliveries : delivery'[e].pc = "loaded" =>
            delivery[e].pc = "loaded" /\ delivery'[e].b = delivery[e].b
      BY <1>v
    <3>2. Older
      BY <1>w DEF Older
    <3> QED
      BY <1>0, <1>w, <2>1, <2>3, <3>1, <3>2, LeadsFrame
  <2> QED
    BY <2>2, <2>4 DEF Current
<1> QED
  BY <1>t, <1>q, <1>m, <1>s, <1>d, <1>c DEF IndInv

(* and one that is accepted: kept only by a firm, current sandbox.         *)
LEMMA PostedKeeps ==
  ASSUME IndInv, NEW d \in Deliveries, delivery[d].pc = "loaded",
         delivery' = [delivery EXCEPT ![d] = IdleDelivery], NoFault,
         UNCHANGED <<upgrade, slot, caller, worker, retire, probe, sync, lost, fallen>>,
                     acked < MaxWrites,
         NEW b \in Boxes, b = delivery[d].b, box[b].res = "up", acked' = acked + 1,
         box' = [box EXCEPT ![b].db = @ \cup {acked + 1}],
         exempt' = IF \/ worker.pc \notin {"idle", "backup"} \/ retire.at = b
                      \/ b # Newest \/ box[b].row # "running"
                     THEN exempt \cup {acked + 1} ELSE exempt
  PROVE IndInv'
<1>0. TypeOK /\ Tasked /\ Made /\ Saved /\ Durable /\ Current
  BY DEF IndInv
<1>h. /\ 0 \notin Boxes /\ retire.due \subseteq Upgrades /\ retire.at \in 0 .. MaxBoxes
      /\ worker.pc # "idle" => worker.old \in Boxes /\ box[worker.old].row # "none"
      /\ worker.new # 0 => /\ worker.new \in Boxes /\ box[worker.new].row # "none"
                           /\ worker.new \notin {worker.old, retire.at, sync}
      /\ sync # 0 => sync \in Boxes /\ box[sync].row # "none" /\ box[sync].res = "none"
      /\ worker.pc = "provision" => box[worker.new].res = "none"
      /\ worker.pc \in Copying \cup Restored => worker.pc # "idle" /\ box[worker.old].res # "none"
  BY <1>0, Idle0

<1>w. UNCHANGED <<upgrade, slot, caller, worker, retire, probe, sync, lost, fallen, events>>
  BY DEF NoFault
<1>v. /\ delivery' \in [Deliveries -> DeliveryState] /\ delivery'[d].pc = "idle"
      /\ \A e \in Deliveries \ {d} : delivery'[e] = delivery[e]
  BY <1>0, IdleDeliveryType, DeliverySet
<1>a. /\ acked \in Nat /\ acked' \in 0 .. MaxWrites /\ acked' \in Writes
      /\ 1 .. acked' = (1 .. acked) \cup {acked'}
  BY <1>0, UpgradeConstants DEF TypeOK, Writes
<1>x. /\ box' \in [Boxes -> BoxState] /\ \A a \in Boxes \ {b} : box'[a] = box[a]
      /\ box'[b].row = box[b].row /\ box'[b].res = box[b].res
      /\ box'[b].db = box[b].db \cup {acked'}
  <2>1. box[b].db \cup {acked'} \in SUBSET Writes
    BY <1>0, <1>a DEF TypeOK, BoxState
  <2>2. box' = [box EXCEPT ![b].db = box[b].db \cup {acked'}]
    BY <1>0 DEF TypeOK
  <2>3. Moved(b, box[b].row, box[b].res, box[b].db \cup {acked'})
    BY <1>0, <2>1, <2>2, DbMoves
  <2> QED
    BY <2>3 DEF Moved
<1>k. /\ exempt \subseteq exempt' /\ exempt' \subseteq exempt \cup {acked'}
      /\ acked' \notin 1 .. acked
      /\ acked' \notin exempt' => /\ worker.pc \in {"idle", "backup"} /\ retire.at # b
                                  /\ b = Newest /\ box[b].row = "running"
      /\ Kept' \subseteq Kept \cup {acked'} /\ (acked' \notin Kept' => Kept' \subseteq Kept)
      /\ acked' \in Kept' => acked' \notin exempt'
  <2>1. /\ exempt \subseteq exempt' /\ exempt' \subseteq exempt \cup {acked'}
        /\ acked' \notin exempt' => /\ worker.pc \in {"idle", "backup"} /\ retire.at # b
                                    /\ b = Newest /\ box[b].row = "running"
    OBVIOUS
  <2>2. acked' \notin 1 .. acked
    BY <1>a
  <2> QED
    BY <1>a, <2>1, <2>2 DEF Kept
<1>m0. worker.pc \in {"idle", "backup"} => worker.new = 0
  BY <1>0 DEF Made, Creating
<1>t. TypeOK'
  <2>1. exempt' \subseteq 1 .. acked'
    BY <1>0, <1>a, <1>k DEF TypeOK
  <2> QED
    BY <1>0, <1>w, <1>v, <1>a, <1>x, <2>1 DEF TypeOK
<1>q. Tasked'
  BY <1>0, <1>w, TaskedFrame
<1>m. Made'
  <2>1. Creating'
    BY <1>0, <1>h, <1>w, <1>v, <1>a, <1>x DEF Made, Creating, Restored, Copying
  <2>2. (\A a \in Boxes : box'[a].db \subseteq 1 .. acked') /\ worker'.backup \subseteq 1 .. acked'
    BY <1>0, <1>w, <1>v, <1>a, <1>x DEF Made
  <2>3. Lasting /\ Older
    BY <1>0, <1>h, <1>w, <1>v, <1>a, <1>x DEF Lasting, Older
  <2>4. \A v \in Upgrades : Replaces(v)'
    BY <1>0, <2>3, ReplacesFrame
  <2>5. Private'
    BY <1>0, <1>w, <1>v, <1>a, <1>x, <2>3, PrivateFrame
  <2> QED
    BY <1>0, <1>h, <1>w, <1>v, <1>a, <1>x, <2>1, <2>2, <2>3, <2>4, <2>5, MadeFrame
<1>s. Saved'
  <2>1. worker.pc \in Copying \cup Restored \cup {"undo"} => worker.old \in Boxes /\ acked' \in exempt'
    BY <1>h, <1>k DEF Copying, Restored
  <2>2. \A a \in Boxes : box[a].db \subseteq box'[a].db /\ box'[a].db \subseteq box[a].db \cup {acked'}
    BY <1>x
  <2>3. worker.pc \in Restored \/ (worker.pc = "undo" /\ worker.paused) => worker.new \in Boxes
    BY <1>0, <1>h DEF Made, Creating
  <2>4. worker.pc \in Copying \cup Restored \cup {"undo"} =>
          box'[worker.old].db \ exempt' \subseteq box[worker.old].db \ exempt
    BY <1>k, <2>1, <2>2
  <2> QED
    BY <1>0, <1>w, <2>2, <2>3, <2>4 DEF Saved
<1>d. Durable'
  <2> SUFFICES ASSUME NEW w \in Kept' PROVE \E a \in Boxes : Firm(a)' /\ w \in box'[a].db
    BY DEF Durable
  <2>1. \A a \in Boxes : Firm(a) => Firm(a)'
    BY <1>w, <1>x DEF Firm, Condemned, Succeeded
  <2>2. CASE w \in Kept
    <3>1. PICK a \in Boxes : Firm(a) /\ w \in box[a].db
      BY <1>0, <2>2 DEF Durable
    <3> QED
      BY <1>x, <2>1, <3>1
  <2>3. CASE w = acked' /\ w \in Kept'
    <3>1. worker.new = 0 /\ retire.at # b /\ box[b].row = "running" /\ b # sync
      BY <1>h, <1>k, <1>m0, <2>3
    <3>2. Firm(b)
      BY <1>h, <3>1 DEF Firm, Condemned
    <3> QED
      BY <1>x, <2>1, <2>3, <3>2
  <2> QED
    BY <1>k, <2>2, <2>3
<1>c. Current'
  <2> SUFFICES ASSUME ~fallen' PROVE Current'
    BY DEF Current
  <2>1. PICK cur \in Boxes : Leads(cur) /\ HandsOver
    BY <1>0, <1>w DEF Current
  <2>2. HandsOver'
    <3>1. \A a \in Boxes : /\ a \in Rows => a \in Rows' /\ box[a].db \subseteq box'[a].db
                           /\ box'[a].row = box[a].row
      BY <1>x DEF Rows
    <3>2. CASE Kept' \subseteq Kept
      BY <1>0, <1>w, <2>1, <3>1, <3>2, HandsOverFrame
    <3>3. CASE acked' \in Kept'
      BY <1>w, <1>k, <2>1, <3>3 DEF HandsOver, Copying, Restored
    <3> QED
      BY <1>k, <3>2, <3>3
  <2>3. /\ cur \in Rows' /\ Kept' \subseteq box'[cur].db
        /\ \A a \in Boxes : /\ box[a].row = "gone" => box'[a].row = "gone"
                            /\ a \in Rows' => a \in Rows \/ a = worker.new \/ a <= cur
    <3>1. \A a \in Boxes : box'[a].row = box[a].row /\ (a \in Rows <=> a \in Rows')
      BY <1>x DEF Rows
    <3>2. cur \in Rows /\ Kept \subseteq box[cur].db
      BY <2>1 DEF Leads
    <3>3. Kept' \subseteq box'[cur].db
      <4>1. CASE Kept' \subseteq Kept
        BY <1>x, <3>2, <4>1
      <4>2. CASE acked' \in Kept'
        <5>1. worker.new = 0 /\ b = Newest
          BY <1>k, <1>m0, <4>2
        <5>2. Newest \in Rows /\ cur <= Newest
          BY <3>2, NewestIs
        <5>3. Newest <= cur
          BY <1>h, <2>1, <5>1, <5>2 DEF Leads
        <5>4. b = cur
          BY <5>1, <5>2, <5>3, UpgradeConstants DEF Boxes
        <5> QED
          BY <1>x, <1>k, <3>2, <5>4
      <4> QED
        BY <1>k, <4>1, <4>2
    <3> QED
      BY <3>1, <3>2, <3>3
  <2>4. Leads(cur)'
    <3>1. \A e \in Deliveries : delivery'[e].pc = "loaded" =>
            delivery[e].pc = "loaded" /\ delivery'[e].b = delivery[e].b
      BY <1>v
    <3>2. Older
      BY <1>w DEF Older
    <3> QED
      BY <1>0, <1>w, <2>1, <2>3, <3>1, <3>2, LeadsFrame
  <2> QED
    BY <2>2, <2>4 DEF Current
<1> QED
  BY <1>t, <1>q, <1>m, <1>s, <1>d, <1>c DEF IndInv

(* PostMessage is one of the two.                                          *)
LEMMA PostMessageKeeps == ASSUME IndInv, NEW d \in Deliveries, PostMessage(d) PROVE IndInv'
<1>1. PICK b \in Boxes : b = delivery[d].b
  BY DEF PostMessage, IndInv, Made, Delivering
<1>2. CASE box[b].res = "up" /\ acked < MaxWrites
  <2>1. acked' = acked + 1 /\ box' = [box EXCEPT ![b].db = @ \cup {acked + 1}]
    BY <1>1, <1>2 DEF PostMessage
  <2>2. exempt' = IF \/ worker.pc \notin {"idle", "backup"} \/ retire.at = b
                     \/ b # Newest \/ box[b].row # "running"
                    THEN exempt \cup {acked + 1} ELSE exempt
    BY <1>1, <1>2 DEF PostMessage
  <2>3. /\ delivery[d].pc = "loaded" /\ delivery' = [delivery EXCEPT ![d] = IdleDelivery]
        /\ NoFault
        /\ UNCHANGED <<upgrade, slot, caller, worker, retire, probe, sync, lost, fallen>>
    BY DEF PostMessage
  <2> QED
    BY <1>1, <1>2, <2>1, <2>2, <2>3, PostedKeeps
<1>3. CASE ~(box[b].res = "up" /\ acked < MaxWrites)
  BY <1>1, <1>3, NotPostedKeeps DEF PostMessage
<1> QED
  BY <1>2, <1>3

(* A sync makes a row when there is none                                   *)
LEMMA EnsureKeeps ==
  ASSUME IndInv, EnsureEmployeeSandbox PROVE IndInv'
<1>0. TypeOK /\ Tasked /\ Made /\ Saved /\ Durable /\ Current
  BY DEF IndInv
<1>h. /\ 0 \notin Boxes /\ retire.due \subseteq Upgrades /\ retire.at \in 0 .. MaxBoxes
      /\ worker.pc # "idle" => worker.old \in Boxes /\ box[worker.old].row # "none"
      /\ worker.new # 0 => /\ worker.new \in Boxes /\ box[worker.new].row # "none"
                           /\ worker.new \notin {worker.old, retire.at, sync}
      /\ sync # 0 => sync \in Boxes /\ box[sync].row # "none" /\ box[sync].res = "none"
      /\ worker.pc = "provision" => box[worker.new].res = "none"
      /\ worker.pc \in Copying \cup Restored => worker.pc # "idle" /\ box[worker.old].res # "none"
  BY <1>0, Idle0
<1>n. PICK n \in Boxes : /\ n = NextBox /\ box[n].row = "none"
                         /\ \A d \in Boxes : box[d].row = "none" => n <= d
                         /\ Moved(n, "creating", "none", {})
  <2>1. Unmade # {} /\ NewRow
    BY DEF EnsureEmployeeSandbox
  <2> QED
    BY <1>0, <2>1, NewRowMoves
<1>b. /\ box' \in [Boxes -> BoxState] /\ box'[n].row = "creating" /\ box'[n].res = "none"
      /\ box'[n].db = {} /\ \A d \in Boxes \ {n} : box'[d] = box[d]
  BY <1>n DEF Moved
<1>w. /\ UNCHANGED <<upgrade, slot, caller, worker, retire, delivery, probe, acked, exempt,
                     lost, fallen, events>>
      /\ sync = 0 /\ sync' = n
  BY <1>n DEF EnsureEmployeeSandbox, NoFault
<1>o. /\ worker.pc # "idle" => worker.old # n
      /\ worker.new # n /\ retire.at # n
      /\ \A u \in Upgrades : upgrade[u].st = "succeeded" => upgrade[u].old # n
  BY <1>0, <1>h, <1>n, Held DEF Made, Retiring, Replaces
<1>t. TypeOK'
  <2>1. n \in 0 .. MaxBoxes
    BY UpgradeConstants DEF Boxes
  <2> QED
    BY <1>0, <1>w, <1>b, <2>1 DEF TypeOK
<1>q. Tasked'
  BY <1>0, <1>w, TaskedFrame
<1>m. Made'
  <2>1. Creating'
    <3>1. worker.pc = "provision" => worker.new # 0
      BY <1>0 DEF Made, Creating
    <3> QED
      BY <1>0, <1>h, <1>w, <1>b, <1>o, <3>1 DEF Made, Creating
  <2>2. Private'
    BY <1>0, <1>h, <1>w, <1>b, <1>o DEF Made, Private, Succeeded
  <2>3. Syncing'
    BY <1>w, <1>b DEF Syncing
  <2> QED
    BY <1>0, <1>n, <1>w, <2>1, <2>2, <2>3, MadeNewRow
<1>s. Saved'
  <2>1. worker.pc \in Restored \/ (worker.pc = "undo" /\ worker.paused) => worker.new \in Boxes
    BY <1>0, <1>h DEF Made, Creating
  <2>2. worker.pc \in Copying \cup Restored \cup {"undo"} => worker.old \in Boxes \ {n}
    BY <1>h, <1>o DEF Copying, Restored
  <2> QED
    BY <1>0, <1>w, <1>b, <1>o, <2>1, <2>2 DEF Saved
<1>d. Durable'
  <2>1. \A b \in Boxes : Firm(b) => Firm(b)' /\ box'[b].db = box[b].db
    BY <1>n, <1>w, <1>b DEF Firm, Condemned, Succeeded
  <2> QED
    BY <1>0, <1>w, <2>1, DurableFrame
<1>c. Current'
  <2>1. Rows = {}
    BY <1>h, NewestIs DEF EnsureEmployeeSandbox, Rows
  <2>2. fallen
    BY <1>0, <2>1 DEF Current, Leads
  <2> QED
    BY <1>w, <2>2 DEF Current
<1> QED
  BY <1>t, <1>q, <1>m, <1>s, <1>d, <1>c DEF IndInv

(* and provisions it.                                                      *)
LEMMA SyncProvisionKeeps ==
  ASSUME IndInv, SyncProvision PROVE IndInv'
<1>0. TypeOK /\ Tasked /\ Made /\ Saved /\ Durable /\ Current
  BY DEF IndInv
<1>h. /\ 0 \notin Boxes /\ retire.due \subseteq Upgrades /\ retire.at \in 0 .. MaxBoxes
      /\ worker.pc # "idle" => worker.old \in Boxes /\ box[worker.old].row # "none"
      /\ worker.new # 0 => /\ worker.new \in Boxes /\ box[worker.new].row # "none"
                           /\ worker.new \notin {worker.old, retire.at, sync}
      /\ sync # 0 => sync \in Boxes /\ box[sync].row # "none" /\ box[sync].res = "none"
      /\ worker.pc = "provision" => box[worker.new].res = "none"
      /\ worker.pc \in Copying \cup Restored => worker.pc # "idle" /\ box[worker.old].res # "none"
  BY <1>0, Idle0

<1>w. /\ UNCHANGED <<upgrade, slot, caller, worker, retire, delivery, probe, acked, exempt,
                     lost, fallen>>
      /\ sync # 0 /\ sync' = 0
  BY DEF SyncProvision
<1>b. /\ box' \in [Boxes -> BoxState] /\ events' \in 0 .. MaxEvents
      /\ box'[sync].row # "none" /\ box'[sync].db = {}
      /\ \A d \in Boxes \ {sync} : box'[d] = box[d]
  <2>1. events' \in 0 .. MaxEvents
    BY <1>0, UpgradeConstants DEF SyncProvision, Fault, NoFault, TypeOK
  <2>2. CASE Provisioned(sync)
    <3>1. Moved(sync, "running", "up", {})
      BY <1>0, <1>h, <1>w, <2>2, ProvisionMoves
    <3> QED
      BY <2>1, <3>1 DEF Moved
  <2>3. CASE NotProvisioned(sync)
    <3>1. PICK row \in {"gone", "error"}, res \in {"none", "up"} : Moved(sync, row, res, {})
      BY <1>0, <1>h, <1>w, <2>3, RefusedMoves
    <3> QED
      BY <2>1, <3>1 DEF Moved
  <2> QED
    BY <2>2, <2>3 DEF SyncProvision
<1>t. TypeOK'
  <2>1. sync' \in 0 .. MaxBoxes
    BY <1>w, UpgradeConstants
  <2> QED
    BY <1>0, <1>w, <1>b, <2>1 DEF TypeOK
<1>q. Tasked'
  BY <1>0, <1>w, TaskedFrame
<1>m. Made'
  <2>1. Creating'
    BY <1>0, <1>h, <1>w, <1>b DEF Made, Creating, Restored, Copying
  <2>2. (\A a \in Boxes : box'[a].db \subseteq 1 .. acked') /\ worker'.backup \subseteq 1 .. acked'
    BY <1>0, <1>w, <1>b DEF Made
  <2>3. Lasting /\ Older
    BY <1>0, <1>h, <1>w, <1>b DEF Lasting, Older
  <2>4. \A v \in Upgrades : Replaces(v)'
    BY <1>0, <2>3, ReplacesFrame
  <2>5. Private'
    BY <1>0, <1>w, <1>b, <2>3, PrivateFrame
  <2> QED
    BY <1>0, <1>h, <1>w, <1>b, <2>1, <2>2, <2>3, <2>4, <2>5, MadeFrame
<1>s. Saved'
  <2>1. worker.pc \in Restored \/ (worker.pc = "undo" /\ worker.paused) => worker.new \in Boxes \ {sync}
    BY <1>0, <1>h DEF Made, Creating
  <2>2. worker.pc \in Copying \cup Restored \cup {"undo"} => worker.old \in Boxes
    BY <1>h DEF Copying, Restored
  <2>3. \A b \in Boxes : box'[b].db \subseteq box[b].db
    BY <1>b
  <2> QED
    BY <1>0, <1>w, <1>b, <2>1, <2>2, <2>3 DEF Saved
<1>d. Durable'
  <2>1. \A b \in Boxes : Firm(b) => Firm(b)' /\ box'[b].db = box[b].db
    BY <1>h, <1>w, <1>b DEF Firm, Condemned, Succeeded
  <2> QED
    BY <1>0, <1>w, <2>1, DurableFrame
<1>c. Current'
  <2>1. fallen
    BY <1>0, <1>w DEF Current, HandsOver
  <2> QED
    BY <1>w, <2>1 DEF Current
<1> QED
  BY <1>t, <1>q, <1>m, <1>s, <1>d, <1>c DEF IndInv

(* The health check asks the provider                                      *)
LEMMA ProbeKeeps ==
  ASSUME IndInv, NEW b \in Boxes, ProbeSandbox(b) PROVE IndInv'
<1>0. TypeOK /\ Tasked /\ Made /\ Saved /\ Durable /\ Current
  BY DEF IndInv
<1>h. /\ 0 \notin Boxes /\ retire.due \subseteq Upgrades /\ retire.at \in 0 .. MaxBoxes
      /\ worker.pc # "idle" => worker.old \in Boxes /\ box[worker.old].row # "none"
      /\ worker.new # 0 => /\ worker.new \in Boxes /\ box[worker.new].row # "none"
                           /\ worker.new \notin {worker.old, retire.at, sync}
      /\ sync # 0 => sync \in Boxes /\ box[sync].row # "none" /\ box[sync].res = "none"
      /\ worker.pc = "provision" => box[worker.new].res = "none"
      /\ worker.pc \in Copying \cup Restored => worker.pc # "idle" /\ box[worker.old].res # "none"
  BY <1>0, Idle0

<1>w. UNCHANGED <<box, upgrade, slot, caller, worker, retire, delivery, sync, acked, exempt,
                  lost, fallen, events>>
  BY DEF ProbeSandbox, NoFault
<1>b. /\ box[b].row = "running" /\ b \in Rows /\ probe'.b = b
      /\ probe'.st \in {"stopped", "error"}
      /\ probe' \in [b : 0 .. MaxBoxes, st : {"none", "stopped", "error"}]
  <2>1. b \in 0 .. MaxBoxes
    BY UpgradeConstants DEF Boxes
  <2> QED
    BY <2>1 DEF ProbeSandbox, Rows
<1>t. TypeOK'
  BY <1>0, <1>w, <1>b DEF TypeOK
<1>q. Tasked'
  BY <1>0, <1>w, TaskedFrame
<1>m. Made'
  <2>1. Creating'
    BY <1>0, <1>h, <1>w, <1>b DEF Made, Creating, Restored, Copying
  <2>2. (\A a \in Boxes : box'[a].db \subseteq 1 .. acked') /\ worker'.backup \subseteq 1 .. acked'
    BY <1>0, <1>w, <1>b DEF Made
  <2>3. Lasting /\ Older
    BY <1>0, <1>h, <1>w, <1>b DEF Lasting, Older
  <2>4. \A v \in Upgrades : Replaces(v)'
    BY <1>0, <2>3, ReplacesFrame
  <2>5. Private'
    BY <1>0, <1>w, <1>b, <2>3, PrivateFrame
  <2> QED
    BY <1>0, <1>h, <1>w, <1>b, <2>1, <2>2, <2>3, <2>4, <2>5, MadeFrame
<1>s. Saved'
  BY <1>0, <1>w DEF Saved
<1>d. Durable'
  BY <1>0, <1>w, DurableFrame DEF Firm, Condemned, Succeeded
<1>c. Current'
  <2> SUFFICES ASSUME ~fallen' PROVE Current'
    BY DEF Current
  <2>1. PICK cur \in Boxes : Leads(cur) /\ HandsOver
    BY <1>0, <1>w DEF Current
  <2>2. HandsOver'
    BY <1>0, <1>h, <1>w, <2>1 DEF HandsOver, Leads, Kept, Restored, Copying, Busy, Rows
  <2>3. /\ cur \in Rows' /\ Kept' \subseteq box'[cur].db
        /\ \A a \in Boxes : /\ box[a].row = "gone" => box'[a].row = "gone"
                            /\ a \in Rows' => a \in Rows \/ a = worker.new \/ a <= cur
    BY <1>w, <2>1 DEF Leads, Rows, Kept
  <2>4. Leads(cur)'
    <3>1. Older
      BY <1>w DEF Older
    <3>2. ~(b = worker.new /\ worker.pc = "provision")
      BY <1>b, <2>1 DEF HandsOver
    <3> QED
      BY <1>0, <1>w, <1>b, <2>1, <2>3, <3>1, <3>2, LeadsFrame
  <2> QED
    BY <2>2, <2>4 DEF Current
<1> QED
  BY <1>t, <1>q, <1>m, <1>s, <1>d, <1>c DEF IndInv

(* and writes the answer.                                                  *)
LEMMA RecordHealthKeeps ==
  ASSUME IndInv, RecordHealth PROVE IndInv'
<1>0. TypeOK /\ Tasked /\ Made /\ Saved /\ Durable /\ Current
  BY DEF IndInv
<1>h. /\ 0 \notin Boxes /\ retire.due \subseteq Upgrades /\ retire.at \in 0 .. MaxBoxes
      /\ worker.pc # "idle" => worker.old \in Boxes /\ box[worker.old].row # "none"
      /\ worker.new # 0 => /\ worker.new \in Boxes /\ box[worker.new].row # "none"
                           /\ worker.new \notin {worker.old, retire.at, sync}
      /\ sync # 0 => sync \in Boxes /\ box[sync].row # "none" /\ box[sync].res = "none"
      /\ worker.pc = "provision" => box[worker.new].res = "none"
      /\ worker.pc \in Copying \cup Restored => worker.pc # "idle" /\ box[worker.old].res # "none"
  BY <1>0, Idle0

<1>w. UNCHANGED <<upgrade, slot, caller, worker, retire, delivery, sync, acked, lost, events>>
  BY DEF RecordHealth, NoFault
<1>n. PICK b \in Boxes : b = probe.b /\ box[b].row # "none"
  BY <1>0 DEF RecordHealth, Made, Probing
<1>p. /\ probe # NoProbe /\ probe.st \in {"stopped", "error"} /\ probe' = NoProbe
      /\ probe' \in [b : 0 .. MaxBoxes, st : {"none", "stopped", "error"}]
      /\ fallen' = (fallen \/ probe.st = "error") /\ fallen' \in BOOLEAN
  BY <1>0, UpgradeConstants DEF RecordHealth, Made, Probing, NoProbe
<1>x. /\ box' \in [Boxes -> BoxState] /\ \A a \in Boxes \ {b} : box'[a] = box[a]
      /\ box'[b].row = (IF box[b].row = "gone" THEN "gone" ELSE probe.st)
      /\ box'[b].res = box[b].res /\ box'[b].db = box[b].db
  <2>1. probe.st \in Statuses
    BY <1>p DEF Statuses
  <2>2. box' = [box EXCEPT ![b] = SetRow(b, probe.st)]
    BY <1>n DEF RecordHealth
  <2>3. Moved(b, IF box[b].row = "gone" THEN "gone" ELSE probe.st, box[b].res, box[b].db)
    BY <1>0, <2>1, <2>2, RowMoves
  <2> QED
    BY <2>3 DEF Moved
<1>e. /\ exempt \subseteq exempt' /\ exempt' \subseteq 1 .. acked
      /\ probe.st = "stopped" /\ RetirementDue(b) => box[b].db \subseteq exempt'
  <2>1. box[b].db \subseteq 1 .. acked /\ exempt \subseteq 1 .. acked
    BY <1>0 DEF Made, TypeOK
  <2>2. IF probe.st = "stopped" THEN LeftToRetire(b) ELSE UNCHANGED exempt
    BY <1>n DEF RecordHealth
  <2> QED
    BY <2>1, <2>2 DEF LeftToRetire
<1>t. TypeOK'
  BY <1>0, <1>w, <1>p, <1>x, <1>e DEF TypeOK
<1>q. Tasked'
  BY <1>0, <1>w, TaskedFrame
<1>m. Made'
  <2>1. Creating'
    BY <1>0, <1>h, <1>w, <1>n, <1>p, <1>x DEF Made, Creating, Restored, Copying
  <2>2. (\A a \in Boxes : box'[a].db \subseteq 1 .. acked') /\ worker'.backup \subseteq 1 .. acked'
    BY <1>0, <1>w, <1>n, <1>p, <1>x DEF Made
  <2>3. Lasting /\ Older
    BY <1>0, <1>h, <1>w, <1>n, <1>p, <1>x DEF Lasting, Older
  <2>4. \A v \in Upgrades : Replaces(v)'
    BY <1>0, <2>3, ReplacesFrame
  <2>5. Private'
    BY <1>0, <1>w, <1>n, <1>p, <1>x, <2>3, PrivateFrame
  <2> QED
    BY <1>0, <1>h, <1>w, <1>n, <1>p, <1>x, <2>1, <2>2, <2>3, <2>4, <2>5, MadeFrame
<1>s. Saved'
  <2>1. \A a \in Boxes : box'[a].db = box[a].db
    BY <1>x
  <2>2. worker.pc \in Restored \/ (worker.pc = "undo" /\ worker.paused) => worker.new \in Boxes
    BY <1>0, <1>h DEF Made, Creating
  <2>3. worker.pc \in Copying \cup Restored \cup {"undo"} => worker.old \in Boxes
    BY <1>h DEF Copying, Restored
  <2> QED
    BY <1>0, <1>w, <1>e, <2>1, <2>2, <2>3 DEF Saved
<1>d. Durable'
  <2> SUFFICES ASSUME NEW a \in Boxes, Firm(a)
               PROVE  (Firm(a)' /\ box[a].db \subseteq box'[a].db) \/ box[a].db \subseteq exempt'
    BY <1>0, <1>w, <1>e, DurableFrame
  <2>1. CASE a # b
    BY <1>w, <1>x, <2>1 DEF Firm, Condemned, Succeeded
  <2>2. CASE a = b /\ box'[b].row = "stopped" /\ RetirementDue(b)
    <3>1. box[b].row # "gone" /\ probe.st = "stopped"
      BY <1>x, <2>2
    <3> QED
      BY <1>e, <2>2, <3>1
  <2>3. CASE a = b /\ box'[b].row # "stopped"
    BY <1>w, <1>n, <1>p, <1>x, <2>3 DEF Firm, Condemned
  <2>4. CASE a = b /\ ~RetirementDue(b)
    BY <1>w, <1>n, <1>p, <1>x, <2>4 DEF Firm, Condemned, Succeeded, RetirementDue
  <2> QED
    BY <2>1, <2>2, <2>3, <2>4
<1>c. Current'
  <2> SUFFICES ASSUME ~fallen' PROVE Current'
    BY DEF Current
  <2>1. PICK cur \in Boxes : Leads(cur) /\ HandsOver
    BY <1>0, <1>p DEF Current
  <2>2. HandsOver'
    <3>0. ~(worker.pc = "provision" /\ b = worker.new)
      <4>1. Reached(b, cur)
        BY <1>n, <1>p, <2>1 DEF Leads
      <4> QED
        BY <1>h, <2>1, <4>1, UpgradeConstants DEF Reached, HandsOver, Leads, Boxes
    <3>1. \A a \in Boxes : /\ a \in Rows => a \in Rows' /\ box[a].db \subseteq box'[a].db
                           /\ box[a].row = "gone" => box'[a].row = "gone"
                           /\ worker.pc = "provision" /\ a = worker.new => box'[a].row = box[a].row
      BY <1>p, <1>x, <3>0 DEF Rows
    <3>2. Kept' \subseteq Kept
      BY <1>w, <1>e DEF Kept
    <3> QED
      BY <1>0, <1>w, <2>1, <3>1, <3>2, HandsOverFrame
  <2>3. /\ cur \in Rows' /\ Kept' \subseteq box'[cur].db
        /\ \A a \in Boxes : /\ box[a].row = "gone" => box'[a].row = "gone"
                            /\ a \in Rows' => a \in Rows \/ a = worker.new \/ a <= cur
    <3>1. cur \in Rows' /\ Kept' \subseteq box'[cur].db
      BY <1>w, <1>p, <1>x, <1>e, <2>1 DEF Leads, Rows, Kept
    <3>2. \A a \in Boxes : box[a].row = "gone" => box'[a].row = "gone"
      BY <1>x
    <3>3. b \in Rows' => b = worker.new \/ b <= cur
      <4>1. Reached(b, cur)
        BY <1>n, <1>p, <2>1 DEF Leads
      <4> QED
        BY <1>x, <4>1 DEF Reached, Rows
    <3>4. \A a \in Boxes \ {b} : a \in Rows' => a \in Rows
      BY <1>x DEF Rows
    <3> QED
      BY <3>1, <3>2, <3>3, <3>4
  <2>4. Leads(cur)'
    <3>1. Older
      BY <1>w DEF Older
    <3> QED
      BY <1>0, <1>w, <1>p, <2>1, <2>3, <3>1, LeadsFrame
  <2> QED
    BY <2>2, <2>4 DEF Current
<1> QED
  BY <1>t, <1>q, <1>m, <1>s, <1>d, <1>c DEF IndInv

(* The provider loses a running sandbox.                                   *)
LEMMA ProviderFaultKeeps ==
  ASSUME IndInv, NEW b \in Boxes, ProviderFault(b) PROVE IndInv'
<1>0. TypeOK /\ Tasked /\ Made /\ Saved /\ Durable /\ Current
  BY DEF IndInv
<1>h. /\ 0 \notin Boxes /\ retire.due \subseteq Upgrades /\ retire.at \in 0 .. MaxBoxes
      /\ worker.pc # "idle" => worker.old \in Boxes /\ box[worker.old].row # "none"
      /\ worker.new # 0 => /\ worker.new \in Boxes /\ box[worker.new].row # "none"
                           /\ worker.new \notin {worker.old, retire.at, sync}
      /\ sync # 0 => sync \in Boxes /\ box[sync].row # "none" /\ box[sync].res = "none"
      /\ worker.pc = "provision" => box[worker.new].res = "none"
      /\ worker.pc \in Copying \cup Restored => worker.pc # "idle" /\ box[worker.old].res # "none"
  BY <1>0, Idle0

<1>w. UNCHANGED <<upgrade, slot, caller, worker, retire, delivery, probe, sync, acked,
                  exempt, lost, fallen>>
  BY DEF ProviderFault
<1>e. events' \in 0 .. MaxEvents /\ box[b].res = "up" /\ exempt' = exempt
  BY <1>0, UpgradeConstants DEF ProviderFault, Fault, TypeOK
<1>x. /\ box' \in [Boxes -> BoxState] /\ \A a \in Boxes \ {b} : box'[a] = box[a]
      /\ box'[b].row = box[b].row /\ box'[b].res # "none" /\ box'[b].db = box[b].db
  <2>1. PICK r \in {"down", "broken"} : box' = [box EXCEPT ![b].res = r]
    BY DEF ProviderFault
  <2>2. r \in Resources
    BY DEF Resources
  <2>3. Moved(b, box[b].row, r, box[b].db)
    BY <1>0, <2>1, <2>2, ResMoves
  <2> QED
    BY <2>3 DEF Moved
<1>t. TypeOK'
  BY <1>0, <1>w, <1>e, <1>x DEF TypeOK
<1>q. Tasked'
  BY <1>0, <1>w, TaskedFrame
<1>m. Made'
  <2>1. Creating'
    BY <1>0, <1>h, <1>w, <1>e, <1>x DEF Made, Creating, Restored, Copying
  <2>2. (\A a \in Boxes : box'[a].db \subseteq 1 .. acked') /\ worker'.backup \subseteq 1 .. acked'
    BY <1>0, <1>w, <1>e, <1>x DEF Made
  <2>3. Lasting /\ Older
    BY <1>0, <1>h, <1>w, <1>e, <1>x DEF Lasting, Older
  <2>4. \A v \in Upgrades : Replaces(v)'
    BY <1>0, <2>3, ReplacesFrame
  <2>5. Private'
    BY <1>0, <1>w, <1>e, <1>x, <2>3, PrivateFrame
  <2> QED
    BY <1>0, <1>h, <1>w, <1>e, <1>x, <2>1, <2>2, <2>3, <2>4, <2>5, MadeFrame
<1>s. Saved'
  <2>1. \A a \in Boxes : box'[a].db = box[a].db
    BY <1>x
  <2>2. worker.pc \in Restored \/ (worker.pc = "undo" /\ worker.paused) => worker.new \in Boxes
    BY <1>0, <1>h DEF Made, Creating
  <2>3. worker.pc \in Copying \cup Restored \cup {"undo"} => worker.old \in Boxes
    BY <1>h DEF Copying, Restored
  <2> QED
    BY <1>0, <1>w, <1>e, <2>1, <2>2, <2>3 DEF Saved
<1>d. Durable'
  <2>1. \A a \in Boxes : Firm(a) => Firm(a)' /\ box'[a].db = box[a].db
    BY <1>w, <1>x DEF Firm, Condemned, Succeeded
  <2> QED
    BY <1>0, <1>w, <2>1, DurableFrame
<1>c. Current'
  <2> SUFFICES ASSUME ~fallen' PROVE Current'
    BY DEF Current
  <2>1. PICK cur \in Boxes : Leads(cur) /\ HandsOver
    BY <1>0, <1>w DEF Current
  <2>2. HandsOver'
    <3>1. \A a \in Boxes : /\ a \in Rows => a \in Rows' /\ box[a].db \subseteq box'[a].db
                           /\ box'[a].row = box[a].row
      BY <1>x DEF Rows
    <3>2. Kept' \subseteq Kept
      BY <1>w DEF Kept
    <3> QED
      BY <1>0, <1>w, <2>1, <3>1, <3>2, HandsOverFrame
  <2>3. /\ cur \in Rows' /\ Kept' \subseteq box'[cur].db
        /\ \A a \in Boxes : /\ box[a].row = "gone" => box'[a].row = "gone"
                            /\ a \in Rows' => a \in Rows \/ a = worker.new \/ a <= cur
    <3>1. \A a \in Boxes : box'[a].row = box[a].row /\ box'[a].db = box[a].db
      BY <1>x
    <3> QED
      BY <1>w, <2>1, <3>1 DEF Leads, Rows, Kept
  <2>4. Leads(cur)'
    <3>1. Older
      BY <1>w DEF Older
    <3> QED
      BY <1>0, <1>w, <2>1, <2>3, <3>1, LeadsFrame
  <2> QED
    BY <2>2, <2>4 DEF Current
<1> QED
  BY <1>t, <1>q, <1>m, <1>s, <1>d, <1>c DEF IndInv
-----------------------------------------------------------------------------
(* The inductive invariant and the theorems.                               *)
LEMMA InitInd == Init => IndInv
<1> SUFFICES ASSUME Init PROVE IndInv
  OBVIOUS
<1>c. /\ 1 \in Boxes /\ 0 \notin Boxes /\ 0 \in 0 .. MaxBoxes /\ 0 \in 0 .. MaxUpgrades
      /\ Boxes \subseteq Nat
  BY UpgradeConstants DEF Boxes
<1>b. /\ box \in [Boxes -> BoxState]
      /\ box[1].row = "running" /\ box[1].res = "up" /\ \A b \in Boxes : box[b].db = {}
      /\ \A b \in Boxes \ {1} : box[b].row = "none"
  BY <1>c DEF Init, NoBox, BoxState, Statuses, Resources
<1>w. /\ worker \in WorkerState /\ worker.pc = "idle" /\ worker.u = 0 /\ worker.old = 0
      /\ worker.new = 0 /\ worker.backup = {} /\ ~worker.paused
  BY <1>c DEF Init, IdleWorker, WorkerState
<1>u. upgrade \in [Upgrades -> UpgradeState] /\ \A u \in Upgrades : upgrade[u].st = "none"
  BY <1>c DEF Init, NoUpgrade, UpgradeState
<1>s. slot \in SlotState /\ slot.st = "free"
  BY <1>c DEF Init, FreeSlot, SlotState
<1>d. delivery \in [Deliveries -> DeliveryState] /\ \A d \in Deliveries : delivery[d].pc = "idle"
  BY IdleDeliveryType DEF Init
<1>a. caller \in [Callers -> CallerState] /\ \A c \in Callers : caller[c].pc = "idle"
  BY <1>c DEF Init, CallerState
<1>r. /\ retire \in [due : SUBSET Upgrades, at : 0 .. MaxBoxes] /\ retire.due = {}
      /\ retire.at = 0
      /\ probe \in [b : 0 .. MaxBoxes, st : {"none", "stopped", "error"}] /\ probe = NoProbe
      /\ sync = 0 /\ acked = 0 /\ exempt = {} /\ lost = {} /\ ~fallen /\ fallen \in BOOLEAN
      /\ events = 0
  BY <1>c DEF Init, NoProbe
<1>1. TypeOK
  BY <1>b, <1>w, <1>u, <1>s, <1>d, <1>a, <1>r, UpgradeConstants DEF TypeOK
<1>2. Tasked
  BY <1>w, <1>u, <1>s, <1>a DEF Tasked, Busy, ActiveUpgradeIsDriven, ActiveUpgrades, ActiveStatus
<1>3. Made
  <2>1. Numbered
    <3> SUFFICES ASSUME NEW b \in Boxes, NEW d \in Boxes, box[b].row = "none", b < d
                 PROVE  box[d].row = "none"
      BY DEF Numbered
    <3>1. b # 1
      BY <1>b
    <3>2. d # 1
      BY <1>c, <3>1, UpgradeConstants DEF Boxes
    <3> QED
      BY <1>b, <3>2
  <2>2. Retiring /\ Syncing /\ Probing /\ Private
    BY <1>w, <1>r DEF Retiring, Syncing, Probing, Private
  <2>3. Creating
    BY <1>w DEF Creating, Restored, Copying
  <2> QED
    BY <1>b, <1>w, <1>u, <1>d, <2>1, <2>2, <2>3 DEF Made, Replaces, Succeeded, Delivering
<1>4. Saved
  BY <1>w DEF Saved, Copying, Restored
<1>5. Kept = {}
  BY <1>r DEF Kept
<1>6. Durable
  BY <1>5 DEF Durable
<1>7. Current
  <2>1. 1 \in Rows /\ \A b \in Rows : b = 1
    BY <1>b, <1>c DEF Rows
  <2>2. Leads(1)
    BY <1>w, <1>u, <1>d, <1>r, <1>5, <2>1 DEF Leads, Busy, Succeeded
  <2>3. HandsOver
    BY <1>w, <1>r DEF HandsOver, Restored, Copying
  <2> QED
    BY <1>c, <2>2, <2>3 DEF Current
<1> QED
  BY <1>1, <1>2, <1>3, <1>4, <1>6, <1>7 DEF IndInv

(* Every step keeps the inductive invariant.                               *)
LEMMA IndStep == IndInv /\ [Next]_vars => IndInv'
<1> SUFFICES ASSUME IndInv, [Next]_vars PROVE IndInv'
  OBVIOUS
<1>1. CASE UNCHANGED vars
  BY <1>1 DEF vars, IndInv, TypeOK, Tasked, Busy, ActiveUpgradeIsDriven, ActiveUpgrades, Made,
    Numbered, Replaces, Succeeded, Retiring, Syncing, Probing, Delivering, Creating, Private,
    Saved, Durable, Kept, Firm, Condemned, Current, HandsOver, Leads, Reached, Rows
<1>2. ASSUME NEW c \in Callers, CallerStep(c) \/ EnqueueFails(c) \/ CallerCrashes(c) PROVE IndInv'
  BY <1>2, CheckKeeps, ClearKeeps, CreateUpgradeKeeps, EnqueueKeeps, EnqueueFailsKeeps,
    CallerCrashKeeps DEF CallerStep
<1>3. CASE WorkerStep
  BY <1>3, LoadAndStartKeeps, BackupKeeps, CreateRowKeeps, ProvisionKeeps, RestoreKeeps,
    StopNewKeeps, StartNewKeeps, SyncRuntimeKeeps, PauseOldKeeps, ScheduleKeeps,
    MarkSucceededKeeps, PhaseFailsKeeps, UndoNewKeeps, UndoOldKeeps DEF WorkerStep
<1>4. CASE WorkerCrashes \/ WorkerTimesOut
  BY <1>4, CrashKeeps, TimeoutKeeps
<1>5. ASSUME NEW u \in Upgrades, RetireCheck(u) \/ RetireSkipped(u) PROVE IndInv'
  BY <1>5, RetireCheckKeeps, RetireSkippedKeeps
<1>6. ASSUME NEW d \in Deliveries, DeliveryStep(d) PROVE IndInv'
  BY <1>6, LoadSandboxKeeps, StartStoppedKeeps, PostMessageKeeps DEF DeliveryStep
<1>7. CASE RetireDelete \/ EnsureEmployeeSandbox \/ SyncProvision \/ RecordHealth
  BY <1>7, RetireDeleteKeeps, EnsureKeeps, SyncProvisionKeeps, RecordHealthKeeps
<1>8. ASSUME NEW b \in Boxes, ProbeSandbox(b) \/ ProviderFault(b) PROVE IndInv'
  BY <1>8, ProbeKeeps, ProviderFaultKeeps
<1> QED
  BY <1>1, <1>2, <1>3, <1>4, <1>5, <1>6, <1>7, <1>8 DEF Next

(* So it always holds.                                                     *)
LEMMA IndInvHolds == Spec => []IndInv
BY InitInd, IndStep, PTL DEF Spec

(* The variables keep their types, and the queue calls the task active     *)
(* exactly while its worker runs, whatever fails, crashes or races.        *)
THEOREM TypeCorrect == Spec => []TypeOK
<1>1. IndInv => TypeOK
  BY DEF IndInv
<1> QED
  BY <1>1, IndInvHolds, PTL

(* No upgrade that StartSandboxUpgrade queued is left to block the next    *)
(* one: a request, its task or the worker will settle it, unless a racing  *)
(* request deleted its task or its process died.                           *)
THEOREM ActiveUpgradeIsDrivenHolds == Spec => []ActiveUpgradeIsDriven
<1>1. IndInv => ActiveUpgradeIsDriven
  BY DEF IndInv, Tasked
<1> QED
  BY <1>1, IndInvHolds, PTL

(* Neither run(), its rollback, a timeout nor retire() destroys the only   *)
(* copy of a message a runtime accepted outside an upgrade and a           *)
(* retirement, with any number of sandboxes, upgrades and faults.          *)
THEOREM AcceptedIsDurableHolds == Spec => []AcceptedIsDurable
<1>1. IndInv => AcceptedIsDurable
  BY DEF IndInv, Durable, AcceptedIsDurable
<1> QED
  BY <1>1, IndInvHolds, PTL

(* Between upgrades the sandbox that deliver() loads has every such        *)
(* message, unless a health check, a crash, a timeout or a late racing     *)
(* upgrade changed which sandbox is current.                               *)
THEOREM CurrentHasEverythingHolds == Spec => []CurrentHasEverything
<1>1. ASSUME IndInv PROVE CurrentHasEverything
  <2> SUFFICES ASSUME worker.pc = "idle", ~fallen, Newest # 0 PROVE Kept \subseteq box[Newest].db
    BY DEF CurrentHasEverything
  <2>1. PICK cur \in Boxes : Leads(cur)
    BY <1>1 DEF IndInv, Current
  <2>2. Newest \in Rows /\ Newest \in Boxes /\ worker.new = 0 /\ 0 \notin Boxes
    BY <1>1, NewestType, UpgradeConstants DEF IndInv, Made, Creating, Boxes
  <2>3. cur <= Newest /\ Newest <= cur
    BY <2>1, <2>2, NewestIs DEF Leads
  <2>4. cur = Newest
    BY <2>2, <2>3, UpgradeConstants DEF Boxes
  <2> QED
    BY <2>1, <2>4 DEF Leads
<1> QED
  BY <1>1, IndInvHolds, PTL
=============================================================================
