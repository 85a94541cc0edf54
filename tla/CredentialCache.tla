-------------------------- MODULE CredentialCache ---------------------------
(***************************************************************************)
(* One LLM credential behind the proxy: the three-tier cache that resolves *)
(* it (internal/cache), the director that uses and wipes the key           *)
(* (internal/proxy/director.go), the seeding that rotates it               *)
(* (internal/credentials/global_llm_seed.go), the handler that revokes it  *)
(* (internal/handler/credentials_revoke.go) and the invalidations that     *)
(* travel over Redis pub/sub.                                              *)
(*                                                                         *)
(* A key is the number of its version.  A step is one call of Postgres,    *)
(* Redis or the KMS, or one operation on a pod's memory.                   *)
(***************************************************************************)
EXTENDS Naturals, FiniteSets

CONSTANTS
  Pods,        \* control-plane instances, each with its memory tiers
  AdminPods,   \* the ones that rotate and revoke
  Requests,    \* proxied requests that may be in flight at once
  NoRequest,
  MemTTL,      \* Config.MemTTL, in ticks
  HardExpiry,  \* Config.HardExpiry
  RedisTTL,    \* Config.RedisTTL
  MaxVersion,  \* bound: key versions the seeding writes
  MaxFaults    \* bound: lost messages, failed calls, cancelled requests, evictions

ASSUME CacheConstants ==
  /\ NoRequest \notin Requests /\ AdminPods \subseteq Pods
  /\ MemTTL \in Nat \ {0} /\ HardExpiry \in Nat \ {0} /\ RedisTTL \in Nat \ {0}
  /\ MaxVersion \in Nat \ {0} /\ MaxFaults \in Nat

VARIABLES
  row,     \* the committed credentials row: version of the key, revoked_at
  redis,   \* L2: version and age of the entry
  l1,      \* L1 of each pod: version and age of the entry
  req,     \* the requests
  flight,  \* singleflight: the request that resolves for each pod
  wiped,   \* requests whose result buffer was zeroed while another request still holds it
  admin,   \* the seeding or the revocation that is running
  inbox,   \* pods with an undelivered invalidation message
  faults   \* what MaxFaults bounds

vars == <<row, redis, l1, req, flight, wiped, admin, inbox, faults>>
-----------------------------------------------------------------------------
Versions == 1 .. MaxVersion
Life == IF HardExpiry < MemTTL THEN HardExpiry ELSE MemTTL
Empty == [ver |-> 0, age |-> 0]          \* version 0: no entry
Entry(v) == [ver |-> v, age |-> 0]
\* Mutant: an entry outlives its TTL.
OlderLate(e, ttl) == IF e.ver = 0 \/ e.age >= ttl THEN Empty ELSE [e EXCEPT !.age = @ + 1]
Older(e, ttl) == IF e.ver = 0 \/ e.age + 1 >= ttl THEN Empty ELSE [e EXCEPT !.age = @ + 1]

\* buf: the request whose buffer the key returned to this one is in
IdleReq == [pc |-> "idle", pod |-> "none", ver |-> 0, buf |-> NoRequest]
IdleAdmin == [pc |-> "idle", op |-> "none", pod |-> "none", ver |-> 0]
\* The key is in the buffer of b; its version and the pod play no further part
HasKey(b) == [IdleReq EXCEPT !.pc = "attach", !.buf = b]
Resolving == {"redis", "db", "store", "promote"}

Fault == faults < MaxFaults /\ faults' = faults + 1
NoFault == UNCHANGED faults

Init ==
  /\ row = [ver |-> 1, revoked |-> FALSE]
  /\ redis = Empty
  /\ l1 = [p \in Pods |-> Empty]
  /\ req = [r \in Requests |-> IdleReq]
  /\ flight = [p \in Pods |-> NoRequest]
  /\ wiped = {}
  /\ admin = IdleAdmin
  /\ inbox = {}
  /\ faults = 0
-----------------------------------------------------------------------------
(* A request: GetDecryptedCredentialByID, then the tiers.                  *)

Goto(r, pc) == req' = [req EXCEPT ![r].pc = pc]
Pod(r) == req[r].pod

\* The row is read first, whatever the caches hold; a revoked one ends the request
ById(r, p) ==
  /\ req[r].pc = "idle" /\ ~row.revoked
  /\ \A q \in Requests : req[q].buf # r
  /\ req' = [req EXCEPT ![r] = [IdleReq EXCEPT !.pc = "l1", !.pod = p]]
  /\ NoFault
  /\ UNCHANGED <<row, redis, l1, flight, wiped, admin, inbox>>

\* The key of an L1 hit is a copy of its own; a miss leads the pod's flight or joins it
LookupL1(r) ==
  LET p == Pod(r) IN
  /\ req[r].pc = "l1"
  /\ \/ /\ l1[p].ver # 0
        /\ req' = [req EXCEPT ![r] = HasKey(r)]
        /\ UNCHANGED flight
     \/ /\ l1[p].ver = 0 /\ flight[p] = NoRequest
        /\ Goto(r, "redis")
        /\ flight' = [flight EXCEPT ![p] = r]
     \/ /\ l1[p].ver = 0 /\ flight[p] # NoRequest
        /\ Goto(r, "wait")
        /\ UNCHANGED flight
  /\ NoFault
  /\ UNCHANGED <<row, redis, l1, wiped, admin, inbox>>

\* singleflight hands one result, buffer included, to the leader and all who joined
Shares(r) == {q \in Requests : q = r \/ (req[q].pc = "wait" /\ Pod(q) = Pod(r))}
Returned(r) ==
  /\ req' = [q \in Requests |->
               IF q \in Shares(r) THEN HasKey(r) ELSE req[q]]
  /\ flight' = [flight EXCEPT ![Pod(r)] = NoRequest]

\* Mutant: those who joined the flight are not told.
FailedAlone(r) ==
  /\ req' = [req EXCEPT ![r] = IdleReq]
  /\ flight' = [flight EXCEPT ![Pod(r)] = NoRequest]

Failed(r) ==
  /\ req' = [q \in Requests |-> IF q \in Shares(r) THEN IdleReq ELSE req[q]]
  /\ flight' = [flight EXCEPT ![Pod(r)] = NoRequest]

\* Mutant: a hit renews the TTL.
SlidingRedis(r) ==
  /\ req[r].pc = "redis"
  /\ IF redis.ver = 0
       THEN Goto(r, "db") /\ UNCHANGED redis
       ELSE /\ req' = [req EXCEPT ![r] = [@ EXCEPT !.pc = "promote", !.ver = redis.ver]]
            /\ redis' = Entry(redis.ver)
  /\ NoFault
  /\ UNCHANGED <<row, l1, flight, wiped, admin, inbox>>

\* resolveFromLowerTiers.  decryptWithDEKCache is abstracted to its result: a cached DEK of
\* another version does not decrypt and is replaced through the KMS
ReadRedis(r) ==
  /\ req[r].pc = "redis"
  /\ IF redis.ver = 0
       THEN Goto(r, "db")
       ELSE req' = [req EXCEPT ![r] = [@ EXCEPT !.pc = "promote", !.ver = redis.ver]]
  /\ NoFault
  /\ UNCHANGED <<row, redis, l1, flight, wiped, admin, inbox>>

\* Redis cannot be read, or the KMS refuses: the entry is dropped if it was read
ReadRedisFails(r) ==
  /\ req[r].pc = "redis" /\ Fault
  /\ Goto(r, "db")
  /\ \/ UNCHANGED redis
     \/ redis.ver # 0 /\ redis' = Empty
  /\ UNCHANGED <<row, l1, flight, wiped, admin, inbox>>

\* resolveFromDB
ReadDB(r) ==
  /\ req[r].pc = "db"
  /\ IF row.revoked
       THEN Failed(r)
       ELSE /\ req' = [req EXCEPT ![r] = [@ EXCEPT !.pc = "store", !.ver = row.ver]]
            /\ UNCHANGED flight
  /\ NoFault
  /\ UNCHANGED <<row, redis, l1, wiped, admin, inbox>>

\* The error of redisCache.Set is dropped
StoreRedis(r) ==
  /\ req[r].pc = "store"
  /\ \/ redis' = Entry(req[r].ver) /\ NoFault
     \/ UNCHANGED redis /\ Fault
  /\ Goto(r, "promote")
  /\ UNCHANGED <<row, l1, flight, wiped, admin, inbox>>

PromoteToL1(r) ==
  /\ req[r].pc = "promote"
  /\ l1' = [l1 EXCEPT ![Pod(r)] = Entry(req[r].ver)]
  /\ Returned(r)
  /\ NoFault
  /\ UNCHANGED <<row, redis, wiped, admin, inbox>>

\* Postgres or the KMS fails, or the leader's own client goes away: every joiner fails with it
FlightFails(r) ==
  /\ req[r].pc \in Resolving
  /\ Failed(r)
  /\ Fault
  /\ UNCHANGED <<row, redis, l1, wiped, admin, inbox>>

\* The director: AttachAuth copies the buffer into the outbound request, then the director zeroes it
AttachAndWipe(r) ==
  /\ req[r].pc = "attach"
  /\ wiped' = IF \E q \in Requests \ {r} : req[q].buf = req[r].buf
               THEN wiped \cup {req[r].buf} ELSE wiped \ {req[r].buf}
  /\ req' = [req EXCEPT ![r] = IdleReq]
  /\ NoFault
  /\ UNCHANGED <<row, redis, l1, flight, admin, inbox>>
-----------------------------------------------------------------------------
(* The seeding writes the row in a transaction that commits after the      *)
(* invalidation; the handler revokes first and invalidates then.           *)

SeedUpdate(p) ==
  /\ admin.pc = "idle" /\ row.ver < MaxVersion
  /\ admin' = [pc |-> "local", op |-> "seed", pod |-> p, ver |-> row.ver + 1]
  /\ NoFault
  /\ UNCHANGED <<row, redis, l1, req, flight, wiped, inbox>>

Revoke(p) ==
  /\ admin.pc = "idle" /\ ~row.revoked
  /\ row' = [row EXCEPT !.revoked = TRUE]
  /\ admin' = [pc |-> "local", op |-> "revoke", pod |-> p, ver |-> row.ver]
  /\ NoFault
  /\ UNCHANGED <<redis, l1, req, flight, wiped, inbox>>

\* InvalidateCredential: the pod's own tiers, then Redis, then the other pods
InvalidateLocal ==
  /\ admin.pc = "local"
  /\ l1' = [l1 EXCEPT ![admin.pod] = Empty]
  /\ admin' = [admin EXCEPT !.pc = "redis"]
  /\ NoFault
  /\ UNCHANGED <<row, redis, req, flight, wiped, inbox>>

\* A failed DEL returns before the publication; the callers drop the error
InvalidateRedis ==
  /\ admin.pc = "redis"
  /\ \/ redis' = Empty /\ admin' = [admin EXCEPT !.pc = "publish"] /\ NoFault
     \/ UNCHANGED redis /\ admin' = [admin EXCEPT !.pc = "end"] /\ Fault
  /\ UNCHANGED <<row, l1, req, flight, wiped, inbox>>

\* A pod that is not subscribed at that moment misses the message
Publish ==
  /\ admin.pc = "publish"
  /\ \/ inbox' = Pods /\ NoFault
     \/ \E missed \in SUBSET Pods \ {{}} : inbox' = inbox \cup (Pods \ missed) /\ Fault
  /\ admin' = [admin EXCEPT !.pc = "end"]
  /\ UNCHANGED <<row, redis, l1, req, flight, wiped>>

\* The seeding commits (a revoked credential is live again) or rolls back
Finish ==
  /\ admin.pc = "end"
  /\ \/ admin.op = "revoke" /\ UNCHANGED row /\ NoFault
     \/ admin.op = "seed" /\ row' = [ver |-> admin.ver, revoked |-> FALSE] /\ NoFault
     \/ admin.op = "seed" /\ UNCHANGED row /\ Fault
  /\ admin' = IdleAdmin
  /\ UNCHANGED <<redis, l1, req, flight, wiped, inbox>>

\* Invalidator.Subscribe
Receive(p) ==
  /\ p \in inbox
  /\ inbox' = inbox \ {p}
  /\ l1' = [l1 EXCEPT ![p] = Empty]
  /\ NoFault
  /\ UNCHANGED <<row, redis, req, flight, wiped, admin>>

\* A full LRU drops an entry
Evict(p) ==
  /\ l1[p].ver # 0 /\ l1' = [l1 EXCEPT ![p] = Empty]
  /\ Fault
  /\ UNCHANGED <<row, redis, req, flight, wiped, admin, inbox>>

Tick ==
  /\ redis.ver # 0 \/ \E p \in Pods : l1[p].ver # 0
  /\ redis' = Older(redis, RedisTTL)
  /\ l1' = [p \in Pods |-> Older(l1[p], Life)]
  /\ NoFault
  /\ UNCHANGED <<row, req, flight, wiped, admin, inbox>>
-----------------------------------------------------------------------------
RequestStep(r) == \/ LookupL1(r) \/ ReadRedis(r) \/ ReadDB(r) \/ StoreRedis(r)
                  \/ PromoteToL1(r) \/ AttachAndWipe(r)
AdminStep == InvalidateLocal \/ InvalidateRedis \/ Publish \/ Finish

Next ==
  \/ \E r \in Requests : \/ \E p \in Pods : ById(r, p)
                         \/ RequestStep(r) \/ ReadRedisFails(r) \/ FlightFails(r)
  \/ \E p \in AdminPods : SeedUpdate(p) \/ Revoke(p)
  \/ \E p \in Pods : Receive(p) \/ Evict(p)
  \/ AdminStep
  \/ Tick

\* Calls return, the subscriber's loop runs and time passes
Fairness == /\ \A r \in Requests : WF_vars(RequestStep(r))
            /\ WF_vars(AdminStep)
            /\ \A p \in Pods : WF_vars(Receive(p))
            /\ WF_vars(Tick)

Spec == Init /\ [][Next]_vars /\ Fairness
-----------------------------------------------------------------------------
\* singleflight leaves no one behind: a request that waits, waits for a flight that a
\* request of its pod still leads, also when the leader failed or its client went away.
WaitersAreLed == \A r \in Requests : req[r].pc = "wait" => flight[Pod(r)] # NoRequest

\* The types of the variables; a pod's flight is led by the request that resolves there
\* (Manager.flight) as long as anybody waits for it, and no entry outlives its expiry.
TypeOK ==
  /\ row \in [ver : Versions, revoked : BOOLEAN]
  /\ redis \in [ver : 0 .. MaxVersion, age : 0 .. RedisTTL - 1]
  /\ l1 \in [Pods -> [ver : 0 .. MaxVersion, age : 0 .. Life - 1]]
  /\ req \in [Requests -> [pc : Resolving \cup {"idle", "l1", "wait", "attach"},
                           pod : Pods \cup {"none"}, ver : 0 .. MaxVersion,
                           buf : Requests \cup {NoRequest}]]
  /\ \A p \in Pods : \A r \in Requests :
       (flight[p] = r) <=> (Pod(r) = p /\ req[r].pc \in Resolving)
  /\ WaitersAreLed
  /\ wiped \subseteq Requests
  /\ admin \in [pc : {"idle", "local", "redis", "publish", "end"}, op : {"none", "seed", "revoke"},
                pod : Pods \cup {"none"}, ver : 0 .. MaxVersion]
  /\ inbox \subseteq Pods /\ faults \in 0 .. MaxFaults

Fresh == \A e \in {redis} \cup {l1[p] : p \in Pods} : e.ver # 0 => e.ver = row.ver /\ ~row.revoked

\* A replaced or revoked key leaves every tier of every pod for good, also when
\* its invalidation is lost, fails, comes before the commit of the rotation or is
\* overtaken by a lookup that read the row earlier: what is left of it in Redis
\* and what lookups promote from there is bounded by the two expiries.
StaleKeysDieOut == <>[]Fresh

\* A lookup that was started ends: no request waits for ever on a flight that is
\* gone, whichever way the leader's lookup ended.
LookupsEnd == \A r \in Requests : (req[r].pc # "idle") ~> (req[r].pc = "idle")

\* Every caller gets the credential the cache manager resolved: the key that goes
\* upstream was not zeroed by another request it was shared with.
KeyReachesUpstream == \A r \in Requests : req[r].pc = "attach" => req[r].buf \notin wiped
=============================================================================
