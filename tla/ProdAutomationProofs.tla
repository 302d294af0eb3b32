-------------------------- MODULE ProdAutomationProofs --------------------------
(* What holds of ProdAutomation for every value of its constants. *)
EXTENDS ProdAutomation, TLAPS

(***************************************************************************)
(* The invariant.  Everything the automation still has to bring to the     *)
(* cloud (the release of the running sync, those of requests the server    *)
(* still works on, the pending one) is the oldest release on the disk, and *)
(* no release on the disk is older than the live one.  That is why a late  *)
(* or repeated activation never takes the cloud back.                      *)
(***************************************************************************)
Front(r) == r \in disk /\ \A d \in disk : d >= r

Saving(p) == pc[p] \in {"save_open", "save_fill"}

\* No pending release, or one that a run was told to pass by.
Cleared == pending = None \/ skipped

Numbered ==
    /\ live \in 0 .. built
    /\ disk \subseteq 1 .. built
    /\ pending \in (0 .. built) \cup {Torn}

Ordered ==
    /\ \A d \in disk : d >= live
    /\ \A q \in late : Front(q.rel)
    /\ pending \in disk => Front(pending)

Remembered ==
    crashes = 0 => \/ unsynced <= live
                   \/ pending # Torn /\ unsynced <= pending
                   \/ \E p \in Procs : Saving(p)

\* What a process knows at each place of main().
Local(p) ==
    /\ pc[p] \in {"pipeline", "prune"} => Cleared
    /\ pc[p] = "prune" => rel[p] = built /\ built \in disk /\ late = {} /\ ~retrying[p]
    /\ Calling(p) => Front(rel[p])
    /\ Calling(p) => IF retrying[p] THEN pending = rel[p] ELSE Cleared
    /\ pc[p] = "unlink" => pending = rel[p] /\ live >= rel[p]
    /\ Saving(p) => Front(rel[p]) /\ unsynced = rel[p]

Shared == Numbered /\ Ordered /\ PendingIsOnDisk /\ Remembered

IInv == TypeOK /\ OneRunAtATime /\ Shared /\ \A p \in Procs : Local(p)

-----------------------------------------------------------------------------
LEMMA InitInv == Init => IInv
<1> SUFFICES ASSUME Init PROVE IInv
    OBVIOUS
<1>1. TypeOK
  <2>1. 0 \in 0 .. MaxReleases /\ 0 \in 0 .. MaxFaults /\ 0 \in 0 .. MaxCrashes
      BY BoundAssumption
  <2>2. QED
      BY <2>1 DEF Init, TypeOK, Steps
<1>2. OneRunAtATime
    BY DEF Init, OneRunAtATime, Running
<1>3. Shared
    BY DEF Init, Shared, Numbered, Ordered, PendingIsOnDisk, Remembered, None
<1>4. \A p \in Procs : Local(p)
    BY DEF Init, Local, Calling, Saving
<1>5. QED
    BY <1>1, <1>2, <1>3, <1>4 DEF IInv

(***************************************************************************)
(* What a step does to the cloud.                                          *)
(***************************************************************************)
LEMMA ServesType ==
    ASSUME TypeOK, NEW q \in Request, Serves(q)
    PROVE  /\ uploaded' \subseteq Releases
           /\ {live', previous'} \subseteq Releases \cup {None}
BY DEF TypeOK, Serves, Upload, Activate, Request, cloud

\* Serving the oldest release on the disk keeps the order.
LEMMA ServesOrder ==
    ASSUME TypeOK, Numbered, Ordered, NEW q \in Request, Front(q.rel), Serves(q)
    PROVE  /\ live' >= live /\ live' \in 0 .. built
           /\ \A d \in disk : d >= live'
           /\ q.kind = "activate" => live' = q.rel
BY BoundAssumption
   DEF TypeOK, Numbered, Ordered, Front, Serves, Upload, Activate, Request, Releases, None

LEMMA CallType ==
    ASSUME IInv, NEW p \in Procs, Calling(p)
    PROVE  Call(p) \in Request /\ Front(rel[p]) /\ Call(p).rel = rel[p]
           /\ Call(p).kind = pc[p]
BY DEF IInv, TypeOK, Shared, Numbered, Local, Front, Calling, Call, Request, Releases

-----------------------------------------------------------------------------
(* One run at a time. *)
LEMMA MutexNext == TypeOK /\ OneRunAtATime /\ [Next]_vars => OneRunAtATime'
<1> SUFFICES ASSUME TypeOK, OneRunAtATime, [Next]_vars PROVE OneRunAtATime'
    OBVIOUS
<1> USE DEF TypeOK, OneRunAtATime, Running, Goto
<1>1. ASSUME NEW p \in Procs, NEW skip \in BOOLEAN, Start(p, skip) PROVE OneRunAtATime'
    BY <1>1 DEF Start
<1>2. ASSUME NEW p \in Procs, Stop(p) PROVE OneRunAtATime'
    BY <1>2 DEF Stop
<1>3. ASSUME NEW p \in Procs, Crash(p) PROVE OneRunAtATime'
    BY <1>3 DEF Crash, local
<1>4. CASE RemoveStaleLock
    BY <1>4 DEF RemoveStaleLock, process
<1>5. ASSUME NEW p \in Procs, pc[p] # "idle", UNCHANGED lock,
             \A q \in Procs \ {p} : pc'[q] = pc[q]
      PROVE  OneRunAtATime'
    BY <1>5
<1>6. ASSUME NEW p \in Procs, Run(p) \/ SyncFails(p) \/ SyncAbandons(p) PROVE OneRunAtATime'
  <2>1. CASE Stop(p) BY <2>1, <1>2
  <2>2. CASE ~Stop(p)
    <3>1. pc[p] # "idle" /\ UNCHANGED lock
        BY <1>6, <2>2 DEF Run, ReadPending, Unlink, Pipeline, Prune, Sync, SavePending,
                          SyncFails, SyncAbandons, Calling, local
    <3>2. \A q \in Procs \ {p} : pc'[q] = pc[q]
        BY <1>6, <2>2 DEF Run, ReadPending, Unlink, Pipeline, Prune, Sync, SavePending,
                          SyncFails, SyncAbandons, Raise
    <3>3. QED
        BY <1>5, <3>1, <3>2
  <2>3. QED BY <2>1, <2>2
<1>7. CASE ServeLate
    BY <1>7 DEF ServeLate, local, process
<1>8. CASE UNCHANGED vars
    BY <1>8 DEF vars, local, process
<1>9. QED
    BY <1>1, <1>3, <1>4, <1>6, <1>7, <1>8 DEF Next

-----------------------------------------------------------------------------
(* Types. *)
LEMMA TypeNext == IInv /\ [Next]_vars => TypeOK'
<1> SUFFICES ASSUME IInv, [Next]_vars PROVE TypeOK'
    OBVIOUS
<1>0. TypeOK
    BY DEF IInv
<1> USE <1>0, BoundAssumption DEF Goto, Steps
<1>1. ASSUME NEW p \in Procs, NEW skip \in BOOLEAN, Start(p, skip) PROVE TypeOK'
    BY <1>1 DEF TypeOK, Start, cloud, budget
<1>2. ASSUME NEW p \in Procs, Stop(p) PROVE TypeOK'
    BY <1>2 DEF TypeOK, Stop, cloud, budget, observers
<1>3. ASSUME NEW p \in Procs, ReadPending(p) PROVE TypeOK'
    BY <1>3 DEF TypeOK, ReadPending, local, cloud, budget, observers
<1>4. ASSUME NEW p \in Procs, Unlink(p) PROVE TypeOK'
    BY <1>4 DEF TypeOK, Unlink, cloud, budget, observers
<1>5. ASSUME NEW p \in Procs, Pipeline(p) PROVE TypeOK'
  <2>1. CASE Goto(p, "stop") /\ UNCHANGED <<disk, built, rel, retrying>>
      BY <1>5, <2>1 DEF TypeOK, Pipeline, cloud, budget, observers
  <2>2. CASE /\ built < MaxReleases
             /\ built' = built + 1
             /\ disk' = disk \cup {built'}
             /\ rel' = [rel EXCEPT ![p] = built']
             /\ retrying' = [retrying EXCEPT ![p] = FALSE]
             /\ Goto(p, "prune")
    <3>1. built' \in Releases /\ built' \in 0 .. MaxReleases
        BY <2>2 DEF TypeOK, Releases
    <3>2. QED
        BY <1>5, <2>2, <3>1 DEF TypeOK, Pipeline, cloud, budget, observers
  <2>3. QED BY <1>5, <2>1, <2>2 DEF Pipeline
<1>6. ASSUME NEW p \in Procs, Prune(p) PROVE TypeOK'
    BY <1>6 DEF TypeOK, Prune, cloud, budget, observers
<1>7. ASSUME NEW p \in Procs, Calling(p), Raise(p)
      PROVE  pc' \in [Procs -> Steps] /\ unsynced' \in Releases \cup {None}
    BY <1>7 DEF TypeOK, Raise
<1>8. ASSUME NEW p \in Procs, Sync(p) PROVE TypeOK'
  <2>1. Calling(p) BY <1>8 DEF Sync
  <2>2. UNCHANGED <<local, rel, retrying, late, budget, skipped>> BY <1>8 DEF Sync
  <2>3. CASE Serves(Call(p)) /\ UNCHANGED unsynced
            /\ Goto(p, IF pc[p] = "upload" THEN "activate"
                       ELSE IF retrying[p] THEN "unlink" ELSE "stop")
    <3>1. /\ uploaded' \subseteq Releases
          /\ {live', previous'} \subseteq Releases \cup {None}
        BY <2>1, <2>3, CallType, ServesType
    <3>2. QED
        BY <2>2, <2>3, <3>1 DEF TypeOK, local, budget
  <2>4. CASE Refuses(Call(p)) /\ Raise(p)
      BY <2>1, <2>2, <2>4, <1>7 DEF TypeOK, Refuses, local, cloud, budget
  <2>5. QED BY <1>8, <2>3, <2>4 DEF Sync
<1>9. ASSUME NEW p \in Procs, SavePending(p) PROVE TypeOK'
  <2>1. CASE pc[p] = "save_open"
      BY <1>9, <2>1 DEF TypeOK, SavePending, cloud, budget, observers
  <2>2. CASE pc[p] = "save_fill"
      BY <1>9, <2>2 DEF TypeOK, SavePending, cloud, budget, observers
  <2>3. QED BY <1>9, <2>1, <2>2 DEF SavePending
<1>10. ASSUME NEW p \in Procs, SyncFails(p) PROVE TypeOK'
  <2>1. Calling(p) /\ Raise(p) BY <1>10 DEF SyncFails
  <2>2. QED
      BY <1>10, <1>7, <2>1 DEF TypeOK, SyncFails, Breaks, local, cloud
<1>11. ASSUME NEW p \in Procs, SyncAbandons(p) PROVE TypeOK'
  <2>1. Calling(p) /\ Raise(p) BY <1>11 DEF SyncAbandons
  <2>2. late' \subseteq Request
      BY <1>11, <2>1, CallType DEF TypeOK, SyncAbandons
  <2>3. QED
      BY <1>11, <1>7, <2>1, <2>2 DEF TypeOK, SyncAbandons, local, cloud
<1>12. ASSUME NEW p \in Procs, Crash(p) PROVE TypeOK'
  <2>1. late' \subseteq Request
      BY <1>12, CallType DEF TypeOK, Crash
  <2>2. QED
      BY <1>12, <2>1 DEF TypeOK, Crash, local, cloud, observers
<1>13. CASE ServeLate
  <2>1. PICK q \in late : late' = late \ {q} /\ (Serves(q) \/ Refuses(q))
      BY <1>13 DEF ServeLate
  <2>2. q \in Request BY DEF TypeOK
  <2>3. /\ uploaded' \subseteq Releases
        /\ {live', previous'} \subseteq Releases \cup {None}
      BY <2>1, <2>2, ServesType DEF Refuses, TypeOK, cloud
  <2>4. QED
      BY <1>13, <2>1, <2>3 DEF TypeOK, ServeLate, local, process, budget, observers
<1>14. CASE RemoveStaleLock
    BY <1>14 DEF TypeOK, RemoveStaleLock, process, cloud, budget, observers
<1>15. CASE UNCHANGED vars
    BY <1>15 DEF TypeOK, vars, local, process, cloud, budget, observers
<1>16. QED
    BY <1>1, <1>2, <1>3, <1>4, <1>5, <1>6, <1>8, <1>9, <1>10, <1>11, <1>12, <1>13,
       <1>14, <1>15 DEF Next, Run

-----------------------------------------------------------------------------
(* The order of releases. *)

\* A process that is not running knows nothing.
LEMMA IdleLocal ==
    ASSUME NEW p \in Procs, pc'[p] = "idle"
    PROVE  Local(p)'
BY DEF Local, Calling, Saving

\* While a process runs, no other does.
LEMMA OthersIdle ==
    ASSUME OneRunAtATime, NEW p \in Procs, pc[p] # "idle" \/ lock = FALSE
    PROVE  \A q \in Procs \ {p} : pc[q] = "idle"
BY DEF OneRunAtATime, Running

\* The facts of IInv that every step uses, as numbers.
LEMMA Numbers ==
    ASSUME TypeOK, Numbered
    PROVE  /\ built \in Nat /\ live \in Nat /\ unsynced \in Nat
           /\ disk \subseteq Nat
           /\ pending \in Nat \cup {Torn}
           /\ \A p \in Procs : rel[p] \in Nat
BY DEF TypeOK, Numbered, Releases, None

LEMMA OrderNext ==
    IInv /\ [Next]_vars => Shared' /\ \A p \in Procs : Local(p)'
<1> SUFFICES ASSUME IInv, [Next]_vars PROVE Shared' /\ \A p \in Procs : Local(p)'
    OBVIOUS
<1>0. TypeOK /\ OneRunAtATime /\ Numbered /\ Ordered /\ PendingIsOnDisk /\ Remembered
        /\ \A p \in Procs : Local(p)
    BY DEF IInv, Shared
<1>n. /\ built \in Nat /\ live \in Nat /\ unsynced \in Nat
      /\ disk \subseteq Nat
      /\ pending \in Nat \cup {Torn}
      /\ \A p \in Procs : rel[p] \in Nat
    BY <1>0, Numbers
<1>p. pc \in [Procs -> Steps] /\ rel \in [Procs -> Releases \cup {None}]
        /\ retrying \in [Procs -> BOOLEAN]
    BY <1>0 DEF TypeOK
<1> DEFINE Good(p) == Shared' /\ Local(p)'
<1> USE <1>0, <1>n, <1>p, TornAssumption
        DEF Shared, Numbered, Ordered, PendingIsOnDisk, Remembered, Local, Cleared,
            Front, Goto, None
<1>1. ASSUME NEW p \in Procs, NEW skip \in BOOLEAN, Start(p, skip) PROVE Good(p)
  <2>1. \A q \in Procs : pc[q] = "idle"
      BY <1>1, OthersIdle DEF Start
  <2>2. pc'[p] \in {"read", "pipeline"} /\ (pc'[p] = "pipeline" => Cleared')
      BY <1>1 DEF Start
  <2>3. ~\E q \in Procs : Saving(q)
      BY <2>1 DEF Saving
  <2>4. Shared'
      BY <1>1, <2>3 DEF Start, cloud, budget
  <2>5. Local(p)'
      BY <2>2 DEF Calling, Saving
  <2>6. QED BY <2>4, <2>5
<1>2. ASSUME NEW p \in Procs, Stop(p) PROVE Good(p)
  <2>1. \A q \in Procs : ~Saving(q)
      BY <1>2, OthersIdle DEF Stop, Saving
  <2>2. Shared'
      BY <1>2, <2>1 DEF Stop, cloud, budget, observers
  <2>3. QED
      BY <1>2, <2>2, IdleLocal DEF Stop
<1>3. ASSUME NEW p \in Procs, ReadPending(p) PROVE Good(p)
  <2>1. \A q \in Procs : ~Saving(q)
      BY <1>3, OthersIdle DEF ReadPending, Saving
  <2>2. Shared'
      BY <1>3, <2>1 DEF ReadPending, local, cloud, budget, observers
  <2>3. Local(p)'
      BY <1>3 DEF ReadPending, local, cloud, budget, observers, Calling, Saving
  <2>4. QED BY <2>2, <2>3
<1>4. ASSUME NEW p \in Procs, Unlink(p) PROVE Good(p)
  <2>1. \A q \in Procs : ~Saving(q)
      BY <1>4, OthersIdle DEF Unlink, Saving
  <2>2. pending = rel[p] /\ live >= rel[p] /\ pending' = None
      BY <1>4 DEF Unlink
  <2>3. crashes = 0 => unsynced <= live
      BY <2>1, <2>2
  <2>4. Shared'
      BY <1>4, <2>2, <2>3 DEF Unlink, cloud, budget, observers
  <2>5. Local(p)'
      BY <1>4 DEF Unlink, cloud, budget, observers, Calling, Saving
  <2>6. QED BY <2>4, <2>5
<1>5. ASSUME NEW p \in Procs, Pipeline(p) PROVE Good(p)
  <2>1. \A q \in Procs : ~Saving(q)
      BY <1>5, OthersIdle DEF Pipeline, Saving
  <2>2. Cleared /\ late = {} /\ UNCHANGED <<lock, pending, cloud, late, budget, observers>>
      BY <1>5 DEF Pipeline
  <2>3. CASE Goto(p, "stop") /\ UNCHANGED <<disk, built, rel, retrying>>
    <3>1. Shared'
        BY <2>1, <2>2, <2>3 DEF cloud, budget, observers
    <3>2. Local(p)'
        BY <2>3 DEF Calling, Saving
    <3>3. QED BY <3>1, <3>2
  <2>4. CASE /\ built < MaxReleases
             /\ built' = built + 1
             /\ disk' = disk \cup {built'}
             /\ rel' = [rel EXCEPT ![p] = built']
             /\ retrying' = [retrying EXCEPT ![p] = FALSE]
             /\ Goto(p, "prune")
    <3>1. Numbered' /\ Remembered'
        BY <2>1, <2>2, <2>4 DEF cloud, budget, observers
    <3>2. Ordered'
      <4>1. \A d \in disk' : d >= live'
          BY <2>2, <2>4 DEF cloud
      <4>2. pending' \in disk' => Front(pending)'
          BY <2>2, <2>4
      <4>3. QED BY <2>2, <4>1, <4>2
    <3>3. PendingIsOnDisk'
        BY <2>2, <2>4 DEF observers
    <3>4. Local(p)'
        BY <2>2, <2>4 DEF Calling, Saving, observers
    <3>5. QED BY <3>1, <3>2, <3>3, <3>4
  <2>5. QED BY <1>5, <2>3, <2>4 DEF Pipeline
<1>6. ASSUME NEW p \in Procs, Prune(p) PROVE Good(p)
  <2>1. \A q \in Procs : ~Saving(q)
      BY <1>6, OthersIdle DEF Prune, Saving
  <2>2. /\ Cleared /\ late = {} /\ rel[p] = built /\ built \in disk /\ ~retrying[p]
        /\ UNCHANGED <<lock, pending, built, rel, retrying, cloud, late, budget, observers>>
      BY <1>6 DEF Prune
  <2>3. disk' = {built}
    <3>1. disk' = {r \in disk : {s \in disk : s > r} = {}}
        BY <1>6 DEF Prune, Newer
    <3>2. \A s \in disk : ~(s > built)
        OBVIOUS
    <3>3. \A r \in disk : r # built => built > r
        OBVIOUS
    <3>4. built \in disk'
        BY <2>2, <3>1, <3>2
    <3>5. ASSUME NEW r \in disk' PROVE r = built
        BY <2>2, <3>1, <3>3, <3>5
    <3>6. QED
        BY <3>4, <3>5, Zenon
  <2>4. pc'[p] \in {"upload", "stop"}
      BY <1>6 DEF Prune
  <2>5. Shared'
      BY <2>1, <2>2, <2>3 DEF cloud, budget, observers
  <2>6. Local(p)'
      BY <2>2, <2>3, <2>4 DEF Calling, Saving, observers
  <2>7. QED BY <2>5, <2>6
<1>7. ASSUME NEW p \in Procs, Calling(p), Raise(p), UNCHANGED <<local, rel, retrying, skipped>>
      PROVE  Local(p)' /\ Remembered'
  <2>1. CASE retrying[p]
      BY <1>7, <2>1 DEF Raise, local, Calling, Saving
  <2>2. CASE ~retrying[p]
      BY <1>7, <2>2 DEF Raise, local, Calling, Saving
  <2>3. QED BY <2>1, <2>2
<1>8. ASSUME NEW p \in Procs, Sync(p) PROVE Good(p)
  <2>1. Calling(p) /\ UNCHANGED <<local, rel, retrying, late, budget, skipped>>
      BY <1>8 DEF Sync
  <2>2. \A q \in Procs : ~Saving(q)
      BY <2>1, OthersIdle DEF Calling, Saving
  <2>3. CASE Serves(Call(p)) /\ UNCHANGED unsynced
            /\ Goto(p, IF pc[p] = "upload" THEN "activate"
                       ELSE IF retrying[p] THEN "unlink" ELSE "stop")
    <3>1. /\ live' >= live /\ live' \in 0 .. built
          /\ \A d \in disk : d >= live'
          /\ pc[p] = "activate" => live' = rel[p]
      <4>1. Call(p) \in Request /\ Front(rel[p]) /\ Call(p).rel = rel[p]
               /\ Call(p).kind = pc[p]
          BY <2>1, CallType
      <4>2. QED
          BY <2>3, <4>1, ServesOrder
    <3>2. Shared'
        BY <2>1, <2>2, <2>3, <3>1 DEF local, budget
    <3>3. Local(p)'
        BY <2>1, <2>3, <3>1 DEF local, Calling, Saving
    <3>4. QED BY <3>2, <3>3
  <2>4. CASE Refuses(Call(p)) /\ Raise(p)
      BY <2>1, <2>4, <1>7 DEF Refuses, local, cloud, budget
  <2>5. QED BY <1>8, <2>3, <2>4 DEF Sync
<1>9. ASSUME NEW p \in Procs, SavePending(p) PROVE Good(p)
  <2>1. Front(rel[p]) /\ unsynced = rel[p]
      BY <1>9 DEF SavePending, Saving
  <2>2. UNCHANGED <<lock, disk, built, rel, retrying, cloud, late, budget, observers>>
      BY <1>9 DEF SavePending
  <2>3. CASE pc[p] = "save_open"
    <3>1. pending' = Torn /\ pc'[p] = "save_fill"
        BY <1>9, <2>3 DEF SavePending
    <3>2. QED
        BY <2>1, <2>2, <3>1 DEF cloud, budget, observers, Calling, Saving
  <2>4. CASE pc[p] = "save_fill"
    <3>1. pending' = rel[p] /\ pc'[p] = "stop"
        BY <1>9, <2>4 DEF SavePending
    <3>2. QED
        BY <2>1, <2>2, <3>1 DEF cloud, budget, observers, Calling, Saving
  <2>5. QED BY <1>9, <2>3, <2>4 DEF SavePending
<1>10. ASSUME NEW p \in Procs, SyncFails(p) PROVE Good(p)
  <2>1. Calling(p) /\ Raise(p) /\ UNCHANGED <<local, rel, retrying, late, crashes, skipped>>
      BY <1>10 DEF SyncFails
  <2>2. live' = live
      BY <1>10 DEF SyncFails, Breaks, cloud
  <2>3. QED BY <2>1, <2>2, <1>7 DEF local
<1>11. ASSUME NEW p \in Procs, SyncAbandons(p) PROVE Good(p)
  <2>1. Calling(p) /\ Raise(p) /\ UNCHANGED <<local, rel, retrying, cloud, crashes, skipped>>
      BY <1>11 DEF SyncAbandons
  <2>2. \A q \in late' : Front(q.rel)
      BY <1>11, <2>1, CallType DEF SyncAbandons
  <2>3. QED BY <2>1, <2>2, <1>7 DEF local, cloud
<1>12. ASSUME NEW p \in Procs, Crash(p) PROVE Good(p)
  <2>1. UNCHANGED <<local, cloud, faults, observers>> /\ crashes' = crashes + 1 /\ pc'[p] = "idle"
      BY <1>12 DEF Crash
  <2>2. \A q \in late' : Front(q.rel)
      BY <1>12, CallType DEF Crash
  <2>3. crashes' # 0
      BY <2>1 DEF TypeOK
  <2>4. QED
      BY <2>1, <2>2, <2>3, IdleLocal DEF local, cloud, observers
<1>13. CASE ServeLate
  <2>1. PICK q \in late : late' = late \ {q} /\ (Serves(q) \/ Refuses(q))
      BY <1>13 DEF ServeLate
  <2>2. q \in Request BY DEF TypeOK
  <2>3. /\ live' >= live /\ live' \in 0 .. built
        /\ \A d \in disk : d >= live'
    <3>1. CASE Serves(q) BY <2>2, <3>1, ServesOrder
    <3>2. CASE Refuses(q) BY <3>2 DEF Refuses, cloud
    <3>3. QED BY <2>1, <3>1, <3>2
  <2>4. UNCHANGED <<local, process, budget, observers>>
      BY <1>13 DEF ServeLate
  <2>5. Shared'
      BY <2>1, <2>3, <2>4 DEF local, process, budget, observers, Saving
  <2>6. ASSUME NEW p \in Procs PROVE Local(p)'
      BY <2>1, <2>3, <2>4 DEF local, process, observers, Calling, Saving
  <2>7. QED BY <2>5, <2>6
<1>14. CASE RemoveStaleLock
  <2>1. Shared'
      BY <1>14 DEF RemoveStaleLock, process, cloud, budget, observers, Saving
  <2>2. QED
      BY <1>14, <2>1, IdleLocal DEF RemoveStaleLock, process
<1>15. CASE UNCHANGED vars
    BY <1>15 DEF vars, local, process, cloud, budget, observers, Calling, Saving
<1>16. ASSUME NEW p \in Procs, NEW q \in Procs \ {p}, NEW skip \in BOOLEAN,
              Start(p, skip) \/ Run(p) \/ SyncFails(p) \/ SyncAbandons(p) \/ Crash(p)
       PROVE  Local(q)'
  <2>1. pc[p] # "idle" \/ lock = FALSE
      BY <1>16 DEF Start, Run, Stop, ReadPending, Unlink, Pipeline, Prune, Sync,
                   SavePending, SyncFails, SyncAbandons, Crash, Calling
  <2>2. pc'[q] = pc[q]
      BY <1>16 DEF Start, Run, Stop, ReadPending, Unlink, Pipeline, Prune, Sync,
                   SavePending, SyncFails, SyncAbandons, Crash, Raise
  <2>3. pc[q] = "idle"
      BY <2>1, OthersIdle
  <2>4. QED BY <2>2, <2>3, IdleLocal
<1>17. ASSUME NEW p \in Procs, NEW skip \in BOOLEAN,
              Start(p, skip) \/ Run(p) \/ SyncFails(p) \/ SyncAbandons(p) \/ Crash(p)
       PROVE  Good(p)
    BY <1>17, <1>1, <1>2, <1>3, <1>4, <1>5, <1>6, <1>8, <1>9, <1>10, <1>11, <1>12 DEF Run
<1> HIDE <1>0, <1>n, <1>p
         DEF Shared, Numbered, Ordered, PendingIsOnDisk, Remembered, Local, Cleared,
             Front, Goto, None
<1>18. QED
  <2>1. ASSUME NEW p \in Procs,
               (\E skip \in BOOLEAN : Start(p, skip)) \/ Run(p) \/ SyncFails(p)
                   \/ SyncAbandons(p) \/ Crash(p)
        PROVE  Shared' /\ \A q \in Procs : Local(q)'
    <3>1. PICK skip \in BOOLEAN :
              Start(p, skip) \/ Run(p) \/ SyncFails(p) \/ SyncAbandons(p) \/ Crash(p)
        BY <2>1
    <3>2. Shared' /\ Local(p)'
        BY <3>1, <1>17
    <3>3. ASSUME NEW q \in Procs \ {p} PROVE Local(q)'
        BY <3>1, <1>16
    <3>4. QED BY <3>2, <3>3
  <2>2. QED
      BY <2>1, <1>13, <1>14, <1>15 DEF Next

-----------------------------------------------------------------------------
LEMMA Inductive == IInv /\ [Next]_vars => IInv'
BY TypeNext, MutexNext, OrderNext DEF IInv

\* Type correctness of the automation and of the cloud as it sees it.
THEOREM TypeCorrect == Spec => []TypeOK
<1>1. IInv => TypeOK
    BY DEF IInv
<1>2. QED
    BY InitInv, Inductive, <1>1, PTL DEF Spec

\* Whatever processes are started, two never run at the same time: acquire_lock
\* creates the file exclusively, and only its owner or an operator who sees no
\* process removes it.
THEOREM OneRunSafe == Spec => []OneRunAtATime
<1>1. IInv => OneRunAtATime
    BY DEF IInv
<1>2. QED
    BY InitInv, Inductive, <1>1, PTL DEF Spec

\* Retention never removes the release that pending_sync.json names, unless an
\* operator skipped its retry.
THEOREM PendingSafe == Spec => []PendingIsOnDisk
<1>1. IInv => PendingIsOnDisk
    BY DEF IInv, Shared
<1>2. QED
    BY InitInv, Inductive, <1>1, PTL DEF Spec

\* Without deaths, a release whose sync raised is live, superseded by a newer
\* live or pending one, or pending, whenever no run is in progress.
THEOREM FailedSyncSafe == Spec => []FailedSyncIsRemembered
<1>1. IInv => FailedSyncIsRemembered
    BY DEF IInv, Shared, Remembered, FailedSyncIsRemembered, Running, Saving
<1>2. QED
    BY InitInv, Inductive, <1>1, PTL DEF Spec

\* No request, late or repeated, ever takes the cloud back to an older release.
THEOREM LiveMonotone == Spec => LiveNeverGoesBack
<1>1. IInv /\ [Next]_vars => [live' >= live]_live
  <2> SUFFICES ASSUME IInv, Next, live' # live PROVE live' >= live
      BY Numbers DEF IInv, Shared, vars, cloud
  <2>0. TypeOK /\ Numbered /\ Ordered
      BY DEF IInv, Shared
  <2>1. ASSUME NEW p \in Procs, Sync(p) PROVE live' >= live
    <3>1. Calling(p) /\ (Serves(Call(p)) \/ Refuses(Call(p)))
        BY <2>1 DEF Sync
    <3>2. Call(p) \in Request /\ Front(Call(p).rel)
        BY <3>1, CallType
    <3>3. Serves(Call(p))
        BY <3>1 DEF Refuses, cloud
    <3>4. QED BY <2>0, <3>2, <3>3, ServesOrder
  <2>2. CASE ServeLate
    <3>1. PICK q \in late : Serves(q) \/ Refuses(q)
        BY <2>2 DEF ServeLate
    <3>2. q \in Request /\ Front(q.rel)
        BY <2>0 DEF TypeOK, Ordered
    <3>3. Serves(q)
        BY <3>1 DEF Refuses, cloud
    <3>4. QED BY <2>0, <3>2, <3>3, ServesOrder
  <2>3. ASSUME NEW p \in Procs, NEW skip \in BOOLEAN,
               \/ Start(p, skip)
               \/ Run(p) /\ ~Sync(p)
               \/ SyncFails(p) \/ SyncAbandons(p) \/ Crash(p)
        PROVE  FALSE
      BY <2>3 DEF Start, Run, Stop, ReadPending, Unlink, Pipeline, Prune, SavePending,
                  SyncFails, Breaks, SyncAbandons, Crash, cloud
  <2>4. CASE RemoveStaleLock
      BY <2>4 DEF RemoveStaleLock, cloud
  <2>5. QED
      BY <2>1, <2>2, <2>3, <2>4 DEF Next
<1>2. QED
    BY InitInv, Inductive, <1>1, PTL DEF Spec, LiveNeverGoesBack
=============================================================================
