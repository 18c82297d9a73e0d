-------------------------- MODULE Publication_proofs --------------------------
(***************************************************************************)
(* Proofs about Publication, for every value of its constants.             *)
(*                                                                         *)
(* A step is classified once by what it does to the publication, field by  *)
(* field (PubMoves), and once by what it does to the run of a worker       *)
(* (RunMoves).                                                             *)
(***************************************************************************)
EXTENDS Publication, TLAPS

-----------------------------------------------------------------------------
(***************************************************************************)
(* The inductive invariant.  The status of a publication says whether it   *)
(* has a plan, whether all of it is published and whether it committed;    *)
(* the worker that holds it knows what is left to publish; and what has    *)
(* the same revision of the population has the same draft.                 *)
(***************************************************************************)
Committed == {"refreshing_runtime", "published_reload_pending", "completed"}
Unplanned == {"queued", "preflight", "preflight_failed"}

StatusSays ==
    Exists =>
        /\ pub.status \in Unplanned => pub.plan = NoPlan
        /\ pub.status \notin Unplanned \cup {"cancelled_before_commit"} => pub.plan # NoPlan
        /\ pub.status \in PastObjects => Unpublished(pub) = {}
        /\ pub.commit <=> pub.status \in Committed
TriesAreLeft ==
    Exists =>
        /\ pub.status = "refreshing_runtime" \/ (pub.status = "published_reload_pending" /\ pub.due)
             => pub.tries < ReloadTries
        /\ ~pub.commit => pub.tries = 0
NothingYet ==
    ~Exists =>
        /\ commits = 0 /\ \A w \in Workers : worker[w] = Idle
        /\ \A m \in Moderators : call[m].step # "cancel publication"

IsSnapshot(w) == worker[w] # Idle /\ worker[w].step # "plan"
RunsKnow ==
    \A w \in Workers : IsSnapshot(w) =>
        /\ worker[w].step \in {"publish", "begin"} => worker[w].status = "publishing_objects"
        /\ worker[w].step = "begin" => worker[w].todo = {}
        /\ worker[w].status = "refreshing_runtime" => worker[w].tries < ReloadTries
        /\ Holds(w) => worker[w].todo = Unpublished(pub)

TypeInv == TypeOK /\ StatusSays /\ TriesAreLeft /\ NothingYet /\ RunsKnow

LEMMA InitTypeInv == Init => TypeInv
<1> SUFFICES ASSUME Init PROVE TypeInv
  OBVIOUS
<1>1. /\ ~Exists /\ commits = 0 /\ \A w \in Workers : worker[w] = Idle
      /\ \A m \in Moderators : call[m].step # "cancel publication"
  BY DEF Init, Exists, Idle
<1>2. TypeOK
  <2>1. population \in [revision : Nat \ {0}, draft : Drafts, cancelled : BOOLEAN]
    BY DEF Init, Drafts
  <2>2. binding \in [Targets -> Nat] /\ map \in Nat \ {0}
    BY DEF Init
  <2>3. entry \in [Items -> {"approved", "review", "cancelled", "promoted"}]
    BY DEF Init
  <2>4. worker \in [Workers -> RunRecord \cup {Idle}]
    BY DEF Init
  <2>5. call \in [Moderators -> CallRecord]
    BY DEF Init, CallRecord, Idle
  <2>6. pub = NoPub /\ commits \in 0 .. 1
    BY DEF Init
  <2> QED
    BY <2>1, <2>2, <2>3, <2>4, <2>5, <2>6 DEF TypeOK, Exists
<1>3. RunsKnow
  BY DEF Init, RunsKnow, IsSnapshot
<1> QED
  BY <1>1, <1>2, <1>3 DEF TypeInv, StatusSays, TriesAreLeft, NothingYet

-----------------------------------------------------------------------------
(***************************************************************************)
(* What a step may do to the publication, from p to q.                     *)
(***************************************************************************)
SamePlan(p, q) == q.id = p.id /\ q.plan = p.plan /\ q.commit = p.commit
SameRun(p, q) == SamePlan(p, q) /\ q.tries = p.tries /\ q.due = p.due

IsClaimed(p, q) ==
    /\ SameRun(p, q) /\ q.lease.live /\ q.lease.holder \in Workers
    /\ worker[q.lease.holder] = Idle /\ worker'[q.lease.holder] # worker[q.lease.holder]
    /\ \/ p.status \in Running /\ q.status = p.status
       \/ p.status = "published_reload_pending" /\ p.due /\ q.status = "refreshing_runtime"
IsStopped(p, q) ==
    /\ SameRun(p, q) /\ q.lease = Free
    /\ \/ p.status \in Cancellable /\ q.status = "cancelled_before_commit"
       \/ p.status = "preflight" /\ q.status = "preflight_failed"
       \/ p.status = "committing_runtime" /\ q.status = "runtime_commit_failed"
IsStarted(p, q) ==
    /\ SameRun(p, q) /\ q.lease = p.lease
    /\ \/ p.status = "queued" /\ q.status = "preflight"
       \/ p.status = "publishing_objects" /\ q.status = "committing_runtime" /\ Unpublished(p) = {}
IsPlanned(p, q) ==
    /\ q.id = p.id /\ q.commit = p.commit /\ q.tries = p.tries /\ q.due = p.due /\ q.lease = p.lease
    /\ p.status = "preflight" /\ q.status = "publishing_objects" /\ q.plan # NoPlan
    /\ \E w \in Workers : w = p.lease.holder /\ worker[w].step = "plan" /\ q.plan = worker[w].plan
                           /\ worker'[w] # worker[w]
(* The worker that holds it records an asset it found unpublished.         *)
IsRecorded(p, q, a, done) ==
    /\ q.id = p.id /\ q.commit = p.commit /\ q.tries = p.tries /\ q.due = p.due
    /\ a \in Unpublished(p) /\ worker'[p.lease.holder] # worker[p.lease.holder]
    /\ q.plan = [p.plan EXCEPT !.published = [@ EXCEPT ![a] = done]]
    /\ \/ q.status = p.status /\ q.lease.holder = p.lease.holder /\ p.lease.holder # NoWorker
       \/ ~done /\ p.status = "publishing_objects" /\ q.status = "objects_publish_failed" /\ q.lease = Free
IsCommitted(p, q) ==
    /\ q.id = p.id /\ q.plan = p.plan /\ q.tries = p.tries /\ q.due = p.due /\ q.lease = p.lease
    /\ p.status = "committing_runtime" /\ q.status = "refreshing_runtime" /\ ~p.commit /\ q.commit
    /\ \E w \in Workers : Commit(w)
IsRefreshed(p, q) ==
    /\ SamePlan(p, q) /\ q.lease = Free
    /\ p.status = "refreshing_runtime"
    /\ \/ q.status = "completed" /\ q.tries = p.tries
       \/ q.status = "published_reload_pending" /\ q.tries \in 0 .. ReloadTries /\ (q.due => q.tries < ReloadTries)
IsRetried(p, q) ==
    /\ SamePlan(p, q) /\ q.lease = Free /\ ~q.due
    /\ p.status \in DOMAIN Resumes /\ q.status = Resumes[p.status]
    /\ q.tries = IF p.status = "published_reload_pending" THEN 0 ELSE p.tries
IsNoted(p, q) ==
    /\ SameRun(p, q) /\ q.status = p.status /\ q.lease.holder = p.lease.holder
    /\ q.lease.live => p.lease.live
IsRequested(q) ==
    /\ Closed /\ q.status = "queued" /\ q.plan = NoPlan /\ ~q.commit /\ q.tries = 0 /\ q.lease = Free
    /\ Exists => q.id # pub.id

PubMove ==
    \/ pub' = pub
    \/ pub' \in PubRecord /\ IsRequested(pub')
    \/ /\ Exists /\ pub' \in PubRecord
       /\ \/ IsClaimed(pub, pub') \/ IsStopped(pub, pub') \/ IsStarted(pub, pub') \/ IsPlanned(pub, pub')
          \/ \E a \in Assets, done \in BOOLEAN : IsRecorded(pub, pub', a, done)
          \/ IsCommitted(pub, pub') \/ IsRefreshed(pub, pub') \/ IsRetried(pub, pub') \/ IsNoted(pub, pub')

LEMMA PubIsRecord == ASSUME TypeOK, Exists PROVE pub \in PubRecord
  BY DEF TypeOK, Exists

LEMMA Statuses ==
  /\ Running \subseteq Status /\ Cancellable \subseteq Status
  /\ \A s \in DOMAIN Resumes : Resumes[s] \in Running
  /\ DOMAIN Resumes = {"preflight_failed", "objects_publish_failed", "runtime_commit_failed", "published_reload_pending"}
  BY DEF Running, Failed, Status, Cancellable, Resumes

(* A run is a record of its step unless its worker is idle.                *)
LEMMA RunRecords ==
  ASSUME TypeOK, NEW w \in Workers
  PROVE  /\ worker[w] # Idle => worker[w] \in RunRecord
         /\ worker[w].step \in {"phase", "publish", "begin", "plan"} => worker[w] # Idle
<1>1. worker[w] \in RunRecord \cup {Idle}
  BY DEF TypeOK
<1> QED
  BY <1>1 DEF RunRecord, Idle

(* A stop and a claim, field by field.                                     *)
LEMMA StoppedFields ==
  ASSUME TypeOK, Exists, NEW status \in Status \ Running, NEW retryable \in BOOLEAN
  PROVE  LET q == Stopped(status, retryable)
         IN  q \in PubRecord /\ SameRun(pub, q) /\ q.lease = Free /\ q.status = status /\ q.retryable = retryable
<1>1. pub \in PubRecord /\ Free \in [holder : Workers \cup {NoWorker}, live : BOOLEAN]
  BY PubIsRecord DEF Free
<1> QED
  BY <1>1 DEF Stopped, PubRecord, SameRun, SamePlan

LEMMA WorkerMovesPub ==
  ASSUME TypeInv, NEW w \in Workers, WorkerStep(w) \/ WorkerStops(w)
  PROVE  PubMove
<1> USE DEF TypeInv
<1>0. Exists => pub \in PubRecord
  BY PubIsRecord
<1>1. CASE pub' = pub
  BY <1>1 DEF PubMove
<1>2. ASSUME NEW from, NEW q, Transition(w, from, q),
             MayMove(w, from) => q \in PubRecord /\ (IsStopped(pub, q) \/ IsStarted(pub, q) \/ IsRefreshed(pub, q))
      PROVE  PubMove
  BY <1>2 DEF Transition, MayMove, Holds, PubMove
<1>15. ASSUME Rereads(w) PROVE worker'[w].step \in {"phase", "idle"}
  <2>1. worker'[w] \in {Snapshot(pub', population), Idle}
    BY <1>15 DEF Rereads, TypeOK
  <2> QED
    BY <2>1 DEF Snapshot, Idle
<1>3. CASE Claim(w)
  <2> DEFINE lease == [holder |-> w, live |-> TRUE]
  <2>1. Exists
    BY <1>3 DEF Claim, Claimable, Due
  <2>2. lease \in [holder : Workers \cup {NoWorker}, live : BOOLEAN] /\ lease.holder = w /\ lease.live
    OBVIOUS
  <2>3. \/ Claimable /\ pub' = [pub EXCEPT !.lease = lease]
        \/ Due /\ pub' = [pub EXCEPT !.lease = lease, !.status = "refreshing_runtime"]
    BY <1>3 DEF Claim
  <2>4. worker[w] = Idle /\ worker'[w] # Idle
    <3>1. worker'[w] = Snapshot(pub', population)
      BY <1>3 DEF Claim, TypeOK
    <3>2. worker'[w].step = "phase"
      BY <3>1 DEF Snapshot
    <3> QED
      BY <1>3, <3>2 DEF Claim, Idle
  <2> HIDE DEF lease
  <2>5. pub' \in PubRecord
    <3>1. CASE pub' = [pub EXCEPT !.lease = lease]
      BY <1>0, <2>1, <2>2, <3>1 DEF PubRecord
    <3>2. CASE pub' = [pub EXCEPT !.lease = lease, !.status = "refreshing_runtime"]
      <4>1. "refreshing_runtime" \in Status
        BY Statuses DEF Running
      <4> QED
        BY <1>0, <2>1, <2>2, <3>2, <4>1 DEF PubRecord
    <3> QED
      BY <2>3, <3>1, <3>2
  <2>6. IsClaimed(pub, pub')
    BY <1>0, <2>1, <2>2, <2>3, <2>4 DEF PubRecord, IsClaimed, SameRun, SamePlan, Claimable, Due
  <2> QED
    BY <2>1, <2>5, <2>6 DEF PubMove
<1>4. CASE CancelPhase(w)
  <2>1. Transition(w, worker[w].status, Stopped("cancelled_before_commit", TRUE)) /\ worker[w].status \in Cancellable
    BY <1>4 DEF CancelPhase
  <2>2. Exists /\ pub.status \in Cancellable
          => Stopped("cancelled_before_commit", TRUE) \in PubRecord
             /\ IsStopped(pub, Stopped("cancelled_before_commit", TRUE))
    BY StoppedFields DEF IsStopped, Status, Running
  <2> QED
    BY <1>2, <2>1, <2>2 DEF MayMove, Holds
<1>5. CASE Start(w)
  <2> DEFINE q == [pub EXCEPT !.status = "preflight"]
  <2>1. MayMove(w, "queued") => q \in PubRecord /\ IsStarted(pub, q)
    BY <1>0 DEF MayMove, Holds, PubRecord, Status, Running, IsStarted, SameRun, SamePlan
  <2> QED
    BY <1>2, <1>5, <2>1 DEF Start
<1>6. CASE WritePlan(w)
  <2>1. CASE worker[w].plan = NoPlan
    <3>1. Exists /\ pub.status = "preflight"
            => Stopped("preflight_failed", TRUE) \in PubRecord /\ IsStopped(pub, Stopped("preflight_failed", TRUE))
      BY StoppedFields DEF IsStopped, Status, Running, Failed
    <3> QED
      BY <1>2, <1>6, <2>1, <3>1 DEF WritePlan, MayMove, Holds
  <2>2. CASE worker[w].plan # NoPlan
    <3> DEFINE plan == worker[w].plan
    <3>1. worker[w] \in RunRecord /\ worker[w].step = "plan"
      BY <1>6, RunRecords DEF WritePlan
    <3>2. plan \in PlanRecord
      BY <2>2, <3>1 DEF RunRecord
    <3>3. CASE MayMove(w, "preflight")
      <4>1. pub' = [pub EXCEPT !.status = "publishing_objects", !.plan = plan]
        BY <1>6, <2>2, <3>3 DEF WritePlan, Transition
      <4>2. plan # NoPlan /\ plan = worker[w].plan
        BY <2>2
      <4>5. worker'[w] # worker[w] /\ pub.lease.holder = w
        BY <1>6, <1>15, <3>1, <3>3 DEF WritePlan, MayMove, Holds
      <4> HIDE DEF plan
      <4>3. pub' \in PubRecord
        BY <1>0, <3>2, <3>3, <4>1 DEF MayMove, Holds, PubRecord, Status, Running
      <4>4. IsPlanned(pub, pub')
        BY <1>0, <3>1, <3>3, <4>1, <4>2, <4>5 DEF MayMove, Holds, PubRecord, IsPlanned
      <4> QED
        BY <3>3, <4>3, <4>4 DEF PubMove, MayMove, Holds
    <3> QED
      BY <1>1, <1>6, <3>3 DEF WritePlan, Transition
  <2> QED
    BY <2>1, <2>2
<1>7. CASE Checkpoint(w)
  <2>1. CASE MayMove(w, "publishing_objects") /\ ~pub.cancel
    BY <1>1, <1>7, <2>1 DEF Checkpoint
  <2>2. CASE ~(MayMove(w, "publishing_objects") /\ ~pub.cancel)
    <3>1. \/ pub' = pub
          \/ MayMove(w, "publishing_objects") /\ pub' = Stopped("cancelled_before_commit", TRUE)
      BY <1>7, <2>2 DEF Checkpoint, Transition
    <3>2. Exists /\ pub.status = "publishing_objects"
            => Stopped("cancelled_before_commit", TRUE) \in PubRecord
               /\ IsStopped(pub, Stopped("cancelled_before_commit", TRUE))
      BY StoppedFields DEF IsStopped, Status, Running, Cancellable
    <3> QED
      BY <1>1, <3>1, <3>2 DEF MayMove, Holds, PubMove
  <2> QED
    BY <2>1, <2>2
<1>8. CASE BeginCommit(w)
  <2> DEFINE q == [pub EXCEPT !.status = "committing_runtime"]
  <2>1. MayMove(w, "publishing_objects") => Unpublished(pub) = {}
    <3>1. IsSnapshot(w)
      BY <1>8, RunRecords DEF BeginCommit, IsSnapshot
    <3> QED
      BY <1>8, <3>1 DEF BeginCommit, RunsKnow, MayMove
  <2>2. MayMove(w, "publishing_objects") => q \in PubRecord /\ IsStarted(pub, q)
    BY <1>0, <2>1 DEF MayMove, Holds, PubRecord, Status, Running, IsStarted, SameRun, SamePlan
  <2> QED
    BY <1>2, <1>8, <2>2 DEF BeginCommit
<1>9. CASE Commit(w)
  <2>1. Exists /\ pub.status = "committing_runtime" /\ ~pub.commit
    BY <1>9 DEF Commit, MayCommit, MayMove, Holds
  <2>2. pub' = [pub EXCEPT !.commit = TRUE, !.status = "refreshing_runtime"]
    BY <1>9 DEF Commit
  <2>3. pub' \in PubRecord
    BY <1>0, <2>1, <2>2 DEF PubRecord, Status, Running
  <2>4. IsCommitted(pub, pub')
    BY <1>0, <1>9, <2>1, <2>2 DEF PubRecord, IsCommitted
  <2> QED
    BY <2>1, <2>3, <2>4 DEF PubMove
<1>10. ASSUME NEW conflict \in BOOLEAN, CommitFails(w, conflict) PROVE PubMove
  <2>1. Exists /\ pub.status = "committing_runtime"
          => Stopped("runtime_commit_failed", ~conflict) \in PubRecord
             /\ IsStopped(pub, Stopped("runtime_commit_failed", ~conflict))
    <3>1. (~conflict) \in BOOLEAN /\ "runtime_commit_failed" \in Status \ Running
      BY DEF Status, Running, Failed
    <3> QED
      BY <3>1, StoppedFields DEF IsStopped
  <2> QED
    BY <1>2, <1>10, <2>1 DEF CommitFails, MayMove, Holds
<1>11. ASSUME NEW missed \in BOOLEAN, Refresh(w, missed) PROVE PubMove
  <2> DEFINE tries == worker[w].tries + 1
             pending == [Stopped("published_reload_pending", TRUE) EXCEPT !.tries = tries, !.due = TriesLeft(tries)]
             done == [Stopped("completed", TRUE) EXCEPT !.due = FALSE]
  <2>1. worker[w] \in RunRecord /\ worker[w].step = "phase" /\ worker[w].status = "refreshing_runtime" /\ IsSnapshot(w)
    BY <1>11, RunRecords DEF Refresh, In, IsSnapshot
  <2>2. worker[w].tries \in Nat /\ worker[w].tries < ReloadTries
    BY <2>1, BoundAssumption DEF RunRecord, RunsKnow
  <2>3. tries \in 0 .. ReloadTries /\ (TriesLeft(tries) <=> tries < ReloadTries) /\ TriesLeft(tries) \in BOOLEAN
    BY <2>2, BoundAssumption DEF TriesLeft
  <2>4. Transition(w, "refreshing_runtime", IF missed THEN pending ELSE done)
    BY <1>11 DEF Refresh
  <2> HIDE DEF tries
  <2>5. ASSUME Exists, pub.status = "refreshing_runtime"
        PROVE  /\ pending \in PubRecord /\ IsRefreshed(pub, pending)
               /\ done \in PubRecord /\ IsRefreshed(pub, done)
    <3>1. {"published_reload_pending", "completed"} \subseteq Status \ Running
      BY DEF Status, Running
    <3>2. /\ Stopped("published_reload_pending", TRUE) \in PubRecord
          /\ SameRun(pub, Stopped("published_reload_pending", TRUE))
          /\ Stopped("published_reload_pending", TRUE).lease = Free
          /\ Stopped("published_reload_pending", TRUE).status = "published_reload_pending"
      BY <2>5, <3>1, StoppedFields
    <3>3. /\ Stopped("completed", TRUE) \in PubRecord
          /\ SameRun(pub, Stopped("completed", TRUE))
          /\ Stopped("completed", TRUE).lease = Free
          /\ Stopped("completed", TRUE).status = "completed"
      BY <2>5, <3>1, StoppedFields
    <3>4. pending \in PubRecord /\ IsRefreshed(pub, pending)
      BY <2>3, <2>5, <3>2 DEF PubRecord, IsRefreshed, SameRun, SamePlan
    <3>5. done \in PubRecord /\ IsRefreshed(pub, done)
      BY <2>5, <3>3 DEF PubRecord, IsRefreshed, SameRun, SamePlan
    <3> QED
      BY <3>4, <3>5
  <2> HIDE DEF pending, done
  <2> QED
    BY <1>2, <2>4, <2>5 DEF MayMove, Holds
<1>12. ASSUME NEW a \in Assets, worker[w].step = "publish", a \in worker[w].todo, Holds(w)
       PROVE  /\ Exists /\ pub \in PubRecord /\ a \in Unpublished(pub) /\ pub.plan \in PlanRecord
              /\ pub.lease.holder = w
  <2>1. IsSnapshot(w)
    BY <1>12, RunRecords DEF IsSnapshot
  <2>2. a \in Unpublished(pub)
    BY <1>12, <2>1 DEF RunsKnow
  <2>3. pub.plan # NoPlan
    BY <2>2 DEF Unpublished
  <2> QED
    BY <1>0, <1>12, <2>2, <2>3 DEF Holds, PubRecord
<1>13. ASSUME NEW a \in Assets, PublishAsset(w, a) PROVE PubMove
  <2>1. CASE ~Holds(w)
    BY <1>1, <1>13, <2>1 DEF PublishAsset, Records
  <2>2. CASE Holds(w)
    <3>1. /\ Exists /\ pub \in PubRecord /\ a \in Unpublished(pub) /\ pub.plan \in PlanRecord
          /\ pub.lease.holder = w
      BY <1>12, <1>13, <2>2 DEF PublishAsset
    <3>8. worker'[w] # worker[w]
      <4>1. worker'[w] = [worker[w] EXCEPT !.step = "phase", !.todo = @ \ {a}]
        BY <1>13 DEF PublishAsset, TypeOK
      <4>2. worker[w] \in RunRecord /\ worker[w].step = "publish"
        BY <1>13, RunRecords DEF PublishAsset
      <4> QED
        BY <4>1, <4>2 DEF RunRecord
    <3> DEFINE plan == [pub.plan EXCEPT !.published = [@ EXCEPT ![a] = TRUE]]
               lease == [pub.lease EXCEPT !.live = TRUE]
    <3>2. pub' = [pub EXCEPT !.plan = plan, !.lease = lease]
      BY <1>13, <2>2, <3>1 DEF PublishAsset, Records, PubRecord
    <3>3. plan \in PlanRecord
      BY <3>1 DEF PlanRecord
    <3>4. lease \in [holder : Workers \cup {NoWorker}, live : BOOLEAN] /\ lease.holder = w
      BY <3>1 DEF PubRecord
    <3>5. plan = [pub.plan EXCEPT !.published = [@ EXCEPT ![a] = TRUE]]
      OBVIOUS
    <3> HIDE DEF plan, lease
    <3>6. pub' \in PubRecord
      BY <3>1, <3>2, <3>3, <3>4 DEF PubRecord
    <3>7. IsRecorded(pub, pub', a, TRUE)
      BY <3>1, <3>2, <3>4, <3>5, <3>8, NameAssumption DEF PubRecord, IsRecorded
    <3> QED
      BY <3>1, <3>6, <3>7 DEF PubMove
  <2> QED
    BY <2>1, <2>2
<1>14. ASSUME NEW a \in Assets, NEW retryable \in BOOLEAN, PublishFails(w, a, retryable) PROVE PubMove
  <2>1. CASE ~Holds(w)
    BY <1>1, <1>14, <2>1 DEF PublishFails, Records, MayMove
  <2>2. CASE Holds(w)
    <3>1. /\ Exists /\ pub \in PubRecord /\ a \in Unpublished(pub) /\ pub.plan \in PlanRecord
          /\ pub.lease.holder = w
      BY <1>12, <1>14, <2>2 DEF PublishFails
    <3>10. worker'[w] # worker[w]
      BY <1>14, <1>15 DEF PublishFails
    <3> DEFINE plan == [pub.plan EXCEPT !.published = [@ EXCEPT ![a] = FALSE]]
               failed == [pub EXCEPT !.plan = plan]
    <3>2. failed = [pub EXCEPT !.plan.published[a] = FALSE]
      BY <3>1 DEF PubRecord
    <3>3. \/ pub' = failed
          \/ /\ pub.status = "publishing_objects"
             /\ pub' = [failed EXCEPT !.status = "objects_publish_failed", !.lease = Free, !.retryable = retryable]
      BY <1>14, <2>2, <3>2 DEF PublishFails, Records, MayMove
    <3>4. plan \in PlanRecord
      BY <3>1 DEF PlanRecord
    <3>5. plan = [pub.plan EXCEPT !.published = [@ EXCEPT ![a] = FALSE]]
      OBVIOUS
    <3> HIDE DEF plan
    <3>6. failed \in PubRecord /\ IsRecorded(pub, failed, a, FALSE)
      BY <3>1, <3>4, <3>5, <3>10, NameAssumption DEF PubRecord, IsRecorded
    <3>7. failed.id = pub.id /\ failed.commit = pub.commit /\ failed.tries = pub.tries /\ failed.due = pub.due /\ failed.plan = plan
      BY <3>1 DEF PubRecord
    <3>8. Free \in [holder : Workers \cup {NoWorker}, live : BOOLEAN] /\ "objects_publish_failed" \in Status
      BY DEF Free, Status, Failed
    <3> HIDE DEF failed
    <3>9. pub' \in PubRecord /\ IsRecorded(pub, pub', a, FALSE)
      <4>1. CASE pub' = failed
        BY <3>6, <4>1
      <4>2. CASE /\ pub.status = "publishing_objects"
                 /\ pub' = [failed EXCEPT !.status = "objects_publish_failed", !.lease = Free, !.retryable = retryable]
        <5>1. pub' \in PubRecord
          BY <3>6, <3>8, <4>2 DEF PubRecord
        <5> QED
          BY <3>1, <3>5, <3>6, <3>7, <3>10, <4>2, <5>1 DEF PubRecord, IsRecorded
      <4> QED
        BY <3>3, <4>1, <4>2
    <3> QED
      BY <3>1, <3>9 DEF PubMove
  <2> QED
    BY <2>1, <2>2
<1>17. CASE WorkerStops(w)
  BY <1>1, <1>17 DEF WorkerStops
<1>16. ASSUME NEW sound \in BOOLEAN, Preflight(w, sound) PROVE PubMove
  BY <1>1, <1>16 DEF Preflight
<1> QED
  BY <1>3, <1>4, <1>5, <1>6, <1>7, <1>8, <1>9, <1>10, <1>11, <1>13, <1>14, <1>16, <1>17 DEF WorkerStep

LEMMA ModeratorMovesPub ==
  ASSUME TypeInv, NEW m \in Moderators, ModeratorStep(m)
  PROVE  PubMove
<1> USE DEF TypeInv
<1>0. Exists => pub \in PubRecord
  BY PubIsRecord
<1>1. CASE pub' = pub
  BY <1>1 DEF PubMove
<1>2. CASE RequestPublication(m)
  <2> DEFINE id == IF Exists THEN pub.id + 1 ELSE 1
             q == [id |-> id, status |-> "queued", lease |-> Free, cancel |-> FALSE,
                   tries |-> 0, due |-> FALSE, plan |-> NoPlan, commit |-> FALSE, retryable |-> TRUE]
  <2>1. pub' = pub \/ (Closed /\ pub' = q)
    BY <1>2 DEF RequestPublication
  <2>2. id \in Nat \ {0} /\ (Exists => id # pub.id)
    BY <1>0 DEF PubRecord
  <2> HIDE DEF id
  <2>3. q \in PubRecord
    BY <2>2, BoundAssumption DEF PubRecord, Status, Running, Free
  <2>4. Closed => IsRequested(q)
    BY <2>2 DEF IsRequested
  <2> QED
    BY <2>1, <2>3, <2>4 DEF PubMove
<1>3. CASE RetryPublication(m)
  <2> DEFINE status == Resumes[pub.status]
             tries == IF pub.status = "published_reload_pending" THEN 0 ELSE pub.tries
  <2>1. Exists /\ pub.status \in DOMAIN Resumes
    BY <1>3 DEF RetryPublication
  <2>2. pub' = [pub EXCEPT !.status = status, !.lease = Free, !.due = FALSE, !.retryable = TRUE, !.tries = tries]
    BY <1>3 DEF RetryPublication
  <2>3. status \in Status /\ status = Resumes[pub.status]
    BY <2>1, Statuses
  <2>4. tries \in 0 .. ReloadTries /\ tries = IF pub.status = "published_reload_pending" THEN 0 ELSE pub.tries
    BY <1>0, <2>1, BoundAssumption DEF PubRecord
  <2>5. Free \in [holder : Workers \cup {NoWorker}, live : BOOLEAN]
    BY DEF Free
  <2> HIDE DEF status, tries
  <2>6. pub' \in PubRecord
    BY <1>0, <2>1, <2>2, <2>3, <2>4, <2>5 DEF PubRecord
  <2>7. IsRetried(pub, pub')
    BY <1>0, <2>1, <2>2, <2>3, <2>4 DEF PubRecord, IsRetried, SamePlan
  <2> QED
    BY <2>1, <2>6, <2>7 DEF PubMove
<1>4. CASE CancelPublication(m)
  <2>1. CASE pub.id # call[m].id \/ pub.status # call[m].status
    BY <1>1, <1>4, <2>1 DEF CancelPublication
  <2>2. CASE pub.id = call[m].id /\ pub.status = call[m].status
    <3>1. call[m] \in CallRecord /\ call[m].step = "cancel publication"
      BY <1>4 DEF CancelPublication, TypeOK
    <3>2. call[m].status \in Cancellable
      BY <3>1 DEF CallRecord
    <3>3. Exists
      BY <1>4 DEF CancelPublication, NothingYet
    <3>4. CASE call[m].held
      <4>1. pub' = [pub EXCEPT !.cancel = TRUE]
        BY <1>4, <2>2, <3>4 DEF CancelPublication
      <4>2. pub' \in PubRecord /\ IsNoted(pub, pub')
        BY <1>0, <3>3, <4>1 DEF PubRecord, IsNoted, SameRun, SamePlan
      <4> QED
        BY <3>3, <4>2 DEF PubMove
    <3>5. CASE ~call[m].held
      <4>1. pub' = Stopped("cancelled_before_commit", TRUE)
        BY <1>4, <2>2, <3>5 DEF CancelPublication
      <4>2. "cancelled_before_commit" \in Status \ Running
        BY DEF Status, Running
      <4>3. pub' \in PubRecord /\ IsStopped(pub, pub')
        BY <2>2, <3>2, <3>3, <4>1, <4>2, StoppedFields DEF IsStopped
      <4> QED
        BY <3>3, <4>3 DEF PubMove
    <3> QED
      BY <3>4, <3>5
  <2> QED
    BY <2>1, <2>2
<1>5. ASSUME \/ AskPublish(m) \/ AskCancel(m) \/ SaveDraft(m) \/ EditTargets(m)
             \/ \E step \in {"discard", "rebase", "cancel"} : AskOpen(m, step)
             \/ DiscardDraft(m) \/ RebaseDraft(m) \/ CancelPopulation(m)
      PROVE  pub' = pub
  BY <1>5 DEF AskPublish, AskCancel, SaveDraft, EditTargets, AskOpen, DiscardDraft, RebaseDraft, CancelPopulation, Reads
<1> QED
  BY <1>1, <1>2, <1>3, <1>4, <1>5 DEF ModeratorStep

LEMMA PubMoves == ASSUME TypeInv, [Next]_vars PROVE PubMove
<1>1. CASE pub' = pub
  BY <1>1 DEF PubMove
<1>2. ASSUME Others PROVE pub' = pub
  BY <1>2 DEF Others, EditMap, BindElsewhere, OpenItem, ApproveItem, Moves
<1>3. ASSUME LeaseExpires PROVE PubMove
  <2>1. pub \in PubRecord /\ Exists /\ pub' = [pub EXCEPT !.lease = [pub.lease EXCEPT !.live = FALSE]]
    BY <1>3, PubIsRecord DEF TypeInv, LeaseExpires
  <2> DEFINE lease == [pub.lease EXCEPT !.live = FALSE]
  <2>2. lease \in [holder : Workers \cup {NoWorker}, live : BOOLEAN] /\ lease.holder = pub.lease.holder /\ ~lease.live
    BY <2>1 DEF PubRecord
  <2>3. pub' = [pub EXCEPT !.lease = lease]
    BY <2>1
  <2> HIDE DEF lease
  <2>4. pub' \in PubRecord /\ IsNoted(pub, pub')
    BY <2>1, <2>2, <2>3 DEF PubRecord, IsNoted, SameRun, SamePlan
  <2> QED
    BY <2>1, <2>4 DEF PubMove
<1>4. CASE UNCHANGED vars
  BY <1>1, <1>4 DEF vars
<1> QED
  BY <1>1, <1>2, <1>3, <1>4, WorkerMovesPub, ModeratorMovesPub DEF Next, ExpireLeft, ExpireHeld

-----------------------------------------------------------------------------
(***************************************************************************)
(* What a step may do to the run of a worker.                              *)
(***************************************************************************)
HasSnapshot(v) ==
    /\ pub' # NoPub /\ pub'.status \in Running
    /\ worker'[v] = Snapshot(pub', population) /\ population' = population
HasPlan(v) ==
    /\ worker[v].step = "phase" /\ worker[v].status = "preflight" /\ population' = population
    /\ \E ready \in BOOLEAN :
         /\ worker'[v] = [step |-> "plan", id |-> worker[v].id, status |-> worker[v].status,
                          plan |-> IF ready THEN [revision |-> worker[v].revision, draft |-> worker[v].draft,
                                                  map |-> map, bindings |-> binding,
                                                  published |-> [a \in Assets |-> FALSE]]
                                   ELSE NoPlan]
         /\ ready => Ready(worker[v].draft)
GoesOn(v) ==
    /\ worker[v].step = "phase" /\ worker[v].status = "publishing_objects" /\ pub' = pub
    /\ \E step \in {"begin", "publish"} :
         /\ worker'[v] = [worker[v] EXCEPT !.step = step]
         /\ step = "begin" => worker[v].todo = {}
HasPublished(v) ==
    /\ worker[v].step = "publish"
    /\ \E a \in worker[v].todo :
         /\ worker'[v] = [worker[v] EXCEPT !.step = "phase", !.todo = @ \ {a}]
         /\ pub' = IF Holds(v) THEN [pub EXCEPT !.plan.published[a] = TRUE, !.lease.live = TRUE] ELSE pub

RunMove(v) ==
    \/ worker'[v] = worker[v] \/ worker'[v] = Idle
    \/ HasSnapshot(v) \/ HasPlan(v) \/ GoesOn(v) \/ HasPublished(v)

(* A publication is never taken away.                                      *)
LEMMA PubStays == ASSUME TypeInv, PubMove, Exists PROVE pub' \in PubRecord /\ pub' # NoPub
  BY NameAssumption, PubIsRecord DEF TypeInv, PubMove

LEMMA WorkerMovesRuns ==
  ASSUME TypeInv, NEW w \in Workers, WorkerStep(w) \/ WorkerStops(w), NEW v \in Workers
  PROVE  RunMove(v) /\ worker' = [u \in Workers |-> worker'[u]]
<1> USE DEF TypeInv
<1> DEFINE Goal == RunMove(v) /\ worker' = [u \in Workers |-> worker'[u]]
<1>0. worker = [u \in Workers |-> worker[u]]
  BY DEF TypeOK
<1>1. Exists \/ pub' # NoPub => pub' \in PubRecord /\ pub' # NoPub
  BY WorkerMovesPub, PubStays DEF PubMove, Exists
<1>2. worker[w].step \in {"phase", "publish", "begin", "plan"} => worker[w] \in RunRecord /\ Exists
  BY RunRecords DEF NothingYet
<1>3. ASSUME NEW r, worker' = [worker EXCEPT ![w] = r],
             RunMove(w) \/ r = Idle
      PROVE  Goal
  BY <1>0, <1>3 DEF RunMove
<1>4. ASSUME Rereads(w), worker[w].step \in {"phase", "publish", "begin", "plan"}, UNCHANGED population
      PROVE  Goal
  <2> DEFINE goesOn == pub'.status \in Running /\ pub'.lease.holder = w /\ pub'.status # worker[w].status
  <2>1. worker' = [worker EXCEPT ![w] = IF goesOn THEN Snapshot(pub', population) ELSE Idle]
    BY <1>4 DEF Rereads
  <2>2. goesOn => HasSnapshot(w)
    BY <1>0, <1>1, <1>2, <1>4, <2>1 DEF HasSnapshot
  <2> QED
    BY <1>3, <2>1, <2>2 DEF RunMove
<1>5. CASE Claim(w)
  <2>1. Exists /\ worker' = [worker EXCEPT ![w] = Snapshot(pub', population)] /\ population' = population
    BY <1>5 DEF Claim, Claimable, Due
  <2>2. pub'.status \in Running
    BY <1>5, <2>1, PubIsRecord DEF Claim, Claimable, Due, PubRecord, Running
  <2>3. HasSnapshot(w)
    BY <1>0, <1>1, <2>1, <2>2 DEF HasSnapshot
  <2> QED
    BY <1>3, <2>1, <2>3 DEF RunMove
<1>6. ASSUME \/ CancelPhase(w) \/ Start(w) \/ WritePlan(w) \/ BeginCommit(w) \/ Commit(w)
             \/ \E conflict \in BOOLEAN : CommitFails(w, conflict)
             \/ \E missed \in BOOLEAN : Refresh(w, missed)
             \/ \E a \in Assets, retryable \in BOOLEAN : PublishFails(w, a, retryable)
      PROVE  Goal
  <2>1. Rereads(w) /\ worker[w].step \in {"phase", "publish", "begin", "plan"} /\ UNCHANGED population
    BY <1>6 DEF CancelPhase, Start, WritePlan, BeginCommit, Commit, CommitFails, Refresh, PublishFails, In
  <2> QED
    BY <1>4, <2>1
<1>7. CASE Checkpoint(w)
  <2> DEFINE on == MayMove(w, "publishing_objects") /\ ~pub.cancel
             step == IF worker[w].todo = {} THEN "begin" ELSE "publish"
  <2>1. worker[w].step = "phase" /\ worker[w].status = "publishing_objects" /\ UNCHANGED population
    BY <1>7 DEF Checkpoint, In
  <2>2. CASE on
    <3>1. pub' = pub /\ worker' = [worker EXCEPT ![w] = [worker[w] EXCEPT !.step = step]]
      BY <1>7, <2>2 DEF Checkpoint, GoesTo
    <3>2. worker'[w] = [worker[w] EXCEPT !.step = step]
      BY <1>0, <3>1
    <3>3. step \in {"begin", "publish"} /\ (step = "begin" => worker[w].todo = {})
      OBVIOUS
    <3> HIDE DEF step
    <3>4. GoesOn(w)
      BY <2>1, <3>1, <3>2, <3>3 DEF GoesOn
    <3> QED
      BY <1>3, <3>1, <3>4 DEF RunMove
  <2>3. CASE ~on
    BY <1>4, <1>7, <2>1, <2>3 DEF Checkpoint
  <2> QED
    BY <2>2, <2>3
<1>8. ASSUME NEW sound \in BOOLEAN, Preflight(w, sound) PROVE Goal
  <2> DEFINE ready == sound /\ Ready(worker[w].draft)
             plan == IF ready THEN [revision |-> worker[w].revision, draft |-> worker[w].draft,
                                    map |-> map, bindings |-> binding,
                                    published |-> [a \in Assets |-> FALSE]]
                     ELSE NoPlan
             r == [step |-> "plan", id |-> worker[w].id, status |-> worker[w].status, plan |-> plan]
  <2>1. worker' = [worker EXCEPT ![w] = r] /\ UNCHANGED population
    BY <1>8 DEF Preflight
  <2>2. worker[w].step = "phase" /\ worker[w].status = "preflight"
    BY <1>8 DEF Preflight, In
  <2>3. worker'[w] = r
    BY <1>0, <2>1
  <2>4. HasPlan(w)
    BY <2>1, <2>2, <2>3 DEF HasPlan, Ready
  <2> QED
    BY <1>3, <2>1, <2>4 DEF RunMove
<1>9. ASSUME NEW a \in Assets, PublishAsset(w, a) PROVE Goal
  <2>1. worker' = [worker EXCEPT ![w] = [worker[w] EXCEPT !.step = "phase", !.todo = @ \ {a}]]
    BY <1>9 DEF PublishAsset
  <2>2. worker'[w] = [worker[w] EXCEPT !.step = "phase", !.todo = @ \ {a}]
    BY <1>0, <2>1
  <2>3. HasPublished(w)
    BY <1>9, <2>2 DEF PublishAsset, HasPublished, Records
  <2> QED
    BY <1>3, <2>1, <2>3 DEF RunMove
<1>10. CASE WorkerStops(w)
  BY <1>3, <1>10 DEF WorkerStops
<1> QED
  BY <1>5, <1>6, <1>7, <1>8, <1>9, <1>10 DEF WorkerStep

LEMMA RunMoves ==
  ASSUME TypeInv, [Next]_vars
  PROVE  (\A v \in Workers : RunMove(v)) /\ worker' = [u \in Workers |-> worker'[u]]
<1>1. CASE UNCHANGED worker
  BY <1>1 DEF RunMove, TypeInv, TypeOK
<1>2. ASSUME NEW m \in Moderators, ModeratorStep(m) PROVE UNCHANGED worker
  BY <1>2 DEF ModeratorStep, AskPublish, RequestPublication, RetryPublication, AskCancel, CancelPublication, SaveDraft,
              EditTargets, AskOpen, DiscardDraft, RebaseDraft, CancelPopulation, Reads
<1>3. ASSUME Others \/ ExpireLeft \/ ExpireHeld \/ UNCHANGED vars PROVE UNCHANGED worker
  BY <1>3 DEF Others, EditMap, BindElsewhere, OpenItem, ApproveItem, Moves, ExpireLeft, ExpireHeld, vars
<1> QED
  BY <1>1, <1>2, <1>3, WorkerMovesRuns DEF Next

(* The run a worker keeps is of the publication it already held.           *)
LEMMA HeldStays ==
  ASSUME TypeInv, PubMove, NEW v \in Workers, worker'[v] = worker[v], worker[v] # Idle, Holds(v)'
  PROVE  Exists /\ Holds(v) /\ pub'.plan = pub.plan
<1>1. Exists /\ pub' # NoPub /\ pub'.id = worker[v].id /\ pub'.lease.holder = v /\ v # NoWorker
  BY NameAssumption DEF TypeInv, NothingYet, Holds, Exists
<1>2. pub'.lease # Free
  BY <1>1 DEF Free
<1>3. CASE pub' = pub
  BY <1>1, <1>3 DEF Holds
<1>4. CASE IsRequested(pub') \/ IsStopped(pub, pub') \/ IsRefreshed(pub, pub') \/ IsRetried(pub, pub')
  BY <1>2, <1>4 DEF IsRequested, IsStopped, IsRefreshed, IsRetried
<1>5. CASE IsClaimed(pub, pub')
  BY <1>1, <1>5 DEF IsClaimed
<1>6. CASE IsStarted(pub, pub') \/ IsCommitted(pub, pub') \/ IsNoted(pub, pub')
  BY <1>1, <1>6 DEF IsStarted, IsCommitted, IsNoted, SameRun, SamePlan, Holds
<1>7. CASE IsPlanned(pub, pub')
  BY <1>1, <1>7 DEF IsPlanned
<1>8. ASSUME NEW a \in Assets, NEW done \in BOOLEAN, IsRecorded(pub, pub', a, done) PROVE FALSE
  BY <1>1, <1>2, <1>8 DEF IsRecorded
<1> QED
  BY <1>3, <1>4, <1>5, <1>6, <1>7, <1>8 DEF PubMove

-----------------------------------------------------------------------------
(***************************************************************************)
(* The rest of the world.                                                  *)
(***************************************************************************)
(* Only a commit counts one.                                               *)
LEMMA CommitsMove == ASSUME [Next]_vars PROVE commits' = commits \/ \E w \in Workers : Commit(w)
<1>1. ASSUME NEW w \in Workers, WorkerStep(w) \/ WorkerStops(w) PROVE commits' = commits \/ Commit(w)
  BY <1>1 DEF WorkerStep, WorkerStops, Claim, CancelPhase, Start, Preflight, WritePlan, Checkpoint, PublishAsset,
              PublishFails, BeginCommit, CommitFails, Refresh, world
<1>2. ASSUME NEW m \in Moderators, ModeratorStep(m) PROVE commits' = commits
  BY <1>2 DEF ModeratorStep, AskPublish, RequestPublication, RetryPublication, AskCancel, CancelPublication, SaveDraft,
              EditTargets, AskOpen, DiscardDraft, RebaseDraft, CancelPopulation, Reads, world
<1>3. ASSUME Others \/ ExpireLeft \/ ExpireHeld \/ UNCHANGED vars PROVE commits' = commits
  BY <1>3 DEF Others, EditMap, BindElsewhere, OpenItem, ApproveItem, Moves, ExpireLeft, ExpireHeld, world, vars
<1> QED
  BY <1>1, <1>2, <1>3 DEF Next

(* What a commit changes besides the publication.                          *)
LEMMA CommitWrites ==
  ASSUME TypeInv, NEW w \in Workers, Commit(w)
  PROVE  /\ commits' = commits + 1 /\ pub'.commit /\ commits = 0 /\ Exists
         /\ map' \in Nat \ {0} /\ binding' \in [Targets -> Nat]
         /\ entry' \in [Items -> {"approved", "review", "cancelled", "promoted"}]
<1> USE DEF TypeInv
<1>1. Exists /\ ~pub.commit /\ pub' = [pub EXCEPT !.commit = TRUE, !.status = "refreshing_runtime"]
  BY DEF Commit, MayCommit, MayMove, Holds
<1>2. pub \in PubRecord /\ pub.commit = (commits = 1) /\ commits \in 0 .. 1
  BY <1>1, PubIsRecord DEF TypeOK
<1>3. map' \in Nat \ {0}
  BY DEF Commit, TypeOK
<1>4. binding' \in [Targets -> Nat]
  BY DEF Commit, TypeOK
<1>5. entry' \in [Items -> {"approved", "review", "cancelled", "promoted"}]
  BY DEF Commit
<1>6. commits' = commits + 1
  BY DEF Commit
<1> QED
  BY <1>1, <1>2, <1>3, <1>4, <1>5, <1>6 DEF PubRecord

WorldType ==
    /\ population \in [revision : Nat \ {0}, draft : Drafts, cancelled : BOOLEAN]
    /\ map \in Nat \ {0} /\ binding \in [Targets -> Nat]
    /\ entry \in [Items -> {"approved", "review", "cancelled", "promoted"}]
    /\ call \in [Moderators -> CallRecord]
    /\ ~Exists => \A m \in Moderators : call[m].step # "cancel publication"

(* A request waits with what it read, and ends.                            *)
LEMMA CallsAre ==
  ASSUME TypeInv, NEW m \in Moderators, NEW r \in CallRecord, call' = [call EXCEPT ![m] = r],
         r.step = "cancel publication" => Exists, Exists => pub' # NoPub
  PROVE  call' \in [Moderators -> CallRecord] /\ (~Exists' => \A n \in Moderators : call'[n].step # "cancel publication")
  BY DEF TypeInv, TypeOK, NothingYet, Exists

PopulationRecord == [revision : Nat \ {0}, draft : Drafts, cancelled : BOOLEAN]

LEMMA Revises ==
  ASSUME NEW p \in PopulationRecord, NEW draft \in Drafts
  PROVE  [p EXCEPT !.draft = draft, !.revision = @ + 1] \in PopulationRecord
<1>1. p.revision + 1 \in Nat \ {0}
  BY DEF PopulationRecord
<1> QED
  BY <1>1 DEF PopulationRecord

LEMMA Rebases ==
  ASSUME NEW draft \in DraftRecord, NEW base \in Nat \ {0}
  PROVE  [draft EXCEPT !.base = base, !.revision = @ + 1] \in DraftRecord
<1>1. draft.revision + 1 \in Nat \ {0}
  BY DEF DraftRecord
<1> QED
  BY <1>1 DEF DraftRecord

LEMMA ModeratorKeepsWorld ==
  ASSUME TypeInv, NEW m \in Moderators, ModeratorStep(m)
  PROVE  WorldType'
<1> USE DEF TypeInv
<1> DEFINE Calls == call' \in [Moderators -> CallRecord]
                    /\ (~Exists' => \A n \in Moderators : call'[n].step # "cancel publication")
           Populated == population' \in PopulationRecord
<1>0. /\ Exists => pub' # NoPub
      /\ population \in PopulationRecord /\ population.draft \in Drafts /\ population.revision \in Nat \ {0}
      /\ map \in Nat \ {0} /\ binding \in [Targets -> Nat]
      /\ entry \in [Items -> {"approved", "review", "cancelled", "promoted"}]
  BY ModeratorMovesPub, PubStays DEF TypeOK, PopulationRecord
<1>1. ASSUME call' = [call EXCEPT ![m] = Idle] PROVE Calls
  <2>1. Idle \in CallRecord /\ Idle.step = "idle"
    BY DEF Idle, CallRecord
  <2> QED
    BY <1>0, <1>1, <2>1, CallsAre
<1>2. ASSUME UNCHANGED world PROVE UNCHANGED <<map, binding, entry>>
  BY <1>2 DEF world
<1>3. CASE AskPublish(m)
  <2> DEFINE r == [step |-> "publish", revision |-> population.revision]
  <2>1. r \in CallRecord /\ r.step = "publish"
    BY <1>0 DEF CallRecord
  <2>2. call' = [call EXCEPT ![m] = r] /\ UNCHANGED <<population, world>>
    BY <1>3 DEF AskPublish, Reads, Asks
  <2>3. Calls
    BY <1>0, <2>1, <2>2, CallsAre
  <2> QED
    BY <1>0, <1>2, <2>2, <2>3 DEF WorldType, PopulationRecord
<1>4. CASE AskCancel(m)
  <2> DEFINE r == [step |-> "cancel publication", id |-> pub.id, status |-> pub.status,
                   held |-> pub.status \in Running /\ pub.lease.live]
  <2>1. Exists /\ r \in CallRecord
    BY <1>4, PubIsRecord DEF AskCancel, CallRecord, PubRecord
  <2>2. call' = [call EXCEPT ![m] = r] /\ UNCHANGED <<population, world>>
    BY <1>4 DEF AskCancel, Reads, Asks
  <2>3. Calls
    BY <1>0, <2>1, <2>2, CallsAre
  <2> QED
    BY <1>0, <1>2, <2>2, <2>3 DEF WorldType, PopulationRecord
<1>5. ASSUME NEW step \in {"discard", "rebase", "cancel"}, AskOpen(m, step) PROVE WorldType'
  <2> DEFINE r == [step |-> step, draft |-> population.draft, map |-> map]
  <2>1. r \in CallRecord /\ r.step # "cancel publication"
    BY <1>0 DEF CallRecord
  <2>2. call' = [call EXCEPT ![m] = r] /\ UNCHANGED <<population, world>>
    BY <1>5 DEF AskOpen, Reads, Asks
  <2>3. Calls
    BY <1>0, <2>1, <2>2, CallsAre
  <2> QED
    BY <1>0, <1>2, <2>2, <2>3 DEF WorldType, PopulationRecord
<1>6. ASSUME call' = [call EXCEPT ![m] = Idle], Populated, UNCHANGED <<map, binding, entry>> PROVE WorldType'
  BY <1>0, <1>1, <1>6 DEF WorldType, PopulationRecord
<1>7. CASE RequestPublication(m) \/ RetryPublication(m) \/ CancelPublication(m)
  <2>1. UNCHANGED <<population, world>> /\ call' = [call EXCEPT ![m] = Idle]
    BY <1>7 DEF RequestPublication, RetryPublication, CancelPublication, Ends, Asks
  <2> QED
    BY <1>0, <1>2, <1>6, <2>1
<1>12. CASE EditTargets(m)
  <2>1. [population EXCEPT !.revision = @ + 1] = [population EXCEPT !.draft = population.draft, !.revision = @ + 1]
    BY <1>0 DEF PopulationRecord
  <2>2. Populated
    BY <1>0, <1>12, <2>1, Revises DEF EditTargets
  <2> QED
    BY <1>2, <1>6, <1>12, <2>2 DEF EditTargets, Asks
<1>8. CASE SaveDraft(m)
  <2> DEFINE saved == IF population.draft = NoDraft THEN [revision |-> 1, base |-> map]
                      ELSE [population.draft EXCEPT !.revision = @ + 1]
  <2>1. saved \in Drafts
    BY <1>0 DEF Drafts, DraftRecord
  <2>2. population' = [population EXCEPT !.draft = saved, !.revision = @ + 1] /\ UNCHANGED world
        /\ call' = [call EXCEPT ![m] = Idle]
    BY <1>8 DEF SaveDraft, Asks
  <2> HIDE DEF saved
  <2>3. Populated
    BY <1>0, <2>1, <2>2, Revises
  <2> QED
    BY <1>2, <1>6, <2>2, <2>3
<1>9. CASE DiscardDraft(m)
  <2>1. Populated
    BY <1>0, <1>9, Revises DEF DiscardDraft, Drafts
  <2> QED
    BY <1>2, <1>6, <1>9, <2>1 DEF DiscardDraft, Ends
<1>10. CASE RebaseDraft(m)
  <2>1. call[m] \in CallRecord /\ call[m].step = "rebase"
    BY <1>10 DEF RebaseDraft, TypeOK
  <2>2. call[m].map \in Nat \ {0}
    BY <2>1 DEF CallRecord
  <2> DEFINE draft == [population.draft EXCEPT !.base = call[m].map, !.revision = @ + 1]
  <2>7. population.draft # NoDraft => population.draft \in DraftRecord
    BY <1>0 DEF Drafts
  <2>8. population.draft \in DraftRecord => draft \in DraftRecord
    BY <2>2, Rebases
  <2>3. population.draft # NoDraft => population.draft \in DraftRecord /\ draft \in Drafts
    BY <2>7, <2>8 DEF Drafts
  <2>4. \/ population' = population
        \/ population.draft # NoDraft
           /\ population' = [population EXCEPT !.draft.base = call[m].map, !.draft.revision = @ + 1, !.revision = @ + 1]
    BY <1>10 DEF RebaseDraft
  <2>5. population.draft # NoDraft
          => [population EXCEPT !.draft.base = call[m].map, !.draft.revision = @ + 1, !.revision = @ + 1]
             = [population EXCEPT !.draft = draft, !.revision = @ + 1]
    BY <1>0, <2>3 DEF DraftRecord, PopulationRecord
  <2> HIDE DEF draft
  <2>9. population.draft # NoDraft => [population EXCEPT !.draft = draft, !.revision = @ + 1] \in PopulationRecord
    BY <1>0, <2>3, Revises
  <2>6. Populated
    BY <1>0, <2>4, <2>5, <2>9
  <2> QED
    BY <1>2, <1>6, <1>10, <2>6 DEF RebaseDraft, Ends
<1>11. CASE CancelPopulation(m)
  <2>1. entry' \in [Items -> {"approved", "review", "cancelled", "promoted"}] /\ UNCHANGED <<map, binding>>
    BY <1>0, <1>11 DEF CancelPopulation
  <2>2. Calls /\ population' = [population EXCEPT !.cancelled = TRUE]
    BY <1>1, <1>11 DEF CancelPopulation, Ends
  <2>3. Populated
    BY <1>0, <2>2 DEF PopulationRecord
  <2> QED
    BY <1>0, <2>1, <2>2, <2>3 DEF WorldType, PopulationRecord
<1> QED
  BY <1>3, <1>4, <1>5, <1>7, <1>8, <1>9, <1>10, <1>11, <1>12 DEF ModeratorStep

LEMMA WorldKeeps == ASSUME TypeInv, [Next]_vars PROVE WorldType'
<1> USE DEF TypeInv
<1>0. WorldType /\ (Exists => pub' # NoPub)
  BY PubMoves, PubStays DEF WorldType, TypeOK, NothingYet
<1>1. ASSUME UNCHANGED <<population, map, binding, entry, call>> PROVE WorldType'
  BY <1>0, <1>1 DEF WorldType, Exists
<1>2. ASSUME NEW w \in Workers, WorkerStep(w) \/ WorkerStops(w) PROVE WorldType'
  <2>1. CASE Commit(w)
    BY <1>0, <2>1, CommitWrites DEF Commit, WorldType, Exists
  <2>2. CASE ~Commit(w)
    BY <1>1, <1>2, <2>2 DEF WorkerStep, WorkerStops, Claim, CancelPhase, Start, Preflight, WritePlan, Checkpoint,
         PublishAsset, PublishFails, BeginCommit, CommitFails, Refresh, world
  <2> QED
    BY <2>1, <2>2
<1>3. CASE ExpireLeft \/ ExpireHeld \/ UNCHANGED vars
  BY <1>1, <1>3 DEF ExpireLeft, ExpireHeld, vars, world
<1>4. ASSUME UNCHANGED <<population, call, pub>>, map' \in Nat \ {0}, binding' \in [Targets -> Nat],
             entry' \in [Items -> {"approved", "review", "cancelled", "promoted"}]
      PROVE  WorldType'
  BY <1>0, <1>4 DEF WorldType, Exists
<1>5. CASE EditMap
  <2>0. map \in Nat \ {0} /\ map' = map + 1
    BY <1>0, <1>5 DEF EditMap, WorldType
  <2>1. map' \in Nat \ {0}
    BY <2>0
  <2> QED
    BY <1>0, <1>4, <1>5, <2>1 DEF EditMap, Moves, WorldType
<1>6. ASSUME NEW t \in Targets, BindElsewhere(t) PROVE WorldType'
  <2>0. binding \in [Targets -> Nat] /\ binding' = [binding EXCEPT ![t] = @ + 1]
    BY <1>0, <1>6 DEF BindElsewhere, WorldType
  <2>1. binding' \in [Targets -> Nat]
    BY <2>0
  <2> QED
    BY <1>0, <1>4, <1>6, <2>1 DEF BindElsewhere, Moves, WorldType
<1>7. ASSUME NEW i \in Items, OpenItem(i) \/ ApproveItem(i) PROVE WorldType'
  <2>1. entry' \in [Items -> {"approved", "review", "cancelled", "promoted"}]
    BY <1>0, <1>7 DEF OpenItem, ApproveItem, WorldType
  <2> QED
    BY <1>0, <1>4, <1>7, <2>1 DEF OpenItem, ApproveItem, Moves, WorldType
<1> QED
  BY <1>2, <1>3, <1>5, <1>6, <1>7, ModeratorKeepsWorld DEF Next, Others

-----------------------------------------------------------------------------
(***************************************************************************)
(* The parts of the inductive invariant, one by one.                       *)
(***************************************************************************)
LEMMA SnapshotIsRun ==
  ASSUME NEW p \in PubRecord, p.status \in Running, population \in PopulationRecord
  PROVE  Snapshot(p, population) \in RunRecord
<1>1. Unpublished(p) \in SUBSET Assets
  BY DEF Unpublished
<1> QED
  BY <1>1 DEF Snapshot, PubRecord, PopulationRecord, RunRecord

LEMMA RunTypes ==
  ASSUME TypeInv, PubMove, NEW v \in Workers, RunMove(v)
  PROVE  worker'[v] \in RunRecord \cup {Idle}
<1> USE DEF TypeInv
<1>0. worker[v] \in RunRecord \cup {Idle} /\ population \in PopulationRecord
  BY DEF TypeOK, PopulationRecord
<1>1. CASE HasSnapshot(v)
  <2>1. pub' \in PubRecord
    BY <1>1, PubIsRecord DEF HasSnapshot, PubMove, Exists
  <2> QED
    BY <1>0, <1>1, <2>1, SnapshotIsRun DEF HasSnapshot
<1>2. CASE HasPlan(v)
  <2>1. worker[v] \in RunRecord /\ worker[v].step = "phase" /\ worker[v].status = "preflight"
    BY <1>2, RunRecords DEF HasPlan
  <2>2. worker[v].id \in Nat \ {0} /\ worker[v].revision \in Nat \ {0} /\ worker[v].draft \in Drafts
    BY <2>1 DEF RunRecord
  <2> DEFINE plan == [revision |-> worker[v].revision, draft |-> worker[v].draft, map |-> map, bindings |-> binding,
                      published |-> [a \in Assets |-> FALSE]]
  <2>3. plan \in PlanRecord
    BY <2>2 DEF PlanRecord, TypeOK
  <2>4. PICK ready \in BOOLEAN :
             worker'[v] = [step |-> "plan", id |-> worker[v].id, status |-> worker[v].status,
                           plan |-> IF ready THEN plan ELSE NoPlan]
    BY <1>2 DEF HasPlan
  <2> HIDE DEF plan
  <2> QED
    BY <2>1, <2>2, <2>3, <2>4 DEF RunRecord
<1>3. CASE GoesOn(v)
  <2>1. worker[v] \in RunRecord /\ worker[v].step = "phase"
    BY <1>3, RunRecords DEF GoesOn
  <2>2. PICK step \in {"begin", "publish"} : worker'[v] = [worker[v] EXCEPT !.step = step]
    BY <1>3 DEF GoesOn
  <2> QED
    BY <2>1, <2>2 DEF RunRecord
<1>4. CASE HasPublished(v)
  <2>1. worker[v] \in RunRecord /\ worker[v].step = "publish"
    BY <1>4, RunRecords DEF HasPublished
  <2>2. PICK a \in worker[v].todo : worker'[v] = [worker[v] EXCEPT !.step = "phase", !.todo = @ \ {a}]
    BY <1>4 DEF HasPublished
  <2> QED
    BY <2>1, <2>2 DEF RunRecord
<1> QED
  BY <1>0, <1>1, <1>2, <1>3, <1>4 DEF RunMove

(* An asset that is recorded belongs to a plan, which stays one.           *)
LEMMA RecordedPlans ==
  ASSUME TypeInv, Exists, pub' \in PubRecord,
         NEW a \in Assets, NEW done \in BOOLEAN, IsRecorded(pub, pub', a, done)
  PROVE  /\ pub.plan \in PlanRecord /\ pub'.plan \in PlanRecord /\ pub.plan # NoPlan /\ pub'.plan # NoPlan
         /\ pub.status \notin PastObjects \cup Unplanned
         /\ PlanOf(pub') = PlanOf(pub)
         /\ Unpublished(pub') = IF done THEN Unpublished(pub) \ {a} ELSE Unpublished(pub)
<1>1. pub \in PubRecord /\ a \in Unpublished(pub) /\ pub'.plan = [pub.plan EXCEPT !.published = [@ EXCEPT ![a] = done]]
  BY PubIsRecord DEF TypeInv, IsRecorded
<1>2. pub.plan # NoPlan /\ pub.status \notin PastObjects \cup Unplanned
  BY <1>1 DEF TypeInv, StatusSays, Unpublished
<1>3. pub.plan \in PlanRecord
  BY <1>1, <1>2 DEF PubRecord
<1> DEFINE published == [pub.plan.published EXCEPT ![a] = done]
<1>4. published \in [Assets -> BOOLEAN] /\ pub'.plan = [pub.plan EXCEPT !.published = published]
  BY <1>1, <1>3 DEF PlanRecord
<1>5. \A b \in Assets : published[b] = IF b = a THEN done ELSE pub.plan.published[b]
  BY <1>3 DEF PlanRecord
<1>6. ~pub.plan.published[a]
  BY <1>1, <1>2 DEF Unpublished
<1> HIDE DEF published
<1>7. pub'.plan \in PlanRecord /\ pub'.plan.published = published
  BY <1>3, <1>4 DEF PlanRecord
<1>8. pub'.plan # NoPlan
  BY <1>7, NameAssumption
<1>9. PlanOf(pub') = PlanOf(pub)
  BY <1>3, <1>4 DEF PlanOf, PlanRecord
<1>10. Unpublished(pub') = IF done THEN Unpublished(pub) \ {a} ELSE Unpublished(pub)
  BY <1>2, <1>5, <1>6, <1>7, <1>8 DEF Unpublished
<1> QED
  BY <1>2, <1>3, <1>7, <1>8, <1>9, <1>10

LEMMA StatusKeeps == ASSUME TypeInv, PubMove PROVE StatusSays'
<1> USE DEF TypeInv
<1> DEFINE Says(p) ==
        /\ p.status \in Unplanned => p.plan = NoPlan
        /\ p.status \notin Unplanned \cup {"cancelled_before_commit"} => p.plan # NoPlan
        /\ p.status \in PastObjects => Unpublished(p) = {}
        /\ p.commit <=> p.status \in Committed
<1>0. Exists => pub \in PubRecord /\ Says(pub)
  BY PubIsRecord DEF StatusSays
<1>1. SUFFICES ASSUME pub' # pub PROVE Says(pub')
  BY <1>0 DEF StatusSays, Exists, Unpublished
<1>2. CASE pub' \in PubRecord /\ IsRequested(pub')
  BY <1>2 DEF IsRequested, Unplanned, PastObjects, Committed
<1>3. ASSUME Exists, pub' \in PubRecord, pub'.plan = pub.plan PROVE Unpublished(pub') = Unpublished(pub)
  BY <1>3 DEF Unpublished
<1>4. CASE Exists /\ pub' \in PubRecord /\ IsClaimed(pub, pub')
  BY <1>0, <1>3, <1>4 DEF IsClaimed, SameRun, SamePlan, Unplanned, PastObjects, Committed
<1>5. CASE Exists /\ pub' \in PubRecord /\ IsStopped(pub, pub')
  BY <1>0, <1>3, <1>5 DEF IsStopped, SameRun, SamePlan, Unplanned, PastObjects, Committed, Cancellable
<1>6. CASE Exists /\ pub' \in PubRecord /\ IsStarted(pub, pub')
  BY <1>0, <1>3, <1>6 DEF IsStarted, SameRun, SamePlan, Unplanned, PastObjects, Committed
<1>7. CASE Exists /\ pub' \in PubRecord /\ IsPlanned(pub, pub')
  BY <1>0, <1>7 DEF IsPlanned, Unplanned, PastObjects, Committed
<1>8. ASSUME Exists, pub' \in PubRecord, NEW a \in Assets, NEW done \in BOOLEAN, IsRecorded(pub, pub', a, done)
      PROVE  Says(pub')
  <2>1. pub'.plan # NoPlan /\ pub.status \notin PastObjects \cup Unplanned
    BY <1>8, RecordedPlans
  <2> QED
    BY <1>0, <1>8, <2>1 DEF IsRecorded, Unplanned, PastObjects, Committed
<1>9. CASE Exists /\ pub' \in PubRecord /\ IsCommitted(pub, pub')
  BY <1>0, <1>3, <1>9 DEF IsCommitted, Unplanned, PastObjects, Committed
<1>10. CASE Exists /\ pub' \in PubRecord /\ IsRefreshed(pub, pub')
  BY <1>0, <1>3, <1>10 DEF IsRefreshed, SamePlan, Unplanned, PastObjects, Committed
<1>11. CASE Exists /\ pub' \in PubRecord /\ IsRetried(pub, pub')
  BY <1>0, <1>3, <1>11 DEF IsRetried, Resumes, SamePlan, Unplanned, PastObjects, Committed
<1>12. CASE Exists /\ pub' \in PubRecord /\ IsNoted(pub, pub')
  BY <1>0, <1>3, <1>12 DEF IsNoted, SameRun, SamePlan
<1> QED
  BY <1>1, <1>2, <1>4, <1>5, <1>6, <1>7, <1>8, <1>9, <1>10, <1>11, <1>12 DEF PubMove

LEMMA TriesKeep == ASSUME TypeInv, PubMove PROVE TriesAreLeft'
<1> USE DEF TypeInv
<1> DEFINE Left(p) ==
        /\ p.status = "refreshing_runtime" \/ (p.status = "published_reload_pending" /\ p.due)
             => p.tries < ReloadTries
        /\ ~p.commit => p.tries = 0
<1>0. Exists => Left(pub) /\ (pub.commit <=> pub.status \in Committed)
  BY DEF TriesAreLeft, StatusSays
<1>1. SUFFICES ASSUME pub' # pub PROVE Left(pub')
  BY <1>0 DEF TriesAreLeft, Exists
<1>2. CASE IsRequested(pub')
  BY <1>2 DEF IsRequested
<1>3. CASE Exists /\ (IsClaimed(pub, pub') \/ IsStopped(pub, pub') \/ IsStarted(pub, pub') \/ IsNoted(pub, pub'))
  BY <1>0, <1>3 DEF IsClaimed, IsStopped, IsStarted, IsNoted, SameRun, SamePlan
<1>4. CASE Exists /\ IsPlanned(pub, pub')
  BY <1>0, <1>4 DEF IsPlanned
<1>5. ASSUME Exists, NEW a \in Assets, NEW done \in BOOLEAN, IsRecorded(pub, pub', a, done) PROVE Left(pub')
  BY <1>0, <1>5 DEF IsRecorded
<1>6. CASE Exists /\ IsCommitted(pub, pub')
  BY <1>0, <1>6, BoundAssumption DEF IsCommitted
<1>7. CASE Exists /\ IsRefreshed(pub, pub')
  BY <1>0, <1>7 DEF IsRefreshed, SamePlan, Committed
<1>8. CASE Exists /\ IsRetried(pub, pub')
  BY <1>0, <1>8, BoundAssumption DEF IsRetried, Resumes, SamePlan, Committed
<1> QED
  BY <1>1, <1>2, <1>3, <1>4, <1>5, <1>6, <1>7, <1>8 DEF PubMove

LEMMA RunsKeep == ASSUME TypeInv, [Next]_vars PROVE RunsKnow'
<1> USE DEF TypeInv
<1>0. PubMove /\ \A v \in Workers : RunMove(v)
  BY PubMoves, RunMoves
<1> SUFFICES ASSUME NEW v \in Workers, IsSnapshot(v)'
             PROVE  (/\ worker[v].step \in {"publish", "begin"} => worker[v].status = "publishing_objects"
                     /\ worker[v].step = "begin" => worker[v].todo = {}
                     /\ worker[v].status = "refreshing_runtime" => worker[v].tries < ReloadTries
                     /\ Holds(v) => worker[v].todo = Unpublished(pub))'
  BY DEF RunsKnow
<1>1. worker'[v] # Idle /\ worker'[v].step # "plan"
  BY DEF IsSnapshot
<1>2. CASE worker'[v] = worker[v]
  <2>1. /\ worker[v].step \in {"publish", "begin"} => worker[v].status = "publishing_objects"
        /\ worker[v].step = "begin" => worker[v].todo = {}
        /\ worker[v].status = "refreshing_runtime" => worker[v].tries < ReloadTries
        /\ Holds(v) => worker[v].todo = Unpublished(pub)
    BY <1>1, <1>2 DEF RunsKnow, IsSnapshot
  <2>2. Holds(v)' => Holds(v) /\ pub'.plan = pub.plan
    BY <1>0, <1>1, <1>2, HeldStays
  <2> QED
    BY <1>2, <2>1, <2>2 DEF Unpublished
<1>3. CASE HasSnapshot(v)
  <2>1. pub'.status = "refreshing_runtime" => pub'.tries < ReloadTries
    BY <1>0, <1>3, TriesKeep DEF HasSnapshot, TriesAreLeft, Exists
  <2>2. worker'[v] = Snapshot(pub', population)
    BY <1>3 DEF HasSnapshot
  <2> QED
    BY <2>1, <2>2 DEF Snapshot
<1>4. CASE HasPlan(v)
  BY <1>1, <1>4 DEF HasPlan
<1>5. CASE GoesOn(v)
  <2>1. worker[v] \in RunRecord /\ worker[v].step = "phase" /\ worker[v].status = "publishing_objects" /\ pub' = pub
    BY <1>5, RunRecords DEF GoesOn
  <2>2. PICK step \in {"begin", "publish"} :
          worker'[v] = [worker[v] EXCEPT !.step = step] /\ (step = "begin" => worker[v].todo = {})
    BY <1>5 DEF GoesOn
  <2>3. /\ worker'[v].step = step /\ worker'[v].status = worker[v].status
        /\ worker'[v].id = worker[v].id /\ worker'[v].todo = worker[v].todo
    BY <2>1, <2>2 DEF RunRecord
  <2>4. Holds(v) => worker[v].todo = Unpublished(pub)
    BY <2>1, RunRecords DEF RunsKnow, IsSnapshot
  <2> QED
    BY <2>1, <2>2, <2>3, <2>4 DEF Holds, Exists, Unpublished
<1>6. CASE HasPublished(v)
  <2>1. worker[v] \in RunRecord /\ worker[v].step = "publish" /\ IsSnapshot(v)
    BY <1>6, RunRecords DEF HasPublished, IsSnapshot
  <2>2. PICK a \in worker[v].todo :
          /\ worker'[v] = [worker[v] EXCEPT !.step = "phase", !.todo = @ \ {a}]
          /\ pub' = IF Holds(v) THEN [pub EXCEPT !.plan.published[a] = TRUE, !.lease.live = TRUE] ELSE pub
    BY <1>6 DEF HasPublished
  <2>3. /\ worker'[v].step = "phase" /\ worker'[v].status = "publishing_objects"
        /\ worker'[v].id = worker[v].id /\ worker'[v].todo = worker[v].todo \ {a}
    BY <2>1, <2>2 DEF RunRecord, RunsKnow
  <2>4. Holds(v) => worker[v].todo = Unpublished(pub) /\ a \in Assets
    BY <2>1, <2>2 DEF RunsKnow, Unpublished
  <2>5. CASE Holds(v)
    <3>1. pub \in PubRecord /\ pub.plan \in PlanRecord /\ pub.plan # NoPlan
      BY <2>2, <2>4, <2>5, PubIsRecord DEF Holds, Unpublished, PubRecord
    <3> DEFINE plan == [pub.plan EXCEPT !.published = [@ EXCEPT ![a] = TRUE]]
               lease == [pub.lease EXCEPT !.live = TRUE]
    <3>2. pub' = [pub EXCEPT !.plan = plan, !.lease = lease]
      BY <2>2, <2>5, <3>1 DEF PubRecord
    <3>3. plan \in PlanRecord /\ \A b \in Assets : plan.published[b] = IF b = a THEN TRUE ELSE pub.plan.published[b]
      BY <2>4, <2>5, <3>1 DEF PlanRecord
    <3> HIDE DEF plan, lease
    <3>4. pub'.plan = plan /\ plan # NoPlan
      BY <3>1, <3>2, <3>3, NameAssumption DEF PubRecord
    <3>5. Unpublished(pub') = Unpublished(pub) \ {a}
      BY <3>1, <3>3, <3>4 DEF Unpublished
    <3> QED
      BY <2>3, <2>4, <2>5, <3>5
  <2>6. CASE ~Holds(v)
    BY <2>2, <2>3, <2>6 DEF Holds, Exists
  <2> QED
    BY <2>5, <2>6
<1> QED
  BY <1>0, <1>1, <1>2, <1>3, <1>4, <1>5, <1>6 DEF RunMove

(* One commit at most, and the publication knows it.                       *)
LEMMA CommitsKeep ==
  ASSUME TypeInv, [Next]_vars
  PROVE  commits' \in 0 .. 1 /\ (Exists' => pub'.commit = (commits' = 1)) /\ (~Exists' => commits' = 0)
<1> USE DEF TypeInv
<1>0. PubMove /\ commits \in 0 .. 1
  BY PubMoves DEF TypeOK
<1>1. ASSUME NEW w \in Workers, Commit(w)
      PROVE  commits' \in 0 .. 1 /\ (Exists' => pub'.commit = (commits' = 1)) /\ (~Exists' => commits' = 0)
  <2>1. commits' = 1 /\ pub'.commit /\ Exists
    BY <1>1, CommitWrites
  <2>2. Exists' /\ pub'.commit \in BOOLEAN
    BY <1>0, <2>1, PubStays DEF Exists, PubRecord
  <2>3. pub'.commit = (commits' = 1)
    BY <2>1, <2>2, Zenon
  <2>4. commits' \in 0 .. 1
    BY <2>1
  <2> QED
    BY <2>2, <2>3, <2>4, Zenon
<1>2. ASSUME ~\E w \in Workers : Commit(w)
      PROVE  commits' \in 0 .. 1 /\ (Exists' => pub'.commit = (commits' = 1)) /\ (~Exists' => commits' = 0)
  <2>1. commits' = commits
    BY <1>2, CommitsMove
  <2>2. CASE pub' = pub
    BY <1>0, <2>1, <2>2 DEF TypeOK, NothingYet, Exists
  <2>3. CASE pub' \in PubRecord /\ IsRequested(pub')
    <3>1. Exists => ~pub.commit
      BY <2>3, PubIsRecord DEF IsRequested, Closed, ClosedBeforeCommit, StatusSays, Committed
    <3>3. Exists => ~(commits = 1)
      <4>1. Exists => pub.commit = (commits = 1)
        BY DEF TypeOK
      <4> QED
        BY <3>1, <4>1, Zenon
    <3>4. commits = 0
      <4>1. Exists => commits = 0
        BY <1>0, <3>3
      <4>2. ~Exists => commits = 0
        BY DEF NothingYet
      <4> QED
        BY <4>1, <4>2
    <3>2. commits = 0 /\ ~pub'.commit
      BY <2>3, <3>4 DEF IsRequested
    <3> QED
      BY <2>1, <2>3, <3>2, NameAssumption DEF Exists, PubRecord
  <2>4. CASE Exists /\ pub' \in PubRecord /\ pub'.commit = pub.commit
    BY <1>0, <2>1, <2>4, NameAssumption DEF TypeOK, Exists
  <2> QED
    BY <1>0, <1>2, <2>2, <2>3, <2>4 DEF PubMove, IsClaimed, IsStopped, IsStarted, IsPlanned, IsRecorded, IsCommitted,
                                      IsRefreshed, IsRetried, IsNoted, SameRun, SamePlan
<1> QED
  BY <1>1, <1>2

(* Only what runs is held.                                                 *)
LEMMA LeaseKeeps ==
  ASSUME TypeInv, PubMove
  PROVE  Exists' => /\ pub'.lease.holder # NoWorker => pub'.status \in Running
                    /\ pub'.lease.live => pub'.lease.holder # NoWorker
<1> USE DEF TypeInv
<1> DEFINE Held(p) == /\ p.lease.holder # NoWorker => p.status \in Running
                      /\ p.lease.live => p.lease.holder # NoWorker
<1>0. Exists => Held(pub)
  BY DEF TypeOK
<1>1. SUFFICES ASSUME pub' # pub PROVE Held(pub')
  BY <1>0 DEF Exists
<1>2. CASE pub'.lease = Free
  BY <1>2 DEF Free
<1>3. CASE IsClaimed(pub, pub')
  BY <1>3, NameAssumption DEF IsClaimed, Running
<1>4. CASE Exists /\ (IsStarted(pub, pub') \/ IsCommitted(pub, pub'))
  BY <1>0, <1>4 DEF IsStarted, IsCommitted, Running
<1>5. CASE Exists /\ IsPlanned(pub, pub')
  BY <1>0, <1>5 DEF IsPlanned, Running
<1>6. ASSUME Exists, NEW a \in Assets, NEW done \in BOOLEAN, IsRecorded(pub, pub', a, done) PROVE Held(pub')
  BY <1>0, <1>2, <1>6 DEF IsRecorded
<1>7. CASE Exists /\ IsNoted(pub, pub')
  BY <1>0, <1>7 DEF IsNoted
<1> QED
  BY <1>1, <1>2, <1>3, <1>4, <1>5, <1>6, <1>7 DEF PubMove, IsRequested, IsStopped, IsRefreshed, IsRetried

LEMMA NextTypeInv == TypeInv /\ [Next]_vars => TypeInv'
<1> SUFFICES ASSUME TypeInv, [Next]_vars PROVE TypeInv'
  OBVIOUS
<1>0. PubMove /\ (\A v \in Workers : RunMove(v)) /\ worker' = [u \in Workers |-> worker'[u]]
  BY PubMoves, RunMoves
<1>1. pub' \in PubRecord \cup {NoPub}
  BY <1>0 DEF PubMove, TypeInv, TypeOK
<1>2. worker' \in [Workers -> RunRecord \cup {Idle}]
  BY <1>0, RunTypes
<1>3. WorldType' /\ StatusSays' /\ TriesAreLeft' /\ RunsKnow'
  BY <1>0, WorldKeeps, StatusKeeps, TriesKeep, RunsKeep
<1>4. TypeOK'
  BY <1>0, <1>1, <1>2, <1>3, CommitsKeep, LeaseKeeps DEF TypeOK, WorldType
<1>5. NothingYet'
  <2>1. SUFFICES ASSUME ~Exists' PROVE (commits = 0)' /\ \A w \in Workers : worker'[w] = Idle
    BY <1>3 DEF NothingYet, WorldType
  <2>2. ~Exists
    BY <1>0, <2>1, PubStays DEF Exists
  <2>3. \A w \in Workers : worker[w] = Idle
    BY <2>2 DEF TypeInv, NothingYet
  <2>4. ASSUME NEW w \in Workers PROVE worker'[w] = Idle
    <3>1. worker[w] = Idle /\ worker[w].step = "idle"
      BY <2>3 DEF Idle
    <3>2. ~HasSnapshot(w) /\ ~HasPlan(w) /\ ~GoesOn(w) /\ ~HasPublished(w)
      BY <2>1, <3>1 DEF HasSnapshot, HasPlan, GoesOn, HasPublished, Exists
    <3> QED
      BY <1>0, <3>1, <3>2 DEF RunMove
  <2> QED
    BY <2>1, <2>4, CommitsKeep
<1> QED
  BY <1>3, <1>4, <1>5 DEF TypeInv

LEMMA TypesHold == Spec => []TypeInv
  BY InitTypeInv, NextTypeInv, PTL DEF Spec

(* Types; reloads stay under the limit, only what runs is held, and a      *)
(* publication commits once (publication.js, the whole worker).            *)
THEOREM TypeCorrect == Spec => []TypeOK
<1>1. TypeInv => TypeOK
  BY DEF TypeInv
<1> QED
  BY <1>1, TypesHold, PTL

-----------------------------------------------------------------------------
LEMMA StepCloses ==
  ASSUME TypeInv, [Next]_vars, Exists
  PROVE  /\ pub.status \in {"cancelled_before_commit", "completed"} /\ pub'.id = pub.id => pub'.status = pub.status
         /\ pub.commit => pub'.id = pub.id /\ pub'.commit
                          /\ pub'.status \in {"refreshing_runtime", "published_reload_pending", "completed"}
<1>0. PubMove /\ (pub.commit => pub.status \in Committed)
  BY PubMoves DEF TypeInv, StatusSays
<1>1. pub'.commit => pub'.status \in Committed
  BY <1>0, StatusKeeps, PubStays DEF StatusSays, Exists
<1>2. ASSUME pub.status \in {"cancelled_before_commit", "completed"}, pub'.id = pub.id PROVE pub'.status = pub.status
  BY <1>0, <1>2 DEF PubMove, IsRequested, IsClaimed, IsStopped, IsStarted, IsPlanned, IsRecorded, IsCommitted,
                   IsRefreshed, IsRetried, IsNoted, Running, Cancellable, Resumes
<1>3. ASSUME pub.commit PROVE pub'.id = pub.id /\ pub'.commit
  BY <1>0, <1>3 DEF PubMove, IsRequested, IsClaimed, IsStopped, IsStarted, IsPlanned, IsRecorded, IsCommitted,
                   IsRefreshed, IsRetried, IsNoted, SameRun, SamePlan, Closed, ClosedBeforeCommit, Committed
<1> QED
  BY <1>1, <1>2, <1>3 DEF Committed

(* What ended stays ended, and a commit stands.                            *)
THEOREM ClosesForGood == Spec => ClosedForGood
<1>1. TypeInv /\ [Next]_vars =>
        [Exists =>
           /\ pub.status \in {"cancelled_before_commit", "completed"} /\ pub'.id = pub.id => pub'.status = pub.status
           /\ pub.commit => pub'.id = pub.id /\ pub'.commit
                            /\ pub'.status \in {"refreshing_runtime", "published_reload_pending", "completed"}]_vars
  BY StepCloses
<1> QED
  BY <1>1, TypesHold, PTL DEF Spec, ClosedForGood

LEMMA StepHoldsPlan ==
  ASSUME TypeInv, [Next]_vars
  PROVE  /\ Exists /\ pub'.id = pub.id /\ pub.plan # NoPlan
               => pub'.plan # NoPlan /\ PlanOf(pub') = PlanOf(pub) /\ Unpublished(pub') \subseteq Unpublished(pub)
         /\ Exists /\ pub'.status \in PastObjects => pub'.plan # NoPlan /\ Unpublished(pub') = {}
<1>0. PubMove /\ (Exists => pub' # NoPub)
  BY PubMoves, PubStays
<1>1. Exists /\ pub'.status \in PastObjects => pub'.plan # NoPlan /\ Unpublished(pub') = {}
  BY <1>0, StatusKeeps DEF StatusSays, Exists, PastObjects, Unplanned, Unpublished
<1>2. SUFFICES ASSUME Exists, pub'.id = pub.id, pub.plan # NoPlan
               PROVE  pub'.plan # NoPlan /\ PlanOf(pub') = PlanOf(pub) /\ Unpublished(pub') \subseteq Unpublished(pub)
  BY <1>1
<1>3. CASE pub'.plan = pub.plan
  BY <1>2, <1>3 DEF PlanOf, Unpublished
<1>4. ASSUME pub' \in PubRecord, NEW a \in Assets, NEW done \in BOOLEAN, IsRecorded(pub, pub', a, done)
      PROVE  pub'.plan # NoPlan /\ PlanOf(pub') = PlanOf(pub) /\ Unpublished(pub') \subseteq Unpublished(pub)
  BY <1>2, <1>4, RecordedPlans
<1>5. ~IsPlanned(pub, pub') /\ ~IsRequested(pub')
  BY <1>2 DEF IsPlanned, IsRequested, TypeInv, StatusSays, Unplanned
<1> QED
  BY <1>0, <1>2, <1>3, <1>4, <1>5 DEF PubMove, IsClaimed, IsStopped, IsStarted, IsCommitted,
                   IsRefreshed, IsRetried, IsNoted, SameRun, SamePlan

(* The manifest freezes with the preflight, and is published whole before  *)
(* the commit, whichever worker, late or current, writes it.               *)
THEOREM PlanIsHeld == Spec => PlanHolds
<1>1. TypeInv /\ [Next]_vars =>
        [/\ Exists /\ pub'.id = pub.id /\ pub.plan # NoPlan
               => pub'.plan # NoPlan /\ PlanOf(pub') = PlanOf(pub) /\ Unpublished(pub') \subseteq Unpublished(pub)
         /\ Exists /\ pub'.status \in PastObjects => pub'.plan # NoPlan /\ Unpublished(pub') = {}]_vars
  BY StepHoldsPlan
<1> QED
  BY <1>1, TypesHold, PTL DEF Spec, PlanHolds

-----------------------------------------------------------------------------
(***************************************************************************)
(* The commit compares the revision of the population it read with that of *)
(* its plan, not the drafts.  Two who read the same revision read the same *)
(* draft, for every edit of the draft moves the revision.                  *)
(***************************************************************************)
Latest == <<population.revision, population.draft>>
PlanSees(plan) == IF plan = NoPlan THEN {} ELSE {<<plan.revision, plan.draft>>}
RunSees(w) ==
    IF worker[w] = Idle THEN {}
    ELSE IF worker[w].step = "plan" THEN PlanSees(worker[w].plan)
    ELSE {<<worker[w].revision, worker[w].draft>>}
PubSees == IF Exists THEN PlanSees(pub.plan) ELSE {}
Seen == {Latest} \cup PubSees \cup UNION {RunSees(w) : w \in Workers}

OneDraft == \A s \in Seen : s[1] \in Nat /\ s[1] <= population.revision /\ \A t \in Seen : s[1] = t[1] => s[2] = t[2]

OfItsMap(plan) == plan # NoPlan /\ plan.draft # NoDraft => plan.draft.base = plan.map
PlansOfMap ==
    /\ Exists => OfItsMap(pub.plan)
    /\ \A w \in Workers : worker[w] # Idle /\ worker[w].step = "plan" => OfItsMap(worker[w].plan)

ReadInv == TypeInv /\ OneDraft /\ PlansOfMap

LEMMA InitReadInv == Init => ReadInv
<1> SUFFICES ASSUME Init PROVE OneDraft /\ PlansOfMap
  BY InitTypeInv DEF ReadInv
<1>1. ~Exists /\ (\A w \in Workers : worker[w] = Idle) /\ population.revision = 1
  BY DEF Init, Exists
<1>2. Seen = {Latest}
  BY <1>1 DEF Seen, PubSees, RunSees
<1> QED
  BY <1>1, <1>2 DEF OneDraft, PlansOfMap, Latest

(* An edit of the population moves its revision.                           *)
LEMMA PopulationMoves ==
  ASSUME TypeInv, [Next]_vars
  PROVE  Latest' = Latest \/ population'.revision = population.revision + 1
<1>0. population \in PopulationRecord
  BY DEF TypeInv, TypeOK, PopulationRecord
<1>1. CASE population' = population
  BY <1>1 DEF Latest
<1>2. ASSUME NEW w \in Workers, WorkerStep(w) \/ WorkerStops(w) PROVE population' = population
  BY <1>2 DEF WorkerStep, WorkerStops, Claim, CancelPhase, Start, Preflight, WritePlan, Checkpoint, PublishAsset,
              PublishFails, BeginCommit, Commit, CommitFails, Refresh
<1>3. ASSUME NEW m \in Moderators, AskPublish(m) \/ RequestPublication(m) \/ RetryPublication(m) \/ AskCancel(m)
                                   \/ CancelPublication(m)
                                   \/ \E step \in {"discard", "rebase", "cancel"} : AskOpen(m, step)
      PROVE  population' = population
  BY <1>3 DEF AskPublish, RequestPublication, RetryPublication, AskCancel, CancelPublication, AskOpen, Reads
<1>4. ASSUME NEW m \in Moderators, SaveDraft(m) \/ EditTargets(m) \/ DiscardDraft(m)
      PROVE  population'.revision = population.revision + 1
  BY <1>0, <1>4 DEF SaveDraft, EditTargets, DiscardDraft, PopulationRecord
<1>5. ASSUME NEW m \in Moderators, RebaseDraft(m)
      PROVE  population' = population \/ population'.revision = population.revision + 1
  BY <1>0, <1>5 DEF RebaseDraft, PopulationRecord
<1>6. ASSUME NEW m \in Moderators, CancelPopulation(m) PROVE Latest' = Latest
  BY <1>0, <1>6 DEF CancelPopulation, PopulationRecord, Latest
<1>7. ASSUME Others \/ ExpireLeft \/ ExpireHeld \/ UNCHANGED vars PROVE population' = population
  BY <1>7 DEF Others, EditMap, BindElsewhere, OpenItem, ApproveItem, Moves, ExpireLeft, ExpireHeld, vars
<1> QED
  BY <1>1, <1>2, <1>3, <1>4, <1>5, <1>6, <1>7 DEF Next, ModeratorStep

(* Plans and runs hold what somebody saw.                                  *)
LEMMA RunSaw ==
  ASSUME TypeInv, NEW v \in Workers, RunMove(v)
  PROVE  RunSees(v)' \subseteq RunSees(v) \cup {Latest}
<1> USE DEF TypeInv
<1>1. CASE worker'[v] = worker[v] \/ worker'[v] = Idle
  BY <1>1 DEF RunSees, PlanSees
<1>2. CASE HasSnapshot(v)
  BY <1>2 DEF HasSnapshot, Snapshot, RunSees, Latest
<1>3. CASE HasPlan(v)
  <2>1. worker[v] # Idle /\ worker[v].step = "phase"
    BY <1>3, RunRecords DEF HasPlan
  <2>2. RunSees(v) = {<<worker[v].revision, worker[v].draft>>}
    BY <2>1 DEF RunSees
  <2>3. /\ worker'[v].step = "plan"
        /\ worker'[v].plan = NoPlan
           \/ (worker'[v].plan.revision = worker[v].revision /\ worker'[v].plan.draft = worker[v].draft)
    BY <1>3 DEF HasPlan
  <2>4. RunSees(v)' \subseteq {<<worker[v].revision, worker[v].draft>>}
    BY <2>3 DEF RunSees, PlanSees
  <2> QED
    BY <2>2, <2>4
<1>4. CASE GoesOn(v) \/ HasPublished(v)
  <2>1. worker[v] \in RunRecord /\ worker[v] # Idle /\ worker[v].step \in {"phase", "publish"}
    BY <1>4, RunRecords DEF GoesOn, HasPublished
  <2>2. \E step, todo : worker'[v] = [worker[v] EXCEPT !.step = step, !.todo = todo] /\ step # "plan"
    <3>1. CASE GoesOn(v)
      <4>1. PICK step \in {"begin", "publish"} : worker'[v] = [worker[v] EXCEPT !.step = step]
        BY <3>1 DEF GoesOn
      <4>2. worker'[v] = [worker[v] EXCEPT !.step = step, !.todo = worker[v].todo]
        BY <2>1, <4>1 DEF RunRecord
      <4> QED
        BY <4>2
    <3>2. CASE HasPublished(v)
      <4>1. PICK a \in worker[v].todo : worker'[v] = [worker[v] EXCEPT !.step = "phase", !.todo = @ \ {a}]
        BY <3>2 DEF HasPublished
      <4>2. worker'[v] = [worker[v] EXCEPT !.step = "phase", !.todo = worker[v].todo \ {a}]
        BY <4>1
      <4>3. "phase" # "plan"
        OBVIOUS
      <4> QED
        BY <4>2, <4>3
    <3> QED
      BY <1>4, <3>1, <3>2
  <2>3. worker'[v].step # "plan" /\ worker'[v].revision = worker[v].revision /\ worker'[v].draft = worker[v].draft
    BY <2>1, <2>2 DEF RunRecord
  <2> QED
    BY <2>1, <2>3 DEF RunSees
<1> QED
  BY <1>1, <1>2, <1>3, <1>4 DEF RunMove

LEMMA PubSaw ==
  ASSUME TypeInv, PubMove
  PROVE  PubSees' \subseteq Seen
<1> USE DEF TypeInv
<1>1. CASE pub' = pub
  BY <1>1 DEF PubSees, PlanSees, Seen, Exists
<1>2. CASE pub'.plan = NoPlan
  BY <1>2 DEF PubSees, PlanSees
<1>3. CASE Exists /\ pub'.plan = pub.plan
  BY <1>3 DEF PubSees, PlanSees, Seen
<1>4. CASE IsPlanned(pub, pub')
  <2>1. PICK w \in Workers : worker[w].step = "plan" /\ pub'.plan = worker[w].plan
    BY <1>4 DEF IsPlanned
  <2>2. RunSees(w) = PlanSees(pub'.plan)
    BY <2>1, RunRecords DEF RunSees
  <2> QED
    BY <2>2 DEF PubSees, PlanSees, Seen
<1>5. ASSUME Exists, pub' \in PubRecord, NEW a \in Assets, NEW done \in BOOLEAN, IsRecorded(pub, pub', a, done)
      PROVE  PubSees' \subseteq Seen
  <2>1. /\ pub.plan \in PlanRecord /\ pub.plan # NoPlan
        /\ pub'.plan = [pub.plan EXCEPT !.published = [@ EXCEPT ![a] = done]]
    BY <1>5, RecordedPlans DEF IsRecorded
  <2>2. pub'.plan.revision = pub.plan.revision /\ pub'.plan.draft = pub.plan.draft
    BY <2>1 DEF PlanRecord
  <2> QED
    BY <1>5, <2>1, <2>2 DEF PubSees, PlanSees, Seen
<1> QED
  BY <1>1, <1>2, <1>3, <1>4, <1>5 DEF PubMove, IsRequested, IsClaimed, IsStopped, IsStarted, IsCommitted,
                   IsRefreshed, IsRetried, IsNoted, SameRun, SamePlan

LEMMA OneDraftKeeps == ASSUME ReadInv, [Next]_vars PROVE OneDraft'
<1> USE DEF ReadInv
<1>1. Seen' \subseteq Seen \cup {Latest'}
  <2>1. \A v \in Workers : RunSees(v)' \subseteq Seen
    BY RunMoves, RunSaw DEF Seen
  <2> QED
    BY <2>1, PubMoves, PubSaw DEF Seen
<1>2. Latest \in Seen /\ Latest[1] = population.revision /\ Latest'[1] = population'.revision
  BY DEF Latest, Seen
<1>3. population.revision \in Nat
  BY DEF TypeInv, TypeOK
<1>4. CASE Latest' = Latest
  BY <1>1, <1>2, <1>4 DEF OneDraft
<1>5. CASE population'.revision = population.revision + 1
  <2>1. \A s \in Seen : s[1] \in Nat /\ s[1] <= population.revision
    BY DEF OneDraft
  <2>2. ASSUME NEW s \in Seen' PROVE s[1] \in Nat /\ s[1] <= population'.revision
    BY <1>1, <1>2, <1>3, <1>5, <2>1, <2>2
  <2>3. ASSUME NEW s \in Seen', NEW t \in Seen', s[1] = t[1] PROVE s[2] = t[2]
    <3>1. CASE s \in Seen /\ t \in Seen
      BY <2>3, <3>1 DEF OneDraft
    <3>2. ASSUME NEW u \in Seen PROVE u[1] # Latest'[1]
      <4>1. u[1] \in Nat /\ u[1] <= population.revision
        BY <2>1
      <4> QED
        BY <1>2, <1>3, <1>5, <4>1
    <3> QED
      BY <1>1, <2>3, <3>1, <3>2
  <2> QED
    BY <2>2, <2>3 DEF OneDraft
<1> QED
  BY <1>4, <1>5, PopulationMoves

LEMMA PlansKeep == ASSUME ReadInv, [Next]_vars PROVE PlansOfMap'
<1> USE DEF ReadInv, TypeInv
<1>0. PubMove /\ \A v \in Workers : RunMove(v)
  BY PubMoves, RunMoves
<1>1. ASSUME NEW v \in Workers, worker'[v] # Idle, worker'[v].step = "plan" PROVE OfItsMap(worker'[v].plan)
  <2>1. CASE worker'[v] = worker[v]
    BY <1>1, <2>1 DEF PlansOfMap
  <2>2. CASE HasSnapshot(v)
    BY <1>1, <2>2 DEF HasSnapshot, Snapshot
  <2>3. CASE HasPlan(v)
    BY <2>3 DEF HasPlan, OfItsMap, Ready
  <2>4. CASE GoesOn(v)
    <3>1. worker[v] \in RunRecord /\ worker[v].step = "phase"
      BY <2>4, RunRecords DEF GoesOn
    <3> QED
      BY <1>1, <2>4, <3>1 DEF GoesOn, RunRecord
  <2>5. CASE HasPublished(v)
    <3>1. worker[v] \in RunRecord /\ worker[v].step = "publish"
      BY <2>5, RunRecords DEF HasPublished
    <3> QED
      BY <1>1, <2>5, <3>1 DEF HasPublished, RunRecord
  <2> QED
    BY <1>0, <1>1, <2>1, <2>2, <2>3, <2>4, <2>5 DEF RunMove
<1>2. ASSUME Exists' PROVE OfItsMap(pub'.plan)
  <2>1. CASE pub' = pub \/ (Exists /\ pub'.plan = pub.plan)
    BY <1>2, <2>1 DEF PlansOfMap, Exists
  <2>2. CASE pub'.plan = NoPlan
    BY <2>2 DEF OfItsMap
  <2>3. CASE IsPlanned(pub, pub')
    BY <2>3, RunRecords DEF IsPlanned, PlansOfMap
  <2>4. ASSUME Exists, pub' \in PubRecord, NEW a \in Assets, NEW done \in BOOLEAN, IsRecorded(pub, pub', a, done)
        PROVE  OfItsMap(pub'.plan)
    <3>1. /\ pub.plan \in PlanRecord /\ pub.plan # NoPlan
          /\ pub'.plan = [pub.plan EXCEPT !.published = [@ EXCEPT ![a] = done]]
      BY <2>4, RecordedPlans DEF IsRecorded
    <3>2. pub'.plan.map = pub.plan.map /\ pub'.plan.draft = pub.plan.draft
      BY <3>1 DEF PlanRecord
    <3> QED
      BY <2>4, <3>1, <3>2 DEF PlansOfMap, OfItsMap
  <2> QED
    BY <1>0, <2>1, <2>2, <2>3, <2>4 DEF PubMove, IsRequested, IsClaimed, IsStopped, IsStarted, IsCommitted,
                   IsRefreshed, IsRetried, IsNoted, SameRun, SamePlan
<1> QED
  BY <1>1, <1>2 DEF PlansOfMap

LEMMA StepCommits ==
  ASSUME ReadInv, [Next]_vars, commits' # commits
  PROVE  /\ commits = 0 /\ ~pub.commit
         /\ \A t \in Targets : binding[t] = pub.plan.bindings[t]
         /\ pub.plan.draft # NoDraft => pub.plan.draft.base = map /\ map' = map + 1
         /\ pub.plan.draft = NoDraft => map' = map
         /\ \A i \in Items : entry[i] = "approved"
<1> USE DEF ReadInv
<1>1. PICK w \in Workers : Commit(w)
  BY CommitsMove
<1>2. /\ Exists /\ ~pub.commit /\ pub.status = "committing_runtime"
      /\ worker[w].revision = pub.plan.revision /\ Unmoved(pub.plan, worker[w].draft)
      /\ \A i \in Items : entry[i] = "approved"
      /\ map' = IF worker[w].draft # NoDraft THEN map + 1 ELSE map
      /\ worker[w].step = "phase"
  BY <1>1 DEF Commit, MayCommit, MayMove, Holds, In
<1>3. commits = 0
  BY <1>1, CommitWrites
<1>4. pub.plan # NoPlan
  BY <1>2 DEF TypeInv, StatusSays, Unplanned
<1>5. worker[w].draft = pub.plan.draft
  <2>1. worker[w] # Idle
    BY <1>2, RunRecords DEF TypeInv
  <2>2. <<worker[w].revision, worker[w].draft>> \in RunSees(w)
    BY <1>2, <2>1 DEF RunSees
  <2>3. <<worker[w].revision, worker[w].draft>> \in Seen /\ <<pub.plan.revision, pub.plan.draft>> \in Seen
    BY <1>2, <1>4, <2>2 DEF Seen, PubSees, PlanSees
  <2> QED
    BY <1>2, <2>3 DEF OneDraft
<1>6. pub.plan.draft # NoDraft => pub.plan.draft.base = pub.plan.map
  BY <1>2, <1>4 DEF PlansOfMap, OfItsMap
<1> QED
  BY <1>2, <1>3, <1>5, <1>6 DEF Unmoved

LEMMA ReadsHold == Spec => []ReadInv
<1>1. ReadInv /\ [Next]_vars => ReadInv'
  BY NextTypeInv, OneDraftKeeps, PlansKeep DEF ReadInv
<1> QED
  BY <1>1, InitReadInv, PTL DEF Spec

(* The commit applies once, over the bindings and the map its preflight    *)
(* read, with a draft that starts from the map it replaces.                *)
THEOREM CommitsWhatItRead == Spec => CommitsOverWhatItRead
<1>1. ReadInv /\ [Next]_vars =>
        [commits' # commits =>
           /\ commits = 0 /\ ~pub.commit
           /\ \A t \in Targets : binding[t] = pub.plan.bindings[t]
           /\ pub.plan.draft # NoDraft => pub.plan.draft.base = map /\ map' = map + 1
           /\ pub.plan.draft = NoDraft => map' = map
           /\ \A i \in Items : entry[i] = "approved"]_vars
  BY StepCommits
<1> QED
  BY <1>1, ReadsHold, PTL DEF Spec, CommitsOverWhatItRead

===============================================================================
