----------------------------- MODULE Publication -----------------------------
(***************************************************************************)
(* The publication of one map population (projects/cyberia/procedural/     *)
(* population/publication.js): moderators request, retry and cancel it,    *)
(* workers run its phases under a lease, and other moderators edit the     *)
(* population, its items, the catalog and the map meanwhile                *)
(* (population.js).                                                        *)
(*                                                                         *)
(* Every write of the population document is one update with its filter,   *)
(* and a step; a worker decides by the snapshot it read after its last     *)
(* phase.  A request whose filter compares what it decided by is one step; *)
(* the others are two.  A step of a worker ends in its next read.          *)
(***************************************************************************)
EXTENDS Integers, FiniteSets

CONSTANTS Assets,                \* targets whose artwork the publication binds
          Authored,              \* those authored by hand; the others are items of jobs
          Kept,                  \* targets that keep the artwork they run
          Workers, Moderators,
          NoPub, NoPlan, NoDraft, NoWorker,
          ReloadTries,           \* RELOAD_TRIES
          MaxCalls,              \* bound: requests of moderators
          MaxMoves,              \* bound: binds, edits of the map and items opened by others
          MaxLapses              \* bound: workers that stop, and leases that end before their run

Targets == Assets \cup Kept
Items == Assets \ Authored

ASSUME SetAssumption == Authored \subseteq Assets /\ Assets \cap Kept = {}
ASSUME BoundAssumption ==
    ReloadTries \in Nat \ {0} /\ MaxCalls \in Nat /\ MaxMoves \in Nat /\ MaxLapses \in Nat

Running == {"queued", "preflight", "publishing_objects", "committing_runtime", "refreshing_runtime"}
Failed == {"preflight_failed", "objects_publish_failed", "runtime_commit_failed"}
Status == Running \cup Failed \cup {"published_reload_pending", "completed", "cancelled_before_commit"}
ClosedBeforeCommit == {"preflight_failed", "cancelled_before_commit"}
Cancellable == {"queued", "preflight", "publishing_objects", "objects_publish_failed", "runtime_commit_failed"}

Resumes ==
    [preflight_failed |-> "queued", objects_publish_failed |-> "publishing_objects",
     runtime_commit_failed |-> "committing_runtime", published_reload_pending |-> "refreshing_runtime"]

VARIABLES
    population,  \* CyberiaProceduralPopulation: revision, draft, cancelledAt set
    pub,         \* its publication, or NoPub
    map,         \* the revision of the CyberiaMap
    binding,     \* the binding revision of each target in the catalog; 0 is the one its item read
    entry,       \* the status of the job item each item target selected
    commits,     \* the commits that applied
    worker,      \* the run of each worker: the phase of its snapshot
    call,        \* the request each moderator waits for
    asked, moves, lapses   \* what the bounds count

vars == <<population, pub, map, binding, entry, commits, worker, call, asked, moves, lapses>>
world == <<map, binding, entry, commits>>
counters == <<asked, moves, lapses>>

Idle == [step |-> "idle"]

DraftRecord == [revision : Nat \ {0}, base : Nat \ {0}]
Drafts == DraftRecord \cup {NoDraft}
PlanRecord ==
    [revision : Nat \ {0}, draft : Drafts, map : Nat \ {0}, bindings : [Targets -> Nat],
     published : [Assets -> BOOLEAN]]
PubRecord ==
    [id : Nat \ {0}, status : Status, lease : [holder : Workers \cup {NoWorker}, live : BOOLEAN],
     cancel : BOOLEAN, tries : 0 .. ReloadTries, due : BOOLEAN, plan : PlanRecord \cup {NoPlan},
     commit : BOOLEAN, retryable : BOOLEAN]

(* The names of what is absent differ from what is there.                  *)
ASSUME NameAssumption ==
    NoDraft \notin DraftRecord /\ NoPlan \notin PlanRecord /\ NoPub \notin PubRecord /\ NoWorker \notin Workers

Init ==
    /\ population = [revision |-> 1, draft |-> NoDraft, cancelled |-> FALSE]
    /\ pub = NoPub
    /\ map = 1
    /\ binding = [t \in Targets |-> 0]
    /\ entry = [i \in Items |-> "approved"]
    /\ commits = 0
    /\ worker = [w \in Workers |-> Idle]
    /\ call = [m \in Moderators |-> Idle]
    /\ asked = 0 /\ moves = 0 /\ lapses = 0

Exists == pub # NoPub
Closed == Exists => pub.status \in ClosedBeforeCommit
Open == ~population.cancelled /\ Closed

(***************************************************************************)
(* The worker.  `transition` moves the publication only while its holder   *)
(* and its status are those of the run.                                    *)
(***************************************************************************)
Free == [holder |-> NoWorker, live |-> FALSE]
Holds(w) == Exists /\ pub.id = worker[w].id /\ pub.lease.holder = w
Unpublished(p) == IF p.plan = NoPlan THEN {} ELSE {a \in Assets : ~p.plan.published[a]}

(* What advancePublication reads before a phase.                           *)
Snapshot(p, q) ==
    [step |-> "phase", id |-> p.id, status |-> p.status, cancel |-> p.cancel, tries |-> p.tries,
     todo |-> Unpublished(p), revision |-> q.revision, draft |-> q.draft]

(* It goes on after a phase that moved a publication it still holds.       *)
Rereads(w) ==
    LET goesOn == pub'.status \in Running /\ pub'.lease.holder = w /\ pub'.status # worker[w].status
    IN  worker' = [worker EXCEPT ![w] = IF goesOn THEN Snapshot(pub', population) ELSE Idle]

GoesTo(w, step) == worker' = [worker EXCEPT ![w].step = step]
In(w, step, status) == worker[w].step = step /\ worker[w].status = status

(* Mutant: a move compares only the publication.                           *)
MayMoveAny(w, from) == Exists /\ pub.id = worker[w].id

MayMove(w, from) == Holds(w) /\ pub.status = from

Transition(w, from, moved) == pub' = IF MayMove(w, from) THEN moved ELSE pub
Stopped(status, retryable) == [pub EXCEPT !.status = status, !.lease = Free, !.retryable = retryable]

(* Mutant: only a publication nobody holds is claimed.                     *)
ClaimableFree == Exists /\ pub.status \in Running /\ pub.lease = Free

Claimable == Exists /\ pub.status \in Running /\ ~pub.lease.live

Due == Exists /\ pub.status = "published_reload_pending" /\ pub.due

Claim(w) ==
    LET lease == [holder |-> w, live |-> TRUE]
    IN  /\ worker[w] = Idle
        /\ \/ Claimable /\ pub' = [pub EXCEPT !.lease = lease]
           \/ Due /\ pub' = [pub EXCEPT !.lease = lease, !.status = "refreshing_runtime"]
        /\ worker' = [worker EXCEPT ![w] = Snapshot(pub', population)]
        /\ UNCHANGED <<population, world, call, counters>>

(* advancePublication cancels what its snapshot asks to cancel.            *)
CancelPhase(w) ==
    LET from == worker[w].status
    IN  /\ worker[w].step = "phase" /\ worker[w].cancel /\ from \in Cancellable
        /\ Transition(w, from, Stopped("cancelled_before_commit", TRUE))
        /\ Rereads(w)
        /\ UNCHANGED <<population, world, call, counters>>

Start(w) ==
    /\ In(w, "phase", "queued") /\ ~worker[w].cancel
    /\ Transition(w, "queued", [pub EXCEPT !.status = "preflight"])
    /\ Rereads(w)
    /\ UNCHANGED <<population, world, call, counters>>

(* The preflight reads what it checks and freezes it in a plan, or finds   *)
(* problems: those it reads here, or others (`sound` is FALSE).            *)
Ready(draft) ==
    /\ draft # NoDraft => map = draft.base
    /\ \A i \in Items : entry[i] = "approved"
    /\ \A t \in Targets : binding[t] = 0

Preflight(w, sound) ==
    LET draft == worker[w].draft
        plan == [revision |-> worker[w].revision, draft |-> draft, map |-> map, bindings |-> binding,
                 published |-> [a \in Assets |-> FALSE]]
    IN  /\ In(w, "phase", "preflight") /\ ~worker[w].cancel
        /\ worker' = [worker EXCEPT ![w] =
               [step |-> "plan", id |-> @.id, status |-> @.status, plan |-> IF sound /\ Ready(draft) THEN plan ELSE NoPlan]]
        /\ UNCHANGED <<population, pub, world, call, counters>>

WritePlan(w) ==
    LET plan == worker[w].plan
    IN  /\ worker[w].step = "plan"
        /\ Transition(w, "preflight", IF plan = NoPlan THEN Stopped("preflight_failed", TRUE)
                                      ELSE [pub EXCEPT !.status = "publishing_objects", !.plan = plan])
        /\ Rereads(w)
        /\ UNCHANGED <<population, world, call, counters>>

(* Before each asset, and after the last.                                  *)
Checkpoint(w) ==
    LET holds == MayMove(w, "publishing_objects")
    IN  /\ In(w, "phase", "publishing_objects") /\ ~worker[w].cancel
        /\ IF holds /\ ~pub.cancel
           THEN UNCHANGED pub /\ GoesTo(w, IF worker[w].todo = {} THEN "begin" ELSE "publish")
           ELSE /\ Transition(w, "publishing_objects", IF pub.cancel THEN Stopped("cancelled_before_commit", TRUE) ELSE pub)
                /\ Rereads(w)
        /\ UNCHANGED <<population, world, call, counters>>

(* Mutant: the result of an asset is recorded whoever holds the lease.     *)
RecordsAlways(w) == Exists /\ pub.plan # NoPlan

Records(w) == Holds(w)

PublishAsset(w, a) ==
    /\ worker[w].step = "publish" /\ a \in worker[w].todo
    /\ pub' = IF Records(w) THEN [pub EXCEPT !.plan.published[a] = TRUE, !.lease.live = TRUE] ELSE pub
    /\ worker' = [worker EXCEPT ![w].step = "phase", ![w].todo = @ \ {a}]
    /\ UNCHANGED <<population, world, call, counters>>

(* The failed asset is recorded, then the publication stops.               *)
PublishFails(w, a, retryable) ==
    /\ worker[w].step = "publish" /\ a \in worker[w].todo
    /\ LET failed == [pub EXCEPT !.plan.published[a] = FALSE]
       IN  pub' = IF MayMove(w, "publishing_objects")
                  THEN [failed EXCEPT !.status = "objects_publish_failed", !.lease = Free, !.retryable = retryable]
                  ELSE IF Records(w) THEN failed ELSE pub
    /\ Rereads(w)
    /\ UNCHANGED <<population, world, call, counters>>

BeginCommit(w) ==
    /\ worker[w].step = "begin"
    /\ Transition(w, "publishing_objects", [pub EXCEPT !.status = "committing_runtime"])
    /\ Rereads(w)
    /\ UNCHANGED <<population, world, call, counters>>

(* The transaction of commitRuntime.  The revisions of the population and  *)
(* of its draft are those of the snapshot; the rest is read inside.        *)
(* Mutant: the bindings and the map are not compared with the plan.        *)
UnmovedAny(plan, draft) == TRUE

Unmoved(plan, draft) ==
    /\ \A t \in Targets : binding[t] = plan.bindings[t]
    /\ draft # NoDraft => map = plan.map

MayCommit(w) ==
    LET plan == pub.plan  \* that of the snapshot too: see PlanHolds
        draft == worker[w].draft
    IN  /\ MayMove(w, "committing_runtime") /\ ~pub.commit
        /\ worker[w].revision = plan.revision
        /\ draft # NoDraft => plan.draft # NoDraft /\ draft.revision = plan.draft.revision
        /\ Unmoved(plan, draft)
        /\ \A i \in Items : entry[i] = "approved"

Commit(w) ==
    /\ In(w, "phase", "committing_runtime") /\ MayCommit(w)
    /\ binding' = [t \in Targets |-> IF t \in Assets THEN binding[t] + 1 ELSE binding[t]]
    /\ entry' = [i \in Items |-> "promoted"]
    /\ map' = IF worker[w].draft # NoDraft THEN map + 1 ELSE map
    /\ commits' = commits + 1
    /\ pub' = [pub EXCEPT !.commit = TRUE, !.status = "refreshing_runtime"]
    /\ Rereads(w)
    /\ UNCHANGED <<population, call, counters>>

(* A conflict needs a repair; another error may pass on a retry.           *)
CommitFails(w, conflict) ==
    /\ In(w, "phase", "committing_runtime") /\ (conflict => ~MayCommit(w))
    /\ Transition(w, "committing_runtime", Stopped("runtime_commit_failed", ~conflict))
    /\ Rereads(w)
    /\ UNCHANGED <<population, world, call, counters>>

(* The reloads are tried again until the limit.                            *)
(* Mutant: one reload more than the limit is due.                          *)
TriesLeftOffByOne(tries) == tries <= ReloadTries

TriesLeft(tries) == tries < ReloadTries

Refresh(w, missed) ==
    LET tries == worker[w].tries + 1
    IN  /\ In(w, "phase", "refreshing_runtime")
        /\ Transition(w, "refreshing_runtime",
              IF missed THEN [Stopped("published_reload_pending", TRUE) EXCEPT !.tries = tries, !.due = TriesLeft(tries)]
              ELSE [Stopped("completed", TRUE) EXCEPT !.due = FALSE])
        /\ Rereads(w)
        /\ UNCHANGED <<population, world, call, counters>>

(* A worker stops, or its request of the database or of the authority      *)
(* fails; the lease it leaves expires.  A slow worker outlives its lease.  *)
Lapses == lapses < MaxLapses /\ lapses' = lapses + 1
LeaseExpires == Exists /\ pub.lease.live /\ pub' = [pub EXCEPT !.lease.live = FALSE]

WorkerStops(w) ==
    /\ worker[w] # Idle /\ Lapses
    /\ worker' = [worker EXCEPT ![w] = Idle]
    /\ UNCHANGED <<population, pub, world, call, asked, moves>>

ExpireLeft ==
    /\ LeaseExpires /\ worker[pub.lease.holder] = Idle
    /\ UNCHANGED <<population, world, worker, call, counters>>

ExpireHeld ==
    /\ LeaseExpires /\ worker[pub.lease.holder] # Idle /\ Lapses
    /\ UNCHANGED <<population, world, worker, call, asked, moves>>

WorkerStep(w) ==
    \/ Claim(w) \/ CancelPhase(w) \/ Start(w) \/ WritePlan(w) \/ Checkpoint(w) \/ BeginCommit(w) \/ Commit(w)
    \/ \E sound \in BOOLEAN : Preflight(w, sound)
    \/ \E a \in Assets : PublishAsset(w, a) \/ \E retryable \in BOOLEAN : PublishFails(w, a, retryable)
    \/ \E conflict \in BOOLEAN : CommitFails(w, conflict)
    \/ \E missed \in BOOLEAN : Refresh(w, missed)

(***************************************************************************)
(* Moderators.  A request that is refused changes nothing.                 *)
(***************************************************************************)
Asks(m, next) ==
    /\ call[m] = Idle /\ asked < MaxCalls
    /\ call' = [call EXCEPT ![m] = next]
    /\ asked' = asked + 1
    /\ UNCHANGED <<moves, lapses>>
Ends(m) == call' = [call EXCEPT ![m] = Idle] /\ UNCHANGED counters
Reads(m, next) == Asks(m, next) /\ UNCHANGED <<population, pub, world, worker>>

(* requestPublication reads a population it may publish, then starts the   *)
(* publication at the revision the moderator reviewed.                     *)
AskPublish(m) ==
    /\ Open /\ \A i \in Items : entry[i] = "approved"
    /\ Reads(m, [step |-> "publish", revision |-> population.revision])

RequestPublication(m) ==
    /\ call[m].step = "publish"
    /\ pub' = IF population.revision = call[m].revision /\ Closed
              THEN [id |-> IF Exists THEN pub.id + 1 ELSE 1, status |-> "queued", lease |-> Free, cancel |-> FALSE,
                    tries |-> 0, due |-> FALSE, plan |-> NoPlan, commit |-> FALSE, retryable |-> TRUE]
              ELSE pub
    /\ Ends(m)
    /\ UNCHANGED <<population, world, worker>>

(* Its update compares the status, and the error is taken to be as read.   *)
RetryPublication(m) ==
    /\ Exists /\ pub.status \in DOMAIN Resumes /\ pub.retryable
    /\ pub' = [pub EXCEPT !.status = Resumes[@], !.lease = Free, !.due = FALSE, !.retryable = TRUE,
                          !.tries = IF pub.status = "published_reload_pending" THEN 0 ELSE @]
    /\ Asks(m, Idle)
    /\ UNCHANGED <<population, world, worker>>

(* cancelPublication decides by the lease it read, and its update compares *)
(* the status.                                                             *)
AskCancel(m) ==
    /\ Exists /\ pub.status \in Cancellable
    /\ Reads(m, [step |-> "cancel publication", id |-> pub.id, status |-> pub.status,
                 held |-> pub.status \in Running /\ pub.lease.live])

CancelPublication(m) ==
    /\ call[m].step = "cancel publication"
    /\ pub' = IF pub.id # call[m].id \/ pub.status # call[m].status THEN pub
              ELSE IF call[m].held THEN [pub EXCEPT !.cancel = TRUE]
              ELSE Stopped("cancelled_before_commit", TRUE)
    /\ Ends(m)
    /\ UNCHANGED <<population, world, worker>>

(* saveDraft compares the draft and that the population is open;           *)
(* writePopulation, the updates of the targets, all that it read.          *)
SaveDraft(m) ==
    LET draft == population.draft
        saved == IF draft = NoDraft THEN [revision |-> 1, base |-> map] ELSE [draft EXCEPT !.revision = @ + 1]
    IN  /\ Open
        /\ population' = [population EXCEPT !.draft = saved, !.revision = @ + 1]
        /\ Asks(m, Idle)
        /\ UNCHANGED <<pub, world, worker>>

EditTargets(m) ==
    /\ Open
    /\ population' = [population EXCEPT !.revision = @ + 1]
    /\ Asks(m, Idle)
    /\ UNCHANGED <<pub, world, worker>>

(* discardDraft, rebaseDraft and cancelPopulation read an open population; *)
(* their updates do not compare that it still is.                          *)
AskOpen(m, step) ==
    /\ Open
    /\ step = "rebase" => population.draft # NoDraft
    /\ Reads(m, [step |-> step, draft |-> population.draft, map |-> map])

DiscardDraft(m) ==
    /\ call[m].step = "discard"
    /\ population' = [population EXCEPT !.draft = NoDraft, !.revision = @ + 1]
    /\ Ends(m)
    /\ UNCHANGED <<pub, world, worker>>

RebaseDraft(m) ==
    LET draft == call[m].draft
        same == population.draft # NoDraft /\ population.draft.revision = draft.revision
    IN  /\ call[m].step = "rebase"
        /\ population' = IF same THEN [population EXCEPT !.draft.base = call[m].map, !.draft.revision = @ + 1, !.revision = @ + 1]
                         ELSE population
        /\ Ends(m)
        /\ UNCHANGED <<pub, world, worker>>

(* The jobs of its runs stop first: their undecided items are cancelled,   *)
(* and the approved ones stay.                                             *)
CancelPopulation(m) ==
    /\ call[m].step = "cancel"
    /\ entry' = [i \in Items |-> IF entry[i] = "review" THEN "cancelled" ELSE entry[i]]
    /\ population' = [population EXCEPT !.cancelled = TRUE]
    /\ Ends(m)
    /\ UNCHANGED <<pub, map, binding, commits, worker>>

ModeratorStep(m) ==
    \/ AskPublish(m) \/ RequestPublication(m) \/ RetryPublication(m)
    \/ AskCancel(m) \/ CancelPublication(m)
    \/ SaveDraft(m) \/ EditTargets(m)
    \/ \E step \in {"discard", "rebase", "cancel"} : AskOpen(m, step)
    \/ DiscardDraft(m) \/ RebaseDraft(m) \/ CancelPopulation(m)

(***************************************************************************)
(* What others write meanwhile: binds of the catalog, the map, and the     *)
(* decisions on the items (ProceduralJobs).                                *)
(***************************************************************************)
Moves == moves < MaxMoves /\ moves' = moves + 1 /\ UNCHANGED <<population, pub, commits, worker, call, asked, lapses>>

BindElsewhere(t) == Moves /\ binding' = [binding EXCEPT ![t] = @ + 1] /\ UNCHANGED <<map, entry>>
EditMap == Moves /\ map' = map + 1 /\ UNCHANGED <<binding, entry>>
OpenItem(i) ==
    /\ entry[i] = "approved" /\ Moves
    /\ entry' = [entry EXCEPT ![i] = "review"]
    /\ UNCHANGED <<map, binding>>
ApproveItem(i) ==
    /\ entry[i] = "review"
    /\ entry' = [entry EXCEPT ![i] = "approved"]
    /\ UNCHANGED <<population, pub, map, binding, commits, worker, call, counters>>

Others ==
    \/ EditMap \/ \E t \in Targets : BindElsewhere(t)
    \/ \E i \in Items : OpenItem(i) \/ ApproveItem(i)

Next ==
    \/ \E w \in Workers : WorkerStep(w) \/ WorkerStops(w)
    \/ \E m \in Moderators : ModeratorStep(m)
    \/ Others \/ ExpireLeft \/ ExpireHeld

Spec == Init /\ [][Next]_vars

(* The workers poll on an interval and time passes; nobody must ask.       *)
FairSpec == Spec /\ (\A w \in Workers : WF_vars(WorkerStep(w))) /\ WF_vars(ExpireLeft)

-----------------------------------------------------------------------------
RunRecord ==
    [step : {"phase", "publish", "begin"}, id : Nat \ {0}, status : Running, cancel : BOOLEAN,
     tries : 0 .. ReloadTries, todo : SUBSET Assets, revision : Nat \ {0}, draft : Drafts]
    \cup [step : {"plan"}, id : Nat \ {0}, status : {"preflight"}, plan : PlanRecord \cup {NoPlan}]
CallRecord ==
    [step : {"idle"}] \cup [step : {"publish"}, revision : Nat \ {0}]
    \cup [step : {"cancel publication"}, id : Nat \ {0}, status : Cancellable, held : BOOLEAN]
    \cup [step : {"discard", "rebase", "cancel"}, draft : Drafts, map : Nat \ {0}]

(* Types, the limit of the reloads, a holder only of what runs, and one    *)
(* commit at most.                                                         *)
TypeOK ==
    /\ population \in [revision : Nat \ {0}, draft : Drafts, cancelled : BOOLEAN]
    /\ pub \in PubRecord \cup {NoPub}
    /\ Exists => /\ pub.lease.holder # NoWorker => pub.status \in Running
                 /\ pub.lease.live => pub.lease.holder # NoWorker
                 /\ pub.commit = (commits = 1)
    /\ map \in Nat \ {0} /\ binding \in [Targets -> Nat]
    /\ entry \in [Items -> {"approved", "review", "cancelled", "promoted"}]
    /\ commits \in 0 .. 1
    /\ worker \in [Workers -> RunRecord \cup {Idle}]
    /\ call \in [Moderators -> CallRecord]

(* The manifest freezes at the end of the preflight: no worker, current or *)
(* late, and no retry changes it, an asset once published stays published, *)
(* and past publishing_objects every asset is (publication.js 14-29).      *)
PastObjects == {"committing_runtime", "runtime_commit_failed", "refreshing_runtime", "published_reload_pending", "completed"}
PlanOf(p) == [p.plan EXCEPT !.published = {}]
PlanHolds ==
    [][/\ Exists /\ pub'.id = pub.id /\ pub.plan # NoPlan
          => pub'.plan # NoPlan /\ PlanOf(pub') = PlanOf(pub) /\ Unpublished(pub') \subseteq Unpublished(pub)
       /\ Exists /\ pub'.status \in PastObjects => pub'.plan # NoPlan /\ Unpublished(pub') = {}]_vars

(* The commit applies once, over the bindings and the map its preflight    *)
(* read, with a draft that starts from the map it replaces, whatever was   *)
(* bound, edited or retried since (publication.js 603-609).                *)
CommitsOverWhatItRead ==
    [][commits' # commits =>
         /\ commits = 0 /\ ~pub.commit
         /\ \A t \in Targets : binding[t] = pub.plan.bindings[t]
         /\ pub.plan.draft # NoDraft => pub.plan.draft.base = map /\ map' = map + 1
         /\ pub.plan.draft = NoDraft => map' = map
         /\ \A i \in Items : entry[i] = "approved"]_vars

(* What ended stays ended: a cancelled publication runs no phase more, a   *)
(* completed one is not run again, and a commit stands: no failure, cancel *)
(* or new publication follows it (publication.js 26-31).                   *)
ClosedForGood ==
    [][Exists =>
         /\ pub.status \in {"cancelled_before_commit", "completed"} /\ pub'.id = pub.id => pub'.status = pub.status
         /\ pub.commit => pub'.id = pub.id /\ pub'.commit
                          /\ pub'.status \in {"refreshing_runtime", "published_reload_pending", "completed"}]_vars

(* A publication that runs, or whose reload is due, reaches a status that  *)
(* waits for a moderator or for nobody: no crash and no lease leaves it    *)
(* running for ever (publication.js 823-832).                              *)
Runs == Due \/ (Exists /\ pub.status \in Running)
RequestSettles == Runs ~> ~Runs

(* "nothing runs or publishes" once a population is cancelled              *)
(* (population.js 1431-1433).                                              *)
CancelledPublishesNothing == [][population.cancelled => commits' = commits]_vars

===============================================================================
