---------------------------- MODULE ProceduralJobs ----------------------------
(***************************************************************************)
(* One generation job of the Procedural Engine (projects/cyberia/          *)
(* procedural/engine.js and jobs/): workers that claim its items under     *)
(* leases and generate drafts, the decisions moderators take on them, the  *)
(* promotion of an approved one, the cancel and the delete of the job.     *)
(*                                                                         *)
(* The state is what the database holds; `worker` and `call` are the runs  *)
(* and requests of the processes past their reads.  A decision that reads  *)
(* an item and moves it with one update that names the status and the      *)
(* revision read is one step: the update applies only to what was read.    *)
(* What a call reads and its update does not compare is a step of its own: *)
(* the rival of an approval, the job of a regeneration, the keepers of a   *)
(* purge.  Time is no variable: a lease may have expired whenever a worker *)
(* looks at it.                                                            *)
(***************************************************************************)
EXTENDS Integers, FiniteSets

CONSTANTS Items, Targets, TargetOf,  \* items of the job and what each becomes
          Before,                    \* the item of the ordinal before, or NoItem
          SourceOf,                  \* what each target ran when the job was created
          Workers, Moderators,
          NoItem, NoWorker, NoCid,
          MaxAttempts,               \* MAX_ATTEMPTS
          MaxSeed,                   \* bound: regenerations of an item
          MaxEdits,                  \* bound: contents the Studio saves for an item
          MaxCalls                   \* bound: requests of moderators

ASSUME PlaceAssumption ==
    /\ TargetOf \in [Items -> Targets]
    /\ Before \in [Items -> Items \cup {NoItem}] /\ NoItem \notin Items
ASSUME BoundAssumption ==
    MaxAttempts \in Nat \ {0} /\ MaxSeed \in Nat /\ MaxEdits \in Nat /\ MaxCalls \in Nat

(* A revision is named by its content: what a seed generates is one        *)
(* revision, however often it runs.                                        *)
Generated(i, seed) == [item |-> i, kind |-> "generated", n |-> seed]
Edited(i, n) == [item |-> i, kind |-> "edited", n |-> n]
Revisions(i) == {Generated(i, seed) : seed \in 0 .. MaxSeed} \cup {Edited(i, n) : n \in 1 .. MaxEdits}
Sources == {SourceOf[t] : t \in Targets} \ {NoCid}
Cids == (UNION {Revisions(i) : i \in Items}) \cup Sources

ItemStatus == {"queued", "running", "generated", "review", "editing", "approved", "promoted",
               "rejected", "cancelled", "failed"}
Waiting == {"queued", "running"}
Active == {"queued", "running", "generated", "review", "editing"}
Reviewable == {"review", "editing"}
Editable == Reviewable \cup {"approved"}

(* ITEM_TRANSITIONS.                                                       *)
Transitions ==
    LET to == [queued |-> {"running", "cancelled"},
               running |-> {"queued", "generated", "failed", "cancelled"},
               generated |-> {"review", "failed", "cancelled"},
               review |-> {"review", "editing", "approved", "rejected", "queued", "cancelled"},
               editing |-> {"editing", "review", "approved", "rejected", "queued", "cancelled"},
               approved |-> {"review", "editing", "promoted", "rejected"},
               rejected |-> {"queued"}, failed |-> {"queued"}, promoted |-> {}, cancelled |-> {}]
    IN  {move \in ItemStatus \X ItemStatus : move[2] \in to[move[1]]}

VARIABLES
    job,       \* status of the CyberiaProceduralJob ("gone" when deleted), and whether a delete began
    item,      \* CyberiaProceduralJobItem by ordinal, or NoItem
    catalog,   \* CyberiaItemCatalog: what each target runs, and all it ran
    stored,    \* the definitions stored
    published, \* those the authority published; the others are drafts
    worker,    \* the run of each worker
    call,      \* the request each moderator waits for
    asked      \* the requests sent

vars == <<job, item, catalog, stored, published, worker, call, asked>>
content == <<catalog, stored, published>>

(* `approved` is the revision the review covers; a rejection is its status.*)
Fresh == [status |-> "queued", attempt |-> 0, holder |-> NoWorker, seed |-> 0, revisions |-> {},
          cid |-> NoCid, valid |-> FALSE, approved |-> NoCid, retryable |-> FALSE, promotion |-> NoCid]

ItemRecord ==
    [status : ItemStatus, attempt : 0 .. MaxAttempts, holder : Workers \cup {NoWorker}, seed : 0 .. MaxSeed,
     revisions : SUBSET Cids, cid : Cids \cup {NoCid}, valid : BOOLEAN, approved : Cids \cup {NoCid},
     retryable : BOOLEAN, promotion : Cids \cup {NoCid}]

(* The names of contents, items and nobody differ.                         *)
ASSUME NameAssumption ==
    /\ \A i \in Items : NoCid \notin Revisions(i) /\ Sources \cap Revisions(i) = {}
    /\ NoWorker \notin Workers /\ NoItem \notin ItemRecord

Idle == [step |-> "idle"]

(* A request that stored the job may have stopped before all its items.    *)
Init ==
    /\ job = [status |-> "queued", deleting |-> FALSE]
    /\ item \in [Items -> {NoItem, Fresh}]
    /\ catalog = [t \in Targets |-> [cid |-> SourceOf[t], history |-> {SourceOf[t]} \ {NoCid}]]
    /\ stored = Sources /\ published = Sources
    /\ worker = [w \in Workers |-> Idle]
    /\ call = [m \in Moderators |-> Idle]
    /\ asked = 0

Exists(i) == item[i] # NoItem
In(i, statuses) == Exists(i) /\ item[i].status \in statuses
Stopped == job.status \in {"cancelled", "gone"}

Named(c) == \E i \in Items : Exists(i) /\ c \in item[i].revisions
Bound(c) == \E t \in Targets : c \in catalog[t].history

(* Mutant: the start of a job does not spare a cancelled one.              *)
SyncedAlways(items) ==
    LET some(statuses) == \E i \in Items : items[i] # NoItem /\ items[i].status \in statuses
    IN  [job EXCEPT !.status = IF some({"running"}) THEN "running"
                               ELSE IF some(Waiting) THEN job.status ELSE "completed"]

(* syncJob ends every run and decision: it counts the items and moves the  *)
(* job with them.                                                          *)
Synced(items) ==
    LET some(statuses) == \E i \in Items : items[i] # NoItem /\ items[i].status \in statuses
        status == job.status
    IN  [job EXCEPT !.status =
           CASE some(Waiting) /\ status = "completed" -> "running"
             [] some({"running"}) /\ status = "queued" -> "running"
             [] ~some(Waiting) /\ status \in {"queued", "running"} -> "completed"
             [] OTHER -> status]

Sync == job' = Synced(item')

(***************************************************************************)
(* The worker (jobs/worker.js).                                            *)
(***************************************************************************)
(* Mutant: a run records whoever holds the item.                           *)
HoldsAny(w, i) == In(i, {"running"})

Holds(w, i) == In(i, {"running"}) /\ item[i].holder = w
Runs(w, next) == worker' = [worker EXCEPT ![w] = next]
RunGoes(w, step) == Runs(w, [worker[w] EXCEPT !.step = step])

(* claimNextItem fails what expired on its last attempt.                   *)
FailExhausted(w, i) ==
    /\ worker[w] = Idle
    /\ In(i, {"running"}) /\ item[i].attempt >= MaxAttempts
    /\ item' = [item EXCEPT ![i].status = "failed", ![i].retryable = TRUE, ![i].holder = NoWorker]
    /\ Sync
    /\ UNCHANGED <<content, worker, call, asked>>

(* Mutant: only what is queued is claimed, whatever expired.               *)
EligibleQueued(i) == In(i, {"queued"})

(* Mutant: a claim does not count the runs of an expired item.             *)
EligibleForEver(i) == In(i, Waiting)

(* It claims an item that waits, or whose lease expired before the last    *)
(* attempt, once the item before it waits no more.                         *)
Eligible(i) == In(i, {"queued"}) \/ (In(i, {"running"}) /\ item[i].attempt < MaxAttempts)

Claim(w, i) ==
    /\ worker[w] = Idle
    /\ Eligible(i)
    /\ Before[i] # NoItem => ~In(Before[i], Waiting)
    /\ item' = [item EXCEPT ![i].status = "running", ![i].holder = w, ![i].attempt = @ + 1]
    /\ Runs(w, [step |-> "run", item |-> i, seed |-> item[i].seed,
                attempt |-> item[i].attempt + 1, exists |-> TRUE])
    /\ Sync
    /\ UNCHANGED <<content, call, asked>>

Result(w) == Generated(worker[w].item, worker[w].seed)

(* runItem reads the job, then generates and stores the draft.             *)
Generate(w) ==
    /\ worker[w].step = "run" /\ ~Stopped
    /\ stored' = stored \cup {Result(w)}
    /\ RunGoes(w, "record")
    /\ UNCHANGED <<job, item, catalog, published, call, asked>>

RunStopped(w) ==
    LET i == worker[w].item
    IN  /\ worker[w].step = "run" /\ Stopped
        /\ item' = IF Holds(w, i) THEN [item EXCEPT ![i].status = "cancelled"] ELSE item
        /\ Runs(w, Idle) /\ Sync
        /\ UNCHANGED <<content, call, asked>>

(* The generator refuses the input for good, or something else throws.     *)
RunFails(w, refused) ==
    LET i == worker[w].item
        last == worker[w].attempt >= MaxAttempts
    IN  /\ worker[w].step \in {"run", "record"}
        /\ item' = IF Holds(w, i)
                   THEN [item EXCEPT ![i].status = IF refused \/ last THEN "failed" ELSE "queued",
                                     ![i].retryable = ~refused, ![i].holder = NoWorker]
                   ELSE item
        /\ Runs(w, Idle) /\ Sync
        /\ UNCHANGED <<content, call, asked>>

Record(w) ==
    LET i == worker[w].item
    IN  /\ worker[w].step = "record"
        /\ IF Holds(w, i)
           THEN /\ item' = [item EXCEPT ![i].status = "generated", ![i].holder = NoWorker,
                                        ![i].cid = Result(w), ![i].revisions = @ \cup {Result(w)},
                                        ![i].valid = FALSE, ![i].approved = NoCid, ![i].retryable = FALSE]
                /\ RunGoes(w, "validate")
           ELSE RunGoes(w, "lost") /\ UNCHANGED item
        /\ UNCHANGED <<job, content, call, asked>>

(* What no record keeps of what a run stored (revisionKeepers).            *)
Leftover(w) == {Result(w)} \cap {c \in stored : ~Named(c) /\ ~Bound(c)}

(* Mutant: a run that lost its item purges its draft whatever became of it.*)
LostPurges(w) ==
    /\ worker[w].step = "lost"
    /\ stored' = stored \ Leftover(w) /\ published' = published \ Leftover(w)
    /\ Runs(w, Idle) /\ UNCHANGED item /\ Sync
    /\ UNCHANGED <<catalog, call, asked>>

(* A run whose item was cancelled or deleted purges its draft, unless a    *)
(* record keeps it.                                                        *)
Lost(w) ==
    LET i == worker[w].item
        drop == IF ~worker[w].exists \/ In(i, {"cancelled"}) THEN Leftover(w) ELSE {}
    IN  /\ worker[w].step = "lost"
        /\ stored' = stored \ drop /\ published' = published \ drop
        /\ Runs(w, Idle) /\ UNCHANGED item /\ Sync
        /\ UNCHANGED <<catalog, call, asked>>

(* validateGenerated: the checks of a stored revision may still find       *)
(* problems or throw.                                                      *)
Validate(i, ok) ==
    /\ In(i, {"generated"})
    /\ ok => item[i].cid \in stored
    /\ item' = [item EXCEPT ![i].status = IF ok THEN "review" ELSE "failed", ![i].valid = ok,
                            ![i].retryable = FALSE]

ValidateRun(w, ok) ==
    LET i == worker[w].item
        left == worker[w].exists /\ In(i, {"generated"}) /\ item[i].cid = Result(w)
    IN  /\ worker[w].step = "validate"
        /\ IF left THEN Validate(i, ok) ELSE UNCHANGED item
        /\ Runs(w, Idle) /\ Sync
        /\ UNCHANGED <<content, call, asked>>

(* drainQueue validates what a stopped worker left, and syncs nothing.     *)
ValidateLeft(w, i, ok) ==
    /\ worker[w] = Idle
    /\ Validate(i, ok)
    /\ UNCHANGED <<job, content, worker, call, asked>>

WorkerStops(w) ==
    /\ worker[w] # Idle
    /\ Runs(w, Idle)
    /\ UNCHANGED <<job, item, content, call, asked>>

WorkerStep(w) ==
    \/ Generate(w) \/ RunStopped(w) \/ Record(w) \/ Lost(w)
    \/ \E i \in Items : FailExhausted(w, i) \/ Claim(w, i)
    \/ \E refused \in BOOLEAN : RunFails(w, refused)
    \/ \E ok \in BOOLEAN : ValidateRun(w, ok) \/ \E i \in Items : ValidateLeft(w, i, ok)

(***************************************************************************)
(* Moderators (jobs/review.js).  A refused request changes nothing, so a   *)
(* decision of one step is enabled when it is granted.                     *)
(***************************************************************************)
Asks(m, next) ==
    /\ call[m] = Idle /\ asked < MaxCalls
    /\ call' = [call EXCEPT ![m] = next]
    /\ asked' = asked + 1
Goes(m, next) == call' = [call EXCEPT ![m] = next] /\ UNCHANGED asked

Decides(m, i, from, decided) ==
    /\ In(i, from)
    /\ item' = [item EXCEPT ![i] = decided]
    /\ Asks(m, Idle) /\ Sync
    /\ UNCHANGED <<content, worker>>

OpenForEdit(m, i) == Decides(m, i, Editable, [item[i] EXCEPT !.status = "editing"])
Withdraw(m, i) == Decides(m, i, {"approved"}, [item[i] EXCEPT !.status = "review", !.approved = NoCid])
Reject(m, i) == Decides(m, i, Editable, [item[i] EXCEPT !.status = "rejected", !.approved = NoCid])

(* The update that ends a request moves the item it names, or the request  *)
(* is refused.                                                             *)
Ends(m, allowed, moved) ==
    /\ item' = IF allowed THEN [item EXCEPT ![call[m].item] = moved] ELSE item
    /\ IF allowed THEN Sync ELSE UNCHANGED job
    /\ Goes(m, Idle)
    /\ UNCHANGED <<content, worker>>

(* approveItem looks for an approved rival, then approves what it read.    *)
Rivals(i) == {j \in Items \ {i} : TargetOf[j] = TargetOf[i] /\ In(j, {"approved", "promoted"})}

AskApprove(m, i) ==
    /\ Exists(i) /\ item[i].cid # NoCid /\ item[i].valid /\ Rivals(i) = {}
    /\ Asks(m, [step |-> "approve", item |-> i, cid |-> item[i].cid])
    /\ UNCHANGED <<job, item, content, worker>>

(* Mutant: the approval does not compare the revision.                     *)
ApproveCurrent(m) ==
    LET i == call[m].item
    IN  /\ call[m].step = "approve"
        /\ Ends(m, In(i, Reviewable) /\ item[i].valid,
                [item[i] EXCEPT !.status = "approved", !.approved = call[m].cid])

Approve(m) ==
    LET i == call[m].item
    IN  /\ call[m].step = "approve"
        /\ Ends(m, In(i, Reviewable) /\ item[i].cid = call[m].cid /\ item[i].valid,
                [item[i] EXCEPT !.status = "approved", !.approved = call[m].cid])

(* regenerateItem and retryItem read the job, then queue the item.         *)
AskQueue(m, i, step) ==
    /\ job.status # "cancelled" /\ Exists(i)
    /\ step = "retry" => In(i, {"failed"}) /\ item[i].retryable
    /\ step = "regenerate" => item[i].seed < MaxSeed
    /\ Asks(m, [step |-> step, item |-> i])
    /\ UNCHANGED <<job, item, content, worker>>

Regenerate(m) ==
    LET i == call[m].item
    IN  /\ call[m].step = "regenerate"
        /\ Ends(m, In(i, Reviewable \cup {"rejected", "failed"}) /\ item[i].seed < MaxSeed,
                [item[i] EXCEPT !.status = "queued", !.seed = @ + 1, !.attempt = 0, !.retryable = FALSE,
                                !.valid = FALSE, !.approved = NoCid])

Retry(m) ==
    LET i == call[m].item
    IN  /\ call[m].step = "retry"
        /\ Ends(m, In(i, {"failed"}) /\ item[i].retryable,
                [item[i] EXCEPT !.status = "queued", !.attempt = 0, !.retryable = FALSE])

(* saveRevision stores what the Studio sends, the revision it opened or a  *)
(* new content, then recordRevision adds it if it is new.                  *)
Saves(i) == {item[i].cid} \cup ({Edited(i, n) : n \in 1 .. MaxEdits} \ item[i].revisions)

AskSave(m, i, cid) ==
    /\ In(i, Editable) /\ cid \in Saves(i)
    /\ stored' = stored \cup {cid}
    /\ Asks(m, [step |-> "save", item |-> i, cid |-> cid])
    /\ UNCHANGED <<job, item, catalog, published, worker>>

Save(m, valid) ==
    LET i == call[m].item
        cid == call[m].cid
        same == Exists(i) /\ item[i].cid = cid
    IN  /\ call[m].step = "save"
        /\ valid => cid \in stored
        /\ Ends(m, IF same THEN In(i, {"editing"}) ELSE In(i, Editable),
                IF same THEN [item[i] EXCEPT !.status = "review"]
                ELSE [item[i] EXCEPT !.status = "review", !.cid = cid, !.valid = valid,
                                     !.revisions = @ \cup {cid}, !.approved = NoCid])

(***************************************************************************)
(* promoteItem (jobs/promotion.js) publishes the revision, then binds it   *)
(* in a transaction: bindItem takes a definition the authority holds, and  *)
(* CyberiaItemCatalog.bind an item that still runs the source.             *)
(***************************************************************************)
AskPromote(m, i) ==
    /\ In(i, {"approved"}) /\ item[i].approved = item[i].cid
    /\ catalog[TargetOf[i]].cid = SourceOf[TargetOf[i]]
    /\ item[i].cid \in stored
    /\ published' = published \cup {item[i].cid}
    /\ Asks(m, [step |-> "bind", item |-> i, cid |-> item[i].cid])
    /\ UNCHANGED <<job, item, catalog, stored, worker>>

(* Mutant: a bind takes whatever the target runs.                          *)
BindAnyway(t, cid) == cid \in published

MayBind(t, cid) == catalog[t].cid \in {SourceOf[t], cid} /\ cid \in published

Promote(m) ==
    LET i == call[m].item
        t == TargetOf[i]
        cid == call[m].cid
    IN  /\ call[m].step = "bind"
        /\ IF MayBind(t, cid) /\ In(i, {"approved"}) /\ item[i].cid = cid
           THEN /\ catalog' = [catalog EXCEPT ![t] = [cid |-> cid, history |-> @.history \cup {cid}]]
                /\ stored' = stored \cup {cid}
                /\ item' = [item EXCEPT ![i].status = "promoted", ![i].promotion = cid]
                /\ Sync
           ELSE UNCHANGED <<job, item, catalog, stored>>
        /\ Goes(m, Idle)
        /\ UNCHANGED <<published, worker>>

(***************************************************************************)
(* The job (engine.js and jobs/job.js).                                    *)
(***************************************************************************)
(* storeJob sent again finds the job, then stores the items it misses.     *)
AskStore(m) ==
    /\ job.status # "gone"
    /\ Asks(m, [step |-> "store"])
    /\ UNCHANGED <<job, item, content, worker>>

EnsureItems(m) ==
    /\ call[m].step = "store"
    /\ item' = [i \in Items |-> IF Exists(i) THEN item[i] ELSE Fresh]
    /\ Goes(m, Idle) /\ Sync
    /\ UNCHANGED <<content, worker>>

(* stopWork writes the job, then its items.                                *)
CancelJob(m) ==
    /\ ~Stopped /\ \E i \in Items : In(i, Active)
    /\ job' = [job EXCEPT !.status = "cancelled"]
    /\ Asks(m, [step |-> "stop", delete |-> FALSE])
    /\ UNCHANGED <<item, content, worker>>

DeleteJob(m) ==
    /\ job.status # "gone"
    /\ job' = [status |-> "cancelled", deleting |-> TRUE]
    /\ Asks(m, [step |-> "stop", delete |-> TRUE])
    /\ UNCHANGED <<item, content, worker>>

(* Mutant: stopWork cancels approved items too.                            *)
StopAll(m) ==
    /\ call[m].step = "stop"
    /\ item' = [i \in Items |-> IF In(i, Editable \cup Active)
                                THEN [item[i] EXCEPT !.status = "cancelled", !.holder = NoWorker]
                                ELSE item[i]]
    /\ IF call[m].delete THEN Goes(m, [step |-> "keepers"]) ELSE Goes(m, Idle)
    /\ UNCHANGED <<job, content, worker>>

StopItems(m) ==
    /\ call[m].step = "stop"
    /\ item' = [i \in Items |-> IF In(i, Active)
                                THEN [item[i] EXCEPT !.status = "cancelled", !.holder = NoWorker]
                                ELSE item[i]]
    /\ IF call[m].delete THEN Goes(m, [step |-> "keepers"]) ELSE Goes(m, Idle)
    /\ UNCHANGED <<job, content, worker>>

(* purgeRevisions asks what keeps each revision, then removes the others.  *)
ReadKeepers(m) ==
    /\ call[m].step = "keepers"
    /\ Goes(m, [step |-> "purge", cids |-> {c \in stored : Named(c) /\ ~Bound(c)}])
    /\ UNCHANGED <<job, item, content, worker>>

Purge(m) ==
    /\ call[m].step = "purge"
    /\ stored' = stored \ call[m].cids /\ published' = published \ call[m].cids
    /\ Goes(m, [step |-> "items"])
    /\ UNCHANGED <<job, item, catalog, worker>>

(* An item stored again is another document: runs and requests that read   *)
(* the deleted one find nothing to move.                                   *)
DeleteItems(m) ==
    /\ call[m].step = "items"
    /\ item' = [i \in Items |-> NoItem]
    /\ worker' = [w \in Workers |-> IF worker[w] = Idle THEN Idle
                                    ELSE [worker[w] EXCEPT !.exists = FALSE]]
    /\ call' = [n \in Moderators |-> IF n = m THEN [step |-> "job"]
                                     ELSE IF "item" \in DOMAIN call[n] THEN Idle
                                     ELSE call[n]]
    /\ UNCHANGED <<job, content, asked>>

DeleteLast(m) ==
    /\ call[m].step = "job"
    /\ job' = [job EXCEPT !.status = "gone"]
    /\ Goes(m, Idle)
    /\ UNCHANGED <<item, content, worker>>

ModeratorStops(m) ==
    /\ call[m] # Idle
    /\ Goes(m, Idle)
    /\ UNCHANGED <<job, item, content, worker>>

ModeratorStep(m) ==
    \/ \E i \in Items :
         \/ OpenForEdit(m, i) \/ Withdraw(m, i) \/ Reject(m, i)
         \/ AskApprove(m, i) \/ AskPromote(m, i)
         \/ \E step \in {"regenerate", "retry"} : AskQueue(m, i, step)
         \/ \E cid \in Revisions(i) : AskSave(m, i, cid)
    \/ \E valid \in BOOLEAN : Save(m, valid)
    \/ Approve(m) \/ Regenerate(m) \/ Retry(m) \/ Promote(m)
    \/ AskStore(m) \/ EnsureItems(m)
    \/ CancelJob(m) \/ DeleteJob(m) \/ StopItems(m)
    \/ ReadKeepers(m) \/ Purge(m) \/ DeleteItems(m) \/ DeleteLast(m)
    \/ ModeratorStops(m)

Next ==
    \/ \E w \in Workers : WorkerStep(w) \/ WorkerStops(w)
    \/ \E m \in Moderators : ModeratorStep(m)

Spec == Init /\ [][Next]_vars

(* A worker polls as long as it runs, and one that stopped starts again.   *)
(* Nobody has to decide anything.                                          *)
FairSpec == Spec /\ \A w \in Workers : WF_vars(WorkerStep(w))

(***************************************************************************)
(* Properties.                                                             *)
(***************************************************************************)
RunRecord ==
    [step : {"run", "record", "lost", "validate"}, item : Items, seed : 0 .. MaxSeed,
     attempt : 1 .. MaxAttempts, exists : BOOLEAN]
CallRecord ==
    [step : {"idle", "store", "keepers", "items", "job"}] \cup [step : {"stop"}, delete : BOOLEAN]
    \cup [step : {"approve", "save", "bind"}, item : Items, cid : Cids]
    \cup [step : {"regenerate", "retry"}, item : Items] \cup [step : {"purge"}, cids : SUBSET Cids]

(* Types; no item gets more runs than MAX_ATTEMPTS for one generation,     *)
(* whoever lost its lease, only an item that runs has a holder, and an     *)
(* item names its own revisions.                                           *)
TypeOK ==
    /\ job \in [status : {"queued", "running", "completed", "cancelled", "gone"}, deleting : BOOLEAN]
    /\ item \in [Items -> ItemRecord \cup {NoItem}]
    /\ \A i \in Items : Exists(i) =>
         /\ item[i].holder # NoWorker => In(i, {"running", "cancelled"})
         /\ item[i].revisions \cup {item[i].cid, item[i].approved, item[i].promotion} \subseteq Revisions(i) \cup {NoCid}
    /\ catalog \in [Targets -> [cid : Cids \cup {NoCid}, history : SUBSET Cids]]
    /\ published \subseteq stored /\ stored \subseteq Cids
    /\ worker \in [Workers -> RunRecord \cup {Idle}]
    /\ call \in [Moderators -> CallRecord]
    /\ asked \in 0 .. MaxCalls

(* Every step of every writer, those that bypass `advance` included (the   *)
(* claim, the expiry, stopWork), moves an item along ITEM_TRANSITIONS: a   *)
(* promoted or cancelled one stays so, and an approved one is not          *)
(* cancelled (item model, lines 32-51; engine.js, lines 111-113).          *)
LegalMoves ==
    [][\A i \in Items :
          Exists(i) /\ item'[i] # NoItem /\ item'[i].status # item[i].status
          => <<item[i].status, item'[i].status>> \in Transitions]_vars

(* A moderator's approval covers the revision it saw, a valid one, and no  *)
(* later one: what is approved, and what was promoted, is the current      *)
(* revision of its item (approveItem, recordRevision, commitPromotion).    *)
ApprovedAsReviewed ==
    \A i \in Items :
        /\ In(i, {"approved", "promoted"}) => item[i].valid /\ item[i].approved = item[i].cid
        /\ In(i, {"promoted"}) => item[i].promotion = item[i].cid /\ item[i].promotion \in catalog[TargetOf[i]].history

(* Two candidates of one target may both be approved by requests that      *)
(* overlap; only one of them is ever promoted, and a target takes no other *)
(* definition than its source and that one (CyberiaItemCatalog.bind).      *)
OnePromotion ==
    /\ \A i, j \in Items : In(i, {"promoted"}) /\ In(j, {"promoted"}) /\ TargetOf[i] = TargetOf[j] => i = j
    /\ \A t \in Targets : Cardinality(catalog[t].history \ {SourceOf[t]}) <= 1

(* Every revision an item names is stored, until a delete of the job began:*)
(* the run that lost its item purges its draft although another run of the *)
(* seed may name it (runItem, purgeRevisions).                             *)
NamedStored ==
    ~job.deleting => \A i \in Items : Exists(i) => item[i].revisions \subseteq stored

(* A seed is run to a result once, and an item that awaits its validation  *)
(* has the result of its current seed, however many runs lost their lease  *)
(* and go on (runItem records under its own lease only).                   *)
OneResultPerSeed ==
    \A i \in Items :
        /\ In(i, Waiting) => Generated(i, item[i].seed) \notin item[i].revisions
        /\ In(i, {"generated"}) => item[i].cid = Generated(i, item[i].seed)

(* A cancelled job stays cancelled, and a deleted one deleted, although    *)
(* runs, regenerations and requests that read it before still sync it      *)
(* (syncJob).                                                              *)
CancelledForGood ==
    [][Stopped => job'.status \in {"cancelled", "gone"} /\ (job.status = "gone" => job'.status = "gone")]_vars

(* What waits, runs or awaits validation ends in a state that needs a      *)
(* moderator, though workers stop and lose leases, requests stop halfway,  *)
(* and an item is queued again after its job was cancelled or deleted.     *)
WorkSettles == \A i \in Items : In(i, Waiting \cup {"generated"}) ~> ~In(i, Waiting \cup {"generated"})

(* "A promoted item keeps its definition" (engine.js, lines 220-221): what *)
(* a target runs is stored.                                                *)
BoundStored == \A t \in Targets : catalog[t].cid # NoCid => catalog[t].cid \in stored

===============================================================================
