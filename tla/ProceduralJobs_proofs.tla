------------------------ MODULE ProceduralJobs_proofs ------------------------
(***************************************************************************)
(* Proofs about ProceduralJobs, for every value of its constants.          *)
(*                                                                         *)
(* A step is classified twice before anything is proved of it: by what it  *)
(* does to an item (ItemMoves) and by what it does to the run of a worker  *)
(* (RunMoves).  The invariants of the items follow from the two.           *)
(***************************************************************************)
EXTENDS ProceduralJobs, FiniteSetTheorems, TLAPS

-----------------------------------------------------------------------------
(***************************************************************************)
(* What a step may do to an item.                                          *)
(***************************************************************************)
Becomes(i, i2) == item'[i] = i2

Deleted(i) == Becomes(i, NoItem) /\ job.deleting /\ \E m \in Moderators : DeleteItems(m)
Stored(i) == ~Exists(i) /\ Becomes(i, Fresh)
Claimed(i) ==
    \E w \in Workers :
        /\ worker[w] = Idle /\ Eligible(i)
        /\ Becomes(i, [item[i] EXCEPT !.status = "running", !.holder = w, !.attempt = @ + 1])
        /\ worker'[w] = [step |-> "run", item |-> i, seed |-> item[i].seed,
                         attempt |-> item[i].attempt + 1, exists |-> TRUE]
Released(i) ==
    /\ In(i, {"running"})
    /\ \E status \in {"queued", "failed"}, retryable \in BOOLEAN :
         /\ status = "queued" => item[i].attempt < MaxAttempts
         /\ Becomes(i, [item[i] EXCEPT !.status = status, !.retryable = retryable, !.holder = NoWorker])
Cancelled(i) ==
    /\ In(i, Active)
    /\ \E holder \in {item[i].holder, NoWorker} :
         Becomes(i, [item[i] EXCEPT !.status = "cancelled", !.holder = holder])
Recorded(i) ==
    \E w \in Workers :
        /\ worker[w].step = "record" /\ worker[w].item = i /\ Holds(w, i)
        /\ stored' = stored
        /\ Becomes(i, [item[i] EXCEPT !.status = "generated", !.holder = NoWorker,
                                      !.cid = Result(w), !.revisions = @ \cup {Result(w)},
                                      !.valid = FALSE, !.approved = NoCid, !.retryable = FALSE])
Validated(i) ==
    /\ In(i, {"generated"})
    /\ \E ok \in BOOLEAN :
         Becomes(i, [item[i] EXCEPT !.status = IF ok THEN "review" ELSE "failed", !.valid = ok,
                                    !.retryable = FALSE])
Decided(i) ==
    /\ In(i, Editable)
    /\ \E status \in {"editing", "review", "rejected"}, approved \in {item[i].approved, NoCid} :
         /\ <<item[i].status, status>> \in Transitions
         /\ Becomes(i, [item[i] EXCEPT !.status = status, !.approved = approved])
Approved(i) ==
    /\ In(i, Reviewable) /\ item[i].valid
    /\ Becomes(i, [item[i] EXCEPT !.status = "approved", !.approved = item[i].cid])
Requeued(i) ==
    /\ In(i, Reviewable \cup {"rejected", "failed"}) /\ item[i].seed < MaxSeed
    /\ Becomes(i, [item[i] EXCEPT !.status = "queued", !.seed = @ + 1, !.attempt = 0, !.retryable = FALSE,
                                  !.valid = FALSE, !.approved = NoCid])
Retried(i) ==
    /\ In(i, {"failed"}) /\ item[i].retryable
    /\ Becomes(i, [item[i] EXCEPT !.status = "queued", !.attempt = 0, !.retryable = FALSE])
Saved(i) ==
    /\ In(i, Editable)
    /\ \E m \in Moderators, valid \in BOOLEAN :
         /\ call[m].step = "save" /\ call[m].item = i
         /\ stored' = stored
         /\ Becomes(i, [item[i] EXCEPT !.status = "review", !.cid = call[m].cid, !.valid = valid,
                                       !.revisions = @ \cup {call[m].cid}, !.approved = NoCid])
Promoted(i) ==
    /\ In(i, {"approved"})
    /\ \E m \in Moderators :
         /\ call[m].step = "bind" /\ call[m].item = i /\ item[i].cid = call[m].cid
         /\ Promote(m)
    /\ Becomes(i, [item[i] EXCEPT !.status = "promoted", !.promotion = item[i].cid])

ItemMove(i) ==
    \/ item'[i] = item[i] \/ Deleted(i) \/ Stored(i) \/ Claimed(i) \/ Released(i) \/ Cancelled(i)
    \/ Recorded(i) \/ Validated(i) \/ Decided(i) \/ Approved(i) \/ Requeued(i) \/ Retried(i)
    \/ Saved(i) \/ Promoted(i)

(* What a step may do to the run of a worker: nothing, end it, claim, or   *)
(* go on with it.                                                          *)
RunMove(w) ==
    \/ worker'[w] = worker[w]
    \/ worker'[w] = Idle
    \/ worker[w] = Idle /\ \E i \in Items :
         /\ Eligible(i)
         /\ item' = [item EXCEPT ![i].status = "running", ![i].holder = w, ![i].attempt = @ + 1]
         /\ worker'[w] = [step |-> "run", item |-> i, seed |-> item[i].seed,
                          attempt |-> item[i].attempt + 1, exists |-> TRUE]
    \/ worker[w] # Idle /\ \E step \in {"record", "lost", "validate"} :
         /\ worker'[w] = [worker[w] EXCEPT !.step = step]
         /\ step = "record" => Result(w) \in stored'
    \/ /\ worker[w] # Idle /\ worker'[w] = [worker[w] EXCEPT !.exists = FALSE]
       /\ job.deleting /\ \A i \in Items : item'[i] = NoItem

(* What a step may do to the request of a moderator.                       *)
CallMove(n) ==
    \/ call'[n] = call[n] \/ call'[n] = Idle \/ call'[n] = [step |-> "store"]
    \/ \E i \in Items, step \in {"regenerate", "retry"} : call'[n] = [step |-> step, item |-> i]
    \/ \E i \in Items, cid \in Cids, step \in {"approve", "bind"} :
         cid \in Revisions(i) /\ call'[n] = [step |-> step, item |-> i, cid |-> cid]
    \/ \E i \in Items : \E cid \in Revisions(i) :
         /\ In(i, Editable) /\ cid \in Saves(i)
         /\ call'[n] = [step |-> "save", item |-> i, cid |-> cid]
         /\ item' = item /\ stored' = stored \cup {cid}
    \/ \E delete \in BOOLEAN : call'[n] = [step |-> "stop", delete |-> delete] /\ (delete => job'.deleting)
    \/ job.deleting /\ call'[n] \in {[step |-> "keepers"], [step |-> "items"], [step |-> "job"]}
    \/ job.deleting /\ \E cids \in SUBSET stored : call'[n] = [step |-> "purge", cids |-> cids]

-----------------------------------------------------------------------------
(***************************************************************************)
(* The inductive invariant of the types.  An item that waits has a run     *)
(* left; a run that holds its item is the one its last claim made; what a  *)
(* request names is of the item it names; only a delete deletes.           *)
(***************************************************************************)
QueuedHasRunLeft == \A i \in Items : In(i, {"queued"}) => item[i].attempt < MaxAttempts

HeldByItsRun ==
    \A w \in Workers : worker[w] # Idle /\ Holds(w, worker[w].item) =>
        /\ item[worker[w].item].attempt = worker[w].attempt
        /\ item[worker[w].item].seed = worker[w].seed
        /\ worker[w].exists

RequestsNameTheirItem ==
    \A m \in Moderators : call[m].step \in {"approve", "save", "bind"} => call[m].cid \in Revisions(call[m].item)

OnlyDeletesDelete ==
    /\ \A m \in Moderators :
         call[m].step \in {"keepers", "purge", "items", "job"} \/ (call[m].step = "stop" /\ call[m].delete)
         => job.deleting
    /\ \A w \in Workers : worker[w] # Idle /\ ~worker[w].exists => job.deleting

TypeInv == TypeOK /\ QueuedHasRunLeft /\ HeldByItsRun /\ RequestsNameTheirItem /\ OnlyDeletesDelete

LEMMA NamesDiffer == \A i \in Items : Revisions(i) \subseteq Cids /\ NoCid \notin Revisions(i)
  BY NameAssumption DEF Cids

LEMMA SourcesAreCids == Sources \subseteq Cids /\ \A t \in Targets : SourceOf[t] \in Cids \cup {NoCid}
<1>1. Sources \subseteq Cids
  BY DEF Cids
<1>2. \A t \in Targets : SourceOf[t] # NoCid => SourceOf[t] \in Sources
  BY DEF Sources
<1> QED
  BY <1>1, <1>2

LEMMA InitTypeInv == Init => TypeInv
<1> SUFFICES ASSUME Init PROVE TypeInv
  OBVIOUS
<1>1. Fresh \in ItemRecord
  BY BoundAssumption DEF Fresh, ItemRecord, ItemStatus
<1>2. Fresh.attempt < MaxAttempts
  BY BoundAssumption DEF Fresh
<1>3. TypeOK
  <2>1. job \in [status : {"queued", "running", "completed", "cancelled", "gone"}, deleting : BOOLEAN]
    BY DEF Init
  <2>2. item \in [Items -> ItemRecord \cup {NoItem}]
    BY <1>1 DEF Init
  <2>3. \A i \in Items : Exists(i) => item[i] = Fresh
    BY DEF Init, Exists
  <2>4. catalog \in [Targets -> [cid : Cids \cup {NoCid}, history : SUBSET Cids]]
    BY SourcesAreCids DEF Init
  <2>5. published \subseteq stored /\ stored \subseteq Cids
    BY SourcesAreCids DEF Init
  <2>6. call \in [Moderators -> CallRecord] /\ worker \in [Workers -> RunRecord \cup {Idle}]
    BY DEF Init, CallRecord, Idle
  <2>7. asked \in 0 .. MaxCalls
    BY BoundAssumption DEF Init
  <2> QED
    BY <2>1, <2>2, <2>3, <2>4, <2>5, <2>6, <2>7 DEF TypeOK, Fresh
<1>4. QueuedHasRunLeft
  BY <1>2 DEF Init, QueuedHasRunLeft, In, Exists
<1>5. HeldByItsRun /\ RequestsNameTheirItem /\ OnlyDeletesDelete
  BY DEF Init, HeldByItsRun, RequestsNameTheirItem, OnlyDeletesDelete, Idle
<1> QED
  BY <1>3, <1>4, <1>5 DEF TypeInv

LEMMA TransitionsAre ==
  \A a, b \in ItemStatus : <<a, b>> \in Transitions <=>
      \/ a = "queued" /\ b \in {"running", "cancelled"}
      \/ a = "running" /\ b \in {"queued", "generated", "failed", "cancelled"}
      \/ a = "generated" /\ b \in {"review", "failed", "cancelled"}
      \/ a = "review" /\ b \in {"review", "editing", "approved", "rejected", "queued", "cancelled"}
      \/ a = "editing" /\ b \in {"editing", "review", "approved", "rejected", "queued", "cancelled"}
      \/ a = "approved" /\ b \in {"review", "editing", "promoted", "rejected"}
      \/ a \in {"rejected", "failed"} /\ b = "queued"
  BY DEF Transitions, ItemStatus

(* A request is a record of its step.                                      *)
LEMMA RequestRecords ==
  ASSUME TypeOK, NEW m \in Moderators
  PROVE  /\ call[m].step \in {"approve", "save", "bind"} =>
              call[m].item \in Items /\ call[m].cid \in Cids
         /\ call[m].step \in {"regenerate", "retry"} => call[m].item \in Items
         /\ call[m].step = "purge" => call[m].cids \subseteq Cids
         /\ call[m].step = "stop" => call[m].delete \in BOOLEAN
<1>1. call[m] \in CallRecord
  BY DEF TypeOK
<1> QED
  BY <1>1 DEF CallRecord

(* A run is a record unless its worker is idle.                            *)
LEMMA RunRecords ==
  ASSUME TypeOK, NEW w \in Workers
  PROVE  /\ worker[w] # Idle => worker[w] \in RunRecord /\ worker[w].item \in Items
         /\ worker[w].step \in {"run", "record", "lost", "validate"} => worker[w] # Idle
<1>1. worker[w] \in RunRecord \cup {Idle}
  BY DEF TypeOK
<1> QED
  BY <1>1 DEF RunRecord, Idle

-----------------------------------------------------------------------------
(***************************************************************************)
(* The classification.                                                     *)
(***************************************************************************)
LEMMA WorkerMovesItems ==
  ASSUME TypeInv, NEW w \in Workers, WorkerStep(w) \/ WorkerStops(w), NEW i \in Items
  PROVE  ItemMove(i)
<1> USE DEF TypeInv
<1>0. item \in [Items -> ItemRecord \cup {NoItem}] /\ worker \in [Workers -> RunRecord \cup {Idle}]
  BY DEF TypeOK
<1>1. CASE item' = item
  BY <1>1 DEF ItemMove
<1>2. ASSUME NEW j \in Items, FailExhausted(w, j) PROVE ItemMove(i)
  <2>1. item' = [item EXCEPT ![j] = [item[j] EXCEPT !.status = "failed", !.retryable = TRUE, !.holder = NoWorker]]
    BY <1>2 DEF FailExhausted
  <2>2. CASE i = j
    BY <1>0, <1>2, <2>1, <2>2 DEF FailExhausted, ItemMove, Released, Becomes
  <2> QED
    BY <1>0, <2>1, <2>2 DEF ItemMove
<1>3. ASSUME NEW j \in Items, Claim(w, j) PROVE ItemMove(i)
  <2>1. item' = [item EXCEPT ![j] = [item[j] EXCEPT !.status = "running", !.holder = w, !.attempt = @ + 1]]
    BY <1>3 DEF Claim
  <2>2. CASE i = j
    <3>1. worker'[w] = [step |-> "run", item |-> i, seed |-> item[i].seed,
                        attempt |-> item[i].attempt + 1, exists |-> TRUE]
      BY <1>0, <1>3, <2>2 DEF Claim, Runs
    <3>2. worker[w] = Idle /\ Eligible(i)
      BY <1>3, <2>2 DEF Claim
    <3>3. Becomes(i, [item[i] EXCEPT !.status = "running", !.holder = w, !.attempt = @ + 1])
      BY <1>0, <2>1, <2>2 DEF Becomes
    <3> QED
      BY <3>1, <3>2, <3>3 DEF ItemMove, Claimed
  <2> QED
    BY <1>0, <2>1, <2>2 DEF ItemMove
<1>4. CASE RunStopped(w)
  <2> DEFINE j == worker[w].item
  <2>1. j \in Items
    BY <1>4, RunRecords DEF RunStopped
  <2>2. CASE Holds(w, j) /\ i = j
    <3>1. item' = [item EXCEPT ![j] = [item[j] EXCEPT !.status = "cancelled"]]
      BY <1>4, <2>2 DEF RunStopped
    <3>2. In(i, {"running"})
      BY <2>2 DEF Holds
    <3>3. item[i] \in ItemRecord
      BY <1>0, <3>2 DEF In, Exists
    <3>4. item'[i] = [item[i] EXCEPT !.status = "cancelled", !.holder = item[i].holder]
      BY <1>0, <3>1, <3>3, <2>2 DEF ItemRecord
    <3> QED
      BY <3>2, <3>4 DEF ItemMove, Cancelled, Becomes, In, Active
  <2> QED
    BY <1>0, <1>4, <2>1, <2>2 DEF RunStopped, ItemMove
<1>5. ASSUME NEW refused \in BOOLEAN, RunFails(w, refused) PROVE ItemMove(i)
  <2> DEFINE j == worker[w].item
             last == worker[w].attempt >= MaxAttempts
             status == IF refused \/ last THEN "failed" ELSE "queued"
  <2>1. j \in Items /\ worker[w] # Idle /\ worker[w] \in RunRecord
    BY <1>5, RunRecords DEF RunFails
  <2>2. CASE Holds(w, j) /\ i = j
    <3>1. item' = [item EXCEPT ![j] = [item[j] EXCEPT !.status = status, !.retryable = ~refused, !.holder = NoWorker]]
      BY <1>5, <2>2 DEF RunFails
    <3>2. item[i].attempt = worker[w].attempt
      BY <2>1, <2>2 DEF HeldByItsRun
    <3>3. status = "queued" => item[i].attempt < MaxAttempts
      BY <2>1, <3>2, BoundAssumption DEF RunRecord
    <3>4. Becomes(i, [item[i] EXCEPT !.status = status, !.retryable = ~refused, !.holder = NoWorker])
      BY <1>0, <3>1, <2>2 DEF Becomes
    <3>5. status \in {"queued", "failed"}
      OBVIOUS
    <3>6. (~refused) \in BOOLEAN
      OBVIOUS
    <3> HIDE DEF status
    <3> QED
      BY <2>2, <3>3, <3>4, <3>5, <3>6 DEF ItemMove, Released, Holds
  <2> QED
    BY <1>0, <1>5, <2>1, <2>2 DEF RunFails, ItemMove
<1>6. CASE Record(w)
  <2> DEFINE j == worker[w].item
  <2>1. j \in Items
    BY <1>6, RunRecords DEF Record
  <2>2. CASE Holds(w, j) /\ i = j
    <3>1. item' = [item EXCEPT ![j] = [item[j] EXCEPT !.status = "generated", !.holder = NoWorker,
                     !.cid = Result(w), !.revisions = @ \cup {Result(w)},
                     !.valid = FALSE, !.approved = NoCid, !.retryable = FALSE]]
      BY <1>6, <2>2 DEF Record
    <3>2. Becomes(i, [item[i] EXCEPT !.status = "generated", !.holder = NoWorker,
                     !.cid = Result(w), !.revisions = @ \cup {Result(w)},
                     !.valid = FALSE, !.approved = NoCid, !.retryable = FALSE])
      BY <1>0, <3>1, <2>2 DEF Becomes
    <3> QED
      BY <1>6, <2>2, <3>2 DEF ItemMove, Recorded, Record, content
  <2> QED
    BY <1>0, <1>6, <2>1, <2>2 DEF Record, ItemMove
<1>7. ASSUME NEW j \in Items, NEW ok \in BOOLEAN, Validate(j, ok) PROVE ItemMove(i)
  <2>1. item' = [item EXCEPT ![j] = [item[j] EXCEPT !.status = IF ok THEN "review" ELSE "failed", !.valid = ok,
                                                    !.retryable = FALSE]]
    BY <1>7 DEF Validate
  <2>2. CASE i = j
    BY <1>0, <1>7, <2>1, <2>2 DEF Validate, ItemMove, Validated, Becomes
  <2> QED
    BY <1>0, <2>1, <2>2 DEF ItemMove
<1>8. ASSUME NEW ok \in BOOLEAN, ValidateRun(w, ok) PROVE ItemMove(i)
  BY <1>1, <1>7, <1>8, RunRecords DEF ValidateRun
<1>9. ASSUME NEW ok \in BOOLEAN, NEW j \in Items, ValidateLeft(w, j, ok) PROVE ItemMove(i)
  BY <1>7, <1>9 DEF ValidateLeft
<1>10. ASSUME Generate(w) \/ Lost(w) \/ WorkerStops(w) PROVE item' = item
  BY <1>10 DEF Generate, Lost, WorkerStops
<1> QED
  BY <1>1, <1>2, <1>3, <1>4, <1>5, <1>6, <1>8, <1>9, <1>10 DEF WorkerStep

(* A decision of one step, and one that ends a request, move the item they *)
(* name and no other.                                                      *)
LEMMA DecisionMoves ==
  ASSUME TypeOK, NEW m \in Moderators, NEW j \in Items, NEW from, NEW decided,
         Decides(m, j, from, decided), NEW i \in Items
  PROVE  item'[i] = item[i] \/ (i = j /\ In(i, from) /\ item'[i] = decided)
  BY DEF Decides, TypeOK

LEMMA EndMoves ==
  ASSUME TypeOK, NEW m \in Moderators, call[m].item \in Items, NEW allowed, NEW moved,
         Ends(m, allowed, moved), NEW i \in Items
  PROVE  item'[i] = item[i] \/ (i = call[m].item /\ allowed /\ item'[i] = moved)
  BY DEF Ends, TypeOK

LEMMA ModeratorMovesItems ==
  ASSUME TypeInv, NEW m \in Moderators, ModeratorStep(m), NEW i \in Items
  PROVE  ItemMove(i)
<1> USE DEF TypeInv
<1>0. item \in [Items -> ItemRecord \cup {NoItem}]
  BY DEF TypeOK
<1>1. CASE item' = item
  BY <1>1 DEF ItemMove
<1>2. ASSUME NEW j \in Items, OpenForEdit(m, j) PROVE ItemMove(i)
  <2>1. CASE i = j /\ In(i, Editable) /\ item'[i] = [item[i] EXCEPT !.status = "editing"]
    <3>1. item[i] \in ItemRecord
      BY <1>0, <2>1 DEF In, Exists
    <3>2. Becomes(i, [item[i] EXCEPT !.status = "editing", !.approved = item[i].approved])
      BY <2>1, <3>1 DEF Becomes, ItemRecord
    <3>3. <<item[i].status, "editing">> \in Transitions
      BY <2>1, <3>1, TransitionsAre DEF In, Editable, Reviewable, ItemRecord, ItemStatus
    <3> QED
      BY <2>1, <3>2, <3>3 DEF ItemMove, Decided
  <2> QED
    BY <1>2, <2>1, DecisionMoves DEF OpenForEdit, ItemMove
<1>3. ASSUME NEW j \in Items, Withdraw(m, j) PROVE ItemMove(i)
  <2> DEFINE moved == [item[j] EXCEPT !.status = "review", !.approved = NoCid]
  <2>0. Decides(m, j, {"approved"}, moved)
    BY <1>3 DEF Withdraw
  <2>1. CASE i = j /\ In(i, {"approved"}) /\ item'[i] = moved
    <3>1. item[i] \in ItemRecord
      BY <1>0, <2>1 DEF In, Exists
    <3>2. <<item[i].status, "review">> \in Transitions /\ In(i, Editable)
      BY <2>1, <3>1, TransitionsAre DEF In, Editable, Reviewable, ItemRecord, ItemStatus
    <3> QED
      BY <2>1, <3>2 DEF ItemMove, Decided, Becomes
  <2> HIDE DEF moved
  <2> QED
    BY <2>0, <2>1, DecisionMoves DEF ItemMove
<1>4. ASSUME NEW j \in Items, Reject(m, j) PROVE ItemMove(i)
  <2> DEFINE moved == [item[j] EXCEPT !.status = "rejected", !.approved = NoCid]
  <2>0. Decides(m, j, Editable, moved)
    BY <1>4 DEF Reject
  <2>1. CASE i = j /\ In(i, Editable) /\ item'[i] = moved
    <3>1. item[i] \in ItemRecord
      BY <1>0, <2>1 DEF In, Exists
    <3>2. <<item[i].status, "rejected">> \in Transitions
      BY <2>1, <3>1, TransitionsAre DEF In, Editable, Reviewable, ItemRecord, ItemStatus
    <3> QED
      BY <2>1, <3>2 DEF ItemMove, Decided, Becomes
  <2> HIDE DEF moved
  <2> QED
    BY <2>0, <2>1, DecisionMoves DEF ItemMove
<1>5. CASE Approve(m)
  <2>1. call[m].item \in Items
    BY <1>5, RequestRecords DEF Approve
  <2> DEFINE j == call[m].item
             allowed == In(j, Reviewable) /\ item[j].cid = call[m].cid /\ item[j].valid
             moved == [item[j] EXCEPT !.status = "approved", !.approved = call[m].cid]
  <2>2. Ends(m, allowed, moved)
    BY <1>5 DEF Approve
  <2>3. CASE i = j /\ allowed /\ item'[i] = moved
    BY <2>3 DEF ItemMove, Approved, Becomes
  <2> HIDE DEF allowed, moved
  <2> QED
    BY <2>1, <2>2, <2>3, EndMoves DEF ItemMove
<1>6. CASE Regenerate(m)
  <2>1. call[m].item \in Items
    BY <1>6, RequestRecords DEF Regenerate
  <2> DEFINE j == call[m].item
             allowed == In(j, Reviewable \cup {"rejected", "failed"}) /\ item[j].seed < MaxSeed
             moved == [item[j] EXCEPT !.status = "queued", !.seed = @ + 1, !.attempt = 0, !.retryable = FALSE,
                                      !.valid = FALSE, !.approved = NoCid]
  <2>2. Ends(m, allowed, moved)
    BY <1>6 DEF Regenerate
  <2>3. CASE i = j /\ allowed /\ item'[i] = moved
    BY <2>3 DEF ItemMove, Requeued, Becomes
  <2> HIDE DEF allowed, moved
  <2> QED
    BY <2>1, <2>2, <2>3, EndMoves DEF ItemMove
<1>7. CASE Retry(m)
  <2>1. call[m].item \in Items
    BY <1>7, RequestRecords DEF Retry
  <2> DEFINE j == call[m].item
             allowed == In(j, {"failed"}) /\ item[j].retryable
             moved == [item[j] EXCEPT !.status = "queued", !.attempt = 0, !.retryable = FALSE]
  <2>2. Ends(m, allowed, moved)
    BY <1>7 DEF Retry
  <2>3. CASE i = j /\ allowed /\ item'[i] = moved
    BY <2>3 DEF ItemMove, Retried, Becomes
  <2> HIDE DEF allowed, moved
  <2> QED
    BY <2>1, <2>2, <2>3, EndMoves DEF ItemMove
<1>8. ASSUME NEW valid \in BOOLEAN, Save(m, valid) PROVE ItemMove(i)
  <2>1. call[m].item \in Items /\ call[m].step = "save"
    BY <1>8, RequestRecords DEF Save
  <2> DEFINE j == call[m].item
             cid == call[m].cid
             same == Exists(j) /\ item[j].cid = cid
             allowed == IF same THEN In(j, {"editing"}) ELSE In(j, Editable)
             moved == IF same THEN [item[j] EXCEPT !.status = "review"]
                      ELSE [item[j] EXCEPT !.status = "review", !.cid = cid, !.valid = valid,
                                           !.revisions = @ \cup {cid}, !.approved = NoCid]
  <2>2. Ends(m, allowed, moved) /\ stored' = stored
    BY <1>8 DEF Save, Ends, content
  <2>3. CASE i = j /\ same /\ allowed /\ item'[i] = moved
    <3>1. In(i, {"editing"}) /\ item[i] \in ItemRecord /\ item'[i] = [item[i] EXCEPT !.status = "review"]
      BY <1>0, <2>3 DEF In, Exists
    <3>2. Becomes(i, [item[i] EXCEPT !.status = "review", !.approved = item[i].approved])
      BY <3>1 DEF Becomes, ItemRecord
    <3>3. <<item[i].status, "review">> \in Transitions /\ In(i, Editable)
      BY <3>1, TransitionsAre DEF In, Editable, Reviewable, ItemRecord, ItemStatus
    <3> QED
      BY <3>2, <3>3 DEF ItemMove, Decided
  <2>4. CASE i = j /\ ~same /\ allowed /\ item'[i] = moved
    <3>1. In(i, Editable)
      BY <2>4
    <3>2. Becomes(i, [item[i] EXCEPT !.status = "review", !.cid = call[m].cid, !.valid = valid,
                                     !.revisions = @ \cup {call[m].cid}, !.approved = NoCid])
      BY <2>4 DEF Becomes
    <3> QED
      BY <2>1, <2>2, <2>4, <3>1, <3>2 DEF ItemMove, Saved
  <2> HIDE DEF allowed, moved, same
  <2> QED
    BY <2>1, <2>2, <2>3, <2>4, EndMoves DEF ItemMove
<1>9. CASE Promote(m)
  <2> DEFINE j == call[m].item
  <2>1. j \in Items /\ call[m].step = "bind"
    BY <1>9, RequestRecords DEF Promote
  <2>2. CASE item' # item /\ i = j
    <3>1. In(i, {"approved"}) /\ item[i].cid = call[m].cid
      BY <1>9, <2>2 DEF Promote
    <3>2. item' = [item EXCEPT ![i].status = "promoted", ![i].promotion = call[m].cid]
      BY <1>9, <2>2 DEF Promote
    <3>3. Becomes(i, [item[i] EXCEPT !.status = "promoted", !.promotion = item[i].cid])
      BY <1>0, <3>1, <3>2 DEF Becomes
    <3> QED
      BY <1>9, <2>1, <2>2, <3>1, <3>3 DEF ItemMove, Promoted
  <2>3. CASE item' # item /\ i # j
    BY <1>0, <1>9, <2>1, <2>3 DEF Promote, ItemMove
  <2> QED
    BY <1>1, <2>2, <2>3
<1>10. CASE EnsureItems(m)
  BY <1>10 DEF EnsureItems, ItemMove, Stored, Becomes
<1>11. CASE StopItems(m)
  <2>1. CASE In(i, Active)
    BY <1>11, <2>1 DEF StopItems, ItemMove, Cancelled, Becomes
  <2> QED
    BY <1>11, <2>1 DEF StopItems, ItemMove
<1>12. CASE DeleteItems(m)
  BY <1>12 DEF DeleteItems, OnlyDeletesDelete, ItemMove, Deleted, Becomes
<1>13. ASSUME NEW j \in Items,
              \/ AskApprove(m, j) \/ AskPromote(m, j)
              \/ \E step \in {"regenerate", "retry"} : AskQueue(m, j, step)
              \/ \E cid \in Revisions(j) : AskSave(m, j, cid)
       PROVE  item' = item
  BY <1>13 DEF AskApprove, AskPromote, AskQueue, AskSave
<1>14. ASSUME \/ AskStore(m) \/ CancelJob(m) \/ DeleteJob(m) \/ ReadKeepers(m) \/ Purge(m)
              \/ DeleteLast(m) \/ ModeratorStops(m)
       PROVE  item' = item
  BY <1>14 DEF AskStore, CancelJob, DeleteJob, ReadKeepers, Purge, DeleteLast, ModeratorStops
<1> QED
  BY <1>1, <1>2, <1>3, <1>4, <1>5, <1>6, <1>7, <1>8, <1>9, <1>10, <1>11, <1>12, <1>13, <1>14 DEF ModeratorStep

LEMMA ItemMoves ==
  ASSUME TypeInv, [Next]_vars, NEW i \in Items
  PROVE  ItemMove(i)
<1>1. CASE UNCHANGED vars
  BY <1>1 DEF vars, ItemMove
<1> QED
  BY <1>1, WorkerMovesItems, ModeratorMovesItems DEF Next

(* The runs of the other workers stay as they are, unless the items are    *)
(* deleted.                                                                *)
LEMMA RunMoves ==
  ASSUME TypeInv, [Next]_vars, NEW v \in Workers
  PROVE  RunMove(v)
<1> USE DEF TypeInv
<1>0. worker \in [Workers -> RunRecord \cup {Idle}]
  BY DEF TypeOK
<1>1. CASE worker' = worker
  BY <1>1 DEF RunMove
<1>2. ASSUME NEW w \in Workers, Runs(w, Idle) PROVE RunMove(v)
  BY <1>0, <1>2 DEF Runs, RunMove
<1>3. ASSUME NEW w \in Workers, worker[w] # Idle,
             NEW step \in {"record", "lost", "validate"}, RunGoes(w, step),
             step = "record" => Result(w) \in stored'
      PROVE  RunMove(v)
  BY <1>0, <1>3 DEF RunGoes, Runs, RunMove
<1>4. ASSUME NEW w \in Workers, NEW i \in Items, Claim(w, i) PROVE RunMove(v)
  <2>1. CASE v = w
    <3>1. worker'[v] = [step |-> "run", item |-> i, seed |-> item[i].seed,
                        attempt |-> item[i].attempt + 1, exists |-> TRUE]
      BY <1>0, <1>4, <2>1 DEF Claim, Runs
    <3>2. /\ worker[v] = Idle /\ Eligible(i)
          /\ item' = [item EXCEPT ![i].status = "running", ![i].holder = v, ![i].attempt = @ + 1]
      BY <1>4, <2>1 DEF Claim
    <3> QED
      BY <3>1, <3>2 DEF RunMove
  <2> QED
    BY <1>0, <1>4, <2>1 DEF Claim, Runs, RunMove
<1>5. ASSUME NEW w \in Workers, WorkerStep(w) \/ WorkerStops(w) PROVE RunMove(v)
  <2>1. CASE Generate(w)
    BY <1>3, <2>1, RunRecords DEF Generate
  <2>2. CASE Record(w)
    BY <1>3, <2>2, RunRecords DEF Record
  <2>3. CASE RunStopped(w) \/ Lost(w) \/ WorkerStops(w)
    BY <1>2, <2>3 DEF RunStopped, Lost, WorkerStops
  <2>4. ASSUME NEW refused \in BOOLEAN, RunFails(w, refused) PROVE RunMove(v)
    BY <1>2, <2>4 DEF RunFails
  <2>5. ASSUME NEW ok \in BOOLEAN, ValidateRun(w, ok) PROVE RunMove(v)
    BY <1>2, <2>5 DEF ValidateRun
  <2>6. ASSUME NEW i \in Items, NEW ok \in BOOLEAN, FailExhausted(w, i) \/ ValidateLeft(w, i, ok)
        PROVE  worker' = worker
    BY <2>6 DEF FailExhausted, ValidateLeft
  <2> QED
    BY <1>1, <1>4, <1>5, <2>1, <2>2, <2>3, <2>4, <2>5, <2>6 DEF WorkerStep
<1>6. ASSUME NEW m \in Moderators, ModeratorStep(m) PROVE RunMove(v)
  <2>1. CASE DeleteItems(m)
    BY <1>0, <2>1 DEF DeleteItems, OnlyDeletesDelete, RunMove
  <2>2. ASSUME NEW j \in Items,
               \/ OpenForEdit(m, j) \/ Withdraw(m, j) \/ Reject(m, j)
               \/ AskApprove(m, j) \/ AskPromote(m, j)
               \/ \E step \in {"regenerate", "retry"} : AskQueue(m, j, step)
               \/ \E cid \in Revisions(j) : AskSave(m, j, cid)
        PROVE  worker' = worker
    BY <2>2 DEF OpenForEdit, Withdraw, Reject, Decides, AskApprove, AskPromote, AskQueue, AskSave
  <2>3. ASSUME \/ \E valid \in BOOLEAN : Save(m, valid)
               \/ Approve(m) \/ Regenerate(m) \/ Retry(m) \/ Promote(m)
        PROVE  worker' = worker
    BY <2>3 DEF Save, Approve, Regenerate, Retry, Promote, Ends
  <2>4. ASSUME \/ AskStore(m) \/ EnsureItems(m) \/ CancelJob(m) \/ DeleteJob(m) \/ StopItems(m)
               \/ ReadKeepers(m) \/ Purge(m) \/ DeleteLast(m) \/ ModeratorStops(m)
        PROVE  worker' = worker
    BY <2>4 DEF AskStore, EnsureItems, CancelJob, DeleteJob, StopItems, ReadKeepers, Purge, DeleteLast,
                ModeratorStops
  <2> QED
    BY <1>1, <1>6, <2>1, <2>2, <2>3, <2>4 DEF ModeratorStep
<1> QED
  BY <1>1, <1>5, <1>6 DEF Next, vars

(* An item and a run of a worker are written where they are.               *)
LEMMA FunctionsStay ==
  ASSUME TypeInv, [Next]_vars
  PROVE  item' = [i \in Items |-> item'[i]] /\ worker' = [w \in Workers |-> worker'[w]]
<1> USE DEF TypeInv
<1> DEFINE Stay == item' = [i \in Items |-> item'[i]] /\ worker' = [w \in Workers |-> worker'[w]]
<1>0. item = [i \in Items |-> item[i]] /\ worker = [w \in Workers |-> worker[w]]
  BY DEF TypeOK
<1>1. ASSUME NEW w \in Workers, WorkerStep(w) \/ WorkerStops(w) PROVE Stay
  <2>1. CASE Generate(w) \/ RunStopped(w) \/ Record(w) \/ Lost(w) \/ WorkerStops(w)
    BY <1>0, <2>1 DEF Generate, RunStopped, Record, Lost, WorkerStops, Runs, RunGoes
  <2>2. ASSUME NEW i \in Items, FailExhausted(w, i) \/ Claim(w, i) PROVE Stay
    BY <1>0, <2>2 DEF FailExhausted, Claim, Runs
  <2>3. ASSUME NEW refused \in BOOLEAN, RunFails(w, refused) PROVE Stay
    BY <1>0, <2>3 DEF RunFails, Runs
  <2>4. ASSUME NEW ok \in BOOLEAN, ValidateRun(w, ok) \/ \E i \in Items : ValidateLeft(w, i, ok) PROVE Stay
    BY <1>0, <2>4 DEF ValidateRun, ValidateLeft, Validate, Runs
  <2> QED
    BY <1>1, <2>1, <2>2, <2>3, <2>4 DEF WorkerStep
<1>2. ASSUME NEW m \in Moderators, ModeratorStep(m) PROVE Stay
  <2>1. CASE DeleteItems(m) \/ EnsureItems(m) \/ StopItems(m)
    BY <1>0, <2>1 DEF DeleteItems, EnsureItems, StopItems
  <2>2. ASSUME NEW j \in Items,
               \/ OpenForEdit(m, j) \/ Withdraw(m, j) \/ Reject(m, j)
               \/ AskApprove(m, j) \/ AskPromote(m, j)
               \/ \E step \in {"regenerate", "retry"} : AskQueue(m, j, step)
               \/ \E cid \in Revisions(j) : AskSave(m, j, cid)
        PROVE  Stay
    BY <1>0, <2>2 DEF OpenForEdit, Withdraw, Reject, Decides, AskApprove, AskPromote, AskQueue, AskSave
  <2>3. ASSUME NEW allowed, NEW moved, Ends(m, allowed, moved) PROVE Stay
    BY <1>0, <2>3 DEF Ends
  <2>4. CASE (\E valid \in BOOLEAN : Save(m, valid)) \/ Approve(m) \/ Regenerate(m) \/ Retry(m)
    BY <2>3, <2>4 DEF Save, Approve, Regenerate, Retry
  <2>5. CASE Promote(m)
    BY <1>0, <2>5 DEF Promote
  <2>6. CASE \/ AskStore(m) \/ CancelJob(m) \/ DeleteJob(m)
             \/ ReadKeepers(m) \/ Purge(m) \/ DeleteLast(m) \/ ModeratorStops(m)
    BY <1>0, <2>6 DEF AskStore, CancelJob, DeleteJob, ReadKeepers, Purge, DeleteLast, ModeratorStops
  <2> QED
    BY <1>2, <2>1, <2>2, <2>4, <2>5, <2>6 DEF ModeratorStep
<1> QED
  BY <1>0, <1>1, <1>2 DEF Next, vars

-----------------------------------------------------------------------------
(***************************************************************************)
(* Every move keeps the type of an item, its names, its holder and its     *)
(* attempts.                                                               *)
(***************************************************************************)
ItemKept(i2, i) ==
    /\ i2.holder # NoWorker => i2.status \in {"running", "cancelled"}
    /\ i2.revisions \cup {i2.cid, i2.approved, i2.promotion} \subseteq Revisions(i) \cup {NoCid}
    /\ i2.status = "queued" => i2.attempt < MaxAttempts

LEMMA ItemIsKept ==
  ASSUME TypeInv, NEW i \in Items, Exists(i)
  PROVE  item[i] \in ItemRecord /\ ItemKept(item[i], i)
  BY DEF TypeInv, TypeOK, Exists, In, ItemKept, QueuedHasRunLeft

LEMMA FreshIsKept == ASSUME NEW i \in Items PROVE Fresh \in ItemRecord /\ ItemKept(Fresh, i)
  BY BoundAssumption DEF Fresh, ItemRecord, ItemStatus, ItemKept

LEMMA MovedItemIsKept ==
  ASSUME TypeInv, [Next]_vars, NEW i \in Items, ~Deleted(i), Exists(i) \/ item'[i] # NoItem
  PROVE  item'[i] \in ItemRecord /\ ItemKept(item'[i], i)
<1> DEFINE Goal == item'[i] \in ItemRecord /\ ItemKept(item'[i], i)
<1>0. In(i, ItemStatus) \/ Exists(i) => item[i] \in ItemRecord /\ ItemKept(item[i], i)
  BY ItemIsKept DEF In
<1>1. CASE item'[i] = item[i]
  BY <1>0, <1>1 DEF Exists
<1>2. CASE Stored(i)
  BY <1>2, FreshIsKept DEF Stored, Becomes
<1>3. CASE Claimed(i)
  <2>1. PICK w \in Workers :
          /\ Eligible(i)
          /\ item'[i] = [item[i] EXCEPT !.status = "running", !.holder = w, !.attempt = @ + 1]
    BY <1>3 DEF Claimed, Becomes
  <2>2. item[i] \in ItemRecord /\ ItemKept(item[i], i) /\ item[i].attempt < MaxAttempts
    BY <1>0, <2>1 DEF Eligible, In, ItemKept
  <2> DEFINE attempt == item[i].attempt + 1
  <2>3. attempt \in 0 .. MaxAttempts
    BY <2>2, BoundAssumption DEF ItemRecord
  <2>4. item'[i] = [item[i] EXCEPT !.status = "running", !.holder = w, !.attempt = attempt]
    BY <2>1
  <2> HIDE DEF attempt
  <2>5. item'[i] \in ItemRecord
    BY <2>2, <2>3, <2>4 DEF ItemRecord, ItemStatus
  <2> QED
    BY <2>2, <2>4, <2>5 DEF ItemRecord, ItemKept
<1>4. CASE Released(i)
  <2>1. item[i] \in ItemRecord /\ ItemKept(item[i], i)
    BY <1>0, <1>4 DEF Released, In
  <2>2. PICK status \in {"queued", "failed"}, retryable \in BOOLEAN :
          /\ status = "queued" => item[i].attempt < MaxAttempts
          /\ item'[i] = [item[i] EXCEPT !.status = status, !.retryable = retryable, !.holder = NoWorker]
    BY <1>4 DEF Released, Becomes
  <2>9. item'[i] \in ItemRecord
    BY <2>1, <2>2 DEF ItemRecord, ItemStatus
  <2> QED
    BY <2>1, <2>2, <2>9 DEF ItemRecord, ItemKept
<1>5. CASE Cancelled(i)
  <2>1. item[i] \in ItemRecord /\ ItemKept(item[i], i)
    BY <1>0, <1>5 DEF Cancelled, In
  <2>2. PICK holder \in {item[i].holder, NoWorker} :
          item'[i] = [item[i] EXCEPT !.status = "cancelled", !.holder = holder]
    BY <1>5 DEF Cancelled, Becomes
  <2>9. item'[i] \in ItemRecord
    BY <2>1, <2>2 DEF ItemRecord, ItemStatus
  <2> QED
    BY <2>1, <2>2, <2>9 DEF ItemRecord, ItemKept
<1>6. CASE Recorded(i)
  <2>1. PICK w \in Workers :
          /\ worker[w].step = "record" /\ worker[w].item = i /\ Holds(w, i)
          /\ item'[i] = [item[i] EXCEPT !.status = "generated", !.holder = NoWorker,
                                        !.cid = Result(w), !.revisions = @ \cup {Result(w)},
                                        !.valid = FALSE, !.approved = NoCid, !.retryable = FALSE]
    BY <1>6 DEF Recorded, Becomes
  <2>2. item[i] \in ItemRecord /\ ItemKept(item[i], i)
    BY <1>0, <2>1 DEF Holds, In
  <2>3. worker[w] \in RunRecord
    BY <2>1, RunRecords DEF TypeInv
  <2>4. Result(w) \in Revisions(i)
    BY <2>1, <2>3 DEF Result, Revisions, RunRecord
  <2>5. Result(w) \in Cids
    BY <2>4, NamesDiffer
  <2> DEFINE revisions == item[i].revisions \cup {Result(w)}
  <2>6. revisions \in SUBSET Cids /\ revisions \subseteq Revisions(i) \cup {NoCid}
    BY <2>2, <2>4, <2>5 DEF ItemRecord, ItemKept
  <2>7. item'[i] = [item[i] EXCEPT !.status = "generated", !.holder = NoWorker, !.cid = Result(w),
                      !.revisions = revisions, !.valid = FALSE, !.approved = NoCid, !.retryable = FALSE]
    BY <2>1
  <2> HIDE DEF revisions
  <2>8. item'[i] \in ItemRecord
    BY <2>2, <2>5, <2>6, <2>7 DEF ItemRecord, ItemStatus
  <2> QED
    BY <2>2, <2>4, <2>6, <2>7, <2>8 DEF ItemRecord, ItemKept
<1>7. CASE Validated(i)
  <2>1. item[i] \in ItemRecord /\ ItemKept(item[i], i) /\ item[i].status = "generated"
    BY <1>0, <1>7 DEF Validated, In
  <2>2. PICK ok \in BOOLEAN :
          item'[i] = [item[i] EXCEPT !.status = IF ok THEN "review" ELSE "failed", !.valid = ok, !.retryable = FALSE]
    BY <1>7 DEF Validated, Becomes
  <2>9. item'[i] \in ItemRecord
    BY <2>1, <2>2 DEF ItemRecord, ItemStatus
  <2> QED
    BY <2>1, <2>2, <2>9 DEF ItemRecord, ItemKept
<1>8. CASE Decided(i)
  <2>1. item[i] \in ItemRecord /\ ItemKept(item[i], i) /\ item[i].status \in Editable
    BY <1>0, <1>8 DEF Decided, In
  <2>2. PICK status \in {"editing", "review", "rejected"}, approved \in {item[i].approved, NoCid} :
          item'[i] = [item[i] EXCEPT !.status = status, !.approved = approved]
    BY <1>8 DEF Decided, Becomes
  <2>9. item'[i] \in ItemRecord
    BY <2>1, <2>2 DEF ItemRecord, ItemStatus
  <2> QED
    BY <2>1, <2>2, <2>9 DEF ItemRecord, ItemKept, Editable, Reviewable
<1>9. CASE Approved(i)
  <2>1. item[i] \in ItemRecord /\ ItemKept(item[i], i) /\ item[i].status \in Reviewable
    BY <1>0, <1>9 DEF Approved, In
  <2>2. item'[i] = [item[i] EXCEPT !.status = "approved", !.approved = item[i].cid]
    BY <1>9 DEF Approved, Becomes
  <2>9. item'[i] \in ItemRecord
    BY <2>1, <2>2 DEF ItemRecord, ItemStatus
  <2> QED
    BY <2>1, <2>2, <2>9 DEF ItemRecord, ItemKept, Reviewable
<1>10. CASE Requeued(i)
  <2>1. /\ item[i] \in ItemRecord /\ ItemKept(item[i], i) /\ item[i].seed < MaxSeed
        /\ item[i].status \in Reviewable \cup {"rejected", "failed"}
    BY <1>0, <1>10 DEF Requeued, In
  <2>2. item'[i] = [item[i] EXCEPT !.status = "queued", !.seed = @ + 1, !.attempt = 0, !.retryable = FALSE,
                                   !.valid = FALSE, !.approved = NoCid]
    BY <1>10 DEF Requeued, Becomes
  <2> DEFINE seed == item[i].seed + 1
  <2>3. seed \in 0 .. MaxSeed /\ 0 \in 0 .. MaxAttempts /\ 0 < MaxAttempts
    BY <2>1, BoundAssumption DEF ItemRecord
  <2>4. item'[i] = [item[i] EXCEPT !.status = "queued", !.seed = seed, !.attempt = 0, !.retryable = FALSE,
                                   !.valid = FALSE, !.approved = NoCid]
    BY <2>2
  <2> HIDE DEF seed
  <2>5. item'[i] \in ItemRecord
    BY <2>1, <2>3, <2>4 DEF ItemRecord, ItemStatus
  <2> QED
    BY <2>1, <2>3, <2>4, <2>5 DEF ItemRecord, ItemKept, Reviewable
<1>11. CASE Retried(i)
  <2>1. item[i] \in ItemRecord /\ ItemKept(item[i], i) /\ item[i].status = "failed"
    BY <1>0, <1>11 DEF Retried, In
  <2>2. item'[i] = [item[i] EXCEPT !.status = "queued", !.attempt = 0, !.retryable = FALSE]
    BY <1>11 DEF Retried, Becomes
  <2>3. 0 \in 0 .. MaxAttempts
    BY BoundAssumption
  <2>9. item'[i] \in ItemRecord
    BY <2>1, <2>2, <2>3 DEF ItemRecord, ItemStatus
  <2> QED
    BY <2>1, <2>2, <2>9, BoundAssumption DEF ItemRecord, ItemKept
<1>12. CASE Saved(i)
  <2>1. item[i] \in ItemRecord /\ ItemKept(item[i], i) /\ item[i].status \in Editable
    BY <1>0, <1>12 DEF Saved, In
  <2>2. PICK m \in Moderators, valid \in BOOLEAN :
          /\ call[m].step = "save" /\ call[m].item = i
          /\ item'[i] = [item[i] EXCEPT !.status = "review", !.cid = call[m].cid, !.valid = valid,
                                       !.revisions = @ \cup {call[m].cid}, !.approved = NoCid]
    BY <1>12 DEF Saved, Becomes
  <2>3. call[m].cid \in Revisions(i) /\ call[m].cid \in Cids
    BY <2>2, RequestRecords DEF TypeInv, RequestsNameTheirItem
  <2> DEFINE revisions == item[i].revisions \cup {call[m].cid}
  <2>4. revisions \in SUBSET Cids /\ revisions \subseteq Revisions(i) \cup {NoCid}
    BY <2>1, <2>3 DEF ItemRecord, ItemKept
  <2>5. item'[i] = [item[i] EXCEPT !.status = "review", !.cid = call[m].cid, !.valid = valid,
                                   !.revisions = revisions, !.approved = NoCid]
    BY <2>2
  <2> HIDE DEF revisions
  <2>6. item'[i] \in ItemRecord
    BY <2>1, <2>3, <2>4, <2>5 DEF ItemRecord, ItemStatus
  <2> QED
    BY <2>1, <2>3, <2>4, <2>5, <2>6 DEF ItemRecord, ItemKept, Editable, Reviewable
<1>13. CASE Promoted(i)
  <2>1. item[i] \in ItemRecord /\ ItemKept(item[i], i) /\ item[i].status = "approved"
    BY <1>0, <1>13 DEF Promoted, In
  <2>2. item'[i] = [item[i] EXCEPT !.status = "promoted", !.promotion = item[i].cid]
    BY <1>13 DEF Promoted, Becomes
  <2>9. item'[i] \in ItemRecord
    BY <2>1, <2>2 DEF ItemRecord, ItemStatus
  <2> QED
    BY <2>1, <2>2, <2>9 DEF ItemRecord, ItemKept
<1> QED
  BY <1>1, <1>2, <1>3, <1>4, <1>5, <1>6, <1>7, <1>8, <1>9, <1>10, <1>11, <1>12, <1>13, ItemMoves DEF ItemMove

LEMMA ItemKeepsType ==
  ASSUME TypeInv, [Next]_vars, NEW i \in Items, item'[i] # NoItem
  PROVE  item'[i] \in ItemRecord /\ ItemKept(item'[i], i)
  BY MovedItemIsKept DEF Deleted, Becomes

(* An item is gone only after a delete.                                    *)
LEMMA OnlyDeletesDrop ==
  ASSUME TypeInv, [Next]_vars, NEW i \in Items, Exists(i), item'[i] = NoItem
  PROVE  Deleted(i)
  BY MovedItemIsKept, NameAssumption

-----------------------------------------------------------------------------
(***************************************************************************)
(* The job, the requests and the content.                                  *)
(***************************************************************************)
JobRecord == [status : {"queued", "running", "completed", "cancelled", "gone"}, deleting : BOOLEAN]

LEMMA SyncedJob ==
  ASSUME TypeOK, NEW items
  PROVE  /\ Synced(items) \in JobRecord
         /\ Synced(items).deleting = job.deleting
         /\ Stopped => Synced(items) = job
<1>1. job \in JobRecord
  BY DEF TypeOK, JobRecord
<1> DEFINE some(statuses) == \E i \in Items : items[i] # NoItem /\ items[i].status \in statuses
           status == CASE some(Waiting) /\ job.status = "completed" -> "running"
                       [] some({"running"}) /\ job.status = "queued" -> "running"
                       [] ~some(Waiting) /\ job.status \in {"queued", "running"} -> "completed"
                       [] OTHER -> job.status
<1>2. Synced(items) = [job EXCEPT !.status = status]
  BY DEF Synced
<1> HIDE DEF some
<1>3. status \in {"running", "completed", job.status}
  OBVIOUS
<1>4. Stopped => status = job.status
  BY DEF Stopped
<1> HIDE DEF status
<1> QED
  BY <1>1, <1>2, <1>3, <1>4 DEF JobRecord

(* Every step keeps the job in its type, a delete that began, and a job    *)
(* that is cancelled or gone.                                              *)
JobMove ==
    /\ job' \in JobRecord
    /\ job.deleting => job'.deleting
    /\ Stopped => job'.status \in {"cancelled", "gone"} /\ (job.status = "gone" => job'.status = "gone")

LEMMA JobMoves == ASSUME TypeInv, [Next]_vars PROVE JobMove
<1> USE DEF TypeInv
<1>0. job \in JobRecord
  BY DEF TypeOK, JobRecord
<1>1. CASE Sync
  BY <1>0, <1>1, SyncedJob DEF Sync, JobMove, Stopped
<1>2. CASE job' = job
  BY <1>0, <1>2 DEF JobMove, Stopped
<1>3. ASSUME NEW w \in Workers, WorkerStep(w) \/ WorkerStops(w) PROVE Sync \/ job' = job
  BY <1>3 DEF WorkerStep, WorkerStops, Generate, RunStopped, Record, Lost, FailExhausted, Claim, RunFails,
              ValidateRun, ValidateLeft
<1>4. ASSUME NEW m \in Moderators, ModeratorStep(m) PROVE JobMove
  <2>1. CASE CancelJob(m)
    BY <1>0, <2>1 DEF CancelJob, JobMove, JobRecord
  <2>2. CASE DeleteJob(m)
    BY <2>2 DEF DeleteJob, JobMove, JobRecord, Stopped
  <2>3. CASE DeleteLast(m)
    BY <1>0, <2>3 DEF DeleteLast, JobMove, JobRecord
  <2>4. ASSUME NEW j \in Items,
               \/ OpenForEdit(m, j) \/ Withdraw(m, j) \/ Reject(m, j)
               \/ AskApprove(m, j) \/ AskPromote(m, j)
               \/ \E step \in {"regenerate", "retry"} : AskQueue(m, j, step)
               \/ \E cid \in Revisions(j) : AskSave(m, j, cid)
        PROVE  Sync \/ job' = job
    BY <2>4 DEF OpenForEdit, Withdraw, Reject, Decides, AskApprove, AskPromote, AskQueue, AskSave
  <2>5. ASSUME \/ \E valid \in BOOLEAN : Save(m, valid)
               \/ Approve(m) \/ Regenerate(m) \/ Retry(m) \/ Promote(m)
        PROVE  Sync \/ job' = job
    BY <2>5 DEF Save, Approve, Regenerate, Retry, Promote, Ends
  <2>6. ASSUME \/ AskStore(m) \/ EnsureItems(m) \/ StopItems(m) \/ ReadKeepers(m) \/ Purge(m)
               \/ DeleteItems(m) \/ ModeratorStops(m)
        PROVE  Sync \/ job' = job
    BY <2>6 DEF AskStore, EnsureItems, StopItems, ReadKeepers, Purge, DeleteItems, ModeratorStops
  <2> QED
    BY <1>1, <1>2, <1>4, <2>1, <2>2, <2>3, <2>4, <2>5, <2>6 DEF ModeratorStep
<1> QED
  BY <1>1, <1>2, <1>3, <1>4 DEF Next, vars

LEMMA CallMoves ==
  ASSUME TypeInv, [Next]_vars, NEW n \in Moderators
  PROVE  CallMove(n) /\ call' = [m \in Moderators |-> call'[m]] /\ asked' \in 0 .. MaxCalls
<1> USE DEF TypeInv
<1> DEFINE Goal == CallMove(n) /\ call' = [m \in Moderators |-> call'[m]] /\ asked' \in 0 .. MaxCalls
<1>0. call = [m \in Moderators |-> call[m]] /\ asked \in 0 .. MaxCalls
  BY DEF TypeOK
<1>1. CASE call' = call /\ asked' = asked
  BY <1>0, <1>1 DEF CallMove
<1>2. ASSUME NEW m \in Moderators, NEW next, Goes(m, next)
      PROVE  /\ call'[n] = call[n] \/ call'[n] = next
             /\ call' = [k \in Moderators |-> call'[k]] /\ asked' \in 0 .. MaxCalls
  BY <1>0, <1>2 DEF Goes
<1>3. ASSUME NEW m \in Moderators, NEW next, Asks(m, next)
      PROVE  /\ call'[n] = call[n] \/ call'[n] = next
             /\ call' = [k \in Moderators |-> call'[k]] /\ asked' \in 0 .. MaxCalls
  BY <1>0, <1>3, BoundAssumption DEF Asks
<1>4. ASSUME NEW w \in Workers, WorkerStep(w) \/ WorkerStops(w) PROVE call' = call /\ asked' = asked
  BY <1>4 DEF WorkerStep, WorkerStops, Generate, RunStopped, Record, Lost, FailExhausted, Claim, RunFails,
              ValidateRun, ValidateLeft
<1>5. ASSUME NEW m \in Moderators, ModeratorStep(m) PROVE Goal
  <2>1. ASSUME NEW j \in Items, OpenForEdit(m, j) \/ Withdraw(m, j) \/ Reject(m, j) PROVE Asks(m, Idle)
    BY <2>1 DEF OpenForEdit, Withdraw, Reject, Decides
  <2>2. ASSUME NEW j \in Items, AskApprove(m, j) PROVE Goal
    <3>1. item[j].cid \in Revisions(j) /\ item[j].cid \in Cids
      BY <2>2, NamesDiffer DEF AskApprove, TypeOK
    <3> QED
      BY <1>3, <2>2, <3>1 DEF AskApprove, CallMove
  <2>3. ASSUME NEW j \in Items, AskPromote(m, j) PROVE Goal
    <3>1. NoCid \notin Cids
      BY NamesDiffer DEF Cids, Sources
    <3>2. item[j].cid \in Revisions(j) /\ item[j].cid \in Cids
      BY <2>3, <3>1 DEF AskPromote, TypeOK, In
    <3> QED
      BY <1>3, <2>3, <3>2 DEF AskPromote, CallMove
  <2>4. ASSUME NEW j \in Items, NEW step \in {"regenerate", "retry"}, AskQueue(m, j, step) PROVE Goal
    BY <1>3, <2>4 DEF AskQueue, CallMove
  <2>5. ASSUME NEW j \in Items, NEW cid \in Revisions(j), AskSave(m, j, cid) PROVE Goal
    BY <1>3, <2>5 DEF AskSave, CallMove
  <2>6. ASSUME \/ \E valid \in BOOLEAN : Save(m, valid)
               \/ Approve(m) \/ Regenerate(m) \/ Retry(m) \/ Promote(m)
               \/ EnsureItems(m) \/ DeleteLast(m) \/ ModeratorStops(m)
        PROVE  Goes(m, Idle)
    BY <2>6 DEF Save, Approve, Regenerate, Retry, Promote, Ends, EnsureItems, DeleteLast, ModeratorStops
  <2>7. CASE AskStore(m)
    BY <1>3, <2>7 DEF AskStore, CallMove
  <2>8. CASE CancelJob(m)
    BY <1>3, <2>8 DEF CancelJob, CallMove
  <2>9. CASE DeleteJob(m)
    <3>1. job'.deleting /\ Asks(m, [step |-> "stop", delete |-> TRUE])
      BY <2>9 DEF DeleteJob
    <3> QED
      BY <1>3, <3>1 DEF CallMove
  <2>10. CASE StopItems(m)
    <3>1. call[m].delete => job.deleting
      BY <2>10 DEF StopItems, OnlyDeletesDelete
    <3>2. CASE call[m].delete
      BY <1>2, <2>10, <3>1, <3>2 DEF StopItems, CallMove
    <3>3. CASE ~call[m].delete
      BY <1>2, <2>10, <3>3 DEF StopItems, CallMove
    <3> QED
      BY <3>2, <3>3
  <2>11. CASE ReadKeepers(m)
    <3> DEFINE cids == {c \in stored : Named(c) /\ ~Bound(c)}
    <3>1. job.deleting /\ cids \in SUBSET stored /\ Goes(m, [step |-> "purge", cids |-> cids])
      BY <2>11 DEF ReadKeepers, OnlyDeletesDelete
    <3> HIDE DEF cids
    <3> QED
      BY <1>2, <3>1 DEF CallMove
  <2>12. CASE Purge(m)
    BY <1>2, <2>12 DEF Purge, OnlyDeletesDelete, CallMove
  <2>13. CASE DeleteItems(m)
    BY <1>0, <2>13 DEF DeleteItems, OnlyDeletesDelete, CallMove
  <2> QED
    BY <1>2, <1>3, <1>5, <2>1, <2>2, <2>3, <2>4, <2>5, <2>6, <2>7, <2>8, <2>9, <2>10, <2>11, <2>12, <2>13
    DEF ModeratorStep, CallMove
<1> QED
  BY <1>1, <1>4, <1>5 DEF Next, vars

(* What a run generates is a revision of its item.                         *)
LEMMA ResultIsRevision ==
  ASSUME TypeOK, NEW w \in Workers, worker[w] # Idle
  PROVE  Result(w) \in Revisions(worker[w].item) /\ Result(w) \in Cids
<1>1. worker[w] \in RunRecord /\ worker[w].item \in Items
  BY RunRecords
<1>2. Result(w) \in Revisions(worker[w].item)
  BY <1>1 DEF Result, Revisions, RunRecord
<1> QED
  BY <1>1, <1>2, NamesDiffer

(* The steps that change what is stored, published or bound.               *)
LEMMA ContentMoves ==
  ASSUME TypeInv, [Next]_vars
  PROVE  \/ UNCHANGED content
         \/ \E w \in Workers : Generate(w) \/ Lost(w)
         \/ \E m \in Moderators :
              \/ \E i \in Items : AskPromote(m, i) \/ \E cid \in Revisions(i) : AskSave(m, i, cid)
              \/ Promote(m) \/ Purge(m)
<1>1. ASSUME NEW w \in Workers, WorkerStep(w) \/ WorkerStops(w)
      PROVE  UNCHANGED content \/ Generate(w) \/ Lost(w)
  BY <1>1 DEF WorkerStep, WorkerStops, RunStopped, Record, FailExhausted, Claim, RunFails, ValidateRun, ValidateLeft
<1>2. ASSUME NEW m \in Moderators, ModeratorStep(m)
      PROVE  \/ UNCHANGED content
             \/ \E i \in Items : AskPromote(m, i) \/ \E cid \in Revisions(i) : AskSave(m, i, cid)
             \/ Promote(m) \/ Purge(m)
  <2>1. ASSUME NEW j \in Items,
               \/ OpenForEdit(m, j) \/ Withdraw(m, j) \/ Reject(m, j) \/ AskApprove(m, j)
               \/ \E step \in {"regenerate", "retry"} : AskQueue(m, j, step)
        PROVE  UNCHANGED content
    BY <2>1 DEF OpenForEdit, Withdraw, Reject, Decides, AskApprove, AskQueue
  <2>2. ASSUME (\E valid \in BOOLEAN : Save(m, valid)) \/ Approve(m) \/ Regenerate(m) \/ Retry(m)
        PROVE  UNCHANGED content
    BY <2>2 DEF Save, Approve, Regenerate, Retry, Ends
  <2>3. ASSUME \/ AskStore(m) \/ EnsureItems(m) \/ CancelJob(m) \/ DeleteJob(m) \/ StopItems(m)
               \/ ReadKeepers(m) \/ DeleteItems(m) \/ DeleteLast(m) \/ ModeratorStops(m)
        PROVE  UNCHANGED content
    BY <2>3 DEF AskStore, EnsureItems, CancelJob, DeleteJob, StopItems, ReadKeepers, DeleteItems, DeleteLast,
                ModeratorStops
  <2> QED
    BY <1>2, <2>1, <2>2, <2>3 DEF ModeratorStep
<1>3. CASE UNCHANGED vars
  BY <1>3 DEF vars, content
<1> QED
  BY <1>1, <1>2, <1>3 DEF Next

LEMMA ContentType ==
  ASSUME TypeInv, [Next]_vars
  PROVE  /\ catalog' \in [Targets -> [cid : Cids \cup {NoCid}, history : SUBSET Cids]]
         /\ published' \subseteq stored' /\ stored' \subseteq Cids
<1> USE DEF TypeInv
<1> DEFINE Goal == /\ catalog' \in [Targets -> [cid : Cids \cup {NoCid}, history : SUBSET Cids]]
                   /\ published' \subseteq stored' /\ stored' \subseteq Cids
<1>0. /\ catalog \in [Targets -> [cid : Cids \cup {NoCid}, history : SUBSET Cids]]
      /\ published \subseteq stored /\ stored \subseteq Cids
  BY DEF TypeOK
<1>1. CASE UNCHANGED content
  BY <1>0, <1>1 DEF content
<1>2. ASSUME NEW w \in Workers, Generate(w) PROVE Goal
  BY <1>0, <1>2, ResultIsRevision, RunRecords DEF Generate
<1>3. ASSUME NEW w \in Workers, Lost(w) PROVE Goal
  <2>1. catalog' = catalog
    BY <1>3 DEF Lost
  <2>2. PICK drop : stored' = stored \ drop /\ published' = published \ drop
    BY <1>3 DEF Lost
  <2> QED
    BY <1>0, <2>1, <2>2
<1>4. ASSUME NEW m \in Moderators, NEW i \in Items, AskPromote(m, i) PROVE Goal
  BY <1>0, <1>4 DEF AskPromote
<1>5. ASSUME NEW m \in Moderators, NEW i \in Items, NEW cid \in Revisions(i), AskSave(m, i, cid) PROVE Goal
  BY <1>0, <1>5, NamesDiffer DEF AskSave
<1>6. ASSUME NEW m \in Moderators, Purge(m) PROVE Goal
  BY <1>0, <1>6 DEF Purge
<1>7. ASSUME NEW m \in Moderators, Promote(m) PROVE Goal
  <2>1. call[m].item \in Items /\ call[m].cid \in Cids /\ TargetOf[call[m].item] \in Targets
    BY <1>7, RequestRecords, PlaceAssumption DEF Promote
  <2>2. published' = published /\ (stored' = stored \/ stored' = stored \cup {call[m].cid})
    BY <1>7 DEF Promote
  <2>3. \/ catalog' = catalog
        \/ catalog' = [catalog EXCEPT ![TargetOf[call[m].item]] =
                          [cid |-> call[m].cid,
                           history |-> catalog[TargetOf[call[m].item]].history \cup {call[m].cid}]]
    BY <1>7 DEF Promote
  <2> QED
    BY <1>0, <2>1, <2>2, <2>3
<1> QED
  BY <1>1, <1>2, <1>3, <1>4, <1>5, <1>6, <1>7, ContentMoves

(* A run that holds its item after a step held it before, and the item is  *)
(* as it was.                                                              *)
LEMMA StaysHeld ==
  ASSUME TypeInv, [Next]_vars, NEW w \in Workers, worker[w] # Idle, worker'[w] # Idle,
         NEW i, i = worker'[w].item, Holds(w, i)'
  PROVE  /\ worker'[w].item = worker[w].item /\ worker'[w].seed = worker[w].seed
         /\ worker'[w].attempt = worker[w].attempt /\ worker'[w].exists = worker[w].exists
         /\ i \in Items /\ item'[i] = item[i] /\ Holds(w, i)
<1>1. item'[i] # NoItem /\ item'[i].status = "running" /\ item'[i].holder = w
  BY DEF Holds, In, Exists
<1>2. worker[w] \in RunRecord /\ worker[w].item \in Items
  BY RunRecords DEF TypeInv
<1>3. /\ i = worker[w].item /\ worker'[w].seed = worker[w].seed /\ worker'[w].attempt = worker[w].attempt
      /\ worker'[w].exists = worker[w].exists \/ \A j \in Items : item'[j] = NoItem
  <2>1. CASE worker'[w] = worker[w]
    BY <2>1
  <2>2. CASE \E step \in {"record", "lost", "validate"} : worker'[w] = [worker[w] EXCEPT !.step = step]
    BY <1>2, <2>2 DEF RunRecord
  <2>3. CASE worker'[w] = [worker[w] EXCEPT !.exists = FALSE] /\ \A j \in Items : item'[j] = NoItem
    BY <1>2, <2>3 DEF RunRecord
  <2> QED
    BY <2>1, <2>2, <2>3, RunMoves DEF RunMove
<1>4. worker'[w].exists = worker[w].exists
  BY <1>1, <1>2, <1>3
<1>5. item'[i] = item[i]
  <2>1. ~Claimed(i)
    <3>1. SUFFICES ASSUME Claimed(i) PROVE FALSE
      OBVIOUS
    <3>2. PICK v \in Workers :
            /\ worker[v] = Idle
            /\ item'[i] = [item[i] EXCEPT !.status = "running", !.holder = v, !.attempt = @ + 1]
      BY <3>1 DEF Claimed, Becomes
    <3>3. item[i] \in ItemRecord
      BY <1>2, <1>3, <3>1, ItemIsKept DEF Claimed, Eligible, In
    <3>4. item'[i].holder = v
      BY <3>2, <3>3 DEF ItemRecord
    <3> QED
      BY <1>1, <3>2, <3>4
  <2>2. ~Deleted(i) /\ ~Stored(i)
    BY <1>1 DEF Deleted, Stored, Becomes, Fresh
  <2>3. ~(Released(i) \/ Cancelled(i))
    BY <1>1, <1>2, <1>3, ItemIsKept DEF Released, Cancelled, In, Becomes, ItemRecord
  <2>4. ~(Validated(i) \/ Decided(i) \/ Approved(i))
    BY <1>1, <1>2, <1>3, ItemIsKept DEF Validated, Decided, Approved, In, Becomes, ItemRecord
  <2>5. ~(Requeued(i) \/ Retried(i) \/ Promoted(i))
    BY <1>1, <1>2, <1>3, ItemIsKept DEF Requeued, Retried, Promoted, In, Becomes, ItemRecord
  <2>6. ASSUME Recorded(i) PROVE FALSE
    <3>0. PICK v \in Workers :
            item'[i] = [item[i] EXCEPT !.status = "generated", !.holder = NoWorker, !.cid = Result(v),
                          !.revisions = @ \cup {Result(v)}, !.valid = FALSE, !.approved = NoCid,
                          !.retryable = FALSE]
      BY <2>6 DEF Recorded, Becomes
    <3> DEFINE revisions == item[i].revisions \cup {Result(v)}
    <3>1. item'[i] = [item[i] EXCEPT !.status = "generated", !.holder = NoWorker, !.cid = Result(v),
                        !.revisions = revisions, !.valid = FALSE, !.approved = NoCid, !.retryable = FALSE]
      BY <3>0
    <3> HIDE DEF revisions
    <3>2. item[i] \in ItemRecord
      BY <1>2, <1>3, <2>6, ItemIsKept DEF Recorded, Holds, In
    <3>3. item'[i].status = "generated"
      BY <3>1, <3>2 DEF ItemRecord
    <3> QED
      BY <1>1, <3>3
  <2>7. ASSUME Saved(i) PROVE FALSE
    <3>1. PICK m \in Moderators, valid \in BOOLEAN :
            item'[i] = [item[i] EXCEPT !.status = "review", !.cid = call[m].cid, !.valid = valid,
                          !.revisions = @ \cup {call[m].cid}, !.approved = NoCid]
      BY <2>7 DEF Saved, Becomes
    <3>2. item[i] \in ItemRecord
      BY <1>2, <1>3, <2>7, ItemIsKept DEF Saved, In
    <3>3. item'[i].status = "review"
      BY <3>1, <3>2 DEF ItemRecord
    <3> QED
      BY <1>1, <3>3
  <2> QED
    BY <1>2, <1>3, <2>1, <2>2, <2>3, <2>4, <2>5, <2>6, <2>7, ItemMoves DEF ItemMove
<1>6. Holds(w, i)
  BY <1>1, <1>5 DEF Holds, In, Exists
<1> QED
  BY <1>2, <1>3, <1>4, <1>5, <1>6

(* A run holds what its last claim made.                                   *)
LEMMA RunsStayHeld == ASSUME TypeInv, [Next]_vars PROVE HeldByItsRun'
<1> SUFFICES ASSUME NEW w \in Workers, worker'[w] # Idle, NEW i, i = worker'[w].item, Holds(w, i)'
             PROVE  /\ item'[i].attempt = worker'[w].attempt /\ item'[i].seed = worker'[w].seed
                    /\ worker'[w].exists
  BY DEF HeldByItsRun
<1>1. item'[i] # NoItem /\ item'[i].status = "running" /\ item'[i].holder = w
  BY DEF Holds, In, Exists
<1>2. CASE worker[w] = Idle
  <2>1. PICK j \in Items :
          /\ Eligible(j)
          /\ item' = [item EXCEPT ![j].status = "running", ![j].holder = w, ![j].attempt = @ + 1]
          /\ worker'[w] = [step |-> "run", item |-> j, seed |-> item[j].seed,
                           attempt |-> item[j].attempt + 1, exists |-> TRUE]
    BY <1>2, RunMoves DEF RunMove
  <2>2. j = i
    BY <2>1
  <2>3. item[i] \in ItemRecord /\ item \in [Items -> ItemRecord \cup {NoItem}] /\ i \in Items
    BY <2>1, <2>2, ItemIsKept DEF TypeInv, TypeOK, Eligible, In
  <2>4. item'[i] = [item[i] EXCEPT !.status = "running", !.holder = w, !.attempt = @ + 1]
    BY <2>1, <2>2, <2>3
  <2> QED
    BY <2>1, <2>2, <2>3, <2>4 DEF ItemRecord
<1>3. CASE worker[w] # Idle
  BY <1>3, StaysHeld DEF TypeInv, HeldByItsRun
<1> QED
  BY <1>2, <1>3

LEMMA NextTypeInv == ASSUME TypeInv, [Next]_vars PROVE TypeInv'
<1>1. item' \in [Items -> ItemRecord \cup {NoItem}]
  BY ItemKeepsType, FunctionsStay
<1>2. \A i \in Items : Exists(i)' =>
        /\ item'[i].holder # NoWorker => In(i, {"running", "cancelled"})'
        /\ item'[i].revisions \cup {item'[i].cid, item'[i].approved, item'[i].promotion} \subseteq Revisions(i) \cup {NoCid}
  BY ItemKeepsType DEF Exists, In, ItemKept
<1>3. QueuedHasRunLeft'
  BY ItemKeepsType DEF QueuedHasRunLeft, In, Exists, ItemKept
<1>4. ASSUME NEW w \in Workers
      PROVE  worker'[w] \in RunRecord \cup {Idle} /\ (worker'[w] # Idle /\ ~worker'[w].exists => job'.deleting)
  <2>0. worker[w] \in RunRecord \cup {Idle} /\ (job.deleting => job'.deleting)
        /\ (worker[w] # Idle /\ ~worker[w].exists => job.deleting)
    BY JobMoves DEF TypeInv, TypeOK, JobMove, OnlyDeletesDelete
  <2>1. CASE worker'[w] = worker[w] \/ worker'[w] = Idle
    BY <2>0, <2>1
  <2>2. ASSUME NEW i \in Items, Eligible(i),
               worker'[w] = [step |-> "run", item |-> i, seed |-> item[i].seed,
                             attempt |-> item[i].attempt + 1, exists |-> TRUE]
        PROVE  worker'[w] \in RunRecord /\ worker'[w].exists
    <3>1. item[i] \in ItemRecord /\ item[i].attempt < MaxAttempts
      BY <2>2, ItemIsKept DEF Eligible, In, ItemKept
    <3> QED
      BY <2>2, <3>1, BoundAssumption DEF ItemRecord, RunRecord
  <2>3. ASSUME worker[w] # Idle, NEW step \in {"record", "lost", "validate"},
               worker'[w] = [worker[w] EXCEPT !.step = step]
        PROVE  worker'[w] \in RunRecord /\ worker'[w].exists = worker[w].exists
    BY <2>0, <2>3 DEF RunRecord
  <2>4. ASSUME worker[w] # Idle, worker'[w] = [worker[w] EXCEPT !.exists = FALSE]
        PROVE  worker'[w] \in RunRecord
    BY <2>0, <2>4 DEF RunRecord
  <2> QED
    BY <2>0, <2>1, <2>2, <2>3, <2>4, RunMoves DEF RunMove
<1>5. worker' \in [Workers -> RunRecord \cup {Idle}]
  BY <1>4, FunctionsStay
<1>6. ASSUME NEW n \in Moderators
      PROVE  /\ call'[n] \in CallRecord
             /\ call'[n].step \in {"approve", "save", "bind"} => call'[n].cid \in Revisions(call'[n].item)
             /\ call'[n].step \in {"keepers", "purge", "items", "job"} \/ (call'[n].step = "stop" /\ call'[n].delete)
                => job'.deleting
  <2>0. /\ call[n] \in CallRecord /\ (job.deleting => job'.deleting)
        /\ call[n].step \in {"approve", "save", "bind"} => call[n].cid \in Revisions(call[n].item)
        /\ call[n].step \in {"keepers", "purge", "items", "job"} \/ (call[n].step = "stop" /\ call[n].delete)
           => job.deleting
    BY JobMoves DEF TypeInv, TypeOK, JobMove, OnlyDeletesDelete, RequestsNameTheirItem
  <2>1. CASE call'[n] = call[n]
    BY <2>0, <2>1
  <2>2. CASE call'[n] = Idle \/ call'[n] = [step |-> "store"]
    BY <2>2 DEF Idle, CallRecord
  <2>3. ASSUME NEW i \in Items, NEW step \in {"regenerate", "retry"}, call'[n] = [step |-> step, item |-> i]
        PROVE  call'[n] \in CallRecord /\ call'[n].step \in {"regenerate", "retry"}
    BY <2>3 DEF CallRecord
  <2>4. ASSUME NEW i \in Items, NEW cid \in Cids, cid \in Revisions(i), NEW step \in {"approve", "save", "bind"},
               call'[n] = [step |-> step, item |-> i, cid |-> cid]
        PROVE  call'[n] \in CallRecord /\ call'[n].step = step /\ call'[n].cid \in Revisions(call'[n].item)
    BY <2>4 DEF CallRecord
  <2>5. ASSUME NEW delete \in BOOLEAN, call'[n] = [step |-> "stop", delete |-> delete], delete => job'.deleting
        PROVE  call'[n] \in CallRecord /\ call'[n].step = "stop" /\ (call'[n].delete => job'.deleting)
    BY <2>5 DEF CallRecord
  <2>6. ASSUME job.deleting, call'[n] \in {[step |-> "keepers"], [step |-> "items"], [step |-> "job"]}
        PROVE  call'[n] \in CallRecord /\ call'[n].step \in {"keepers", "items", "job"} /\ job'.deleting
    BY <2>0, <2>6 DEF CallRecord
  <2>7. ASSUME job.deleting, NEW cids \in SUBSET stored, call'[n] = [step |-> "purge", cids |-> cids]
        PROVE  call'[n] \in CallRecord /\ call'[n].step = "purge" /\ job'.deleting
    BY <2>0, <2>7 DEF CallRecord, TypeInv, TypeOK
  <2>8. \A i \in Items : Revisions(i) \subseteq Cids
    BY NamesDiffer
  <2>9. \/ call'[n] = call[n] \/ call'[n] = Idle \/ call'[n] = [step |-> "store"]
        \/ \E i \in Items, step \in {"regenerate", "retry"} : call'[n] = [step |-> step, item |-> i]
        \/ \E i \in Items, cid \in Cids, step \in {"approve", "save", "bind"} :
             cid \in Revisions(i) /\ call'[n] = [step |-> step, item |-> i, cid |-> cid]
        \/ \E delete \in BOOLEAN : call'[n] = [step |-> "stop", delete |-> delete] /\ (delete => job'.deleting)
        \/ job.deleting /\ call'[n] \in {[step |-> "keepers"], [step |-> "items"], [step |-> "job"]}
        \/ job.deleting /\ \E cids \in SUBSET stored : call'[n] = [step |-> "purge", cids |-> cids]
    BY <2>8, CallMoves DEF CallMove
  <2> DEFINE Goal == /\ call'[n] \in CallRecord
                     /\ call'[n].step \in {"approve", "save", "bind"} => call'[n].cid \in Revisions(call'[n].item)
                     /\ call'[n].step \in {"keepers", "purge", "items", "job"}
                          \/ (call'[n].step = "stop" /\ call'[n].delete) => job'.deleting
  <2>10. CASE \E i \in Items, step \in {"regenerate", "retry"} : call'[n] = [step |-> step, item |-> i]
    BY <2>3, <2>10
  <2>11. CASE \E i \in Items, cid \in Cids, step \in {"approve", "save", "bind"} :
                cid \in Revisions(i) /\ call'[n] = [step |-> step, item |-> i, cid |-> cid]
    BY <2>4, <2>11
  <2>12. CASE \E delete \in BOOLEAN : call'[n] = [step |-> "stop", delete |-> delete] /\ (delete => job'.deleting)
    BY <2>5, <2>12
  <2>13. CASE job.deleting /\ \E cids \in SUBSET stored : call'[n] = [step |-> "purge", cids |-> cids]
    BY <2>7, <2>13
  <2>14. CASE job.deleting /\ call'[n] \in {[step |-> "keepers"], [step |-> "items"], [step |-> "job"]}
    BY <2>6, <2>14
  <2> HIDE DEF Goal
  <2> QED
    BY <2>1, <2>2, <2>9, <2>10, <2>11, <2>12, <2>13, <2>14 DEF Goal
<1>7. call' \in [Moderators -> CallRecord] /\ asked' \in 0 .. MaxCalls
  <2>1. CASE Moderators = {}
    <3>0. ASSUME NEW w \in Workers, WorkerStep(w) \/ WorkerStops(w)
          PROVE  call' = call /\ asked' = asked
      BY <3>0 DEF WorkerStep, WorkerStops, Generate, RunStopped, Record, Lost, FailExhausted, Claim,
                  RunFails, ValidateRun, ValidateLeft
    <3>1. call' = call /\ asked' = asked
      BY <2>1, <3>0 DEF Next, vars
    <3> QED
      BY <3>1 DEF TypeInv, TypeOK
  <2> QED
    BY <1>6, <2>1, CallMoves
<1>8. job' \in JobRecord
  BY JobMoves DEF JobMove
<1>9. TypeOK'
  BY <1>1, <1>2, <1>5, <1>7, <1>8, ContentType DEF TypeOK, JobRecord
<1> QED
  BY <1>3, <1>4, <1>6, <1>9, RunsStayHeld DEF TypeInv, RequestsNameTheirItem, OnlyDeletesDelete

(* The types are right, and no item is run more often than its attempts,   *)
(* for any number of items, workers and moderators.                        *)
THEOREM TypeInvHolds == Spec => []TypeInv
<1>1. TypeInv /\ [Next]_vars => TypeInv'
  BY NextTypeInv
<1> QED
  BY <1>1, InitTypeInv, PTL DEF Spec

(* Every state of every behaviour has its type: whoever loses its lease,   *)
(* no item is run more than MAX_ATTEMPTS times for one generation.         *)
THEOREM TypeCorrect == Spec => []TypeOK
<1>1. TypeInv => TypeOK
  BY DEF TypeInv
<1> QED
  BY <1>1, TypeInvHolds, PTL

(* A cancelled job stays cancelled, and a deleted one deleted.             *)
THEOREM CancelIsForGood == Spec => CancelledForGood
<1>1. TypeInv /\ [Next]_vars =>
        [Stopped => job'.status \in {"cancelled", "gone"} /\ (job.status = "gone" => job'.status = "gone")]_vars
  BY JobMoves DEF JobMove
<1> QED
  BY <1>1, TypeInvHolds, PTL DEF Spec, CancelledForGood

-----------------------------------------------------------------------------
(***************************************************************************)
(* A move between two records of an item, field by field.                  *)
(***************************************************************************)
SameContent(a, b) == b.seed = a.seed /\ b.revisions = a.revisions /\ b.cid = a.cid
SameReview(a, b) == b.valid = a.valid /\ b.approved = a.approved /\ b.promotion = a.promotion

RunsOn(a, b) ==
    /\ SameContent(a, b) /\ SameReview(a, b)
    /\ \/ a.status = "queued" /\ b.status = "running"
       \/ a.status = "running" /\ b.status \in {"running", "queued", "failed"}
       \/ a.status \in Active /\ b.status = "cancelled"
IsRecorded(a, b, cid) ==
    /\ a.status = "running" /\ b.status = "generated" /\ ~b.valid /\ b.approved = NoCid /\ b.cid = cid
    /\ b.revisions = a.revisions \cup {cid} /\ b.seed = a.seed /\ b.promotion = a.promotion
IsValidated(a, b) ==
    /\ SameContent(a, b) /\ b.promotion = a.promotion /\ ~b.retryable
    /\ a.status = "generated" /\ b.status \in {"review", "failed"}
IsDecided(a, b) ==
    /\ SameContent(a, b) /\ b.promotion = a.promotion
    /\ a.status \in Editable /\ b.status \in {"editing", "review", "rejected"}
    /\ <<a.status, b.status>> \in Transitions
IsApproved(a, b) ==
    /\ SameContent(a, b) /\ b.promotion = a.promotion
    /\ a.status \in Reviewable /\ b.status = "approved" /\ b.valid /\ b.approved = b.cid
IsRequeued(a, b) ==
    /\ b.seed = a.seed + 1 /\ b.revisions = a.revisions /\ b.cid = a.cid /\ b.promotion = a.promotion
    /\ a.status \in Reviewable \cup {"rejected", "failed"} /\ b.status = "queued"
IsRetried(a, b) ==
    /\ SameContent(a, b) /\ b.promotion = a.promotion
    /\ a.status = "failed" /\ a.retryable /\ b.status = "queued"
IsSaved(a, b, cid) ==
    /\ a.status \in Editable /\ b.status = "review" /\ b.cid = cid /\ b.revisions = a.revisions \cup {cid}
    /\ b.seed = a.seed /\ b.promotion = a.promotion
IsPromoted(a, b) ==
    /\ SameContent(a, b) /\ b.valid = a.valid /\ b.approved = a.approved
    /\ a.status = "approved" /\ b.status = "promoted" /\ b.promotion = a.cid

FieldMove(i) ==
    LET a == item[i]
        b == item'[i]
    IN  \/ b = a \/ RunsOn(a, b) \/ IsValidated(a, b) \/ IsDecided(a, b) \/ IsApproved(a, b)
        \/ IsRequeued(a, b) \/ IsRetried(a, b)
        \/ IsRecorded(a, b, Generated(i, a.seed)) /\ stored' = stored
             /\ \E w \in Workers : worker[w].step = "record" /\ Holds(w, i) /\ worker[w].item = i
        \/ \E m \in Moderators :
             /\ call[m].step = "save" /\ call[m].item = i
             /\ IsSaved(a, b, call[m].cid) /\ stored' = stored
        \/ \E m \in Moderators :
             /\ call[m].step = "bind" /\ call[m].item = i /\ a.cid = call[m].cid
             /\ IsPromoted(a, b) /\ Promote(m)

LEMMA FieldMoves ==
  ASSUME TypeInv, [Next]_vars, NEW i \in Items, Exists(i), item'[i] # NoItem
  PROVE  FieldMove(i)
<1> DEFINE a == item[i]
           b == item'[i]
<1>0. a \in ItemRecord
  BY ItemIsKept
<1>1. CASE item'[i] = item[i]
  BY <1>1 DEF FieldMove
<1>2. CASE Claimed(i)
  <2>1. PICK w \in Workers : Eligible(i) /\ b = [a EXCEPT !.status = "running", !.holder = w, !.attempt = @ + 1]
    BY <1>2 DEF Claimed, Becomes
  <2> DEFINE attempt == a.attempt + 1
  <2>2. b = [a EXCEPT !.status = "running", !.holder = w, !.attempt = attempt]
    BY <2>1
  <2> HIDE DEF attempt
  <2>3. RunsOn(a, b)
    BY <1>0, <2>1, <2>2 DEF ItemRecord, RunsOn, SameContent, SameReview, Eligible, In
  <2> QED
    BY <2>3 DEF FieldMove
<1>3. CASE Released(i)
  <2>1. RunsOn(a, b)
    BY <1>0, <1>3 DEF Released, In, Becomes, ItemRecord, RunsOn, SameContent, SameReview
  <2> QED
    BY <2>1 DEF FieldMove
<1>4. CASE Cancelled(i)
  <2>1. RunsOn(a, b)
    BY <1>0, <1>4 DEF Cancelled, In, Becomes, ItemRecord, RunsOn, SameContent, SameReview
  <2> QED
    BY <2>1 DEF FieldMove
<1>5. CASE Recorded(i)
  <2>1. PICK w \in Workers :
          /\ worker[w].step = "record" /\ worker[w].item = i /\ Holds(w, i) /\ stored' = stored
          /\ b = [a EXCEPT !.status = "generated", !.holder = NoWorker, !.cid = Result(w),
                    !.revisions = @ \cup {Result(w)}, !.valid = FALSE, !.approved = NoCid, !.retryable = FALSE]
    BY <1>5 DEF Recorded, Becomes
  <2>2. worker[w] # Idle
    BY <2>1 DEF Idle
  <2>3. Result(w) = Generated(i, a.seed)
    BY <2>1, <2>2 DEF TypeInv, HeldByItsRun, Result
  <2> DEFINE revisions == a.revisions \cup {Result(w)}
  <2>4. b = [a EXCEPT !.status = "generated", !.holder = NoWorker, !.cid = Result(w),
                    !.revisions = revisions, !.valid = FALSE, !.approved = NoCid, !.retryable = FALSE]
    BY <2>1
  <2>5. revisions = a.revisions \cup {Result(w)}
    OBVIOUS
  <2> HIDE DEF revisions
  <2>6. a.status = "running"
    BY <2>1 DEF Holds, In
  <2>7. IsRecorded(a, b, Result(w))
    BY <1>0, <2>4, <2>5, <2>6 DEF ItemRecord, IsRecorded
  <2> QED
    BY <2>1, <2>3, <2>7 DEF FieldMove
<1>6. CASE Validated(i)
  <2>1. IsValidated(a, b)
    BY <1>0, <1>6 DEF Validated, In, Becomes, ItemRecord, IsValidated, SameContent
  <2> QED
    BY <2>1 DEF FieldMove
<1>7. CASE Decided(i)
  <2>1. IsDecided(a, b)
    BY <1>0, <1>7 DEF Decided, In, Becomes, ItemRecord, IsDecided, SameContent
  <2> QED
    BY <2>1 DEF FieldMove
<1>8. CASE Approved(i)
  <2>1. IsApproved(a, b)
    BY <1>0, <1>8 DEF Approved, In, Becomes, ItemRecord, IsApproved, SameContent
  <2> QED
    BY <2>1 DEF FieldMove
<1>9. CASE Requeued(i)
  <2> DEFINE seed == a.seed + 1
  <2>1. b = [a EXCEPT !.status = "queued", !.seed = seed, !.attempt = 0, !.retryable = FALSE,
                      !.valid = FALSE, !.approved = NoCid]
    BY <1>9 DEF Requeued, Becomes
  <2>2. seed = a.seed + 1 /\ a.status \in Reviewable \cup {"rejected", "failed"}
    BY <1>9 DEF Requeued, In
  <2> HIDE DEF seed
  <2>3. IsRequeued(a, b)
    BY <1>0, <2>1, <2>2 DEF ItemRecord, IsRequeued
  <2> QED
    BY <2>3 DEF FieldMove
<1>10. CASE Retried(i)
  <2>1. IsRetried(a, b)
    BY <1>0, <1>10 DEF Retried, In, Becomes, ItemRecord, IsRetried, SameContent
  <2> QED
    BY <2>1 DEF FieldMove
<1>11. CASE Saved(i)
  <2>1. PICK m \in Moderators, valid \in BOOLEAN :
          /\ call[m].step = "save" /\ call[m].item = i /\ stored' = stored
          /\ b = [a EXCEPT !.status = "review", !.cid = call[m].cid, !.valid = valid,
                            !.revisions = @ \cup {call[m].cid}, !.approved = NoCid]
    BY <1>11 DEF Saved, Becomes
  <2> DEFINE revisions == a.revisions \cup {call[m].cid}
  <2>2. b = [a EXCEPT !.status = "review", !.cid = call[m].cid, !.valid = valid,
                      !.revisions = revisions, !.approved = NoCid]
    BY <2>1
  <2>3. revisions = a.revisions \cup {call[m].cid} /\ a.status \in Editable
    BY <1>11 DEF Saved, In
  <2> HIDE DEF revisions
  <2>4. IsSaved(a, b, call[m].cid)
    BY <1>0, <2>2, <2>3 DEF ItemRecord, IsSaved
  <2> QED
    BY <2>1, <2>4 DEF FieldMove
<1>12. CASE Promoted(i)
  <2>1. IsPromoted(a, b)
    BY <1>0, <1>12 DEF Promoted, In, Becomes, ItemRecord, IsPromoted, SameContent
  <2> QED
    BY <1>12, <2>1 DEF Promoted, FieldMove
<1>13. ~Deleted(i) /\ ~Stored(i)
  BY DEF Deleted, Stored, Becomes
<1> QED
  BY <1>1, <1>2, <1>3, <1>4, <1>5, <1>6, <1>7, <1>8, <1>9, <1>10, <1>11, <1>12, <1>13, ItemMoves DEF ItemMove

(* A step that gives an item its first record stores or claims nothing.    *)
LEMMA NewItemIsFresh ==
  ASSUME TypeInv, [Next]_vars, NEW i \in Items, ~Exists(i), item'[i] # NoItem
  PROVE  item'[i] = Fresh
<1>1. item[i] = NoItem
  BY DEF Exists
<1> QED
  BY <1>1, ItemMoves
  DEF ItemMove, Deleted, Stored, Claimed, Eligible, Released, Cancelled, Recorded, Holds, Validated, Decided,
      Approved, Requeued, Retried, Saved, Promoted, Becomes, In, Exists

-----------------------------------------------------------------------------
(***************************************************************************)
(* Statuses.                                                               *)
(***************************************************************************)
(* Whoever writes an item moves it along ITEM_TRANSITIONS.                 *)
THEOREM MovesAreLegal == Spec => LegalMoves
<1>1. ASSUME TypeInv, [Next]_vars, NEW i \in Items, Exists(i), item'[i] # NoItem, item'[i].status # item[i].status
      PROVE  <<item[i].status, item'[i].status>> \in Transitions
  <2>1. item[i].status \in ItemStatus /\ item'[i].status \in ItemStatus
    BY <1>1, ItemIsKept, ItemKeepsType DEF ItemRecord
  <2> QED
    BY <1>1, <2>1, FieldMoves, TransitionsAre
    DEF FieldMove, RunsOn, IsRecorded, IsValidated, IsDecided, IsApproved, IsRequeued, IsRetried, IsSaved,
        IsPromoted, Active, Editable, Reviewable
<1>2. TypeInv /\ [Next]_vars =>
        [\A i \in Items : Exists(i) /\ item'[i] # NoItem /\ item'[i].status # item[i].status
                         => <<item[i].status, item'[i].status>> \in Transitions]_vars
  BY <1>1
<1> QED
  BY <1>2, TypeInvHolds, PTL DEF Spec, LegalMoves

-----------------------------------------------------------------------------
(***************************************************************************)
(* Approvals and promotions.  A target ran nothing but its source and what *)
(* it runs, and what is promoted is what its target runs: so a second bind *)
(* finds another definition than the source it expects.                    *)
(***************************************************************************)
LEMMA RevisionOfOneItem ==
  ASSUME NEW i \in Items, NEW j \in Items, NEW c, c \in Revisions(i), c \in Revisions(j)
  PROVE  i = j
<1>1. c.item = i /\ c.item = j
  BY DEF Revisions, Generated, Edited
<1> QED
  BY <1>1

LEMMA SourceIsNoRevision == \A i \in Items, t \in Targets : SourceOf[t] \notin Revisions(i)
  BY NameAssumption DEF Sources

(* What a step may do to a target.                                         *)
Binds(m, t) ==
    /\ call[m].step = "bind" /\ TargetOf[call[m].item] = t
    /\ catalog[t].cid \in {SourceOf[t], call[m].cid}
    /\ catalog' = [catalog EXCEPT ![t] = [cid |-> call[m].cid, history |-> @.history \cup {call[m].cid}]]

LEMMA CatalogMoves ==
  ASSUME TypeInv, [Next]_vars
  PROVE  catalog' = catalog \/ \E m \in Moderators, t \in Targets : Binds(m, t)
<1>1. ASSUME NEW m \in Moderators, Promote(m), catalog' # catalog
      PROVE  \E t \in Targets : Binds(m, t)
  <2>1. TargetOf[call[m].item] \in Targets
    BY <1>1, RequestRecords, PlaceAssumption DEF Promote, TypeInv
  <2> QED
    BY <1>1, <2>1 DEF Promote, MayBind, Binds
<1> QED
  BY <1>1, ContentMoves DEF content, Generate, Lost, AskPromote, AskSave, Purge

PromotedRuns ==
    \A i \in Items : In(i, {"promoted"}) =>
        item[i].promotion \in Revisions(i) /\ catalog[TargetOf[i]].cid = item[i].promotion
OnlySourceAndCurrent ==
    \A t \in Targets : catalog[t].history \ {SourceOf[t]} \subseteq {catalog[t].cid}

BindInv == ApprovedAsReviewed /\ PromotedRuns /\ OnlySourceAndCurrent

LEMMA InitBindInv == Init => BindInv
<1> SUFFICES ASSUME Init PROVE BindInv
  OBVIOUS
<1>1. \A i \in Items : ~In(i, {"approved", "promoted"})
  BY DEF Init, In, Exists, Fresh
<1>2. OnlySourceAndCurrent
  BY DEF Init, OnlySourceAndCurrent
<1> QED
  BY <1>1, <1>2 DEF BindInv, ApprovedAsReviewed, PromotedRuns, In

(* A bind takes a target that runs its source, or runs the revision        *)
(* already.                                                                *)
LEMMA NextOnlySource == ASSUME TypeInv, BindInv, [Next]_vars PROVE OnlySourceAndCurrent'
<1>0. catalog \in [Targets -> [cid : Cids \cup {NoCid}, history : SUBSET Cids]]
  BY DEF TypeInv, TypeOK
<1>1. CASE catalog' = catalog
  BY <1>1 DEF BindInv, OnlySourceAndCurrent
<1>2. ASSUME NEW m \in Moderators, NEW t \in Targets, Binds(m, t) PROVE OnlySourceAndCurrent'
  <2>1. \A u \in Targets : u # t => catalog'[u] = catalog[u]
    BY <1>0, <1>2 DEF Binds
  <2>2. catalog'[t] = [cid |-> call[m].cid, history |-> catalog[t].history \cup {call[m].cid}]
    BY <1>0, <1>2 DEF Binds
  <2>3. catalog'[t].history \ {SourceOf[t]} \subseteq {catalog'[t].cid}
    BY <1>2, <2>2 DEF Binds, BindInv, OnlySourceAndCurrent
  <2> QED
    BY <2>1, <2>3 DEF BindInv, OnlySourceAndCurrent
<1> QED
  BY <1>1, <1>2, CatalogMoves

LEMMA HistoryStays ==
  ASSUME TypeInv, [Next]_vars, NEW t \in Targets
  PROVE  catalog[t].history \subseteq catalog'[t].history
<1>1. catalog \in [Targets -> [cid : Cids \cup {NoCid}, history : SUBSET Cids]]
  BY DEF TypeInv, TypeOK
<1> QED
  BY <1>1, CatalogMoves DEF Binds

LEMMA NextPromoted == ASSUME TypeInv, BindInv, [Next]_vars PROVE ApprovedAsReviewed' /\ PromotedRuns'
<1>0. catalog \in [Targets -> [cid : Cids \cup {NoCid}, history : SUBSET Cids]]
  BY DEF TypeInv, TypeOK
<1> SUFFICES ASSUME NEW i \in Items, item'[i] # NoItem, item'[i].status \in {"approved", "promoted"}
             PROVE  /\ item'[i].valid /\ item'[i].approved = item'[i].cid
                    /\ item'[i].status = "promoted" =>
                         /\ item'[i].promotion = item'[i].cid
                         /\ item'[i].promotion \in catalog'[TargetOf[i]].history
                         /\ item'[i].promotion \in Revisions(i)
                         /\ catalog'[TargetOf[i]].cid = item'[i].promotion
  BY DEF ApprovedAsReviewed, PromotedRuns, In, Exists
<1>1. Exists(i)
  BY NewItemIsFresh DEF Fresh
<1>2. TargetOf[i] \in Targets
  BY PlaceAssumption
<1>3. CASE item'[i] = item[i]
  <2>1. /\ item[i].valid /\ item[i].approved = item[i].cid
        /\ item[i].status = "promoted" =>
              /\ item[i].promotion = item[i].cid
              /\ item[i].promotion \in catalog[TargetOf[i]].history
              /\ item[i].promotion \in Revisions(i)
              /\ catalog[TargetOf[i]].cid = item[i].promotion
    BY <1>1, <1>3 DEF BindInv, ApprovedAsReviewed, PromotedRuns, In
  <2>2. ASSUME item[i].status = "promoted", catalog' # catalog
        PROVE  catalog'[TargetOf[i]].cid = item[i].promotion
    <3>1. PICK m \in Moderators, t \in Targets : Binds(m, t)
      BY <2>2, CatalogMoves
    <3>2. CASE t = TargetOf[i]
      <4>1. catalog[t].cid # SourceOf[t]
        BY <2>1, <2>2, <3>2, SourceIsNoRevision
      <4>2. call[m].cid = item[i].promotion
        BY <2>1, <2>2, <3>1, <3>2, <4>1 DEF Binds
      <4> QED
        BY <1>0, <3>1, <3>2, <4>2 DEF Binds
    <3> QED
      BY <1>0, <1>2, <2>1, <2>2, <3>1, <3>2 DEF Binds
  <2> QED
    BY <1>2, <1>3, <2>1, <2>2, HistoryStays
<1>4. CASE item'[i] # item[i]
  <2>1. \/ IsApproved(item[i], item'[i])
        \/ \E m \in Moderators :
             /\ call[m].step = "bind" /\ call[m].item = i /\ item[i].cid = call[m].cid
             /\ IsPromoted(item[i], item'[i]) /\ Promote(m)
    BY <1>1, <1>4, FieldMoves
    DEF FieldMove, RunsOn, IsRecorded, IsValidated, IsDecided, IsRequeued, IsRetried, IsSaved
  <2>2. CASE IsApproved(item[i], item'[i])
    BY <2>2 DEF IsApproved
  <2>3. ASSUME NEW m \in Moderators, call[m].step = "bind", call[m].item = i, item[i].cid = call[m].cid,
               IsPromoted(item[i], item'[i]), Promote(m)
        PROVE  /\ item'[i].valid /\ item'[i].approved = item'[i].cid /\ item'[i].promotion = item'[i].cid
               /\ item'[i].promotion \in catalog'[TargetOf[i]].history
               /\ item'[i].promotion \in Revisions(i)
               /\ catalog'[TargetOf[i]].cid = item'[i].promotion
    <3>1. item[i].valid /\ item[i].approved = item[i].cid
      BY <1>1, <2>3 DEF BindInv, ApprovedAsReviewed, In, IsPromoted
    <3>2. call[m].cid \in Revisions(i)
      BY <2>3 DEF TypeInv, RequestsNameTheirItem
    <3>3. catalog' = [catalog EXCEPT ![TargetOf[i]] =
                        [cid |-> call[m].cid, history |-> @.history \cup {call[m].cid}]]
      BY <1>4, <2>3 DEF Promote
    <3>4. catalog'[TargetOf[i]] = [cid |-> call[m].cid,
                                   history |-> catalog[TargetOf[i]].history \cup {call[m].cid}]
      BY <1>0, <1>2, <3>3
    <3> QED
      BY <2>3, <3>1, <3>2, <3>4 DEF IsPromoted, SameContent
  <2> QED
    BY <2>1, <2>2, <2>3 DEF IsApproved
<1> QED
  BY <1>3, <1>4

(* An approval covers the current revision, and a target ran nothing but   *)
(* its source and what it runs.                                            *)
THEOREM BindInvHolds == Spec => []BindInv
<1>1. TypeInv /\ BindInv /\ [Next]_vars => BindInv'
  BY NextPromoted, NextOnlySource DEF BindInv
<1> QED
  BY <1>1, InitBindInv, TypeInvHolds, PTL DEF Spec

(* What is promoted is the valid revision a moderator approved.            *)
THEOREM ApprovalCovers == Spec => []ApprovedAsReviewed
<1>1. BindInv => ApprovedAsReviewed
  BY DEF BindInv
<1> QED
  BY <1>1, BindInvHolds, PTL

(* However many candidates are approved, a target takes one.               *)
THEOREM OneIsPromoted == Spec => []OnePromotion
<1>1. ASSUME TypeInv, BindInv PROVE OnePromotion
  <2>1. ASSUME NEW i \in Items, NEW j \in Items, In(i, {"promoted"}), In(j, {"promoted"}), TargetOf[i] = TargetOf[j]
        PROVE  i = j
    BY <1>1, <2>1, RevisionOfOneItem DEF BindInv, PromotedRuns
  <2>2. ASSUME NEW t \in Targets PROVE Cardinality(catalog[t].history \ {SourceOf[t]}) <= 1
    <3>1. catalog[t].history \ {SourceOf[t]} \in SUBSET {catalog[t].cid}
      BY <1>1 DEF BindInv, OnlySourceAndCurrent
    <3>2. IsFiniteSet({catalog[t].cid}) /\ Cardinality({catalog[t].cid}) = 1
      BY FS_Singleton
    <3> QED
      BY <3>1, <3>2, FS_Subset
  <2> QED
    BY <2>1, <2>2 DEF OnePromotion
<1> QED
  BY <1>1, TypeInvHolds, BindInvHolds, PTL

-----------------------------------------------------------------------------
(***************************************************************************)
(* Results of seeds.  A seed beyond the current one has no result, nor has *)
(* the current one while the item waits; and a save that names a generated *)
(* revision names one its item has.                                        *)
(***************************************************************************)
NoLaterResult ==
    \A i \in Items : \A n \in Nat : Exists(i) /\ Generated(i, n) \in item[i].revisions => n <= item[i].seed
CurrentIsNamed ==
    \A i \in Items : Exists(i) /\ item[i].cid # NoCid => item[i].cid \in item[i].revisions
SavesKnown ==
    \A m \in Moderators : call[m].step = "save" /\ call[m].cid.kind = "generated" =>
        Exists(call[m].item) /\ call[m].cid \in item[call[m].item].revisions
NoResultYet ==
    \A i \in Items : In(i, Waiting) \/ (In(i, {"failed"}) /\ item[i].retryable)
                     => Generated(i, item[i].seed) \notin item[i].revisions
ResultOfItsSeed == \A i \in Items : In(i, {"generated"}) => item[i].cid = Generated(i, item[i].seed)

SeedInv == NoLaterResult /\ CurrentIsNamed /\ SavesKnown /\ NoResultYet /\ ResultOfItsSeed

LEMMA InitSeedInv == Init => SeedInv
<1> SUFFICES ASSUME Init PROVE SeedInv
  OBVIOUS
<1>1. \A i \in Items : Exists(i) => item[i] = Fresh
  BY DEF Init, Exists
<1> QED
  BY <1>1
  DEF Init, Fresh, In, Idle, SeedInv, NoLaterResult, CurrentIsNamed, SavesKnown, NoResultYet, ResultOfItsSeed

(* What a save adds to the results of its item is nothing.                 *)
LEMMA SavesNoResult ==
  ASSUME TypeInv, SeedInv, NEW m \in Moderators, call[m].step = "save", NEW i, i = call[m].item, NEW n,
         Generated(i, n) \in item[i].revisions \cup {call[m].cid}
  PROVE  Generated(i, n) \in item[i].revisions
  BY DEF Generated, SeedInv, SavesKnown

LEMMA NextSeeds ==
  ASSUME TypeInv, SeedInv, [Next]_vars
  PROVE  NoLaterResult' /\ CurrentIsNamed' /\ NoResultYet' /\ ResultOfItsSeed'
<1> SUFFICES ASSUME NEW i \in Items, item'[i] # NoItem
             PROVE  /\ \A n \in Nat : Generated(i, n) \in item'[i].revisions => n <= item'[i].seed
                    /\ item'[i].cid # NoCid => item'[i].cid \in item'[i].revisions
                    /\ item'[i].status \in Waiting \/ (item'[i].status = "failed" /\ item'[i].retryable)
                         => Generated(i, item'[i].seed) \notin item'[i].revisions
                    /\ item'[i].status = "generated" => item'[i].cid = Generated(i, item'[i].seed)
  BY DEF NoLaterResult, CurrentIsNamed, NoResultYet, ResultOfItsSeed, In, Exists
<1> DEFINE a == item[i]
           b == item'[i]
           Goal == /\ \A n \in Nat : Generated(i, n) \in b.revisions => n <= b.seed
                   /\ b.cid # NoCid => b.cid \in b.revisions
                   /\ b.status \in Waiting \/ (b.status = "failed" /\ b.retryable)
                        => Generated(i, b.seed) \notin b.revisions
                   /\ b.status = "generated" => b.cid = Generated(i, b.seed)
<1>1. CASE ~Exists(i)
  <2>1. b = Fresh
    BY <1>1, NewItemIsFresh
  <2> QED
    BY <2>1 DEF Fresh
<1>2. CASE Exists(i)
  <2>1. /\ \A n \in Nat : Generated(i, n) \in a.revisions => n <= a.seed
        /\ a.cid # NoCid => a.cid \in a.revisions
        /\ a.status \in Waiting \/ (a.status = "failed" /\ a.retryable) => Generated(i, a.seed) \notin a.revisions
        /\ a.status = "generated" => a.cid = Generated(i, a.seed)
    BY <1>2 DEF SeedInv, NoLaterResult, CurrentIsNamed, NoResultYet, ResultOfItsSeed, In
  <2>2. a.seed \in Nat /\ b.seed \in Nat
    BY <1>2, ItemIsKept, ItemKeepsType, BoundAssumption DEF ItemRecord
  <2>3. \A n, k : Generated(i, n) = Generated(i, k) => n = k
    BY DEF Generated
  <2> HIDE DEF a, b
  <2>4. ASSUME b = a PROVE Goal
    BY <2>1, <2>4
  <2>5. ASSUME \/ RunsOn(a, b) \/ IsValidated(a, b) \/ IsDecided(a, b) \/ IsApproved(a, b) \/ IsPromoted(a, b)
               \/ IsRetried(a, b)
        PROVE  Goal
    BY <2>1, <2>5
    DEF RunsOn, IsValidated, IsDecided, IsApproved, IsPromoted, IsRetried, SameContent, Active, Waiting
  <2>6. ASSUME IsRequeued(a, b) PROVE Goal
    BY <2>1, <2>2, <2>6 DEF IsRequeued
  <2>7. ASSUME IsRecorded(a, b, Generated(i, a.seed)) PROVE Goal
    BY <2>1, <2>2, <2>3, <2>7 DEF IsRecorded, Waiting
  <2>8. ASSUME NEW m \in Moderators, call[m].step = "save", call[m].item = i, IsSaved(a, b, call[m].cid)
        PROVE  /\ \A n \in Nat : Generated(i, n) \in b.revisions => n <= b.seed
               /\ b.cid \in b.revisions /\ b.status = "review"
    <3>1. \A n : Generated(i, n) \in b.revisions => Generated(i, n) \in a.revisions
      BY <2>8, SavesNoResult DEF IsSaved, a
    <3> QED
      BY <2>1, <2>8, <3>1 DEF IsSaved
  <2>9. \/ b = a \/ RunsOn(a, b) \/ IsValidated(a, b) \/ IsDecided(a, b) \/ IsApproved(a, b) \/ IsPromoted(a, b)
        \/ IsRetried(a, b) \/ IsRequeued(a, b) \/ IsRecorded(a, b, Generated(i, a.seed))
        \/ \E m \in Moderators : call[m].step = "save" /\ call[m].item = i /\ IsSaved(a, b, call[m].cid)
    BY <1>2, FieldMoves DEF FieldMove, a, b
  <2>10. Goal
    BY <2>4, <2>5, <2>6, <2>7, <2>8, <2>9 DEF Waiting
  <2> QED
    BY <2>10 DEF b
<1> QED
  BY <1>1, <1>2

(* A record of an item keeps the revisions it names.                       *)
LEMMA NamesStay ==
  ASSUME TypeInv, [Next]_vars, NEW i \in Items, Exists(i), item'[i] # NoItem
  PROVE  item[i].revisions \subseteq item'[i].revisions
  BY FieldMoves
  DEF FieldMove, RunsOn, IsRecorded, IsValidated, IsDecided, IsApproved, IsRequeued, IsRetried, IsSaved,
      IsPromoted, SameContent

(* A save that is asked for names the revision the item runs, or an edit.  *)
LEMMA SaveMoves ==
  ASSUME TypeInv, [Next]_vars, NEW n \in Moderators, call'[n].step = "save"
  PROVE  \/ call'[n] = call[n]
         \/ \E i \in Items : \E cid \in Revisions(i) :
              /\ In(i, Editable) /\ cid \in Saves(i)
              /\ call'[n] = [step |-> "save", item |-> i, cid |-> cid]
              /\ item' = item /\ stored' = stored \cup {cid}
<1>1. ASSUME NEW i \in Items, NEW step \in {"regenerate", "retry"}, call'[n] = [step |-> step, item |-> i]
      PROVE  FALSE
  BY <1>1
<1>2. ASSUME NEW i \in Items, NEW cid \in Cids, NEW step \in {"approve", "bind"},
             call'[n] = [step |-> step, item |-> i, cid |-> cid]
      PROVE  FALSE
  BY <1>2
<1>3. ASSUME NEW cids, call'[n] = [step |-> "purge", cids |-> cids] PROVE FALSE
  BY <1>3
<1>4. ASSUME NEW delete, call'[n] = [step |-> "stop", delete |-> delete] PROVE FALSE
  BY <1>4
<1>5. call'[n] \notin {[step |-> "keepers"], [step |-> "items"], [step |-> "job"], [step |-> "store"], Idle}
  BY DEF Idle
<1> QED
  BY <1>1, <1>2, <1>3, <1>4, <1>5, CallMoves DEF CallMove

LEMMA NextSavesKnown == ASSUME TypeInv, SeedInv, [Next]_vars PROVE SavesKnown'
<1> SUFFICES ASSUME NEW n \in Moderators, call'[n].step = "save", call'[n].cid.kind = "generated"
             PROVE  item'[call'[n].item] # NoItem /\ call'[n].cid \in item'[call'[n].item].revisions
  BY DEF SavesKnown, Exists
<1>1. CASE call'[n] = call[n]
  <2> DEFINE i == call[n].item
  <2>1. i \in Items /\ Exists(i) /\ call[n].cid \in item[i].revisions
    BY <1>1, RequestRecords DEF TypeInv, SeedInv, SavesKnown
  <2>2. ASSUME item'[i] = NoItem PROVE FALSE
    <3>1. Deleted(i)
      BY <2>1, <2>2, OnlyDeletesDrop
    <3>2. PICK m \in Moderators : DeleteItems(m)
      BY <3>1 DEF Deleted
    <3>3. call[n] \in CallRecord /\ call[n].step = "save"
      BY <1>1 DEF TypeInv, TypeOK
    <3>4. "item" \in DOMAIN call[n]
      BY <3>3 DEF CallRecord
    <3>5. call'[n] \in {Idle, [step |-> "job"]}
      BY <3>2, <3>4 DEF DeleteItems
    <3> QED
      BY <3>5 DEF Idle
  <2> QED
    BY <1>1, <2>1, <2>2, NamesStay
<1>2. ASSUME NEW i \in Items, NEW cid \in Revisions(i), In(i, Editable), cid \in Saves(i),
             call'[n] = [step |-> "save", item |-> i, cid |-> cid], item' = item
      PROVE  item'[call'[n].item] # NoItem /\ call'[n].cid \in item'[call'[n].item].revisions
  <2>1. cid.kind = "generated"
    BY <1>2
  <2>3. cid = item[i].cid
    BY <1>2, <2>1 DEF Saves, Edited
  <2>2. cid # NoCid
    BY NamesDiffer
  <2> QED
    BY <1>2, <2>2, <2>3 DEF SeedInv, CurrentIsNamed, In, Exists
<1> QED
  BY <1>1, <1>2, SaveMoves

(* No seed has a result before it is run, and a save that is under way     *)
(* adds none.                                                              *)
THEOREM SeedInvHolds == Spec => []SeedInv
<1>1. TypeInv /\ SeedInv /\ [Next]_vars => SeedInv'
  BY NextSeeds, NextSavesKnown DEF SeedInv
<1> QED
  BY <1>1, InitSeedInv, TypeInvHolds, PTL DEF Spec

(* Whoever lost a lease and goes on, a seed has one result.                *)
THEOREM SeedsRunOnce == Spec => []OneResultPerSeed
<1>1. SeedInv => OneResultPerSeed
  BY DEF SeedInv, NoResultYet, ResultOfItsSeed, OneResultPerSeed
<1> QED
  BY <1>1, SeedInvHolds, PTL

-----------------------------------------------------------------------------
(***************************************************************************)
(* What is stored.  A revision an item names is stored because what its    *)
(* run records, and what a save names, was stored and nobody purged it in  *)
(* between: a purge of a run takes what no item names, of an item that is  *)
(* cancelled.                                                              *)
(***************************************************************************)
NamesStored == \A i \in Items : Exists(i) => item[i].revisions \subseteq stored
SavesStored == \A m \in Moderators : call[m].step = "save" => call[m].cid \in stored
DraftsStored ==
    \A w \in Workers : worker[w].step = "record" /\ Holds(w, worker[w].item) => Result(w) \in stored

StoreInv == ~job.deleting => NamesStored /\ SavesStored /\ DraftsStored

LEMMA InitStoreInv == Init => StoreInv
<1> SUFFICES ASSUME Init PROVE StoreInv
  OBVIOUS
<1>1. \A i \in Items : Exists(i) => item[i] = Fresh
  BY DEF Init, Exists
<1> QED
  BY <1>1 DEF Init, Fresh, Idle, StoreInv, NamesStored, SavesStored, DraftsStored

(* Before a delete began, a step drops only the draft of a run that lost a *)
(* cancelled item, when no item names it.                                  *)
LEMMA Drops ==
  ASSUME TypeInv, [Next]_vars, ~job'.deleting, NEW c \in stored, c \notin stored'
  PROVE  /\ ~Named(c)
         /\ \E w \in Workers : worker[w] # Idle /\ c = Result(w) /\ In(worker[w].item, {"cancelled"})
<1>0. ~job.deleting
  BY JobMoves DEF JobMove
<1>1. \A m \in Moderators : ~Purge(m)
  BY <1>0 DEF Purge, TypeInv, OnlyDeletesDelete
<1>2. PICK w \in Workers : Lost(w)
  <2>1. ASSUME NEW m \in Moderators, Promote(m) PROVE stored \subseteq stored'
    BY <2>1 DEF Promote
  <2> QED
    BY <1>1, <2>1, ContentMoves DEF content, Generate, AskPromote, AskSave
<1>3. worker[w] # Idle
  BY <1>2, RunRecords DEF Lost, TypeInv
<1>4. worker[w].exists
  BY <1>0, <1>3 DEF TypeInv, OnlyDeletesDelete
<1>5. c \in Leftover(w) /\ In(worker[w].item, {"cancelled"})
  BY <1>2, <1>4 DEF Lost
<1>6. ~Named(c) /\ c = Result(w)
  BY <1>5 DEF Leftover
<1> QED
  BY <1>3, <1>5, <1>6

LEMMA NextNames == ASSUME TypeInv, StoreInv, [Next]_vars, ~job'.deleting PROVE NamesStored'
<1>0. NamesStored /\ SavesStored /\ DraftsStored
  BY JobMoves DEF JobMove, StoreInv
<1> SUFFICES ASSUME NEW i \in Items, item'[i] # NoItem, NEW c \in item'[i].revisions PROVE c \in stored'
  BY DEF NamesStored, Exists
<1>1. CASE ~Exists(i)
  BY <1>1, NewItemIsFresh DEF Fresh
<1>2. CASE Exists(i) /\ c \in item[i].revisions
  BY <1>0, <1>2, Drops DEF NamesStored, Named
<1>3. CASE Exists(i) /\ c \notin item[i].revisions
  <2>0. item'[i].revisions # item[i].revisions
    BY <1>3
  <2>1. \/ /\ stored' = stored /\ IsRecorded(item[i], item'[i], Generated(i, item[i].seed))
           /\ \E w \in Workers : worker[w].step = "record" /\ Holds(w, i) /\ worker[w].item = i
        \/ \E m \in Moderators :
              call[m].step = "save" /\ stored' = stored /\ IsSaved(item[i], item'[i], call[m].cid)
    BY <1>3, <2>0, FieldMoves
    DEF FieldMove, RunsOn, IsValidated, IsDecided, IsApproved, IsRequeued, IsRetried, IsPromoted, SameContent
  <2>2. ASSUME NEW w \in Workers, worker[w].step = "record", Holds(w, i), worker[w].item = i
        PROVE  Generated(i, item[i].seed) \in stored
    <3>1. worker[w].seed = item[i].seed
      BY <2>2, RunRecords DEF TypeInv, HeldByItsRun
    <3> QED
      BY <1>0, <2>2, <3>1 DEF DraftsStored, Result
  <2> QED
    BY <1>0, <1>3, <2>1, <2>2 DEF SavesStored, IsRecorded, IsSaved
<1> QED
  BY <1>1, <1>2, <1>3

LEMMA NextSaves == ASSUME TypeInv, SeedInv, StoreInv, [Next]_vars, ~job'.deleting PROVE SavesStored'
<1>0. SavesStored
  BY JobMoves DEF JobMove, StoreInv
<1> SUFFICES ASSUME NEW n \in Moderators, call'[n].step = "save" PROVE call'[n].cid \in stored'
  BY DEF SavesStored
<1>1. CASE call'[n] = call[n]
  <2>1. call[n].cid \in stored /\ call[n].item \in Items
    BY <1>0, <1>1, RequestRecords DEF SavesStored, TypeInv
  <2>2. ASSUME call[n].cid \notin stored' PROVE FALSE
    <3>1. ~Named(call[n].cid) /\ \E w \in Workers : call[n].cid = Result(w)
      BY <2>1, <2>2, Drops
    <3>2. call[n].cid.kind = "generated"
      BY <3>1 DEF Result, Generated
    <3> QED
      BY <1>1, <2>1, <3>1, <3>2 DEF SeedInv, SavesKnown, Named
  <2> QED
    BY <1>1, <2>2
<1>2. ASSUME NEW i, NEW cid, call'[n] = [step |-> "save", item |-> i, cid |-> cid], stored' = stored \cup {cid}
      PROVE  call'[n].cid \in stored'
  BY <1>2
<1> QED
  BY <1>1, <1>2, SaveMoves

LEMMA NextDrafts == ASSUME TypeInv, StoreInv, [Next]_vars, ~job'.deleting PROVE DraftsStored'
<1>0. DraftsStored /\ ~job.deleting
  BY JobMoves DEF JobMove, StoreInv
<1> SUFFICES ASSUME NEW w \in Workers, worker'[w].step = "record", NEW i, i = worker'[w].item, Holds(w, i)'
             PROVE  Generated(worker'[w].item, worker'[w].seed) \in stored'
  BY DEF DraftsStored, Result
<1>2. worker'[w] # Idle
  BY DEF Idle
<1>1. worker[w] # Idle
  <2>1. ASSUME worker[w] = Idle PROVE \E j \in Items : worker'[w].step = "run"
    <3>1. PICK j \in Items : worker'[w] = [step |-> "run", item |-> j, seed |-> item[j].seed,
                                          attempt |-> item[j].attempt + 1, exists |-> TRUE]
      BY <2>1, <1>2, RunMoves DEF RunMove
    <3> QED
      BY <3>1
  <2> QED
    BY <2>1
<1>3. /\ worker[w].item = i /\ worker'[w].seed = worker[w].seed /\ i \in Items /\ Holds(w, i)
  BY <1>1, <1>2, StaysHeld
<1>4. Generated(worker'[w].item, worker'[w].seed) = Result(w)
  BY <1>3 DEF Result
<1>5. CASE worker'[w] = worker[w]
  <2>1. Result(w) \in stored
    BY <1>0, <1>3, <1>5 DEF DraftsStored
  <2>2. ASSUME Result(w) \notin stored' PROVE FALSE
    <3>1. PICK v \in Workers : Result(w) = Result(v) /\ In(worker[v].item, {"cancelled"})
      BY <2>1, <2>2, Drops
    <3>2. worker[v].item = i
      BY <1>3, <3>1 DEF Result, Generated
    <3> QED
      BY <1>3, <3>1, <3>2 DEF Holds, In
  <2> QED
    BY <1>4, <2>2
<1>6. CASE \E step \in {"record", "lost", "validate"} :
             worker'[w] = [worker[w] EXCEPT !.step = step] /\ (step = "record" => Result(w) \in stored')
  <2>1. worker[w] \in RunRecord
    BY <1>1, RunRecords DEF TypeInv
  <2> QED
    BY <1>4, <1>6, <2>1 DEF RunRecord
<1> QED
  BY <1>0, <1>1, <1>2, <1>5, <1>6, RunMoves DEF RunMove

(* What an item names, a save names or a run is about to record is stored, *)
(* until a delete of the job begins.                                       *)
THEOREM StoreInvHolds == Spec => []StoreInv
<1>1. TypeInv /\ SeedInv /\ StoreInv /\ [Next]_vars => StoreInv'
  BY NextNames, NextSaves, NextDrafts DEF StoreInv
<1> QED
  BY <1>1, InitStoreInv, TypeInvHolds, SeedInvHolds, PTL DEF Spec

(* Until a delete of the job begins, what an item names is stored.         *)
THEOREM NamedIsStored == Spec => []NamedStored
<1>1. StoreInv => NamedStored
  BY DEF StoreInv, NamesStored, NamedStored
<1> QED
  BY <1>1, StoreInvHolds, PTL

===============================================================================
