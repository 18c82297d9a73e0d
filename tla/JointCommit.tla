----------------------------- MODULE JointCommit -----------------------------
(***************************************************************************)
(* Goods between players: single commits of a profile, and the joint       *)
(* commits that trade goods, drop a stack on the ground or pick one up     *)
(* (projects/cyberia/player/player-state.js, world-drops.js).              *)
(*                                                                         *)
(* The engine stores what a game server computes and never looks at the    *)
(* goods: that a unit has one holder rests on the epoch, the sequence, the *)
(* lease, the operation record and the claim it checks in one transaction. *)
(* So the game server, which is outside the repository, is modelled too,   *)
(* from what the requests carry and the documentation of accounts says of  *)
(* escrow, links and locks.  A request it sent may arrive at any time and  *)
(* any number of times, an answer may be late or never come, a server may  *)
(* restart and forget, and another server may take a player over.          *)
(*                                                                         *)
(* The goods are named units.  Coins may fall to the ground when a player  *)
(* dies; stacks may be dropped with a record.  Both may be traded.         *)
(* Sessions are those of PlayerSession: what admits one is left out here.  *)
(***************************************************************************)
EXTENDS Naturals, FiniteSets

CONSTANTS Players,         \* profiles, of one account each
          Servers,         \* game servers
          Worlds,          \* instance codes
          WorldOf,         \* the world each server plays
          Coins, Stacks,   \* the units
          InitialGoods,    \* the units of each profile
          Ops,             \* operation ids
          Kinds,           \* the kinds the servers send: a subset of OperationKinds
          NoOp,            \* no operation
          NoPlayer,        \* no player named
          NoLease, NoSession, NoRequest,
          MaxEpoch,        \* bound: sessions per profile
          MaxSessions,     \* bound: the sessions of each profile, up to MaxEpoch
          MaxSeq           \* bound: states a session of each player captures

Units == Coins \cup Stacks
Epochs == 1..MaxEpoch
OperationKinds == {"trade", "drop", "pickup"}

ASSUME KindAssumption == Kinds \subseteq OperationKinds
ASSUME WorldAssumption == Worlds # {} /\ WorldOf \in [Servers -> Worlds]
ASSUME UnitAssumption == Coins \cap Stacks = {}
ASSUME GoodsAssumption ==
    /\ InitialGoods \in [Players -> SUBSET Units]
    /\ \A p, q \in Players : p # q => InitialGoods[p] \cap InitialGoods[q] = {}
    /\ \A u \in Stacks : \E p \in Players : u \in InitialGoods[p]
ASSUME BoundAssumption == /\ MaxEpoch \in Nat /\ MaxSeq \in [Players -> Nat]
                          /\ MaxSessions \in [Players -> 0..MaxEpoch]
ASSUME NoneAssumption == NoOp \notin Ops /\ NoPlayer \notin Players

Profile == [epoch: 0..MaxEpoch, commitSeq: Nat, goods: SUBSET Units]
Lease == [world: Worlds, epoch: Nat]
Commit == [player: Players, epoch: Nat, seq: Nat, goods: SUBSET Units]
Drop == [status: {"none", "public", "expired", "claimed"}, world: Worlds, goods: SUBSET Units]
Request == [kind: OperationKinds, server: Servers, claim: Ops \cup {NoOp},
            status: {"waits", "applied", "refused"}, parties: SUBSET Players,
            epoch: [Players -> Nat], seq: [Players -> Nat], goods: [Players -> SUBSET Units],
            gives: [Players -> SUBSET Units], gets: [Players -> SUBSET Units]]
Answer == [result: {"applied", "duplicate", "drop_gone", "stale_session", "invalid"},
           player: Players \cup {NoPlayer}]

(* What a server holds of a session and of an operation.                   *)
Session == [state: {"playing", "done"}, server: Servers, goods: SUBSET Units,
            captured: Nat, saved: Nat, op: Ops \cup {NoOp}]
Fallen == [unit: Coins, server: Servers, player: Players, epoch: Nat, seq: Nat]

ASSUME NoRecordAssumption == /\ NoLease \notin Lease
                             /\ NoSession \notin Session
                             /\ NoRequest \notin Request

VARIABLES
    profile,      \* CyberiaPlayer
    lease,        \* CyberiaGameSession of the account of each profile
    record,       \* CyberiaEconomyOperation: none, kept, or expired
    drops,        \* CyberiaWorldDrop, under the id of the drop operation
    commits,      \* the single commits sent
    request,      \* the joint commits sent, by operation id
    answers,      \* the answers to each joint commit
    session,      \* each session in the memory of its server, by player and epoch
    tokens,       \* the world drops each server shows on its map
    fallen        \* coins of dead players on the ground of a server

engineVars == <<profile, lease, record, drops>>
wireVars == <<commits, request, answers>>
serverVars == <<session, tokens, fallen>>
vars == <<engineVars, wireVars, serverVars>>

NoDrop == [status |-> "none", world |-> CHOOSE w \in Worlds : TRUE, goods |-> {}]

Init ==
    /\ profile = [p \in Players |-> [epoch |-> 0, commitSeq |-> 0, goods |-> InitialGoods[p]]]
    /\ lease = [p \in Players |-> NoLease]
    /\ record = [o \in Ops |-> "none"]
    /\ drops = [o \in Ops |-> NoDrop]
    /\ commits = {}
    /\ request = [o \in Ops |-> NoRequest]
    /\ answers = [o \in Ops |-> {}]
    /\ session = [p \in Players |-> [e \in Epochs |-> NoSession]]
    /\ tokens = [s \in Servers |-> {}]
    /\ fallen = {}

(***************************************************************************)
(* Sessions.                                                               *)
(***************************************************************************)
SessionOf(p, e, s) == [session EXCEPT ![p] = [@ EXCEPT ![e] = s]]

Playing(p, e) == session[p][e] # NoSession /\ session[p][e].state = "playing"

(* A session whose record sends states: no joint commit holds it.          *)
Free(p, e) == Playing(p, e) /\ session[p][e].op = NoOp

Done(s) == [s EXCEPT !.state = "done", !.goods = {}, !.captured = 0, !.op = NoOp]

(* Mutant: the session takes the epoch the profile already has.            *)
TakenKeepingEpoch(p) == [p EXCEPT !.epoch = IF @ = 0 THEN 1 ELSE @, !.commitSeq = 0]

(* acquireSession: a server takes a player over and loads its profile.     *)
Taken(p) == [p EXCEPT !.epoch = p.epoch + 1, !.commitSeq = 0]

Acquire(p, s) ==
    LET e == Taken(profile[p]).epoch IN
    /\ e <= MaxSessions[p]
    /\ profile' = [profile EXCEPT ![p] = Taken(@)]
    /\ lease' = [lease EXCEPT ![p] = [world |-> WorldOf[s], epoch |-> e]]
    /\ session' = SessionOf(p, e, [state |-> "playing", server |-> s, goods |-> profile[p].goods,
                                   captured |-> 0, saved |-> 0, op |-> NoOp])
    /\ UNCHANGED <<record, drops, wireVars, tokens, fallen>>

LeaseExpires(p) ==
    /\ lease[p] # NoLease
    /\ lease' = [lease EXCEPT ![p] = NoLease]
    /\ UNCHANGED <<profile, record, drops, wireVars, serverVars>>

(* listWorldDrops                                                          *)
PublicDrops(w) == {o \in Ops : drops[o].status = "public" /\ drops[o].world = w}

(* A server restarts: its sessions and its ground are gone, and it lists   *)
(* the records of its world.                                               *)
Restart(s) ==
    /\ session' = [p \in Players |-> [e \in Epochs |->
          IF Playing(p, e) /\ session[p][e].server = s THEN Done(session[p][e]) ELSE session[p][e]]]
    /\ tokens' = [tokens EXCEPT ![s] = PublicDrops(WorldOf[s])]
    /\ fallen' = {f \in fallen : f.server # s}
    /\ UNCHANGED <<engineVars, wireVars>>

(***************************************************************************)
(* Coins that fall to the ground: locked until the commit that took them   *)
(* from their player is saved, and anyone's after that.                    *)
(***************************************************************************)
Fall(p, e, u) ==
    LET s == session[p][e] IN
    /\ Playing(p, e) /\ u \in s.goods
    /\ session' = SessionOf(p, e, [s EXCEPT !.goods = s.goods \ {u}])
    /\ fallen' = fallen \cup {[unit |-> u, server |-> s.server, player |-> p,
                               epoch |-> e, seq |-> s.captured + 1]}
    /\ UNCHANGED <<engineVars, wireVars, tokens>>

Unlocked(f) == session[f.player][f.epoch].saved >= f.seq

Find(p, e, f) ==
    LET s == session[p][e] IN
    /\ Playing(p, e) /\ f \in fallen /\ f.server = s.server /\ Unlocked(f)
    /\ session' = SessionOf(p, e, [s EXCEPT !.goods = s.goods \cup {f.unit}])
    /\ fallen' = fallen \ {f}
    /\ UNCHANGED <<engineVars, wireVars, tokens>>

(***************************************************************************)
(* Single commits.                                                         *)
(***************************************************************************)
Capture(p, e) ==
    LET s == session[p][e] IN
    /\ Free(p, e) /\ s.captured < MaxSeq[p]
    /\ session' = SessionOf(p, e, [s EXCEPT !.captured = s.captured + 1])
    /\ commits' = commits \cup {[player |-> p, epoch |-> e, seq |-> s.captured + 1, goods |-> s.goods]}
    /\ UNCHANGED <<engineVars, request, answers, tokens, fallen>>

LeaseNames(p, e) == lease[p] # NoLease /\ lease[p].epoch = e

(* Mutant: the epoch is not compared.                                      *)
CheckUnfenced(p, e, n) ==
    IF profile[p].commitSeq >= n THEN "duplicate"
    ELSE IF lease[p] # NoLease THEN "" ELSE "stale_session"

(* Mutant: the sequence is not compared.                                   *)
CheckUnordered(p, e, n) ==
    IF profile[p].epoch # e \/ ~LeaseNames(p, e) THEN "stale_session" ELSE ""

(* checkCommit of a known profile; "" when the commit may be written.      *)
CheckCommit(p, e, n) ==
    IF profile[p].epoch # e THEN "stale_session"
    ELSE IF profile[p].commitSeq >= n THEN "duplicate"
    ELSE IF LeaseNames(p, e) THEN "" ELSE "stale_session"

(* Mutant: the sequence stored is the one expected next.                   *)
WriteNextSeq(p, n, goods) == [profile[p] EXCEPT !.commitSeq = n + 1, !.goods = goods]

(* writeCommit                                                             *)
WriteCommit(p, n, goods) == [profile[p] EXCEPT !.commitSeq = n, !.goods = goods]

Saved(s, n) == [s EXCEPT !.saved = IF @ < n THEN n ELSE @]

(* What a session does with the answer to its single commit.               *)
Hear(c, result) ==
    LET s == session[c.player][c.epoch] IN
    IF s.state = "done" THEN s
    ELSE IF result = "stale_session" THEN Done(s) ELSE Saved(s, c.seq)

(* commitState of any commit sent; the answer arrives or is lost.          *)
CommitState(c) ==
    LET result == CheckCommit(c.player, c.epoch, c.seq) IN
    /\ c \in commits
    /\ profile' = IF result = ""
                    THEN [profile EXCEPT ![c.player] = WriteCommit(c.player, c.seq, c.goods)]
                    ELSE profile
    /\ session' \in {session, SessionOf(c.player, c.epoch, Hear(c, result))}
    /\ UNCHANGED <<lease, record, drops, wireVars, tokens, fallen>>

(***************************************************************************)
(* Joint commits: a server sends one.  What each player gives leaves its   *)
(* goods into escrow, and no single commit of it is sent until the answer. *)
(* epoch, seq and goods are the commits of the request, by player; gives   *)
(* and gets are the escrow, which stays on the server.                     *)
(***************************************************************************)
(* The session of each of the players P becomes after[p].                  *)
PartySessions(P, epoch, after) ==
    [p \in Players |-> [e \in Epochs |->
        IF p \in P /\ e = epoch[p] THEN after[p] ELSE session[p][e]]]

Giving(s, units, o) == [s EXCEPT !.goods = s.goods \ units, !.captured = s.captured + 1, !.op = o]

Send(o, kind, server, P, epoch, gives, gets, claim) ==
    LET s(p) == session[p][epoch[p]] IN
    /\ kind \in Kinds /\ request[o] = NoRequest
    /\ \A p \in P : Free(p, epoch[p]) /\ s(p).server = server /\ s(p).captured < MaxSeq[p]
                    /\ gives[p] \subseteq s(p).goods
    /\ request' = [request EXCEPT ![o] =
          [kind |-> kind, server |-> server, claim |-> claim, status |-> "waits",
           parties |-> P, gives |-> gives, gets |-> gets,
           epoch |-> [p \in Players |-> IF p \in P THEN epoch[p] ELSE 0],
           seq |-> [p \in Players |-> IF p \in P THEN s(p).captured + 1 ELSE 0],
           goods |-> [p \in Players |-> IF p \in P THEN (s(p).goods \ gives[p]) \cup gets[p] ELSE {}]]]
    /\ session' = PartySessions(P, epoch, [p \in P |-> Giving(s(p), gives[p], o)])
    /\ UNCHANGED <<engineVars, commits, answers, tokens, fallen>>

(* One player's share of an operation: what p gives or gets.               *)
Share(p, units) == [x \in Players |-> IF x = p THEN units ELSE {}]

Nothing == [x \in Players |-> {}]

(* Both players confirmed what each one gives.                             *)
Trade(o, s, p, e, give, q, f, take) ==
    /\ p # q
    /\ give \cup take # {}
    /\ Send(o, "trade", s, {p, q}, [x \in Players |-> IF x = p THEN e ELSE f],
            [Share(p, give) EXCEPT ![q] = take], [Share(p, take) EXCEPT ![q] = give], NoOp)

DropStack(o, s, p, e, stack) ==
    Send(o, "drop", s, {p}, [x \in Players |-> e], Share(p, {stack}), Nothing, NoOp)

(* A server waits for the claim of a token by one session at a time.       *)
Locked(s, d) == \E p \in Players, e \in Epochs :
    /\ Playing(p, e) /\ session[p][e].op # NoOp
    /\ request[session[p][e].op].server = s /\ request[session[p][e].op].claim = d

PickUp(o, s, p, e, d) ==
    /\ d \in tokens[s] /\ ~Locked(s, d)
    /\ Send(o, "pickup", s, {p}, [x \in Players |-> e], Nothing, Share(p, drops[d].goods), d)

(* The session of p that sent operation o waits for its outcome.           *)
Waits(o, p) == Playing(p, request[o].epoch[p]) /\ session[p][request[o].epoch[p]].op = o

(***************************************************************************)
(* commitStates: the record, every check, the claim, then every write, in  *)
(* one transaction.                                                        *)
(***************************************************************************)
Check(r, p) == CheckCommit(p, r.epoch[p], r.seq[p])

(* The world of the lease of the player a drop or a pickup joins.          *)
LeaseWorld(r) == LET p == CHOOSE x \in r.parties : TRUE IN lease[p].world

(* Mutant: the status of a world drop is not asked for.                    *)
ClaimsAnyStatus(d, w) == drops[d].status # "none" /\ drops[d].world = w

(* claimWorldDrop finds the record it claims.                              *)
Claims(d, w) == drops[d].status = "public" /\ drops[d].world = w

(* Mutant: only the first player of an operation is written.               *)
WrittenFirstOnly(r) == [p \in Players |->
    IF p = CHOOSE x \in r.parties : TRUE THEN WriteCommit(p, r.seq[p], r.goods[p]) ELSE profile[p]]

(* The profiles after every commit of an operation.                        *)
Written(r) == [p \in Players |->
    IF p \in r.parties THEN WriteCommit(p, r.seq[p], r.goods[p]) ELSE profile[p]]

(* Mutant: a drop leaves no record.                                        *)
DropsWithoutRecord(o, r) ==
    [d \in Ops |-> IF d = r.claim THEN [drops[d] EXCEPT !.status = "claimed"] ELSE drops[d]]

(* Mutant: a claim does not change the record it finds.                    *)
DropsUnclaimed(o, r) ==
    [d \in Ops |-> IF d = o /\ r.kind = "drop"
                     THEN [status |-> "public", world |-> LeaseWorld(r), goods |-> UNION {r.gives[p] : p \in r.parties}]
                     ELSE drops[d]]

(* The world drops after claimWorldDrop and createWorldDrop.               *)
DropsAfter(o, r) ==
    [d \in Ops |->
        IF d = r.claim THEN [drops[d] EXCEPT !.status = "claimed"]
        ELSE IF d = o /\ r.kind = "drop"
          THEN [status |-> "public", world |-> LeaseWorld(r), goods |-> UNION {r.gives[p] : p \in r.parties}]
          ELSE drops[d]]

(* An answer nobody waits for is never read.                               *)
Answers(o, result, p) ==
    answers' = IF \E x \in request[o].parties : Waits(o, x)
                 THEN [answers EXCEPT ![o] = @ \cup {[result |-> result, player |-> p]}]
                 ELSE answers

(* Mutant: the record is written and never looked for.                     *)
RecordUnread(o) == record[o] = "read"

(* The operation was applied: the request under this id is always the      *)
(* same, since a server makes one id per operation.                        *)
Recorded(o) == record[o] = "kept"

AnswerDuplicate(o) ==
    /\ Recorded(o)
    /\ Answers(o, "duplicate", NoPlayer)
    /\ UNCHANGED <<engineVars, commits, request, serverVars>>

(* A commit that alone would answer duplicate makes the request invalid.   *)
RefuseStates(o, r, p) ==
    /\ ~Recorded(o)
    /\ Check(r, p) # ""
    /\ Answers(o, IF Check(r, p) = "duplicate" THEN "invalid" ELSE Check(r, p), p)
    /\ UNCHANGED <<engineVars, commits, request, serverVars>>

Accepted(o, r) == ~Recorded(o) /\ \A p \in r.parties : Check(r, p) = ""

AnswerDropGone(o, r) ==
    /\ Accepted(o, r)
    /\ r.claim # NoOp /\ ~Claims(r.claim, LeaseWorld(r))
    /\ \E p \in r.parties : Answers(o, "drop_gone", p)
    /\ UNCHANGED <<engineVars, commits, request, serverVars>>

ApplyStates(o, r) ==
    /\ Accepted(o, r)
    /\ r.claim # NoOp => Claims(r.claim, LeaseWorld(r))
    /\ profile' = Written(r)
    /\ drops' = DropsAfter(o, r)
    /\ record' = [record EXCEPT ![o] = "kept"]
    /\ Answers(o, "applied", NoPlayer)
    /\ UNCHANGED <<lease, commits, request, serverVars>>

CommitStates(o) ==
    /\ request[o] # NoRequest
    /\ \/ AnswerDuplicate(o)
       \/ \E p \in request[o].parties : RefuseStates(o, request[o], p)
       \/ AnswerDropGone(o, request[o])
       \/ ApplyStates(o, request[o])

(***************************************************************************)
(* The server learns the outcome: applied, each player gets what the other *)
(* gave; refused, each gets its own back, and a session the refusal names  *)
(* ends, unless the refusal is only that the drop is gone.                 *)
(***************************************************************************)
IsApplied(a) == a.result \in {"applied", "duplicate"}

SessionAfter(o, a, p) ==
    LET r == request[o]
        s == session[p][r.epoch[p]]
    IN  IF ~Waits(o, p) THEN s
        ELSE IF IsApplied(a)
          THEN [Saved(s, r.seq[p]) EXCEPT !.goods = s.goods \cup r.gets[p], !.op = NoOp]
        ELSE IF a.player = p /\ a.result # "drop_gone" THEN Done(s)
        ELSE [s EXCEPT !.goods = s.goods \cup r.gives[p], !.op = NoOp]

(* The tokens after an outcome: a saved drop opens, a claimed one leaves.  *)
TokensAfter(shown, o, a) ==
    LET r == request[o] IN
    (shown \ IF IsApplied(a) \/ a.result = "drop_gone" THEN {r.claim} ELSE {})
       \cup IF IsApplied(a) /\ r.kind = "drop" THEN {o} ELSE {}

Learn(o, a) ==
    LET r == request[o] IN
    /\ r # NoRequest /\ a \in answers[o]
    /\ \E p \in r.parties : Waits(o, p)
    /\ session' = PartySessions(r.parties, r.epoch, [p \in r.parties |-> SessionAfter(o, a, p)])
    /\ tokens' = [tokens EXCEPT ![r.server] = TokensAfter(@, o, a)]
    /\ request' = [request EXCEPT ![o].status = IF IsApplied(a) THEN "applied" ELSE "refused"]
    /\ answers' = [answers EXCEPT ![o] = {}]
    /\ UNCHANGED <<engineVars, commits, fallen>>

(***************************************************************************)
(* Time: a public world drop expires, and an operation record is removed   *)
(* after its days, by when no server waits for an answer.                  *)
(***************************************************************************)
DropExpires(d) ==
    /\ drops[d].status = "public"
    /\ drops' = [drops EXCEPT ![d].status = "expired"]
    /\ UNCHANGED <<profile, lease, record, wireVars, serverVars>>

RecordExpires(o) ==
    /\ Recorded(o)
    /\ \A p \in request[o].parties : ~Waits(o, p)
    /\ record' = [record EXCEPT ![o] = "expired"]
    /\ UNCHANGED <<profile, lease, drops, wireVars, serverVars>>

SendOperation(o) ==
    \E s \in Servers, p \in Players, e \in Epochs :
       \/ \E q \in Players, f \in Epochs, give \in SUBSET Units, take \in SUBSET Units :
             Trade(o, s, p, e, give, q, f, take)
       \/ \E stack \in Stacks : DropStack(o, s, p, e, stack)
       \/ \E d \in Ops : PickUp(o, s, p, e, d)

Next ==
    \/ \E p \in Players, s \in Servers : Acquire(p, s)
    \/ \E p \in Players : LeaseExpires(p)
    \/ \E s \in Servers : Restart(s)
    \/ \E p \in Players, e \in Epochs :
          \/ Capture(p, e)
          \/ \E u \in Coins : Fall(p, e, u)
          \/ \E f \in fallen : Find(p, e, f)
    \/ \E c \in commits : CommitState(c)
    \/ \E o \in Ops :
          \/ SendOperation(o)
          \/ CommitStates(o)
          \/ \E a \in answers[o] : Learn(o, a)
          \/ DropExpires(o)
          \/ RecordExpires(o)

Spec == Init /\ [][Next]_vars

(***************************************************************************)
(* Properties.                                                             *)
(***************************************************************************)
(* Every variable has its type.                                            *)
TypeOK ==
    /\ profile \in [Players -> Profile]
    /\ \A p \in Players : profile[p].commitSeq <= MaxSeq[p]
    /\ lease \in [Players -> Lease \cup {NoLease}]
    /\ record \in [Ops -> {"none", "kept", "expired"}]
    /\ drops \in [Ops -> Drop]
    /\ commits \in SUBSET Commit
    /\ request \in [Ops -> Request \cup {NoRequest}]
    /\ answers \in [Ops -> SUBSET Answer]
    /\ session \in [Players -> [Epochs -> Session \cup {NoSession}]]
    /\ tokens \in [Servers -> SUBSET Ops]
    /\ fallen \in SUBSET Fallen

(* The profiles and public world drops that hold a unit in the database.   *)
Holders(u) == {p \in Players : u \in profile[p].goods}
                \cup {o \in Ops : drops[o].status = "public" /\ u \in drops[o].goods}

(* No crash, retry, late request or takeover leaves the same unit with two *)
(* holders in the database: two profiles, two world drops, or one of each. *)
OneHolder == \A u \in Units : Cardinality(Holders(u)) <= 1

(* No stack is lost: each is in a profile or in a world drop that is       *)
(* public or expired before anyone claimed it.                             *)
StacksKept == \A u \in Stacks :
    \/ Holders(u) # {}
    \/ \E o \in Ops : drops[o].status = "expired" /\ u \in drops[o].goods

(* What a server believes of an operation is what the engine did, for      *)
(* good: one it took for refused, whose escrow it gave back, is never      *)
(* applied, and one it took for applied was.                               *)
OutcomeIsFinal == \A o \in Ops : request[o] # NoRequest =>
    /\ request[o].status = "refused" => record[o] = "none"
    /\ request[o].status = "applied" => record[o] # "none"

(* A trade moves everything both players gave in one step: whenever a unit *)
(* passes from one profile to another, both profiles become what one       *)
(* operation committed for them.                                           *)
TradeAtOnce ==
    [][\A p, q \in Players : \A u \in Units :
          p # q /\ u \in profile[p].goods /\ u \in profile'[q].goods =>
             \E o \in Ops : /\ record[o] = "none" /\ record'[o] = "kept"
                            /\ {p, q} \subseteq request[o].parties
                            /\ \A x \in {p, q} : profile'[x].goods = request[o].goods[x]]_vars
=============================================================================
