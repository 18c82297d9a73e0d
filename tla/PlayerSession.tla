---------------------------- MODULE PlayerSession ----------------------------
(***************************************************************************)
(* Gameplay sessions of one account: the launch that consumes a ticket,    *)
(* the acquisition that makes a connection the writer of a profile, the    *)
(* commits and checkpoints of its game server, the release, and the        *)
(* operator requests that end or change what it plays                      *)
(* (projects/cyberia/player/player-session.js, player-state.js,            *)
(* player-operations.js).                                                  *)
(*                                                                         *)
(* A handler that reads before it writes outside a transaction takes two   *)
(* steps here.  A MongoDB transaction is one step: each one writes the     *)
(* profile or the lease it read, so two that overlap conflict and one of   *)
(* them runs again.  The game server is outside the repository: it may     *)
(* stop at any time, and a request it sent may arrive late, twice or       *)
(* after a newer one.  A stamp names the session epoch and the sequence of *)
(* a write, which is all the properties tell apart of a player state.      *)
(***************************************************************************)
EXTENDS GameTicket

CONSTANTS Servers,         \* game servers
          WorldOf,         \* the world each server plays
          ServerOf,        \* the server each connection is open to
          Universes,       \* universe codes: one profile of the account in each
          UniverseOf,      \* universeCodeOf: the universe of each world
          Operations,      \* operator requests, by operation id
          Kinds,           \* the kinds the operators ask for: a subset of OperationKinds
          TargetOf,        \* the universe of the profile each one names
          Reports,         \* what checkpoints say of recovery: a subset of BOOLEAN
          Moves,           \* what commits say of positionChanged: a subset of BOOLEAN
          NoLease,         \* no CyberiaGameSession of the account
          MaxEpoch,        \* bound: sessions and operator changes per profile
          MaxSeq,          \* bound: states a session captures
          MaxCalls,        \* bound: AcquirePlayerSession calls per connection
          MaxCheckpoints   \* bound: checkpoints of a session inside the engine at once

OperationKinds == {"session.end", "stacks", "restrict"}

ASSUME ServerAssumption == WorldOf \in [Servers -> Worlds] /\ ServerOf \in [Conns -> Servers]
ASSUME UniverseAssumption == UniverseOf \in [Worlds -> Universes]
ASSUME OperationAssumption == /\ Kinds \subseteq OperationKinds
                              /\ TargetOf \in [Operations -> Universes]
ASSUME InputAssumption == Reports \subseteq BOOLEAN /\ Moves \subseteq BOOLEAN
ASSUME BoundAssumption == /\ MaxEpoch \in Nat /\ MaxSeq \in Nat
                          /\ MaxCalls \in Nat /\ MaxCheckpoints \in Nat

Epochs == 1..MaxEpoch
Stamp == [epoch: Nat, seq: Nat]
NoStamp == [epoch |-> 0, seq |-> 0]

(* Stamp a is not newer than stamp b.                                      *)
NotAfter(a, b) == a.epoch < b.epoch \/ (a.epoch = b.epoch /\ a.seq <= b.seq)

Profile == [epoch: 0..MaxEpoch, commitSeq: 0..MaxSeq, value: Stamp]
Position == [seq: 0..MaxSeq, value: Stamp]
Lease == [universe: Universes, server: Servers, conn: Conns, epoch: Epochs,
          portal: Portals, live: BOOLEAN, closing: BOOLEAN,
          recovery: BOOLEAN, ended: BOOLEAN]
Launch == [pc: {"idle", "checked", "consumed", "accepted", "refused"}, id: 0..MaxTickets,
           calls: Nat, inflight: Nat]
Session == [state: {"none", "playing", "closing", "done"}, conn: Conns \cup {NoConn},
            base: Stamp, captured: 0..MaxSeq, saved: 0..MaxSeq, reported: BOOLEAN]
Checkpoint == [universe: Universes, epoch: Epochs, closing: BOOLEAN, recovery: BOOLEAN,
               seq: 0..MaxSeq, step: {"renew", "position"}]
Operation == [status: {"idle", "sent", "done", "refused"}, kind: OperationKinds \cup {"none"},
              epoch: 0..MaxEpoch]

ASSUME NoLeaseAssumption == NoLease \notin Lease

VARIABLES
    profile,      \* CyberiaPlayer of each universe; epoch 0 before the first session
    position,     \* the last position of each world, inside its profile
    lease,        \* CyberiaGameSession of the account, or NoLease
    portalLive,   \* the portal sessions that still exist
    launch,       \* each connection on its way to a session
    session,      \* each session a server holds, by universe and epoch
    checkpoints,  \* checkpoints past their reads, not yet written
    operation     \* operator requests and their audit records

sessionVars == <<profile, position, lease, portalLive, launch, session, checkpoints, operation>>
vars == <<ticketVars, sessionVars>>

TypeOK ==
    /\ TicketTypeOK
    /\ profile \in [Universes -> Profile]
    /\ position \in [Worlds -> Position]
    /\ lease \in Lease \cup {NoLease}
    /\ portalLive \in [Portals -> BOOLEAN]
    /\ launch \in [Conns -> Launch]
    /\ session \in [Universes -> [Epochs -> Session]]
    /\ checkpoints \in SUBSET Checkpoint
    /\ operation \in [Operations -> Operation]

NoSession == [state |-> "none", conn |-> NoConn, base |-> NoStamp,
              captured |-> 0, saved |-> 0, reported |-> FALSE]

Init ==
    /\ TicketInit
    /\ profile = [u \in Universes |-> [epoch |-> 0, commitSeq |-> 0, value |-> NoStamp]]
    /\ position = [w \in Worlds |-> [seq |-> 0, value |-> NoStamp]]
    /\ lease = NoLease
    /\ portalLive = [p \in Portals |-> TRUE]
    /\ launch = [c \in Conns |-> [pc |-> "idle", id |-> 0, calls |-> 0, inflight |-> 0]]
    /\ session = [u \in Universes |-> [e \in Epochs |-> NoSession]]
    /\ checkpoints = {}
    /\ operation = [o \in Operations |-> [status |-> "idle", kind |-> "none", epoch |-> 0]]

(***************************************************************************)
(* What a handler reads.                                                   *)
(***************************************************************************)
UniverseOfConn(c) == UniverseOf[WorldOf[ServerOf[c]]]

(* Mutant: any session of the profile passes for the one of the lease.     *)
LeaseOfProfile(u, e) == lease # NoLease /\ lease.universe = u

(* The lease is the one of session e of universe u: the check of           *)
(* checkCommit, liveLease, checkpointSessions and releaseSession.          *)
LeaseNames(u, e) == lease # NoLease /\ lease.universe = u /\ lease.epoch = e

LeaseWorld == WorldOf[lease.server]

(* Mutant: a crashed server's lease counts as writing for ever.            *)
WritesElsewhereExpired(server) == lease # NoLease /\ lease.server # server /\ ~lease.recovery

(* writesElsewhere: the lease names a session of another server that may   *)
(* still write.                                                            *)
WritesElsewhere(server) ==
    lease # NoLease /\ lease.server # server /\ lease.live /\ ~lease.recovery

(* resumeWaits                                                             *)
ResumeWaits(t, server) == IsResume(t) /\ t.conn = NoConn /\ WritesElsewhere(server)

(* liveLease: the session of a resume or travel request is still the one.  *)
LiveLease(u, e) == LeaseNames(u, e) /\ ~lease.ended /\ portalLive[lease.portal]

(* sessionOf(...).live: what an operator sees as a live session.           *)
SessionLive(u) == LeaseNames(u, profile[u].epoch) /\ lease.live /\ ~lease.ended

(* A session its server still runs.                                        *)
Running(u, e) == session[u][e].state \in {"playing", "closing"}

SetSession(u, e, s) == session' = [session EXCEPT ![u] = [@ EXCEPT ![e] = s]]

(***************************************************************************)
(* Tickets.                                                                *)
(***************************************************************************)
RequestLaunch(p, w) ==
    /\ portalLive[p]
    /\ CreateGameTicket(p, w)
    /\ UNCHANGED sessionVars

(* issueResume                                                             *)
IssueResume(u, e) ==
    /\ session[u][e].state = "playing"
    /\ LiveLease(u, e)
    /\ CreateResumeTicket(lease.portal, LeaseWorld, e)
    /\ UNCHANGED sessionVars

(* issueTravel: a route leads to every other world of the universe here.   *)
IssueTravel(u, e, w) ==
    /\ session[u][e].state = "playing"
    /\ LiveLease(u, e)
    /\ w # LeaseWorld /\ UniverseOf[w] = u
    /\ CreateGameTicket(lease.portal, w)
    /\ UNCHANGED sessionVars

(* The portal session ends: logout, password recovery, expiry.             *)
SignOut(p) ==
    /\ portalLive[p]
    /\ portalLive' = [portalLive EXCEPT ![p] = FALSE]
    /\ UNCHANGED <<ticketVars, profile, position, lease, launch, session, checkpoints, operation>>

ExpireTicket(t) == TicketExpires(t) /\ UNCHANGED sessionVars

(***************************************************************************)
(* consumeLaunch in three steps: the read of resumeWaits, the consumption, *)
(* and the checks that decide its answer.  A busy resume changes nothing.  *)
(***************************************************************************)
BeginLaunch(c, t) ==
    /\ launch[c].pc = "idle"
    /\ ~ResumeWaits(t, ServerOf[c])
    /\ launch' = [launch EXCEPT ![c] = [@ EXCEPT !.pc = "checked", !.id = t.id]]
    /\ UNCHANGED <<ticketVars, profile, position, lease, portalLive, session, checkpoints, operation>>

ConsumeLaunch(c) ==
    /\ launch[c].pc = "checked"
    /\ \/ \E t \in tickets :
             /\ t.id = launch[c].id
             /\ ConsumeGameTicket(t, WorldOf[ServerOf[c]], c)
             /\ launch' = [launch EXCEPT ![c].pc = "consumed"]
       \/ /\ ~\E t \in tickets : t.id = launch[c].id /\ Consumable(t, WorldOf[ServerOf[c]])
          /\ launch' = [launch EXCEPT ![c].pc = "refused"]
          /\ UNCHANGED ticketVars
    /\ UNCHANGED <<profile, position, lease, portalLive, session, checkpoints, operation>>

Admitted(t, c) ==
    /\ portalLive[t.portal]
    /\ IsResume(t) => profile[UniverseOfConn(c)].epoch = t.epoch

AdmitLaunch(c) ==
    /\ launch[c].pc = "consumed"
    /\ \E t \in TicketOfConnection(c) :
          launch' = [launch EXCEPT ![c] =
              IF Admitted(t, c) THEN [@ EXCEPT !.pc = "accepted", !.calls = MaxCalls]
                                ELSE [@ EXCEPT !.pc = "refused"]]
    /\ UNCHANGED <<ticketVars, profile, position, lease, portalLive, session, checkpoints, operation>>

(***************************************************************************)
(* acquireSession in two steps: the ticket and account checks, then the    *)
(* transaction.  A server calls again after a lost answer or `saving`, and *)
(* the engine does not stop the earlier call.                              *)
(***************************************************************************)
Called(l) == [l EXCEPT !.calls = l.calls - 1, !.inflight = l.inflight + 1]
Answered(l) == [l EXCEPT !.inflight = l.inflight - 1]
CallsAgain(l) == [l EXCEPT !.inflight = l.inflight - 1, !.calls = l.calls + 1]

CallAcquire(c) ==
    /\ launch[c].pc = "accepted" /\ launch[c].calls > 0
    /\ \E t \in TicketOfConnection(c) :
          launch' = [launch EXCEPT ![c] =
              IF portalLive[t.portal]
                THEN Called(@)
                ELSE [@ EXCEPT !.pc = "refused"]]
    /\ UNCHANGED <<ticketVars, profile, position, lease, portalLive, session, checkpoints, operation>>

(* A retry of the connection that holds the lease keeps its epoch.         *)
HoldsLease(c) == lease # NoLease /\ lease.conn = c /\ ~lease.ended

(* The session the account left closes on another server and may save.     *)
MustWait(c) == WritesElsewhere(ServerOf[c]) /\ lease.closing

KeepLease(c) ==
    /\ launch[c].inflight > 0
    /\ HoldsLease(c)
    /\ launch' = [launch EXCEPT ![c] = Answered(@)]
    /\ UNCHANGED <<ticketVars, profile, position, lease, portalLive, session, checkpoints, operation>>

AnswerSaving(c) ==
    /\ launch[c].inflight > 0
    /\ ~HoldsLease(c) /\ MustWait(c)
    /\ launch' = [launch EXCEPT ![c] = CallsAgain(@)]
    /\ UNCHANGED <<ticketVars, profile, position, lease, portalLive, session, checkpoints, operation>>

(* Mutant: the new session inherits the commit sequence of the last one.   *)
TakenKeepingSeq(p) == [p EXCEPT !.epoch = p.epoch + 1]

(* Mutant: the profile keeps its epoch.                                    *)
TakenKeepingEpoch(p) == [p EXCEPT !.commitSeq = 0]

(* The profile of a new session.                                           *)
Taken(p) == [p EXCEPT !.epoch = p.epoch + 1, !.commitSeq = 0]

TakeLease(c) ==
    LET u == UniverseOfConn(c)
        e == Taken(profile[u]).epoch
    IN  /\ launch[c].inflight > 0
        /\ ~HoldsLease(c) /\ ~MustWait(c)
        /\ e <= MaxEpoch
        /\ profile' = [profile EXCEPT ![u] = Taken(@)]
        /\ position' = [position EXCEPT ![WorldOf[ServerOf[c]]] = [@ EXCEPT !.seq = 0]]
        /\ \E t \in TicketOfConnection(c) :
              lease' = [universe |-> u, server |-> ServerOf[c], conn |-> c, epoch |-> e,
                        portal |-> t.portal, live |-> TRUE, closing |-> FALSE,
                        recovery |-> FALSE, ended |-> FALSE]
        /\ SetSession(u, e, [state |-> "playing", conn |-> c, base |-> profile[u].value,
                             captured |-> 0, saved |-> 0, reported |-> FALSE])
        /\ launch' = [launch EXCEPT ![c] = Answered(@)]
        /\ UNCHANGED <<ticketVars, portalLive, checkpoints, operation>>

AcquireSession(c) == KeepLease(c) \/ AnswerSaving(c) \/ TakeLease(c)

(***************************************************************************)
(* The game server of a session: it captures states, leaves, and stops     *)
(* when its process ends or its final state is dropped.                    *)
(***************************************************************************)
Capture(u, e) ==
    /\ session[u][e].state = "playing" /\ session[u][e].captured < MaxSeq
    /\ SetSession(u, e, [session[u][e] EXCEPT !.captured = session[u][e].captured + 1])
    /\ UNCHANGED <<ticketVars, profile, position, lease, portalLive, launch, checkpoints, operation>>

Leave(u, e) ==
    /\ session[u][e].state = "playing"
    /\ SetSession(u, e, [session[u][e] EXCEPT !.state = "closing"])
    /\ UNCHANGED <<ticketVars, profile, position, lease, portalLive, launch, checkpoints, operation>>

Stop(u, e) ==
    /\ Running(u, e)
    /\ SetSession(u, e, [session[u][e] EXCEPT !.state = "done"])
    /\ UNCHANGED <<ticketVars, profile, position, lease, portalLive, launch, checkpoints, operation>>

(***************************************************************************)
(* commitState of a state the session captured, now or earlier: checkCommit *)
(* and writeCommit in one transaction.  saved is the highest sequence the  *)
(* engine answered as stored, whether or not the answer arrived.           *)
(***************************************************************************)
Sent(u, e) == 1..session[u][e].captured

Saved(s, n) == [s EXCEPT !.saved = IF s.saved < n THEN n ELSE s.saved]

SaveAnswered(u, e, n) == SetSession(u, e, Saved(session[u][e], n))

CommitDuplicate(u, e, n) ==
    /\ n \in Sent(u, e)
    /\ profile[u].epoch = e /\ profile[u].commitSeq >= n
    /\ SaveAnswered(u, e, n)
    /\ UNCHANGED <<ticketVars, profile, position, lease, portalLive, launch, checkpoints, operation>>

(* Mutant: a commit looks only at its sequence.                            *)
CommitUnfenced(u, e, n) == profile[u].commitSeq < n /\ lease # NoLease

(* Mutant: any sequence of the current session is applied.                 *)
CommitUnordered(u, e, n) == profile[u].epoch = e /\ LeaseNames(u, e)

(* checkCommit accepts sequence n of session e.                            *)
CommitAccepted(u, e, n) ==
    /\ profile[u].epoch = e
    /\ profile[u].commitSeq < n
    /\ LeaseNames(u, e)

Written(p, stamp) == [p EXCEPT !.commitSeq = stamp.seq, !.value = stamp]

CommitState(u, e, n, positionChanged) ==
    LET stamp == [epoch |-> e, seq |-> n]
        w == LeaseWorld
    IN  /\ n \in Sent(u, e)
        /\ CommitAccepted(u, e, n)
        /\ profile' = [profile EXCEPT ![u] = Written(@, stamp)]
        /\ position' = IF positionChanged /\ n > position[w].seq
                         THEN [position EXCEPT ![w] = [seq |-> n, value |-> stamp]]
                         ELSE position
        /\ SaveAnswered(u, e, n)
        /\ UNCHANGED <<ticketVars, lease, portalLive, launch, checkpoints, operation>>

(* stale_session: the server ends the session.                             *)
CommitStale(u, e, n) ==
    /\ Running(u, e) /\ n \in Sent(u, e)
    /\ \/ profile[u].epoch # e
       \/ profile[u].commitSeq < n /\ ~LeaseNames(u, e)
    /\ SetSession(u, e, [session[u][e] EXCEPT !.state = "done"])
    /\ UNCHANGED <<ticketVars, profile, position, lease, portalLive, launch, checkpoints, operation>>

(***************************************************************************)
(* checkpointSessions of one session in three steps: the reads that end or *)
(* renew it, the renewal of the lease, and writePositions.                 *)
(***************************************************************************)
Ended(u, e) == ~LiveLease(u, e)

BeginCheckpoint(u, e, recovery) ==
    LET s == session[u][e]
    IN  /\ Running(u, e)
        /\ ~Ended(u, e)
        /\ Cardinality({k \in checkpoints : k.universe = u /\ k.epoch = e}) < MaxCheckpoints
        /\ checkpoints' = checkpoints \cup
               {[universe |-> u, epoch |-> e, closing |-> s.state = "closing",
                 recovery |-> recovery, seq |-> s.captured, step |-> "renew"]}
        /\ UNCHANGED <<ticketVars, profile, position, lease, portalLive, launch, session, operation>>

(* The answer names the session in `ended`: its server ends it.            *)
CheckpointEnded(u, e) ==
    /\ Running(u, e)
    /\ Ended(u, e)
    /\ SetSession(u, e, [session[u][e] EXCEPT !.state = "done"])
    /\ UNCHANGED <<ticketVars, profile, position, lease, portalLive, launch, checkpoints, operation>>

(* The filter of the renewal; it does not read expiresAt.                  *)
Renewable(k) == LeaseNames(k.universe, k.epoch) /\ ~lease.ended

(* Mutant: the stored health leaves out that the session closes.           *)
RenewedQuietly(k) == [lease EXCEPT !.live = TRUE, !.recovery = k.recovery]

(* The lease after the renewal, with the health the checkpoint reports.    *)
Renewed(k) == [lease EXCEPT !.live = TRUE, !.closing = k.closing, !.recovery = k.recovery]

RenewLease(k) ==
    LET u == k.universe
        e == k.epoch
    IN  /\ k.step = "renew"
        /\ checkpoints' = (checkpoints \ {k}) \cup {[k EXCEPT !.step = "position"]}
        /\ IF Renewable(k)
             THEN /\ lease' = Renewed(k)
                  /\ SetSession(u, e, [session[u][e] EXCEPT !.reported = session[u][e].reported \/ k.closing])
             ELSE UNCHANGED <<lease, session>>
        /\ UNCHANGED <<ticketVars, profile, position, portalLive, launch, operation>>

(* Mutant: a position is written to the profile whoever plays it now.      *)
PositionUnguarded(k, w) == k.seq > 0

(* The filter of writePositions.                                           *)
PositionAccepted(k, w) == profile[k.universe].epoch = k.epoch /\ position[w].seq < k.seq

WritePosition(k) ==
    LET w == WorldOf[ServerOf[session[k.universe][k.epoch].conn]]
    IN  /\ k.step = "position"
        /\ checkpoints' = checkpoints \ {k}
        /\ position' = IF PositionAccepted(k, w)
                         THEN [position EXCEPT ![w] =
                                 [seq |-> k.seq, value |-> [epoch |-> k.epoch, seq |-> k.seq]]]
                         ELSE position
        /\ UNCHANGED <<ticketVars, profile, lease, portalLive, launch, session, operation>>

(* releaseSession after the final commit.                                  *)
ReleaseSession(u, e) ==
    /\ session[u][e].state = "closing" /\ session[u][e].saved = session[u][e].captured
    /\ lease' = IF LeaseNames(u, e) THEN NoLease ELSE lease
    /\ SetSession(u, e, [session[u][e] EXCEPT !.state = "done"])
    /\ UNCHANGED <<ticketVars, profile, position, portalLive, launch, checkpoints, operation>>

LeaseExpires ==
    /\ lease # NoLease /\ lease.live
    /\ lease' = [lease EXCEPT !.live = FALSE]
    /\ UNCHANGED <<ticketVars, profile, position, portalLive, launch, session, checkpoints, operation>>

(***************************************************************************)
(* Operator requests (player-operations.js).  An operator names the epoch  *)
(* it saw; runOperation decides, writes and records the audit in one       *)
(* transaction, so a repeated request answers the record and changes       *)
(* nothing.                                                                *)
(***************************************************************************)
SendOperation(o, kind) ==
    /\ operation[o].status = "idle" /\ profile[TargetOf[o]].epoch > 0
    /\ operation' = [operation EXCEPT ![o] = [status |-> "sent", kind |-> kind,
                                             epoch |-> profile[TargetOf[o]].epoch]]
    /\ UNCHANGED <<ticketVars, profile, position, lease, portalLive, launch, session, checkpoints>>

Record(o, status) == operation' = [operation EXCEPT ![o] = [@ EXCEPT !.status = status]]

RefuseOperation(o) ==
    LET u == TargetOf[o]
    IN  /\ operation[o].status = "sent"
        /\ \/ operation[o].kind = "session.end" /\ (profile[u].epoch # operation[o].epoch \/ ~SessionLive(u))
           \/ operation[o].kind = "stacks" /\ (SessionLive(u) \/ profile[u].epoch # operation[o].epoch)
        /\ Record(o, "refused")
        /\ UNCHANGED <<ticketVars, profile, position, lease, portalLive, launch, session, checkpoints>>

RaiseEpoch(u) ==
    /\ profile[u].epoch < MaxEpoch
    /\ profile' = [profile EXCEPT ![u].epoch = profile[u].epoch + 1]

(* Mutant: the lease is marked, and the profile keeps its epoch.           *)
EndLeaseUnfenced(u) ==
    /\ lease' = [lease EXCEPT !.ended = TRUE, !.live = FALSE]
    /\ UNCHANGED profile

(* Mutant: the profile takes the next epoch, and the lease is left.        *)
EndLeaseUnmarked(u) == RaiseEpoch(u) /\ UNCHANGED lease

(* endLease                                                                *)
EndLease(u) ==
    /\ RaiseEpoch(u)
    /\ lease' = [lease EXCEPT !.ended = TRUE, !.live = FALSE]

EndSession(o) ==
    LET u == TargetOf[o]
    IN  /\ operation[o].kind = "session.end" /\ operation[o].status = "sent"
        /\ profile[u].epoch = operation[o].epoch /\ SessionLive(u)
        /\ EndLease(u)
        /\ Record(o, "done")
        /\ UNCHANGED <<ticketVars, position, portalLive, launch, session, checkpoints>>

(* Mutant: a change of the stacks keeps the epoch.                         *)
ChangedInPlace(p) == [p EXCEPT !.value = [epoch |-> p.epoch, seq |-> 0]]

(* The profile after a change of its stacks, which are in the stamp.       *)
Changed(p) == [p EXCEPT !.epoch = p.epoch + 1, !.value = [epoch |-> p.epoch + 1, seq |-> 0]]

(* stackPlan                                                               *)
ChangeStacks(o) ==
    LET u == TargetOf[o]
    IN  /\ operation[o].kind = "stacks" /\ operation[o].status = "sent"
        /\ ~SessionLive(u) /\ profile[u].epoch = operation[o].epoch
        /\ Changed(profile[u]).epoch <= MaxEpoch
        /\ profile' = [profile EXCEPT ![u] = Changed(@)]
        /\ Record(o, "done")
        /\ UNCHANGED <<ticketVars, position, lease, portalLive, launch, session, checkpoints>>

(* restrictionPlan of a lock or a ban.                                     *)
RestrictAccount(o) ==
    LET u == TargetOf[o]
    IN  /\ operation[o].kind = "restrict" /\ operation[o].status = "sent"
        /\ portalLive' = [p \in Portals |-> FALSE]
        /\ IF SessionLive(u) THEN EndLease(u) ELSE UNCHANGED <<profile, lease>>
        /\ Record(o, "done")
        /\ UNCHANGED <<ticketVars, position, launch, session, checkpoints>>

(***************************************************************************)
(* The specification.                                                      *)
(***************************************************************************)
TicketStep ==
    \/ \E p \in Portals, w \in Worlds : RequestLaunch(p, w)
    \/ \E p \in Portals : SignOut(p)
    \/ \E t \in tickets : ExpireTicket(t)
    \/ \E u \in Universes, e \in Epochs :
          IssueResume(u, e) \/ \E w \in Worlds : IssueTravel(u, e, w)

LaunchStep == \E c \in Conns :
    \/ \E t \in tickets : BeginLaunch(c, t)
    \/ ConsumeLaunch(c) \/ AdmitLaunch(c)
    \/ CallAcquire(c)
    \/ AcquireSession(c)

SessionStep == \E u \in Universes, e \in Epochs :
    \/ Capture(u, e) \/ Leave(u, e) \/ Stop(u, e)
    \/ \E n \in Sent(u, e) :
          \/ CommitDuplicate(u, e, n)
          \/ \E moved \in Moves : CommitState(u, e, n, moved)
          \/ CommitStale(u, e, n)
    \/ \E recovery \in Reports : BeginCheckpoint(u, e, recovery)
    \/ CheckpointEnded(u, e)
    \/ ReleaseSession(u, e)

LeaseStep ==
    \/ LeaseExpires
    \/ \E k \in checkpoints : RenewLease(k) \/ WritePosition(k)

OperatorStep == \E o \in Operations :
    \/ \E kind \in Kinds : SendOperation(o, kind)
    \/ RefuseOperation(o) \/ EndSession(o) \/ ChangeStacks(o) \/ RestrictAccount(o)

Next == TicketStep \/ LaunchStep \/ SessionStep \/ LeaseStep \/ OperatorStep

Spec == Init /\ [][Next]_vars

(***************************************************************************)
(* Fairness.  A running game server checkpoints every third of a lease and *)
(* hears which of its sessions ended; a session that closes commits its    *)
(* final state again until it is stored, then releases its lease; a server *)
(* calls AcquirePlayerSession again after `saving`; the engine finishes    *)
(* the calls it holds; and the lease of a session nobody runs expires.     *)
(* Nothing is assumed of players, operators, tickets or crashes.           *)
(***************************************************************************)
FinalCommit(u, e) ==
    /\ session[u][e].state = "closing"
    /\ LET n == session[u][e].captured
       IN  \/ CommitDuplicate(u, e, n)
           \/ CommitState(u, e, n, FALSE)
           \/ CommitStale(u, e, n)

AbandonedLeaseExpires == LeaseExpires /\ ~Running(lease.universe, lease.epoch)

Fairness ==
    /\ \A c \in Conns : WF_vars(CallAcquire(c)) /\ WF_vars(AcquireSession(c))
    /\ \A u \in Universes, e \in Epochs :
          /\ WF_vars(CheckpointEnded(u, e))
          /\ WF_vars(FinalCommit(u, e)) /\ WF_vars(ReleaseSession(u, e))
    /\ WF_vars(\E k \in checkpoints : RenewLease(k) \/ WritePosition(k))
    /\ WF_vars(AbandonedLeaseExpires)

FairSpec == Spec /\ Fairness

(***************************************************************************)
(* Safety.                                                                 *)
(***************************************************************************)
Granted(u, e) == session[u][e].state # "none"

(* A state the engine answered as stored stays stored: the profile holds   *)
(* it, a later state of its session, or the write of a later session or    *)
(* operator change.  At risk from late commits, duplicates, takeovers and  *)
(* the reset of the commit sequence (checkCommit, writeCommit).            *)
SavedStaysStored ==
    \A u \in Universes, e \in Epochs :
        session[u][e].saved > 0 =>
            NotAfter([epoch |-> e, seq |-> session[u][e].saved], profile[u].value)

(* A session loaded everything an older session of its profile was ever    *)
(* told is stored, so no change is lost or applied behind its back         *)
(* (acquireSession against commitState).                                   *)
TakeoverLoadsAllSaved ==
    \A u \in Universes, old, new \in Epochs :
        old < new /\ Granted(u, new) /\ session[u][old].saved > 0 =>
            NotAfter([epoch |-> old, seq |-> session[u][old].saved], session[u][new].base)

(* The inductive strengthening of the two properties above.  No session is *)
(* ahead of its profile, and one nobody was granted has said nothing; the  *)
(* stored state is never ahead of the epoch and sequence beside it; and    *)
(* the sequence a session finds counts only states that are stored, which  *)
(* is why a duplicate may be answered without writing.                     *)
GrantedInOrder ==
    \A u \in Universes, e \in Epochs :
        /\ Granted(u, e) => e <= profile[u].epoch
        /\ ~Granted(u, e) => session[u][e].captured = 0 /\ session[u][e].saved = 0

ValueBehindEpoch ==
    \A u \in Universes :
        NotAfter(profile[u].value, [epoch |-> profile[u].epoch, seq |-> profile[u].commitSeq])

SequenceIsStored ==
    \A u \in Universes, e \in Epochs :
        Granted(u, e) /\ e = profile[u].epoch /\ profile[u].commitSeq > 0 =>
            profile[u].value = [epoch |-> e, seq |-> profile[u].commitSeq]

Fence ==
    /\ TypeOK
    /\ GrantedInOrder /\ ValueBehindEpoch /\ SequenceIsStored
    /\ SavedStaysStored /\ TakeoverLoadsAllSaved

(* The lease never names a session its profile has not reached, and the    *)
(* connection, world and portal session of the lease are the ones of one   *)
(* consumed ticket.                                                        *)
LeaseOfAGrant ==
    lease # NoLease =>
        /\ lease.epoch <= profile[lease.universe].epoch
        /\ session[lease.universe][lease.epoch].conn = lease.conn
        /\ \E t \in tickets : /\ t.conn = lease.conn
                              /\ t.world = LeaseWorld /\ t.portal = lease.portal

(* A position is never replaced by an older one: not by a late checkpoint, *)
(* nor by one of a session that was taken over (writePositions).           *)
PositionsAdvance ==
    [][\A w \in Worlds : NotAfter(position[w].value, position'[w].value)]_vars

(* No value of one world lands in another: the position of a world was     *)
(* written by a session that played that world, whatever a player left     *)
(* behind on its way (writeCommit takes the world from the lease).         *)
PositionOfItsWorld ==
    \A w \in Worlds :
        LET v == position[w].value
        IN  v # NoStamp =>
                WorldOf[ServerOf[session[UniverseOf[w]][v.epoch].conn]] = w

(* A session that told the engine it closes with changes it has not saved  *)
(* keeps its lease from every other server while the lease lives, unless   *)
(* it cannot save (acquireSession answers `saving`).                       *)
Saving(u, e) ==
    /\ session[u][e].state = "closing"
    /\ session[u][e].reported /\ session[u][e].saved < session[u][e].captured
    /\ LeaseNames(u, e) /\ lease.live /\ ~lease.recovery

ClosingIsAwaited ==
    [][\A u \in Universes, e \in Epochs :
          Saving(u, e) /\ lease' # NoLease => lease'.server = lease.server]_vars

(* What an operator changed in the stacks stays: no older session writes   *)
(* over it and every later session loads it (stackPlan against the commits *)
(* of a server that outlived its lease).                                   *)
OperatorChangeStays ==
    \A o \in Operations :
        operation[o].kind = "stacks" /\ operation[o].status = "done" =>
            LET u == TargetOf[o]
                change == [epoch |-> operation[o].epoch + 1, seq |-> 0]
            IN  /\ NotAfter(change, profile[u].value)
                /\ \A e \in Epochs : e > change.epoch /\ Granted(u, e) =>
                                       NotAfter(change, session[u][e].base)

(* A session an operator ended stores nothing more, and an operator who    *)
(* saw an older session ends none that took over since (endSession).       *)
EndedForGood ==
    [][\A o \in Operations :
          operation[o].kind = "session.end" /\ operation'[o].status = "done" =>
              LET u == TargetOf[o]
                  seen == operation[o].epoch
              IN  /\ operation[o].status # "done" => ~\E e \in Epochs : e > seen /\ Running(u, e)
                  /\ profile'[u].value # profile[u].value => profile'[u].value.epoch > seen]_vars

(* The durable state of every profile is a register that only its current  *)
(* epoch writes.                                                           *)
Register == INSTANCE FencedRegister WITH
    Registers <- Universes,
    epoch <- [u \in Universes |-> profile[u].epoch],
    value <- [u \in Universes |-> profile[u].value]

(* PlayerSession implements that register, whatever calls are late, lost   *)
(* or repeated.                                                            *)
ImplementsRegister == Register!Spec

(***************************************************************************)
(* Liveness.                                                               *)
(***************************************************************************)
(* A launch the engine accepted becomes a session, or is refused because   *)
(* its portal session ended: neither a session that closes elsewhere nor   *)
(* one whose server crashed holds it back for ever.                        *)
AcceptedLaunchSettles ==
    \A c \in Conns :
        launch[c].pc = "accepted" ~>
            \/ launch[c].pc = "refused"
            \/ \E u \in Universes, e \in Epochs : session[u][e].conn = c

(* A session that lost its epoch, to a takeover or to an operator, ends on *)
(* its server although nothing tells that server until it checkpoints.     *)
FencedSessionEnds ==
    \A u \in Universes, e \in Epochs :
        Running(u, e) /\ profile[u].epoch > e ~> ~Running(u, e)

(* A lock or a ban that is not lifted ends what the account plays: no      *)
(* session of it is live for a checkpoint again, whatever profile the      *)
(* request named; and the one that plays the named profile is fenced, and  *)
(* marked ended unless another change had fenced it already                *)
(* (restrictionPlan, liveLease, sessionOf).                                *)
RestrictionEndsSession ==
    [][\A o \in Operations :
          operation[o].kind = "restrict" /\ operation'[o].status = "done" =>
              LET u == TargetOf[o]
              IN  /\ \A v \in Universes, e \in Epochs : ~LiveLease(v, e)'
                  /\ ( /\ operation[o].status # "done"
                       /\ lease # NoLease /\ lease.live /\ lease.universe = u ) =>
                         /\ profile'[u].epoch > lease.epoch
                         /\ lease.epoch = profile[u].epoch => lease'.ended]_vars

===============================================================================
