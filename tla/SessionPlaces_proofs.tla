------------------------ MODULE SessionPlaces_proofs ------------------------
(***************************************************************************)
(* Proofs of where the sessions of PlayerSession play: the lease and the   *)
(* positions belong to the worlds of the tickets that were consumed, for   *)
(* every value of the constants.                                           *)
(***************************************************************************)
EXTENDS PlayerOperations_proofs, FiniteSetTheorems

USE DEF Epochs

WorldOfConn(c) == WorldOf[ServerOf[c]]
ConnOf(u, e) == session[u][e].conn

(* The inductive invariant: whatever names a session names one that was    *)
(* granted, and a session plays the world its connection opened.           *)
TicketsInPlace == \A t \in tickets : t.conn \in Conns => t.world = WorldOfConn(t.conn)

GrantsInPlace ==
    \A u \in Universes, e \in Epochs :
        Granted(u, e) => ConnOf(u, e) \in Conns /\ UniverseOf[WorldOfConn(ConnOf(u, e))] = u

CheckpointsInPlace == \A k \in checkpoints : Granted(k.universe, k.epoch)

LeaseInPlace ==
    lease # NoLease =>
        /\ Granted(lease.universe, lease.epoch)
        /\ ConnOf(lease.universe, lease.epoch) = lease.conn
        /\ lease.server = ServerOf[lease.conn]
        /\ \E t \in tickets : /\ t.conn = lease.conn
                              /\ t.world = LeaseWorld /\ t.portal = lease.portal

PositionsInPlace ==
    \A w \in Worlds :
        LET v == position[w].value
        IN  v # NoStamp => /\ v.epoch \in Epochs /\ Granted(UniverseOf[w], v.epoch)
                           /\ WorldOfConn(ConnOf(UniverseOf[w], v.epoch)) = w

PositionsBehind ==
    \A w \in Worlds :
        NotAfter(position[w].value,
                 [epoch |-> profile[UniverseOf[w]].epoch, seq |-> position[w].seq])

Places ==
    /\ TicketsInPlace /\ GrantsInPlace /\ CheckpointsInPlace
    /\ LeaseInPlace /\ PositionsInPlace /\ PositionsBehind

LEMMA InitPlaces == Init => Places
<1> SUFFICES ASSUME Init PROVE Places
  OBVIOUS
<1>1. TicketsInPlace /\ CheckpointsInPlace /\ LeaseInPlace
  BY DEF Init, TicketInit, TicketsInPlace, CheckpointsInPlace, LeaseInPlace
<1>2. GrantsInPlace
  BY DEF Init, NoSession, GrantsInPlace, Granted
<1>3. \A w \in Worlds : position[w] = [seq |-> 0, value |-> NoStamp] /\ UniverseOf[w] \in Universes
  BY UniverseAssumption DEF Init
<1>4. \A u \in Universes : profile[u].epoch = 0
  BY DEF Init
<1>5. PositionsInPlace /\ PositionsBehind
  BY <1>3, <1>4 DEF PositionsInPlace, PositionsBehind, NotAfter, NoStamp
<1> QED
  BY <1>1, <1>2, <1>5 DEF Places

-----------------------------------------------------------------------------
(***************************************************************************)
(* What a step does to the tickets, to the connections of sessions, to the *)
(* lease and to the checkpoints.                                           *)
(***************************************************************************)
TicketsMove ==
    /\ \A t \in tickets : t.conn # NoConn => t \in tickets'
    /\ \A t \in tickets' : t \in tickets \/ t.conn = NoConn \/ t.world = WorldOfConn(t.conn)

LEMMA InsertMoves ==
  ASSUME NEW p, NEW w, NEW e, NEW kept \in SUBSET tickets, InsertTicket(p, w, e, kept),
         \A t \in tickets : t.conn # NoConn => t \in kept
  PROVE  TicketsMove
  BY DEF InsertTicket, TicketsMove

LEMMA ConsumeMoves ==
  ASSUME TypeOK, NEW c \in Conns, NEW t \in tickets, ConsumeGameTicket(t, WorldOfConn(c), c)
  PROVE  TicketsMove
<1> DEFINE r == [t EXCEPT !.conn = c]
<1>1. t.conn = NoConn /\ t.world = WorldOfConn(c) /\ tickets' = (tickets \ {t}) \cup {r}
  BY DEF ConsumeGameTicket, Consumable
<1>2. r.conn = c /\ r.world = t.world
  BY DEF TypeOK, TicketTypeOK, Ticket
<1> HIDE DEF r
<1> QED
  BY <1>1, <1>2 DEF TicketsMove

LEMMA ExpireMoves ==
  ASSUME TypeOK, NEW t \in tickets, TicketExpires(t)
  PROVE  TicketsMove
<1> DEFINE r == [t EXCEPT !.fresh = FALSE]
<1>1. t.conn = NoConn /\ tickets' = (tickets \ {t}) \cup {r}
  BY DEF TicketExpires
<1>2. r.conn = t.conn
  BY DEF TypeOK, TicketTypeOK, Ticket
<1> HIDE DEF r
<1> QED
  BY <1>1, <1>2 DEF TicketsMove

LEMMA TicketEffect == ASSUME TypeOK, [Next]_vars PROVE TicketsMove
<1>1. CASE tickets' = tickets
  BY <1>1 DEF TicketsMove
<1>2. CASE TicketStep
  <2>1. ASSUME NEW p \in Portals, NEW w \in Worlds, RequestLaunch(p, w) PROVE TicketsMove
    BY <2>1, InsertMoves DEF RequestLaunch, CreateGameTicket
  <2>2. ASSUME NEW p \in Portals, SignOut(p) PROVE TicketsMove
    BY <1>1, <2>2 DEF SignOut, ticketVars
  <2>3. ASSUME NEW t \in tickets, ExpireTicket(t) PROVE TicketsMove
    BY <2>3, ExpireMoves DEF ExpireTicket
  <2>4. ASSUME NEW u \in Universes, NEW e \in Epochs, IssueResume(u, e) PROVE TicketsMove
    BY <2>4, InsertMoves DEF IssueResume, CreateResumeTicket, Replaced
  <2>5. ASSUME NEW u \in Universes, NEW e \in Epochs, NEW w \in Worlds, IssueTravel(u, e, w)
        PROVE  TicketsMove
    BY <2>5, InsertMoves DEF IssueTravel, CreateGameTicket
  <2> QED
    BY <1>2, <2>1, <2>2, <2>3, <2>4, <2>5 DEF TicketStep
<1>3. CASE LaunchStep
  <2>1. ASSUME NEW c \in Conns, ConsumeLaunch(c) PROVE TicketsMove
    <3>1. CASE ticketVars' = ticketVars
      BY <1>1, <3>1 DEF ticketVars
    <3>2. CASE \E t \in tickets : ConsumeGameTicket(t, WorldOfConn(c), c)
      BY <3>2, ConsumeMoves
    <3> QED
      BY <2>1, <3>1, <3>2 DEF ConsumeLaunch, WorldOfConn
  <2>2. ASSUME NEW c \in Conns,
               \/ \E t \in tickets : BeginLaunch(c, t)
               \/ AdmitLaunch(c) \/ CallAcquire(c) \/ AcquireSession(c)
        PROVE  tickets' = tickets
    BY <2>2 DEF BeginLaunch, AdmitLaunch, CallAcquire, AcquireSession, KeepLease, AnswerSaving,
                TakeLease, ticketVars
  <2> QED
    BY <1>1, <1>3, <2>1, <2>2 DEF LaunchStep
<1>4. CASE SessionStep
  <2>1. PICK u \in Universes, e \in Epochs :
          \/ Capture(u, e) \/ Leave(u, e) \/ Stop(u, e)
          \/ \E n \in Sent(u, e) :
                \/ CommitDuplicate(u, e, n)
                \/ \E moved \in Moves : CommitState(u, e, n, moved)
                \/ CommitStale(u, e, n)
          \/ \E recovery \in Reports : BeginCheckpoint(u, e, recovery)
          \/ CheckpointEnded(u, e)
          \/ ReleaseSession(u, e)
    BY <1>4 DEF SessionStep
  <2>2. CASE Capture(u, e) \/ Leave(u, e) \/ Stop(u, e) \/ CheckpointEnded(u, e) \/ ReleaseSession(u, e)
    BY <1>1, <2>2 DEF Capture, Leave, Stop, CheckpointEnded, ReleaseSession, ticketVars
  <2>3. CASE \E n \in Sent(u, e) : CommitDuplicate(u, e, n) \/ CommitStale(u, e, n)
    BY <1>1, <2>3 DEF CommitDuplicate, CommitStale, ticketVars
  <2>4. CASE \E n \in Sent(u, e) : \E moved \in Moves : CommitState(u, e, n, moved)
    BY <1>1, <2>4 DEF CommitState, ticketVars
  <2>5. CASE \E recovery \in Reports : BeginCheckpoint(u, e, recovery)
    BY <1>1, <2>5 DEF BeginCheckpoint, ticketVars
  <2> QED
    BY <2>1, <2>2, <2>3, <2>4, <2>5
<1>5. CASE LeaseStep
  BY <1>1, <1>5 DEF LeaseStep, LeaseExpires, RenewLease, WritePosition, ticketVars
<1>6. CASE OperatorStep
  BY <1>1, <1>6 DEF OperatorStep, SendOperation, RefuseOperation, EndSession, ChangeStacks,
                    RestrictAccount, ticketVars
<1>7. CASE UNCHANGED vars
  BY <1>1, <1>7 DEF vars, ticketVars
<1> QED
  BY <1>2, <1>3, <1>4, <1>5, <1>6, <1>7 DEF Next

KeepsConn(u, e) == (Granted(u, e)' <=> Granted(u, e)) /\ ConnOf(u, e)' = ConnOf(u, e)
ConnsKept == \A u \in Universes, e \in Epochs : KeepsConn(u, e)

LEMMA SameKeepsConns == ASSUME session' = session PROVE ConnsKept
  BY DEF ConnsKept, KeepsConn, Granted, ConnOf

LEMMA MoveKeepsConns ==
  ASSUME TypeOK, NEW u \in Universes, NEW e \in Epochs, NEW s, SetSession(u, e, s),
         s.state # "none" <=> session[u][e].state # "none", s.conn = session[u][e].conn
  PROVE  ConnsKept
<1> SUFFICES ASSUME NEW v \in Universes, NEW f \in Epochs PROVE KeepsConn(v, f)
  BY DEF ConnsKept
<1>1. session'[v][f] = IF v = u /\ f = e THEN s ELSE session[v][f]
  BY SetSessionEffect
<1> QED
  BY <1>1 DEF KeepsConn, Granted, ConnOf

(* The updates of the record of a session keep its connection.             *)
LEMMA UpdatesKeepConn ==
  ASSUME NEW s \in Session
  PROVE  /\ \A state \in {"closing", "done"} :
               [s EXCEPT !.state = state].state = state /\ [s EXCEPT !.state = state].conn = s.conn
         /\ \A n : LET r == [s EXCEPT !.captured = n] IN r.state = s.state /\ r.conn = s.conn
         /\ \A n : Saved(s, n).state = s.state /\ Saved(s, n).conn = s.conn
         /\ \A b : LET r == [s EXCEPT !.reported = b] IN r.state = s.state /\ r.conn = s.conn
  BY DEF Session, Saved

LEMMA ConnKinds ==
  ASSUME TypeOK, [Next]_vars
  PROVE  ConnsKept \/ \E c \in Conns : TakeLease(c)
<1>1. CASE TicketStep
  BY <1>1, SameKeepsConns
  DEF TicketStep, RequestLaunch, SignOut, ExpireTicket, IssueResume, IssueTravel, sessionVars
<1>2. CASE LaunchStep
  BY <1>2, SameKeepsConns
  DEF LaunchStep, BeginLaunch, ConsumeLaunch, AdmitLaunch, CallAcquire, AcquireSession,
      KeepLease, AnswerSaving
<1>3. CASE SessionStep
  <2>1. PICK u \in Universes, e \in Epochs :
          \/ Capture(u, e) \/ Leave(u, e) \/ Stop(u, e)
          \/ \E n \in Sent(u, e) :
                \/ CommitDuplicate(u, e, n)
                \/ \E moved \in Moves : CommitState(u, e, n, moved)
                \/ CommitStale(u, e, n)
          \/ \E recovery \in Reports : BeginCheckpoint(u, e, recovery)
          \/ CheckpointEnded(u, e)
          \/ ReleaseSession(u, e)
    BY <1>3 DEF SessionStep
  <2>s. session[u][e] \in Session
    BY DEF TypeOK
  <2>2. CASE Capture(u, e)
    <3> DEFINE r == [session[u][e] EXCEPT !.captured = session[u][e].captured + 1]
    <3>1. r.state = session[u][e].state /\ r.conn = session[u][e].conn
      BY <2>s, UpdatesKeepConn
    <3>2. SetSession(u, e, r)
      BY <2>2 DEF Capture
    <3> HIDE DEF r
    <3> QED
      BY <3>1, <3>2, MoveKeepsConns
  <2>3. ASSUME NEW state \in {"closing", "done"}, session[u][e].state # "none",
               SetSession(u, e, [session[u][e] EXCEPT !.state = state])
        PROVE  ConnsKept
    <3> DEFINE r == [session[u][e] EXCEPT !.state = state]
    <3>1. r.state = state /\ r.conn = session[u][e].conn /\ SetSession(u, e, r)
      BY <2>3, <2>s, UpdatesKeepConn
    <3> HIDE DEF r
    <3> QED
      BY <2>3, <3>1, MoveKeepsConns
  <2>4. CASE \/ Leave(u, e) \/ Stop(u, e) \/ CheckpointEnded(u, e) \/ ReleaseSession(u, e)
             \/ \E n \in Sent(u, e) : CommitStale(u, e, n)
    BY <2>3, <2>4 DEF Leave, Stop, CheckpointEnded, ReleaseSession, CommitStale, Running
  <2>5. ASSUME NEW n \in Sent(u, e), SaveAnswered(u, e, n) PROVE ConnsKept
    BY <2>5, <2>s, UpdatesKeepConn, MoveKeepsConns DEF SaveAnswered
  <2>6. CASE \E n \in Sent(u, e) :
               CommitDuplicate(u, e, n) \/ \E moved \in Moves : CommitState(u, e, n, moved)
    BY <2>5, <2>6 DEF CommitDuplicate, CommitState
  <2>7. CASE \E recovery \in Reports : BeginCheckpoint(u, e, recovery)
    BY <2>7, SameKeepsConns DEF BeginCheckpoint
  <2> QED
    BY <2>1, <2>2, <2>4, <2>6, <2>7
<1>4. CASE LeaseStep
  <2>1. ASSUME NEW k \in checkpoints, RenewLease(k) PROVE ConnsKept
    <3> DEFINE u == k.universe
               e == k.epoch
               r == [session[u][e] EXCEPT !.reported = session[u][e].reported \/ k.closing]
    <3>1. u \in Universes /\ e \in Epochs /\ session[u][e] \in Session
      BY DEF TypeOK, Checkpoint
    <3>2. r.state = session[u][e].state /\ r.conn = session[u][e].conn
      BY <3>1, UpdatesKeepConn
    <3>3. SetSession(u, e, r) \/ session' = session
      BY <2>1 DEF RenewLease
    <3> HIDE DEF u, e, r
    <3> QED
      BY <3>1, <3>2, <3>3, MoveKeepsConns, SameKeepsConns
  <2> QED
    BY <1>4, <2>1, SameKeepsConns DEF LeaseStep, LeaseExpires, WritePosition
<1>5. CASE OperatorStep
  BY <1>5, SameKeepsConns
  DEF OperatorStep, SendOperation, RefuseOperation, EndSession, ChangeStacks, RestrictAccount
<1>6. CASE UNCHANGED vars
  BY <1>6, SameKeepsConns DEF vars, sessionVars
<1> QED
  BY <1>1, <1>2, <1>3, <1>4, <1>5, <1>6 DEF Next

SameLease ==
    lease # NoLease /\ lease' # NoLease
    /\ lease'.universe = lease.universe /\ lease'.epoch = lease.epoch
    /\ lease'.conn = lease.conn /\ lease'.server = lease.server /\ lease'.portal = lease.portal

(* The updates of the lease keep what it names.                            *)
LEMMA LeaseUpdates ==
  ASSUME TypeOK, lease # NoLease
  PROVE  /\ lease' = [lease EXCEPT !.live = FALSE] => SameLease
         /\ lease' = [lease EXCEPT !.ended = TRUE, !.live = FALSE] => SameLease
         /\ \A k \in checkpoints : lease' = Renewed(k) => SameLease
<1>1. lease \in Lease
  BY DEF TypeOK
<1>2. /\ [lease EXCEPT !.live = FALSE] \in Lease
      /\ [lease EXCEPT !.ended = TRUE, !.live = FALSE] \in Lease
      /\ \A k \in checkpoints : Renewed(k) \in Lease
  BY <1>1 DEF Lease, Renewed, TypeOK, Checkpoint
<1>3. \A l \in Lease : l # NoLease
  BY NoLeaseAssumption
<1> QED
  BY <1>1, <1>2, <1>3 DEF SameLease, Lease, Renewed

LEMMA LeaseKinds ==
  ASSUME TypeOK, [Next]_vars
  PROVE  lease' = lease \/ lease' = NoLease \/ SameLease \/ \E c \in Conns : TakeLease(c)
<1>1. CASE TicketStep
  BY <1>1 DEF TicketStep, RequestLaunch, SignOut, ExpireTicket, IssueResume, IssueTravel, sessionVars
<1>2. CASE LaunchStep
  BY <1>2 DEF LaunchStep, BeginLaunch, ConsumeLaunch, AdmitLaunch, CallAcquire, AcquireSession,
              KeepLease, AnswerSaving
<1>3. CASE SessionStep
  <2>1. PICK u \in Universes, e \in Epochs :
          \/ Capture(u, e) \/ Leave(u, e) \/ Stop(u, e)
          \/ \E n \in Sent(u, e) :
                \/ CommitDuplicate(u, e, n)
                \/ \E moved \in Moves : CommitState(u, e, n, moved)
                \/ CommitStale(u, e, n)
          \/ \E recovery \in Reports : BeginCheckpoint(u, e, recovery)
          \/ CheckpointEnded(u, e)
          \/ ReleaseSession(u, e)
    BY <1>3 DEF SessionStep
  <2>2. CASE Capture(u, e) \/ Leave(u, e) \/ Stop(u, e) \/ CheckpointEnded(u, e) \/ ReleaseSession(u, e)
    BY <2>2 DEF Capture, Leave, Stop, CheckpointEnded, ReleaseSession
  <2>3. CASE \E n \in Sent(u, e) : CommitDuplicate(u, e, n) \/ CommitStale(u, e, n)
    BY <2>3 DEF CommitDuplicate, CommitStale
  <2>4. CASE \E n \in Sent(u, e) : \E moved \in Moves : CommitState(u, e, n, moved)
    BY <2>4 DEF CommitState
  <2>5. CASE \E recovery \in Reports : BeginCheckpoint(u, e, recovery)
    BY <2>5 DEF BeginCheckpoint
  <2> QED
    BY <2>1, <2>2, <2>3, <2>4, <2>5
<1>4. CASE LeaseStep
  <2>1. CASE LeaseExpires
    BY <2>1, LeaseUpdates DEF LeaseExpires
  <2>2. ASSUME NEW k \in checkpoints, RenewLease(k) PROVE lease' = lease \/ SameLease
    BY <2>2, LeaseUpdates DEF RenewLease, Renewable, LeaseNames
  <2>3. ASSUME NEW k \in checkpoints, WritePosition(k) PROVE lease' = lease
    BY <2>3 DEF WritePosition
  <2> QED
    BY <1>4, <2>1, <2>2, <2>3 DEF LeaseStep
<1>5. CASE OperatorStep
  <2>1. ASSUME NEW u \in Universes, SessionLive(u), EndLease(u) PROVE SameLease
    BY <2>1, LeaseUpdates DEF SessionLive, LeaseNames, EndLease
  <2>2. \A o \in Operations : TargetOf[o] \in Universes
    BY OperationAssumption
  <2>3. ASSUME NEW o \in Operations, EndSession(o) \/ RestrictAccount(o)
        PROVE  lease' = lease \/ SameLease
    BY <2>1, <2>2, <2>3 DEF EndSession, RestrictAccount
  <2>4. ASSUME NEW o \in Operations,
               (\E kind \in Kinds : SendOperation(o, kind)) \/ RefuseOperation(o) \/ ChangeStacks(o)
        PROVE  lease' = lease
    BY <2>4 DEF SendOperation, RefuseOperation, ChangeStacks
  <2> QED
    BY <1>5, <2>3, <2>4 DEF OperatorStep
<1>6. CASE UNCHANGED vars
  BY <1>6 DEF vars, sessionVars
<1> QED
  BY <1>1, <1>2, <1>3, <1>4, <1>5, <1>6 DEF Next

(* A checkpoint comes from a session its server runs, and stays its.       *)
CheckpointsMove ==
    \A k \in checkpoints' :
        \/ \E j \in checkpoints : k.universe = j.universe /\ k.epoch = j.epoch
        \/ k.universe \in Universes /\ k.epoch \in Epochs /\ Granted(k.universe, k.epoch)

LEMMA CheckpointEffect == ASSUME TypeOK, [Next]_vars PROVE CheckpointsMove
<1>1. CASE checkpoints' \subseteq checkpoints
  BY <1>1 DEF CheckpointsMove
<1>2. CASE TicketStep
  BY <1>1, <1>2
  DEF TicketStep, RequestLaunch, SignOut, ExpireTicket, IssueResume, IssueTravel, sessionVars
<1>3. CASE LaunchStep
  BY <1>1, <1>3 DEF LaunchStep, BeginLaunch, ConsumeLaunch, AdmitLaunch, CallAcquire, AcquireSession,
                    KeepLease, AnswerSaving, TakeLease
<1>4. CASE SessionStep
  <2>1. PICK u \in Universes, e \in Epochs :
          \/ Capture(u, e) \/ Leave(u, e) \/ Stop(u, e)
          \/ \E n \in Sent(u, e) :
                \/ CommitDuplicate(u, e, n)
                \/ \E moved \in Moves : CommitState(u, e, n, moved)
                \/ CommitStale(u, e, n)
          \/ \E recovery \in Reports : BeginCheckpoint(u, e, recovery)
          \/ CheckpointEnded(u, e)
          \/ ReleaseSession(u, e)
    BY <1>4 DEF SessionStep
  <2>2. CASE Capture(u, e) \/ Leave(u, e) \/ Stop(u, e) \/ CheckpointEnded(u, e) \/ ReleaseSession(u, e)
    BY <1>1, <2>2 DEF Capture, Leave, Stop, CheckpointEnded, ReleaseSession
  <2>3. CASE \E n \in Sent(u, e) : CommitDuplicate(u, e, n) \/ CommitStale(u, e, n)
    BY <1>1, <2>3 DEF CommitDuplicate, CommitStale
  <2>4. CASE \E n \in Sent(u, e) : \E moved \in Moves : CommitState(u, e, n, moved)
    BY <1>1, <2>4 DEF CommitState
  <2>5. ASSUME NEW recovery \in Reports, BeginCheckpoint(u, e, recovery) PROVE CheckpointsMove
    <3> DEFINE j == [universe |-> u, epoch |-> e, closing |-> session[u][e].state = "closing",
                     recovery |-> recovery, seq |-> session[u][e].captured, step |-> "renew"]
    <3>1. checkpoints' = checkpoints \cup {j} /\ Granted(u, e)
      BY <2>5 DEF BeginCheckpoint, Running, Granted
    <3>2. j.universe = u /\ j.epoch = e
      OBVIOUS
    <3> HIDE DEF j
    <3> QED
      BY <3>1, <3>2 DEF CheckpointsMove
  <2> QED
    BY <2>1, <2>2, <2>3, <2>4, <2>5
<1>5. CASE LeaseStep
  <2>1. ASSUME NEW k \in checkpoints, RenewLease(k) PROVE CheckpointsMove
    <3> DEFINE j == [k EXCEPT !.step = "position"]
    <3>1. checkpoints' = (checkpoints \ {k}) \cup {j}
      BY <2>1 DEF RenewLease
    <3>2. j.universe = k.universe /\ j.epoch = k.epoch
      BY DEF TypeOK, Checkpoint
    <3> HIDE DEF j
    <3> QED
      BY <3>1, <3>2 DEF CheckpointsMove
  <2> QED
    BY <1>1, <1>5, <2>1 DEF LeaseStep, LeaseExpires, WritePosition
<1>6. CASE OperatorStep
  BY <1>1, <1>6 DEF OperatorStep, SendOperation, RefuseOperation, EndSession, ChangeStacks, RestrictAccount
<1>7. CASE UNCHANGED vars
  BY <1>1, <1>7 DEF vars, sessionVars
<1> QED
  BY <1>2, <1>3, <1>4, <1>5, <1>6, <1>7 DEF Next

-----------------------------------------------------------------------------
(***************************************************************************)
(* What a takeover does, and what a step does to a position.               *)
(***************************************************************************)
LEMMA TakeLeaseEffect ==
  ASSUME Fence, NEW c \in Conns, TakeLease(c)
  PROVE  LET u == UniverseOfConn(c)
             e == profile[u].epoch + 1
         IN  /\ u \in Universes /\ e \in Epochs /\ ~Granted(u, e)
             /\ profile'[u].epoch = e
             /\ \A v \in Universes, f \in Epochs :
                   IF v = u /\ f = e THEN Granted(v, f)' /\ ConnOf(v, f)' = c ELSE KeepsConn(v, f)
             /\ lease' # NoLease /\ lease'.universe = u /\ lease'.epoch = e
             /\ lease'.conn = c /\ lease'.server = ServerOf[c]
             /\ \E t \in TicketOfConnection(c) : lease'.portal = t.portal
             /\ tickets' = tickets
             /\ position' = [position EXCEPT ![WorldOfConn(c)] = [position[WorldOfConn(c)] EXCEPT !.seq = 0]]
<1> DEFINE u == UniverseOfConn(c)
           e == profile[u].epoch + 1
           s == [state |-> "playing", conn |-> c, base |-> profile[u].value,
                 captured |-> 0, saved |-> 0, reported |-> FALSE]
<1>1. TypeOK /\ u \in Universes
  BY ServerAssumption, UniverseAssumption DEF Fence, UniverseOfConn
<1>2. profile[u] \in Profile /\ Taken(profile[u]).epoch = e
  BY <1>1 DEF TypeOK, Taken, Profile
<1>3. /\ e <= MaxEpoch /\ SetSession(u, e, s) /\ profile' = [profile EXCEPT ![u] = Taken(profile[u])]
      /\ tickets' = tickets
      /\ position' = [position EXCEPT ![WorldOfConn(c)] = [position[WorldOfConn(c)] EXCEPT !.seq = 0]]
  BY <1>2 DEF TakeLease, ticketVars, WorldOfConn
<1>4. e \in Epochs
  BY <1>1, <1>3, FenceTypes, BoundAssumption
<1>5. ~Granted(u, e)
  BY <1>1, <1>4, CurrentHasNoHeir, FenceTypes
<1>6. profile'[u].epoch = e
  BY <1>1, <1>2, <1>3 DEF TypeOK
<1>7. \A v \in Universes, f \in Epochs :
        session'[v][f] = IF v = u /\ f = e THEN s ELSE session[v][f]
  BY <1>1, <1>3, <1>4, SetSessionEffect
<1>8. s.state = "playing" /\ s.conn = c
  OBVIOUS
<1>9. PICK t \in TicketOfConnection(c) :
        lease' = [universe |-> u, server |-> ServerOf[c], conn |-> c, epoch |-> e,
                  portal |-> t.portal, live |-> TRUE, closing |-> FALSE,
                  recovery |-> FALSE, ended |-> FALSE]
  BY <1>2 DEF TakeLease
<1>10. lease' # NoLease
  <2>1. t.portal \in Portals /\ ServerOf[c] \in Servers
    BY <1>1, ServerAssumption DEF TicketOfConnection, TypeOK, TicketTypeOK, Ticket
  <2> HIDE DEF u, e
  <2>2. lease' \in Lease
    BY <1>1, <1>4, <1>9, <2>1 DEF Lease
  <2> QED
    BY <2>2, NoLeaseAssumption
<1>11. /\ lease'.universe = u /\ lease'.epoch = e
       /\ lease'.conn = c /\ lease'.server = ServerOf[c] /\ lease'.portal = t.portal
  BY <1>9
<1> HIDE DEF u, e, s
<1>12. \A v \in Universes, f \in Epochs :
         IF v = u /\ f = e THEN Granted(v, f)' /\ ConnOf(v, f)' = c ELSE KeepsConn(v, f)
  BY <1>7, <1>8 DEF Granted, ConnOf, KeepsConn
<1> QED
  BY <1>1, <1>3, <1>4, <1>5, <1>6, <1>10, <1>11, <1>12 DEF u, e

(* A granted session stays granted, to the same connection.                *)
LEMMA GrantsStay ==
  ASSUME Fence, [Next]_vars, NEW u \in Universes, NEW e \in Epochs, Granted(u, e)
  PROVE  Granted(u, e)' /\ ConnOf(u, e)' = ConnOf(u, e)
<1>1. TypeOK
  BY DEF Fence
<1>2. CASE ConnsKept
  BY <1>2 DEF ConnsKept, KeepsConn
<1>3. ASSUME NEW c \in Conns, TakeLease(c) PROVE KeepsConn(u, e)
  BY <1>3, TakeLeaseEffect
<1> QED
  BY <1>1, <1>2, <1>3, ConnKinds DEF KeepsConn

(* A position is left alone, opened to the sequence of a new session, or   *)
(* written by the current session of its world.                            *)
Reset(w) ==
    /\ position'[w].value = position[w].value
    /\ profile'[UniverseOf[w]].epoch = profile[UniverseOf[w]].epoch + 1

WrittenBy(w, e, n) ==
    /\ position'[w].value = [epoch |-> e, seq |-> n] /\ position'[w].seq = n
    /\ e = profile[UniverseOf[w]].epoch /\ position[w].seq < n
    /\ Granted(UniverseOf[w], e) /\ WorldOfConn(ConnOf(UniverseOf[w], e)) = w

PositionMoves(w) ==
    \/ position'[w] = position[w]
    \/ Reset(w)
    \/ \E e \in Epochs, n \in Nat : WrittenBy(w, e, n)

LEMMA TakeMoves ==
  ASSUME Fence, NEW c \in Conns, TakeLease(c), NEW w \in Worlds
  PROVE  PositionMoves(w)
<1> DEFINE x == WorldOfConn(c)
<1>1. TypeOK /\ x \in Worlds /\ UniverseOf[x] = UniverseOfConn(c)
  BY ServerAssumption DEF Fence, WorldOfConn, UniverseOfConn
<1>2. /\ position' = [position EXCEPT ![x] = [position[x] EXCEPT !.seq = 0]]
      /\ profile'[UniverseOf[x]].epoch = profile[UniverseOf[x]].epoch + 1
  BY <1>1, TakeLeaseEffect
<1> HIDE DEF x
<1>3. position'[x].value = position[x].value /\ (w # x => position'[w] = position[w])
  BY <1>1, <1>2 DEF TypeOK, Position
<1> QED
  BY <1>2, <1>3 DEF PositionMoves, Reset

LEMMA CommitMoves ==
  ASSUME Fence, Places, NEW u \in Universes, NEW e \in Epochs, NEW n \in Sent(u, e), NEW moved \in Moves,
         CommitState(u, e, n, moved), NEW w \in Worlds
  PROVE  PositionMoves(w)
<1> DEFINE x == LeaseWorld
<1>1. TypeOK /\ SaveAnswered(u, e, n) /\ profile[u].epoch = e /\ LeaseNames(u, e)
  BY DEF Fence, CommitState, CommitAccepted
<1>2. n \in Nat
  BY <1>1, AnswerEffect
<1>3. Granted(u, e) /\ x = WorldOfConn(ConnOf(u, e)) /\ UniverseOf[x] = u
  BY <1>1 DEF Places, LeaseInPlace, GrantsInPlace, LeaseNames, LeaseWorld, WorldOfConn
<1>4. \/ position' = position
      \/ position' = [position EXCEPT ![x] = [seq |-> n, value |-> [epoch |-> e, seq |-> n]]] /\ n > position[x].seq
  BY DEF CommitState
<1> HIDE DEF x
<1>5. CASE w = x /\ position' # position
  <2>1. position'[w] = [seq |-> n, value |-> [epoch |-> e, seq |-> n]] /\ position[w].seq < n
    BY <1>1, <1>2, <1>4, <1>5, BoundAssumption DEF TypeOK, Position
  <2>2. WrittenBy(w, e, n)
    BY <1>1, <1>3, <1>5, <2>1 DEF WrittenBy
  <2> QED
    BY <1>2, <2>2 DEF PositionMoves
<1>6. CASE ~(w = x /\ position' # position)
  BY <1>1, <1>4, <1>6 DEF PositionMoves, TypeOK
<1> QED
  BY <1>5, <1>6

LEMMA WriteMoves ==
  ASSUME Fence, Places, NEW k \in checkpoints, WritePosition(k), NEW w \in Worlds
  PROVE  PositionMoves(w)
<1> DEFINE u == k.universe
           e == k.epoch
           n == k.seq
           x == WorldOfConn(ConnOf(u, e))
<1>1. TypeOK /\ u \in Universes /\ e \in Epochs /\ n \in Nat
  BY BoundAssumption DEF Fence, TypeOK, Checkpoint
<1>2. Granted(u, e) /\ UniverseOf[x] = u
  BY <1>1 DEF Places, CheckpointsInPlace, GrantsInPlace
<1>3. \/ position' = position
      \/ /\ position' = [position EXCEPT ![x] = [seq |-> n, value |-> [epoch |-> e, seq |-> n]]]
         /\ profile[u].epoch = e /\ position[x].seq < n
  BY DEF WritePosition, PositionAccepted, WorldOfConn, ConnOf
<1>4. x = WorldOfConn(ConnOf(u, e))
  OBVIOUS
<1> HIDE DEF u, e, n, x
<1>5. CASE w = x /\ position' # position
  <2>1. position'[w] = [seq |-> n, value |-> [epoch |-> e, seq |-> n]]
    BY <1>1, <1>3, <1>5 DEF TypeOK
  <2>2. WrittenBy(w, e, n)
    BY <1>2, <1>3, <1>4, <1>5, <2>1 DEF WrittenBy
  <2> QED
    BY <1>1, <2>2 DEF PositionMoves
<1>6. CASE ~(w = x /\ position' # position)
  BY <1>1, <1>3, <1>6 DEF PositionMoves, TypeOK
<1> QED
  BY <1>5, <1>6

LEMMA PositionEffect ==
  ASSUME Fence, Places, [Next]_vars, NEW w \in Worlds
  PROVE  PositionMoves(w)
<1>1. CASE position' = position
  BY <1>1 DEF PositionMoves
<1>2. CASE TicketStep
  BY <1>1, <1>2
  DEF TicketStep, RequestLaunch, SignOut, ExpireTicket, IssueResume, IssueTravel, sessionVars
<1>3. CASE LaunchStep
  BY <1>1, <1>3, TakeMoves DEF LaunchStep, BeginLaunch, ConsumeLaunch, AdmitLaunch, CallAcquire,
                               AcquireSession, KeepLease, AnswerSaving
<1>4. CASE SessionStep
  <2>1. PICK u \in Universes, e \in Epochs :
          \/ Capture(u, e) \/ Leave(u, e) \/ Stop(u, e)
          \/ \E n \in Sent(u, e) :
                \/ CommitDuplicate(u, e, n)
                \/ \E moved \in Moves : CommitState(u, e, n, moved)
                \/ CommitStale(u, e, n)
          \/ \E recovery \in Reports : BeginCheckpoint(u, e, recovery)
          \/ CheckpointEnded(u, e)
          \/ ReleaseSession(u, e)
    BY <1>4 DEF SessionStep
  <2>2. CASE Capture(u, e) \/ Leave(u, e) \/ Stop(u, e) \/ CheckpointEnded(u, e) \/ ReleaseSession(u, e)
    BY <1>1, <2>2 DEF Capture, Leave, Stop, CheckpointEnded, ReleaseSession
  <2>3. CASE \E n \in Sent(u, e) : CommitDuplicate(u, e, n) \/ CommitStale(u, e, n)
    BY <1>1, <2>3 DEF CommitDuplicate, CommitStale
  <2>4. CASE \E n \in Sent(u, e) : \E moved \in Moves : CommitState(u, e, n, moved)
    BY <2>4, CommitMoves
  <2>5. CASE \E recovery \in Reports : BeginCheckpoint(u, e, recovery)
    BY <1>1, <2>5 DEF BeginCheckpoint
  <2> QED
    BY <2>1, <2>2, <2>3, <2>4, <2>5
<1>5. CASE LeaseStep
  BY <1>1, <1>5, WriteMoves DEF LeaseStep, LeaseExpires, RenewLease
<1>6. CASE OperatorStep
  BY <1>1, <1>6 DEF OperatorStep, SendOperation, RefuseOperation, EndSession, ChangeStacks, RestrictAccount
<1>7. CASE UNCHANGED vars
  BY <1>1, <1>7 DEF vars, sessionVars
<1> QED
  BY <1>2, <1>3, <1>4, <1>5, <1>6, <1>7 DEF Next

LEMMA PositionTypes ==
  ASSUME TypeOK, NEW w \in Worlds
  PROVE  /\ UniverseOf[w] \in Universes
         /\ position[w].seq \in Nat /\ position[w].value \in Stamp
         /\ profile[UniverseOf[w]].epoch \in Nat
  BY UniverseAssumption, BoundAssumption DEF TypeOK, Position, Profile

-----------------------------------------------------------------------------
(***************************************************************************)
(* Every step keeps the places.                                            *)
(***************************************************************************)
LEMMA PlacesStep ==
  ASSUME Fence, Places, [Next]_vars
  PROVE  Places'
<1>1. TypeOK /\ TypeOK' /\ Fence'
  BY TypeOKStep, FenceStep DEF Fence
<1>2. TicketsInPlace'
  BY <1>1, TicketEffect, NoConnAssumption DEF Places, TicketsInPlace, TicketsMove, WorldOfConn
<1>3. GrantsInPlace'
  <2> SUFFICES ASSUME NEW u \in Universes, NEW e \in Epochs, Granted(u, e)'
               PROVE  ConnOf(u, e)' \in Conns /\ UniverseOf[WorldOfConn(ConnOf(u, e)')] = u
    BY DEF GrantsInPlace, WorldOfConn
  <2>1. CASE KeepsConn(u, e)
    BY <2>1 DEF Places, GrantsInPlace, KeepsConn
  <2>2. ASSUME NEW c \in Conns, TakeLease(c), ~KeepsConn(u, e)
        PROVE  ConnOf(u, e)' \in Conns /\ UniverseOf[WorldOfConn(ConnOf(u, e)')] = u
    BY <2>2, TakeLeaseEffect DEF WorldOfConn, UniverseOfConn
  <2> QED
    BY <1>1, <2>1, <2>2, ConnKinds DEF ConnsKept
<1>4. CheckpointsInPlace'
  <2> SUFFICES ASSUME NEW k \in checkpoints' PROVE Granted(k.universe, k.epoch)'
    BY DEF CheckpointsInPlace
  <2>1. k.universe \in Universes /\ k.epoch \in Epochs
    BY <1>1 DEF TypeOK, Checkpoint
  <2>2. Granted(k.universe, k.epoch)
    BY <1>1, CheckpointEffect DEF CheckpointsMove, Places, CheckpointsInPlace
  <2> QED
    BY <2>1, <2>2, GrantsStay
<1>5. LeaseInPlace'
  <2>1. CASE (lease' = lease \/ SameLease) /\ lease' # NoLease
    <3>1. /\ lease # NoLease /\ lease'.universe = lease.universe /\ lease'.epoch = lease.epoch
          /\ lease'.conn = lease.conn /\ lease'.server = lease.server /\ lease'.portal = lease.portal
      BY <2>1 DEF SameLease
    <3>2. lease.universe \in Universes /\ lease.epoch \in Epochs /\ lease.conn \in Conns
      BY <1>1, <3>1 DEF TypeOK, Lease
    <3>3. /\ Granted(lease.universe, lease.epoch)
          /\ ConnOf(lease.universe, lease.epoch) = lease.conn
          /\ lease.server = ServerOf[lease.conn]
      BY <3>1 DEF Places, LeaseInPlace
    <3>4. /\ session'[lease'.universe][lease'.epoch].state # "none"
          /\ session'[lease'.universe][lease'.epoch].conn = lease'.conn
      <4> DEFINE u == lease.universe
                 e == lease.epoch
      <4>1. u \in Universes /\ e \in Epochs /\ Granted(u, e) /\ ConnOf(u, e) = lease.conn
        BY <3>2, <3>3
      <4> HIDE DEF u, e
      <4>2. session'[u][e].state # "none" /\ session'[u][e].conn = lease.conn
        <5> SUFFICES ASSUME NEW v \in Universes, NEW f \in Epochs, Granted(v, f)
                     PROVE  session'[v][f].state # "none" /\ session'[v][f].conn = session[v][f].conn
          BY <4>1 DEF ConnOf
        <5> QED
          BY GrantsStay DEF Granted, ConnOf
      <4> QED
        BY <3>1, <4>2 DEF u, e
    <3>5. PICK t \in tickets : t.conn = lease.conn /\ t.world = LeaseWorld /\ t.portal = lease.portal
      BY <3>1 DEF Places, LeaseInPlace
    <3>6. t \in tickets'
      BY <1>1, <3>2, <3>5, TicketEffect, NoConnAssumption DEF TicketsMove
    <3> QED
      BY <3>1, <3>3, <3>4, <3>5, <3>6 DEF LeaseInPlace, LeaseWorld, Granted, ConnOf
  <2>2. ASSUME NEW c \in Conns, TakeLease(c) PROVE LeaseInPlace'
    <3> DEFINE u == UniverseOfConn(c)
               e == profile[u].epoch + 1
    <3>1. /\ u \in Universes /\ e \in Epochs /\ lease'.universe = u /\ lease'.epoch = e
          /\ lease'.conn = c /\ lease'.server = ServerOf[c] /\ tickets' = tickets
          /\ session'[u][e].state # "none" /\ session'[u][e].conn = c
      BY <2>2, TakeLeaseEffect DEF Granted, ConnOf
    <3>2. PICK t \in TicketOfConnection(c) : lease'.portal = t.portal
      BY <2>2, TakeLeaseEffect
    <3>3. t \in tickets /\ t.conn = c /\ t.world = WorldOfConn(c)
      BY DEF TicketOfConnection, Places, TicketsInPlace
    <3> HIDE DEF u, e
    <3> QED
      BY <3>1, <3>2, <3>3 DEF LeaseInPlace, LeaseWorld, Granted, ConnOf, WorldOfConn
  <2> QED
    BY <1>1, <2>1, <2>2, LeaseKinds DEF LeaseInPlace
<1>6. PositionsInPlace'
  <2> SUFFICES ASSUME NEW w \in Worlds, position'[w].value # NoStamp
               PROVE  LET v == position'[w].value
                          s == session'[UniverseOf[w]][v.epoch]
                      IN  v.epoch \in Epochs /\ s.state # "none" /\ WorldOfConn(s.conn) = w
    BY DEF PositionsInPlace, WorldOfConn, Granted, ConnOf
  <2> DEFINE v == position'[w].value
  <2>1. UniverseOf[w] \in Universes
    BY <1>1, PositionTypes
  <2>2. /\ v.epoch \in Epochs /\ Granted(UniverseOf[w], v.epoch)
        /\ WorldOfConn(ConnOf(UniverseOf[w], v.epoch)) = w
    <3>1. CASE position'[w].value = position[w].value
      BY <3>1 DEF Places, PositionsInPlace
    <3>2. ASSUME NEW e \in Epochs, NEW n \in Nat, WrittenBy(w, e, n)
          PROVE  /\ v.epoch \in Epochs /\ Granted(UniverseOf[w], v.epoch)
                 /\ WorldOfConn(ConnOf(UniverseOf[w], v.epoch)) = w
      <4>1. v.epoch = e
        BY <3>2 DEF WrittenBy
      <4> QED
        BY <3>2, <4>1 DEF WrittenBy
    <3> QED
      BY <3>1, <3>2, PositionEffect DEF PositionMoves, Reset
  <2> HIDE DEF v
  <2>3. \A f \in Epochs : Granted(UniverseOf[w], f) =>
          LET s == session'[UniverseOf[w]][f]
          IN  s.state # "none" /\ s.conn = ConnOf(UniverseOf[w], f)
    BY <2>1, GrantsStay DEF Granted, ConnOf
  <2>4. LET s == session'[UniverseOf[w]][v.epoch]
        IN  v.epoch \in Epochs /\ s.state # "none" /\ WorldOfConn(s.conn) = w
    BY <2>2, <2>3
  <2> QED
    BY <2>4 DEF v
<1>7. PositionsBehind'
  <2> SUFFICES ASSUME NEW w \in Worlds
               PROVE  NotAfter(position'[w].value,
                               [epoch |-> profile'[UniverseOf[w]].epoch, seq |-> position'[w].seq])
    BY DEF PositionsBehind
  <2> DEFINE u == UniverseOf[w]
  <2>1. u \in Universes /\ position[w].seq \in Nat /\ position[w].value \in Stamp /\ profile[u].epoch \in Nat
    BY <1>1, PositionTypes
  <2>2. profile'[u].epoch \in Nat /\ position'[w].seq \in Nat
    BY <1>1, <2>1, BoundAssumption DEF TypeOK, Profile, Position
  <2>3. profile[u].epoch <= profile'[u].epoch
    BY <2>1, StepEffect DEF Grows
  <2>4. NotAfter(position[w].value, [epoch |-> profile[u].epoch, seq |-> position[w].seq])
    BY DEF Places, PositionsBehind
  <2> HIDE DEF u
  <2>5. CASE position'[w] = position[w]
    BY <2>1, <2>2, <2>3, <2>4, <2>5 DEF NotAfter, Stamp, u
  <2>6. CASE Reset(w)
    <3>1. position'[w].value = position[w].value /\ profile'[u].epoch = profile[u].epoch + 1
      BY <2>6 DEF Reset, u
    <3>2. NotAfter(position[w].value, [epoch |-> profile[u].epoch + 1, seq |-> position'[w].seq])
      BY <2>1, <2>2, <2>4 DEF NotAfter, Stamp
    <3> QED
      BY <3>1, <3>2 DEF u
  <2>7. ASSUME NEW e \in Epochs, NEW n \in Nat, WrittenBy(w, e, n)
        PROVE  NotAfter(position'[w].value, [epoch |-> profile'[u].epoch, seq |-> position'[w].seq])
    <3>1. position'[w].value = [epoch |-> e, seq |-> n] /\ position'[w].seq = n /\ e <= profile'[u].epoch
      BY <2>3, <2>7 DEF WrittenBy, u
    <3>2. NotAfter([epoch |-> e, seq |-> n], [epoch |-> profile'[u].epoch, seq |-> n])
      BY <2>2, <3>1, BoundAssumption DEF NotAfter
    <3> QED
      BY <3>1, <3>2
  <2> QED
    BY <2>5, <2>6, <2>7, PositionEffect DEF PositionMoves, u
<1> QED
  BY <1>2, <1>3, <1>4, <1>5, <1>6, <1>7 DEF Places

LEMMA PlacesHold == Spec => [](Fence /\ Places)
<1>1. Fence /\ Places /\ [Next]_vars => Places'
  BY PlacesStep
<1> QED
  BY <1>1, InitPlaces, FenceHolds, PTL DEF Spec

(* The lease names a session its profile has reached; its connection, world *)
(* and portal session are the ones of one consumed ticket.                 *)
THEOREM LeaseIsOfAGrant == Spec => []LeaseOfAGrant
<1>1. ASSUME Fence, Places, lease # NoLease
      PROVE  /\ lease.epoch <= profile[lease.universe].epoch
             /\ session[lease.universe][lease.epoch].conn = lease.conn
             /\ \E t \in tickets : /\ t.conn = lease.conn
                                   /\ t.world = LeaseWorld /\ t.portal = lease.portal
  <2>1. lease.universe \in Universes /\ lease.epoch \in Epochs
    BY <1>1 DEF Fence, TypeOK, Lease
  <2> QED
    BY <1>1, <2>1 DEF Places, LeaseInPlace, Fence, GrantedInOrder, ConnOf
<1>2. Fence /\ Places => LeaseOfAGrant
  BY <1>1 DEF LeaseOfAGrant
<1> QED
  BY <1>2, PlacesHold, PTL

(* The position of a world was written by a session that played it.        *)
THEOREM PositionIsOfItsWorld == Spec => []PositionOfItsWorld
<1>1. Fence /\ Places => PositionOfItsWorld
  BY DEF Places, PositionsInPlace, PositionOfItsWorld, ConnOf, WorldOfConn
<1> QED
  BY <1>1, PlacesHold, PTL

LEMMA PositionAdvances ==
  ASSUME Fence, Places, [Next]_vars, NEW w \in Worlds
  PROVE  NotAfter(position[w].value, position'[w].value)
<1> DEFINE u == UniverseOf[w]
<1>1. TypeOK
  BY DEF Fence
<1>2. position[w].seq \in Nat /\ position[w].value \in Stamp /\ profile[u].epoch \in Nat
  BY <1>1, PositionTypes
<1>3. NotAfter(position[w].value, [epoch |-> profile[u].epoch, seq |-> position[w].seq])
  BY DEF Places, PositionsBehind
<1> HIDE DEF u
<1>4. CASE position'[w] = position[w] \/ Reset(w)
  BY <1>2, <1>4, NotAfterReflexive DEF Reset
<1>5. ASSUME NEW e \in Epochs, NEW n \in Nat, WrittenBy(w, e, n)
      PROVE  NotAfter(position[w].value, position'[w].value)
  <2>1. position'[w].value = [epoch |-> profile[u].epoch, seq |-> n] /\ position[w].seq < n
    BY <1>5 DEF WrittenBy, u
  <2>2. NotAfter(position[w].value, [epoch |-> profile[u].epoch, seq |-> n])
    BY <1>2, <1>3, <2>1 DEF NotAfter, Stamp
  <2> QED
    BY <2>1, <2>2
<1> QED
  BY <1>4, <1>5, PositionEffect DEF PositionMoves

(* No late checkpoint and no session that was taken over puts an older     *)
(* position back.                                                          *)
THEOREM PositionsOnlyAdvance == Spec => PositionsAdvance
<1>1. Fence /\ Places /\ [Next]_vars => [\A w \in Worlds : NotAfter(position[w].value, position'[w].value)]_vars
  BY PositionAdvances
<1> QED
  BY <1>1, PlacesHold, PTL DEF Spec, PositionsAdvance

-----------------------------------------------------------------------------
(***************************************************************************)
(* What a restriction ends.  A lease marked ended is never renewed, and    *)
(* once an account is restricted none of its portal sessions is left.      *)
(***************************************************************************)
EndedStaysEnded == lease # NoLease /\ lease.ended => ~lease.live

SignedOut ==
    \A o \in Operations :
        operation[o].kind = "restrict" /\ operation[o].status = "done" =>
            \A p \in Portals : ~portalLive[p]

Restricted == EndedStaysEnded /\ SignedOut

LEMMA InitRestricted == Init => Restricted
  BY DEF Init, Restricted, EndedStaysEnded, SignedOut

(* A lease marked ended is not live after any of its updates.              *)
LEMMA LeaseMarks ==
  ASSUME NEW l \in Lease
  PROVE  /\ ~[l EXCEPT !.live = FALSE].live
         /\ ~[l EXCEPT !.ended = TRUE, !.live = FALSE].live
         /\ [l EXCEPT !.ended = TRUE, !.live = FALSE].ended
         /\ \A a, b, d : [l EXCEPT !.live = a, !.closing = b, !.recovery = d].ended = l.ended
  BY DEF Lease

LEMMA EndedStaysEndedStep ==
  ASSUME TypeOK, EndedStaysEnded, [Next]_vars
  PROVE  EndedStaysEnded'
<1>1. CASE lease' = lease \/ lease' = NoLease
  BY <1>1 DEF EndedStaysEnded
<1>2. CASE TicketStep
  BY <1>1, <1>2
  DEF TicketStep, RequestLaunch, SignOut, ExpireTicket, IssueResume, IssueTravel, sessionVars
<1>3. CASE LaunchStep
  <2>1. ASSUME NEW c \in Conns, TakeLease(c) PROVE EndedStaysEnded'
    <3>1. ~lease'.ended
      BY <2>1 DEF TakeLease
    <3> QED
      BY <3>1 DEF EndedStaysEnded
  <2> QED
    BY <1>1, <1>3, <2>1 DEF LaunchStep, BeginLaunch, ConsumeLaunch, AdmitLaunch, CallAcquire,
                            AcquireSession, KeepLease, AnswerSaving
<1>4. CASE SessionStep
  <2>1. PICK u \in Universes, e \in Epochs :
          \/ Capture(u, e) \/ Leave(u, e) \/ Stop(u, e)
          \/ \E n \in Sent(u, e) :
                \/ CommitDuplicate(u, e, n)
                \/ \E moved \in Moves : CommitState(u, e, n, moved)
                \/ CommitStale(u, e, n)
          \/ \E recovery \in Reports : BeginCheckpoint(u, e, recovery)
          \/ CheckpointEnded(u, e)
          \/ ReleaseSession(u, e)
    BY <1>4 DEF SessionStep
  <2>2. CASE Capture(u, e) \/ Leave(u, e) \/ Stop(u, e) \/ CheckpointEnded(u, e) \/ ReleaseSession(u, e)
    BY <1>1, <2>2 DEF Capture, Leave, Stop, CheckpointEnded, ReleaseSession
  <2>3. CASE \E n \in Sent(u, e) : CommitDuplicate(u, e, n) \/ CommitStale(u, e, n)
    BY <1>1, <2>3 DEF CommitDuplicate, CommitStale
  <2>4. CASE \E n \in Sent(u, e) : \E moved \in Moves : CommitState(u, e, n, moved)
    BY <1>1, <2>4 DEF CommitState
  <2>5. CASE \E recovery \in Reports : BeginCheckpoint(u, e, recovery)
    BY <1>1, <2>5 DEF BeginCheckpoint
  <2> QED
    BY <2>1, <2>2, <2>3, <2>4, <2>5
<1>5. CASE LeaseStep
  <2>1. CASE LeaseExpires
    BY <2>1, LeaseMarks DEF LeaseExpires, EndedStaysEnded, TypeOK
  <2>2. ASSUME NEW k \in checkpoints, RenewLease(k) PROVE EndedStaysEnded'
    <3>1. CASE Renewable(k)
      <4>1. lease \in Lease /\ ~lease.ended /\ lease' = Renewed(k)
        BY <2>2, <3>1 DEF RenewLease, Renewable, LeaseNames, TypeOK
      <4>2. ~Renewed(k).ended
        BY <4>1, LeaseMarks DEF Renewed
      <4> QED
        BY <4>1, <4>2 DEF EndedStaysEnded
    <3> QED
      BY <1>1, <2>2, <3>1 DEF RenewLease
  <2> QED
    BY <1>1, <1>5, <2>1, <2>2 DEF LeaseStep, WritePosition
<1>6. CASE OperatorStep
  <2>1. ASSUME NEW u, SessionLive(u), EndLease(u) PROVE EndedStaysEnded'
    BY <2>1, LeaseMarks DEF SessionLive, LeaseNames, EndLease, EndedStaysEnded, TypeOK
  <2> QED
    BY <1>1, <1>6, <2>1 DEF OperatorStep, SendOperation, RefuseOperation, EndSession, ChangeStacks,
                            RestrictAccount
<1>7. CASE UNCHANGED vars
  BY <1>1, <1>7 DEF vars, sessionVars
<1> QED
  BY <1>2, <1>3, <1>4, <1>5, <1>6, <1>7 DEF Next

(* Nothing gives an account a portal session back.                         *)
LEMMA PortalsEnd ==
  ASSUME TypeOK, [Next]_vars, NEW p \in Portals, ~portalLive[p]
  PROVE  ~portalLive'[p]
<1>1. CASE portalLive' = portalLive
  BY <1>1
<1>2. CASE TicketStep
  <2>1. ASSUME NEW q \in Portals, SignOut(q) PROVE ~portalLive'[p]
    BY <2>1 DEF SignOut, TypeOK
  <2> QED
    BY <1>1, <1>2, <2>1
    DEF TicketStep, RequestLaunch, ExpireTicket, IssueResume, IssueTravel, sessionVars
<1>3. CASE LaunchStep
  BY <1>1, <1>3 DEF LaunchStep, BeginLaunch, ConsumeLaunch, AdmitLaunch, CallAcquire, AcquireSession,
                    KeepLease, AnswerSaving, TakeLease
<1>4. CASE SessionStep
  <2>1. PICK u \in Universes, e \in Epochs :
          \/ Capture(u, e) \/ Leave(u, e) \/ Stop(u, e)
          \/ \E n \in Sent(u, e) :
                \/ CommitDuplicate(u, e, n)
                \/ \E moved \in Moves : CommitState(u, e, n, moved)
                \/ CommitStale(u, e, n)
          \/ \E recovery \in Reports : BeginCheckpoint(u, e, recovery)
          \/ CheckpointEnded(u, e)
          \/ ReleaseSession(u, e)
    BY <1>4 DEF SessionStep
  <2>2. CASE Capture(u, e) \/ Leave(u, e) \/ Stop(u, e) \/ CheckpointEnded(u, e) \/ ReleaseSession(u, e)
    BY <1>1, <2>2 DEF Capture, Leave, Stop, CheckpointEnded, ReleaseSession
  <2>3. CASE \E n \in Sent(u, e) : CommitDuplicate(u, e, n) \/ CommitStale(u, e, n)
    BY <1>1, <2>3 DEF CommitDuplicate, CommitStale
  <2>4. CASE \E n \in Sent(u, e) : \E moved \in Moves : CommitState(u, e, n, moved)
    BY <1>1, <2>4 DEF CommitState
  <2>5. CASE \E recovery \in Reports : BeginCheckpoint(u, e, recovery)
    BY <1>1, <2>5 DEF BeginCheckpoint
  <2> QED
    BY <2>1, <2>2, <2>3, <2>4, <2>5
<1>5. CASE LeaseStep
  BY <1>1, <1>5 DEF LeaseStep, LeaseExpires, RenewLease, WritePosition
<1>6. CASE OperatorStep
  <2>1. ASSUME NEW o \in Operations, RestrictAccount(o) PROVE ~portalLive'[p]
    BY <2>1 DEF RestrictAccount
  <2> QED
    BY <1>1, <1>6, <2>1 DEF OperatorStep, SendOperation, RefuseOperation, EndSession, ChangeStacks
<1>7. CASE UNCHANGED vars
  BY <1>1, <1>7 DEF vars, sessionVars
<1> QED
  BY <1>2, <1>3, <1>4, <1>5, <1>6, <1>7 DEF Next

(* A request of this kind becomes done only by restrictionPlan.            *)
LEMMA RestrictionDone ==
  ASSUME TypeOK, [Next]_vars, NEW o \in Operations, operation[o].kind = "restrict",
         operation'[o].status = "done", operation[o].status # "done"
  PROVE  RestrictAccount(o)
  BY DoneEffect DEF EndSession, ChangeStacks

LEMMA SignedOutStep ==
  ASSUME TypeOK, SignedOut, [Next]_vars
  PROVE  SignedOut'
<1> SUFFICES ASSUME NEW o \in Operations, NEW p \in Portals,
                    operation'[o].kind = "restrict", operation'[o].status = "done"
             PROVE  ~portalLive'[p]
  BY DEF SignedOut
<1>1. operation[o].kind = "restrict"
  BY DoneEffect
<1>2. CASE operation[o].status = "done"
  BY <1>1, <1>2, PortalsEnd DEF SignedOut
<1>3. CASE RestrictAccount(o)
  BY <1>3 DEF RestrictAccount
<1> QED
  BY <1>1, <1>2, <1>3, RestrictionDone

LEMMA RestrictedHolds == Spec => [](Fence /\ Places /\ Restricted)
<1>1. Fence /\ Restricted /\ [Next]_vars => Restricted'
  BY EndedStaysEndedStep, SignedOutStep DEF Restricted, Fence
<1> QED
  BY <1>1, InitRestricted, PlacesHold, PTL DEF Spec

LEMMA RestrictionStep ==
  ASSUME Fence, Places, Restricted, [Next]_vars, NEW o \in Operations,
         operation[o].kind = "restrict", operation'[o].status = "done"
  PROVE  /\ \A v \in Universes, e \in Epochs : ~LiveLease(v, e)'
         /\ ( /\ operation[o].status # "done"
              /\ lease # NoLease /\ lease.live /\ lease.universe = TargetOf[o] ) =>
                /\ profile'[TargetOf[o]].epoch > lease.epoch
                /\ lease.epoch = profile[TargetOf[o]].epoch => lease'.ended
<1>1. TypeOK /\ TypeOK'
  BY TypeOKStep DEF Fence
<1>2. operation'[o].kind = "restrict"
  BY <1>1, DoneEffect
<1>3. \A p \in Portals : ~portalLive'[p]
  BY <1>1, <1>2, SignedOutStep DEF Restricted, SignedOut
<1>4. ASSUME NEW v \in Universes, NEW e \in Epochs PROVE ~LiveLease(v, e)'
  <2>1. lease' # NoLease => lease'.portal \in Portals
    BY <1>1 DEF TypeOK, Lease
  <2> QED
    BY <1>3, <2>1 DEF LiveLease, LeaseNames
<1>5. ASSUME operation[o].status # "done", lease # NoLease, lease.live, lease.universe = TargetOf[o]
      PROVE  /\ profile'[TargetOf[o]].epoch > lease.epoch
             /\ lease.epoch = profile[TargetOf[o]].epoch => lease'.ended
  <2> DEFINE u == TargetOf[o]
  <2>1. u \in Universes /\ lease \in Lease /\ profile[u].epoch \in Nat /\ lease.epoch \in Nat
    BY <1>1, <1>5, OperationAssumption, BoundAssumption DEF TypeOK, Profile, Lease
  <2>2. lease.epoch <= profile[u].epoch
    BY <1>5, <2>1 DEF Places, LeaseInPlace, Fence, GrantedInOrder, Lease
  <2>3. RestrictAccount(o) /\ ~lease.ended
    BY <1>1, <1>5, RestrictionDone DEF Restricted, EndedStaysEnded
  <2>4. profile[u].epoch <= profile'[u].epoch /\ profile'[u].epoch \in Nat
    BY <1>1, <2>1, StepEffect, BoundAssumption DEF Grows, TypeOK, Profile
  <2> HIDE DEF u
  <2>5. CASE lease.epoch = profile[u].epoch
    <3>1. EndLease(u)
      BY <1>5, <2>3, <2>5 DEF RestrictAccount, SessionLive, LeaseNames, u
    <3>2. lease'.ended /\ profile'[u].epoch = profile[u].epoch + 1
      BY <1>1, <2>1, <3>1, LeaseMarks DEF EndLease, RaiseEpoch, TypeOK, Profile
    <3> QED
      BY <2>1, <2>5, <3>2 DEF u
  <2>6. CASE lease.epoch # profile[u].epoch
    <3>1. profile'[u].epoch > lease.epoch
      BY <2>1, <2>2, <2>4, <2>6
    <3> QED
      BY <2>6, <3>1 DEF u
  <2> QED
    BY <2>5, <2>6
<1> QED
  BY <1>4, <1>5

(* A restriction ends what the account plays: no checkpoint of it finds a  *)
(* live session again, and the session of the named profile is fenced and  *)
(* marked ended.                                                           *)
THEOREM RestrictionEnds == Spec => RestrictionEndsSession
<1> DEFINE Step == \A o \in Operations :
              operation[o].kind = "restrict" /\ operation'[o].status = "done" =>
                  LET u == TargetOf[o]
                  IN  /\ \A v \in Universes, e \in Epochs : ~LiveLease(v, e)'
                      /\ ( /\ operation[o].status # "done"
                           /\ lease # NoLease /\ lease.live /\ lease.universe = u ) =>
                             /\ profile'[u].epoch > lease.epoch
                             /\ lease.epoch = profile[u].epoch => lease'.ended
<1>1. Fence /\ Places /\ Restricted /\ [Next]_vars => Step
  BY RestrictionStep
<1>2. Fence /\ Places /\ Restricted /\ [Next]_vars => [Step]_vars
  BY <1>1
<1>3. Spec => [][Step]_vars
  BY <1>2, RestrictedHolds, PTL DEF Spec
<1> QED
  BY <1>3 DEF RestrictionEndsSession

-----------------------------------------------------------------------------
(***************************************************************************)
(* The wait for a session that closes.  A renewal writes the health its    *)
(* checkpoint read, so the engine knows that a session closes only while   *)
(* no older checkpoint of it is still to be written.                       *)
(***************************************************************************)
OneByOne ==
    \A j, k \in checkpoints : j.universe = k.universe /\ j.epoch = k.epoch => j = k

AtEnd(u, e) == session[u][e].state \in {"closing", "done"}
Told(u, e) == session[u][e].reported

Announced ==
    /\ \A u \in Universes, e \in Epochs : Told(u, e) => AtEnd(u, e)
    /\ \A k \in checkpoints :
          /\ k.closing => AtEnd(k.universe, k.epoch)
          /\ k.step = "renew" /\ Told(k.universe, k.epoch) => k.closing
    /\ lease # NoLease /\ Told(lease.universe, lease.epoch) => lease.closing

LEMMA InitAnnounced == Init => Announced
  BY DEF Init, Announced, Told, NoSession

(* A step that tells the engine nothing of a session that closes.          *)
SessionsQuiet ==
    \A u \in Universes, e \in Epochs :
        (Told(u, e)' <=> Told(u, e)) /\ (AtEnd(u, e) => AtEnd(u, e)')
LeaseQuiet ==
    lease' # NoLease =>
        /\ lease # NoLease
        /\ lease'.universe = lease.universe /\ lease'.epoch = lease.epoch
        /\ lease'.closing = lease.closing
Quiet == SessionsQuiet /\ LeaseQuiet /\ checkpoints' \subseteq checkpoints

LEMMA SameIsQuiet ==
  /\ session' = session => SessionsQuiet
  /\ lease' = lease \/ lease' = NoLease => LeaseQuiet
  BY DEF SessionsQuiet, LeaseQuiet, Told, AtEnd

LEMMA UpdateIsQuiet ==
  ASSUME TypeOK, NEW u \in Universes, NEW e \in Epochs, NEW s, SetSession(u, e, s),
         s.reported = session[u][e].reported,
         AtEnd(u, e) => s.state \in {"closing", "done"}
  PROVE  SessionsQuiet
<1> SUFFICES ASSUME NEW v \in Universes, NEW f \in Epochs
             PROVE  (Told(v, f)' <=> Told(v, f)) /\ (AtEnd(v, f) => AtEnd(v, f)')
  BY DEF SessionsQuiet
<1>1. session'[v][f] = IF v = u /\ f = e THEN s ELSE session[v][f]
  BY SetSessionEffect
<1> QED
  BY <1>1 DEF Told, AtEnd

LEMMA UpdatesKeepReport ==
  ASSUME NEW s \in Session
  PROVE  /\ \A state \in {"closing", "done"} :
               [s EXCEPT !.state = state].state = state /\ [s EXCEPT !.state = state].reported = s.reported
         /\ \A n : LET r == [s EXCEPT !.captured = n] IN r.state = s.state /\ r.reported = s.reported
         /\ \A n : Saved(s, n).state = s.state /\ Saved(s, n).reported = s.reported
  BY DEF Session, Saved

LEMMA MarkIsQuiet ==
  ASSUME NEW l \in Lease,
         lease = l /\ l # NoLease,
         lease' = [l EXCEPT !.live = FALSE] \/ lease' = [l EXCEPT !.ended = TRUE, !.live = FALSE]
  PROVE  LeaseQuiet
  BY DEF Lease, LeaseQuiet

LEMMA QuietKinds ==
  ASSUME TypeOK, [Next]_vars
  PROVE  \/ Quiet
         \/ \E c \in Conns : TakeLease(c)
         \/ \E u \in Universes, e \in Epochs, recovery \in Reports : BeginCheckpoint(u, e, recovery)
         \/ \E k \in checkpoints : RenewLease(k)
<1>1. CASE TicketStep
  BY <1>1, SameIsQuiet
  DEF TicketStep, RequestLaunch, SignOut, ExpireTicket, IssueResume, IssueTravel, sessionVars, Quiet
<1>2. CASE LaunchStep
  BY <1>2, SameIsQuiet
  DEF LaunchStep, BeginLaunch, ConsumeLaunch, AdmitLaunch, CallAcquire, AcquireSession,
      KeepLease, AnswerSaving, Quiet
<1>4. CASE SessionStep
  <2>1. PICK u \in Universes, e \in Epochs :
          \/ Capture(u, e) \/ Leave(u, e) \/ Stop(u, e)
          \/ \E n \in Sent(u, e) :
                \/ CommitDuplicate(u, e, n)
                \/ \E moved \in Moves : CommitState(u, e, n, moved)
                \/ CommitStale(u, e, n)
          \/ \E recovery \in Reports : BeginCheckpoint(u, e, recovery)
          \/ CheckpointEnded(u, e)
          \/ ReleaseSession(u, e)
    BY <1>4 DEF SessionStep
  <2>s. session[u][e] \in Session
    BY DEF TypeOK
  <2>2. CASE Capture(u, e)
    <3>1. SessionsQuiet
      BY <2>2, <2>s, UpdatesKeepReport, UpdateIsQuiet DEF Capture, AtEnd
    <3> QED
      BY <2>2, <3>1, SameIsQuiet DEF Capture, Quiet
  <2>3. ASSUME NEW state \in {"closing", "done"},
               SetSession(u, e, [session[u][e] EXCEPT !.state = state])
        PROVE  SessionsQuiet
    <3> DEFINE r == [session[u][e] EXCEPT !.state = state]
    <3>1. r.state = state /\ r.reported = session[u][e].reported /\ SetSession(u, e, r)
      BY <2>3, <2>s, UpdatesKeepReport
    <3> HIDE DEF r
    <3> QED
      BY <3>1, UpdateIsQuiet
  <2>4. CASE \/ Leave(u, e) \/ Stop(u, e) \/ CheckpointEnded(u, e) \/ ReleaseSession(u, e)
             \/ \E n \in Sent(u, e) : CommitStale(u, e, n)
    <3>1. SessionsQuiet
      BY <2>3, <2>4 DEF Leave, Stop, CheckpointEnded, ReleaseSession, CommitStale
    <3> QED
      BY <2>4, <3>1, SameIsQuiet DEF Leave, Stop, CheckpointEnded, ReleaseSession, CommitStale, Quiet
  <2>5. ASSUME NEW n \in Sent(u, e), SaveAnswered(u, e, n) PROVE SessionsQuiet
    BY <2>5, <2>s, UpdatesKeepReport, UpdateIsQuiet DEF SaveAnswered, AtEnd
  <2>6. CASE \E n \in Sent(u, e) :
               CommitDuplicate(u, e, n) \/ \E moved \in Moves : CommitState(u, e, n, moved)
    BY <2>5, <2>6, SameIsQuiet DEF CommitDuplicate, CommitState, Quiet
  <2> QED
    BY <2>1, <2>2, <2>4, <2>6
<1>5. CASE LeaseStep
  <2>1. CASE LeaseExpires
    <3>1. LeaseQuiet
      BY <2>1, MarkIsQuiet DEF LeaseExpires, TypeOK
    <3> QED
      BY <2>1, <3>1, SameIsQuiet DEF LeaseExpires, Quiet
  <2>2. ASSUME NEW k \in checkpoints, WritePosition(k) PROVE Quiet
    BY <2>2, SameIsQuiet DEF WritePosition, Quiet
  <2> QED
    BY <1>5, <2>1, <2>2 DEF LeaseStep
<1>6. CASE OperatorStep
  <2>1. ASSUME NEW u, SessionLive(u), EndLease(u) PROVE LeaseQuiet
    BY <2>1, MarkIsQuiet DEF SessionLive, LeaseNames, EndLease, TypeOK
  <2>2. ASSUME NEW o \in Operations, EndSession(o) \/ RestrictAccount(o) PROVE Quiet
    BY <2>1, <2>2, SameIsQuiet DEF EndSession, RestrictAccount, Quiet
  <2>3. ASSUME NEW o \in Operations,
               (\E kind \in Kinds : SendOperation(o, kind)) \/ RefuseOperation(o) \/ ChangeStacks(o)
        PROVE  Quiet
    BY <2>3, SameIsQuiet DEF SendOperation, RefuseOperation, ChangeStacks, Quiet
  <2> QED
    BY <1>6, <2>2, <2>3 DEF OperatorStep
<1>7. CASE UNCHANGED vars
  BY <1>7, SameIsQuiet DEF vars, sessionVars, Quiet
<1> QED
  BY <1>1, <1>2, <1>4, <1>5, <1>6, <1>7 DEF Next

LEMMA QuietStep ==
  ASSUME TypeOK, TypeOK', Announced, Quiet
  PROVE  Announced'
<1>1. \A k \in checkpoints' : k \in checkpoints /\ k.universe \in Universes /\ k.epoch \in Epochs
  BY DEF Quiet, TypeOK, Checkpoint
<1>2. lease' # NoLease => lease'.universe \in Universes /\ lease'.epoch \in Epochs
  BY DEF TypeOK, Lease
<1>3. \A u \in Universes, e \in Epochs : Told(u, e)' => AtEnd(u, e)'
  BY DEF Announced, Quiet, SessionsQuiet
<1>4. \A k \in checkpoints' :
        /\ k.closing => AtEnd(k.universe, k.epoch)'
        /\ k.step = "renew" /\ Told(k.universe, k.epoch)' => k.closing
  <2> SUFFICES ASSUME NEW k \in checkpoints'
               PROVE  /\ k.closing => AtEnd(k.universe, k.epoch)'
                      /\ k.step = "renew" /\ Told(k.universe, k.epoch)' => k.closing
    OBVIOUS
  <2>1. /\ Told(k.universe, k.epoch)' <=> Told(k.universe, k.epoch)
        /\ AtEnd(k.universe, k.epoch) => AtEnd(k.universe, k.epoch)'
    BY <1>1 DEF Quiet, SessionsQuiet, Told, AtEnd
  <2> QED
    BY <1>1, <2>1 DEF Announced
<1>5. ASSUME lease' # NoLease, session'[lease'.universe][lease'.epoch].reported
      PROVE  lease'.closing
  <2> DEFINE u == lease.universe
             e == lease.epoch
  <2>1. /\ lease # NoLease /\ lease'.closing = lease.closing
        /\ lease'.universe = u /\ lease'.epoch = e
    BY <1>5 DEF Quiet, LeaseQuiet
  <2>2. u \in Universes /\ e \in Epochs
    BY <1>2, <1>5, <2>1
  <2> HIDE DEF u, e
  <2>3. session'[u][e].reported
    BY <1>5, <2>1
  <2>4. Told(u, e)
    BY <2>2, <2>3 DEF Quiet, SessionsQuiet, Told
  <2> QED
    BY <2>1, <2>4 DEF Announced, u, e
<1> QED
  BY <1>3, <1>4, <1>5 DEF Announced, Told, AtEnd

LEMMA TakeAnnounced ==
  ASSUME Fence, Places, Announced, NEW c \in Conns, TakeLease(c)
  PROVE  Announced'
<1> DEFINE u == UniverseOfConn(c)
           e == profile[u].epoch + 1
           s == [state |-> "playing", conn |-> c, base |-> profile[u].value,
                 captured |-> 0, saved |-> 0, reported |-> FALSE]
<1>1. TypeOK /\ u \in Universes /\ e \in Epochs /\ ~Granted(u, e)
  BY TakeLeaseEffect DEF Fence
<1>2. lease' # NoLease /\ lease'.universe = u /\ lease'.epoch = e
  BY TakeLeaseEffect
<1>3. Taken(profile[u]).epoch = e
  BY <1>1 DEF TypeOK, Taken, Profile
<1>4. SetSession(u, e, s) /\ checkpoints' = checkpoints
  BY <1>3 DEF TakeLease
<1>5. \A v \in Universes, f \in Epochs :
        session'[v][f] = IF v = u /\ f = e THEN s ELSE session[v][f]
  BY <1>1, <1>4, SetSessionEffect
<1>6. ~s.reported
  OBVIOUS
<1> HIDE DEF u, e, s
<1>7. \A v \in Universes, f \in Epochs : session'[v][f].reported =>
          session'[v][f].state \in {"closing", "done"}
  BY <1>5, <1>6 DEF Announced, Told, AtEnd
<1>8. ASSUME NEW k \in checkpoints
      PROVE  /\ k.closing => session'[k.universe][k.epoch].state \in {"closing", "done"}
             /\ k.step = "renew" /\ session'[k.universe][k.epoch].reported => k.closing
  <2>1. k.universe \in Universes /\ k.epoch \in Epochs /\ Granted(k.universe, k.epoch)
    BY <1>1 DEF TypeOK, Checkpoint, Places, CheckpointsInPlace
  <2>2. session'[k.universe][k.epoch] = session[k.universe][k.epoch]
    BY <1>1, <1>5, <2>1
  <2> QED
    BY <2>2 DEF Announced, Told, AtEnd
<1>9. ~session'[lease'.universe][lease'.epoch].reported
  BY <1>1, <1>2, <1>5, <1>6
<1> QED
  BY <1>4, <1>7, <1>8, <1>9 DEF Announced, Told, AtEnd

LEMMA BeginAnnounced ==
  ASSUME Announced, NEW u \in Universes, NEW e \in Epochs, NEW recovery \in Reports,
         BeginCheckpoint(u, e, recovery)
  PROVE  Announced'
<1> DEFINE j == [universe |-> u, epoch |-> e, closing |-> session[u][e].state = "closing",
                 recovery |-> recovery, seq |-> session[u][e].captured, step |-> "renew"]
<1>1. /\ checkpoints' = checkpoints \cup {j} /\ session' = session /\ lease' = lease
      /\ session[u][e].state \in {"playing", "closing"}
  BY DEF BeginCheckpoint, Running
<1>2. j.universe = u /\ j.epoch = e /\ (j.closing <=> session[u][e].state = "closing")
  OBVIOUS
<1> HIDE DEF j
<1>3. /\ j.closing => AtEnd(j.universe, j.epoch)
      /\ Told(j.universe, j.epoch) => j.closing
  BY <1>1, <1>2 DEF Announced, AtEnd
<1> QED
  BY <1>1, <1>3 DEF Announced, Told, AtEnd

LEMMA RenewAnnounced ==
  ASSUME TypeOK, OneByOne, Announced, NEW k \in checkpoints, RenewLease(k)
  PROVE  Announced'
<1> DEFINE u == k.universe
           e == k.epoch
           j == [k EXCEPT !.step = "position"]
           s == [session[u][e] EXCEPT !.reported = session[u][e].reported \/ k.closing]
<1>1. /\ u \in Universes /\ e \in Epochs /\ session[u][e] \in Session
      /\ k \in Checkpoint /\ k.closing \in BOOLEAN
  BY DEF TypeOK, Checkpoint
<1>2. /\ j.universe = u /\ j.epoch = e /\ j.closing = k.closing /\ j.step = "position"
  BY <1>1 DEF Checkpoint
<1>3. k.step = "renew" /\ checkpoints' = (checkpoints \ {k}) \cup {j}
  BY DEF RenewLease
<1>4. s.state = session[u][e].state /\ (s.reported <=> session[u][e].reported \/ k.closing)
  BY <1>1 DEF Session
<1>5. CASE ~Renewable(k)
  <2>1. session' = session /\ lease' = lease
    BY <1>5 DEF RenewLease
  <2> HIDE DEF u, e, j, s
  <2>2. j.closing => AtEnd(j.universe, j.epoch)
    BY <1>2 DEF Announced, u, e
  <2> QED
    BY <1>2, <1>3, <2>1, <2>2 DEF Announced, Told, AtEnd
<1>6. CASE Renewable(k)
  <2>1. SetSession(u, e, s) /\ lease' = Renewed(k)
    BY <1>6 DEF RenewLease
  <2>2. lease \in Lease /\ lease.universe = u /\ lease.epoch = e
    BY <1>6 DEF Renewable, LeaseNames, TypeOK
  <2>3. lease'.universe = u /\ lease'.epoch = e /\ lease'.closing = k.closing
    BY <2>1, <2>2 DEF Renewed, Lease
  <2>4. \A v \in Universes, f \in Epochs :
          session'[v][f] = IF v = u /\ f = e THEN s ELSE session[v][f]
    BY <1>1, <2>1, SetSessionEffect
  <2>5. k.closing => AtEnd(u, e)
    BY DEF Announced
  <2>6. Told(u, e) => k.closing
    BY <1>3 DEF Announced
  <2>7. \A i \in checkpoints : i.universe = u /\ i.epoch = e => i = k
    BY DEF OneByOne
  <2>8. \A i \in checkpoints : i.universe \in Universes /\ i.epoch \in Epochs
    BY DEF TypeOK, Checkpoint
  <2> HIDE DEF u, e, j, s
  <2>9. \A v \in Universes, f \in Epochs : session'[v][f].reported =>
            session'[v][f].state \in {"closing", "done"}
    BY <1>4, <2>4, <2>5 DEF Announced, Told, AtEnd
  <2>10. ASSUME NEW i \in checkpoints'
         PROVE  /\ i.closing => session'[i.universe][i.epoch].state \in {"closing", "done"}
                /\ i.step = "renew" /\ session'[i.universe][i.epoch].reported => i.closing
    <3>1. CASE i = j
      BY <1>1, <1>2, <1>4, <2>4, <2>5, <3>1 DEF AtEnd
    <3>2. CASE i # j
      <4>1. i \in checkpoints /\ i # k
        BY <1>3, <3>2
      <4>2. session'[i.universe][i.epoch] = session[i.universe][i.epoch]
        BY <2>4, <2>7, <2>8, <4>1
      <4> QED
        BY <4>1, <4>2 DEF Announced, Told, AtEnd
    <3> QED
      BY <3>1, <3>2
  <2>11. session'[lease'.universe][lease'.epoch].reported => lease'.closing
    BY <1>1, <1>4, <2>3, <2>4, <2>6 DEF Told
  <2> QED
    BY <2>9, <2>10, <2>11 DEF Announced, Told, AtEnd
<1> QED
  BY <1>5, <1>6

LEMMA AnnouncedStep ==
  ASSUME Fence, Places, OneByOne, Announced, [Next]_vars
  PROVE  Announced'
<1>1. TypeOK /\ TypeOK'
  BY TypeOKStep DEF Fence
<1> QED
  BY <1>1, QuietKinds, QuietStep, TakeAnnounced, BeginAnnounced, RenewAnnounced

(* Of a session that told the engine it closes, the lease says so.         *)
LEMMA ClosingIsAwaitedStep ==
  ASSUME Fence, Announced, [Next]_vars, NEW u \in Universes, NEW e \in Epochs,
         Saving(u, e), lease' # NoLease
  PROVE  lease'.server = lease.server
<1>1. TypeOK
  BY DEF Fence
<1>2. lease # NoLease /\ lease.live /\ ~lease.recovery /\ lease.closing
  BY DEF Saving, LeaseNames, Announced, Told
<1>3. ASSUME NEW c \in Conns, TakeLease(c)
      PROVE  lease'.server = lease.server
  <2>1. lease.server = ServerOf[c]
    BY <1>2, <1>3 DEF TakeLease, MustWait, WritesElsewhere
  <2>2. lease'.server = ServerOf[c]
    BY <1>3, TakeLeaseEffect
  <2> QED
    BY <2>1, <2>2
<1> QED
  BY <1>1, <1>3, LeaseKinds DEF SameLease

(* A session that told the engine it closes keeps its lease from every     *)
(* other server until it saved, as long as no two of its checkpoints are   *)
(* inside the engine at once.                                              *)
THEOREM ClosingWaits == Spec /\ []OneByOne => ClosingIsAwaited
<1> DEFINE Step == \A u \in Universes, e \in Epochs :
              Saving(u, e) /\ lease' # NoLease => lease'.server = lease.server
<1>1. Fence /\ Places /\ OneByOne /\ Announced /\ [Next]_vars => Announced'
  BY AnnouncedStep
<1>2. Fence /\ Announced /\ [Next]_vars => Step
  BY ClosingIsAwaitedStep
<1>3. Fence /\ Announced /\ [Next]_vars => [Step]_vars
  BY <1>2
<1>4. Spec /\ []OneByOne => [][Step]_vars
  BY <1>1, <1>3, InitAnnounced, PlacesHold, PTL DEF Spec
<1> QED
  BY <1>4 DEF ClosingIsAwaited

LEMMA OneByOneStep ==
  ASSUME MaxCheckpoints = 1, TypeOK, OneByOne, [Next]_vars
  PROVE  OneByOne'
<1>1. CASE checkpoints' \subseteq checkpoints
  BY <1>1 DEF OneByOne
<1>2. ASSUME NEW u \in Universes, NEW e \in Epochs, NEW recovery \in Reports,
             BeginCheckpoint(u, e, recovery)
      PROVE  OneByOne'
  <2> DEFINE j == [universe |-> u, epoch |-> e, closing |-> session[u][e].state = "closing",
                   recovery |-> recovery, seq |-> session[u][e].captured, step |-> "renew"]
             S == {k \in checkpoints : k.universe = u /\ k.epoch = e}
  <2>1. checkpoints' = checkpoints \cup {j} /\ Cardinality(S) < 1
    BY <1>2 DEF BeginCheckpoint
  <2>2. j.universe = u /\ j.epoch = e
    OBVIOUS
  <2>3. S = {}
    <3>1. ASSUME NEW k \in S PROVE FALSE
      <4>1. S = {k}
        BY <3>1 DEF OneByOne
      <4> HIDE DEF S
      <4>2. Cardinality({k}) = 1
        BY FS_Singleton
      <4> QED
        BY <2>1, <4>1, <4>2
    <3> QED
      BY <3>1
  <2>4. \A k \in checkpoints : ~(k.universe = u /\ k.epoch = e)
    BY <2>3
  <2> HIDE DEF j, S
  <2> QED
    BY <2>1, <2>2, <2>4 DEF OneByOne
<1>3. ASSUME NEW k \in checkpoints, RenewLease(k) PROVE OneByOne'
  <2> DEFINE j == [k EXCEPT !.step = "position"]
  <2>1. checkpoints' = (checkpoints \ {k}) \cup {j}
    BY <1>3 DEF RenewLease
  <2>2. j.universe = k.universe /\ j.epoch = k.epoch
    BY DEF TypeOK, Checkpoint
  <2> HIDE DEF j
  <2> QED
    BY <2>1, <2>2 DEF OneByOne
<1> QED
  BY <1>1, <1>2, <1>3, QuietKinds DEF Quiet, TakeLease

(* With one checkpoint of a session inside the engine at a time, as the    *)
(* runs have it, the wait needs no further hypothesis.                     *)
THEOREM ClosingWaitsOneByOne == ASSUME MaxCheckpoints = 1 PROVE Spec => ClosingIsAwaited
<1>1. Init => OneByOne
  BY DEF Init, OneByOne
<1>2. Fence /\ OneByOne /\ [Next]_vars => OneByOne'
  BY OneByOneStep DEF Fence
<1> QED
  BY <1>1, <1>2, ClosingWaits, FenceHolds, PTL DEF Spec
===============================================================================
