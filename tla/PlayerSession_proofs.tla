------------------------ MODULE PlayerSession_proofs ------------------------
(***************************************************************************)
(* Proofs about PlayerSession, for every value of its constants.           *)
(***************************************************************************)
EXTENDS PlayerSession, TLAPS

USE DEF Epochs

-----------------------------------------------------------------------------
(***************************************************************************)
(* Type correctness.                                                       *)
(***************************************************************************)
LEMMA InitTypeOK == Init => TypeOK
  BY TicketBoundAssumption, BoundAssumption
  DEF Init, TypeOK, TicketInit, TicketTypeOK, Profile, Position, Launch, Session,
      Stamp, NoStamp, NoSession, Operation

(* A new ticket has its type.                                              *)
LEMMA InsertType ==
  ASSUME TicketTypeOK, NEW p \in Portals, NEW w \in Worlds, NEW e \in Nat,
         NEW kept \in SUBSET tickets, InsertTicket(p, w, e, kept)
  PROVE  TicketTypeOK'
<1> DEFINE t == [id |-> issued + 1, world |-> w, portal |-> p, epoch |-> e,
                 fresh |-> TRUE, conn |-> NoConn]
<1>1. issued + 1 \in 1..MaxTickets /\ issued' = issued + 1 /\ tickets' = kept \cup {t}
  BY TicketBoundAssumption DEF TicketTypeOK, InsertTicket
<1>2. t \in Ticket
  BY <1>1 DEF Ticket
<1> HIDE DEF t
<1>3. issued' \in 0..MaxTickets
  BY <1>1, TicketBoundAssumption
<1>4. kept \cup {t} \subseteq Ticket
  BY <1>2 DEF TicketTypeOK
<1> QED
  BY <1>1, <1>3, <1>4 DEF TicketTypeOK

LEMMA SetSessionType ==
  ASSUME TypeOK, NEW u \in Universes, NEW e \in Epochs, NEW s \in Session,
         SetSession(u, e, s)
  PROVE  session' \in [Universes -> [Epochs -> Session]]
  BY DEF TypeOK, SetSession

LEMMA TicketStepType == ASSUME TypeOK, TicketStep PROVE TypeOK'
<1> USE DEF TypeOK, sessionVars
<1>1. ASSUME NEW p \in Portals, NEW w \in Worlds, RequestLaunch(p, w) PROVE TypeOK'
  BY <1>1, InsertType DEF RequestLaunch, CreateGameTicket
<1>2. ASSUME NEW p \in Portals, SignOut(p) PROVE TypeOK'
  BY <1>2 DEF SignOut, ticketVars, TicketTypeOK
<1>3. ASSUME NEW t \in tickets, ExpireTicket(t) PROVE TypeOK'
  BY <1>3 DEF ExpireTicket, TicketExpires, TicketTypeOK, Ticket
<1>4. ASSUME NEW u \in Universes, NEW e \in Epochs, IssueResume(u, e) PROVE TypeOK'
  <2>1. lease \in Lease
    BY <1>4 DEF IssueResume, LiveLease, LeaseNames
  <2>2. lease.portal \in Portals /\ LeaseWorld \in Worlds /\ e \in Nat
    BY <2>1, ServerAssumption, BoundAssumption DEF Lease, LeaseWorld
  <2> QED
    BY <1>4, <2>2, InsertType DEF IssueResume, CreateResumeTicket
<1>5. ASSUME NEW u \in Universes, NEW e \in Epochs, NEW w \in Worlds, IssueTravel(u, e, w)
      PROVE  TypeOK'
  <2>1. lease \in Lease
    BY <1>5 DEF IssueTravel, LiveLease, LeaseNames
  <2>2. lease.portal \in Portals
    BY <2>1 DEF Lease
  <2> QED
    BY <1>5, <2>2, InsertType DEF IssueTravel, CreateGameTicket
<1> QED
  BY <1>1, <1>2, <1>3, <1>4, <1>5 DEF TicketStep

LEMMA LaunchType ==
  ASSUME TypeOK, NEW c \in Conns, NEW l \in Launch, launch' = [launch EXCEPT ![c] = l]
  PROVE  launch' \in [Conns -> Launch]
  BY DEF TypeOK

(* The steps of a launch keep its record a launch.                         *)
LEMMA LaunchSteps ==
  ASSUME NEW l \in Launch
  PROVE  /\ \A i \in 0..MaxTickets : [l EXCEPT !.pc = "checked", !.id = i] \in Launch
         /\ [l EXCEPT !.pc = "consumed"] \in Launch
         /\ [l EXCEPT !.pc = "refused"] \in Launch
         /\ [l EXCEPT !.pc = "accepted", !.calls = MaxCalls] \in Launch
         /\ l.calls > 0 => Called(l) \in Launch
         /\ l.inflight > 0 => Answered(l) \in Launch /\ CallsAgain(l) \in Launch
<1>1. /\ \A i \in 0..MaxTickets : [l EXCEPT !.pc = "checked", !.id = i] \in Launch
      /\ [l EXCEPT !.pc = "consumed"] \in Launch
      /\ [l EXCEPT !.pc = "refused"] \in Launch
      /\ [l EXCEPT !.pc = "accepted", !.calls = MaxCalls] \in Launch
  BY BoundAssumption DEF Launch
<1>2. ASSUME l.calls > 0 PROVE Called(l) \in Launch
  <2>1. l.calls - 1 \in Nat /\ l.inflight + 1 \in Nat
    BY <1>2 DEF Launch
  <2> QED
    BY <2>1 DEF Called, Launch
<1>3. ASSUME l.inflight > 0 PROVE Answered(l) \in Launch /\ CallsAgain(l) \in Launch
  <2>1. l.inflight - 1 \in Nat /\ l.calls + 1 \in Nat
    BY <1>3 DEF Launch
  <2> QED
    BY <2>1 DEF Answered, CallsAgain, Launch
<1> QED
  BY <1>1, <1>2, <1>3

LEMMA ProfileSteps ==
  ASSUME NEW p \in Profile, p.epoch < MaxEpoch
  PROVE  /\ Taken(p) \in Profile /\ Taken(p).epoch = p.epoch + 1
         /\ Changed(p) \in Profile /\ Changed(p).epoch = p.epoch + 1
         /\ [p EXCEPT !.epoch = p.epoch + 1] \in Profile
<1>1. p.epoch + 1 \in 0..MaxEpoch /\ p.epoch + 1 \in Nat /\ 0 \in 0..MaxSeq
  BY BoundAssumption DEF Profile
<1>2. Taken(p) \in Profile /\ Taken(p).epoch = p.epoch + 1
  BY <1>1 DEF Taken, Profile
<1>3. Changed(p) \in Profile /\ Changed(p).epoch = p.epoch + 1
  BY <1>1, BoundAssumption DEF Changed, Profile, Stamp
<1>4. [p EXCEPT !.epoch = p.epoch + 1] \in Profile
  BY <1>1 DEF Profile
<1> QED
  BY <1>2, <1>3, <1>4

(* A session TakeLease grants has its type, and so has its lease.          *)
LEMMA TakeLeaseType == ASSUME TypeOK, NEW c \in Conns, TakeLease(c) PROVE TypeOK'
<1> DEFINE u == UniverseOfConn(c)
           e == Taken(profile[u]).epoch
           w == WorldOf[ServerOf[c]]
<1>1. w \in Worlds /\ u \in Universes /\ ServerOf[c] \in Servers
  BY ServerAssumption, UniverseAssumption DEF UniverseOfConn
<1>2. profile[u] \in Profile
  BY <1>1 DEF TypeOK
<1>3. e = profile[u].epoch + 1 /\ e \in Epochs /\ Taken(profile[u]) \in Profile
  <2>1. e <= MaxEpoch
    BY DEF TakeLease
  <2>2. e = profile[u].epoch + 1
    BY <1>2 DEF Taken, Profile
  <2> HIDE DEF u, e
  <2>3. profile[u].epoch \in Nat /\ profile[u].epoch < MaxEpoch
    BY <1>2, <2>1, <2>2, BoundAssumption DEF Profile
  <2>4. Taken(profile[u]) \in Profile
    BY <1>2, <2>3, ProfileSteps
  <2> QED
    BY <2>1, <2>2, <2>3, <2>4, BoundAssumption
<1>4. profile' \in [Universes -> Profile]
  BY <1>1, <1>3 DEF TakeLease, TypeOK
<1>5. position' \in [Worlds -> Position]
  <2> HIDE DEF u, e
  <2>1. position' = [position EXCEPT ![w] = [position[w] EXCEPT !.seq = 0]]
    BY DEF TakeLease
  <2>2. position[w] \in Position
    BY <1>1 DEF TypeOK
  <2>3. [position[w] EXCEPT !.seq = 0] \in Position
    BY <2>2, BoundAssumption DEF Position
  <2> HIDE DEF w
  <2> QED
    BY <1>1, <2>1, <2>3 DEF TypeOK
<1>6. lease' \in Lease
  <2>1. PICK t \in TicketOfConnection(c) :
          lease' = [universe |-> u, server |-> ServerOf[c], conn |-> c, epoch |-> e,
                    portal |-> t.portal, live |-> TRUE, closing |-> FALSE,
                    recovery |-> FALSE, ended |-> FALSE]
    BY DEF TakeLease
  <2>2. t.portal \in Portals
    BY DEF TicketOfConnection, TypeOK, TicketTypeOK, Ticket
  <2> HIDE DEF e, u
  <2> QED
    BY <1>1, <1>3, <2>1, <2>2 DEF Lease
<1>7. session' \in [Universes -> [Epochs -> Session]]
  <2> DEFINE s == [state |-> "playing", conn |-> c, base |-> profile[u].value,
                   captured |-> 0, saved |-> 0, reported |-> FALSE]
  <2>1. s \in Session
    BY <1>2, BoundAssumption DEF Session, Profile
  <2>2. SetSession(u, e, s)
    BY DEF TakeLease
  <2> HIDE DEF s, u, e
  <2> QED
    BY <1>1, <1>3, <2>1, <2>2, SetSessionType
<1>8. launch' \in [Conns -> Launch]
  <2>1. launch[c] \in Launch /\ launch[c].inflight > 0
    BY DEF TypeOK, TakeLease
  <2> QED
    BY <2>1, LaunchSteps, LaunchType DEF TakeLease
<1> QED
  BY <1>4, <1>5, <1>6, <1>7, <1>8 DEF TakeLease, TypeOK, TicketTypeOK, ticketVars

LEMMA LaunchStepType == ASSUME TypeOK, LaunchStep PROVE TypeOK'
<1>1. ASSUME NEW c \in Conns, NEW t \in tickets, BeginLaunch(c, t) PROVE TypeOK'
  <2>1. t.id \in 0..MaxTickets
    BY TicketBoundAssumption DEF TypeOK, TicketTypeOK, Ticket
  <2>2. launch[c] \in Launch
    BY DEF TypeOK
  <2>3. launch' \in [Conns -> Launch]
    BY <1>1, <2>1, <2>2, LaunchSteps, LaunchType DEF BeginLaunch
  <2> QED
    BY <1>1, <2>3 DEF BeginLaunch, TypeOK, TicketTypeOK, ticketVars
<1>2. ASSUME NEW c \in Conns, ConsumeLaunch(c) PROVE TypeOK'
  <2>1. TicketTypeOK'
    <3>1. ASSUME NEW t \in tickets, NEW w, ConsumeGameTicket(t, w, c) PROVE TicketTypeOK'
      BY <3>1 DEF ConsumeGameTicket, TypeOK, TicketTypeOK, Ticket
    <3> QED
      BY <1>2, <3>1 DEF ConsumeLaunch, TypeOK, TicketTypeOK, ticketVars
  <2>2. launch[c] \in Launch
    BY DEF TypeOK
  <2>3. launch' \in [Conns -> Launch]
    BY <1>2, <2>2, LaunchSteps, LaunchType DEF ConsumeLaunch
  <2> QED
    BY <1>2, <2>1, <2>3 DEF ConsumeLaunch, TypeOK
<1>3. ASSUME NEW c \in Conns, NEW l \in Launch, launch' = [launch EXCEPT ![c] = l],
             UNCHANGED <<ticketVars, profile, position, lease, portalLive, session,
                         checkpoints, operation>>
      PROVE  TypeOK'
  <2>1. launch' \in [Conns -> Launch]
    BY <1>3, LaunchType
  <2> QED
    BY <1>3, <2>1 DEF TypeOK, TicketTypeOK, ticketVars
<1>4. ASSUME NEW c \in Conns, AdmitLaunch(c) \/ CallAcquire(c) \/ KeepLease(c) \/ AnswerSaving(c)
      PROVE  TypeOK'
  <2>1. launch[c] \in Launch
    BY DEF TypeOK
  <2>2. CASE AdmitLaunch(c)
    BY <1>3, <2>1, <2>2, LaunchSteps DEF AdmitLaunch
  <2>3. CASE CallAcquire(c)
    BY <1>3, <2>1, <2>3, LaunchSteps DEF CallAcquire
  <2>4. CASE KeepLease(c)
    BY <1>3, <2>1, <2>4, LaunchSteps DEF KeepLease
  <2>5. CASE AnswerSaving(c)
    BY <1>3, <2>1, <2>5, LaunchSteps DEF AnswerSaving
  <2> QED
    BY <1>4, <2>2, <2>3, <2>4, <2>5
<1> QED
  BY <1>1, <1>2, <1>4, TakeLeaseType DEF LaunchStep, AcquireSession

(* The steps of a session keep its record a session.                       *)
LEMMA SessionSteps ==
  ASSUME NEW s \in Session
  PROVE  /\ s.captured < MaxSeq => [s EXCEPT !.captured = s.captured + 1] \in Session
         /\ [s EXCEPT !.state = "closing"] \in Session
         /\ [s EXCEPT !.state = "done"] \in Session
         /\ \A n \in 1..s.captured : n \in 1..MaxSeq /\ Saved(s, n) \in Session
         /\ \A r \in BOOLEAN : [s EXCEPT !.reported = r] \in Session
<1>1. ASSUME s.captured < MaxSeq PROVE [s EXCEPT !.captured = s.captured + 1] \in Session
  <2>1. s.captured + 1 \in 0..MaxSeq
    BY <1>1, BoundAssumption DEF Session
  <2> QED
    BY <2>1 DEF Session
<1>2. ASSUME NEW n \in 1..s.captured PROVE n \in 1..MaxSeq /\ Saved(s, n) \in Session
  <2>1. n \in 1..MaxSeq /\ n \in 0..MaxSeq
    BY BoundAssumption DEF Session
  <2> QED
    BY <2>1 DEF Saved, Session
<1>3. /\ [s EXCEPT !.state = "closing"] \in Session
      /\ [s EXCEPT !.state = "done"] \in Session
      /\ \A r \in BOOLEAN : [s EXCEPT !.reported = r] \in Session
  BY DEF Session
<1> QED
  BY <1>1, <1>2, <1>3

LEMMA CommitStateType ==
  ASSUME TypeOK, NEW u \in Universes, NEW e \in Epochs, NEW n \in Sent(u, e),
         NEW moved \in Moves, CommitState(u, e, n, moved)
  PROVE  TypeOK'
<1> DEFINE stamp == [epoch |-> e, seq |-> n]
<1>1. session[u][e] \in Session /\ profile[u] \in Profile
  BY DEF TypeOK
<1>2. n \in 1..MaxSeq /\ n \in 0..MaxSeq /\ Saved(session[u][e], n) \in Session
  <2>1. n \in 1..MaxSeq /\ Saved(session[u][e], n) \in Session
    BY <1>1, SessionSteps DEF Sent
  <2> QED
    BY <2>1, BoundAssumption
<1>3. stamp \in Stamp /\ stamp.seq = n
  BY <1>2, BoundAssumption DEF Stamp
<1>4. Written(profile[u], stamp) \in Profile
  BY <1>1, <1>2, <1>3 DEF Written, Profile
<1> HIDE DEF stamp
<1>5. profile' = [profile EXCEPT ![u] = Written(profile[u], stamp)]
  BY DEF CommitState, stamp
<1>6. profile' \in [Universes -> Profile]
  BY <1>4, <1>5 DEF TypeOK
<1>7. session' \in [Universes -> [Epochs -> Session]]
  BY <1>2, SetSessionType DEF CommitState, SaveAnswered
<1>8. position' \in [Worlds -> Position]
  <2>1. [seq |-> n, value |-> stamp] \in Position
    BY <1>2, <1>3 DEF Position
  <2>2. \/ position' = position
        \/ position' = [position EXCEPT ![LeaseWorld] = [seq |-> n, value |-> stamp]]
    BY DEF CommitState, stamp
  <2> QED
    BY <2>1, <2>2 DEF TypeOK
<1> QED
  BY <1>6, <1>7, <1>8 DEF CommitState, TypeOK, TicketTypeOK, ticketVars

LEMMA SessionStepType == ASSUME TypeOK, SessionStep PROVE TypeOK'
<1> SUFFICES ASSUME NEW u \in Universes, NEW e \in Epochs,
                    \/ Capture(u, e) \/ Leave(u, e) \/ Stop(u, e)
                    \/ \E n \in Sent(u, e) :
                          \/ CommitDuplicate(u, e, n)
                          \/ \E moved \in Moves : CommitState(u, e, n, moved)
                          \/ CommitStale(u, e, n)
                    \/ \E recovery \in Reports : BeginCheckpoint(u, e, recovery)
                    \/ CheckpointEnded(u, e)
                    \/ ReleaseSession(u, e)
             PROVE  TypeOK'
  BY DEF SessionStep
<1>s. session[u][e] \in Session
  BY DEF TypeOK
<1>1. ASSUME NEW s \in Session, SetSession(u, e, s), lease' \in Lease \cup {NoLease},
             UNCHANGED <<ticketVars, profile, position, portalLive, launch, checkpoints, operation>>
      PROVE  TypeOK'
  <2>1. session' \in [Universes -> [Epochs -> Session]]
    BY <1>1, SetSessionType
  <2> QED
    BY <1>1, <2>1 DEF TypeOK, TicketTypeOK, ticketVars
<1>t. lease \in Lease \cup {NoLease}
  BY DEF TypeOK
<1>2. CASE Capture(u, e)
  BY <1>1, <1>2, <1>s, <1>t, SessionSteps DEF Capture
<1>3. CASE Leave(u, e) \/ Stop(u, e) \/ CheckpointEnded(u, e) \/ ReleaseSession(u, e)
  BY <1>1, <1>3, <1>s, <1>t, SessionSteps DEF Leave, Stop, CheckpointEnded, ReleaseSession
<1>4. ASSUME NEW n \in Sent(u, e), CommitDuplicate(u, e, n) PROVE TypeOK'
  BY <1>1, <1>4, <1>s, <1>t, SessionSteps DEF CommitDuplicate, SaveAnswered, Sent
<1>5. ASSUME NEW n \in Sent(u, e), CommitStale(u, e, n) PROVE TypeOK'
  BY <1>1, <1>5, <1>s, <1>t, SessionSteps DEF CommitStale
<1>6. ASSUME NEW n \in Sent(u, e), NEW moved \in Moves, CommitState(u, e, n, moved) PROVE TypeOK'
  BY <1>6, CommitStateType
<1>7. ASSUME NEW recovery \in Reports, BeginCheckpoint(u, e, recovery) PROVE TypeOK'
  <2> DEFINE k == [universe |-> u, epoch |-> e, closing |-> session[u][e].state = "closing",
                   recovery |-> recovery, seq |-> session[u][e].captured, step |-> "renew"]
  <2>1. k \in Checkpoint
    BY <1>s, InputAssumption DEF Checkpoint, Session
  <2>2. checkpoints' = checkpoints \cup {k}
    BY <1>7 DEF BeginCheckpoint
  <2> HIDE DEF k
  <2> QED
    BY <1>7, <2>1, <2>2 DEF BeginCheckpoint, TypeOK, TicketTypeOK, ticketVars
<1> QED
  BY <1>2, <1>3, <1>4, <1>5, <1>6, <1>7

LEMMA LeaseStepType == ASSUME TypeOK, LeaseStep PROVE TypeOK'
<1>1. CASE LeaseExpires
  <2>1. lease \in Lease /\ lease' = [lease EXCEPT !.live = FALSE]
    BY <1>1 DEF LeaseExpires, TypeOK
  <2>2. lease' \in Lease
    BY <2>1 DEF Lease
  <2> QED
    BY <1>1, <2>2 DEF LeaseExpires, TypeOK, TicketTypeOK, ticketVars
<1>2. ASSUME NEW k \in checkpoints, RenewLease(k) PROVE TypeOK'
  <2>1. k \in Checkpoint
    BY DEF TypeOK
  <2>2. checkpoints' \in SUBSET Checkpoint
    <3>1. [k EXCEPT !.step = "position"] \in Checkpoint
      BY <2>1 DEF Checkpoint
    <3> QED
      BY <1>2, <3>1 DEF RenewLease, TypeOK
  <2>3. k.universe \in Universes /\ k.epoch \in Epochs /\ k.closing \in BOOLEAN
    BY <2>1 DEF Checkpoint
  <2>4. lease' \in Lease \cup {NoLease} /\ session' \in [Universes -> [Epochs -> Session]]
    <3>1. CASE Renewable(k)
      <4>1. lease \in Lease /\ lease' = Renewed(k)
        BY <1>2, <3>1 DEF RenewLease, Renewable, LeaseNames, TypeOK
      <4>2. lease' \in Lease
        BY <2>1, <4>1 DEF Renewed, Lease, Checkpoint
      <4>3. session[k.universe][k.epoch] \in Session
        BY <2>3 DEF TypeOK
      <4>4. session[k.universe][k.epoch].reported \/ k.closing \in BOOLEAN
        BY <2>3, <4>3 DEF Session
      <4>5. session' \in [Universes -> [Epochs -> Session]]
        BY <1>2, <2>3, <3>1, <4>3, <4>4, SessionSteps, SetSessionType DEF RenewLease
      <4> QED
        BY <4>2, <4>5
    <3>2. CASE ~Renewable(k)
      BY <1>2, <3>2 DEF RenewLease, TypeOK
    <3> QED
      BY <3>1, <3>2
  <2> QED
    BY <1>2, <2>2, <2>4 DEF RenewLease, TypeOK, TicketTypeOK, ticketVars
<1>3. ASSUME NEW k \in checkpoints, WritePosition(k) PROVE TypeOK'
  <2>1. k.epoch \in Nat /\ k.seq \in 0..MaxSeq /\ k.seq \in Nat
    BY BoundAssumption DEF TypeOK, Checkpoint
  <2> DEFINE at == [seq |-> k.seq, value |-> [epoch |-> k.epoch, seq |-> k.seq]]
             w == WorldOf[ServerOf[session[k.universe][k.epoch].conn]]
  <2>2. at \in Position
    BY <2>1 DEF Position, Stamp
  <2>3. position' = position \/ position' = [position EXCEPT ![w] = at]
    BY <1>3 DEF WritePosition
  <2> HIDE DEF at, w
  <2>4. position' \in [Worlds -> Position]
    BY <2>2, <2>3 DEF TypeOK
  <2> QED
    BY <1>3, <2>4 DEF WritePosition, TypeOK, TicketTypeOK, ticketVars
<1> QED
  BY <1>1, <1>2, <1>3 DEF LeaseStep

LEMMA OperatorStepType == ASSUME TypeOK, OperatorStep PROVE TypeOK'
<1> SUFFICES ASSUME NEW o \in Operations,
                    \/ \E kind \in Kinds : SendOperation(o, kind)
                    \/ RefuseOperation(o) \/ EndSession(o)
                    \/ ChangeStacks(o) \/ RestrictAccount(o)
             PROVE  TypeOK'
  BY DEF OperatorStep
<1> DEFINE u == TargetOf[o]
<1>1. u \in Universes /\ profile[u] \in Profile /\ operation[o] \in Operation
  BY OperationAssumption DEF TypeOK
<1>2. ASSUME NEW status \in {"done", "refused"}, Record(o, status)
      PROVE  operation' \in [Operations -> Operation]
  BY <1>1, <1>2 DEF Record, TypeOK, Operation
<1>3. ASSUME RaiseEpoch(u) PROVE profile' \in [Universes -> Profile]
  <2>1. profile' = [profile EXCEPT ![u] = [profile[u] EXCEPT !.epoch = profile[u].epoch + 1]]
    BY <1>3 DEF RaiseEpoch
  <2> QED
    BY <1>1, <1>3, <2>1, ProfileSteps DEF RaiseEpoch, TypeOK
<1>4. ASSUME SessionLive(u), EndLease(u)
      PROVE  lease' \in Lease /\ profile' \in [Universes -> Profile]
  <2>1. lease \in Lease
    BY <1>4 DEF SessionLive, LeaseNames, TypeOK
  <2>2. lease' \in Lease
    BY <1>4, <2>1 DEF EndLease, Lease
  <2> QED
    BY <1>3, <1>4, <2>2 DEF EndLease
<1>5. ASSUME NEW kind \in Kinds, SendOperation(o, kind) PROVE TypeOK'
  BY <1>1, <1>5, OperationAssumption DEF SendOperation, TypeOK, TicketTypeOK, ticketVars, Operation, Profile
<1>6. CASE RefuseOperation(o)
  BY <1>2, <1>6 DEF RefuseOperation, TypeOK, TicketTypeOK, ticketVars
<1>7. CASE EndSession(o)
  BY <1>2, <1>4, <1>7 DEF EndSession, TypeOK, TicketTypeOK, ticketVars
<1>8. CASE ChangeStacks(o)
  <2>1. Changed(profile[u]) \in Profile
    <3>1. profile[u].epoch \in Nat /\ Changed(profile[u]).epoch = profile[u].epoch + 1
      BY <1>1, BoundAssumption DEF Changed, Profile
    <3>2. Changed(profile[u]).epoch <= MaxEpoch
      BY <1>8 DEF ChangeStacks
    <3>3. profile[u].epoch < MaxEpoch
      BY <3>1, <3>2, BoundAssumption
    <3> QED
      BY <1>1, <3>3, ProfileSteps
  <2>2. profile' \in [Universes -> Profile]
    BY <1>1, <1>8, <2>1 DEF ChangeStacks, TypeOK
  <2> QED
    BY <1>2, <1>8, <2>2 DEF ChangeStacks, TypeOK, TicketTypeOK, ticketVars
<1>9. CASE RestrictAccount(o)
  <2>1. lease' \in Lease \cup {NoLease} /\ profile' \in [Universes -> Profile]
    BY <1>4, <1>9 DEF RestrictAccount, TypeOK
  <2> QED
    BY <1>2, <1>9, <2>1 DEF RestrictAccount, TypeOK, TicketTypeOK, ticketVars
<1> QED
  BY <1>5, <1>6, <1>7, <1>8, <1>9

LEMMA TypeOKStep == TypeOK /\ [Next]_vars => TypeOK'
<1> SUFFICES ASSUME TypeOK, [Next]_vars PROVE TypeOK'
  OBVIOUS
<1>1. CASE Next
  BY <1>1, TicketStepType, LaunchStepType, SessionStepType, LeaseStepType, OperatorStepType
  DEF Next
<1>2. CASE UNCHANGED vars
  BY <1>2 DEF vars, ticketVars, sessionVars, TypeOK, TicketTypeOK
<1> QED
  BY <1>1, <1>2

(* Every variable keeps its type, for any number of connections, servers,  *)
(* worlds, universes, operator requests and bounds.                        *)
THEOREM TypeCorrect == Spec => []TypeOK
<1> QED
  BY InitTypeOK, TypeOKStep, PTL DEF Spec

-----------------------------------------------------------------------------
(***************************************************************************)
(* What a step does to profiles and sessions.  Most steps are silent: they *)
(* leave every profile, and of every session what it loaded and was told   *)
(* is stored.                                                              *)
(***************************************************************************)
SameSession(u, e) ==
    /\ session'[u][e].state = "none" <=> session[u][e].state = "none"
    /\ session'[u][e].base = session[u][e].base
    /\ session'[u][e].saved = session[u][e].saved
    /\ session[u][e].state = "none" => session'[u][e].captured = session[u][e].captured

Silent == /\ profile' = profile
          /\ \A u \in Universes, e \in Epochs : SameSession(u, e)

LEMMA SetSessionEffect ==
  ASSUME TypeOK, NEW u \in Universes, NEW e \in Epochs, NEW s, SetSession(u, e, s)
  PROVE  \A v \in Universes, f \in Epochs :
            session'[v][f] = IF v = u /\ f = e THEN s ELSE session[v][f]
<1> SUFFICES ASSUME NEW v \in Universes, NEW f \in Epochs
             PROVE  session'[v][f] = IF v = u /\ f = e THEN s ELSE session[v][f]
  OBVIOUS
<1>1. session' = [session EXCEPT ![u] = [session[u] EXCEPT ![e] = s]]
  BY DEF SetSession
<1>2. session \in [Universes -> [Epochs -> Session]] /\ session[u] \in [Epochs -> Session]
  BY DEF TypeOK
<1>3. session'[v] = IF v = u THEN [session[u] EXCEPT ![e] = s] ELSE session[v]
  BY <1>1, <1>2
<1> QED
  BY <1>2, <1>3

(* A step that only moves one running session on is silent.                *)
LEMMA MoveIsSilent ==
  ASSUME TypeOK, NEW u \in Universes, NEW e \in Epochs, NEW s, SetSession(u, e, s),
         profile' = profile, s.state # "none" <=> session[u][e].state # "none",
         s.base = session[u][e].base, s.saved = session[u][e].saved,
         session[u][e].state = "none" => s.captured = session[u][e].captured
  PROVE  Silent
<1> SUFFICES ASSUME NEW v \in Universes, NEW f \in Epochs PROVE SameSession(v, f)
  BY DEF Silent
<1>1. session'[v][f] = IF v = u /\ f = e THEN s ELSE session[v][f]
  BY SetSessionEffect
<1>2. CASE v = u /\ f = e
  BY <1>1, <1>2 DEF SameSession
<1>3. CASE ~(v = u /\ f = e)
  BY <1>1, <1>3 DEF SameSession
<1> QED
  BY <1>2, <1>3

LEMMA UnchangedIsSilent == ASSUME UNCHANGED <<profile, session>> PROVE Silent
  BY DEF Silent, SameSession

LEMMA StepKinds ==
  ASSUME TypeOK, Next
  PROVE  \/ Silent
         \/ \E c \in Conns : TakeLease(c)
         \/ \E u \in Universes, e \in Epochs : \E n \in Sent(u, e) :
               CommitDuplicate(u, e, n) \/ \E moved \in Moves : CommitState(u, e, n, moved)
         \/ \E u \in Universes : RaiseEpoch(u) /\ UNCHANGED session
         \/ \E o \in Operations : ChangeStacks(o)
<1>1. CASE TicketStep
  <2>1. UNCHANGED <<profile, session>>
    BY <1>1 DEF TicketStep, RequestLaunch, SignOut, ExpireTicket, IssueResume, IssueTravel, sessionVars
  <2> QED
    BY <2>1, UnchangedIsSilent
<1>2. CASE LaunchStep
  <2>1. \/ UNCHANGED <<profile, session>>
        \/ \E c \in Conns : TakeLease(c)
    BY <1>2 DEF LaunchStep, BeginLaunch, ConsumeLaunch, AdmitLaunch, CallAcquire, AcquireSession,
                KeepLease, AnswerSaving
  <2> QED
    BY <2>1, UnchangedIsSilent
<1>3. CASE SessionStep
  <2> SUFFICES ASSUME NEW u \in Universes, NEW e \in Epochs,
                      \/ Capture(u, e) \/ Leave(u, e) \/ Stop(u, e)
                      \/ \E n \in Sent(u, e) : CommitStale(u, e, n)
                      \/ \E recovery \in Reports : BeginCheckpoint(u, e, recovery)
                      \/ CheckpointEnded(u, e)
                      \/ ReleaseSession(u, e)
               PROVE  Silent
    BY <1>3 DEF SessionStep
  <2>s. session[u][e] \in Session
    BY DEF TypeOK
  <2>1. CASE Capture(u, e)
    <3> DEFINE s == [session[u][e] EXCEPT !.captured = session[u][e].captured + 1]
    <3>1. /\ SetSession(u, e, s) /\ profile' = profile /\ session[u][e].state # "none"
      BY <2>1 DEF Capture
    <3>2. s.state = session[u][e].state /\ s.base = session[u][e].base /\ s.saved = session[u][e].saved
      BY <2>s DEF Session
    <3> HIDE DEF s
    <3> QED
      BY <3>1, <3>2, MoveIsSilent
  <2>2. ASSUME NEW state \in {"closing", "done"}, Running(u, e), profile' = profile,
               SetSession(u, e, [session[u][e] EXCEPT !.state = state])
        PROVE  Silent
    <3> DEFINE s == [session[u][e] EXCEPT !.state = state]
    <3>1. s.state = state /\ s.base = session[u][e].base /\ s.saved = session[u][e].saved
      BY <2>s DEF Session
    <3>2. session[u][e].state # "none" /\ state # "none" /\ SetSession(u, e, s)
      BY <2>2 DEF Running
    <3> HIDE DEF s
    <3> QED
      BY <2>2, <3>1, <3>2, MoveIsSilent
  <2>3. CASE \/ Leave(u, e) \/ Stop(u, e) \/ CheckpointEnded(u, e) \/ ReleaseSession(u, e)
             \/ \E n \in Sent(u, e) : CommitStale(u, e, n)
    BY <2>2, <2>3 DEF Leave, Stop, CheckpointEnded, ReleaseSession, CommitStale, Running
  <2>4. CASE \E recovery \in Reports : BeginCheckpoint(u, e, recovery)
    BY <2>4, UnchangedIsSilent DEF BeginCheckpoint
  <2> QED
    BY <2>1, <2>3, <2>4
<1>4. CASE LeaseStep
  <2>1. ASSUME NEW k \in checkpoints, RenewLease(k) PROVE Silent
    <3> DEFINE u == k.universe
               e == k.epoch
               s == [session[u][e] EXCEPT !.reported = session[u][e].reported \/ k.closing]
    <3>1. u \in Universes /\ e \in Epochs /\ session[u][e] \in Session
      BY DEF TypeOK, Checkpoint
    <3>2. CASE SetSession(u, e, s)
      <4>1. /\ s.state = session[u][e].state /\ s.base = session[u][e].base
            /\ s.saved = session[u][e].saved /\ s.captured = session[u][e].captured
        BY <3>1 DEF Session
      <4> HIDE DEF s, u, e
      <4>2. profile' = profile
        BY <2>1 DEF RenewLease
      <4> QED
        BY <3>1, <3>2, <4>1, <4>2, MoveIsSilent
    <3>3. CASE UNCHANGED session
      BY <2>1, <3>3, UnchangedIsSilent DEF RenewLease
    <3> QED
      BY <2>1, <3>2, <3>3 DEF RenewLease
  <2> QED
    BY <1>4, <2>1, UnchangedIsSilent DEF LeaseStep, LeaseExpires, WritePosition
<1>5. CASE OperatorStep
  <2> SUFFICES ASSUME NEW o \in Operations,
                      (\E kind \in Kinds : SendOperation(o, kind)) \/ RefuseOperation(o) \/ EndSession(o) \/ RestrictAccount(o)
               PROVE  \/ UNCHANGED <<profile, session>>
                      \/ \E u \in Universes : RaiseEpoch(u) /\ UNCHANGED session
    BY <1>5, UnchangedIsSilent DEF OperatorStep
  <2>1. TargetOf[o] \in Universes
    BY OperationAssumption
  <2> QED
    BY <2>1 DEF SendOperation, RefuseOperation, EndSession, RestrictAccount, EndLease
<1> QED
  BY <1>1, <1>2, <1>3, <1>4, <1>5 DEF Next

-----------------------------------------------------------------------------
(***************************************************************************)
(* The fence: nothing the engine answered as stored is lost or missed.     *)
(***************************************************************************)
LEMMA FenceTypes ==
  ASSUME TypeOK, NEW u \in Universes
  PROVE  /\ profile[u].epoch \in Nat /\ profile[u].commitSeq \in Nat
         /\ profile[u].value \in Stamp
         /\ \A e \in Epochs :
               /\ e \in Nat
               /\ session[u][e].base \in Stamp
               /\ session[u][e].saved \in Nat /\ session[u][e].captured \in Nat
  BY BoundAssumption DEF TypeOK, Profile, Session

LEMMA InitFence == Init => Fence
<1> SUFFICES ASSUME Init PROVE Fence
  OBVIOUS
<1>1. TypeOK
  BY InitTypeOK
<1>2. \A u \in Universes : profile[u] = [epoch |-> 0, commitSeq |-> 0, value |-> NoStamp]
  BY DEF Init
<1>3. \A u \in Universes, e \in Epochs : session[u][e] = NoSession
  BY DEF Init
<1> QED
  BY <1>1, <1>2, <1>3
  DEF Fence, GrantedInOrder, ValueBehindEpoch, SequenceIsStored, SavedStaysStored,
      TakeoverLoadsAllSaved, Granted, NoSession, NoStamp, NotAfter

LEMMA FenceSilent == ASSUME Fence, TypeOK', Silent PROVE Fence'
  BY DEF Fence, Silent, SameSession, GrantedInOrder, ValueBehindEpoch, SequenceIsStored,
         SavedStaysStored, TakeoverLoadsAllSaved, Granted

(* A takeover: the new session loads the stored state, which nothing told  *)
(* to be stored is ahead of.                                               *)
LEMMA FenceTake == ASSUME Fence, TypeOK', NEW c \in Conns, TakeLease(c) PROVE Fence'
<1> DEFINE u == UniverseOfConn(c)
           e == profile[u].epoch + 1
           s == [state |-> "playing", conn |-> c, base |-> profile[u].value,
                 captured |-> 0, saved |-> 0, reported |-> FALSE]
<1>1. TypeOK /\ u \in Universes
  BY ServerAssumption, UniverseAssumption DEF Fence, UniverseOfConn
<1>2. profile[u] \in Profile /\ Taken(profile[u]).epoch = e
  BY <1>1 DEF TypeOK, Taken, Profile
<1>3. e <= MaxEpoch /\ SetSession(u, e, s) /\ profile' = [profile EXCEPT ![u] = Taken(profile[u])]
  BY <1>2 DEF TakeLease
<1>4. e \in Epochs /\ e \in Nat /\ e = profile[u].epoch + 1
  BY <1>1, <1>3, FenceTypes, BoundAssumption
<1>5. /\ profile'[u].epoch = e /\ profile'[u].commitSeq = 0 /\ profile'[u].value = profile[u].value
      /\ \A v \in Universes : v # u => profile'[v] = profile[v]
  BY <1>1, <1>2, <1>3 DEF Taken, Profile, TypeOK
<1>6. \A v \in Universes, f \in Epochs :
        session'[v][f] = IF v = u /\ f = e THEN s ELSE session[v][f]
  BY <1>1, <1>3, <1>4, SetSessionEffect
<1>s. s.state = "playing" /\ s.base = profile[u].value /\ s.saved = 0
  OBVIOUS
<1> HIDE DEF u, e, s
<1>7. GrantedInOrder'
  BY <1>1, <1>4, <1>5, <1>6, <1>s, FenceTypes DEF Fence, GrantedInOrder, Granted
<1>8. ValueBehindEpoch'
  BY <1>1, <1>4, <1>5, FenceTypes DEF Fence, ValueBehindEpoch, NotAfter, Stamp
<1>9. SequenceIsStored'
  BY <1>1, <1>4, <1>5, <1>6, FenceTypes DEF Fence, SequenceIsStored, Granted
<1>10. SavedStaysStored'
  BY <1>5, <1>6, <1>s DEF Fence, SavedStaysStored
<1>11. TakeoverLoadsAllSaved'
  <2> SUFFICES ASSUME NEW v \in Universes, NEW old \in Epochs, NEW new \in Epochs,
                      old < new, Granted(v, new)', session'[v][old].saved > 0
               PROVE  NotAfter([epoch |-> old, seq |-> session'[v][old].saved],
                               session'[v][new].base)
    BY DEF TakeoverLoadsAllSaved
  <2>1. CASE v # u
    BY <1>6, <2>1 DEF Fence, TakeoverLoadsAllSaved, Granted
  <2>2. CASE v = u /\ new = e
    <3>1. session'[v][old] = session[v][old] /\ session'[v][new].base = profile[u].value
      BY <1>4, <1>6, <1>s, <2>2
    <3> QED
      BY <2>2, <3>1 DEF Fence, SavedStaysStored
  <2>3. CASE v = u /\ new # e
    <3>1. Granted(v, new) /\ session'[v][new] = session[v][new]
      BY <1>6, <2>3 DEF Granted
    <3>2. old # e
      BY <1>1, <1>4, <2>3, <3>1, FenceTypes DEF Fence, GrantedInOrder
    <3> QED
      BY <1>6, <2>3, <3>1, <3>2 DEF Fence, TakeoverLoadsAllSaved
  <2> QED
    BY <2>1, <2>2, <2>3
<1> QED
  BY <1>7, <1>8, <1>9, <1>10, <1>11 DEF Fence

(* What an answered commit does to its session.                            *)
LEMMA AnswerEffect ==
  ASSUME TypeOK, NEW u \in Universes, NEW e \in Epochs, NEW n \in Sent(u, e), SaveAnswered(u, e, n)
  PROVE  /\ n \in Nat \ {0}
         /\ \A v \in Universes, f \in Epochs :
               /\ session'[v][f].state = session[v][f].state
               /\ session'[v][f].base = session[v][f].base
               /\ session'[v][f].captured = session[v][f].captured
               /\ session'[v][f].saved =
                     IF v = u /\ f = e /\ session[v][f].saved < n THEN n ELSE session[v][f].saved
<1>1. session[u][e] \in Session /\ n \in Nat \ {0}
  <2>1. session[u][e] \in Session
    BY DEF TypeOK
  <2>2. n \in 1..MaxSeq
    BY <2>1, SessionSteps DEF Sent
  <2> QED
    BY <2>1, <2>2, BoundAssumption
<1>2. \A v \in Universes, f \in Epochs :
        session'[v][f] = IF v = u /\ f = e THEN Saved(session[u][e], n) ELSE session[v][f]
  BY SetSessionEffect DEF SaveAnswered
<1>3. LET s == session[u][e]
          r == Saved(s, n)
      IN  /\ r.state = s.state /\ r.base = s.base /\ r.captured = s.captured
          /\ r.saved = IF s.saved < n THEN n ELSE s.saved
  BY <1>1 DEF Saved, Session
<1> QED
  BY <1>1, <1>2, <1>3

(* No session of a profile is newer than its epoch.                        *)
LEMMA CurrentHasNoHeir ==
  ASSUME Fence, NEW u \in Universes
  PROVE  \A new \in Epochs : profile[u].epoch < new => ~Granted(u, new)
<1>1. TypeOK
  BY DEF Fence
<1> QED
  BY <1>1, FenceTypes DEF Fence, GrantedInOrder

(* An answer to a session without a newer one leaves what newer sessions   *)
(* loaded as it was.                                                       *)
LEMMA HeirsKeep ==
  ASSUME Fence, NEW u \in Universes, NEW e \in Epochs, NEW n \in Sent(u, e),
         SaveAnswered(u, e, n), \A new \in Epochs : e < new => ~Granted(u, new)
  PROVE  TakeoverLoadsAllSaved'
<1>1. TypeOK
  BY DEF Fence
<1> SUFFICES ASSUME NEW v \in Universes, NEW old \in Epochs, NEW new \in Epochs,
                    old < new, Granted(v, new)', session'[v][old].saved > 0
             PROVE  NotAfter([epoch |-> old, seq |-> session'[v][old].saved],
                             session'[v][new].base)
  BY DEF TakeoverLoadsAllSaved
<1>2. Granted(v, new) /\ session'[v][new].base = session[v][new].base
  BY <1>1, AnswerEffect DEF Granted
<1>3. session'[v][old].saved = session[v][old].saved
  BY <1>1, <1>2, AnswerEffect
<1> QED
  BY <1>2, <1>3 DEF Fence, TakeoverLoadsAllSaved

(* A duplicate is answered only for a state that is stored.                *)
LEMMA FenceDuplicate ==
  ASSUME Fence, TypeOK', NEW u \in Universes, NEW e \in Epochs, NEW n \in Sent(u, e),
         CommitDuplicate(u, e, n)
  PROVE  Fence'
<1>1. TypeOK /\ profile' = profile /\ SaveAnswered(u, e, n)
  BY DEF Fence, CommitDuplicate
<1>2. profile[u].epoch = e /\ n <= profile[u].commitSeq /\ n \in Nat \ {0}
  BY <1>1, AnswerEffect, FenceTypes DEF CommitDuplicate
<1>3. Granted(u, e)
  BY <1>1, <1>2, FenceTypes DEF Fence, GrantedInOrder, Sent
<1>4. profile[u].value = [epoch |-> e, seq |-> profile[u].commitSeq]
  BY <1>1, <1>2, <1>3, FenceTypes DEF Fence, SequenceIsStored
<1>5. GrantedInOrder' /\ ValueBehindEpoch' /\ SequenceIsStored'
  <2>1. \A v \in Universes, f \in Epochs : ~Granted(v, f) => ~(v = u /\ f = e)
    BY <1>3
  <2> QED
    BY <1>1, <2>1, AnswerEffect DEF Fence, GrantedInOrder, ValueBehindEpoch, SequenceIsStored, Granted
<1>6. SavedStaysStored'
  <2> SUFFICES ASSUME NEW v \in Universes, NEW f \in Epochs, session'[v][f].saved > 0
               PROVE  NotAfter([epoch |-> f, seq |-> session'[v][f].saved], profile'[v].value)
    BY DEF SavedStaysStored
  <2>1. CASE v = u /\ f = e /\ session[v][f].saved < n
    BY <1>1, <1>2, <1>4, <2>1, AnswerEffect DEF NotAfter
  <2>2. CASE ~(v = u /\ f = e /\ session[v][f].saved < n)
    BY <1>1, <2>2, AnswerEffect DEF Fence, SavedStaysStored
  <2> QED
    BY <2>1, <2>2
<1>7. TakeoverLoadsAllSaved'
  BY <1>1, <1>2, CurrentHasNoHeir, HeirsKeep
<1> QED
  BY <1>5, <1>6, <1>7 DEF Fence

LEMMA FenceCommit ==
  ASSUME Fence, TypeOK', NEW u \in Universes, NEW e \in Epochs, NEW n \in Sent(u, e),
         NEW moved \in Moves, CommitState(u, e, n, moved)
  PROVE  Fence'
<1> DEFINE stamp == [epoch |-> e, seq |-> n]
<1>1. TypeOK /\ SaveAnswered(u, e, n) /\ profile' = [profile EXCEPT ![u] = Written(profile[u], stamp)]
  BY DEF Fence, CommitState
<1>2. profile[u].epoch = e /\ profile[u].commitSeq < n /\ n \in Nat \ {0} /\ e \in Nat
  BY <1>1, AnswerEffect, FenceTypes DEF CommitState, CommitAccepted
<1>3. Granted(u, e)
  BY <1>1, <1>2, FenceTypes DEF Fence, GrantedInOrder, Sent
<1>4. /\ profile'[u].epoch = e /\ profile'[u].commitSeq = n /\ profile'[u].value = stamp
      /\ \A v \in Universes : v # u => profile'[v] = profile[v]
  BY <1>1, <1>2 DEF TypeOK, Written, Profile
<1>5. GrantedInOrder'
  <2>1. \A v \in Universes, f \in Epochs : ~Granted(v, f) => ~(v = u /\ f = e)
    BY <1>3
  <2>2. \A v \in Universes : profile'[v].epoch = profile[v].epoch
    BY <1>2, <1>4
  <2> QED
    BY <1>1, <2>1, <2>2, AnswerEffect DEF Fence, GrantedInOrder, Granted
<1>6. ValueBehindEpoch'
  BY <1>2, <1>4 DEF Fence, ValueBehindEpoch, NotAfter
<1>7. SequenceIsStored'
  BY <1>1, <1>4, AnswerEffect DEF Fence, SequenceIsStored, Granted
<1>8. SavedStaysStored'
  <2> SUFFICES ASSUME NEW v \in Universes, NEW f \in Epochs, session'[v][f].saved > 0
               PROVE  NotAfter([epoch |-> f, seq |-> session'[v][f].saved], profile'[v].value)
    BY DEF SavedStaysStored
  <2>1. CASE v # u
    BY <1>1, <1>4, <2>1, AnswerEffect DEF Fence, SavedStaysStored
  <2>2. CASE v = u /\ f # e
    <3>1. session[u][f].saved > 0
      BY <1>1, <2>2, AnswerEffect
    <3>2. f < e
      BY <1>1, <1>2, <2>2, <3>1, FenceTypes DEF Fence, GrantedInOrder
    <3> QED
      BY <1>4, <2>2, <3>2 DEF NotAfter
  <2>3. CASE v = u /\ f = e
    <3>1. session[u][e].saved <= n
      <4>1. CASE session[u][e].saved > 0
        BY <1>1, <1>2, <4>1, FenceTypes DEF Fence, SavedStaysStored, ValueBehindEpoch, NotAfter, Stamp
      <4>2. CASE ~(session[u][e].saved > 0)
        BY <1>1, <1>2, <4>2, FenceTypes
      <4> QED
        BY <4>1, <4>2
    <3>2. session'[u][e].saved = n
      <4>1. session'[u][e].saved = IF session[u][e].saved < n THEN n ELSE session[u][e].saved
        BY <1>1, AnswerEffect
      <4>2. session[u][e].saved \in Nat
        BY <1>1, FenceTypes
      <4> QED
        BY <1>2, <3>1, <4>1, <4>2
    <3> QED
      BY <1>2, <1>4, <2>3, <3>2 DEF NotAfter
  <2> QED
    BY <2>1, <2>2, <2>3
<1>9. TakeoverLoadsAllSaved'
  BY <1>1, <1>2, CurrentHasNoHeir, HeirsKeep
<1> QED
  BY <1>5, <1>6, <1>7, <1>8, <1>9 DEF Fence

LEMMA FenceRaise ==
  ASSUME Fence, TypeOK', NEW u \in Universes, RaiseEpoch(u), session' = session
  PROVE  Fence'
<1>1. TypeOK /\ session' = session
  BY DEF Fence
<1>2. /\ profile'[u].epoch = profile[u].epoch + 1
      /\ \A v \in Universes :
            /\ profile'[v].value = profile[v].value
            /\ profile'[v].commitSeq = profile[v].commitSeq
            /\ v # u => profile'[v].epoch = profile[v].epoch
  BY <1>1 DEF RaiseEpoch, TypeOK, Profile
<1>3. GrantedInOrder'
  BY <1>1, <1>2, FenceTypes DEF Fence, GrantedInOrder, Granted
<1>4. ValueBehindEpoch'
  BY <1>1, <1>2, FenceTypes DEF Fence, ValueBehindEpoch, NotAfter, Stamp
<1>5. SequenceIsStored'
  BY <1>1, <1>2, FenceTypes DEF Fence, SequenceIsStored, GrantedInOrder, Granted
<1>6. SavedStaysStored' /\ TakeoverLoadsAllSaved'
  BY <1>1, <1>2 DEF Fence, SavedStaysStored, TakeoverLoadsAllSaved, Granted
<1> QED
  BY <1>3, <1>4, <1>5, <1>6 DEF Fence

LEMMA FenceChange ==
  ASSUME Fence, TypeOK', NEW o \in Operations, ChangeStacks(o)
  PROVE  Fence'
<1> DEFINE u == TargetOf[o]
<1>1. TypeOK /\ u \in Universes
  BY OperationAssumption DEF Fence
<1>2. /\ profile'[u].epoch = profile[u].epoch + 1
      /\ profile'[u].commitSeq = profile[u].commitSeq
      /\ profile'[u].value = [epoch |-> profile[u].epoch + 1, seq |-> 0]
      /\ \A v \in Universes : v # u => profile'[v] = profile[v]
  <2>1. profile' = [profile EXCEPT ![u] = Changed(profile[u])]
    BY DEF ChangeStacks
  <2> HIDE DEF u
  <2> QED
    BY <1>1, <2>1 DEF Changed, TypeOK, Profile
<1>3. session' = session
  BY DEF ChangeStacks
<1> HIDE DEF u
<1>4. GrantedInOrder'
  BY <1>1, <1>2, <1>3, FenceTypes DEF Fence, GrantedInOrder, Granted
<1>5. ValueBehindEpoch'
  BY <1>1, <1>2, FenceTypes DEF Fence, ValueBehindEpoch, NotAfter
<1>6. SequenceIsStored'
  BY <1>1, <1>2, <1>3, FenceTypes DEF Fence, SequenceIsStored, GrantedInOrder, Granted
<1>7. SavedStaysStored'
  <2> SUFFICES ASSUME NEW v \in Universes, NEW f \in Epochs, session[v][f].saved > 0
               PROVE  NotAfter([epoch |-> f, seq |-> session[v][f].saved], profile'[v].value)
    BY <1>3 DEF SavedStaysStored
  <2>1. CASE v = u
    <3>1. f < profile[u].epoch + 1
      BY <1>1, <2>1, FenceTypes DEF Fence, GrantedInOrder
    <3> QED
      BY <1>2, <2>1, <3>1 DEF NotAfter
  <2>2. CASE v # u
    BY <1>2, <2>2 DEF Fence, SavedStaysStored
  <2> QED
    BY <2>1, <2>2
<1>8. TakeoverLoadsAllSaved'
  BY <1>3 DEF Fence, TakeoverLoadsAllSaved, Granted
<1> QED
  BY <1>4, <1>5, <1>6, <1>7, <1>8 DEF Fence

LEMMA FenceStep == Fence /\ [Next]_vars => Fence'
<1> SUFFICES ASSUME Fence, [Next]_vars PROVE Fence'
  OBVIOUS
<1>1. TypeOK /\ TypeOK'
  BY TypeOKStep DEF Fence
<1>2. CASE Next
  BY <1>1, <1>2, StepKinds, FenceSilent, FenceTake, FenceDuplicate, FenceCommit, FenceRaise, FenceChange
<1>3. CASE UNCHANGED vars
  <2>1. Silent
    BY <1>3, UnchangedIsSilent DEF vars, sessionVars
  <2> QED
    BY <1>1, <2>1, FenceSilent
<1> QED
  BY <1>2, <1>3

(* The inductive invariant holds of every behaviour.                       *)
THEOREM FenceHolds == Spec => []Fence
<1> QED
  BY InitFence, FenceStep, PTL DEF Spec

(* What the engine answered as stored stays stored, in any interleaving of *)
(* takeovers, late or repeated commits, and operator changes.              *)
THEOREM SavedIsKept == Spec => []SavedStaysStored
<1>1. Fence => SavedStaysStored
  BY DEF Fence
<1> QED
  BY <1>1, FenceHolds, PTL

(* A takeover loads everything any older session was told is stored.       *)
THEOREM TakeoverIsComplete == Spec => []TakeoverLoadsAllSaved
<1>1. Fence => TakeoverLoadsAllSaved
  BY DEF Fence
<1> QED
  BY <1>1, FenceHolds, PTL

-----------------------------------------------------------------------------
(***************************************************************************)
(* Refinement: a profile is a register only its current epoch writes.      *)
(***************************************************************************)
Epoch == [u \in Universes |-> profile[u].epoch]
Value == [u \in Universes |-> profile[u].value]

(* How a change of one profile shows in the register.                      *)
LEMMA RegisterEffect ==
  ASSUME TypeOK, NEW u \in Universes, NEW p \in Profile, profile' = [profile EXCEPT ![u] = p]
  PROVE  /\ Epoch' = [Epoch EXCEPT ![u] = p.epoch]
         /\ Value' = [Value EXCEPT ![u] = p.value]
         /\ Epoch[u] = profile[u].epoch /\ Value[u] = profile[u].value
         /\ p.epoch = profile[u].epoch => Epoch' = Epoch
         /\ p.value = profile[u].value => Value' = Value
<1>1. profile \in [Universes -> Profile]
  BY DEF TypeOK
<1>2. Epoch' = [v \in Universes |-> profile'[v].epoch] /\ Value' = [v \in Universes |-> profile'[v].value]
  BY DEF Epoch, Value
<1>3. \A v \in Universes : profile'[v] = IF v = u THEN p ELSE profile[v]
  BY <1>1
<1>4. /\ Epoch' = [v \in Universes |-> IF v = u THEN p.epoch ELSE profile[v].epoch]
      /\ Value' = [v \in Universes |-> IF v = u THEN p.value ELSE profile[v].value]
  BY <1>2, <1>3
<1>5. /\ [Epoch EXCEPT ![u] = p.epoch]
           = [v \in Universes |-> IF v = u THEN p.epoch ELSE profile[v].epoch]
      /\ [Value EXCEPT ![u] = p.value]
           = [v \in Universes |-> IF v = u THEN p.value ELSE profile[v].value]
  BY DEF Epoch, Value
<1>6. p.epoch = profile[u].epoch => Epoch' = Epoch
  BY <1>4 DEF Epoch
<1>7. p.value = profile[u].value => Value' = Value
  BY <1>4 DEF Value
<1> QED
  BY <1>4, <1>5, <1>6, <1>7 DEF Epoch, Value

LEMMA RegisterInit == Init => Register!Init
  BY DEF Init, Register!Init, NoStamp

LEMMA RegisterKeeps ==
  ASSUME profile' = profile
  PROVE  UNCHANGED <<Epoch, Value>>
  BY DEF Epoch, Value

LEMMA RegisterTake ==
  ASSUME TypeOK, NEW u \in Universes, NEW p \in Profile, profile' = [profile EXCEPT ![u] = p],
         p.epoch = profile[u].epoch + 1, p.value = profile[u].value
  PROVE  Register!Next
<1>1. Epoch' = [Epoch EXCEPT ![u] = Epoch[u] + 1] /\ Value' = Value
  <2>1. Epoch' = [Epoch EXCEPT ![u] = p.epoch] /\ Epoch[u] = profile[u].epoch /\ Value' = Value
    BY RegisterEffect
  <2>2. p.epoch = Epoch[u] + 1
    BY <2>1
  <2> QED
    BY <2>1, <2>2
<1>2. Register!Take(u)
  BY <1>1 DEF Register!Take, Epoch, Value
<1> QED
  BY <1>2 DEF Register!Next

LEMMA RegisterStep ==
  ASSUME Fence, [Next]_vars
  PROVE  [Register!Next]_(<<Epoch, Value>>)
<1>1. TypeOK
  BY DEF Fence
<1>2. CASE Silent \/ UNCHANGED vars
  BY <1>2, RegisterKeeps DEF Silent, vars, sessionVars
<1>3. ASSUME NEW c \in Conns, TakeLease(c) PROVE Register!Next
  <2> DEFINE u == UniverseOfConn(c)
  <2>1. u \in Universes
    BY ServerAssumption, UniverseAssumption DEF UniverseOfConn
  <2>2. profile[u] \in Profile /\ profile' = [profile EXCEPT ![u] = Taken(profile[u])]
    BY <1>1, <1>3, <2>1 DEF TypeOK, TakeLease
  <2>3. Taken(profile[u]).epoch = profile[u].epoch + 1 /\ Taken(profile[u]).value = profile[u].value
    BY <2>2 DEF Taken, Profile
  <2>4. profile[u].epoch < MaxEpoch
    <3>1. Taken(profile[u]).epoch <= MaxEpoch
      BY <1>3 DEF TakeLease
    <3> QED
      BY <1>1, <2>1, <2>3, <3>1, FenceTypes, BoundAssumption
  <2> HIDE DEF u
  <2> QED
    BY <1>1, <2>1, <2>2, <2>3, <2>4, ProfileSteps, RegisterTake
<1>4. ASSUME NEW u \in Universes, RaiseEpoch(u) PROVE Register!Next
  <2> DEFINE p == [profile[u] EXCEPT !.epoch = profile[u].epoch + 1]
  <2>1. profile[u] \in Profile /\ profile' = [profile EXCEPT ![u] = p]
    BY <1>1, <1>4 DEF RaiseEpoch, TypeOK
  <2>2. p \in Profile /\ p.epoch = profile[u].epoch + 1 /\ p.value = profile[u].value
    BY <1>4, <2>1, ProfileSteps DEF RaiseEpoch, Profile
  <2> HIDE DEF p
  <2> QED
    BY <1>1, <2>1, <2>2, RegisterTake
<1>5. ASSUME NEW u \in Universes, NEW e \in Epochs, NEW n \in Sent(u, e), NEW moved \in Moves,
             CommitState(u, e, n, moved)
      PROVE  Register!Next
  <2> DEFINE p == Written(profile[u], [epoch |-> e, seq |-> n])
  <2>1. profile[u] \in Profile /\ profile' = [profile EXCEPT ![u] = p]
    BY <1>1, <1>5 DEF CommitState, TypeOK
  <2>2. n \in 1..MaxSeq /\ n \in 0..MaxSeq /\ n \in Nat /\ e \in Nat
    <3>1. n \in 1..MaxSeq
      BY <1>1, SessionSteps DEF Sent, TypeOK
    <3> QED
      BY <3>1, BoundAssumption
  <2>3. p \in Profile /\ p.epoch = profile[u].epoch /\ p.value = [epoch |-> e, seq |-> n]
    BY <2>1, <2>2 DEF Written, Profile, Stamp
  <2>4. profile[u].epoch = e /\ profile[u].commitSeq < n
    BY <1>5 DEF CommitState, CommitAccepted
  <2> HIDE DEF p
  <2>5. Epoch' = Epoch /\ Value' = [Value EXCEPT ![u] = [epoch |-> Epoch[u], seq |-> n]]
    <3>1. /\ Epoch' = Epoch /\ Epoch[u] = e
          /\ Value' = [Value EXCEPT ![u] = p.value]
      BY <1>1, <2>1, <2>3, <2>4, RegisterEffect
    <3> QED
      BY <2>3, <3>1
  <2>6. profile[u].value.epoch = profile[u].epoch => n > profile[u].value.seq
    BY <1>1, <2>2, <2>4, FenceTypes DEF Fence, ValueBehindEpoch, NotAfter, Stamp
  <2>7. Register!Write(u, n)
    BY <2>5, <2>6 DEF Register!Write, Epoch, Value
  <2> QED
    BY <2>2, <2>7 DEF Register!Next
<1>6. ASSUME NEW o \in Operations, ChangeStacks(o) PROVE Register!Next
  <2> DEFINE u == TargetOf[o]
  <2>1. u \in Universes /\ profile[u] \in Profile
    BY <1>1, OperationAssumption DEF TypeOK
  <2>2. profile' = [profile EXCEPT ![u] = Changed(profile[u])]
    BY <1>6 DEF ChangeStacks
  <2>3. /\ Changed(profile[u]).epoch = profile[u].epoch + 1
        /\ Changed(profile[u]).value = [epoch |-> profile[u].epoch + 1, seq |-> 0]
    BY <2>1 DEF Changed, Profile
  <2>4. profile[u].epoch < MaxEpoch
    <3>1. Changed(profile[u]).epoch <= MaxEpoch
      BY <1>6 DEF ChangeStacks
    <3> QED
      BY <1>1, <2>1, <2>3, <3>1, FenceTypes, BoundAssumption
  <2> HIDE DEF u
  <2>5. /\ Epoch' = [Epoch EXCEPT ![u] = Epoch[u] + 1]
        /\ Value' = [Value EXCEPT ![u] = [epoch |-> Epoch[u] + 1, seq |-> 0]]
    <3> DEFINE p == Changed(profile[u])
    <3>1. p \in Profile
      BY <2>1, <2>4, ProfileSteps
    <3>2. /\ Epoch' = [Epoch EXCEPT ![u] = p.epoch] /\ Epoch[u] = profile[u].epoch
          /\ Value' = [Value EXCEPT ![u] = p.value]
      BY <1>1, <2>1, <2>2, <3>1, RegisterEffect
    <3> HIDE DEF p
    <3>3. p.epoch = Epoch[u] + 1 /\ p.value = [epoch |-> Epoch[u] + 1, seq |-> 0]
      BY <2>3, <3>2 DEF p
    <3> QED
      BY <3>2, <3>3
  <2>6. Register!Change(u)
    BY <2>1, <2>5 DEF Register!Change, Epoch, Value
  <2> QED
    BY <2>1, <2>6 DEF Register!Next
<1> QED
  BY <1>1, <1>2, <1>3, <1>4, <1>5, <1>6, StepKinds, RegisterKeeps DEF CommitDuplicate

(* PlayerSession implements the fenced register, for every instance.       *)
THEOREM SessionImplementsRegister == Spec => ImplementsRegister
<1>1. <<Epoch, Value>> = Register!registerVars
  BY DEF Register!registerVars, Epoch, Value
<1>2. Fence /\ [Next]_vars => [Register!Next]_(Register!registerVars)
  BY <1>1, RegisterStep DEF Register!registerVars, Epoch, Value
<1> QED
  BY <1>2, RegisterInit, FenceHolds, PTL DEF Spec, ImplementsRegister, Register!Spec
=============================================================================
