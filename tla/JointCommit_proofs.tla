------------------------- MODULE JointCommit_proofs -------------------------
(***************************************************************************)
(* Proofs about JointCommit, for every value of its constants: what the    *)
(* engine and the servers know of the operations agrees.                   *)
(***************************************************************************)
EXTENDS JointCommit, TLAPS

-----------------------------------------------------------------------------
(***************************************************************************)
(* What a server sends.                                                    *)
(***************************************************************************)
(* A trade is between two players and what one gives the other gets; a     *)
(* drop gives without getting; a pickup gets the units of a record of the  *)
(* server's world.                                                         *)
Shape(kind, server, P, gives, gets, claim) ==
    /\ kind = "trade" =>
          claim = NoOp /\ \E p, q \in Players :
             p # q /\ P = {p, q} /\ gets[p] = gives[q] /\ gets[q] = gives[p]
    /\ kind = "drop" =>
          claim = NoOp /\ \E p \in Players : P = {p} /\ gets[p] = {}
    /\ kind = "pickup" =>
          /\ claim \in Ops /\ drops[claim].status # "none" /\ drops[claim].world = WorldOf[server]
          /\ \E p \in Players : P = {p} /\ gives[p] = {} /\ gets[p] = drops[claim].goods

Sending(o) ==
    \E kind \in OperationKinds, server \in Servers, P \in SUBSET Players, epoch \in [Players -> Epochs],
       gives \in [Players -> SUBSET Units], gets \in [Players -> SUBSET Units], claim \in Ops \cup {NoOp} :
         Send(o, kind, server, P, epoch, gives, gets, claim) /\ Shape(kind, server, P, gives, gets, claim)

Tokens == \A s \in Servers : \A d \in tokens[s] :
    drops[d].status # "none" /\ drops[d].world = WorldOf[s]

LEMMA SharesTyped ==
  ASSUME NEW p \in Players, NEW units \in SUBSET Units
  PROVE  /\ Share(p, units) \in [Players -> SUBSET Units]
         /\ Share(p, units)[p] = units
         /\ Nothing \in [Players -> SUBSET Units]
         /\ Nothing[p] = {}
  BY DEF Share, Nothing

LEMMA SendOperationIsSending ==
  ASSUME tokens \in [Servers -> SUBSET Ops], drops \in [Ops -> Drop], Tokens,
         NEW o \in Ops, SendOperation(o)
  PROVE  Sending(o)
<1>1. PICK s \in Servers, p \in Players, e \in Epochs :
         \/ \E q \in Players, f \in Epochs, give \in SUBSET Units, take \in SUBSET Units :
               Trade(o, s, p, e, give, q, f, take)
         \/ \E stack \in Stacks : DropStack(o, s, p, e, stack)
         \/ \E d \in Ops : PickUp(o, s, p, e, d)
  BY DEF SendOperation
<1>2. ASSUME NEW q \in Players, NEW f \in Epochs, NEW give \in SUBSET Units,
             NEW take \in SUBSET Units, Trade(o, s, p, e, give, q, f, take)
      PROVE  Sending(o)
  <2> DEFINE epoch == [x \in Players |-> IF x = p THEN e ELSE f]
             gives == [Share(p, give) EXCEPT ![q] = take]
             gets == [Share(p, take) EXCEPT ![q] = give]
  <2>1. /\ p # q /\ Send(o, "trade", s, {p, q}, epoch, gives, gets, NoOp)
    BY <1>2 DEF Trade
  <2>2. /\ gives \in [Players -> SUBSET Units] /\ gets \in [Players -> SUBSET Units]
        /\ gets[p] = gives[q] /\ gets[q] = gives[p]
    BY <2>1, SharesTyped
  <2>3. epoch \in [Players -> Epochs]
    OBVIOUS
  <2> HIDE DEF epoch, gives, gets
  <2>4. Shape("trade", s, {p, q}, gives, gets, NoOp)
    BY <2>1, <2>2 DEF Shape
  <2> QED
    BY <2>1, <2>2, <2>3, <2>4 DEF Sending, OperationKinds
<1>3. ASSUME NEW stack \in Stacks, DropStack(o, s, p, e, stack) PROVE Sending(o)
  <2> DEFINE epoch == [x \in Players |-> e]
             gives == Share(p, {stack})
  <2>1. Send(o, "drop", s, {p}, epoch, gives, Nothing, NoOp)
    BY <1>3 DEF DropStack
  <2>2. {stack} \in SUBSET Units
    BY DEF Units
  <2>3. /\ gives \in [Players -> SUBSET Units] /\ Nothing \in [Players -> SUBSET Units]
        /\ Nothing[p] = {}
    BY <2>2, SharesTyped
  <2>4. epoch \in [Players -> Epochs]
    OBVIOUS
  <2> HIDE DEF epoch, gives
  <2>5. Shape("drop", s, {p}, gives, Nothing, NoOp)
    BY <2>3 DEF Shape
  <2> QED
    BY <2>1, <2>3, <2>4, <2>5 DEF Sending, OperationKinds
<1>4. ASSUME NEW d \in Ops, PickUp(o, s, p, e, d) PROVE Sending(o)
  <2> DEFINE epoch == [x \in Players |-> e]
             gets == Share(p, drops[d].goods)
  <2>1. d \in tokens[s] /\ Send(o, "pickup", s, {p}, epoch, Nothing, gets, d)
    BY <1>4 DEF PickUp
  <2>2. drops[d].goods \in SUBSET Units
    BY DEF Drop
  <2>3. /\ gets \in [Players -> SUBSET Units] /\ Nothing \in [Players -> SUBSET Units]
        /\ Nothing[p] = {} /\ gets[p] = drops[d].goods
    BY <2>2, SharesTyped
  <2>4. epoch \in [Players -> Epochs]
    OBVIOUS
  <2> HIDE DEF epoch, gets
  <2>5. Shape("pickup", s, {p}, Nothing, gets, d)
    BY <2>1, <2>3 DEF Shape, Tokens
  <2> QED
    BY <2>1, <2>3, <2>4, <2>5 DEF Sending, OperationKinds
<1> QED
  BY <1>1, <1>2, <1>3, <1>4

-----------------------------------------------------------------------------
(***************************************************************************)
(* The steps by what they write.                                           *)
(***************************************************************************)
Acquires == \E p \in Players, s \in Servers : Acquire(p, s)
Restarts == \E s \in Servers : Restart(s)
Captures == \E p \in Players, e \in Epochs : Capture(p, e)
Falls == \E p \in Players, e \in Epochs, u \in Coins : Fall(p, e, u)
Finds == \E p \in Players, e \in Epochs : \E f \in fallen : Find(p, e, f)
Commits == \E c \in commits : CommitState(c)
Sends == \E o \in Ops : SendOperation(o)
Applies == \E o \in Ops : request[o] # NoRequest /\ ApplyStates(o, request[o])
Learns == \E o \in Ops : \E a \in answers[o] : Learn(o, a)

(* A step that writes only the answers of an operation.                    *)
Refuses == \E o \in Ops :
    /\ request[o] # NoRequest
    /\ \/ AnswerDuplicate(o)
       \/ \E p \in request[o].parties : RefuseStates(o, request[o], p)
       \/ AnswerDropGone(o, request[o])

LEMMA NextSteps ==
  ASSUME [Next]_vars
  PROVE  \/ Acquires \/ Restarts \/ Captures \/ Falls \/ Finds \/ Commits \/ Sends
         \/ Applies \/ Learns \/ Refuses \/ UNCHANGED vars
         \/ \E p \in Players : LeaseExpires(p)
         \/ \E o \in Ops : DropExpires(o) \/ RecordExpires(o)
<1>1. CASE Next
  <2>1. ASSUME NEW o \in Ops, CommitStates(o) PROVE Refuses \/ Applies
    BY <2>1 DEF CommitStates, Refuses, Applies
  <2> QED
    BY <1>1, <2>1 DEF Next, Acquires, Restarts, Captures, Falls, Finds, Commits, Sends, Learns
<1> QED
  BY <1>1

LEMMA SendLeaves ==
  ASSUME NEW o, SendOperation(o)
  PROVE  UNCHANGED <<engineVars, commits, answers, tokens, fallen>>
<1>1. ASSUME NEW kind, NEW server, NEW P, NEW epoch, NEW gives, NEW gets, NEW claim,
             Send(o, kind, server, P, epoch, gives, gets, claim)
      PROVE  UNCHANGED <<engineVars, commits, answers, tokens, fallen>>
  BY <1>1 DEF Send
<1> DEFINE Leaves == UNCHANGED <<engineVars, commits, answers, tokens, fallen>>
<1>2. ASSUME NEW s, NEW p, NEW e, NEW q, NEW f, NEW give, NEW take,
             Trade(o, s, p, e, give, q, f, take)
      PROVE  Leaves
  BY <1>1, <1>2 DEF Trade
<1>3. ASSUME NEW s, NEW p, NEW e, NEW stack, DropStack(o, s, p, e, stack) PROVE Leaves
  BY <1>1, <1>3 DEF DropStack
<1>4. ASSUME NEW s, NEW p, NEW e, NEW d, PickUp(o, s, p, e, d) PROVE Leaves
  BY <1>1, <1>4 DEF PickUp
<1> HIDE DEF Leaves
<1>5. Leaves
  BY <1>2, <1>3, <1>4 DEF SendOperation
<1> QED
  BY <1>5 DEF Leaves

(* Which steps write each variable.                                        *)
LEMMA Frames ==
  ASSUME [Next]_vars
  PROVE  /\ profile' = profile \/ Acquires \/ Commits \/ Applies
         /\ lease' = lease \/ Acquires \/ \E p \in Players : LeaseExpires(p)
         /\ record' = record \/ Applies \/ \E o \in Ops : RecordExpires(o)
         /\ drops' = drops \/ Applies \/ \E o \in Ops : DropExpires(o)
         /\ commits' = commits \/ Captures
         /\ request' = request \/ Sends \/ Learns
         /\ answers' = answers \/ Refuses \/ Applies \/ Learns
         /\ \/ session' = session \/ Acquires \/ Restarts \/ Captures \/ Falls \/ Finds
            \/ Commits \/ Sends \/ Learns
         /\ tokens' = tokens \/ Restarts \/ Learns
         /\ fallen' = fallen \/ Restarts \/ Falls \/ Finds
<1> USE DEF engineVars, wireVars, serverVars
<1>1. CASE Acquires
  BY <1>1 DEF Acquires, Acquire
<1>2. CASE Restarts
  BY <1>2 DEF Restarts, Restart
<1>3. CASE Captures
  BY <1>3 DEF Captures, Capture
<1>4. CASE Falls
  BY <1>4 DEF Falls, Fall
<1>5. CASE Finds
  BY <1>5 DEF Finds, Find
<1>6. CASE Commits
  BY <1>6 DEF Commits, CommitState
<1>7. CASE Sends
  <2>1. PICK o \in Ops : SendOperation(o)
    BY <1>7 DEF Sends
  <2>2. UNCHANGED <<engineVars, commits, answers, tokens, fallen>>
    BY <2>1, SendLeaves
  <2> QED
    BY <1>7, <2>2
<1>8. CASE Applies
  BY <1>8 DEF Applies, ApplyStates
<1>9. CASE Learns
  BY <1>9 DEF Learns, Learn
<1>10. CASE Refuses
  BY <1>10 DEF Refuses, AnswerDuplicate, RefuseStates, AnswerDropGone
<1>11. CASE \E p \in Players : LeaseExpires(p)
  BY <1>11 DEF LeaseExpires
<1>12. CASE \E o \in Ops : DropExpires(o)
  BY <1>12 DEF DropExpires
<1>13. CASE \E o \in Ops : RecordExpires(o)
  BY <1>13 DEF RecordExpires
<1>14. CASE UNCHANGED vars
  BY <1>14 DEF vars
<1> QED
  BY NextSteps, <1>1, <1>2, <1>3, <1>4, <1>5, <1>6, <1>7, <1>8, <1>9, <1>10, <1>11, <1>12, <1>13, <1>14


-----------------------------------------------------------------------------
(***************************************************************************)
(* The invariant: types, and what engine and servers know of each other.   *)
(***************************************************************************)
Types ==
    /\ profile \in [Players -> Profile]
    /\ lease \in [Players -> Lease \cup {NoLease}]
    /\ record \in [Ops -> {"none", "kept", "expired"}]
    /\ drops \in [Ops -> Drop]
    /\ commits \in SUBSET Commit
    /\ request \in [Ops -> Request \cup {NoRequest}]
    /\ answers \in [Ops -> SUBSET Answer]
    /\ session \in [Players -> [Epochs -> Session \cup {NoSession}]]
    /\ tokens \in [Servers -> SUBSET Ops]
    /\ fallen \in SUBSET Fallen

(* A session is of an epoch its profile had, what it saved it captured,    *)
(* and the engine applied nothing of it that was not captured.             *)
SessionsKnown == \A p \in Players, e \in Epochs : session[p][e] # NoSession =>
    /\ e <= profile[p].epoch
    /\ session[p][e].state = "done" => session[p][e].op = NoOp
    /\ session[p][e].state = "playing" =>
          /\ session[p][e].saved <= session[p][e].captured
          /\ session[p][e].captured <= MaxSeq[p]
          /\ e = profile[p].epoch => profile[p].commitSeq <= session[p][e].captured

(* The lease is of the newest session and of its server's world.           *)
LeaseKnown == \A p \in Players : lease[p] # NoLease =>
    /\ lease[p].epoch \in Epochs /\ lease[p].epoch = profile[p].epoch
    /\ session[p][lease[p].epoch] # NoSession
    /\ lease[p].world = WorldOf[session[p][lease[p].epoch].server]

CommitsKnown == \A c \in commits :
    /\ c.epoch \in Epochs /\ session[c.player][c.epoch] # NoSession
    /\ 0 < c.seq /\ c.seq <= MaxSeq[c.player]
    /\ session[c.player][c.epoch].state = "playing" => c.seq <= session[c.player][c.epoch].captured

Waiting(o) == request[o] # NoRequest /\ request[o].status = "waits"

(* A session waits for an operation it is a party of.                      *)
OpsKnown == \A p \in Players, e \in Epochs :
    session[p][e] # NoSession /\ session[p][e].op # NoOp =>
       /\ session[p][e].state = "playing"
       /\ Waiting(session[p][e].op)
       /\ p \in request[session[p][e].op].parties
       /\ request[session[p][e].op].epoch[p] = e
       /\ request[session[p][e].op].seq[p] = session[p][e].captured
       /\ record[session[p][e].op] # "expired"

(* The commits of an operation are of sessions of its server, and what     *)
(* they gave is not among their goods unless they get it.                  *)
PartiesKnown == \A o \in Ops : request[o] # NoRequest =>
    /\ request[o].parties # {}
    /\ \A p \in request[o].parties :
        /\ request[o].epoch[p] \in Epochs
        /\ session[p][request[o].epoch[p]] # NoSession
        /\ session[p][request[o].epoch[p]].server = request[o].server
        /\ 0 < request[o].seq[p] /\ request[o].seq[p] <= MaxSeq[p]
        /\ session[p][request[o].epoch[p]].state = "playing" =>
              request[o].seq[p] <= session[p][request[o].epoch[p]].captured
        /\ request[o].goods[p] \cap request[o].gives[p] \subseteq request[o].gets[p]
        /\ request[o].gets[p] \subseteq request[o].goods[p]

Shapes == \A o \in Ops : request[o] # NoRequest =>
    Shape(request[o].kind, request[o].server, request[o].parties,
          request[o].gives, request[o].gets, request[o].claim)

(* The engine can never again accept the request of an operation.          *)
DoomedParty(o, p) ==
    \/ request[o].epoch[p] < profile[p].epoch
    \/ profile[p].commitSeq >= request[o].seq[p]
    \/ ~LeaseNames(p, request[o].epoch[p])

Doomed(o) ==
    \/ \E p \in request[o].parties : DoomedParty(o, p)
    \/ request[o].claim # NoOp /\ drops[request[o].claim].status # "public"

AnswerTrue(o, a) == IF IsApplied(a) THEN record[o] # "none" ELSE record[o] = "none" /\ Doomed(o)

(* What was answered, and what a server took for the outcome, is true and  *)
(* stays true; what was applied is behind each of its profiles.            *)
Outcomes == \A o \in Ops : request[o] # NoRequest =>
    /\ request[o].status = "applied" => record[o] # "none"
    /\ request[o].status = "refused" => record[o] = "none" /\ Doomed(o)
    /\ record[o] # "none" => \A p \in request[o].parties :
          request[o].epoch[p] < profile[p].epoch \/ request[o].seq[p] <= profile[p].commitSeq
    /\ record[o] = "expired" => \A p \in request[o].parties : ~Waits(o, p)
    /\ \A a \in answers[o] : AnswerTrue(o, a)

(* Until its outcome is known each session of an operation waits for it or *)
(* is done, and what it captured last is its commit in the operation.      *)
WaitsOrDone == \A o \in Ops : Waiting(o) => \A p \in request[o].parties :
    /\ \/ session[p][request[o].epoch[p]].op = o
       \/ session[p][request[o].epoch[p]].state = "done"
    /\ \A c \in commits : c.player = p /\ c.epoch = request[o].epoch[p] => c.seq < request[o].seq[p]
    /\ \A x \in Ops : Waiting(x) /\ p \in request[x].parties /\ request[x].epoch[p] = request[o].epoch[p]
          => x = o

Records == \A o \in Ops :
    /\ request[o] = NoRequest => record[o] = "none" /\ answers[o] = {}
    /\ record[o] = "none" => drops[o].status = "none"
    /\ record[o] # "none" /\ request[o].kind = "drop" =>
          drops[o].status # "none" /\ drops[o].world = WorldOf[request[o].server]

Books == /\ SessionsKnown /\ LeaseKnown /\ CommitsKnown /\ OpsKnown /\ PartiesKnown
         /\ Shapes /\ Outcomes /\ WaitsOrDone /\ Records /\ Tokens

Known == Types /\ Books

-----------------------------------------------------------------------------
(***************************************************************************)
(* What the operators return.                                              *)
(***************************************************************************)
LEMMA SessionFields ==
  ASSUME NEW s \in Session
  PROVE  /\ s # NoSession
         /\ s.state \in {"playing", "done"} /\ s.server \in Servers /\ s.goods \in SUBSET Units
         /\ s.captured \in Nat /\ s.saved \in Nat /\ s.op \in Ops \cup {NoOp}
  BY NoRecordAssumption DEF Session

LEMMA DoneFields ==
  ASSUME NEW s \in Session
  PROVE  /\ Done(s) \in Session
         /\ Done(s).state = "done" /\ Done(s).server = s.server /\ Done(s).goods = {}
         /\ Done(s).captured = 0 /\ Done(s).saved = s.saved /\ Done(s).op = NoOp
  BY DEF Done, Session

LEMMA GivingFields ==
  ASSUME NEW s \in Session, NEW units, NEW o \in Ops
  PROVE  /\ Giving(s, units, o) \in Session
         /\ Giving(s, units, o).state = s.state /\ Giving(s, units, o).server = s.server
         /\ Giving(s, units, o).goods = s.goods \ units
         /\ Giving(s, units, o).captured = s.captured + 1
         /\ Giving(s, units, o).saved = s.saved /\ Giving(s, units, o).op = o
<1> DEFINE n == s.captured + 1
           g == s.goods \ units
<1>1. n \in Nat /\ g \in SUBSET Units
  BY DEF Session
<1>2. Giving(s, units, o) = [s EXCEPT !.goods = g, !.captured = n, !.op = o]
  BY DEF Giving
<1> HIDE DEF n, g
<1>3. /\ Giving(s, units, o) \in Session
      /\ Giving(s, units, o).state = s.state /\ Giving(s, units, o).server = s.server
      /\ Giving(s, units, o).goods = g /\ Giving(s, units, o).captured = n
      /\ Giving(s, units, o).saved = s.saved /\ Giving(s, units, o).op = o
  BY <1>1, <1>2 DEF Session
<1> QED
  BY <1>3 DEF n, g

LEMMA GoodsFields ==
  ASSUME NEW s \in Session, NEW units \in SUBSET Units
  PROVE  LET g == [s EXCEPT !.goods = units] IN
         /\ g \in Session /\ g.state = s.state /\ g.server = s.server /\ g.goods = units
         /\ g.captured = s.captured /\ g.saved = s.saved /\ g.op = s.op
  BY DEF Session

LEMMA CapturedFields ==
  ASSUME NEW s \in Session
  PROVE  LET g == [s EXCEPT !.captured = s.captured + 1] IN
         /\ g \in Session /\ g.state = s.state /\ g.server = s.server /\ g.goods = s.goods
         /\ g.captured = s.captured + 1 /\ g.saved = s.saved /\ g.op = s.op
  BY DEF Session

LEMMA SavedFields ==
  ASSUME NEW s \in Session, NEW n \in Nat
  PROVE  /\ Saved(s, n) \in Session
         /\ Saved(s, n).state = s.state /\ Saved(s, n).server = s.server
         /\ Saved(s, n).goods = s.goods /\ Saved(s, n).captured = s.captured
         /\ Saved(s, n).saved = IF s.saved < n THEN n ELSE s.saved
         /\ Saved(s, n).op = s.op
<1> DEFINE m == IF s.saved < n THEN n ELSE s.saved
<1>1. m \in Nat /\ Saved(s, n) = [s EXCEPT !.saved = m]
  BY DEF Saved, Session
<1> HIDE DEF m
<1>2. /\ Saved(s, n) \in Session
      /\ Saved(s, n).state = s.state /\ Saved(s, n).server = s.server
      /\ Saved(s, n).goods = s.goods /\ Saved(s, n).captured = s.captured
      /\ Saved(s, n).saved = m /\ Saved(s, n).op = s.op
  BY <1>1 DEF Session
<1> QED
  BY <1>2 DEF m

LEMMA FreedFields ==
  ASSUME NEW s \in Session, NEW units \in SUBSET Units
  PROVE  LET g == [s EXCEPT !.goods = units, !.op = NoOp] IN
         /\ g \in Session /\ g.state = s.state /\ g.server = s.server /\ g.goods = units
         /\ g.captured = s.captured /\ g.saved = s.saved /\ g.op = NoOp
  BY DEF Session

-----------------------------------------------------------------------------
(***************************************************************************)
(* What each action writes.                                                *)
(***************************************************************************)
Sessions == [Players -> [Epochs -> Session \cup {NoSession}]]

(* Nothing but the session of p at e changes.                              *)
OthersKept(p, e) == \A q \in Players, f \in Epochs :
    q # p \/ f # e => session'[q][f] = session[q][f]

LEMMA SessionOfIs ==
  ASSUME session \in Sessions, NEW p \in Players, NEW e \in Epochs, NEW s \in Session,
         session' = SessionOf(p, e, s)
  PROVE  /\ session' \in Sessions
         /\ session'[p][e] = s
         /\ OthersKept(p, e)
<1>1. session[p] \in [Epochs -> Session \cup {NoSession}]
  BY DEF Sessions
<1> DEFINE row == [session[p] EXCEPT ![e] = s]
<1>2. /\ row \in [Epochs -> Session \cup {NoSession}]
      /\ row[e] = s /\ \A f \in Epochs : f # e => row[f] = session[p][f]
  BY <1>1
<1>3. session' = [session EXCEPT ![p] = row]
  BY DEF SessionOf
<1> HIDE DEF row
<1>4. session' \in Sessions
  BY <1>2, <1>3 DEF Sessions
<1>5. session'[p] = row /\ \A q \in Players : q # p => session'[q] = session[q]
  BY <1>3 DEF Sessions
<1>6. OthersKept(p, e)
  BY <1>2, <1>5 DEF OthersKept
<1> QED
  BY <1>2, <1>4, <1>5, <1>6

LEMMA PartySessionsIs ==
  ASSUME session \in Sessions, NEW P \in SUBSET Players, NEW epoch \in [Players -> Nat], NEW after,
         \A p \in P : epoch[p] \in Epochs => after[p] \in Session,
         session' = PartySessions(P, epoch, after)
  PROVE  /\ session' \in Sessions
         /\ \A p \in P : epoch[p] \in Epochs => session'[p][epoch[p]] = after[p]
         /\ \A p \in Players, e \in Epochs :
               ~(p \in P /\ e = epoch[p]) => session'[p][e] = session[p][e]
<1>1. \A p \in Players, e \in Epochs :
         session'[p][e] = IF p \in P /\ e = epoch[p] THEN after[p] ELSE session[p][e]
  BY DEF PartySessions
<1>2. \A p \in Players, e \in Epochs : session'[p][e] \in Session \cup {NoSession}
  BY <1>1 DEF Sessions
<1>3. session' \in Sessions
  BY <1>2 DEF PartySessions, Sessions
<1> QED
  BY <1>1, <1>3

LEMMA AcquireEffect ==
  ASSUME Types, NEW p \in Players, NEW s \in Servers, Acquire(p, s)
  PROVE  LET e == profile[p].epoch + 1 IN
         /\ e \in Epochs
         /\ profile' \in [Players -> Profile]
         /\ profile'[p].epoch = e /\ profile'[p].commitSeq = 0 /\ profile'[p].goods = profile[p].goods
         /\ \A q \in Players : q # p => profile'[q] = profile[q]
         /\ lease' \in [Players -> Lease \cup {NoLease}]
         /\ lease'[p].epoch = e /\ lease'[p].world = WorldOf[s]
         /\ \A q \in Players : q # p => lease'[q] = lease[q]
         /\ session' \in Sessions
         /\ session'[p][e] \in Session
         /\ session'[p][e].state = "playing" /\ session'[p][e].server = s
         /\ session'[p][e].goods = profile[p].goods
         /\ session'[p][e].captured = 0 /\ session'[p][e].saved = 0 /\ session'[p][e].op = NoOp
         /\ OthersKept(p, e)
<1> DEFINE e == profile[p].epoch + 1
           l == [world |-> WorldOf[s], epoch |-> e]
           n == [state |-> "playing", server |-> s, goods |-> profile[p].goods,
                 captured |-> 0, saved |-> 0, op |-> NoOp]
<1>1. profile[p] \in Profile /\ session \in Sessions
  BY DEF Types, Sessions
<1>2. profile[p].epoch \in Nat /\ profile[p].goods \in SUBSET Units /\ profile[p].commitSeq \in Nat
  BY <1>1 DEF Profile
<1>3. Taken(profile[p]).epoch = e
  BY <1>1 DEF Taken, Profile
<1>4. e \in 0..MaxEpoch /\ e \in Epochs /\ e \in Nat
  <2>1. e <= MaxSessions[p] /\ MaxSessions[p] <= MaxEpoch /\ MaxSessions[p] \in Nat
    BY <1>3, BoundAssumption DEF Acquire
  <2> QED
    BY <1>2, <2>1, BoundAssumption DEF Epochs
<1> HIDE DEF e
<1>5. /\ Taken(profile[p]) \in Profile
      /\ Taken(profile[p]).commitSeq = 0 /\ Taken(profile[p]).goods = profile[p].goods
  BY <1>1, <1>2, <1>4 DEF Taken, Profile, e
<1>6. profile' = [profile EXCEPT ![p] = Taken(profile[p])]
  BY DEF Acquire
<1>7. /\ profile' \in [Players -> Profile]
      /\ profile'[p] = Taken(profile[p])
      /\ \A q \in Players : q # p => profile'[q] = profile[q]
  BY <1>5, <1>6 DEF Types
<1>8. l \in Lease /\ l.epoch = e /\ l.world = WorldOf[s]
  BY <1>4, WorldAssumption DEF Lease
<1>9. lease' = [lease EXCEPT ![p] = l]
  BY <1>3 DEF Acquire
<1>10. n \in Session /\ n.state = "playing" /\ n.server = s /\ n.goods = profile[p].goods
       /\ n.captured = 0 /\ n.saved = 0 /\ n.op = NoOp
  BY <1>2 DEF Session
<1>11. session' = SessionOf(p, e, n)
  BY <1>3 DEF Acquire
<1> HIDE DEF l, n
<1>12. /\ lease' \in [Players -> Lease \cup {NoLease}] /\ lease'[p] = l
       /\ \A q \in Players : q # p => lease'[q] = lease[q]
  BY <1>8, <1>9 DEF Types
<1>13. session' \in Sessions /\ session'[p][e] = n /\ OthersKept(p, e)
  BY <1>1, <1>4, <1>10, <1>11, SessionOfIs
<1> QED
  BY <1>3, <1>4, <1>5, <1>7, <1>8, <1>10, <1>12, <1>13 DEF e


LEMMA RestartEffect ==
  ASSUME Types, NEW s \in Servers, Restart(s)
  PROVE  /\ session' \in Sessions
         /\ \A p \in Players, e \in Epochs :
               \/ session'[p][e] = session[p][e]
               \/ session[p][e] \in Session /\ session'[p][e] = Done(session[p][e])
         /\ tokens' \in [Servers -> SUBSET Ops]
         /\ tokens'[s] = PublicDrops(WorldOf[s])
         /\ \A x \in Servers : x # s => tokens'[x] = tokens[x]
         /\ fallen' \in SUBSET Fallen /\ fallen' = {f \in fallen : f.server # s}
<1>1. \A p \in Players, e \in Epochs : session'[p][e] =
         IF Playing(p, e) /\ session[p][e].server = s THEN Done(session[p][e]) ELSE session[p][e]
  BY DEF Restart
<1>2. \A p \in Players, e \in Epochs : session[p][e] \in Session \cup {NoSession}
  BY DEF Types
<1>3. \A p \in Players, e \in Epochs :
         \/ session'[p][e] = session[p][e]
         \/ session[p][e] \in Session /\ session'[p][e] = Done(session[p][e])
  BY <1>1, <1>2 DEF Playing
<1>4. \A p \in Players, e \in Epochs : session'[p][e] \in Session \cup {NoSession}
  BY <1>2, <1>3, DoneFields
<1>5. session' \in Sessions
  BY <1>4 DEF Restart, Sessions
<1>6. PublicDrops(WorldOf[s]) \in SUBSET Ops
  BY DEF PublicDrops
<1>7. /\ tokens' \in [Servers -> SUBSET Ops]
      /\ tokens'[s] = PublicDrops(WorldOf[s])
      /\ \A x \in Servers : x # s => tokens'[x] = tokens[x]
  BY <1>6 DEF Restart, Types
<1>8. fallen' \in SUBSET Fallen /\ fallen' = {f \in fallen : f.server # s}
  BY DEF Restart, Types
<1> QED
  BY <1>3, <1>5, <1>7, <1>8

(* The coin that falls.                                                    *)
CoinOf(p, e, u) == [unit |-> u, server |-> session[p][e].server, player |-> p,
                    epoch |-> e, seq |-> session[p][e].captured + 1]

LEMMA CoinFields ==
  ASSUME NEW p \in Players, NEW e \in Epochs, NEW u \in Coins, session[p][e] \in Session
  PROVE  /\ CoinOf(p, e, u) \in Fallen
         /\ CoinOf(p, e, u).unit = u /\ CoinOf(p, e, u).server = session[p][e].server
         /\ CoinOf(p, e, u).player = p /\ CoinOf(p, e, u).epoch = e
         /\ CoinOf(p, e, u).seq = session[p][e].captured + 1
<1> DEFINE n == session[p][e].captured + 1
           s == session[p][e].server
<1>1. n \in Nat /\ s \in Servers /\ e \in Nat
  BY BoundAssumption, SessionFields DEF Epochs
<1>2. CoinOf(p, e, u) = [unit |-> u, server |-> s, player |-> p, epoch |-> e, seq |-> n]
  BY DEF CoinOf
<1> HIDE DEF n, s
<1>3. /\ CoinOf(p, e, u) \in Fallen
      /\ CoinOf(p, e, u).unit = u /\ CoinOf(p, e, u).server = s
      /\ CoinOf(p, e, u).player = p /\ CoinOf(p, e, u).epoch = e /\ CoinOf(p, e, u).seq = n
  BY <1>1, <1>2 DEF Fallen
<1> QED
  BY <1>3 DEF n, s

LEMMA FallEffect ==
  ASSUME Types, NEW p \in Players, NEW e \in Epochs, NEW u \in Coins, Fall(p, e, u)
  PROVE  LET s == session[p][e]
             t == session'[p][e]
         IN  /\ s \in Session /\ s.state = "playing" /\ u \in s.goods
             /\ session' \in Sessions
             /\ t \in Session /\ t.state = "playing" /\ t.server = s.server /\ t.goods = s.goods \ {u}
             /\ t.captured = s.captured /\ t.saved = s.saved /\ t.op = s.op
             /\ OthersKept(p, e)
             /\ fallen' = fallen \cup {CoinOf(p, e, u)} /\ fallen' \in SUBSET Fallen
<1> DEFINE s == session[p][e]
           t == [s EXCEPT !.goods = s.goods \ {u}]
<1>1. s \in Session /\ s.state = "playing" /\ u \in s.goods /\ session \in Sessions
  BY DEF Fall, Playing, Types, Sessions
<1>2. s.goods \ {u} \in SUBSET Units
  BY <1>1, SessionFields
<1>3. session' = SessionOf(p, e, t)
  BY DEF Fall
<1>4. fallen' = fallen \cup {CoinOf(p, e, u)}
  BY DEF Fall, CoinOf
<1> HIDE DEF s
<1>5. /\ t \in Session /\ t.state = s.state /\ t.server = s.server /\ t.goods = s.goods \ {u}
      /\ t.captured = s.captured /\ t.saved = s.saved /\ t.op = s.op
  BY <1>1, <1>2, GoodsFields
<1> HIDE DEF t
<1>6. session' \in Sessions /\ session'[p][e] = t /\ OthersKept(p, e)
  BY <1>1, <1>3, <1>5, SessionOfIs
<1>7. fallen' \in SUBSET Fallen
  BY <1>1, <1>4, CoinFields DEF Types, s
<1> QED
  BY <1>1, <1>4, <1>5, <1>6, <1>7 DEF s

LEMMA FindEffect ==
  ASSUME Types, NEW p \in Players, NEW e \in Epochs, NEW f \in fallen, Find(p, e, f)
  PROVE  LET s == session[p][e]
             t == session'[p][e]
         IN  /\ s \in Session /\ s.state = "playing" /\ Unlocked(f)
             /\ session' \in Sessions
             /\ t \in Session /\ t.state = "playing" /\ t.server = s.server
             /\ t.goods = s.goods \cup {f.unit}
             /\ t.captured = s.captured /\ t.saved = s.saved /\ t.op = s.op
             /\ OthersKept(p, e)
             /\ fallen' = fallen \ {f} /\ fallen' \in SUBSET Fallen
<1> DEFINE s == session[p][e]
           t == [s EXCEPT !.goods = s.goods \cup {f.unit}]
<1>1. s \in Session /\ s.state = "playing" /\ Unlocked(f) /\ session \in Sessions
  BY DEF Find, Playing, Types, Sessions
<1>2. s.goods \cup {f.unit} \in SUBSET Units
  BY <1>1, SessionFields DEF Types, Fallen, Units
<1>3. session' = SessionOf(p, e, t) /\ fallen' = fallen \ {f}
  BY DEF Find
<1> HIDE DEF s
<1>4. /\ t \in Session /\ t.state = s.state /\ t.server = s.server /\ t.goods = s.goods \cup {f.unit}
      /\ t.captured = s.captured /\ t.saved = s.saved /\ t.op = s.op
  BY <1>1, <1>2, GoodsFields
<1> HIDE DEF t
<1>5. session' \in Sessions /\ session'[p][e] = t /\ OthersKept(p, e)
  BY <1>1, <1>3, <1>4, SessionOfIs
<1>6. fallen' \in SUBSET Fallen
  BY <1>3 DEF Types
<1> QED
  BY <1>1, <1>3, <1>4, <1>5, <1>6 DEF s

(* The commit a session captures.                                          *)
CommitOf(p, e) == [player |-> p, epoch |-> e, seq |-> session[p][e].captured + 1,
                   goods |-> session[p][e].goods]

LEMMA CaptureEffect ==
  ASSUME Types, NEW p \in Players, NEW e \in Epochs, Capture(p, e)
  PROVE  LET s == session[p][e]
             t == session'[p][e]
             c == CommitOf(p, e)
         IN  /\ s \in Session /\ s.state = "playing" /\ s.op = NoOp /\ s.captured < MaxSeq[p]
             /\ session' \in Sessions
             /\ t \in Session /\ t.state = "playing" /\ t.server = s.server /\ t.goods = s.goods
             /\ t.captured = s.captured + 1 /\ t.saved = s.saved /\ t.op = NoOp
             /\ OthersKept(p, e)
             /\ commits' = commits \cup {c} /\ commits' \in SUBSET Commit
             /\ c.player = p /\ c.epoch = e /\ c.seq = s.captured + 1 /\ c.goods = s.goods
<1> DEFINE s == session[p][e]
           t == [s EXCEPT !.captured = s.captured + 1]
           n == s.captured + 1
           c == CommitOf(p, e)
<1>1. /\ s \in Session /\ s.state = "playing" /\ s.op = NoOp /\ s.captured < MaxSeq[p]
      /\ session \in Sessions
  BY DEF Capture, Free, Playing, Types, Sessions
<1>2. session' = SessionOf(p, e, t) /\ commits' = commits \cup {c}
  BY DEF Capture, CommitOf
<1>3. c = [player |-> p, epoch |-> e, seq |-> n, goods |-> s.goods]
  BY DEF CommitOf
<1>4. n \in Nat /\ s.goods \in SUBSET Units /\ e \in Nat
  BY <1>1, SessionFields, BoundAssumption DEF Epochs
<1> HIDE DEF s, c
<1>5. /\ t \in Session /\ t.state = s.state /\ t.server = s.server /\ t.goods = s.goods
      /\ t.captured = s.captured + 1 /\ t.saved = s.saved /\ t.op = s.op
  BY <1>1, CapturedFields
<1> HIDE DEF t, n
<1>6. session' \in Sessions /\ session'[p][e] = t /\ OthersKept(p, e)
  BY <1>1, <1>2, <1>5, SessionOfIs
<1>7. c \in Commit /\ c.player = p /\ c.epoch = e /\ c.seq = n /\ c.goods = s.goods
  BY <1>3, <1>4 DEF Commit
<1>8. commits' \in SUBSET Commit
  BY <1>2, <1>7 DEF Types
<1> QED
  BY <1>1, <1>2, <1>5, <1>6, <1>7, <1>8 DEF s, n, c


LEMMA CommitFields ==
  ASSUME Types, NEW c \in commits
  PROVE  c.player \in Players /\ c.epoch \in Nat /\ c.seq \in Nat /\ c.goods \in SUBSET Units
  BY DEF Types, Commit

LEMMA ProfileFields ==
  ASSUME Types, NEW p \in Players
  PROVE  /\ profile[p] \in Profile
         /\ profile[p].epoch \in 0..MaxEpoch /\ profile[p].epoch \in Nat
         /\ profile[p].commitSeq \in Nat /\ profile[p].goods \in SUBSET Units
  BY BoundAssumption DEF Types, Profile

LEMMA WriteCommitFields ==
  ASSUME Types, NEW p \in Players, NEW n \in Nat, NEW goods \in SUBSET Units
  PROVE  /\ WriteCommit(p, n, goods) \in Profile
         /\ WriteCommit(p, n, goods).epoch = profile[p].epoch
         /\ WriteCommit(p, n, goods).commitSeq = n
         /\ WriteCommit(p, n, goods).goods = goods
<1>1. profile[p] \in Profile
  BY DEF Types
<1> QED
  BY <1>1 DEF WriteCommit, Profile

LEMMA CheckCommitIs ==
  ASSUME NEW p, NEW e, NEW n
  PROVE  /\ CheckCommit(p, e, n) \in {"", "duplicate", "stale_session"}
         /\ CheckCommit(p, e, n) = "" =>
               profile[p].epoch = e /\ ~(profile[p].commitSeq >= n) /\ LeaseNames(p, e)
         /\ CheckCommit(p, e, n) = "duplicate" => profile[p].epoch = e /\ profile[p].commitSeq >= n
         /\ CheckCommit(p, e, n) = "stale_session" => profile[p].epoch # e \/ ~LeaseNames(p, e)
  BY DEF CheckCommit

LEMMA CommitEffect ==
  ASSUME Types, CommitsKnown, NEW c \in commits, CommitState(c)
  PROVE  LET p == c.player
             e == c.epoch
         IN  /\ p \in Players /\ e \in Epochs /\ session[p][e] \in Session
             /\ profile' \in [Players -> Profile]
             /\ \/ profile' = profile
                \/ /\ profile[p].epoch = e /\ profile[p].commitSeq < c.seq
                   /\ profile'[p].epoch = e /\ profile'[p].commitSeq = c.seq /\ profile'[p].goods = c.goods
                   /\ \A q \in Players : q # p => profile'[q] = profile[q]
             /\ session' \in Sessions
             /\ OthersKept(p, e)
             /\ \/ session'[p][e] = session[p][e]
                \/ session[p][e].state = "playing" /\ session'[p][e] = Done(session[p][e])
                \/ /\ session[p][e].state = "playing" /\ session'[p][e] = Saved(session[p][e], c.seq)
                   /\ profile'[p].epoch = e /\ profile'[p].commitSeq >= c.seq
<1> DEFINE p == c.player
           e == c.epoch
           s == session[p][e]
           result == CheckCommit(p, e, c.seq)
<1>1. p \in Players /\ c.seq \in Nat /\ c.goods \in SUBSET Units
  BY CommitFields
<1>2. e \in Epochs /\ s \in Session /\ session \in Sessions
  BY <1>1 DEF CommitsKnown, Types, Sessions
<1>3. /\ profile' = IF result = "" THEN [profile EXCEPT ![p] = WriteCommit(p, c.seq, c.goods)] ELSE profile
      /\ \/ session' = session
         \/ session' = SessionOf(p, e, Hear(c, result))
  BY DEF CommitState
<1>4. /\ profile[p].epoch \in Nat /\ profile[p].commitSeq \in Nat
      /\ WriteCommit(p, c.seq, c.goods) \in Profile
      /\ WriteCommit(p, c.seq, c.goods).epoch = profile[p].epoch
      /\ WriteCommit(p, c.seq, c.goods).commitSeq = c.seq
      /\ WriteCommit(p, c.seq, c.goods).goods = c.goods
  BY <1>1, WriteCommitFields, ProfileFields
<1>5. /\ result \in {"", "duplicate", "stale_session"}
      /\ result = "" => profile[p].epoch = e /\ ~(profile[p].commitSeq >= c.seq)
      /\ result = "duplicate" => profile[p].epoch = e /\ profile[p].commitSeq >= c.seq
  BY CheckCommitIs
<1>6. Hear(c, result) = IF s.state = "done" THEN s
                        ELSE IF result = "stale_session" THEN Done(s) ELSE Saved(s, c.seq)
  BY DEF Hear
<1> HIDE DEF result
<1>7. profile' \in [Players -> Profile]
  BY <1>1, <1>3, <1>4 DEF Types
<1>8. result = "" => /\ profile'[p] = WriteCommit(p, c.seq, c.goods)
                     /\ \A q \in Players : q # p => profile'[q] = profile[q]
  BY <1>1, <1>3 DEF Types
<1>9. \/ profile' = profile
      \/ /\ profile[p].epoch = e /\ profile[p].commitSeq < c.seq
         /\ profile'[p].epoch = e /\ profile'[p].commitSeq = c.seq /\ profile'[p].goods = c.goods
         /\ \A q \in Players : q # p => profile'[q] = profile[q]
  <2>1. CASE result = ""
    <3>1. ~(profile[p].commitSeq >= c.seq)
      BY <2>1, <1>5
    <3>2. profile[p].commitSeq \in Nat /\ c.seq \in Nat
      BY <1>1, <1>4
    <3>3. profile[p].commitSeq < c.seq
      BY <3>1, <3>2
    <3> QED
      BY <2>1, <3>3, <1>4, <1>5, <1>8
  <2> QED
    BY <2>1, <1>3
<1>10. result # "stale_session" => profile'[p].epoch = e /\ profile'[p].commitSeq >= c.seq
  <2>1. CASE result = ""
    <3>1. profile'[p].commitSeq = c.seq /\ profile'[p].epoch = e
      BY <2>1, <1>4, <1>5, <1>8
    <3> QED
      BY <3>1, <1>1
  <2>2. CASE result = "duplicate"
    <3>1. profile' = profile
      BY <2>2, <1>3
    <3> QED
      BY <2>2, <3>1, <1>5
  <2> QED
    BY <2>1, <2>2, <1>5
<1>11. /\ Hear(c, result) \in Session
       /\ \/ Hear(c, result) = s
          \/ s.state = "playing" /\ Hear(c, result) = Done(s)
          \/ s.state = "playing" /\ result # "stale_session" /\ Hear(c, result) = Saved(s, c.seq)
  BY <1>1, <1>2, <1>6, DoneFields, SavedFields, SessionFields
<1> HIDE DEF s
<1>12. ASSUME session' = SessionOf(p, e, Hear(c, result))
       PROVE  session' \in Sessions /\ session'[p][e] = Hear(c, result) /\ OthersKept(p, e)
  BY <1>1, <1>2, <1>11, <1>12, SessionOfIs
<1>13. session' \in Sessions /\ OthersKept(p, e)
  BY <1>2, <1>3, <1>12 DEF OthersKept
<1>14. \/ session'[p][e] = s
       \/ s.state = "playing" /\ session'[p][e] = Done(s)
       \/ /\ s.state = "playing" /\ session'[p][e] = Saved(s, c.seq)
          /\ profile'[p].epoch = e /\ profile'[p].commitSeq >= c.seq
  <2>1. CASE session' = SessionOf(p, e, s)
    <3>1. session'[p][e] = s
      BY <1>1, <1>2, <2>1, SessionOfIs
    <3> QED
      BY <3>1
  <2>2. CASE session' = session
    BY <2>2 DEF s
  <2> QED
    BY <2>1, <2>2, <1>3, <1>10, <1>11, <1>12
<1> QED
  BY <1>1, <1>2, <1>7, <1>9, <1>13, <1>14 DEF s


LEMMA RequestFields ==
  ASSUME NEW r \in Request
  PROVE  /\ r # NoRequest
         /\ r.kind \in OperationKinds /\ r.server \in Servers /\ r.claim \in Ops \cup {NoOp}
         /\ r.status \in {"waits", "applied", "refused"} /\ r.parties \in SUBSET Players
         /\ r.epoch \in [Players -> Nat] /\ r.seq \in [Players -> Nat]
         /\ r.goods \in [Players -> SUBSET Units]
         /\ r.gives \in [Players -> SUBSET Units] /\ r.gets \in [Players -> SUBSET Units]
  BY NoRecordAssumption DEF Request

(* What a server just sent: every party was free and captured its commit,  *)
(* and what it gives is no longer among its goods.                         *)
PartySent(o, p) ==
    LET r == request'[o]
        s == session[p][r.epoch[p]]
    IN  /\ p \in Players /\ r.epoch[p] \in Epochs
        /\ s \in Session /\ s.state = "playing" /\ s.op = NoOp
        /\ s.server = r.server /\ s.captured < MaxSeq[p] /\ r.gives[p] \subseteq s.goods
        /\ r.seq[p] = s.captured + 1
        /\ r.goods[p] = (s.goods \ r.gives[p]) \cup r.gets[p]
        /\ session'[p][r.epoch[p]] = Giving(s, r.gives[p], o)

Sent(o) ==
    LET r == request'[o] IN
    /\ request[o] = NoRequest
    /\ request' \in [Ops -> Request \cup {NoRequest}]
    /\ \A x \in Ops : x # o => request'[x] = request[x]
    /\ r \in Request /\ r.status = "waits"
    /\ Shape(r.kind, r.server, r.parties, r.gives, r.gets, r.claim)
    /\ \A p \in r.parties : PartySent(o, p)
    /\ session' \in Sessions
    /\ \A p \in Players, e \in Epochs :
          ~(p \in r.parties /\ e = r.epoch[p]) => session'[p][e] = session[p][e]

LEMMA SendEffect ==
  ASSUME Types, NEW o \in Ops, NEW kind \in OperationKinds, NEW server \in Servers,
         NEW P \in SUBSET Players, NEW epoch \in [Players -> Epochs],
         NEW gives \in [Players -> SUBSET Units], NEW gets \in [Players -> SUBSET Units],
         NEW claim \in Ops \cup {NoOp}, Send(o, kind, server, P, epoch, gives, gets, claim),
         Shape(kind, server, P, gives, gets, claim)
  PROVE  Sent(o)
<1> DEFINE s(p) == session[p][epoch[p]]
           es == [p \in Players |-> IF p \in P THEN epoch[p] ELSE 0]
           seqs == [p \in Players |-> IF p \in P THEN s(p).captured + 1 ELSE 0]
           gs == [p \in Players |-> IF p \in P THEN (s(p).goods \ gives[p]) \cup gets[p] ELSE {}]
           r == [kind |-> kind, server |-> server, claim |-> claim, status |-> "waits",
                 parties |-> P, gives |-> gives, gets |-> gets, epoch |-> es, seq |-> seqs, goods |-> gs]
           after == [p \in P |-> Giving(s(p), gives[p], o)]
<1>1. /\ request[o] = NoRequest
      /\ request' = [request EXCEPT ![o] = r]
      /\ session' = PartySessions(P, epoch, after)
  BY DEF Send
<1>2. \A p \in P : Free(p, epoch[p]) /\ s(p).server = server /\ s(p).captured < MaxSeq[p]
                   /\ gives[p] \subseteq s(p).goods
  BY DEF Send
<1>3. \A p \in P : s(p) \in Session /\ s(p).state = "playing" /\ s(p).op = NoOp
  <2>1. \A p \in P : s(p) \in Session \cup {NoSession}
    BY DEF Types
  <2> QED
    BY <1>2, <2>1 DEF Free, Playing
<1> HIDE DEF s
<1>4. \A p \in P : s(p).captured \in Nat /\ s(p).captured + 1 \in Nat /\ s(p).goods \in SUBSET Units
                   /\ gives[p] \in SUBSET Units /\ gets[p] \in SUBSET Units /\ epoch[p] \in Epochs
                   /\ epoch[p] \in Nat
  BY <1>3, SessionFields, BoundAssumption DEF Epochs
<1>5. /\ es \in [Players -> Nat] /\ seqs \in [Players -> Nat] /\ gs \in [Players -> SUBSET Units]
      /\ \A p \in P : /\ es[p] = epoch[p] /\ seqs[p] = s(p).captured + 1
                      /\ gs[p] = (s(p).goods \ gives[p]) \cup gets[p]
  BY <1>4
<1> HIDE DEF es, seqs, gs
<1>6. /\ r \in Request /\ r.kind = kind /\ r.server = server /\ r.claim = claim /\ r.status = "waits"
      /\ r.parties = P /\ r.gives = gives /\ r.gets = gets /\ r.epoch = es /\ r.seq = seqs /\ r.goods = gs
  BY <1>5 DEF Request
<1> HIDE DEF r
<1>7. /\ request' \in [Ops -> Request \cup {NoRequest}] /\ request'[o] = r
      /\ \A x \in Ops : x # o => request'[x] = request[x]
  BY <1>1, <1>6 DEF Types
<1>8. \A p \in P : after[p] = Giving(s(p), gives[p], o) /\ after[p] \in Session
  BY <1>3, <1>4, GivingFields
<1>9. session \in Sessions /\ epoch \in [Players -> Nat]
  BY BoundAssumption DEF Types, Sessions, Epochs
<1> HIDE DEF after
<1>10. /\ session' \in Sessions
       /\ \A p \in P : session'[p][epoch[p]] = after[p]
       /\ \A p \in Players, e \in Epochs :
             ~(p \in P /\ e = epoch[p]) => session'[p][e] = session[p][e]
  <2>1. \A p \in P : epoch[p] \in Epochs => after[p] \in Session
    BY <1>8
  <2>2. session' = PartySessions(P, epoch, after)
    BY <1>1
  <2>3. /\ session' \in Sessions
        /\ \A p \in P : epoch[p] \in Epochs => session'[p][epoch[p]] = after[p]
        /\ \A p \in Players, e \in Epochs :
              ~(p \in P /\ e = epoch[p]) => session'[p][e] = session[p][e]
    BY <2>1, <2>2, <1>9, PartySessionsIs
  <2> QED
    BY <2>3, <1>4
<1>11. r.parties = P /\ r.epoch = es /\ r.gives = gives /\ r.gets = gets /\ request'[o] = r
  BY <1>6, <1>7
<1>12. ASSUME NEW p \in P PROVE PartySent(o, p)
  <2>1. /\ p \in Players /\ es[p] = epoch[p] /\ epoch[p] \in Epochs
        /\ s(p) = session[p][es[p]]
    BY <1>4, <1>5 DEF s
  <2>2. /\ s(p) \in Session /\ s(p).state = "playing" /\ s(p).op = NoOp
        /\ s(p).server = r.server /\ s(p).captured < MaxSeq[p] /\ gives[p] \subseteq s(p).goods
    BY <1>2, <1>3, <1>6
  <2>3. r.seq[p] = s(p).captured + 1 /\ r.goods[p] = (s(p).goods \ gives[p]) \cup gets[p]
    BY <1>5, <1>6
  <2>4. session'[p][es[p]] = Giving(s(p), gives[p], o)
    BY <1>8, <1>10, <2>1
  <2> QED
    BY <1>11, <2>1, <2>2, <2>3, <2>4 DEF PartySent
<1>13. Shape(r.kind, r.server, r.parties, r.gives, r.gets, r.claim)
  BY <1>6
<1>14. \A p \in Players, e \in Epochs :
          ~(p \in r.parties /\ e = r.epoch[p]) => session'[p][e] = session[p][e]
  BY <1>5, <1>10, <1>11
<1>15. \A p \in r.parties : PartySent(o, p)
  BY <1>11, <1>12
<1> QED
  BY <1>1, <1>6, <1>7, <1>10, <1>13, <1>14, <1>15 DEF Sent

LEMMA SendsAreSent == ASSUME Types, Tokens, Sends PROVE \E o \in Ops : Sent(o)
<1>1. PICK o \in Ops : Sending(o)
  BY SendOperationIsSending DEF Sends, Types
<1>2. PICK kind \in OperationKinds, server \in Servers, P \in SUBSET Players,
           epoch \in [Players -> Epochs], gives \in [Players -> SUBSET Units],
           gets \in [Players -> SUBSET Units], claim \in Ops \cup {NoOp} :
             Send(o, kind, server, P, epoch, gives, gets, claim) /\ Shape(kind, server, P, gives, gets, claim)
  BY <1>1 DEF Sending
<1> QED
  BY <1>2, SendEffect

(* An operation's answers after another.                                   *)
LEMMA AnswersAre ==
  ASSUME Types, NEW o \in Ops, request[o] # NoRequest,
         NEW result \in {"applied", "duplicate", "drop_gone", "stale_session", "invalid"},
         NEW p \in Players \cup {NoPlayer}, Answers(o, result, p)
  PROVE  /\ answers' \in [Ops -> SUBSET Answer]
         /\ \A x \in Ops : x # o => answers'[x] = answers[x]
         /\ \A a \in answers'[o] :
               \/ a \in answers[o]
               \/ a.result = result /\ \E q \in request[o].parties : Waits(o, q)
<1> DEFINE a == [result |-> result, player |-> p]
<1>1. a \in Answer /\ a.result = result
  BY DEF Answer
<1>2. \/ answers' = answers
      \/ answers' = [answers EXCEPT ![o] = @ \cup {a}] /\ \E q \in request[o].parties : Waits(o, q)
  BY DEF Answers
<1> HIDE DEF a
<1>3. CASE answers' = answers
  BY <1>3 DEF Types
<1>4. CASE /\ answers' = [answers EXCEPT ![o] = @ \cup {a}]
           /\ \E q \in request[o].parties : Waits(o, q)
  <2>1. answers \in [Ops -> SUBSET Answer]
    BY DEF Types
  <2>2. answers[o] \cup {a} \in SUBSET Answer
    BY <1>1, <2>1
  <2>3. /\ answers' \in [Ops -> SUBSET Answer] /\ answers'[o] = answers[o] \cup {a}
        /\ \A x \in Ops : x # o => answers'[x] = answers[x]
    BY <1>4, <2>1, <2>2
  <2> QED
    BY <1>1, <1>4, <2>3
<1> QED
  BY <1>2, <1>3, <1>4

LEMMA PartyFields ==
  ASSUME Types, PartiesKnown, NEW o \in Ops, request[o] # NoRequest, NEW p \in request[o].parties
  PROVE  /\ request[o] \in Request /\ p \in Players
         /\ request[o].epoch[p] \in Epochs /\ request[o].epoch[p] \in Nat
         /\ request[o].seq[p] \in Nat
         /\ request[o].goods[p] \in SUBSET Units /\ request[o].gives[p] \in SUBSET Units
         /\ request[o].gets[p] \in SUBSET Units
         /\ session[p][request[o].epoch[p]] \in Session
<1>1. request[o] \in Request
  BY DEF Types
<1>2. p \in Players /\ request[o].epoch[p] \in Epochs /\ session[p][request[o].epoch[p]] # NoSession
  BY <1>1, RequestFields DEF PartiesKnown
<1>3. session[p][request[o].epoch[p]] \in Session
  BY <1>2 DEF Types
<1> QED
  BY <1>1, <1>2, <1>3, RequestFields

(* The world of the lease a drop or a pickup is accepted under is the      *)
(* world of the server that sent it.                                       *)
LEMMA LeaseWorldIs ==
  ASSUME Types, LeaseKnown, PartiesKnown, NEW o \in Ops, request[o] # NoRequest,
         Accepted(o, request[o])
  PROVE  LeaseWorld(request[o]) = WorldOf[request[o].server] /\ LeaseWorld(request[o]) \in Worlds
<1> DEFINE r == request[o]
           p == CHOOSE x \in r.parties : TRUE
<1>1. r \in Request /\ r.parties # {}
  BY DEF Types, PartiesKnown
<1>2. p \in r.parties
  BY <1>1
<1>3. p \in Players /\ session[p][r.epoch[p]].server = r.server /\ r.server \in Servers
  BY <1>1, <1>2, PartyFields, RequestFields DEF PartiesKnown
<1>4. LeaseNames(p, r.epoch[p])
  BY <1>2, CheckCommitIs DEF Accepted, Check
<1>5. LeaseWorld(r) = lease[p].world
  BY DEF LeaseWorld
<1> HIDE DEF p, r
<1>6. lease[p] # NoLease /\ lease[p].epoch = r.epoch[p]
  BY <1>4 DEF LeaseNames
<1>7. lease[p].world = WorldOf[session[p][r.epoch[p]].server]
  BY <1>3, <1>6 DEF LeaseKnown
<1> QED
  BY <1>3, <1>5, <1>7, WorldAssumption DEF r


(* An accepted operation is of the newest sessions and ahead of them.      *)
LEMMA AcceptedIs ==
  ASSUME Types, PartiesKnown, NEW o \in Ops, request[o] # NoRequest,
         Accepted(o, request[o]), NEW p \in request[o].parties
  PROVE  /\ profile[p].epoch = request[o].epoch[p] /\ profile[p].commitSeq < request[o].seq[p]
         /\ LeaseNames(p, request[o].epoch[p]) /\ ~DoomedParty(o, p)
<1>1. /\ p \in Players /\ request[o].seq[p] \in Nat /\ profile[p].commitSeq \in Nat
      /\ profile[p].epoch \in Nat
  BY PartyFields, ProfileFields
<1>2. Check(request[o], p) = ""
  BY DEF Accepted
<1>3. /\ profile[p].epoch = request[o].epoch[p] /\ ~(profile[p].commitSeq >= request[o].seq[p])
      /\ LeaseNames(p, request[o].epoch[p])
  BY <1>2, CheckCommitIs DEF Check
<1>4. profile[p].commitSeq < request[o].seq[p]
  BY <1>1, <1>3
<1>5. ~(request[o].epoch[p] < profile[p].epoch)
  BY <1>1, <1>3
<1> QED
  BY <1>3, <1>4, <1>5 DEF DoomedParty

LEMMA ApplyEffect ==
  ASSUME Types, LeaseKnown, PartiesKnown, NEW o \in Ops, request[o] # NoRequest,
         ApplyStates(o, request[o])
  PROVE  LET r == request[o] IN
         /\ r \in Request
         /\ record[o] # "kept" /\ record'[o] = "kept"
         /\ record' \in [Ops -> {"none", "kept", "expired"}]
         /\ \A x \in Ops : x # o => record'[x] = record[x]
         /\ profile' \in [Players -> Profile]
         /\ \A p \in r.parties :
              /\ profile[p].epoch = r.epoch[p] /\ profile[p].commitSeq < r.seq[p] /\ ~DoomedParty(o, p)
              /\ profile'[p].epoch = r.epoch[p] /\ profile'[p].commitSeq = r.seq[p]
              /\ profile'[p].goods = r.goods[p]
         /\ \A p \in Players : p \notin r.parties => profile'[p] = profile[p]
         /\ r.claim # NoOp => drops[r.claim].status = "public"
         /\ drops' \in [Ops -> Drop]
         /\ \A d \in Ops :
              /\ d = r.claim => /\ drops'[d].status = "claimed" /\ drops'[d].world = drops[d].world
                                /\ drops'[d].goods = drops[d].goods
              /\ d = o /\ d # r.claim /\ r.kind = "drop" =>
                   /\ drops'[d].status = "public" /\ drops'[d].world = WorldOf[r.server]
                   /\ drops'[d].goods = UNION {r.gives[p] : p \in r.parties}
              /\ d # r.claim /\ (d # o \/ r.kind # "drop") => drops'[d] = drops[d]
         /\ answers' \in [Ops -> SUBSET Answer]
         /\ \A x \in Ops : x # o => answers'[x] = answers[x]
         /\ \A a \in answers'[o] : a \in answers[o] \/ IsApplied(a)
<1> DEFINE r == request[o]
<1>1. /\ r \in Request /\ Accepted(o, r)
      /\ r.claim # NoOp => Claims(r.claim, LeaseWorld(r))
      /\ profile' = Written(r) /\ drops' = DropsAfter(o, r)
      /\ record' = [record EXCEPT ![o] = "kept"]
      /\ Answers(o, "applied", NoPlayer)
  BY DEF ApplyStates, Types
<1>2. LeaseWorld(r) = WorldOf[r.server] /\ LeaseWorld(r) \in Worlds
  BY <1>1, LeaseWorldIs
<1>3. /\ record[o] # "kept" /\ record'[o] = "kept"
      /\ record' \in [Ops -> {"none", "kept", "expired"}]
      /\ \A x \in Ops : x # o => record'[x] = record[x]
  BY <1>1 DEF Types, Accepted, Recorded
<1>4. \A p \in r.parties :
         /\ profile[p].epoch = r.epoch[p] /\ profile[p].commitSeq < r.seq[p] /\ ~DoomedParty(o, p)
  BY <1>1, AcceptedIs
<1>5. \A p \in Players : profile'[p] =
         IF p \in r.parties THEN WriteCommit(p, r.seq[p], r.goods[p]) ELSE profile[p]
  BY <1>1 DEF Written
<1>6. \A p \in r.parties : p \in Players /\ r.seq[p] \in Nat /\ r.goods[p] \in SUBSET Units
  BY PartyFields
<1> HIDE DEF r
<1>7. \A p \in r.parties : /\ profile'[p] \in Profile
                           /\ profile'[p].epoch = r.epoch[p] /\ profile'[p].commitSeq = r.seq[p]
                           /\ profile'[p].goods = r.goods[p]
  BY <1>4, <1>5, <1>6, WriteCommitFields
<1>8. profile' \in [Players -> Profile]
  <2>1. \A p \in Players : profile'[p] \in Profile
    BY <1>5, <1>7, ProfileFields
  <2> QED
    BY <2>1, <1>1 DEF Written
<1>9. \A p \in Players : p \notin r.parties => profile'[p] = profile[p]
  BY <1>5
<1>10. r.claim # NoOp => drops[r.claim].status = "public"
  BY <1>1 DEF Claims
<1> DEFINE u == UNION {r.gives[p] : p \in r.parties}
           made == [status |-> "public", world |-> LeaseWorld(r), goods |-> u]
           claimed(d) == [drops[d] EXCEPT !.status = "claimed"]
<1>11. \A d \in Ops : drops'[d] =
         IF d = r.claim THEN claimed(d) ELSE IF d = o /\ r.kind = "drop" THEN made ELSE drops[d]
  BY <1>1 DEF DropsAfter
<1>12. made \in Drop /\ made.status = "public" /\ made.world = WorldOf[r.server] /\ made.goods = u
  <2>1. \A p \in r.parties : r.gives[p] \in SUBSET Units
    BY PartyFields DEF r
  <2>2. u \in SUBSET Units
    BY <2>1
  <2> HIDE DEF u
  <2> QED
    BY <2>2, <1>2 DEF Drop
<1>13. \A d \in Ops : /\ claimed(d) \in Drop /\ claimed(d).status = "claimed"
                      /\ claimed(d).world = drops[d].world /\ claimed(d).goods = drops[d].goods
  <2> TAKE d \in Ops
  <2>1. drops[d] \in Drop
    BY DEF Types
  <2> QED
    BY <2>1 DEF Drop
<1> HIDE DEF made, claimed
<1>14. drops' \in [Ops -> Drop]
  <2>1. \A d \in Ops : drops'[d] \in Drop
    BY <1>11, <1>12, <1>13 DEF Types
  <2> QED
    BY <2>1, <1>1 DEF DropsAfter
<1>15. \A d \in Ops :
         /\ d = r.claim => /\ drops'[d].status = "claimed" /\ drops'[d].world = drops[d].world
                           /\ drops'[d].goods = drops[d].goods
         /\ d = o /\ d # r.claim /\ r.kind = "drop" =>
              /\ drops'[d].status = "public" /\ drops'[d].world = WorldOf[r.server]
              /\ drops'[d].goods = u
         /\ d # r.claim /\ (d # o \/ r.kind # "drop") => drops'[d] = drops[d]
  BY <1>11, <1>12, <1>13
<1>16. /\ answers' \in [Ops -> SUBSET Answer]
       /\ \A x \in Ops : x # o => answers'[x] = answers[x]
       /\ \A a \in answers'[o] : a \in answers[o] \/ a.result = "applied"
  BY <1>1, AnswersAre
<1>17. \A a \in answers'[o] : a \in answers[o] \/ IsApplied(a)
  BY <1>16 DEF IsApplied
<1> QED
  BY <1>1, <1>3, <1>4, <1>7, <1>8, <1>9, <1>10, <1>14, <1>15, <1>16, <1>17 DEF r, u

(* What a session that waited for an operation becomes at its outcome.     *)
LEMMA SessionAfterIs ==
  ASSUME NEW o \in Ops, request[o] \in Request, NEW a, NEW p \in request[o].parties,
         session[p][request[o].epoch[p]] \in Session
  PROVE  LET r == request[o]
             s == session[p][r.epoch[p]]
             t == SessionAfter(o, a, p)
         IN  /\ t \in Session
             /\ ~Waits(o, p) => t = s
             /\ Waits(o, p) =>
                  \/ t = Done(s) /\ ~IsApplied(a)
                  \/ /\ t.state = s.state /\ t.server = s.server /\ t.captured = s.captured /\ t.op = NoOp
                     /\ IF IsApplied(a)
                          THEN /\ t.goods = s.goods \cup r.gets[p]
                               /\ t.saved = IF s.saved < r.seq[p] THEN r.seq[p] ELSE s.saved
                          ELSE t.goods = s.goods \cup r.gives[p] /\ t.saved = s.saved
<1> DEFINE r == request[o]
           s == session[p][r.epoch[p]]
           t == SessionAfter(o, a, p)
           gs == s.goods \cup r.gets[p]
           hs == s.goods \cup r.gives[p]
           v == Saved(s, r.seq[p])
<1>1. t = IF ~Waits(o, p) THEN s
          ELSE IF IsApplied(a) THEN [v EXCEPT !.goods = gs, !.op = NoOp]
          ELSE IF a.player = p /\ a.result # "drop_gone" THEN Done(s)
          ELSE [s EXCEPT !.goods = hs, !.op = NoOp]
  BY DEF SessionAfter
<1>2. s \in Session /\ gs \in SUBSET Units /\ hs \in SUBSET Units /\ r.seq[p] \in Nat
  <2>1. p \in Players
    BY RequestFields
  <2>2. r.gets[p] \in SUBSET Units /\ r.gives[p] \in SUBSET Units /\ r.seq[p] \in Nat
    BY <2>1, RequestFields
  <2> QED
    BY <2>2, SessionFields
<1> HIDE DEF s, gs, hs, t
<1>3. /\ v \in Session /\ v.state = s.state /\ v.server = s.server /\ v.captured = s.captured
      /\ v.saved = IF s.saved < r.seq[p] THEN r.seq[p] ELSE s.saved
  BY <1>2, SavedFields
<1> HIDE DEF v
<1>4. CASE ~Waits(o, p)
  BY <1>1, <1>2, <1>4 DEF s, t
<1>5. CASE Waits(o, p) /\ IsApplied(a)
  <2>1. t = [v EXCEPT !.goods = gs, !.op = NoOp]
    BY <1>1, <1>5
  <2>2. /\ t \in Session /\ t.state = v.state /\ t.server = v.server /\ t.goods = gs
        /\ t.captured = v.captured /\ t.saved = v.saved /\ t.op = NoOp
    BY <2>1, <1>2, <1>3, FreedFields
  <2> QED
    BY <2>2, <1>3, <1>5 DEF s, t, gs
<1>6. CASE Waits(o, p) /\ ~IsApplied(a) /\ a.player = p /\ a.result # "drop_gone"
  BY <1>1, <1>2, <1>6, DoneFields DEF s, t
<1>7. CASE Waits(o, p) /\ ~IsApplied(a) /\ ~(a.player = p /\ a.result # "drop_gone")
  <2>1. t = [s EXCEPT !.goods = hs, !.op = NoOp]
    BY <1>1, <1>7
  <2>2. /\ t \in Session /\ t.state = s.state /\ t.server = s.server /\ t.goods = hs
        /\ t.captured = s.captured /\ t.saved = s.saved /\ t.op = NoOp
    BY <2>1, <1>2, FreedFields
  <2> QED
    BY <2>2, <1>7 DEF s, t, hs
<1> QED
  BY <1>4, <1>5, <1>6, <1>7

LEMMA LearnEffect ==
  ASSUME Types, PartiesKnown, NEW o \in Ops, NEW a \in answers[o], Learn(o, a)
  PROVE  LET r == request[o]
             n == request'[o]
         IN  /\ r \in Request /\ \E p \in r.parties : Waits(o, p)
             /\ request' \in [Ops -> Request \cup {NoRequest}]
             /\ \A x \in Ops : x # o => request'[x] = request[x]
             /\ n \in Request /\ n.status = IF IsApplied(a) THEN "applied" ELSE "refused"
             /\ n.kind = r.kind /\ n.server = r.server /\ n.claim = r.claim /\ n.parties = r.parties
             /\ n.epoch = r.epoch /\ n.seq = r.seq /\ n.goods = r.goods
             /\ n.gives = r.gives /\ n.gets = r.gets
             /\ answers' \in [Ops -> SUBSET Answer] /\ answers'[o] = {}
             /\ \A x \in Ops : x # o => answers'[x] = answers[x]
             /\ session' \in Sessions
             /\ \A p \in r.parties : session'[p][r.epoch[p]] = SessionAfter(o, a, p)
             /\ \A p \in Players, e \in Epochs :
                   ~(p \in r.parties /\ e = r.epoch[p]) => session'[p][e] = session[p][e]
             /\ tokens' \in [Servers -> SUBSET Ops]
             /\ \A s \in Servers : \A d \in tokens'[s] :
                   d \in tokens[s] \/ (s = r.server /\ IsApplied(a) /\ r.kind = "drop" /\ d = o)
<1> DEFINE r == request[o]
           result == IF IsApplied(a) THEN "applied" ELSE "refused"
           n == [r EXCEPT !.status = result]
           after == [p \in r.parties |-> SessionAfter(o, a, p)]
           shown == TokensAfter(tokens[r.server], o, a)
<1>1. /\ r # NoRequest /\ \E p \in r.parties : Waits(o, p)
      /\ session' = PartySessions(r.parties, r.epoch, after)
      /\ tokens' = [tokens EXCEPT ![r.server] = shown]
      /\ request' = [request EXCEPT ![o].status = result]
      /\ answers' = [answers EXCEPT ![o] = {}]
  BY DEF Learn
<1>2. r \in Request
  BY <1>1 DEF Types
<1>3. /\ n \in Request /\ n.status = result
      /\ n.kind = r.kind /\ n.server = r.server /\ n.claim = r.claim /\ n.parties = r.parties
      /\ n.epoch = r.epoch /\ n.seq = r.seq /\ n.goods = r.goods
      /\ n.gives = r.gives /\ n.gets = r.gets
  <2>1. result \in {"waits", "applied", "refused"}
    OBVIOUS
  <2> HIDE DEF result
  <2> QED
    BY <1>2, <2>1 DEF Request
<1>4. /\ request' \in [Ops -> Request \cup {NoRequest}] /\ request'[o] = n
      /\ \A x \in Ops : x # o => request'[x] = request[x]
  <2>1. request' = [request EXCEPT ![o] = n]
    BY <1>1 DEF Types
  <2> HIDE DEF n
  <2> QED
    BY <2>1, <1>3 DEF Types
<1>5. /\ answers' \in [Ops -> SUBSET Answer] /\ answers'[o] = {}
      /\ \A x \in Ops : x # o => answers'[x] = answers[x]
  BY <1>1 DEF Types
<1>6. \A p \in r.parties : after[p] = SessionAfter(o, a, p) /\ after[p] \in Session /\ r.epoch[p] \in Epochs
  <2> TAKE p \in r.parties
  <2>1. session[p][r.epoch[p]] \in Session /\ r.epoch[p] \in Epochs
    BY <1>1, PartyFields
  <2>2. SessionAfter(o, a, p) \in Session
    BY <1>2, <2>1, SessionAfterIs
  <2> QED
    BY <2>1, <2>2
<1>7. r.parties \in SUBSET Players /\ r.epoch \in [Players -> Nat] /\ session \in Sessions
      /\ r.server \in Servers /\ r.claim \in Ops \cup {NoOp}
  BY <1>2, RequestFields DEF Types, Sessions
<1> HIDE DEF r, result, n, after
<1>8. /\ session' \in Sessions
      /\ \A p \in r.parties : session'[p][r.epoch[p]] = SessionAfter(o, a, p)
      /\ \A p \in Players, e \in Epochs :
            ~(p \in r.parties /\ e = r.epoch[p]) => session'[p][e] = session[p][e]
  <2>1. \A p \in r.parties : r.epoch[p] \in Epochs => after[p] \in Session
    BY <1>6
  <2>2. session' = PartySessions(r.parties, r.epoch, after)
    BY <1>1
  <2>3. /\ session' \in Sessions
        /\ \A p \in r.parties : r.epoch[p] \in Epochs => session'[p][r.epoch[p]] = after[p]
        /\ \A p \in Players, e \in Epochs :
              ~(p \in r.parties /\ e = r.epoch[p]) => session'[p][e] = session[p][e]
    BY <2>1, <2>2, <1>7, PartySessionsIs
  <2> QED
    BY <2>3, <1>6
<1>9. /\ shown \in SUBSET Ops
      /\ \A d \in shown : d \in tokens[r.server] \/ (IsApplied(a) /\ r.kind = "drop" /\ d = o)
  <2>1. tokens[r.server] \in SUBSET Ops
    BY <1>7 DEF Types
  <2> QED
    BY <2>1 DEF TokensAfter, r
<1> HIDE DEF shown
<1>10. /\ tokens' \in [Servers -> SUBSET Ops] /\ tokens'[r.server] = shown
       /\ \A s \in Servers : s # r.server => tokens'[s] = tokens[s]
  BY <1>1, <1>7, <1>9 DEF Types
<1>11. \A s \in Servers : \A d \in tokens'[s] :
          d \in tokens[s] \/ (s = r.server /\ IsApplied(a) /\ r.kind = "drop" /\ d = o)
  BY <1>9, <1>10
<1> QED
  BY <1>1, <1>2, <1>3, <1>4, <1>5, <1>8, <1>10, <1>11 DEF r, result, n


(* What the engine refuses it would always refuse.                         *)
LEMMA RefusedIsDoomed ==
  ASSUME Types, SessionsKnown, PartiesKnown, NEW o \in Ops, request[o] # NoRequest,
         NEW p \in request[o].parties,
         Check(request[o], p) \in {"duplicate", "stale_session"}
  PROVE  DoomedParty(o, p)
<1>1. /\ p \in Players /\ request[o].epoch[p] \in Epochs /\ request[o].epoch[p] \in Nat
      /\ profile[p].epoch \in Nat /\ session[p][request[o].epoch[p]] # NoSession
  BY PartyFields, ProfileFields, SessionFields
<1>2. request[o].epoch[p] <= profile[p].epoch
  BY <1>1 DEF SessionsKnown
<1>3. request[o].epoch[p] # profile[p].epoch => request[o].epoch[p] < profile[p].epoch
  BY <1>1, <1>2
<1>4. /\ Check(request[o], p) = "duplicate" => profile[p].commitSeq >= request[o].seq[p]
      /\ Check(request[o], p) = "stale_session" =>
            profile[p].epoch # request[o].epoch[p] \/ ~LeaseNames(p, request[o].epoch[p])
  BY CheckCommitIs DEF Check
<1> QED
  BY <1>3, <1>4 DEF DoomedParty

LEMMA RefuseEffect ==
  ASSUME Types, SessionsKnown, LeaseKnown, PartiesKnown, Shapes, Refuses
  PROVE  \E o \in Ops :
         /\ request[o] # NoRequest
         /\ answers' \in [Ops -> SUBSET Answer]
         /\ \A x \in Ops : x # o => answers'[x] = answers[x]
         /\ \A a \in answers'[o] :
               \/ a \in answers[o]
               \/ /\ \E p \in request[o].parties : Waits(o, p)
                  /\ IF IsApplied(a) THEN record[o] = "kept" ELSE record[o] # "kept" /\ Doomed(o)
<1> DEFINE Says(o) ==
             /\ request[o] # NoRequest
             /\ answers' \in [Ops -> SUBSET Answer]
             /\ \A x \in Ops : x # o => answers'[x] = answers[x]
             /\ \A a \in answers'[o] :
                  \/ a \in answers[o]
                  \/ /\ \E p \in request[o].parties : Waits(o, p)
                     /\ IF IsApplied(a) THEN record[o] = "kept" ELSE record[o] # "kept" /\ Doomed(o)
<1>1. PICK o \in Ops :
        /\ request[o] # NoRequest
        /\ \/ AnswerDuplicate(o)
           \/ \E p \in request[o].parties : RefuseStates(o, request[o], p)
           \/ AnswerDropGone(o, request[o])
  BY DEF Refuses
<1> DEFINE r == request[o]
<1>2. r \in Request /\ r.parties \in SUBSET Players
  BY <1>1, RequestFields DEF Types
<1>3. ASSUME AnswerDuplicate(o) PROVE Says(o)
  <2>1. record[o] = "kept" /\ Answers(o, "duplicate", NoPlayer)
    BY <1>3 DEF AnswerDuplicate, Recorded
  <2>2. /\ answers' \in [Ops -> SUBSET Answer]
        /\ \A x \in Ops : x # o => answers'[x] = answers[x]
        /\ \A a \in answers'[o] :
              a \in answers[o] \/ (a.result = "duplicate" /\ \E p \in request[o].parties : Waits(o, p))
    BY <1>1, <2>1, AnswersAre
  <2>3. Says(o)
    BY <1>1, <2>1, <2>2 DEF IsApplied
  <2> QED
    BY <2>3
<1>4. ASSUME NEW p \in r.parties, RefuseStates(o, r, p) PROVE Says(o)
  <2> DEFINE result == IF Check(r, p) = "duplicate" THEN "invalid" ELSE Check(r, p)
  <2>1. record[o] # "kept" /\ Check(r, p) # "" /\ Answers(o, result, p)
    BY <1>4 DEF RefuseStates, Recorded
  <2>2. Check(r, p) \in {"duplicate", "stale_session"}
    BY <2>1, CheckCommitIs DEF Check
  <2>3. result \in {"invalid", "stale_session"} /\ p \in Players
    BY <1>2, <1>4, <2>2
  <2>4. Doomed(o)
    BY <1>1, <1>4, <2>2, RefusedIsDoomed DEF Doomed
  <2> HIDE DEF result
  <2>5. /\ answers' \in [Ops -> SUBSET Answer]
        /\ \A x \in Ops : x # o => answers'[x] = answers[x]
        /\ \A a \in answers'[o] :
              a \in answers[o] \/ (a.result = result /\ \E q \in request[o].parties : Waits(o, q))
    BY <1>1, <2>1, <2>3, AnswersAre
  <2>6. \A a \in answers'[o] : a \in answers[o] \/ ~IsApplied(a)
    BY <2>3, <2>5 DEF IsApplied
  <2> QED
    BY <1>1, <2>1, <2>4, <2>5, <2>6
<1>5. ASSUME AnswerDropGone(o, r) PROVE Says(o)
  <2>1. /\ Accepted(o, r) /\ r.claim # NoOp /\ ~Claims(r.claim, LeaseWorld(r))
        /\ record[o] # "kept"
    BY <1>5 DEF AnswerDropGone, Accepted, Recorded
  <2>2. PICK p \in r.parties : Answers(o, "drop_gone", p)
    BY <1>5 DEF AnswerDropGone
  <2>3. r.claim \in Ops /\ drops[r.claim].world = WorldOf[r.server]
    <3>1. Shape(r.kind, r.server, r.parties, r.gives, r.gets, r.claim) /\ r.kind \in OperationKinds
      BY <1>1, <1>2, RequestFields DEF Shapes
    <3> QED
      BY <2>1, <3>1 DEF Shape, OperationKinds
  <2>4. drops[r.claim].status # "public"
    BY <1>1, <2>1, <2>3, LeaseWorldIs DEF Claims
  <2>5. Doomed(o)
    BY <2>1, <2>4 DEF Doomed
  <2>6. /\ answers' \in [Ops -> SUBSET Answer]
        /\ \A x \in Ops : x # o => answers'[x] = answers[x]
        /\ \A a \in answers'[o] :
              a \in answers[o] \/ (a.result = "drop_gone" /\ \E q \in request[o].parties : Waits(o, q))
    BY <1>1, <1>2, <2>2, AnswersAre
  <2>7. \A a \in answers'[o] : a \in answers[o] \/ ~IsApplied(a)
    BY <2>6 DEF IsApplied
  <2>8. Says(o)
    BY <1>1, <2>1, <2>5, <2>6, <2>7
  <2> QED
    BY <2>8
<1> HIDE DEF Says
<1>6. Says(o)
  BY <1>1, <1>3, <1>4, <1>5
<1>7. \E x \in Ops : Says(x)
  BY <1>6
<1> QED
  BY <1>7 DEF Says

-----------------------------------------------------------------------------
(***************************************************************************)
(* Types.                                                                  *)
(***************************************************************************)
LEMMA InitTypes == Init => Types
<1> SUFFICES ASSUME Init PROVE Types
  OBVIOUS
<1>1. profile \in [Players -> Profile]
  <2>1. \A p \in Players : [epoch |-> 0, commitSeq |-> 0, goods |-> InitialGoods[p]] \in Profile
    BY GoodsAssumption, BoundAssumption DEF Profile
  <2> QED
    BY <2>1 DEF Init
<1>2. NoDrop \in Drop
  <2>1. (CHOOSE w \in Worlds : TRUE) \in Worlds
    BY WorldAssumption
  <2> QED
    BY <2>1 DEF NoDrop, Drop
<1>3. drops \in [Ops -> Drop]
  BY <1>2 DEF Init
<1> QED
  BY <1>1, <1>3 DEF Init, Types

LEMMA TypesStep == ASSUME Known, [Next]_vars PROVE Types'
<1> USE DEF Known
<1>1. Types /\ Books
  OBVIOUS
<1>2. profile' \in [Players -> Profile]
  <2>1. CASE Acquires
    BY <1>1, <2>1, AcquireEffect DEF Acquires
  <2>2. CASE Commits
    BY <1>1, <2>2, CommitEffect DEF Commits, Books
  <2>3. CASE Applies
    BY <1>1, <2>3, ApplyEffect DEF Applies, Books
  <2> QED
    BY <2>1, <2>2, <2>3, Frames DEF Types
<1>3. lease' \in [Players -> Lease \cup {NoLease}]
  <2>1. CASE Acquires
    BY <1>1, <2>1, AcquireEffect DEF Acquires
  <2>2. ASSUME NEW p \in Players, LeaseExpires(p) PROVE lease' \in [Players -> Lease \cup {NoLease}]
    BY <2>2 DEF LeaseExpires, Types
  <2> QED
    BY <2>1, <2>2, Frames DEF Types
<1>4. record' \in [Ops -> {"none", "kept", "expired"}]
  <2>1. CASE Applies
    BY <1>1, <2>1, ApplyEffect DEF Applies, Books
  <2>2. ASSUME NEW o \in Ops, RecordExpires(o) PROVE record' \in [Ops -> {"none", "kept", "expired"}]
    BY <2>2 DEF RecordExpires, Types
  <2> QED
    BY <2>1, <2>2, Frames DEF Types
<1>5. drops' \in [Ops -> Drop]
  <2>1. CASE Applies
    BY <1>1, <2>1, ApplyEffect DEF Applies, Books
  <2>2. ASSUME NEW d \in Ops, DropExpires(d) PROVE drops' \in [Ops -> Drop]
    <3> DEFINE n == [drops[d] EXCEPT !.status = "expired"]
    <3>1. drops[d] \in Drop
      BY DEF Types
    <3>2. n \in Drop
      BY <3>1 DEF Drop
    <3>3. drops' = [drops EXCEPT ![d] = n]
      BY <2>2 DEF DropExpires, Types
    <3> HIDE DEF n
    <3> QED
      BY <3>2, <3>3 DEF Types
  <2> QED
    BY <2>1, <2>2, Frames DEF Types
<1>6. commits' \in SUBSET Commit
  BY CaptureEffect, Frames DEF Captures, Types
<1>7. request' \in [Ops -> Request \cup {NoRequest}]
  <2>1. CASE Sends
    BY <1>1, <2>1, SendsAreSent DEF Sent, Books
  <2>2. CASE Learns
    BY <1>1, <2>2, LearnEffect DEF Learns, Books
  <2> QED
    BY <2>1, <2>2, Frames DEF Types
<1>8. answers' \in [Ops -> SUBSET Answer]
  <2>1. CASE Refuses
    BY <1>1, <2>1, RefuseEffect DEF Books
  <2>2. CASE Applies
    BY <1>1, <2>2, ApplyEffect DEF Applies, Books
  <2>3. CASE Learns
    BY <1>1, <2>3, LearnEffect DEF Learns, Books
  <2> QED
    BY <2>1, <2>2, <2>3, Frames DEF Types
<1>9. session' \in Sessions
  <2>1. CASE Acquires
    BY <1>1, <2>1, AcquireEffect DEF Acquires
  <2>2. CASE Restarts
    BY <1>1, <2>2, RestartEffect DEF Restarts
  <2>3. CASE Captures
    BY <1>1, <2>3, CaptureEffect DEF Captures
  <2>4. CASE Falls
    BY <1>1, <2>4, FallEffect DEF Falls
  <2>5. CASE Finds
    BY <1>1, <2>5, FindEffect DEF Finds
  <2>6. CASE Commits
    BY <1>1, <2>6, CommitEffect DEF Commits, Books
  <2>7. CASE Sends
    BY <1>1, <2>7, SendsAreSent DEF Sent, Books
  <2>8. CASE Learns
    BY <1>1, <2>8, LearnEffect DEF Learns, Books
  <2>9. CASE session' = session
    BY <2>9 DEF Types, Sessions
  <2> QED
    BY <2>1, <2>2, <2>3, <2>4, <2>5, <2>6, <2>7, <2>8, <2>9, Frames
<1>10. tokens' \in [Servers -> SUBSET Ops]
  <2>1. CASE Restarts
    BY <1>1, <2>1, RestartEffect DEF Restarts
  <2>2. CASE Learns
    BY <1>1, <2>2, LearnEffect DEF Learns, Books
  <2> QED
    BY <2>1, <2>2, Frames DEF Types
<1>11. fallen' \in SUBSET Fallen
  <2>1. CASE Restarts
    BY <1>1, <2>1, RestartEffect DEF Restarts
  <2>2. CASE Falls
    BY <1>1, <2>2, FallEffect DEF Falls
  <2>3. CASE Finds
    BY <1>1, <2>3, FindEffect DEF Finds
  <2> QED
    BY <2>1, <2>2, <2>3, Frames DEF Types
<1> QED
  BY <1>2, <1>3, <1>4, <1>5, <1>6, <1>7, <1>8, <1>9, <1>10, <1>11 DEF Types, Sessions


-----------------------------------------------------------------------------
(***************************************************************************)
(* What no step takes back.                                                *)
(***************************************************************************)
(* An operation the engine applies had no record and no outcome yet.       *)
LEMMA ApplyIsFirst ==
  ASSUME Known, NEW o \in Ops, request[o] # NoRequest, ApplyStates(o, request[o])
  PROVE  record[o] = "none" /\ Waiting(o) /\ ~Doomed(o) /\ drops[o].status = "none"
<1> DEFINE r == request[o]
<1>1. /\ Types /\ LeaseKnown /\ PartiesKnown /\ Outcomes /\ Records
  BY DEF Known, Books
<1>2. /\ r \in Request /\ record[o] # "kept"
      /\ \A p \in r.parties :
           /\ profile[p].epoch = r.epoch[p] /\ profile[p].commitSeq < r.seq[p] /\ ~DoomedParty(o, p)
      /\ r.claim # NoOp => drops[r.claim].status = "public"
  BY <1>1, ApplyEffect
<1>3. PICK p \in r.parties : TRUE
  BY <1>1 DEF PartiesKnown
<1>4. /\ r.epoch[p] \in Nat /\ r.seq[p] \in Nat /\ profile[p].epoch \in Nat
      /\ profile[p].commitSeq \in Nat
  BY <1>1, PartyFields, ProfileFields
<1>5. ~(r.epoch[p] < profile[p].epoch) /\ ~(r.seq[p] <= profile[p].commitSeq)
  BY <1>2, <1>4
<1>6. record[o] = "none"
  <2>1. record[o] # "none" => r.epoch[p] < profile[p].epoch \/ r.seq[p] <= profile[p].commitSeq
    BY <1>1 DEF Outcomes
  <2> QED
    BY <2>1, <1>5
<1>7. ~Doomed(o)
  BY <1>2 DEF Doomed
<1>8. /\ r.status = "applied" => record[o] # "none"
      /\ r.status = "refused" => Doomed(o)
  BY <1>1 DEF Outcomes
<1>9. Waiting(o)
  BY <1>2, <1>6, <1>7, <1>8, RequestFields DEF Waiting
<1> QED
  BY <1>1, <1>6, <1>7, <1>9 DEF Records

ProfileGrew(p) ==
    /\ profile[p].epoch <= profile'[p].epoch
    /\ profile'[p].epoch = profile[p].epoch => profile[p].commitSeq <= profile'[p].commitSeq

LEMMA ProfilesGrow == ASSUME Known, [Next]_vars, NEW p \in Players PROVE ProfileGrew(p)
<1>1. Types /\ LeaseKnown /\ PartiesKnown /\ CommitsKnown
  BY DEF Known, Books
<1>2. profile[p].epoch \in Nat /\ profile[p].commitSeq \in Nat
  BY <1>1, ProfileFields
<1>3. profile'[p] = profile[p] => ProfileGrew(p)
  BY <1>2 DEF ProfileGrew
<1>4. CASE Acquires
  <2>1. PICK q \in Players, s \in Servers : Acquire(q, s)
    BY <1>4 DEF Acquires
  <2>2. /\ profile'[q].epoch = profile[q].epoch + 1
        /\ \A x \in Players : x # q => profile'[x] = profile[x]
    BY <1>1, <2>1, AcquireEffect
  <2>3. CASE p = q
    BY <1>2, <2>2, <2>3 DEF ProfileGrew
  <2> QED
    BY <1>3, <2>2, <2>3
<1>5. CASE Commits
  <2>1. PICK c \in commits : CommitState(c)
    BY <1>5 DEF Commits
  <2>2. /\ c.player \in Players
        /\ \/ profile' = profile
           \/ /\ profile[c.player].epoch = c.epoch /\ profile[c.player].commitSeq < c.seq
              /\ profile'[c.player].epoch = c.epoch /\ profile'[c.player].commitSeq = c.seq
              /\ \A q \in Players : q # c.player => profile'[q] = profile[q]
    BY <1>1, <2>1, CommitEffect
  <2>3. c.seq \in Nat
    BY <1>1, CommitFields
  <2>4. CASE /\ p = c.player
             /\ profile[c.player].epoch = c.epoch /\ profile[c.player].commitSeq < c.seq
             /\ profile'[c.player].epoch = c.epoch /\ profile'[c.player].commitSeq = c.seq
    BY <1>2, <2>3, <2>4 DEF ProfileGrew
  <2> QED
    BY <1>3, <2>2, <2>4
<1>6. CASE Applies
  <2>1. PICK o \in Ops : request[o] # NoRequest /\ ApplyStates(o, request[o])
    BY <1>6 DEF Applies
  <2>2. /\ \A q \in request[o].parties :
             /\ profile[q].epoch = request[o].epoch[q] /\ profile[q].commitSeq < request[o].seq[q]
             /\ profile'[q].epoch = request[o].epoch[q] /\ profile'[q].commitSeq = request[o].seq[q]
        /\ \A q \in Players : q \notin request[o].parties => profile'[q] = profile[q]
    BY <1>1, <2>1, ApplyEffect
  <2>3. CASE p \in request[o].parties
    <3>1. request[o].seq[p] \in Nat
      BY <1>1, <2>1, <2>3, PartyFields
    <3> QED
      BY <1>2, <2>2, <2>3, <3>1 DEF ProfileGrew
  <2> QED
    BY <1>3, <2>2, <2>3
<1> QED
  BY <1>3, <1>4, <1>5, <1>6, Frames

(* What a request says stays; its outcome, once known, too.                *)
RequestKept(o) ==
    /\ request'[o] # NoRequest
    /\ request'[o].kind = request[o].kind /\ request'[o].server = request[o].server
    /\ request'[o].claim = request[o].claim /\ request'[o].parties = request[o].parties
    /\ request'[o].epoch = request[o].epoch /\ request'[o].seq = request[o].seq
    /\ request'[o].goods = request[o].goods
    /\ request'[o].gives = request[o].gives /\ request'[o].gets = request[o].gets

LEMMA RequestsKept ==
  ASSUME Known, [Next]_vars, NEW o \in Ops, request[o] # NoRequest
  PROVE  RequestKept(o)
<1>1. Types /\ PartiesKnown /\ Tokens
  BY DEF Known, Books
<1>2. request'[o] = request[o] => RequestKept(o)
  BY DEF RequestKept
<1>3. CASE Sends
  <2>1. PICK x \in Ops : Sent(x)
    BY <1>1, <1>3, SendsAreSent
  <2>3. request[x] = NoRequest /\ \A y \in Ops : y # x => request'[y] = request[y]
    BY <2>1 DEF Sent
  <2> QED
    BY <1>2, <2>3
<1>4. CASE Learns
  <2>1. PICK x \in Ops : \E a \in answers[x] : Learn(x, a)
    BY <1>4 DEF Learns
  <2>2. PICK a \in answers[x] : Learn(x, a)
    BY <2>1
  <2>3. \A y \in Ops : y # x => request'[y] = request[y]
    BY <1>1, <2>2, LearnEffect
  <2>4. RequestKept(x)
    BY <1>1, <2>2, LearnEffect, RequestFields DEF RequestKept
  <2> QED
    BY <1>2, <2>3, <2>4
<1> QED
  BY <1>2, <1>3, <1>4, Frames

LEMMA RecordsGrow ==
  ASSUME Known, [Next]_vars, NEW o \in Ops
  PROVE  /\ record[o] # "none" => record'[o] # "none"
         /\ record[o] = "expired" => record'[o] = "expired"
         /\ request[o] = NoRequest => record'[o] = record[o]
<1>1. Types /\ LeaseKnown /\ PartiesKnown
  BY DEF Known, Books
<1>2. CASE Applies
  <2>1. PICK x \in Ops : request[x] # NoRequest /\ ApplyStates(x, request[x])
    BY <1>2 DEF Applies
  <2>2. record[x] = "none"
    BY <2>1, ApplyIsFirst
  <2>3. \A y \in Ops : y # x => record'[y] = record[y]
    BY <1>1, <2>1, ApplyEffect
  <2> QED
    BY <2>1, <2>2, <2>3
<1>3. ASSUME NEW x \in Ops, RecordExpires(x)
      PROVE  /\ record[o] # "none" => record'[o] # "none"
             /\ record[o] = "expired" => record'[o] = "expired"
             /\ request[o] = NoRequest => record'[o] = record[o]
  <2>1. record[x] = "kept" /\ record' = [record EXCEPT ![x] = "expired"]
    BY <1>3 DEF RecordExpires, Recorded
  <2>2. request[x] # NoRequest
    BY <2>1 DEF Known, Books, Records
  <2> QED
    BY <1>1, <2>1, <2>2 DEF Types
<1> QED
  BY <1>2, <1>3, Frames

(* A world drop keeps its units and its world, and what is not public does *)
(* not become so again.                                                    *)
LEMMA DropsGrow ==
  ASSUME Known, [Next]_vars, NEW d \in Ops, drops[d].status # "none"
  PROVE  /\ drops'[d].status # "none"
         /\ drops'[d].world = drops[d].world /\ drops'[d].goods = drops[d].goods
         /\ drops[d].status # "public" => drops'[d] = drops[d]
<1>1. Types /\ LeaseKnown /\ PartiesKnown
  BY DEF Known, Books
<1>2. CASE Applies
  <2>1. PICK o \in Ops : request[o] # NoRequest /\ ApplyStates(o, request[o])
    BY <1>2 DEF Applies
  <2>2. d # o
    BY <2>1, ApplyIsFirst
  <2>3. /\ request[o].claim # NoOp => drops[request[o].claim].status = "public"
        /\ d = request[o].claim =>
             /\ drops'[d].status = "claimed" /\ drops'[d].world = drops[d].world
             /\ drops'[d].goods = drops[d].goods
        /\ d # request[o].claim /\ d # o => drops'[d] = drops[d]
    BY <1>1, <2>1, ApplyEffect
  <2> QED
    BY <2>2, <2>3, NoneAssumption
<1>3. ASSUME NEW x \in Ops, DropExpires(x)
      PROVE  /\ drops'[d].status # "none"
             /\ drops'[d].world = drops[d].world /\ drops'[d].goods = drops[d].goods
             /\ drops[d].status # "public" => drops'[d] = drops[d]
  <2> DEFINE n == [drops[x] EXCEPT !.status = "expired"]
  <2>1. drops[x].status = "public" /\ drops' = [drops EXCEPT ![x] = n] /\ drops[x] \in Drop
    BY <1>1, <1>3 DEF DropExpires, Types
  <2>2. n.status = "expired" /\ n.world = drops[x].world /\ n.goods = drops[x].goods
    BY <2>1 DEF Drop
  <2> HIDE DEF n
  <2>3. drops'[x] = n /\ (d # x => drops'[d] = drops[d])
    BY <1>1, <2>1 DEF Types
  <2> QED
    BY <2>1, <2>2, <2>3
<1> QED
  BY <1>2, <1>3, Frames

LEMMA CommitsGrow == ASSUME Known, [Next]_vars PROVE commits \subseteq commits'
  BY CaptureEffect, Frames DEF Captures, Known


-----------------------------------------------------------------------------
(***************************************************************************)
(* What a step does to a session.                                          *)
(***************************************************************************)
Plays(p, e) ==
    /\ session[p][e] \in Session /\ session[p][e].state = "playing"
    /\ session'[p][e] \in Session /\ session'[p][e].state = "playing"
    /\ session'[p][e].server = session[p][e].server

SameMarks(p, e) ==
    /\ session'[p][e].captured = session[p][e].captured /\ session'[p][e].saved = session[p][e].saved
    /\ session'[p][e].op = session[p][e].op

(* A server just acquired it; or it ends; or it plays on.                  *)
SessionNew(p, e) ==
    /\ session[p][e] = NoSession /\ e = profile[p].epoch + 1
    /\ \E s \in Servers : Acquire(p, s)

SessionEnds(p, e) ==
    /\ session[p][e] \in Session /\ session[p][e].state = "playing"
    /\ session'[p][e] = Done(session[p][e])

CoinFell(p, e) ==
    /\ Plays(p, e) /\ SameMarks(p, e)
    /\ \E u \in Coins : Fall(p, e, u) /\ session'[p][e].goods = session[p][e].goods \ {u}

CoinFound(p, e) ==
    /\ Plays(p, e) /\ SameMarks(p, e)
    /\ \E f \in fallen : Find(p, e, f) /\ session'[p][e].goods = session[p][e].goods \cup {f.unit}

StateCaptured(p, e) ==
    /\ Plays(p, e) /\ Capture(p, e)
    /\ session[p][e].op = NoOp /\ session'[p][e].op = NoOp
    /\ session'[p][e].captured = session[p][e].captured + 1 /\ session[p][e].captured < MaxSeq[p]
    /\ session'[p][e].saved = session[p][e].saved /\ session'[p][e].goods = session[p][e].goods

StateSaved(p, e) ==
    /\ Plays(p, e)
    /\ session'[p][e].op = session[p][e].op /\ session'[p][e].captured = session[p][e].captured
    /\ session'[p][e].goods = session[p][e].goods
    /\ \E c \in commits :
          /\ c.player = p /\ c.epoch = e
          /\ session'[p][e].saved = IF session[p][e].saved < c.seq THEN c.seq ELSE session[p][e].saved
          /\ profile'[p].epoch = e /\ profile'[p].commitSeq >= c.seq

OpSent(p, e) ==
    /\ Plays(p, e) /\ session[p][e].op = NoOp
    /\ session'[p][e].captured = session[p][e].captured + 1 /\ session[p][e].captured < MaxSeq[p]
    /\ session'[p][e].saved = session[p][e].saved
    /\ \E o \in Ops :
          /\ Sent(o) /\ p \in request'[o].parties /\ e = request'[o].epoch[p]
          /\ session'[p][e].op = o
          /\ session'[p][e].goods = session[p][e].goods \ request'[o].gives[p]

OpHeard(p, e) ==
    /\ Plays(p, e) /\ session'[p][e].op = NoOp
    /\ session'[p][e].captured = session[p][e].captured
    /\ \E o \in Ops : \E a \in answers[o] :
          /\ Learn(o, a) /\ p \in request[o].parties /\ e = request[o].epoch[p]
          /\ session[p][e].op = o
          /\ IF IsApplied(a)
               THEN /\ session'[p][e].goods = session[p][e].goods \cup request[o].gets[p]
                    /\ session'[p][e].saved = IF session[p][e].saved < request[o].seq[p]
                                                THEN request[o].seq[p] ELSE session[p][e].saved
               ELSE /\ session'[p][e].goods = session[p][e].goods \cup request[o].gives[p]
                    /\ session'[p][e].saved = session[p][e].saved

SessionChanges(p, e) ==
    \/ session'[p][e] = session[p][e]
    \/ SessionNew(p, e) \/ SessionEnds(p, e)
    \/ CoinFell(p, e) \/ CoinFound(p, e)
    \/ StateCaptured(p, e) \/ StateSaved(p, e)
    \/ OpSent(p, e) \/ OpHeard(p, e)

LEMMA SavingSaves ==
  ASSUME Types, CommitsKnown, NEW c \in commits, CommitState(c)
  PROVE  SessionChanges(c.player, c.epoch)
<1> DEFINE p == c.player
           e == c.epoch
           s == session[p][e]
<1>1. /\ p \in Players /\ e \in Epochs /\ s \in Session
      /\ \/ session'[p][e] = s
         \/ s.state = "playing" /\ session'[p][e] = Done(s)
         \/ /\ s.state = "playing" /\ session'[p][e] = Saved(s, c.seq)
            /\ profile'[p].epoch = e /\ profile'[p].commitSeq >= c.seq
  BY CommitEffect
<1>2. c.seq \in Nat
  BY CommitFields
<1>3. ASSUME s.state = "playing", session'[p][e] = Saved(s, c.seq),
             profile'[p].epoch = e, profile'[p].commitSeq >= c.seq
      PROVE  StateSaved(p, e)
  <2> HIDE DEF s, p, e
  <2>1. /\ Saved(s, c.seq) \in Session /\ Saved(s, c.seq).state = s.state
        /\ Saved(s, c.seq).server = s.server /\ Saved(s, c.seq).captured = s.captured
        /\ Saved(s, c.seq).goods = s.goods /\ Saved(s, c.seq).op = s.op
        /\ Saved(s, c.seq).saved = IF s.saved < c.seq THEN c.seq ELSE s.saved
    BY <1>1, <1>2, SavedFields
  <2>2. /\ session'[p][e] \in Session /\ session'[p][e].state = "playing"
        /\ session'[p][e].server = s.server /\ session'[p][e].captured = s.captured
        /\ session'[p][e].goods = s.goods /\ session'[p][e].op = s.op
        /\ session'[p][e].saved = IF s.saved < c.seq THEN c.seq ELSE s.saved
    BY <1>3, <2>1
  <2>3. Plays(p, e)
    BY <1>1, <1>3, <2>2 DEF Plays, s
  <2>4. /\ session'[p][e].op = session[p][e].op /\ session'[p][e].captured = session[p][e].captured
        /\ session'[p][e].goods = session[p][e].goods
        /\ session'[p][e].saved = IF session[p][e].saved < c.seq THEN c.seq ELSE session[p][e].saved
    BY <2>2 DEF s
  <2>5. c.player = p /\ c.epoch = e
    BY DEF p, e
  <2> QED
    BY <1>3, <2>3, <2>4, <2>5 DEF StateSaved
<1> QED
  BY <1>1, <1>3 DEF SessionChanges, SessionEnds

LEMMA SendingSends ==
  ASSUME Types, NEW o \in Ops, Sent(o), NEW p \in Players, NEW e \in Epochs
  PROVE  SessionChanges(p, e)
<1>1. CASE p \in request'[o].parties /\ e = request'[o].epoch[p]
  <2> DEFINE s == session[p][e]
             units == request'[o].gives[p]
  <2>1. /\ s \in Session /\ s.state = "playing" /\ s.op = NoOp /\ s.captured < MaxSeq[p]
        /\ session'[p][e] = Giving(s, units, o)
    BY <1>1 DEF Sent, PartySent
  <2> HIDE DEF s, units
  <2>2. /\ session'[p][e] \in Session /\ session'[p][e].state = "playing"
        /\ session'[p][e].server = s.server /\ session'[p][e].captured = s.captured + 1
        /\ session'[p][e].saved = s.saved /\ session'[p][e].op = o
        /\ session'[p][e].goods = s.goods \ units
    BY <2>1, GivingFields
  <2>3. Plays(p, e)
    BY <2>1, <2>2 DEF Plays, s
  <2>4. OpSent(p, e)
    BY <1>1, <2>1, <2>2, <2>3 DEF OpSent, s, units
  <2> QED
    BY <2>4 DEF SessionChanges
<1>2. CASE ~(p \in request'[o].parties /\ e = request'[o].epoch[p])
  BY <1>2 DEF Sent, SessionChanges
<1> QED
  BY <1>1, <1>2

LEMMA LearningHears ==
  ASSUME Types, PartiesKnown, NEW o \in Ops, NEW a \in answers[o], Learn(o, a),
         NEW p \in Players, NEW e \in Epochs
  PROVE  SessionChanges(p, e)
<1>1. /\ request[o] \in Request
      /\ \A q \in request[o].parties : session'[q][request[o].epoch[q]] = SessionAfter(o, a, q)
      /\ \A q \in Players, f \in Epochs :
            ~(q \in request[o].parties /\ f = request[o].epoch[q]) => session'[q][f] = session[q][f]
  BY LearnEffect
<1>2. CASE ~(p \in request[o].parties /\ e = request[o].epoch[p])
  BY <1>1, <1>2 DEF SessionChanges
<1>3. CASE p \in request[o].parties /\ e = request[o].epoch[p]
  <2> DEFINE s == session[p][e]
             t == session'[p][e]
  <2>1. s \in Session /\ request[o] # NoRequest
    BY <1>1, <1>3, PartyFields, RequestFields
  <2>2. t = SessionAfter(o, a, p)
    BY <1>1, <1>3
  <2>3. /\ t \in Session
        /\ ~Waits(o, p) => t = s
        /\ Waits(o, p) =>
             \/ t = Done(s)
             \/ /\ t.state = s.state /\ t.server = s.server /\ t.captured = s.captured /\ t.op = NoOp
                /\ IF IsApplied(a)
                     THEN /\ t.goods = s.goods \cup request[o].gets[p]
                          /\ t.saved = IF s.saved < request[o].seq[p] THEN request[o].seq[p] ELSE s.saved
                     ELSE t.goods = s.goods \cup request[o].gives[p] /\ t.saved = s.saved
    BY <1>1, <1>3, <2>1, <2>2, SessionAfterIs
  <2>4. Waits(o, p) => s.state = "playing" /\ s.op = o
    BY <1>3 DEF Waits, Playing
  <2>5. ASSUME Waits(o, p), t.state = s.state, t.server = s.server, t.captured = s.captured, t.op = NoOp,
               IF IsApplied(a)
                 THEN /\ t.goods = s.goods \cup request[o].gets[p]
                      /\ t.saved = IF s.saved < request[o].seq[p] THEN request[o].seq[p] ELSE s.saved
                 ELSE t.goods = s.goods \cup request[o].gives[p] /\ t.saved = s.saved
        PROVE  OpHeard(p, e)
    <3>1. Plays(p, e)
      BY <2>1, <2>3, <2>4, <2>5 DEF Plays
    <3> QED
      BY <1>3, <2>4, <2>5, <3>1 DEF OpHeard
  <2> HIDE DEF t
  <2> QED
    BY <2>1, <2>3, <2>4, <2>5 DEF SessionChanges, SessionEnds, t
<1> QED
  BY <1>2, <1>3

LEMMA SessionsChange ==
  ASSUME Known, [Next]_vars, NEW p \in Players, NEW e \in Epochs
  PROVE  SessionChanges(p, e)
<1>1. Types /\ SessionsKnown /\ CommitsKnown /\ PartiesKnown /\ Tokens
  BY DEF Known, Books
<1>2. session[p][e] \in Session \cup {NoSession}
  BY <1>1 DEF Types
<1>3. session'[p][e] = session[p][e] => SessionChanges(p, e)
  BY DEF SessionChanges
<1>5. CASE Acquires
  <2>1. PICK q \in Players, s \in Servers : Acquire(q, s)
    BY <1>5 DEF Acquires
  <2>2. OthersKept(q, profile[q].epoch + 1)
    BY <1>1, <2>1, AcquireEffect
  <2>3. CASE p = q /\ e = profile[q].epoch + 1
    <3>1. profile[p].epoch \in Nat
      BY <1>1, ProfileFields
    <3>2. ~(e <= profile[p].epoch)
      BY <2>3, <3>1
    <3>3. session[p][e] = NoSession
      BY <1>1, <3>2 DEF SessionsKnown
    <3> QED
      BY <2>1, <2>3, <3>3 DEF SessionChanges, SessionNew
  <2> QED
    BY <1>3, <2>2, <2>3 DEF OthersKept
<1>6. CASE Restarts
  <2>1. PICK s \in Servers : Restart(s)
    BY <1>6 DEF Restarts
  <2>2. \/ session'[p][e] = session[p][e]
        \/ session[p][e] \in Session /\ session[p][e].state = "playing" /\ session'[p][e] = Done(session[p][e])
    BY <1>2, <2>1 DEF Restart, Playing
  <2> QED
    BY <2>2 DEF SessionChanges, SessionEnds
<1>7. CASE Captures
  <2>1. PICK q \in Players, f \in Epochs : Capture(q, f)
    BY <1>7 DEF Captures
  <2>2. OthersKept(q, f) /\ StateCaptured(q, f)
    BY <1>1, <2>1, CaptureEffect DEF StateCaptured, Plays
  <2> QED
    BY <1>3, <2>2 DEF OthersKept, SessionChanges
<1>8. CASE Falls
  <2>1. PICK q \in Players, f \in Epochs, u \in Coins : Fall(q, f, u)
    BY <1>8 DEF Falls
  <2>2. OthersKept(q, f) /\ CoinFell(q, f)
    BY <1>1, <2>1, FallEffect DEF CoinFell, Plays, SameMarks
  <2> QED
    BY <1>3, <2>2 DEF OthersKept, SessionChanges
<1>9. CASE Finds
  <2>1. PICK q \in Players, f \in Epochs : \E g \in fallen : Find(q, f, g)
    BY <1>9 DEF Finds
  <2>2. PICK g \in fallen : Find(q, f, g)
    BY <2>1
  <2>3. OthersKept(q, f) /\ CoinFound(q, f)
    BY <1>1, <2>2, FindEffect DEF CoinFound, Plays, SameMarks
  <2> QED
    BY <1>3, <2>3 DEF OthersKept, SessionChanges
<1>10. CASE Commits
  <2>1. PICK c \in commits : CommitState(c)
    BY <1>10 DEF Commits
  <2>2. OthersKept(c.player, c.epoch) /\ SessionChanges(c.player, c.epoch)
    BY <1>1, <2>1, CommitEffect, SavingSaves
  <2>3. CASE p = c.player /\ e = c.epoch
    BY <2>2, <2>3
  <2> QED
    BY <1>3, <2>2, <2>3 DEF OthersKept
<1>11. CASE Sends
  BY <1>1, <1>11, SendsAreSent, SendingSends
<1>12. CASE Learns
  BY <1>1, <1>12, LearningHears DEF Learns
<1>13. CASE session' = session
  BY <1>3, <1>13
<1> QED
  BY <1>5, <1>6, <1>7, <1>8, <1>9, <1>10, <1>11, <1>12, <1>13, Frames

(* A session stays on its server, what it saved stays saved, and one that  *)
(* is done stays as it is.                                                 *)
SessionGrew(p, e) ==
    /\ session'[p][e] \in Session
    /\ session'[p][e].server = session[p][e].server
    /\ session[p][e].saved <= session'[p][e].saved
    /\ session[p][e].state = "done" => session'[p][e] = session[p][e]
    /\ session'[p][e].state = "playing" =>
          session[p][e].state = "playing" /\ session[p][e].captured <= session'[p][e].captured

LEMMA SessionsGrow ==
  ASSUME Known, [Next]_vars, NEW p \in Players, NEW e \in Epochs, session[p][e] # NoSession
  PROVE  SessionGrew(p, e)
<1> DEFINE s == session[p][e]
           t == session'[p][e]
<1>1. /\ s \in Session /\ s.saved \in Nat /\ s.captured \in Nat
      /\ SessionChanges(p, e) /\ ~SessionNew(p, e) /\ Types
  <2>1. s \in Session
    BY DEF Known, Types
  <2> QED
    BY <2>1, SessionsChange, SessionFields DEF Known, SessionNew
<1>2. CASE t = s
  BY <1>1, <1>2 DEF SessionGrew
<1>3. CASE SessionEnds(p, e)
  BY <1>1, <1>3, DoneFields DEF SessionEnds, SessionGrew
<1>4. ASSUME Plays(p, e), s.saved <= t.saved, s.captured <= t.captured PROVE SessionGrew(p, e)
  BY <1>4 DEF Plays, SessionGrew
<1>5. CASE CoinFell(p, e) \/ CoinFound(p, e)
  BY <1>1, <1>4, <1>5 DEF CoinFell, CoinFound, SameMarks
<1>6. CASE StateCaptured(p, e) \/ OpSent(p, e)
  BY <1>1, <1>4, <1>6 DEF StateCaptured, OpSent
<1>7. CASE StateSaved(p, e)
  <2>1. PICK c \in commits : t.saved = IF s.saved < c.seq THEN c.seq ELSE s.saved
    BY <1>7 DEF StateSaved
  <2>2. c.seq \in Nat
    BY <1>1, CommitFields
  <2>3. s.saved <= t.saved
    BY <1>1, <2>1, <2>2
  <2> QED
    BY <1>1, <1>4, <1>7, <2>3 DEF StateSaved
<1>8. CASE OpHeard(p, e)
  <2>1. PICK o \in Ops : /\ p \in request[o].parties /\ request[o] # NoRequest
                         /\ \/ t.saved = IF s.saved < request[o].seq[p] THEN request[o].seq[p] ELSE s.saved
                            \/ t.saved = s.saved
    BY <1>8 DEF OpHeard, Learn
  <2>2. request[o].seq[p] \in Nat
    BY <1>1, <2>1, RequestFields DEF Types
  <2>3. s.saved <= t.saved
    BY <1>1, <2>1, <2>2
  <2> QED
    BY <1>1, <1>4, <1>8, <2>3 DEF OpHeard
<1> QED
  BY <1>1, <1>2, <1>3, <1>5, <1>6, <1>7, <1>8 DEF SessionChanges


-----------------------------------------------------------------------------
(***************************************************************************)
(* Each part of the invariant is kept.                                     *)
(***************************************************************************)
LEMMA NewSessionIs ==
  ASSUME Types, NEW p \in Players, NEW e \in Epochs, SessionNew(p, e)
  PROVE  /\ profile'[p].epoch = e /\ profile'[p].commitSeq = 0
         /\ profile'[p].goods = profile[p].goods
         /\ session'[p][e] \in Session /\ session'[p][e].state = "playing"
         /\ session'[p][e].goods = profile[p].goods
         /\ session'[p][e].captured = 0 /\ session'[p][e].saved = 0 /\ session'[p][e].op = NoOp
         /\ UNCHANGED <<record, drops, commits, request, answers, tokens, fallen>>
<1>1. PICK s \in Servers : Acquire(p, s)
  BY DEF SessionNew
<1>2. e = profile[p].epoch + 1
  BY DEF SessionNew
<1>3. UNCHANGED <<record, drops, commits, request, answers, tokens, fallen>>
  BY <1>1 DEF Acquire, wireVars
<1> QED
  BY <1>1, <1>2, <1>3, AcquireEffect

(* What the engine applied of a playing session was captured.              *)
LEMMA AppliedWasCaptured ==
  ASSUME Known, [Next]_vars, NEW p \in Players, NEW e \in Epochs, session[p][e] # NoSession,
         session[p][e].state = "playing", e = profile'[p].epoch
  PROVE  profile'[p].commitSeq <= session[p][e].captured
<1>1. Types /\ SessionsKnown /\ CommitsKnown /\ PartiesKnown /\ LeaseKnown
  BY DEF Known, Books
<1>2. e <= profile[p].epoch /\ profile[p].epoch \in Nat /\ profile[p].epoch <= profile'[p].epoch
  BY <1>1, ProfileFields, ProfilesGrow DEF SessionsKnown, ProfileGrew
<1>3. e = profile[p].epoch
  <2>1. e \in Nat /\ profile'[p].epoch = e
    BY BoundAssumption DEF Epochs
  <2> QED
    BY <1>2, <2>1
<1>4. profile'[p] = profile[p] => profile'[p].commitSeq <= session[p][e].captured
  BY <1>1, <1>3 DEF SessionsKnown
<1>5. CASE Acquires
  <2>1. PICK q \in Players, s \in Servers : Acquire(q, s)
    BY <1>5 DEF Acquires
  <2>2. /\ profile'[q].epoch = profile[q].epoch + 1
        /\ \A x \in Players : x # q => profile'[x] = profile[x]
    BY <1>1, <2>1, AcquireEffect
  <2>3. p # q
    <3>1. profile'[p].epoch = profile[p].epoch
      BY <1>3
    <3> QED
      BY <1>2, <2>2, <3>1
  <2> QED
    BY <1>4, <2>2, <2>3
<1>6. CASE Commits
  <2>1. PICK c \in commits : CommitState(c)
    BY <1>6 DEF Commits
  <2>2. /\ c.player \in Players
        /\ \/ profile' = profile
           \/ /\ profile'[c.player].epoch = c.epoch /\ profile'[c.player].commitSeq = c.seq
              /\ \A q \in Players : q # c.player => profile'[q] = profile[q]
    BY <1>1, <2>1, CommitEffect
  <2>3. p = c.player /\ e = c.epoch => c.seq <= session[p][e].captured
    BY <1>1 DEF CommitsKnown
  <2> QED
    BY <1>4, <2>2, <2>3
<1>7. CASE Applies
  <2>1. PICK o \in Ops : request[o] # NoRequest /\ ApplyStates(o, request[o])
    BY <1>7 DEF Applies
  <2>2. /\ \A q \in request[o].parties :
             profile'[q].epoch = request[o].epoch[q] /\ profile'[q].commitSeq = request[o].seq[q]
        /\ \A q \in Players : q \notin request[o].parties => profile'[q] = profile[q]
    BY <1>1, <2>1, ApplyEffect
  <2>3. p \in request[o].parties /\ e = request[o].epoch[p] => request[o].seq[p] <= session[p][e].captured
    BY <1>1, <2>1 DEF PartiesKnown
  <2> QED
    BY <1>4, <2>2, <2>3
<1> QED
  BY <1>4, <1>5, <1>6, <1>7, Frames

LEMMA SessionsKnownStep == ASSUME Known, [Next]_vars PROVE SessionsKnown'
<1> SUFFICES ASSUME NEW p \in Players, NEW e \in Epochs, session'[p][e] # NoSession
             PROVE  /\ e <= profile'[p].epoch
                    /\ session'[p][e].state = "done" => session'[p][e].op = NoOp
                    /\ session'[p][e].state = "playing" =>
                         /\ session'[p][e].saved <= session'[p][e].captured
                         /\ session'[p][e].captured <= MaxSeq[p]
                         /\ e = profile'[p].epoch => profile'[p].commitSeq <= session'[p][e].captured
  BY DEF SessionsKnown
<1> DEFINE s == session[p][e]
           t == session'[p][e]
<1>1. /\ Types /\ SessionsKnown /\ CommitsKnown /\ PartiesKnown
      /\ SessionChanges(p, e) /\ MaxSeq[p] \in Nat /\ profile[p].epoch \in Nat /\ e \in Nat
      /\ Types'
  BY SessionsChange, BoundAssumption, ProfileFields, TypesStep DEF Known, Books, Epochs
<1>2. CASE SessionNew(p, e)
  BY <1>1, <1>2, NewSessionIs
<1>3. CASE s # NoSession
  <2>1. /\ s \in Session /\ s.captured \in Nat /\ s.saved \in Nat /\ SessionGrew(p, e)
    BY <1>1, <1>3, SessionsGrow, SessionFields DEF Types
  <2>2. /\ e <= profile[p].epoch
        /\ s.state = "done" => s.op = NoOp
        /\ s.state = "playing" => s.saved <= s.captured /\ s.captured <= MaxSeq[p]
    BY <1>1, <1>3 DEF SessionsKnown
  <2>3. t \in Session /\ t.captured \in Nat /\ t.saved \in Nat
    BY <2>1, SessionFields DEF SessionGrew
  <2>4. e <= profile'[p].epoch
    <3>1. profile[p].epoch <= profile'[p].epoch /\ profile'[p].epoch \in Nat
      BY <1>1, ProfilesGrow DEF ProfileGrew, Types, Profile
    <3> QED
      BY <1>1, <2>2, <3>1
  <2>5. ASSUME t.state = "playing", e = profile'[p].epoch
        PROVE  profile'[p].commitSeq <= t.captured
    <3>1. s.state = "playing" /\ s.captured <= t.captured
      BY <2>1, <2>5 DEF SessionGrew
    <3>2. profile'[p].commitSeq <= s.captured
      BY <1>3, <2>5, <3>1, AppliedWasCaptured
    <3>3. profile'[p].commitSeq \in Nat
      BY <1>1 DEF Types, Profile
    <3> QED
      BY <2>1, <2>3, <3>1, <3>2, <3>3
  <2>6. /\ t.state = "done" => t.op = NoOp
        /\ t.state = "playing" => t.saved <= t.captured /\ t.captured <= MaxSeq[p]
    <3>1. CASE t = s
      BY <2>2, <3>1
    <3>2. CASE SessionEnds(p, e)
      BY <2>1, <3>2, DoneFields DEF SessionEnds
    <3>3. ASSUME Plays(p, e), t.saved <= t.captured, t.captured <= MaxSeq[p]
          PROVE  /\ t.state = "done" => t.op = NoOp
                 /\ t.state = "playing" => t.saved <= t.captured /\ t.captured <= MaxSeq[p]
      BY <3>3 DEF Plays
    <3>4. CASE CoinFell(p, e) \/ CoinFound(p, e)
      BY <2>2, <3>3, <3>4 DEF CoinFell, CoinFound, SameMarks, Plays
    <3>5. CASE StateCaptured(p, e) \/ OpSent(p, e)
      <4>1. /\ Plays(p, e) /\ t.captured = s.captured + 1 /\ s.captured < MaxSeq[p] /\ t.saved = s.saved
        BY <3>5 DEF StateCaptured, OpSent
      <4>2. s.saved <= s.captured
        BY <2>2, <4>1 DEF Plays
      <4>3. t.saved <= t.captured /\ t.captured <= MaxSeq[p]
        BY <1>1, <2>1, <4>1, <4>2
      <4> QED
        BY <3>3, <4>1, <4>3
    <3>6. CASE StateSaved(p, e)
      <4>1. PICK c \in commits : /\ c.player = p /\ c.epoch = e
                                 /\ t.saved = IF s.saved < c.seq THEN c.seq ELSE s.saved
        BY <3>6 DEF StateSaved
      <4>2. Plays(p, e) /\ t.captured = s.captured
        BY <3>6 DEF StateSaved
      <4>3. c.seq <= s.captured /\ s.saved <= s.captured /\ s.captured <= MaxSeq[p]
        BY <1>1, <2>2, <4>1, <4>2 DEF CommitsKnown, Plays
      <4>4. t.saved <= t.captured /\ t.captured <= MaxSeq[p]
        BY <4>1, <4>2, <4>3
      <4> QED
        BY <3>3, <4>2, <4>4
    <3>7. CASE OpHeard(p, e)
      <4>1. PICK o \in Ops : /\ p \in request[o].parties /\ e = request[o].epoch[p] /\ request[o] # NoRequest
                             /\ \/ t.saved = IF s.saved < request[o].seq[p] THEN request[o].seq[p] ELSE s.saved
                                \/ t.saved = s.saved
        BY <3>7 DEF OpHeard, Learn
      <4>2. Plays(p, e) /\ t.captured = s.captured
        BY <3>7 DEF OpHeard
      <4>3. request[o].seq[p] <= s.captured /\ s.saved <= s.captured /\ s.captured <= MaxSeq[p]
        BY <1>1, <2>2, <4>1, <4>2 DEF PartiesKnown, Plays
      <4>4. t.saved <= t.captured /\ t.captured <= MaxSeq[p]
        BY <4>1, <4>2, <4>3
      <4> QED
        BY <3>3, <4>2, <4>4
    <3> QED
      BY <1>1, <1>3, <3>1, <3>2, <3>4, <3>5, <3>6, <3>7 DEF SessionChanges, SessionNew
  <2> QED
    BY <2>4, <2>5, <2>6
<1>4. s = NoSession => SessionNew(p, e)
  BY <1>1, SessionFields DEF SessionChanges, SessionEnds, CoinFell, CoinFound, StateCaptured, StateSaved,
                             OpSent, OpHeard, Plays
<1> QED
  BY <1>2, <1>3, <1>4


(* Only a takeover changes the epoch of a profile.                         *)
LEMMA EpochsMove ==
  ASSUME Known, [Next]_vars, NEW p \in Players
  PROVE  profile'[p].epoch = profile[p].epoch \/ \E s \in Servers : Acquire(p, s)
<1>1. Types /\ LeaseKnown /\ PartiesKnown /\ CommitsKnown
  BY DEF Known, Books
<1>2. CASE Acquires
  <2>1. PICK q \in Players, s \in Servers : Acquire(q, s)
    BY <1>2 DEF Acquires
  <2>2. \A x \in Players : x # q => profile'[x] = profile[x]
    BY <1>1, <2>1, AcquireEffect
  <2> QED
    BY <2>1, <2>2
<1>3. CASE Commits
  <2>1. PICK c \in commits : CommitState(c)
    BY <1>3 DEF Commits
  <2>2. \/ profile' = profile
        \/ /\ profile[c.player].epoch = c.epoch /\ profile'[c.player].epoch = c.epoch
           /\ \A q \in Players : q # c.player => profile'[q] = profile[q]
    BY <1>1, <2>1, CommitEffect
  <2> QED
    BY <2>2
<1>4. CASE Applies
  <2>1. PICK o \in Ops : request[o] # NoRequest /\ ApplyStates(o, request[o])
    BY <1>4 DEF Applies
  <2>2. /\ \A q \in request[o].parties :
             profile[q].epoch = request[o].epoch[q] /\ profile'[q].epoch = request[o].epoch[q]
        /\ \A q \in Players : q \notin request[o].parties => profile'[q] = profile[q]
    BY <1>1, <2>1, ApplyEffect
  <2> QED
    BY <2>2
<1> QED
  BY <1>2, <1>3, <1>4, Frames

LEMMA LeaseKnownStep == ASSUME Known, [Next]_vars PROVE LeaseKnown'
<1> DEFINE K(p) == /\ lease'[p].epoch \in Epochs /\ lease'[p].epoch = profile'[p].epoch
                   /\ session'[p][lease'[p].epoch] # NoSession
                   /\ lease'[p].world = WorldOf[session'[p][lease'[p].epoch].server]
<1> SUFFICES ASSUME NEW p \in Players, lease'[p] # NoLease PROVE K(p)
  BY DEF LeaseKnown
<1>1. Types /\ LeaseKnown
  BY DEF Known, Books
<1>2. ASSUME NEW s \in Servers, Acquire(p, s) PROVE K(p)
  BY <1>1, <1>2, AcquireEffect, SessionFields
<1>3. ASSUME lease'[p] = lease[p], profile'[p].epoch = profile[p].epoch PROVE K(p)
  <2> DEFINE e == lease[p].epoch
  <2>1. /\ e \in Epochs /\ e = profile[p].epoch /\ session[p][e] # NoSession
        /\ lease[p].world = WorldOf[session[p][e].server]
    BY <1>1, <1>3 DEF LeaseKnown
  <2> HIDE DEF e
  <2>2. session'[p][e] \in Session /\ session'[p][e].server = session[p][e].server
    BY <2>1, SessionsGrow DEF SessionGrew
  <2>3. session'[p][e] # NoSession
    BY <2>2, SessionFields
  <2> QED
    BY <1>3, <2>1, <2>2, <2>3 DEF e
<1>4. ASSUME ~\E s \in Servers : Acquire(p, s) PROVE lease'[p] = lease[p]
  <2>1. CASE Acquires
    BY <1>1, <1>4, <2>1, AcquireEffect DEF Acquires
  <2>2. ASSUME NEW q \in Players, LeaseExpires(q) PROVE lease'[p] = lease[p]
    <3>1. lease' = [lease EXCEPT ![q] = NoLease]
      BY <2>2 DEF LeaseExpires
    <3>2. lease'[q] = NoLease /\ \A x \in Players : x # q => lease'[x] = lease[x]
      BY <1>1, <3>1 DEF Types
    <3> QED
      BY <3>2
  <2> QED
    BY <2>1, <2>2, Frames
<1> QED
  BY <1>2, <1>3, <1>4, EpochsMove

LEMMA CommitsKnownStep == ASSUME Known, [Next]_vars PROVE CommitsKnown'
<1> SUFFICES ASSUME NEW c \in commits'
             PROVE  /\ c.epoch \in Epochs /\ session'[c.player][c.epoch] # NoSession
                    /\ 0 < c.seq /\ c.seq <= MaxSeq[c.player]
                    /\ session'[c.player][c.epoch].state = "playing" =>
                         c.seq <= session'[c.player][c.epoch].captured
  BY DEF CommitsKnown
<1>1. Types /\ CommitsKnown
  BY DEF Known, Books
<1>2. CASE c \in commits
  <2> DEFINE p == c.player
             e == c.epoch
  <2>1. /\ p \in Players /\ e \in Epochs /\ c.seq \in Nat /\ session[p][e] # NoSession
        /\ 0 < c.seq /\ c.seq <= MaxSeq[p]
        /\ session[p][e].state = "playing" => c.seq <= session[p][e].captured
    BY <1>1, <1>2, CommitFields DEF CommitsKnown
  <2> HIDE DEF p, e
  <2>2. SessionGrew(p, e) /\ session[p][e] \in Session
    BY <1>1, <2>1, SessionsGrow DEF Types
  <2>3. /\ session'[p][e] \in Session /\ session'[p][e] # NoSession
        /\ session'[p][e].captured \in Nat /\ session[p][e].captured \in Nat
    BY <2>2, SessionFields DEF SessionGrew
  <2>4. session'[p][e].state = "playing" =>
           session[p][e].state = "playing" /\ session[p][e].captured <= session'[p][e].captured
    BY <2>2 DEF SessionGrew
  <2>5. session'[p][e].state = "playing" => c.seq <= session'[p][e].captured
    BY <2>1, <2>3, <2>4
  <2> QED
    BY <2>1, <2>3, <2>5 DEF p, e
<1>3. CASE c \notin commits
  <2>1. PICK p \in Players, e \in Epochs : Capture(p, e)
    BY <1>3, Frames DEF Captures
  <2>2. /\ c.player = p /\ c.epoch = e /\ c.seq = session[p][e].captured + 1
        /\ session[p][e] \in Session /\ session[p][e].captured < MaxSeq[p]
        /\ session'[p][e] \in Session /\ session'[p][e].captured = session[p][e].captured + 1
    BY <1>1, <1>3, <2>1, CaptureEffect
  <2>3. session[p][e].captured \in Nat /\ session'[p][e] # NoSession /\ MaxSeq[p] \in Nat
    BY <2>2, SessionFields, BoundAssumption
  <2>4. 0 < c.seq /\ c.seq <= MaxSeq[p] /\ c.seq <= session'[p][e].captured
    BY <2>2, <2>3
  <2> QED
    BY <2>2, <2>3, <2>4
<1> QED
  BY <1>2, <1>3

(* A request that is new was just sent.                                    *)
LEMMA RequestsCome ==
  ASSUME Known, [Next]_vars, NEW o \in Ops, request[o] = NoRequest, request'[o] # NoRequest
  PROVE  Sent(o)
<1>1. Types /\ PartiesKnown /\ Tokens
  BY DEF Known, Books
<1>2. CASE Sends
  <2>1. PICK x \in Ops : Sent(x)
    BY <1>1, <1>2, SendsAreSent
  <2> QED
    BY <2>1 DEF Sent
<1>3. CASE Learns
  <2>1. PICK x \in Ops : \E a \in answers[x] : Learn(x, a)
    BY <1>3 DEF Learns
  <2>2. request[x] \in Request /\ \A y \in Ops : y # x => request'[y] = request[y]
    BY <1>1, <2>1, LearnEffect
  <2> QED
    BY <2>2, RequestFields
<1> QED
  BY <1>2, <1>3, Frames

(* A party's session, after any step.                                      *)
LEMMA PartySessionGrows ==
  ASSUME Known, [Next]_vars, NEW o \in Ops, request[o] # NoRequest, NEW p \in request[o].parties
  PROVE  LET e == request[o].epoch[p] IN
         /\ p \in Players /\ e \in Epochs /\ request[o].seq[p] \in Nat
         /\ session[p][e] \in Session /\ session'[p][e] \in Session
         /\ session'[p][e] # NoSession /\ session'[p][e].server = session[p][e].server
         /\ session[p][e].state = "done" => session'[p][e] = session[p][e]
         /\ session'[p][e].state = "playing" =>
               session[p][e].state = "playing" /\ session[p][e].captured <= session'[p][e].captured
<1>1. Types /\ PartiesKnown
  BY DEF Known, Books
<1>2. /\ p \in Players /\ request[o].epoch[p] \in Epochs /\ request[o].seq[p] \in Nat
      /\ session[p][request[o].epoch[p]] \in Session
  BY <1>1, PartyFields
<1>3. SessionGrew(p, request[o].epoch[p])
  BY <1>2, SessionsGrow, SessionFields
<1> QED
  BY <1>2, <1>3, SessionFields DEF SessionGrew

LEMMA PartiesKnownStep == ASSUME Known, [Next]_vars PROVE PartiesKnown'
<1> DEFINE K(p, r) ==
       /\ r.epoch[p] \in Epochs
       /\ session'[p][r.epoch[p]] # NoSession
       /\ session'[p][r.epoch[p]].server = r.server
       /\ 0 < r.seq[p] /\ r.seq[p] <= MaxSeq[p]
       /\ session'[p][r.epoch[p]].state = "playing" => r.seq[p] <= session'[p][r.epoch[p]].captured
       /\ r.goods[p] \cap r.gives[p] \subseteq r.gets[p]
       /\ r.gets[p] \subseteq r.goods[p]
<1> SUFFICES ASSUME NEW o \in Ops, request'[o] # NoRequest
             PROVE  request'[o].parties # {} /\ \A p \in request'[o].parties : K(p, request'[o])
  BY DEF PartiesKnown
<1>1. Types /\ PartiesKnown
  BY DEF Known, Books
<1>2. CASE request[o] # NoRequest
  <2>1. RequestKept(o)
    BY <1>2, RequestsKept
  <2>2. request[o].parties # {}
    BY <1>1, <1>2 DEF PartiesKnown
  <2>3. ASSUME NEW p \in request[o].parties PROVE K(p, request[o])
    <3> DEFINE r == request[o]
               e == request[o].epoch[p]
    <3>1. /\ e \in Epochs /\ r.seq[p] \in Nat
          /\ session[p][e] \in Session /\ session'[p][e] \in Session
          /\ session'[p][e] # NoSession /\ session'[p][e].server = session[p][e].server
          /\ session'[p][e].state = "playing" =>
                session[p][e].state = "playing" /\ session[p][e].captured <= session'[p][e].captured
      BY <1>2, PartySessionGrows
    <3>2. /\ session[p][e].server = r.server
          /\ 0 < r.seq[p] /\ r.seq[p] <= MaxSeq[p]
          /\ session[p][e].state = "playing" => r.seq[p] <= session[p][e].captured
          /\ r.goods[p] \cap r.gives[p] \subseteq r.gets[p]
          /\ r.gets[p] \subseteq r.goods[p]
      BY <1>1, <1>2 DEF PartiesKnown
    <3>3. session[p][e].captured \in Nat /\ session'[p][e].captured \in Nat
      BY <3>1, SessionFields
    <3>4. session'[p][e].state = "playing" => r.seq[p] <= session'[p][e].captured
      BY <3>1, <3>2, <3>3
    <3> QED
      BY <3>1, <3>2, <3>4
  <2> HIDE DEF K
  <2>4. /\ request'[o].parties = request[o].parties
        /\ \A p : K(p, request[o]) => K(p, request'[o])
    BY <2>1 DEF RequestKept, K
  <2> QED
    BY <2>2, <2>3, <2>4
<1>3. CASE request[o] = NoRequest
  <2>1. Sent(o)
    BY <1>3, RequestsCome
  <2> DEFINE r == request'[o]
  <2>2. r.parties # {}
    <3>1. /\ r.kind \in OperationKinds
          /\ Shape(r.kind, r.server, r.parties, r.gives, r.gets, r.claim)
      BY <2>1, RequestFields DEF Sent
    <3> QED
      BY <3>1 DEF Shape, OperationKinds
  <2>3. ASSUME NEW p \in r.parties PROVE K(p, r)
    <3> DEFINE s == session[p][r.epoch[p]]
               t == session'[p][r.epoch[p]]
    <3>1. /\ p \in Players /\ r.epoch[p] \in Epochs
          /\ s \in Session /\ s.server = r.server /\ s.captured < MaxSeq[p]
          /\ r.seq[p] = s.captured + 1
          /\ r.goods[p] = (s.goods \ r.gives[p]) \cup r.gets[p]
          /\ t = Giving(s, r.gives[p], o)
      BY <2>1 DEF Sent, PartySent
    <3> HIDE DEF s, t, r
    <3>2. t # NoSession /\ t.server = s.server /\ t.captured = s.captured + 1
      BY <3>1, GivingFields, SessionFields
    <3>3. s.captured \in Nat /\ MaxSeq[p] \in Nat
      BY <3>1, SessionFields, BoundAssumption
    <3>4. 0 < r.seq[p] /\ r.seq[p] <= MaxSeq[p] /\ r.seq[p] <= t.captured
      BY <3>1, <3>2, <3>3
    <3> QED
      BY <3>1, <3>2, <3>4 DEF t
  <2> QED
    BY <2>2, <2>3
<1> QED
  BY <1>2, <1>3

LEMMA ShapesStep == ASSUME Known, [Next]_vars PROVE Shapes'
<1>1. Types /\ Shapes
  BY DEF Known, Books
<1>2. ASSUME NEW kind, NEW server, NEW P, NEW gives, NEW gets, NEW claim,
             Shape(kind, server, P, gives, gets, claim)
      PROVE  Shape(kind, server, P, gives, gets, claim)'
  BY <1>2, DropsGrow DEF Shape
<1>3. SUFFICES ASSUME NEW o \in Ops, request'[o] # NoRequest,
                      NEW r, r = request'[o]
               PROVE  Shape(r.kind, r.server, r.parties, r.gives, r.gets, r.claim)'
  BY DEF Shapes, Shape
<1>4. CASE request[o] # NoRequest
  <2>1. RequestKept(o) /\ Shape(request[o].kind, request[o].server, request[o].parties,
                                request[o].gives, request[o].gets, request[o].claim)
    BY <1>1, <1>4, RequestsKept DEF Shapes
  <2>2. Shape(r.kind, r.server, r.parties, r.gives, r.gets, r.claim)
    BY <1>3, <2>1 DEF RequestKept
  <2> QED
    BY <1>2, <2>2
<1>5. CASE request[o] = NoRequest
  <2>1. Shape(r.kind, r.server, r.parties, r.gives, r.gets, r.claim)
    BY <1>3, <1>5, RequestsCome DEF Sent
  <2> QED
    BY <1>2, <2>1
<1> QED
  BY <1>4, <1>5


(* A record that is new was just written, and so was a world drop.         *)
LEMMA RecordsCome ==
  ASSUME Known, [Next]_vars, NEW o \in Ops, record[o] = "none", record'[o] # "none"
  PROVE  request[o] # NoRequest /\ ApplyStates(o, request[o])
<1>1. Types /\ LeaseKnown /\ PartiesKnown
  BY DEF Known, Books
<1>2. CASE Applies
  <2>1. PICK x \in Ops : request[x] # NoRequest /\ ApplyStates(x, request[x])
    BY <1>2 DEF Applies
  <2>2. \A y \in Ops : y # x => record'[y] = record[y]
    BY <1>1, <2>1, ApplyEffect
  <2> QED
    BY <2>1, <2>2
<1>3. ASSUME NEW x \in Ops, RecordExpires(x) PROVE FALSE
  <2>1. record[x] = "kept" /\ record' = [record EXCEPT ![x] = "expired"]
    BY <1>3 DEF RecordExpires, Recorded
  <2> QED
    BY <1>1, <2>1 DEF Types
<1> QED
  BY <1>2, <1>3, Frames

LEMMA DropsCome ==
  ASSUME Known, [Next]_vars, NEW d \in Ops, drops[d].status = "none", drops'[d].status # "none"
  PROVE  request[d] # NoRequest /\ request[d].kind = "drop" /\ ApplyStates(d, request[d])
<1>1. Types /\ LeaseKnown /\ PartiesKnown
  BY DEF Known, Books
<1>2. CASE Applies
  <2>1. PICK o \in Ops : request[o] # NoRequest /\ ApplyStates(o, request[o])
    BY <1>2 DEF Applies
  <2>2. /\ request[o].claim # NoOp => drops[request[o].claim].status = "public"
        /\ d # request[o].claim /\ (d # o \/ request[o].kind # "drop") => drops'[d] = drops[d]
    BY <1>1, <2>1, ApplyEffect
  <2>3. d # request[o].claim
    BY <2>2, NoneAssumption
  <2> QED
    BY <2>1, <2>2, <2>3
<1>3. ASSUME NEW x \in Ops, DropExpires(x) PROVE FALSE
  <2>1. drops[x].status = "public" /\ drops' = [drops EXCEPT ![x].status = "expired"]
    BY <1>3 DEF DropExpires
  <2>2. drops'[d] = drops[d]
    BY <1>1, <2>1 DEF Types
  <2> QED
    BY <2>2
<1> QED
  BY <1>2, <1>3, Frames

(* An outcome is taken from an answer, and by every session that waits.    *)
LEMMA StatusMoves ==
  ASSUME Known, [Next]_vars, NEW o \in Ops, request[o] # NoRequest,
         request'[o].status # request[o].status
  PROVE  \E a \in answers[o] :
            Learn(o, a) /\ request'[o].status = IF IsApplied(a) THEN "applied" ELSE "refused"
<1>1. Types /\ PartiesKnown /\ Tokens
  BY DEF Known, Books
<1>2. CASE Sends
  <2>1. PICK x \in Ops : Sent(x)
    BY <1>1, <1>2, SendsAreSent
  <2> QED
    BY <2>1 DEF Sent
<1>3. CASE Learns
  <2>1. PICK x \in Ops : \E a \in answers[x] : Learn(x, a)
    BY <1>3 DEF Learns
  <2>2. PICK a \in answers[x] : Learn(x, a)
    BY <2>1
  <2>3. /\ request'[x].status = IF IsApplied(a) THEN "applied" ELSE "refused"
        /\ \A y \in Ops : y # x => request'[y] = request[y]
    BY <1>1, <2>2, LearnEffect
  <2> QED
    BY <2>2, <2>3
<1> QED
  BY <1>2, <1>3, Frames

(* A new answer is true.                                                   *)
LEMMA AnswersMove ==
  ASSUME Known, [Next]_vars, NEW o \in Ops, NEW a \in answers'[o], a \notin answers[o]
  PROVE  /\ request[o] # NoRequest
         /\ IF IsApplied(a) THEN record'[o] # "none" ELSE record[o] = "none" /\ Doomed(o)
<1>1. Types /\ LeaseKnown /\ PartiesKnown /\ SessionsKnown /\ Shapes /\ Outcomes
  BY DEF Known, Books
<1>2. CASE Refuses
  <2>1. PICK x \in Ops :
          /\ request[x] # NoRequest
          /\ \A y \in Ops : y # x => answers'[y] = answers[y]
          /\ \A b \in answers'[x] :
               \/ b \in answers[x]
               \/ /\ \E p \in request[x].parties : Waits(x, p)
                  /\ IF IsApplied(b) THEN record[x] = "kept" ELSE record[x] # "kept" /\ Doomed(x)
    BY <1>1, <1>2, RefuseEffect
  <2>2. x = o
    BY <2>1
  <2>3. record[o] # "expired"
    BY <1>1, <2>1, <2>2 DEF Outcomes
  <2>4. record[o] \in {"none", "kept", "expired"}
    BY <1>1 DEF Types
  <2>5. IsApplied(a) => record'[o] # "none"
    BY <2>1, <2>2, RecordsGrow
  <2> QED
    BY <2>1, <2>2, <2>3, <2>4, <2>5
<1>3. CASE Applies
  <2>1. PICK x \in Ops : request[x] # NoRequest /\ ApplyStates(x, request[x])
    BY <1>3 DEF Applies
  <2>2. /\ \A y \in Ops : y # x => answers'[y] = answers[y]
        /\ \A b \in answers'[x] : b \in answers[x] \/ IsApplied(b)
        /\ record'[x] = "kept"
    BY <1>1, <2>1, ApplyEffect
  <2> QED
    BY <2>1, <2>2
<1>4. CASE Learns
  <2>1. PICK x \in Ops : \E b \in answers[x] : Learn(x, b)
    BY <1>4 DEF Learns
  <2>2. answers'[x] = {} /\ \A y \in Ops : y # x => answers'[y] = answers[y]
    BY <1>1, <2>1, LearnEffect
  <2> QED
    BY <2>2
<1> QED
  BY <1>2, <1>3, <1>4, Frames

LEMMA RecordsStep == ASSUME Known, [Next]_vars PROVE Records'
<1> SUFFICES ASSUME NEW o \in Ops
             PROVE  /\ request'[o] = NoRequest => record'[o] = "none" /\ answers'[o] = {}
                    /\ record'[o] = "none" => drops'[o].status = "none"
                    /\ record'[o] # "none" /\ request'[o].kind = "drop" =>
                         drops'[o].status # "none" /\ drops'[o].world = WorldOf[request'[o].server]
  BY DEF Records
<1>1. Types /\ LeaseKnown /\ PartiesKnown /\ Records /\ Shapes
  BY DEF Known, Books
<1>2. ASSUME request'[o] = NoRequest PROVE record'[o] = "none" /\ answers'[o] = {}
  <2>1. request[o] = NoRequest
    BY <1>2, RequestsKept DEF RequestKept
  <2>2. record[o] = "none" /\ answers[o] = {}
    BY <1>1, <2>1 DEF Records
  <2> QED
    BY <2>1, <2>2, RecordsGrow, AnswersMove
<1>3. ASSUME record'[o] = "none" PROVE drops'[o].status = "none"
  <2>1. record[o] = "none" /\ drops[o].status = "none"
    BY <1>1, <1>3, RecordsGrow DEF Records
  <2>2. ASSUME ApplyStates(o, request[o]), request[o] # NoRequest PROVE FALSE
    BY <1>1, <1>3, <2>2, ApplyEffect
  <2> QED
    BY <2>1, <2>2, DropsCome
<1>4. ASSUME record'[o] # "none", request'[o].kind = "drop"
      PROVE  drops'[o].status # "none" /\ drops'[o].world = WorldOf[request'[o].server]
  <2>1. CASE record[o] # "none"
    <3>1. request[o] # NoRequest
      BY <1>1, <2>1 DEF Records
    <3>2. RequestKept(o)
      BY <3>1, RequestsKept
    <3>3. drops[o].status # "none" /\ drops[o].world = WorldOf[request[o].server]
      BY <1>1, <1>4, <2>1, <3>2 DEF Records, RequestKept
    <3> QED
      BY <3>2, <3>3, DropsGrow DEF RequestKept
  <2>2. CASE record[o] = "none"
    <3>1. request[o] # NoRequest /\ ApplyStates(o, request[o])
      BY <1>4, <2>2, RecordsCome
    <3>2. RequestKept(o)
      BY <3>1, RequestsKept
    <3>3. request[o].kind = "drop" /\ request[o].claim = NoOp
      BY <1>1, <1>4, <3>1, <3>2 DEF RequestKept, Shapes, Shape
    <3>4. drops'[o].status = "public" /\ drops'[o].world = WorldOf[request[o].server]
      BY <1>1, <3>1, <3>3, ApplyEffect, NoneAssumption
    <3> QED
      BY <3>2, <3>4 DEF RequestKept
  <2> QED
    BY <2>1, <2>2
<1> QED
  BY <1>2, <1>3, <1>4

LEMMA TokensStep == ASSUME Known, [Next]_vars PROVE Tokens'
<1> SUFFICES ASSUME NEW s \in Servers, NEW d \in tokens'[s]
             PROVE  drops'[d].status # "none" /\ drops'[d].world = WorldOf[s]
  BY DEF Tokens
<1>1. Types /\ PartiesKnown /\ Tokens /\ Outcomes /\ Records
  BY DEF Known, Books
<1>2. d \in Ops
  BY TypesStep DEF Types
<1>3. ASSUME drops[d].status # "none", drops[d].world = WorldOf[s]
      PROVE  drops'[d].status # "none" /\ drops'[d].world = WorldOf[s]
  BY <1>2, <1>3, DropsGrow
<1>4. CASE d \in tokens[s]
  BY <1>1, <1>3, <1>4 DEF Tokens
<1>5. CASE d \notin tokens[s]
  <2>1. CASE Restarts
    <3>1. PICK x \in Servers : Restart(x)
      BY <2>1 DEF Restarts
    <3>2. d \in PublicDrops(WorldOf[s])
      BY <1>1, <1>5, <3>1, RestartEffect
    <3> QED
      BY <1>3, <3>2 DEF PublicDrops
  <2>2. CASE Learns
    <3>1. PICK o \in Ops : \E a \in answers[o] : Learn(o, a)
      BY <2>2 DEF Learns
    <3>2. PICK a \in answers[o] : Learn(o, a)
      BY <3>1
    <3>3. /\ request[o] \in Request
          /\ s = request[o].server /\ IsApplied(a) /\ request[o].kind = "drop" /\ d = o
      BY <1>1, <1>5, <3>2, LearnEffect
    <3>4. record[o] # "none"
      BY <1>1, <3>2, <3>3, RequestFields DEF Outcomes, AnswerTrue
    <3> QED
      BY <1>1, <1>3, <3>3, <3>4 DEF Records
  <2> QED
    BY <1>5, <2>1, <2>2, Frames
<1> QED
  BY <1>4, <1>5


(* Who hears the outcome of an operation waits for it no more.             *)
LEMMA HeardIsFreed ==
  ASSUME Known, NEW o \in Ops, NEW a \in answers[o], Learn(o, a), NEW p \in request[o].parties
  PROVE  session'[p][request[o].epoch[p]].op # o
<1>1. Types /\ PartiesKnown /\ SessionsKnown
  BY DEF Known, Books
<1>2. request[o] # NoRequest
  BY DEF Learn
<1> DEFINE e == request[o].epoch[p]
           s == session[p][e]
           t == session'[p][e]
<1>3. request[o] \in Request /\ p \in Players /\ e \in Epochs /\ s \in Session
  BY <1>1, <1>2, PartyFields
<1>4. t = SessionAfter(o, a, p)
  BY <1>1, LearnEffect
<1>5. /\ ~Waits(o, p) => t = s
      /\ Waits(o, p) => t.op = NoOp
  BY <1>3, <1>4, SessionAfterIs, DoneFields
<1>6. s.op = o => Waits(o, p)
  BY <1>1, <1>3, SessionFields, NoneAssumption DEF SessionsKnown, Waits, Playing
<1> QED
  BY <1>5, <1>6, NoneAssumption

LEMMA RecordsRemoved ==
  ASSUME Known, [Next]_vars, NEW o \in Ops, record[o] # "expired", record'[o] = "expired"
  PROVE  \A p \in request[o].parties : ~Waits(o, p)
<1>1. Types /\ LeaseKnown /\ PartiesKnown
  BY DEF Known, Books
<1>2. CASE Applies
  <2>1. PICK x \in Ops : request[x] # NoRequest /\ ApplyStates(x, request[x])
    BY <1>2 DEF Applies
  <2> QED
    BY <1>1, <2>1, ApplyEffect
<1>3. CASE \E x \in Ops : RecordExpires(x)
  <2>1. PICK x \in Ops : RecordExpires(x)
    BY <1>3
  <2>2. x = o
    BY <1>1, <2>1 DEF RecordExpires, Types
  <2> QED
    BY <2>1, <2>2 DEF RecordExpires
<1> QED
  BY <1>2, <1>3, Frames

LEMMA OpsKnownStep == ASSUME Known, [Next]_vars PROVE OpsKnown'
<1> DEFINE OpKnown(p, e) ==
       /\ session'[p][e].state = "playing"
       /\ request'[session'[p][e].op] # NoRequest /\ request'[session'[p][e].op].status = "waits"
       /\ p \in request'[session'[p][e].op].parties
       /\ request'[session'[p][e].op].epoch[p] = e
       /\ request'[session'[p][e].op].seq[p] = session'[p][e].captured
       /\ record'[session'[p][e].op] # "expired"
<1> SUFFICES ASSUME NEW p \in Players, NEW e \in Epochs,
                    session'[p][e] # NoSession, session'[p][e].op # NoOp
             PROVE  OpKnown(p, e)
  BY DEF OpsKnown, Waiting
<1>1. Types /\ LeaseKnown /\ PartiesKnown /\ OpsKnown /\ Records
  BY DEF Known, Books
<1>2. ASSUME session[p][e] \in Session, session'[p][e].op = session[p][e].op,
             session'[p][e].captured = session[p][e].captured,
             session'[p][e].state = "playing"
      PROVE  OpKnown(p, e)
  <2>1. PICK o \in Ops : o = session[p][e].op
    BY <1>2, SessionFields
  <2>2. /\ Waiting(o) /\ p \in request[o].parties /\ request[o].epoch[p] = e
        /\ request[o].seq[p] = session[p][e].captured /\ record[o] # "expired"
        /\ session[p][e].state = "playing"
    BY <1>1, <1>2, <2>1, SessionFields DEF OpsKnown
  <2>3. RequestKept(o)
    BY <2>2, RequestsKept DEF Waiting
  <2>4. request'[o].status = request[o].status
    <3>1. ASSUME NEW a \in answers[o], Learn(o, a) PROVE FALSE
      BY <1>2, <2>1, <2>2, <3>1, HeardIsFreed
    <3> QED
      BY <2>2, <3>1, StatusMoves DEF Waiting
  <2>5. Waits(o, p)
    BY <1>2, <2>1, <2>2, SessionFields DEF Waits, Playing
  <2>6. record'[o] # "expired"
    BY <2>2, <2>5, RecordsRemoved
  <2> QED
    BY <1>2, <2>1, <2>2, <2>3, <2>4, <2>6 DEF RequestKept, Waiting
<1>3. CASE OpSent(p, e)
  <2>1. PICK o \in Ops : /\ Sent(o) /\ p \in request'[o].parties /\ e = request'[o].epoch[p]
                         /\ session'[p][e].op = o
    BY <1>3 DEF OpSent
  <2>2. request[o] = NoRequest /\ request'[o] \in Request /\ request'[o].status = "waits" /\ PartySent(o, p)
    BY <2>1 DEF Sent
  <2>3. record'[o] # "expired"
    BY <1>1, <2>2, RecordsGrow DEF Records
  <2>4. request'[o].seq[p] = session'[p][e].captured /\ session'[p][e].state = "playing"
    BY <1>3, <2>1, <2>2 DEF PartySent, OpSent, Plays
  <2> QED
    BY <2>1, <2>2, <2>3, <2>4, RequestFields
<1>4. CASE session'[p][e] = session[p][e]
  <2>1. session[p][e] \in Session
    BY <1>1, <1>4 DEF Types
  <2>2. session[p][e].state = "playing"
    BY <1>1, <1>4, <2>1, SessionFields DEF OpsKnown
  <2> QED
    BY <1>2, <1>4, <2>1, <2>2
<1>5. CASE SessionNew(p, e)
  BY <1>1, <1>5, NewSessionIs
<1>6. CASE SessionEnds(p, e)
  BY <1>6, DoneFields DEF SessionEnds
<1>7. CASE CoinFell(p, e)
  BY <1>2, <1>7 DEF CoinFell, Plays, SameMarks
<1>8. CASE CoinFound(p, e)
  BY <1>2, <1>8 DEF CoinFound, Plays, SameMarks
<1>9. CASE StateSaved(p, e)
  BY <1>2, <1>9 DEF StateSaved, Plays
<1>10. SessionChanges(p, e)
  BY SessionsChange
<1> QED
  BY <1>3, <1>4, <1>5, <1>6, <1>7, <1>8, <1>9, <1>10 DEF SessionChanges, StateCaptured, OpHeard


(* A new single commit is of a session that no operation holds.            *)
LEMMA CommitsCome ==
  ASSUME Known, [Next]_vars, NEW c \in commits', c \notin commits
  PROVE  \E p \in Players, e \in Epochs :
            /\ Capture(p, e) /\ c = CommitOf(p, e) /\ c.player = p /\ c.epoch = e
            /\ session[p][e] \in Session /\ session[p][e].state = "playing" /\ session[p][e].op = NoOp
<1>1. Types
  BY DEF Known
<1>2. CASE Captures
  <2>1. PICK p \in Players, e \in Epochs : Capture(p, e)
    BY <1>2 DEF Captures
  <2> QED
    BY <1>1, <2>1, CaptureEffect
<1> QED
  BY <1>2, Frames

(* An operation whose outcome is open was just sent, or was open before.   *)
LEMMA WaitingWas ==
  ASSUME Known, [Next]_vars, NEW o \in Ops, request[o] # NoRequest,
         request'[o] # NoRequest, request'[o].status = "waits"
  PROVE  Waiting(o) /\ \A a \in answers[o] : ~Learn(o, a)
<1>1. Types /\ PartiesKnown
  BY DEF Known, Books
<1>2. ASSUME NEW a \in answers[o], Learn(o, a) PROVE FALSE
  BY <1>1, <1>2, LearnEffect
<1> QED
  BY <1>2, StatusMoves DEF Waiting

LEMMA WaitsOrDoneStep == ASSUME Known, [Next]_vars PROVE WaitsOrDone'
<1> SUFFICES ASSUME NEW o \in Ops, request'[o] # NoRequest, request'[o].status = "waits",
                    NEW p \in request'[o].parties
             PROVE  /\ \/ session'[p][request'[o].epoch[p]].op = o
                       \/ session'[p][request'[o].epoch[p]].state = "done"
                    /\ \A c \in commits' : c.player = p /\ c.epoch = request'[o].epoch[p]
                          => c.seq < request'[o].seq[p]
                    /\ \A x \in Ops : request'[x] # NoRequest /\ request'[x].status = "waits"
                                      /\ p \in request'[x].parties
                                      /\ request'[x].epoch[p] = request'[o].epoch[p]
                          => x = o
  BY DEF WaitsOrDone, Waiting
<1>1. Types /\ LeaseKnown /\ PartiesKnown /\ CommitsKnown /\ WaitsOrDone
  BY DEF Known, Books
<1> DEFINE e == request'[o].epoch[p]
<1>2. CASE request[o] # NoRequest
  <2>1. Waiting(o) /\ \A a \in answers[o] : ~Learn(o, a)
    BY <1>2, WaitingWas
  <2>2. RequestKept(o)
    BY <1>2, RequestsKept
  <2>3. p \in request[o].parties /\ e = request[o].epoch[p]
        /\ request'[o].seq[p] = request[o].seq[p]
    BY <2>2 DEF RequestKept
  <2>4. p \in Players /\ e \in Epochs /\ session[p][e] \in Session
    BY <1>1, <1>2, <2>3, PartyFields
  <2> HIDE DEF e
  <2>5. session[p][e].op = o \/ session[p][e].state = "done"
    BY <1>1, <2>1, <2>3 DEF WaitsOrDone
  <2>6. ~(session[p][e].state = "playing" /\ session[p][e].op = NoOp)
    BY <2>5, NoneAssumption
  <2>7. session'[p][e].op = o \/ session'[p][e].state = "done"
    <3>1. CASE SessionNew(p, e)
      BY <2>4, <3>1, SessionFields DEF SessionNew
    <3>2. CASE SessionEnds(p, e)
      BY <3>2, DoneFields DEF SessionEnds
    <3>3. CASE CoinFell(p, e) \/ CoinFound(p, e) \/ StateSaved(p, e)
      BY <2>5, <3>3 DEF CoinFell, CoinFound, StateSaved, Plays, SameMarks
    <3>4. CASE StateCaptured(p, e) \/ OpSent(p, e)
      BY <2>6, <3>4 DEF StateCaptured, OpSent, Plays
    <3>5. CASE OpHeard(p, e)
      <4>1. PICK x \in Ops : \E a \in answers[x] : Learn(x, a) /\ session[p][e].op = x
        BY <3>5 DEF OpHeard
      <4>2. session[p][e].state = "playing"
        BY <3>5 DEF OpHeard, Plays
      <4>3. x = o
        BY <2>5, <4>1, <4>2
      <4> QED
        BY <2>1, <4>1, <4>3
    <3>6. SessionChanges(p, e)
      BY <2>4, SessionsChange
    <3> QED
      BY <2>5, <3>1, <3>2, <3>3, <3>4, <3>5, <3>6 DEF SessionChanges
  <2>8. ASSUME NEW c \in commits', c.player = p, c.epoch = e PROVE c.seq < request[o].seq[p]
    <3>1. CASE c \in commits
      BY <1>1, <2>1, <2>3, <2>8, <3>1 DEF WaitsOrDone
    <3>2. CASE c \notin commits
      BY <2>6, <2>8, <3>2, CommitsCome
    <3> QED
      BY <3>1, <3>2
  <2>9. ASSUME NEW x \in Ops, request'[x] # NoRequest, request'[x].status = "waits",
               p \in request'[x].parties, request'[x].epoch[p] = e
        PROVE  x = o
    <3>1. CASE request[x] = NoRequest
      <4>1. Sent(x)
        BY <2>9, <3>1, RequestsCome
      <4>2. session[p][e].state = "playing" /\ session[p][e].op = NoOp
        BY <2>9, <4>1 DEF Sent, PartySent
      <4> QED
        BY <2>6, <4>2
    <3>2. CASE request[x] # NoRequest
      <4>1. Waiting(x) /\ RequestKept(x)
        BY <2>9, <3>2, WaitingWas, RequestsKept
      <4> QED
        BY <1>1, <2>1, <2>3, <2>9, <4>1 DEF WaitsOrDone, RequestKept
    <3> QED
      BY <3>1, <3>2
  <2> QED
    BY <2>3, <2>7, <2>8, <2>9 DEF e
<1>3. CASE request[o] = NoRequest
  <2>1. Sent(o)
    BY <1>3, RequestsCome
  <2>2. PartySent(o, p)
    BY <2>1 DEF Sent
  <2> DEFINE s == session[p][e]
  <2>3. /\ p \in Players /\ e \in Epochs /\ s \in Session /\ s.state = "playing" /\ s.op = NoOp
        /\ request'[o].seq[p] = s.captured + 1
        /\ session'[p][e] = Giving(s, request'[o].gives[p], o)
    BY <2>2 DEF PartySent
  <2> HIDE DEF e
  <2>4. session'[p][e].op = o
    BY <2>3, GivingFields
  <2>5. ASSUME NEW c \in commits', c.player = p, c.epoch = e PROVE c.seq < request'[o].seq[p]
    <3>1. CASE c \in commits
      <4>1. c.seq <= s.captured
        BY <1>1, <2>3, <2>5, <3>1 DEF CommitsKnown
      <4>2. c.seq \in Nat /\ s.captured \in Nat
        BY <1>1, <2>3, <3>1, CommitFields, SessionFields
      <4> QED
        BY <2>3, <4>1, <4>2
    <3>2. CASE c \notin commits
      <4>1. PICK q \in Players, f \in Epochs : Capture(q, f)
        BY <3>2, CommitsCome
      <4>2. request' = request
        BY <4>1 DEF Capture
      <4> QED
        BY <1>3, <4>2
    <3> QED
      BY <3>1, <3>2
  <2>6. ASSUME NEW x \in Ops, request'[x] # NoRequest, request'[x].status = "waits",
               p \in request'[x].parties, request'[x].epoch[p] = e
        PROVE  x = o
    <3>1. CASE request[x] = NoRequest
      BY <2>1, <2>6, <3>1 DEF Sent
    <3>2. CASE request[x] # NoRequest
      <4>1. Waiting(x) /\ RequestKept(x)
        BY <2>6, <3>2, WaitingWas, RequestsKept
      <4>2. s.op = x \/ s.state = "done"
        BY <1>1, <2>6, <4>1 DEF WaitsOrDone, RequestKept
      <4> QED
        BY <2>3, <4>2, NoneAssumption
    <3> QED
      BY <3>1, <3>2
  <2> QED
    BY <2>4, <2>5, <2>6 DEF e
<1> QED
  BY <1>2, <1>3


LEMMA LeasesMove ==
  ASSUME Known, [Next]_vars, NEW p \in Players
  PROVE  lease'[p] = lease[p] \/ lease'[p] = NoLease \/ \E s \in Servers : Acquire(p, s)
<1>1. Types
  BY DEF Known
<1>2. CASE Acquires
  BY <1>1, <1>2, AcquireEffect DEF Acquires
<1>3. ASSUME NEW q \in Players, LeaseExpires(q) PROVE lease'[p] = lease[p] \/ lease'[p] = NoLease
  <2>1. lease' = [lease EXCEPT ![q] = NoLease]
    BY <1>3 DEF LeaseExpires
  <2> QED
    BY <1>1, <2>1 DEF Types
<1> QED
  BY <1>2, <1>3, Frames

(* What the engine cannot accept, it never can again.                      *)
LEMMA DoomedStays ==
  ASSUME Known, [Next]_vars, NEW o \in Ops, request[o] # NoRequest, Doomed(o)
  PROVE  Doomed(o)'
<1>1. Types /\ PartiesKnown /\ SessionsKnown /\ Shapes
  BY DEF Known, Books
<1>2. RequestKept(o)
  BY RequestsKept
<1>3. ASSUME NEW p \in request[o].parties, DoomedParty(o, p) PROVE DoomedParty(o, p)'
  <2> DEFINE e == request[o].epoch[p]
             n == request[o].seq[p]
  <2>1. p \in Players /\ e \in Epochs /\ e \in Nat /\ n \in Nat /\ session[p][e] # NoSession
    BY <1>1, PartyFields, SessionFields
  <2>2. request'[o].epoch[p] = e /\ request'[o].seq[p] = n
    BY <1>2 DEF RequestKept
  <2>3. e < profile[p].epoch \/ profile[p].commitSeq >= n \/ ~LeaseNames(p, e)
    BY <1>3 DEF DoomedParty
  <2> HIDE DEF e, n
  <2>4. e <= profile[p].epoch
    BY <1>1, <2>1 DEF SessionsKnown
  <2>5. ProfileGrew(p)
    BY <2>1, ProfilesGrow
  <2>6. /\ profile[p].epoch \in Nat /\ profile[p].commitSeq \in Nat
        /\ profile'[p].epoch \in Nat /\ profile'[p].commitSeq \in Nat
    <3>1. Types'
      BY TypesStep
    <3>2. profile[p] \in Profile /\ profile'[p] \in Profile
      BY <1>1, <2>1, <3>1 DEF Types
    <3> QED
      BY <3>2, BoundAssumption DEF Profile
  <2>7. CASE profile'[p].epoch = profile[p].epoch
    <3>1. ASSUME NEW s \in Servers, Acquire(p, s) PROVE FALSE
      <4>1. profile'[p].epoch = profile[p].epoch + 1
        BY <1>1, <2>1, <3>1, AcquireEffect
      <4> QED
        BY <2>6, <2>7, <4>1
    <3>2. lease'[p] = lease[p] \/ lease'[p] = NoLease
      BY <2>1, <3>1, LeasesMove
    <3>3. profile[p].commitSeq <= profile'[p].commitSeq
      BY <2>5, <2>7 DEF ProfileGrew
    <3>4. e < profile'[p].epoch \/ profile'[p].commitSeq >= n
          \/ ~(lease'[p] # NoLease /\ lease'[p].epoch = e)
      BY <2>1, <2>3, <2>6, <2>7, <3>2, <3>3 DEF LeaseNames
    <3> QED
      BY <2>2, <3>4 DEF DoomedParty, LeaseNames
  <2>8. CASE profile'[p].epoch # profile[p].epoch
    <3>1. e < profile'[p].epoch
      BY <2>1, <2>4, <2>5, <2>6, <2>8 DEF ProfileGrew
    <3> QED
      BY <2>2, <3>1 DEF DoomedParty
  <2> QED
    BY <2>7, <2>8
<1>4. ASSUME request[o].claim # NoOp, drops[request[o].claim].status # "public"
      PROVE  request'[o].claim # NoOp /\ drops'[request'[o].claim].status # "public"
  <2>1. request[o] \in Request
    BY <1>1 DEF Types
  <2>2. request[o].claim \in Ops /\ drops[request[o].claim].status # "none"
    BY <1>1, <1>4, <2>1, RequestFields DEF Shapes, Shape, OperationKinds
  <2>3. drops'[request[o].claim].status # "public"
    BY <1>4, <2>2, DropsGrow
  <2> QED
    BY <1>2, <1>4, <2>3 DEF RequestKept
<1>5. CASE \E p \in request[o].parties : DoomedParty(o, p)
  BY <1>2, <1>3, <1>5 DEF Doomed, RequestKept
<1>6. CASE request[o].claim # NoOp /\ drops[request[o].claim].status # "public"
  BY <1>4, <1>6 DEF Doomed
<1> QED
  BY <1>5, <1>6 DEF Doomed

(* Nobody starts to wait for an operation that was sent before.            *)
LEMMA WaitersWaited ==
  ASSUME Known, [Next]_vars, NEW o \in Ops, request[o] # NoRequest, NEW p \in request[o].parties,
         ~Waits(o, p)
  PROVE  ~Waits(o, p)'
<1>1. Types /\ PartiesKnown /\ LeaseKnown
  BY DEF Known, Books
<1> DEFINE e == request[o].epoch[p]
<1>2. /\ p \in Players /\ e \in Epochs /\ session[p][e] \in Session
      /\ request'[o].epoch[p] = e
  BY <1>1, PartyFields, RequestsKept DEF RequestKept
<1> HIDE DEF e
<1>3. SUFFICES ASSUME session'[p][e] # NoSession, session'[p][e].state = "playing", session'[p][e].op = o
               PROVE  FALSE
  BY <1>2 DEF Waits, Playing
<1>4. ~(session[p][e].state = "playing" /\ session[p][e].op = o)
  BY <1>2, SessionFields DEF Waits, Playing, e
<1>5. CASE SessionNew(p, e)
  BY <1>2, <1>5, SessionFields DEF SessionNew
<1>6. CASE SessionEnds(p, e)
  BY <1>3, <1>6, DoneFields DEF SessionEnds
<1>7. CASE CoinFell(p, e) \/ CoinFound(p, e) \/ StateSaved(p, e)
  BY <1>3, <1>4, <1>7 DEF CoinFell, CoinFound, StateSaved, Plays, SameMarks
<1>8. CASE StateCaptured(p, e) \/ OpHeard(p, e)
  BY <1>3, <1>8, NoneAssumption DEF StateCaptured, OpHeard
<1>9. CASE OpSent(p, e)
  BY <1>3, <1>9 DEF OpSent, Sent
<1>10. SessionChanges(p, e)
  BY <1>2, SessionsChange
<1> QED
  BY <1>3, <1>4, <1>5, <1>6, <1>7, <1>8, <1>9, <1>10 DEF SessionChanges

(* What a profile left behind stays behind it.                             *)
LEMMA BehindStays ==
  ASSUME Known, [Next]_vars, NEW p \in Players, NEW e \in Nat, NEW n \in Nat,
         e < profile[p].epoch \/ (e <= profile[p].epoch /\ n <= profile[p].commitSeq)
  PROVE  e < profile'[p].epoch \/ n <= profile'[p].commitSeq
<1>1. Types /\ Types'
  BY TypesStep DEF Known
<1>2. profile[p] \in Profile /\ profile'[p] \in Profile
  BY <1>1 DEF Types
<1>3. /\ profile[p].epoch \in Nat /\ profile[p].commitSeq \in Nat
      /\ profile'[p].epoch \in Nat /\ profile'[p].commitSeq \in Nat
  BY <1>2, BoundAssumption DEF Profile
<1>4. ProfileGrew(p)
  BY ProfilesGrow
<1> QED
  BY <1>3, <1>4 DEF ProfileGrew


LEMMA OutcomesStep == ASSUME Known, [Next]_vars PROVE Outcomes'
<1> DEFINE Known2(o) ==
       /\ request'[o].status = "applied" => record'[o] # "none"
       /\ request'[o].status = "refused" => record'[o] = "none" /\ Doomed(o)'
       /\ record'[o] # "none" => \A p \in request'[o].parties :
             request'[o].epoch[p] < profile'[p].epoch \/ request'[o].seq[p] <= profile'[p].commitSeq
       /\ record'[o] = "expired" => \A p \in request'[o].parties : ~Waits(o, p)'
       /\ \A a \in answers'[o] : AnswerTrue(o, a)'
<1> SUFFICES ASSUME NEW o \in Ops, request'[o] # NoRequest PROVE Known2(o)
  BY DEF Outcomes
<1>1. Types /\ LeaseKnown /\ PartiesKnown /\ SessionsKnown /\ Shapes /\ Outcomes /\ Records
  BY DEF Known, Books
<1>2. CASE request[o] = NoRequest
  <2>1. request'[o].status = "waits"
    BY <1>2, RequestsCome DEF Sent
  <2>2. record'[o] = "none"
    BY <1>1, <1>2, RecordsGrow DEF Records
  <2>3. answers'[o] = {}
    BY <1>1, <1>2, AnswersMove DEF Records
  <2> QED
    BY <2>1, <2>2, <2>3
<1>3. CASE request[o] # NoRequest
  <2>1. RequestKept(o)
    BY <1>3, RequestsKept
  <2>2. ASSUME record[o] = "none", Doomed(o) PROVE record'[o] = "none" /\ Doomed(o)'
    BY <1>3, <2>2, RecordsCome, ApplyIsFirst, DoomedStays
  <2>3. /\ request[o].status = "applied" => record[o] # "none"
        /\ request[o].status = "refused" => record[o] = "none" /\ Doomed(o)
        /\ \A a \in answers[o] : AnswerTrue(o, a)
    BY <1>1, <1>3 DEF Outcomes
  <2>4. ASSUME request'[o].status # request[o].status
        PROVE  /\ request'[o].status = "applied" => record[o] # "none"
               /\ request'[o].status = "refused" => record[o] = "none" /\ Doomed(o)
    <3>1. PICK a \in answers[o] : request'[o].status = IF IsApplied(a) THEN "applied" ELSE "refused"
      BY <1>3, <2>4, StatusMoves
    <3>2. AnswerTrue(o, a)
      BY <2>3
    <3> QED
      BY <3>1, <3>2 DEF AnswerTrue
  <2>5. /\ request'[o].status = "applied" => record'[o] # "none"
        /\ request'[o].status = "refused" => record'[o] = "none" /\ Doomed(o)'
    BY <2>2, <2>3, <2>4, RecordsGrow
  <2>6. ASSUME record'[o] # "none", NEW p \in request[o].parties
        PROVE  request[o].epoch[p] < profile'[p].epoch \/ request[o].seq[p] <= profile'[p].commitSeq
    <3>1. /\ p \in Players /\ request[o].epoch[p] \in Epochs
          /\ request[o].epoch[p] \in Nat /\ request[o].seq[p] \in Nat
          /\ session[p][request[o].epoch[p]] # NoSession
      BY <1>1, <1>3, PartyFields, SessionFields
    <3>2. request[o].epoch[p] <= profile[p].epoch
      BY <1>1, <3>1 DEF SessionsKnown
    <3>3. CASE record[o] # "none"
      <4>1. request[o].epoch[p] < profile[p].epoch \/ request[o].seq[p] <= profile[p].commitSeq
        BY <1>1, <1>3, <3>3 DEF Outcomes
      <4> QED
        BY <3>1, <3>2, <4>1, BehindStays
    <3>4. CASE record[o] = "none"
      <4>1. ApplyStates(o, request[o])
        BY <2>6, <3>4, RecordsCome
      <4>2. profile'[p].commitSeq = request[o].seq[p]
        BY <1>1, <1>3, <4>1, ApplyEffect
      <4> QED
        BY <3>1, <4>2
    <3> QED
      BY <3>3, <3>4
  <2>7. ASSUME record'[o] = "expired", NEW p \in request[o].parties PROVE ~Waits(o, p)'
    <3>1. ~Waits(o, p)
      BY <1>1, <1>3, <2>7, RecordsRemoved DEF Outcomes
    <3> QED
      BY <1>3, <3>1, WaitersWaited
  <2>8. ASSUME NEW a \in answers'[o]
        PROVE  IF IsApplied(a) THEN record'[o] # "none" ELSE record'[o] = "none" /\ Doomed(o)'
    <3>1. IF IsApplied(a) THEN record[o] # "none" \/ record'[o] # "none" ELSE record[o] = "none" /\ Doomed(o)
      BY <2>3, AnswersMove DEF AnswerTrue
    <3> QED
      BY <2>2, <3>1, RecordsGrow
  <2>9. \A a \in answers'[o] : AnswerTrue(o, a)'
    BY <2>8 DEF AnswerTrue, IsApplied
  <2> QED
    BY <2>1, <2>5, <2>6, <2>7, <2>9 DEF RequestKept
<1> QED
  BY <1>2, <1>3

-----------------------------------------------------------------------------
(***************************************************************************)
(* The invariant holds.                                                    *)
(***************************************************************************)
LEMMA InitBooks == Init => Books
<1> SUFFICES ASSUME Init PROVE Books
  OBVIOUS
<1>1. /\ \A p \in Players : lease[p] = NoLease
      /\ \A p \in Players, e \in Epochs : session[p][e] = NoSession
      /\ \A o \in Ops : record[o] = "none" /\ drops[o] = NoDrop /\ request[o] = NoRequest
                        /\ answers[o] = {}
      /\ commits = {} /\ \A s \in Servers : tokens[s] = {}
  BY DEF Init
<1>2. NoDrop.status = "none"
  BY DEF NoDrop
<1>3. SessionsKnown /\ LeaseKnown /\ CommitsKnown /\ OpsKnown /\ PartiesKnown
  BY <1>1 DEF SessionsKnown, LeaseKnown, CommitsKnown, OpsKnown, PartiesKnown
<1>4. Shapes /\ Outcomes /\ WaitsOrDone /\ Records /\ Tokens
  BY <1>1, <1>2 DEF Shapes, Outcomes, WaitsOrDone, Records, Tokens, Waiting
<1> QED
  BY <1>3, <1>4 DEF Books

LEMMA KnownStep == ASSUME Known, [Next]_vars PROVE Known'
<1>1. Types'
  BY TypesStep
<1>2. SessionsKnown' /\ LeaseKnown' /\ CommitsKnown' /\ OpsKnown' /\ PartiesKnown'
  BY SessionsKnownStep, LeaseKnownStep, CommitsKnownStep, OpsKnownStep, PartiesKnownStep
<1>3. Shapes' /\ Outcomes' /\ WaitsOrDone' /\ Records' /\ Tokens'
  BY ShapesStep, OutcomesStep, WaitsOrDoneStep, RecordsStep, TokensStep
<1> QED
  BY <1>1, <1>2, <1>3 DEF Known, Books

LEMMA AlwaysKnown == Spec => []Known
<1>1. Init => Known
  BY InitTypes, InitBooks DEF Known
<1>2. Known /\ [Next]_vars => Known'
  BY KnownStep
<1> QED
  BY <1>1, <1>2, PTL DEF Spec

(* What a server took for the outcome of an operation is what the engine   *)
(* recorded, for good: an operation it took for refused, whose escrow it   *)
(* gave back, is never applied, and one it took for applied was.  The      *)
(* checks of epoch, sequence and lease that refused it fail for ever.      *)
THEOREM OutcomesFinal == Spec => []OutcomeIsFinal
<1>1. Known => OutcomeIsFinal
  BY DEF Known, Books, Outcomes, OutcomeIsFinal
<1> QED
  BY <1>1, AlwaysKnown, PTL

(* The sequence a profile keeps is one its session captured.               *)
SeqsBounded == \A p \in Players : profile[p].commitSeq <= MaxSeq[p]

LEMMA SeqsBoundedStep == ASSUME Known, SeqsBounded, [Next]_vars PROVE SeqsBounded'
<1> SUFFICES ASSUME NEW p \in Players PROVE profile'[p].commitSeq <= MaxSeq[p]
  BY DEF SeqsBounded
<1>1. Types /\ LeaseKnown /\ PartiesKnown /\ CommitsKnown
  BY DEF Known, Books
<1>2. profile[p].commitSeq <= MaxSeq[p] /\ MaxSeq[p] \in Nat
  BY BoundAssumption DEF SeqsBounded
<1>3. CASE Acquires
  <2>1. PICK q \in Players, s \in Servers : Acquire(q, s)
    BY <1>3 DEF Acquires
  <2>2. profile'[q].commitSeq = 0 /\ \A x \in Players : x # q => profile'[x] = profile[x]
    BY <1>1, <2>1, AcquireEffect
  <2> QED
    BY <1>2, <2>2
<1>4. CASE Commits
  <2>1. PICK c \in commits : CommitState(c)
    BY <1>4 DEF Commits
  <2>2. \/ profile' = profile
        \/ /\ profile'[c.player].commitSeq = c.seq
           /\ \A q \in Players : q # c.player => profile'[q] = profile[q]
    BY <1>1, <2>1, CommitEffect
  <2>3. c.seq <= MaxSeq[c.player]
    BY <1>1 DEF CommitsKnown
  <2> QED
    BY <1>2, <2>2, <2>3
<1>5. CASE Applies
  <2>1. PICK o \in Ops : request[o] # NoRequest /\ ApplyStates(o, request[o])
    BY <1>5 DEF Applies
  <2>2. /\ \A q \in request[o].parties : profile'[q].commitSeq = request[o].seq[q]
        /\ \A q \in Players : q \notin request[o].parties => profile'[q] = profile[q]
    BY <1>1, <2>1, ApplyEffect
  <2>3. \A q \in request[o].parties : request[o].seq[q] <= MaxSeq[q]
    BY <1>1, <2>1 DEF PartiesKnown
  <2> QED
    BY <1>2, <2>2, <2>3
<1> QED
  BY <1>2, <1>3, <1>4, <1>5, Frames

(* Every variable has its type, and no step of the engine stores a         *)
(* sequence its session did not capture.                                   *)
THEOREM JointTypes == Spec => []TypeOK
<1>1. Init => SeqsBounded
  BY BoundAssumption DEF Init, SeqsBounded
<1>2. Known /\ SeqsBounded /\ [Next]_vars => SeqsBounded'
  BY SeqsBoundedStep
<1>3. Known /\ SeqsBounded => TypeOK
  BY DEF Known, Types, SeqsBounded, TypeOK
<1> QED
  BY <1>1, <1>2, <1>3, AlwaysKnown, PTL DEF Spec

=============================================================================
