-------------------------- MODULE JointGoods_proofs --------------------------
(***************************************************************************)
(* Proofs about JointCommit, for every value of its constants: where the   *)
(* goods are.  JointCommit_proofs shows what engine and servers know of    *)
(* the operations; here the units follow from it.                          *)
(***************************************************************************)
EXTENDS JointCommit_proofs, FiniteSetTheorems

-----------------------------------------------------------------------------
(***************************************************************************)
(* The invariant: what may still become goods of a profile.                *)
(***************************************************************************)
(* A single commit the engine may still write.                             *)
Pending(c) == c.epoch = profile[c.player].epoch /\ c.seq > profile[c.player].commitSeq

(* A joint commit the engine may still apply.                              *)
Live(o) ==
    /\ Waiting(o) /\ record[o] = "none"
    /\ \A p \in request[o].parties :
          request[o].epoch[p] = profile[p].epoch /\ request[o].seq[p] > profile[p].commitSeq
    /\ request[o].claim # NoOp => drops[request[o].claim].status = "public"

(* The units a session gets when it hears the outcome of its operation.    *)
Owed(p, e) ==
    LET o == session[p][e].op IN
    IF o = NoOp THEN {} ELSE IF record[o] = "none" THEN request[o].gives[p] ELSE request[o].gets[p]

Has(p, e, u) == Playing(p, e) /\ (u \in session[p][e].goods \/ u \in Owed(p, e))

(* What a party brings into an operation: all it holds but what it gets.   *)
Brings(o, p, u) ==
    \/ u \in request[o].goods[p] /\ u \notin request[o].gets[p]
    \/ u \in request[o].gives[p]

(* The unit is in the profile, in a commit that may still write it, or in  *)
(* the newest session of the player.                                       *)
Owns(p, u) ==
    \/ u \in profile[p].goods
    \/ \E c \in commits : c.player = p /\ Pending(c) /\ u \in c.goods
    \/ \E e \in Epochs : e = profile[p].epoch /\ Has(p, e, u)
    \/ \E o \in Ops : Live(o) /\ p \in request[o].parties /\ Brings(o, p, u)

Lies(d, u) == drops[d].status = "public" /\ u \in drops[d].goods

OneOwner == \A u \in Units : \A p, q \in Players : Owns(p, u) /\ Owns(q, u) => p = q

OneLies == \A u \in Units : \A d \in Ops : Lies(d, u) =>
    /\ \A p \in Players : ~Owns(p, u)
    /\ \A x \in Ops : Lies(x, u) => x = d

(* What a session will get it does not hold.                               *)
Escrow == \A p \in Players, e \in Epochs : e = profile[p].epoch /\ Playing(p, e) =>
    session[p][e].goods \cap Owed(p, e) = {}

(* A coin fell in the newest session of its player.                        *)
IsCurrent(f) == f.epoch = profile[f.player].epoch

(* The profile is behind the fall for good: its commit was written, or the *)
(* server will hear so from an operation that was applied.                 *)
Released(f) ==
    LET s == session[f.player][f.epoch] IN
    \/ s.saved >= f.seq
    \/ IsCurrent(f) /\ profile[f.player].commitSeq >= f.seq
    \/ /\ Playing(f.player, f.epoch) /\ s.op # NoOp /\ record[s.op] # "none"
       /\ request[s.op].seq[f.player] >= f.seq

FallenKnown == \A f \in fallen : f.epoch \in Epochs /\ session[f.player][f.epoch] # NoSession

(* A coin that fell left its session, and what it sent since.              *)
FallenLeft == \A f \in fallen : IsCurrent(f) =>
    /\ ~Has(f.player, f.epoch, f.unit)
    /\ \A c \in commits : c.player = f.player /\ c.epoch = f.epoch /\ c.seq >= f.seq => f.unit \notin c.goods
    /\ \A o \in Ops : Live(o) /\ f.player \in request[o].parties =>
         /\ f.unit \notin request[o].gives[f.player]
         /\ request[o].seq[f.player] >= f.seq => f.unit \notin request[o].goods[f.player]

(* A coin on the ground is still its player's, and nobody's once released; *)
(* a coin whose session was overtaken before its commit is not one.        *)
Counts(f) == IsCurrent(f) \/ Released(f)

FallenOwned == \A f \in fallen : Counts(f) =>
    /\ \A p \in Players : Owns(p, f.unit) => p = f.player /\ ~Released(f)
    /\ \A d \in Ops : ~Lies(d, f.unit)
    /\ \A g \in fallen : Counts(g) /\ g.unit = f.unit => g = f

Places == OneOwner /\ OneLies /\ Escrow /\ FallenKnown /\ FallenLeft /\ FallenOwned

-----------------------------------------------------------------------------
(***************************************************************************)
(* What a step does to the commits that may still be written.              *)
(***************************************************************************)
LEMMA FallenFields ==
  ASSUME Types, NEW f \in fallen
  PROVE  f.unit \in Coins /\ f.unit \in Units /\ f.player \in Players /\ f.epoch \in Nat /\ f.seq \in Nat
  BY DEF Types, Fallen, Units

LEMMA ProfilesTyped ==
  ASSUME Known, [Next]_vars, NEW p \in Players
  PROVE  /\ profile[p].epoch \in Nat /\ profile[p].commitSeq \in Nat
         /\ profile'[p].epoch \in Nat /\ profile'[p].commitSeq \in Nat
         /\ profile[p].goods \in SUBSET Units /\ profile'[p].goods \in SUBSET Units
<1>1. Types /\ Types'
  BY TypesStep DEF Known
<1>2. profile[p] \in Profile /\ profile'[p] \in Profile
  BY <1>1 DEF Types
<1> QED
  BY <1>2, BoundAssumption DEF Profile

(* A session that is the newest was it before, unless it is new.           *)
LEMMA NewestWas ==
  ASSUME Known, [Next]_vars, NEW p \in Players, NEW e \in Epochs, session[p][e] # NoSession,
         e = profile'[p].epoch
  PROVE  e = profile[p].epoch /\ profile[p].commitSeq <= profile'[p].commitSeq
<1>1. SessionsKnown
  BY DEF Known, Books
<1>2. e <= profile[p].epoch /\ e \in Nat
  BY <1>1 DEF SessionsKnown, Epochs
<1> QED
  BY <1>2, ProfilesTyped, ProfilesGrow DEF ProfileGrew

LEMMA PendingWas ==
  ASSUME Known, [Next]_vars, NEW c \in commits, Pending(c)'
  PROVE  Pending(c)
<1>1. Types /\ CommitsKnown
  BY DEF Known, Books
<1> DEFINE p == c.player
           e == c.epoch
<1>2. p \in Players /\ e \in Epochs /\ c.seq \in Nat /\ session[p][e] # NoSession
  BY <1>1, CommitFields DEF CommitsKnown
<1>3. e = profile'[p].epoch /\ c.seq > profile'[p].commitSeq
  BY DEF Pending
<1> HIDE DEF p, e
<1>4. e = profile[p].epoch /\ profile[p].commitSeq <= profile'[p].commitSeq
  BY <1>2, <1>3, NewestWas
<1>5. c.seq > profile[p].commitSeq
  BY <1>2, <1>3, <1>4, ProfilesTyped
<1> QED
  BY <1>4, <1>5 DEF Pending, p, e

LEMMA LiveWas ==
  ASSUME Known, [Next]_vars, NEW o \in Ops, request[o] # NoRequest, Live(o)'
  PROVE  Live(o) /\ RequestKept(o)
<1>1. Types /\ PartiesKnown /\ Shapes
  BY DEF Known, Books
<1>2. RequestKept(o)
  BY RequestsKept
<1>3. Waiting(o)
  BY WaitingWas DEF Live, Waiting
<1>4. record[o] = "none"
  BY RecordsGrow DEF Live
<1>5. ASSUME NEW p \in request[o].parties
      PROVE  request[o].epoch[p] = profile[p].epoch /\ request[o].seq[p] > profile[p].commitSeq
  <2> DEFINE e == request[o].epoch[p]
             n == request[o].seq[p]
  <2>1. p \in Players /\ e \in Epochs /\ n \in Nat /\ session[p][e] # NoSession
    BY <1>1, PartyFields, SessionFields
  <2>2. e = profile'[p].epoch /\ n > profile'[p].commitSeq
    BY <1>2, <1>5 DEF Live, RequestKept
  <2> HIDE DEF e, n
  <2>3. e = profile[p].epoch /\ profile[p].commitSeq <= profile'[p].commitSeq
    BY <2>1, <2>2, NewestWas
  <2>4. n > profile[p].commitSeq
    BY <2>1, <2>2, <2>3, ProfilesTyped
  <2> QED
    BY <2>3, <2>4 DEF e, n
<1>6. ASSUME request[o].claim # NoOp PROVE drops[request[o].claim].status = "public"
  <2>1. request[o] \in Request
    BY <1>1 DEF Types
  <2>2. request[o].claim \in Ops /\ drops[request[o].claim].status # "none"
    BY <1>1, <1>6, <2>1, RequestFields DEF Shapes, Shape, OperationKinds
  <2>3. drops'[request[o].claim].status = "public"
    BY <1>2, <1>6 DEF Live, RequestKept
  <2> QED
    BY <2>2, <2>3, DropsGrow
<1> QED
  BY <1>2, <1>3, <1>4, <1>5, <1>6 DEF Live

(* An operation the engine applies is one it may still apply.              *)
LEMMA AppliedIsLive ==
  ASSUME Known, NEW o \in Ops, request[o] # NoRequest, ApplyStates(o, request[o])
  PROVE  Live(o)
<1>1. Types /\ PartiesKnown /\ LeaseKnown
  BY DEF Known, Books
<1>2. Waiting(o) /\ record[o] = "none"
  BY ApplyIsFirst
<1>3. /\ \A p \in request[o].parties :
           profile[p].epoch = request[o].epoch[p] /\ profile[p].commitSeq < request[o].seq[p]
      /\ request[o].claim # NoOp => drops[request[o].claim].status = "public"
  BY <1>1, ApplyEffect
<1>4. \A p \in request[o].parties : request[o].seq[p] > profile[p].commitSeq
  BY <1>3
<1> QED
  BY <1>2, <1>3, <1>4 DEF Live


(* The engine applies an operation of p.                                   *)
AppliedTo(o, p) ==
    request[o] # NoRequest /\ ApplyStates(o, request[o]) /\ p \in request[o].parties

(* What a session will get changes only when its operation is applied.     *)
LEMMA OwedMoves ==
  ASSUME Known, [Next]_vars, NEW p \in Players, NEW e \in Epochs, session[p][e] \in Session,
         session[p][e].state = "playing", session'[p][e].op = session[p][e].op
  PROVE  \/ Owed(p, e)' = Owed(p, e)
         \/ \E o \in Ops : /\ AppliedTo(o, p) /\ session[p][e].op = o
                           /\ Owed(p, e) = request[o].gives[p] /\ Owed(p, e)' = request[o].gets[p]
<1>1. Types /\ LeaseKnown /\ PartiesKnown /\ OpsKnown
  BY DEF Known, Books
<1>2. CASE session[p][e].op = NoOp
  BY <1>2 DEF Owed
<1>3. CASE session[p][e].op # NoOp
  <2>1. PICK o \in Ops : o = session[p][e].op
    BY <1>3, SessionFields
  <2>2. Waiting(o) /\ p \in request[o].parties /\ request[o] # NoRequest
    BY <1>1, <1>3, <2>1, SessionFields DEF OpsKnown, Waiting
  <2>3. RequestKept(o)
    BY <2>2, RequestsKept
  <2>4. /\ Owed(p, e) = IF record[o] = "none" THEN request[o].gives[p] ELSE request[o].gets[p]
        /\ Owed(p, e)' = IF record'[o] = "none" THEN request[o].gives[p] ELSE request[o].gets[p]
    BY <1>3, <2>1, <2>3 DEF Owed, RequestKept
  <2>5. CASE record[o] = "none" /\ record'[o] # "none"
    BY <2>1, <2>2, <2>4, <2>5, RecordsCome DEF AppliedTo
  <2>6. record[o] # "none" => record'[o] # "none"
    BY RecordsGrow
  <2> QED
    BY <2>4, <2>5, <2>6
<1> QED
  BY <1>2, <1>3

(* A session that hears the outcome of its operation gets what it is owed. *)
LEMMA HeardWasOwed ==
  ASSUME Known, NEW p \in Players, NEW e \in Epochs, OpHeard(p, e)
  PROVE  session'[p][e].goods = session[p][e].goods \cup Owed(p, e) /\ Owed(p, e)' = {}
<1>1. Outcomes
  BY DEF Known, Books
<1>2. PICK o \in Ops : \E a \in answers[o] :
        /\ Learn(o, a) /\ session[p][e].op = o
        /\ IF IsApplied(a) THEN session'[p][e].goods = session[p][e].goods \cup request[o].gets[p]
           ELSE session'[p][e].goods = session[p][e].goods \cup request[o].gives[p]
  BY DEF OpHeard
<1>3. PICK a \in answers[o] :
        /\ Learn(o, a) /\ session[p][e].op = o
        /\ IF IsApplied(a) THEN session'[p][e].goods = session[p][e].goods \cup request[o].gets[p]
           ELSE session'[p][e].goods = session[p][e].goods \cup request[o].gives[p]
  BY <1>2
<1>4. request[o] # NoRequest
  BY <1>3 DEF Learn
<1>5. IF IsApplied(a) THEN record[o] # "none" ELSE record[o] = "none"
  BY <1>1, <1>4 DEF Outcomes, AnswerTrue
<1>6. Owed(p, e) = IF IsApplied(a) THEN request[o].gets[p] ELSE request[o].gives[p]
  BY <1>3, <1>5, NoneAssumption DEF Owed
<1>7. Owed(p, e)' = {}
  BY DEF OpHeard, Owed
<1> QED
  BY <1>3, <1>6, <1>7

(* A session that sends an operation is owed what it gives.                *)
LEMMA SentIsOwed ==
  ASSUME Known, [Next]_vars, NEW p \in Players, NEW e \in Epochs, OpSent(p, e)
  PROVE  /\ Owed(p, e) = {}
         /\ session[p][e].goods = session'[p][e].goods \cup Owed(p, e)'
         /\ session'[p][e].goods \cap Owed(p, e)' = {}
<1>1. Types /\ Records
  BY DEF Known, Books
<1>2. PICK o \in Ops : /\ Sent(o) /\ p \in request'[o].parties /\ e = request'[o].epoch[p]
                       /\ session'[p][e].op = o
                       /\ session'[p][e].goods = session[p][e].goods \ request'[o].gives[p]
  BY DEF OpSent
<1>3. request[o] = NoRequest /\ PartySent(o, p)
  BY <1>2 DEF Sent
<1>4. request'[o].gives[p] \subseteq session[p][e].goods
  BY <1>2, <1>3 DEF PartySent
<1>5. record'[o] = "none"
  BY <1>1, <1>3, RecordsGrow DEF Records
<1>6. Owed(p, e)' = request'[o].gives[p]
  BY <1>2, <1>5, NoneAssumption DEF Owed
<1>7. Owed(p, e) = {}
  BY DEF OpSent, Owed
<1> QED
  BY <1>2, <1>4, <1>6, <1>7

(* A session keeps its operation while a coin falls or is found, while a   *)
(* commit of it is saved, and while other sessions step.                   *)
OpKept(p, e) ==
    /\ session[p][e] \in Session /\ session[p][e].state = "playing"
    /\ session'[p][e].op = session[p][e].op
    /\ \/ session'[p][e].goods \subseteq session[p][e].goods
       \/ CoinFound(p, e)

(* The newest session of a player, by what changes its goods.              *)
LEMMA NewestChanges ==
  ASSUME Known, [Next]_vars, NEW p \in Players, NEW e \in Epochs, e = profile'[p].epoch, Playing(p, e)'
  PROVE  \/ SessionNew(p, e)
         \/ /\ e = profile[p].epoch /\ Playing(p, e) /\ session[p][e] \in Session
            /\ \/ OpKept(p, e) \/ StateCaptured(p, e) \/ OpSent(p, e) \/ OpHeard(p, e)
<1>1. Types
  BY DEF Known
<1>2. session'[p][e] # NoSession /\ session'[p][e].state = "playing"
  BY DEF Playing
<1>3. CASE session'[p][e] = session[p][e]
  <2>1. session[p][e] \in Session /\ session[p][e].state = "playing"
    BY <1>1, <1>2, <1>3 DEF Types
  <2> QED
    BY <1>2, <1>3, <2>1, NewestWas DEF OpKept, Playing
<1>4. CASE SessionEnds(p, e)
  BY <1>2, <1>4, DoneFields DEF SessionEnds
<1>5. ASSUME Plays(p, e)
      PROVE  e = profile[p].epoch /\ Playing(p, e) /\ session[p][e] \in Session
             /\ session[p][e].state = "playing"
  <2>1. session[p][e] \in Session /\ session[p][e].state = "playing"
    BY <1>5 DEF Plays
  <2>2. session[p][e] # NoSession
    BY <2>1, SessionFields
  <2> QED
    BY <2>1, <2>2, NewestWas DEF Playing
<1>6. CASE CoinFell(p, e) \/ StateSaved(p, e) \/ CoinFound(p, e)
  <2>1. OpKept(p, e)
    BY <1>6 DEF OpKept, CoinFell, StateSaved, CoinFound, Plays, SameMarks
  <2> QED
    BY <1>5, <1>6, <2>1 DEF CoinFell, StateSaved, CoinFound
<1>7. CASE StateCaptured(p, e) \/ OpSent(p, e) \/ OpHeard(p, e)
  BY <1>5, <1>7 DEF StateCaptured, OpSent, OpHeard
<1>8. SessionChanges(p, e)
  BY SessionsChange
<1> QED
  BY <1>3, <1>4, <1>6, <1>7, <1>8 DEF SessionChanges

LEMMA HasWas ==
  ASSUME Known, [Next]_vars, NEW p \in Players, NEW e \in Epochs, NEW u,
         e = profile'[p].epoch, Has(p, e, u)'
  PROVE  \/ e = profile[p].epoch /\ Has(p, e, u)
         \/ SessionNew(p, e) /\ u \in profile[p].goods
         \/ e = profile[p].epoch /\ \E f \in fallen : Find(p, e, f) /\ f.unit = u
         \/ \E o \in Ops : AppliedTo(o, p) /\ u \in request[o].gets[p]
<1>1. Types
  BY DEF Known
<1>2. Playing(p, e)' /\ (u \in session'[p][e].goods \/ u \in Owed(p, e)')
  BY DEF Has
<1>3. CASE SessionNew(p, e)
  <2>1. session'[p][e].goods = profile[p].goods /\ session'[p][e].op = NoOp
    BY <1>1, <1>3, NewSessionIs
  <2>2. Owed(p, e)' = {}
    BY <2>1 DEF Owed
  <2> QED
    BY <1>2, <1>3, <2>1, <2>2
<1>4. ASSUME e = profile[p].epoch, Playing(p, e), OpKept(p, e)
      PROVE  \/ Has(p, e, u)
             \/ \E f \in fallen : Find(p, e, f) /\ f.unit = u
             \/ \E o \in Ops : AppliedTo(o, p) /\ u \in request[o].gets[p]
  <2>1. \/ u \in session[p][e].goods
        \/ \E f \in fallen : Find(p, e, f) /\ f.unit = u
        \/ u \in Owed(p, e)'
    BY <1>2, <1>4 DEF OpKept, CoinFound
  <2>2. \/ Owed(p, e)' = Owed(p, e)
        \/ \E o \in Ops : AppliedTo(o, p) /\ Owed(p, e)' = request[o].gets[p]
    BY <1>4, OwedMoves DEF OpKept
  <2> QED
    BY <1>4, <2>1, <2>2 DEF Has
<1>5. ASSUME Playing(p, e), StateCaptured(p, e) PROVE Has(p, e, u)
  <2>1. session'[p][e].goods = session[p][e].goods /\ Owed(p, e)' = {}
    BY <1>5 DEF StateCaptured, Owed
  <2> QED
    BY <1>2, <1>5, <2>1 DEF Has
<1>6. ASSUME Playing(p, e), OpSent(p, e) PROVE Has(p, e, u)
  BY <1>2, <1>6, SentIsOwed DEF Has
<1>7. ASSUME Playing(p, e), OpHeard(p, e) PROVE Has(p, e, u)
  BY <1>2, <1>7, HeardWasOwed DEF Has
<1> QED
  BY <1>2, <1>3, <1>4, <1>5, <1>6, <1>7, NewestChanges


-----------------------------------------------------------------------------
(***************************************************************************)
(* Where a unit a player owns, or one that lies on the ground, was before. *)
(***************************************************************************)
(* What the parties of an operation that was just sent commit, they had.   *)
LEMMA SentHolds ==
  ASSUME Known, [Next]_vars, NEW o \in Ops, Sent(o), Live(o)', NEW p \in request'[o].parties
  PROVE  LET e == request'[o].epoch[p] IN
         /\ p \in Players /\ e \in Epochs /\ e = profile[p].epoch /\ Playing(p, e)
         /\ session[p][e] \in Session /\ session[p][e].op = NoOp
         /\ request'[o].gives[p] \subseteq session[p][e].goods
         /\ request'[o].goods[p] = (session[p][e].goods \ request'[o].gives[p]) \cup request'[o].gets[p]
<1> DEFINE e == request'[o].epoch[p]
<1>1. PartySent(o, p)
  BY DEF Sent
<1>2. /\ p \in Players /\ e \in Epochs /\ session[p][e] \in Session
      /\ session[p][e].state = "playing" /\ session[p][e].op = NoOp
      /\ request'[o].gives[p] \subseteq session[p][e].goods
      /\ request'[o].goods[p] = (session[p][e].goods \ request'[o].gives[p]) \cup request'[o].gets[p]
  BY <1>1 DEF PartySent
<1>3. e = profile'[p].epoch
  BY DEF Live
<1> HIDE DEF e
<1>4. session[p][e] # NoSession /\ Playing(p, e)
  BY <1>2, SessionFields DEF Playing
<1>5. e = profile[p].epoch
  BY <1>2, <1>3, <1>4, NewestWas
<1> QED
  BY <1>2, <1>4, <1>5 DEF e

LEMMA BroughtWasOwned ==
  ASSUME Known, [Next]_vars, NEW o \in Ops, NEW p \in Players, NEW u,
         Live(o)', p \in request'[o].parties, Brings(o, p, u)'
  PROVE  Owns(p, u)
<1>1. CASE request[o] = NoRequest
  <2>1. Sent(o)
    BY <1>1, RequestsCome DEF Live, Waiting
  <2>2. PICK e \in Epochs : /\ e = profile[p].epoch /\ Playing(p, e)
           /\ request'[o].gives[p] \subseteq session[p][e].goods
           /\ request'[o].goods[p] = (session[p][e].goods \ request'[o].gives[p]) \cup request'[o].gets[p]
    BY <2>1, SentHolds
  <2>3. u \in session[p][e].goods
    BY <2>2 DEF Brings
  <2> QED
    BY <2>2, <2>3 DEF Owns, Has
<1>2. CASE request[o] # NoRequest
  BY <1>2, LiveWas DEF Owns, RequestKept, Brings
<1> QED
  BY <1>1, <1>2

LEMMA PendingWasOwned ==
  ASSUME Known, [Next]_vars, NEW c \in commits', NEW u, Pending(c)', u \in c.goods
  PROVE  Owns(c.player, u)
<1>1. Types
  BY DEF Known
<1>2. CASE c \in commits
  BY <1>2, PendingWas DEF Owns
<1>3. CASE c \notin commits
  <2>1. PICK p \in Players, e \in Epochs :
          /\ Capture(p, e) /\ c = CommitOf(p, e) /\ c.player = p /\ c.epoch = e
          /\ session[p][e] \in Session /\ session[p][e].state = "playing"
    BY <1>3, CommitsCome
  <2>2. c.goods = session[p][e].goods
    BY <1>1, <2>1, CaptureEffect
  <2>3. e = profile[p].epoch /\ Playing(p, e)
    <3>1. session[p][e] # NoSession
      BY <2>1, SessionFields
    <3>2. e = profile'[p].epoch
      BY <2>1 DEF Pending
    <3> QED
      BY <2>1, <3>1, <3>2, NewestWas DEF Playing
  <2> QED
    BY <2>1, <2>2, <2>3 DEF Owns, Has
<1> QED
  BY <1>2, <1>3

(* The engine writes a single commit into its profile.                     *)
Writes(c) ==
    /\ c \in commits /\ Pending(c) /\ profile'[c.player].goods = c.goods
    /\ profile'[c.player].epoch = c.epoch /\ profile'[c.player].commitSeq = c.seq
    /\ \A q \in Players : q # c.player => profile'[q] = profile[q]

(* The sequence and the goods of a profile change by one commit, single or *)
(* of an operation.                                                        *)
LEMMA ProfilesMove ==
  ASSUME Known, [Next]_vars, NEW p \in Players
  PROVE  \/ profile'[p] = profile[p]
         \/ \E s \in Servers : Acquire(p, s)
         \/ \E c \in commits : c.player = p /\ Writes(c) /\ CommitState(c)
         \/ \E o \in Ops : AppliedTo(o, p)
<1>1. Types /\ LeaseKnown /\ PartiesKnown /\ CommitsKnown
  BY DEF Known, Books
<1>2. CASE Acquires
  <2>1. PICK q \in Players, s \in Servers : Acquire(q, s)
    BY <1>2 DEF Acquires
  <2> QED
    BY <1>1, <2>1, AcquireEffect
<1>3. CASE Commits
  <2>1. PICK c \in commits : CommitState(c)
    BY <1>3 DEF Commits
  <2>2. \/ profile' = profile
        \/ /\ profile[c.player].epoch = c.epoch /\ profile[c.player].commitSeq < c.seq
           /\ profile'[c.player].epoch = c.epoch /\ profile'[c.player].commitSeq = c.seq
           /\ profile'[c.player].goods = c.goods
           /\ \A q \in Players : q # c.player => profile'[q] = profile[q]
    BY <1>1, <2>1, CommitEffect
  <2>3. c.player \in Players /\ c.seq \in Nat
    BY <1>1, CommitFields
  <2>4. profile[c.player].commitSeq < c.seq => c.seq > profile[c.player].commitSeq
    BY <2>3, ProfilesTyped
  <2> QED
    BY <2>1, <2>2, <2>4 DEF Writes, Pending
<1>4. CASE Applies
  <2>1. PICK o \in Ops : request[o] # NoRequest /\ ApplyStates(o, request[o])
    BY <1>4 DEF Applies
  <2> QED
    BY <1>1, <2>1, ApplyEffect DEF AppliedTo
<1> QED
  BY <1>2, <1>3, <1>4, Frames

(* What an operation that is applied writes, its parties brought or get.   *)
LEMMA AppliedWasOwned ==
  ASSUME Known, NEW o \in Ops, NEW p \in Players, NEW u, AppliedTo(o, p), u \in request[o].goods[p]
  PROVE  u \in request[o].gets[p] \/ (Owns(p, u) /\ u \notin request[o].gives[p])
<1>1. PartiesKnown
  BY DEF Known, Books
<1>2. Live(o)
  BY AppliedIsLive DEF AppliedTo
<1>3. request[o].goods[p] \cap request[o].gives[p] \subseteq request[o].gets[p]
  BY <1>1 DEF PartiesKnown, AppliedTo
<1> QED
  BY <1>2, <1>3 DEF Owns, Brings, AppliedTo

LEMMA GoodsWereOwned ==
  ASSUME Known, [Next]_vars, NEW p \in Players, NEW u, u \in profile'[p].goods
  PROVE  Owns(p, u) \/ \E o \in Ops : AppliedTo(o, p) /\ u \in request[o].gets[p]
<1>1. Types /\ LeaseKnown /\ PartiesKnown
  BY DEF Known, Books
<1>2. CASE profile'[p] = profile[p]
  BY <1>2 DEF Owns
<1>3. ASSUME NEW s \in Servers, Acquire(p, s) PROVE Owns(p, u)
  <2>1. profile'[p].goods = profile[p].goods
    BY <1>1, <1>3, AcquireEffect
  <2> QED
    BY <2>1 DEF Owns
<1>4. ASSUME NEW c \in commits, c.player = p, Writes(c) PROVE Owns(p, u)
  BY <1>4 DEF Owns, Writes
<1>5. ASSUME NEW o \in Ops, AppliedTo(o, p) PROVE u \in request[o].gets[p] \/ Owns(p, u)
  <2>1. profile'[p].goods = request[o].goods[p]
    BY <1>1, <1>5, ApplyEffect DEF AppliedTo
  <2> QED
    BY <1>5, <2>1, AppliedWasOwned
<1> QED
  BY <1>2, <1>3, <1>4, <1>5, ProfilesMove

LEMMA OwnsWas ==
  ASSUME Known, [Next]_vars, NEW p \in Players, NEW u, Owns(p, u)'
  PROVE  \/ Owns(p, u)
         \/ \E e \in Epochs : e = profile[p].epoch /\ \E f \in fallen : Find(p, e, f) /\ f.unit = u
         \/ \E o \in Ops : AppliedTo(o, p) /\ u \in request[o].gets[p]
<1>1. CASE u \in profile'[p].goods
  BY <1>1, GoodsWereOwned
<1>2. ASSUME NEW c \in commits', c.player = p, Pending(c)', u \in c.goods PROVE Owns(p, u)
  BY <1>2, PendingWasOwned
<1>3. ASSUME NEW e \in Epochs, e = profile'[p].epoch, Has(p, e, u)'
      PROVE  \/ Owns(p, u)
             \/ e = profile[p].epoch /\ \E f \in fallen : Find(p, e, f) /\ f.unit = u
             \/ \E o \in Ops : AppliedTo(o, p) /\ u \in request[o].gets[p]
  BY <1>3, HasWas DEF Owns
<1>4. ASSUME NEW o \in Ops, Live(o)', p \in request'[o].parties, Brings(o, p, u)' PROVE Owns(p, u)
  BY <1>4, BroughtWasOwned
<1> QED
  BY <1>1, <1>2, <1>3, <1>4 DEF Owns


-----------------------------------------------------------------------------
(***************************************************************************)
(* Joint commits that are applied.                                         *)
(***************************************************************************)
LEMMA AppliedWrites ==
  ASSUME Known, NEW o \in Ops, NEW p, AppliedTo(o, p)
  PROVE  /\ request[o] \in Request /\ p \in Players /\ Live(o) /\ record[o] = "none" /\ record'[o] = "kept"
         /\ \A x \in Ops : x # o => record'[x] = record[x]
         /\ profile[p].epoch = request[o].epoch[p] /\ profile[p].commitSeq < request[o].seq[p]
         /\ profile'[p].epoch = request[o].epoch[p] /\ profile'[p].commitSeq = request[o].seq[p]
         /\ profile'[p].goods = request[o].goods[p]
         /\ UNCHANGED <<lease, commits, request, session, tokens, fallen>>
         /\ request[o].epoch[p] \in Epochs /\ request[o].seq[p] \in Nat
         /\ session[p][request[o].epoch[p]] \in Session
         /\ request[o].gives[p] \in SUBSET Units /\ request[o].gets[p] \in SUBSET Units
<1>1. Types /\ LeaseKnown /\ PartiesKnown
  BY DEF Known, Books
<1>2. request[o] # NoRequest /\ ApplyStates(o, request[o]) /\ p \in request[o].parties
  BY DEF AppliedTo
<1>3. Live(o) /\ record[o] = "none"
  BY <1>2, AppliedIsLive, ApplyIsFirst
<1>4. UNCHANGED <<lease, commits, request, session, tokens, fallen>>
  BY <1>2 DEF ApplyStates, serverVars
<1> QED
  BY <1>1, <1>2, <1>3, <1>4, ApplyEffect, PartyFields

(* One operation at a time is applied, and nothing else happens with it.   *)
LEMMA AppliedAlone ==
  ASSUME Known, NEW o \in Ops, NEW p, AppliedTo(o, p)
  PROVE  /\ \A x \in Ops : \A q \in Players : AppliedTo(x, q) => x = o /\ q \in request[o].parties
         /\ \A q \in Players, e \in Epochs : \A f \in fallen : ~Find(q, e, f)
<1>1. ASSUME NEW x \in Ops, NEW q \in Players, AppliedTo(x, q) PROVE x = o /\ q \in request[o].parties
  <2>1. record[x] = "none" /\ record'[x] = "kept"
    BY <1>1, AppliedWrites
  <2>2. x = o
    BY <2>1, AppliedWrites
  <2> QED
    BY <1>1, <2>2 DEF AppliedTo
<1>2. fallen' = fallen
  BY AppliedWrites
<1>3. ASSUME NEW q \in Players, NEW e \in Epochs, NEW f \in fallen, Find(q, e, f) PROVE FALSE
  BY <1>2, <1>3 DEF Find
<1> QED
  BY <1>1, <1>3

(* At most one operation of a player may still be applied.                 *)
LEMMA OneLive ==
  ASSUME Known, NEW o \in Ops, NEW x \in Ops, Live(o), Live(x), NEW p,
         p \in request[o].parties, p \in request[x].parties
  PROVE  x = o
<1>1. WaitsOrDone
  BY DEF Known, Books
<1>2. Waiting(o) /\ Waiting(x) /\ request[o].epoch[p] = request[x].epoch[p]
  BY DEF Live
<1> QED
  BY <1>1, <1>2 DEF WaitsOrDone

(* What a player gave it no longer owns, unless it gets it back.           *)
LEMMA AppliedGives ==
  ASSUME Known, Escrow, [Next]_vars, NEW o \in Ops, NEW p \in Players, NEW u,
         AppliedTo(o, p), u \in request[o].gives[p], Owns(p, u)'
  PROVE  u \in request[o].gets[p]
<1>1. PartiesKnown /\ WaitsOrDone
  BY DEF Known, Books
<1> DEFINE e == request[o].epoch[p]
           n == request[o].seq[p]
           s == session[p][e]
<1>2. /\ Live(o) /\ record[o] = "none" /\ record'[o] = "kept"
      /\ profile[p].epoch = e
      /\ profile'[p].epoch = e /\ profile'[p].commitSeq = n /\ profile'[p].goods = request[o].goods[p]
      /\ commits' = commits /\ request' = request /\ session' = session
      /\ e \in Epochs /\ n \in Nat /\ s \in Session
  BY AppliedWrites
<1>3. p \in request[o].parties /\ Waiting(o)
  BY <1>2 DEF AppliedTo, Live
<1>4. /\ s.op = o \/ s.state = "done"
      /\ \A c \in commits : c.player = p /\ c.epoch = e => c.seq < n
  BY <1>1, <1>3 DEF WaitsOrDone
<1> HIDE DEF e, n, s
<1>5. CASE u \in profile'[p].goods
  BY <1>1, <1>2, <1>3, <1>5 DEF PartiesKnown, Waiting
<1>6. ASSUME NEW c \in commits', c.player = p, Pending(c)' PROVE FALSE
  <2>1. c \in commits /\ c.epoch = e /\ c.seq > n
    BY <1>2, <1>6 DEF Pending
  <2>2. c.seq < n /\ c.seq \in Nat
    BY <1>4, <1>6, <2>1, CommitFields DEF Known
  <2> QED
    BY <1>2, <2>1, <2>2
<1>7. ASSUME NEW f \in Epochs, f = profile'[p].epoch, Has(p, f, u)' PROVE u \in request[o].gets[p]
  <2>1. f = e /\ session'[p][e] = s
    BY <1>2, <1>7 DEF s
  <2>2. s.state = "playing" /\ (u \in s.goods \/ u \in Owed(p, f)')
    BY <1>7, <2>1 DEF Has, Playing
  <2>3. s.op = o
    BY <1>4, <2>2
  <2>4. Owed(p, f)' = request[o].gets[p]
    BY <1>2, <2>1, <2>3, NoneAssumption DEF Owed
  <2>5. Owed(p, f) = request[o].gives[p]
    BY <1>2, <2>1, <2>3, NoneAssumption DEF Owed, s
  <2>6. Playing(p, f)
    BY <1>2, <2>1, <2>2, SessionFields DEF Playing, s
  <2>7. s.goods \cap Owed(p, f) = {}
    BY <1>2, <2>1, <2>6 DEF Escrow, s
  <2> QED
    BY <2>2, <2>4, <2>5, <2>7
<1>8. ASSUME NEW x \in Ops, Live(x)', p \in request'[x].parties PROVE FALSE
  <2>1. request[x] # NoRequest /\ x # o
    BY <1>2, <1>8 DEF Live, Waiting
  <2>2. Live(x) /\ p \in request[x].parties
    BY <1>2, <1>8, <2>1, LiveWas
  <2> QED
    BY <1>2, <1>3, <2>1, <2>2, OneLive
<1> QED
  BY <1>5, <1>6, <1>7, <1>8 DEF Owns

LEMMA GiverOwns ==
  ASSUME Known, NEW o \in Ops, NEW p, AppliedTo(o, p), NEW u \in request[o].gives[p]
  PROVE  Owns(p, u)
<1>1. Live(o)
  BY AppliedWrites
<1> QED
  BY <1>1 DEF AppliedTo, Owns, Brings

(* What a player gets, the other party of a trade gave, or it lies on the  *)
(* ground under the claim.                                                 *)
LEMMA GetsFrom ==
  ASSUME Known, NEW o \in Ops, NEW p, AppliedTo(o, p), NEW u \in request[o].gets[p]
  PROVE  /\ request[o].kind \in {"trade", "pickup"}
         /\ \/ \E q \in Players : /\ q # p /\ request[o].parties = {p, q} /\ AppliedTo(o, q)
                                  /\ u \in request[o].gives[q] /\ Owns(q, u)
            \/ /\ request[o].claim \in Ops /\ Lies(request[o].claim, u)
               /\ request[o].parties = {p}
<1>1. Types /\ Shapes
  BY DEF Known, Books
<1>2. request[o] \in Request /\ Live(o)
  BY AppliedWrites
<1>3. request[o] # NoRequest /\ p \in request[o].parties /\ ApplyStates(o, request[o])
  BY DEF AppliedTo
<1>4. Shape(request[o].kind, request[o].server, request[o].parties,
            request[o].gives, request[o].gets, request[o].claim)
  BY <1>1, <1>3 DEF Shapes
<1>5. request[o].kind \in OperationKinds
  BY <1>2, RequestFields
<1>6. CASE request[o].kind = "trade"
  <2>1. PICK a, b \in Players : /\ a # b /\ request[o].parties = {a, b}
          /\ request[o].gets[a] = request[o].gives[b] /\ request[o].gets[b] = request[o].gives[a]
    BY <1>4, <1>6 DEF Shape
  <2>2. PICK q \in Players : /\ q # p /\ request[o].parties = {p, q}
                             /\ request[o].gets[p] = request[o].gives[q]
    BY <1>3, <2>1
  <2>3. AppliedTo(o, q)
    BY <1>3, <2>2 DEF AppliedTo
  <2>4. Owns(q, u)
    BY <2>2, <2>3, GiverOwns
  <2> QED
    BY <1>6, <2>2, <2>3, <2>4
<1>7. CASE request[o].kind = "drop"
  BY <1>3, <1>4, <1>7 DEF Shape
<1>8. CASE request[o].kind = "pickup"
  <2>1. /\ request[o].claim \in Ops
        /\ \E a \in Players : request[o].parties = {a} /\ request[o].gets[a] = drops[request[o].claim].goods
    BY <1>4, <1>8 DEF Shape
  <2>2. request[o].parties = {p} /\ request[o].gets[p] = drops[request[o].claim].goods
    BY <1>3, <2>1
  <2>3. drops[request[o].claim].status = "public"
    BY <1>2, <2>1, NoneAssumption DEF Live
  <2> QED
    BY <1>8, <2>1, <2>2, <2>3 DEF Lies
<1> QED
  BY <1>5, <1>6, <1>7, <1>8 DEF OperationKinds

(* A unit lies on the ground because it did, unclaimed, or because it was  *)
(* just dropped.                                                           *)
LEMMA LiesWas ==
  ASSUME Known, [Next]_vars, NEW d \in Ops, NEW u, Lies(d, u)'
  PROVE  \/ Lies(d, u) /\ \A o \in Ops : \A p \in Players : AppliedTo(o, p) => request[o].claim # d
         \/ \E p \in Players : /\ AppliedTo(d, p) /\ request[d].parties = {p}
                               /\ u \in request[d].gives[p] /\ request[d].gets[p] = {}
<1>1. Types /\ LeaseKnown /\ PartiesKnown /\ Shapes
  BY DEF Known, Books
<1>2. drops'[d].status = "public" /\ u \in drops'[d].goods
  BY DEF Lies
<1>3. CASE drops[d].status = "none"
  <2>1. request[d] # NoRequest /\ request[d].kind = "drop" /\ ApplyStates(d, request[d])
    BY <1>2, <1>3, DropsCome
  <2>2. PICK p \in Players : request[d].parties = {p} /\ request[d].gets[p] = {}
    BY <1>1, <2>1 DEF Shapes, Shape
  <2>3. request[d].claim = NoOp
    BY <1>1, <2>1 DEF Shapes, Shape
  <2>4. drops'[d].goods = UNION {request[d].gives[x] : x \in request[d].parties}
    BY <1>1, <2>1, <2>3, ApplyEffect, NoneAssumption
  <2>5. u \in request[d].gives[p]
    BY <1>2, <2>2, <2>4
  <2> QED
    BY <2>1, <2>2, <2>5 DEF AppliedTo
<1>4. CASE drops[d].status # "none"
  <2>1. Lies(d, u)
    BY <1>2, <1>4, DropsGrow DEF Lies
  <2>2. ASSUME NEW o \in Ops, NEW p \in Players, AppliedTo(o, p), request[o].claim = d PROVE FALSE
    BY <1>1, <1>2, <2>2, ApplyEffect DEF AppliedTo
  <2> QED
    BY <2>1, <2>2
<1> QED
  BY <1>3, <1>4


-----------------------------------------------------------------------------
(***************************************************************************)
(* Every unit has one owner, or lies in one place.                         *)
(***************************************************************************)
(* A coin someone finds is nobody's.                                       *)
LEMMA FoundIsFree ==
  ASSUME FallenOwned, NEW p, NEW e, NEW f \in fallen, Find(p, e, f)
  PROVE  /\ Released(f) /\ Counts(f)
         /\ \A q \in Players : ~Owns(q, f.unit)
         /\ \A d \in Ops : ~Lies(d, f.unit)
<1>1. Released(f) /\ Counts(f)
  BY DEF Find, Unlocked, Released, Counts
<1> QED
  BY <1>1 DEF FallenOwned

(* Who gets a unit from an operation is the only one to own it then.       *)
LEMMA GetsAlone ==
  ASSUME Known, Places, [Next]_vars, NEW o \in Ops, NEW p \in Players, AppliedTo(o, p),
         NEW u \in request[o].gets[p], NEW q \in Players, Owns(q, u)'
  PROVE  q = p
<1>1. OneOwner /\ OneLies /\ Escrow
  BY DEF Places
<1>2. u \in Units
  BY AppliedWrites
<1>3. Owns(q, u) \/ (AppliedTo(o, q) /\ u \in request[o].gets[q])
  BY OwnsWas, AppliedAlone
<1>4. CASE \E y \in Players : /\ y # p /\ request[o].parties = {p, y} /\ AppliedTo(o, y)
                              /\ u \in request[o].gives[y] /\ Owns(y, u)
  <2>1. PICK y \in Players : /\ y # p /\ request[o].parties = {p, y} /\ AppliedTo(o, y)
                             /\ u \in request[o].gives[y] /\ Owns(y, u)
    BY <1>4
  <2>2. q = p \/ q = y
    <3>1. Owns(q, u) => q = y
      BY <1>1, <1>2, <2>1 DEF OneOwner
    <3> QED
      BY <1>3, <2>1, <3>1 DEF AppliedTo
  <2>3. ASSUME q = y PROVE FALSE
    <3>1. u \in request[o].gets[y]
      BY <1>1, <2>1, <2>3, AppliedGives
    <3>2. \/ \E z \in Players : z # y /\ request[o].parties = {y, z} /\ Owns(z, u)
          \/ request[o].parties = {y}
      BY <2>1, <3>1, GetsFrom
    <3>3. Owns(p, u)
      BY <2>1, <3>2
    <3> QED
      BY <1>1, <1>2, <2>1, <3>3 DEF OneOwner
  <2> QED
    BY <2>2, <2>3
<1>5. CASE /\ request[o].claim \in Ops /\ Lies(request[o].claim, u)
           /\ request[o].parties = {p}
  <2>1. ~Owns(q, u)
    BY <1>1, <1>2, <1>5 DEF OneLies
  <2> QED
    BY <1>3, <1>5, <2>1 DEF AppliedTo
<1> QED
  BY <1>4, <1>5, GetsFrom

LEMMA OneOwnerStep == ASSUME Known, Places, [Next]_vars PROVE OneOwner'
<1> SUFFICES ASSUME NEW u \in Units, NEW p \in Players, NEW q \in Players, Owns(p, u)', Owns(q, u)'
             PROVE  p = q
  BY DEF OneOwner
<1>1. OneOwner /\ FallenOwned
  BY DEF Places
<1> DEFINE Finder(x) == \E e \in Epochs : e = profile[x].epoch /\ \E f \in fallen : Find(x, e, f) /\ f.unit = u
<1>2. ASSUME NEW x \in Players, NEW y \in Players, Finder(x) PROVE ~Owns(y, u)
  BY <1>1, <1>2, FoundIsFree
<1>3. ASSUME NEW o \in Ops, AppliedTo(o, p), u \in request[o].gets[p] PROVE p = q
  BY <1>3, GetsAlone
<1>4. ASSUME NEW o \in Ops, AppliedTo(o, q), u \in request[o].gets[q] PROVE p = q
  BY <1>4, GetsAlone
<1>5. CASE Owns(p, u) /\ Owns(q, u)
  BY <1>1, <1>5 DEF OneOwner
<1>6. ASSUME Finder(p), Finder(q), p # q PROVE FALSE
  <2>1. PICK e \in Epochs, f \in fallen : e = profile[p].epoch /\ Find(p, e, f)
    BY <1>6
  <2>2. PICK d \in Epochs, g \in fallen : d = profile[q].epoch /\ Find(q, d, g) /\ g.unit = u
    BY <1>6
  <2>3. Types
    BY DEF Known
  <2>4. OthersKept(p, e)
    BY <2>1, <2>3, FindEffect
  <2>5. u \in session'[q][d].goods /\ Playing(q, d)
    <3>1. Playing(q, d)
      BY <2>2 DEF Find
    <3> QED
      BY <2>2, <2>3, <3>1, FindEffect
  <2>6. session'[q][d] = session[q][d]
    BY <1>6, <2>4 DEF OthersKept
  <2>7. Owns(q, u)
    BY <2>2, <2>5, <2>6 DEF Owns, Has
  <2> QED
    BY <1>2, <1>6, <2>7
<1>7. \A x \in Players : Owns(x, u)' => \/ Owns(x, u) \/ Finder(x)
                                        \/ \E o \in Ops : AppliedTo(o, x) /\ u \in request[o].gets[x]
  BY OwnsWas
<1> HIDE DEF Finder
<1> QED
  BY <1>2, <1>3, <1>4, <1>5, <1>6, <1>7

(* A unit that lies on the ground was dropped by its only owner, and is    *)
(* found by the one who gets it.                                           *)
LEMMA OneLiesStep == ASSUME Known, Places, [Next]_vars PROVE OneLies'
<1> SUFFICES ASSUME NEW u \in Units, NEW d \in Ops, Lies(d, u)'
             PROVE  /\ \A p \in Players : ~Owns(p, u)'
                    /\ \A x \in Ops : Lies(x, u)' => x = d
  BY DEF OneLies
<1>1. OneOwner /\ OneLies /\ Escrow /\ FallenOwned
  BY DEF Places
<1> DEFINE Dropped(x, p) == /\ AppliedTo(x, p) /\ request[x].parties = {p}
                            /\ u \in request[x].gives[p] /\ request[x].gets[p] = {}
           Lay(x) == Lies(x, u) /\ \A o \in Ops : \A p \in Players : AppliedTo(o, p) => request[o].claim # x
<1>2. \A x \in Ops : Lies(x, u)' => Lay(x) \/ \E p \in Players : Dropped(x, p)
  BY LiesWas
<1>3. CASE Lay(d)
  <2>1. \A p \in Players : ~Owns(p, u)
    BY <1>1, <1>3 DEF OneLies
  <2>2. ASSUME NEW p \in Players, Owns(p, u)' PROVE FALSE
    <3>1. ASSUME NEW e \in Epochs, NEW f \in fallen, Find(p, e, f), f.unit = u PROVE FALSE
      BY <1>1, <1>3, <3>1, FoundIsFree
    <3>2. ASSUME NEW o \in Ops, AppliedTo(o, p), u \in request[o].gets[p] PROVE FALSE
      <4>1. \/ \E q \in Players : Owns(q, u)
            \/ request[o].claim \in Ops /\ Lies(request[o].claim, u)
        BY <3>2, GetsFrom
      <4>2. request[o].claim = d
        BY <1>1, <1>3, <2>1, <4>1 DEF OneLies
      <4> QED
        BY <1>3, <3>2, <4>2
    <3> QED
      BY <2>1, <2>2, <3>1, <3>2, OwnsWas
  <2>3. ASSUME NEW x \in Ops, Lies(x, u)' PROVE x = d
    <3>1. ASSUME NEW p \in Players, Dropped(x, p) PROVE FALSE
      BY <2>1, <3>1, GiverOwns
    <3>2. Lay(x) => x = d
      BY <1>1, <1>3 DEF OneLies
    <3> QED
      BY <1>2, <2>3, <3>1, <3>2
  <2> QED
    BY <2>2, <2>3
<1>4. ASSUME NEW p \in Players, Dropped(d, p)
      PROVE  /\ \A q \in Players : ~Owns(q, u)'
             /\ \A x \in Ops : Lies(x, u)' => x = d
  <2>1. Owns(p, u)
    BY <1>4, GiverOwns
  <2>2. ASSUME NEW q \in Players, Owns(q, u)' PROVE FALSE
    <3>1. Owns(q, u) \/ (q = p /\ u \in request[d].gets[q])
      BY <1>4, <2>2, OwnsWas, AppliedAlone
    <3>2. q = p
      BY <1>1, <2>1, <3>1 DEF OneOwner
    <3> QED
      BY <1>1, <1>4, <2>2, <3>2, AppliedGives
  <2>3. ASSUME NEW x \in Ops, Lies(x, u)' PROVE x = d
    <3>1. ~Lay(x)
      BY <1>1, <2>1 DEF OneLies
    <3>2. PICK q \in Players : Dropped(x, q)
      BY <1>2, <2>3, <3>1
    <3> QED
      BY <1>4, <3>2, AppliedAlone
  <2> QED
    BY <2>2, <2>3
<1> HIDE DEF Dropped, Lay
<1> QED
  BY <1>2, <1>3, <1>4

LEMMA EscrowStep == ASSUME Known, Places, [Next]_vars PROVE Escrow'
<1> SUFFICES ASSUME NEW p \in Players, NEW e \in Epochs, e = profile'[p].epoch, Playing(p, e)',
                    NEW u \in session'[p][e].goods, u \in Owed(p, e)'
             PROVE  FALSE
  BY DEF Escrow
<1>1. OneOwner /\ OneLies /\ Escrow /\ FallenOwned
  BY DEF Places
<1>2. Types
  BY DEF Known
<1>3. CASE SessionNew(p, e)
  BY <1>2, <1>3, NewSessionIs DEF Owed
<1>4. ASSUME e = profile[p].epoch, Playing(p, e), OpKept(p, e) PROVE FALSE
  <2>1. session[p][e].goods \cap Owed(p, e) = {}
    BY <1>1, <1>4 DEF Escrow
  <2>2. ASSUME NEW o \in Ops, AppliedTo(o, p), Owed(p, e)' = request[o].gets[p] PROVE FALSE
    <3>1. u \in request[o].gets[p] /\ u \in Units
      BY <2>2, AppliedWrites
    <3>2. u \in session[p][e].goods
      BY <1>4, <2>2, AppliedAlone DEF OpKept, CoinFound
    <3>3. Owns(p, u)
      BY <1>4, <3>2 DEF Owns, Has
    <3>4. \/ \E q \in Players : q # p /\ Owns(q, u)
          \/ request[o].claim \in Ops /\ Lies(request[o].claim, u)
      BY <2>2, <3>1, GetsFrom
    <3> QED
      BY <1>1, <3>1, <3>3, <3>4 DEF OneOwner, OneLies
  <2>3. ASSUME Owed(p, e)' = Owed(p, e) PROVE FALSE
    <3>1. u \notin session[p][e].goods
      BY <2>1, <2>3
    <3>2. PICK f \in fallen : Find(p, e, f) /\ f.unit = u
      BY <1>4, <3>1 DEF OpKept, CoinFound
    <3>3. Owns(p, u)
      BY <1>4, <2>3 DEF Owns, Has
    <3> QED
      BY <1>1, <3>2, <3>3, FoundIsFree
  <2> QED
    BY <1>4, <2>2, <2>3, OwedMoves DEF OpKept
<1>5. CASE StateCaptured(p, e)
  BY <1>5 DEF StateCaptured, Owed
<1>6. CASE OpSent(p, e)
  BY <1>6, SentIsOwed
<1>7. CASE OpHeard(p, e)
  BY <1>7, HeardWasOwed, <1>2 DEF Known
<1> QED
  BY <1>3, <1>4, <1>5, <1>6, <1>7, NewestChanges


-----------------------------------------------------------------------------
(***************************************************************************)
(* Coins on the ground.                                                    *)
(***************************************************************************)
LEMMA FallenCome ==
  ASSUME Known, [Next]_vars, NEW f \in fallen', f \notin fallen
  PROVE  \E p \in Players, e \in Epochs, u \in Coins :
         /\ Fall(p, e, u) /\ f = CoinOf(p, e, u)
         /\ f.unit = u /\ f.player = p /\ f.epoch = e /\ f.seq = session[p][e].captured + 1
         /\ session[p][e] \in Session /\ session[p][e].state = "playing" /\ u \in session[p][e].goods
         /\ session[p][e].captured \in Nat
<1>1. Types
  BY DEF Known
<1>2. CASE Falls
  <2>1. PICK p \in Players, e \in Epochs, u \in Coins : Fall(p, e, u)
    BY <1>2 DEF Falls
  <2>2. /\ session[p][e] \in Session /\ session[p][e].state = "playing" /\ u \in session[p][e].goods
        /\ f = CoinOf(p, e, u)
    BY <1>1, <2>1, FallEffect
  <2> QED
    BY <2>1, <2>2, CoinFields, SessionFields
<1>3. CASE Restarts
  BY <1>3 DEF Restarts, Restart
<1>4. CASE Finds
  BY <1>4 DEF Finds, Find
<1> QED
  BY <1>2, <1>3, <1>4, Frames

LEMMA FallenKnownStep == ASSUME Known, FallenKnown, [Next]_vars PROVE FallenKnown'
<1> SUFFICES ASSUME NEW f \in fallen'
             PROVE  f.epoch \in Epochs /\ session'[f.player][f.epoch] # NoSession
  BY DEF FallenKnown
<1>1. Types
  BY DEF Known
<1>2. /\ f.player \in Players /\ f.epoch \in Epochs
      /\ session[f.player][f.epoch] # NoSession
  <2>1. CASE f \in fallen
    BY <1>1, <2>1, FallenFields DEF FallenKnown
  <2>2. CASE f \notin fallen
    BY <2>2, FallenCome, SessionFields
  <2> QED
    BY <2>1, <2>2
<1>3. session'[f.player][f.epoch] \in Session
  BY <1>2, SessionsGrow DEF SessionGrew
<1> QED
  BY <1>2, <1>3, SessionFields

(* A fall is not behind its profile yet.                                   *)
LEMMA FallIsUnreleased ==
  ASSUME Known, [Next]_vars, NEW f \in fallen', f \notin fallen
  PROVE  ~Released(f)'
<1>1. PICK p \in Players, e \in Epochs, u \in Coins :
         /\ Fall(p, e, u)
         /\ f.player = p /\ f.epoch = e /\ f.seq = session[p][e].captured + 1
         /\ session[p][e] \in Session /\ session[p][e].state = "playing"
         /\ session[p][e].captured \in Nat
  BY FallenCome
<1>2. Types /\ SessionsKnown /\ OpsKnown
  BY DEF Known, Books
<1>3. /\ session'[p][e].captured = session[p][e].captured /\ session'[p][e].saved = session[p][e].saved
      /\ session'[p][e].op = session[p][e].op
  BY <1>1, <1>2, FallEffect
<1>4. profile' = profile /\ request' = request
  BY <1>1 DEF Fall, engineVars, wireVars
<1>5. /\ session[p][e].saved <= session[p][e].captured
      /\ e = profile[p].epoch => profile[p].commitSeq <= session[p][e].captured
      /\ session[p][e].saved \in Nat /\ profile[p].commitSeq \in Nat
  BY <1>1, <1>2, SessionFields, ProfileFields DEF SessionsKnown
<1>6. session[p][e].op # NoOp => request[session[p][e].op].seq[p] = session[p][e].captured
  BY <1>1, <1>2, SessionFields DEF OpsKnown
<1>7. /\ ~(session'[p][e].saved >= f.seq)
      /\ e = profile'[p].epoch => ~(profile'[p].commitSeq >= f.seq)
      /\ session'[p][e].op # NoOp => ~(request'[session'[p][e].op].seq[p] >= f.seq)
  BY <1>1, <1>3, <1>4, <1>5, <1>6
<1> QED
  BY <1>1, <1>7 DEF Released, IsCurrent

(* The commit that takes a fallen coin from its profile is written.        *)
Settles(f) ==
    /\ IsCurrent(f)
    /\ \/ \E c \in commits : /\ CommitState(c) /\ Writes(c) /\ c.player = f.player
                             /\ c.epoch = f.epoch /\ c.seq >= f.seq
       \/ \E o \in Ops : /\ AppliedTo(o, f.player) /\ request[o].epoch[f.player] = f.epoch
                         /\ request[o].seq[f.player] >= f.seq

LEMMA CurrentWas ==
  ASSUME Known, FallenKnown, [Next]_vars, NEW f \in fallen, IsCurrent(f)'
  PROVE  IsCurrent(f) /\ profile[f.player].commitSeq <= profile'[f.player].commitSeq
<1>1. Types
  BY DEF Known
<1> DEFINE p == f.player
           e == f.epoch
<1>2. p \in Players /\ e \in Epochs /\ session[p][e] # NoSession
  BY <1>1, FallenFields DEF FallenKnown
<1>3. e = profile'[p].epoch
  BY DEF IsCurrent
<1> HIDE DEF p, e
<1>4. e = profile[p].epoch /\ profile[p].commitSeq <= profile'[p].commitSeq
  BY <1>2, <1>3, NewestWas
<1> QED
  BY <1>4 DEF IsCurrent, p, e

LEMMA CommitSettles ==
  ASSUME Known, FallenKnown, [Next]_vars, NEW f \in fallen, ~Released(f), IsCurrent(f)',
         profile'[f.player].commitSeq >= f.seq
  PROVE  Settles(f)
<1>1. Types /\ LeaseKnown
  BY DEF Known, Books
<1> DEFINE p == f.player
<1>2. p \in Players /\ f.seq \in Nat
  BY <1>1, FallenFields
<1>3. IsCurrent(f) /\ profile[p].epoch = f.epoch /\ profile'[p].epoch = f.epoch
  BY CurrentWas DEF IsCurrent
<1>4. ~(profile[p].commitSeq >= f.seq)
  BY <1>3 DEF Released
<1> HIDE DEF p
<1>5. ASSUME NEW s \in Servers, Acquire(p, s) PROVE FALSE
  <2>1. profile'[p].epoch = profile[p].epoch + 1
    BY <1>1, <1>2, <1>5, AcquireEffect
  <2> QED
    BY <1>2, <1>3, <2>1, ProfilesTyped
<1>6. ASSUME NEW c \in commits, c.player = p, Writes(c), CommitState(c) PROVE Settles(f)
  BY <1>3, <1>6 DEF Settles, Writes, Pending, p
<1>7. ASSUME NEW o \in Ops, AppliedTo(o, p) PROVE Settles(f)
  BY <1>2, <1>3, <1>7, AppliedWrites DEF Settles, p
<1> QED
  BY <1>2, <1>4, <1>5, <1>6, <1>7, ProfilesMove DEF p

LEMMA ReleasedWas ==
  ASSUME Known, FallenKnown, [Next]_vars, NEW f \in fallen, ~Released(f), Released(f)'
  PROVE  Settles(f)
<1>1. Types /\ OpsKnown /\ Outcomes /\ Records /\ SessionsKnown
  BY DEF Known, Books
<1> DEFINE p == f.player
           e == f.epoch
<1>2. p \in Players /\ e \in Epochs /\ e \in Nat /\ f.seq \in Nat /\ session[p][e] # NoSession
  BY <1>1, FallenFields DEF FallenKnown
<1>3. session[p][e] \in Session
  BY <1>1, <1>2 DEF Types
<1>4. /\ ~(session[p][e].saved >= f.seq)
      /\ session[p][e].state = "playing" /\ session[p][e].op # NoOp /\ record[session[p][e].op] # "none"
            => ~(request[session[p][e].op].seq[p] >= f.seq)
  BY <1>2 DEF Released, Playing
<1>5. \/ session'[p][e].saved >= f.seq
      \/ IsCurrent(f)' /\ profile'[p].commitSeq >= f.seq
      \/ /\ session'[p][e].state = "playing" /\ session'[p][e].op # NoOp
         /\ record'[session'[p][e].op] # "none" /\ request'[session'[p][e].op].seq[p] >= f.seq
  BY DEF Released, Playing
<1>6. (IsCurrent(f)' /\ profile'[p].commitSeq >= f.seq) => Settles(f)
  BY CommitSettles
<1>7. profile'[p].epoch = e => IsCurrent(f)'
  BY DEF IsCurrent
<1>8. \A o \in Ops : AppliedTo(o, p) /\ request[o].epoch[p] = e /\ request[o].seq[p] >= f.seq
        => Settles(f)
  BY AppliedWrites DEF Settles, IsCurrent
<1> HIDE DEF p, e
<1>9. SessionChanges(p, e)
  BY <1>2, SessionsChange
<1>10. CASE session'[p][e].saved >= f.seq
  <2>1. CASE StateSaved(p, e)
    <3>1. PICK c \in commits :
             /\ session'[p][e].saved = IF session[p][e].saved < c.seq THEN c.seq ELSE session[p][e].saved
             /\ profile'[p].epoch = e /\ profile'[p].commitSeq >= c.seq
      BY <2>1 DEF StateSaved
    <3>2. c.seq >= f.seq /\ c.seq \in Nat
      BY <1>1, <1>4, <1>10, <3>1, CommitFields
    <3>3. profile'[p].commitSeq >= f.seq
      BY <1>2, <3>1, <3>2, ProfilesTyped
    <3> QED
      BY <1>6, <1>7, <3>1, <3>3
  <2>2. CASE OpHeard(p, e)
    <3>1. PICK o \in Ops : \E a \in answers[o] :
            /\ Learn(o, a) /\ session[p][e].op = o
            /\ IF IsApplied(a)
                 THEN session'[p][e].saved = IF session[p][e].saved < request[o].seq[p]
                                               THEN request[o].seq[p] ELSE session[p][e].saved
                 ELSE session'[p][e].saved = session[p][e].saved
      BY <2>2 DEF OpHeard
    <3>2. PICK a \in answers[o] :
            /\ Learn(o, a) /\ session[p][e].op = o
            /\ IF IsApplied(a)
                 THEN session'[p][e].saved = IF session[p][e].saved < request[o].seq[p]
                                               THEN request[o].seq[p] ELSE session[p][e].saved
                 ELSE session'[p][e].saved = session[p][e].saved
      BY <3>1
    <3>3. IsApplied(a) /\ request[o].seq[p] >= f.seq
      BY <1>4, <1>10, <3>2
    <3>4. record[o] # "none" /\ o # NoOp
      BY <1>1, <3>2, <3>3, NoneAssumption DEF Outcomes, AnswerTrue, Learn
    <3>5. session[p][e].state = "playing"
      BY <2>2 DEF OpHeard, Plays
    <3> QED
      BY <1>4, <3>2, <3>3, <3>4, <3>5
  <2>3. CASE SessionNew(p, e)
    BY <1>2, <2>3 DEF SessionNew
  <2>4. CASE SessionEnds(p, e)
    BY <1>3, <1>4, <1>10, <2>4, DoneFields DEF SessionEnds
  <2>5. CASE \/ session'[p][e] = session[p][e] \/ CoinFell(p, e) \/ CoinFound(p, e)
             \/ StateCaptured(p, e) \/ OpSent(p, e)
    BY <1>4, <1>10, <2>5 DEF CoinFell, CoinFound, StateCaptured, OpSent, SameMarks
  <2> QED
    BY <1>9, <2>1, <2>2, <2>3, <2>4, <2>5 DEF SessionChanges
<1>11. CASE /\ session'[p][e].state = "playing" /\ session'[p][e].op # NoOp
            /\ record'[session'[p][e].op] # "none" /\ request'[session'[p][e].op].seq[p] >= f.seq
  <2>1. CASE session'[p][e].op = session[p][e].op /\ session[p][e].state = "playing"
    <3>1. PICK o \in Ops : o = session[p][e].op
      BY <1>3, <1>11, <2>1, SessionFields
    <3>2. /\ Waiting(o) /\ request[o] # NoRequest
          /\ p \in request[o].parties /\ request[o].epoch[p] = e
      BY <1>1, <1>2, <1>11, <2>1, <3>1 DEF OpsKnown, Waiting
    <3>3. request'[o].seq = request[o].seq
      BY <3>2, RequestsKept DEF RequestKept
    <3>4. record[o] = "none" /\ record'[o] # "none" /\ request[o].seq[p] >= f.seq
      BY <1>4, <1>11, <2>1, <3>1, <3>3
    <3>5. AppliedTo(o, p)
      BY <3>2, <3>4, RecordsCome DEF AppliedTo
    <3> QED
      BY <1>8, <3>2, <3>4, <3>5
  <2>2. CASE OpSent(p, e)
    <3>1. PICK o \in Ops : Sent(o) /\ session'[p][e].op = o
      BY <2>2 DEF OpSent
    <3>2. record'[o] = "none"
      BY <1>1, <3>1, RecordsGrow DEF Sent, Records
    <3> QED
      BY <1>11, <3>1, <3>2
  <2>3. CASE SessionNew(p, e)
    BY <1>2, <2>3 DEF SessionNew
  <2>4. CASE SessionEnds(p, e)
    BY <1>11, <2>4, DoneFields DEF SessionEnds
  <2>5. CASE CoinFell(p, e) \/ CoinFound(p, e) \/ StateSaved(p, e)
    BY <2>1, <2>5 DEF CoinFell, CoinFound, StateSaved, SameMarks, Plays
  <2>6. CASE StateCaptured(p, e) \/ OpHeard(p, e)
    BY <1>11, <2>6 DEF StateCaptured, OpHeard
  <2>7. CASE session'[p][e] = session[p][e]
    BY <1>11, <2>1, <2>7
  <2> QED
    BY <1>9, <2>2, <2>3, <2>4, <2>5, <2>6, <2>7 DEF SessionChanges
<1> QED
  BY <1>5, <1>6, <1>10, <1>11 DEF p, e

LEMMA CountsWas ==
  ASSUME Known, FallenKnown, [Next]_vars, NEW f \in fallen, Counts(f)'
  PROVE  Counts(f)
<1>1. CASE IsCurrent(f)'
  BY <1>1, CurrentWas DEF Counts
<1>2. CASE Released(f)'
  BY <1>2, ReleasedWas DEF Counts, Settles
<1> QED
  BY <1>1, <1>2 DEF Counts


(* Nobody gets a coin that lies on the ground from an operation.           *)
LEMMA NoneGetsFallen ==
  ASSUME Known, Places, NEW f \in fallen, Counts(f), NEW o \in Ops, NEW q \in Players, AppliedTo(o, q)
  PROVE  f.unit \notin request[o].gets[q]
<1>1. FallenLeft /\ FallenOwned
  BY DEF Places
<1> SUFFICES ASSUME f.unit \in request[o].gets[q] PROVE FALSE
  OBVIOUS
<1>2. CASE \E y \in Players : AppliedTo(o, y) /\ f.unit \in request[o].gives[y] /\ Owns(y, f.unit)
  <2>1. PICK y \in Players : AppliedTo(o, y) /\ f.unit \in request[o].gives[y] /\ Owns(y, f.unit)
    BY <1>2
  <2>2. y = f.player /\ IsCurrent(f)
    BY <1>1, <2>1 DEF FallenOwned, Counts
  <2>3. Live(o) /\ y \in request[o].parties
    BY <2>1, AppliedWrites DEF AppliedTo
  <2> QED
    BY <1>1, <2>1, <2>2, <2>3 DEF FallenLeft
<1>3. CASE request[o].claim \in Ops /\ Lies(request[o].claim, f.unit)
  BY <1>1, <1>3 DEF FallenOwned
<1> QED
  BY <1>2, <1>3, GetsFrom

(* A coin is found once.                                                   *)
LEMMA FoundIsOther ==
  ASSUME FallenOwned, NEW f \in fallen, f \in fallen', Counts(f),
         NEW p, NEW e, NEW g \in fallen, Find(p, e, g)
  PROVE  g.unit # f.unit
<1>1. Counts(g)
  BY FoundIsFree
<1>2. g # f
  BY DEF Find
<1> QED
  BY <1>1, <1>2 DEF FallenOwned

LEMMA FallenOwnerWas ==
  ASSUME Known, Places, [Next]_vars, NEW f \in fallen, f \in fallen', Counts(f),
         NEW q \in Players, Owns(q, f.unit)'
  PROVE  Owns(q, f.unit)
<1>1. FallenOwned
  BY DEF Places
<1>2. ASSUME NEW e \in Epochs, NEW g \in fallen, Find(q, e, g), g.unit = f.unit PROVE FALSE
  BY <1>1, <1>2, FoundIsOther
<1>3. ASSUME NEW o \in Ops, AppliedTo(o, q), f.unit \in request[o].gets[q] PROVE FALSE
  BY <1>3, NoneGetsFallen
<1> QED
  BY <1>2, <1>3, OwnsWas

(* A unit of an operation that was just sent, a player owns or it lies on  *)
(* the ground.                                                             *)
LEMMA SentGets ==
  ASSUME Known, [Next]_vars, NEW o \in Ops, Sent(o), Live(o)', NEW p \in request'[o].parties,
         NEW u \in request'[o].gets[p]
  PROVE  (\E q \in Players : q # p /\ Owns(q, u)) \/ \E d \in Ops : Lies(d, u)
<1>1. Types /\ Tokens
  BY DEF Known, Books
<1>2. /\ request'[o] \in Request
      /\ Shape(request'[o].kind, request'[o].server, request'[o].parties,
               request'[o].gives, request'[o].gets, request'[o].claim)
  BY DEF Sent
<1>3. CASE request'[o].kind = "trade"
  <2>1. PICK a, b \in Players : /\ a # b /\ request'[o].parties = {a, b}
          /\ request'[o].gets[a] = request'[o].gives[b] /\ request'[o].gets[b] = request'[o].gives[a]
    BY <1>2, <1>3 DEF Shape
  <2>2. PICK q \in Players : q # p /\ q \in request'[o].parties /\ u \in request'[o].gives[q]
    BY <2>1
  <2>3. PICK e \in Epochs : /\ e = profile[q].epoch /\ Playing(q, e)
                            /\ request'[o].gives[q] \subseteq session[q][e].goods
    BY <2>2, SentHolds
  <2>4. Owns(q, u)
    BY <2>2, <2>3 DEF Owns, Has
  <2> QED
    BY <2>2, <2>4
<1>4. CASE request'[o].kind = "drop"
  BY <1>2, <1>4 DEF Shape
<1>5. CASE request'[o].kind = "pickup"
  <2>1. /\ request'[o].claim \in Ops
        /\ \E a \in Players : request'[o].parties = {a}
                              /\ request'[o].gets[a] = drops[request'[o].claim].goods
    BY <1>2, <1>5 DEF Shape
  <2>2. u \in drops[request'[o].claim].goods
    BY <2>1
  <2>3. drops'[request'[o].claim].status = "public"
    BY <2>1, NoneAssumption DEF Live
  <2>4. drops' = drops
    <3>1. request'[o] # request[o]
      BY <1>2, RequestFields DEF Sent
    <3>2. CASE Sends
      BY <3>2, SendLeaves DEF Sends, engineVars
    <3>3. CASE Learns
      BY <3>3 DEF Learns, Learn, engineVars
    <3> QED
      BY <3>1, <3>2, <3>3, Frames
  <2> QED
    BY <2>1, <2>2, <2>3, <2>4 DEF Lies
<1> QED
  BY <1>2, <1>3, <1>4, <1>5, RequestFields DEF OperationKinds

Left(f) ==
    /\ ~Has(f.player, f.epoch, f.unit)
    /\ \A c \in commits : c.player = f.player /\ c.epoch = f.epoch /\ c.seq >= f.seq => f.unit \notin c.goods
    /\ \A o \in Ops : Live(o) /\ f.player \in request[o].parties =>
         /\ f.unit \notin request[o].gives[f.player]
         /\ request[o].seq[f.player] >= f.seq => f.unit \notin request[o].goods[f.player]

LEMMA FallIsLeft ==
  ASSUME Known, Places, [Next]_vars, NEW f \in fallen', f \notin fallen, IsCurrent(f)'
  PROVE  Left(f)'
<1>1. PICK p \in Players, e \in Epochs, u \in Coins :
         /\ Fall(p, e, u)
         /\ f.unit = u /\ f.player = p /\ f.epoch = e /\ f.seq = session[p][e].captured + 1
         /\ session[p][e] \in Session /\ session[p][e].state = "playing" /\ u \in session[p][e].goods
         /\ session[p][e].captured \in Nat
  BY FallenCome
<1>2. Types /\ CommitsKnown /\ WaitsOrDone /\ PartiesKnown /\ Escrow
  BY DEF Known, Books, Places
<1>3. /\ profile' = profile /\ record' = record /\ drops' = drops
      /\ commits' = commits /\ request' = request
  BY <1>1 DEF Fall, engineVars, wireVars
<1>4. session'[p][e].goods = session[p][e].goods \ {u} /\ session'[p][e].op = session[p][e].op
  BY <1>1, <1>2, FallEffect
<1>5. e = profile[p].epoch
  BY <1>1, <1>3 DEF IsCurrent
<1>6. Playing(p, e)
  BY <1>1, SessionFields DEF Playing
<1>7. u \notin Owed(p, e)
  BY <1>1, <1>2, <1>5, <1>6 DEF Escrow
<1>8. ~Has(p, e, u)'
  <2>1. Owed(p, e)' = Owed(p, e)
    BY <1>3, <1>4 DEF Owed
  <2> QED
    BY <1>4, <1>7, <2>1 DEF Has
<1>9. ASSUME NEW c \in commits', c.player = p, c.epoch = e PROVE ~(c.seq >= f.seq)
  <2>1. c \in commits
    BY <1>3
  <2>2. c.seq <= session[p][e].captured /\ c.seq \in Nat
    BY <1>1, <1>2, <1>9, <2>1, CommitFields DEF CommitsKnown
  <2> QED
    BY <1>1, <2>2
<1>10. ASSUME NEW o \in Ops, Live(o)', p \in request'[o].parties
       PROVE  u \notin request'[o].gives[p] /\ ~(request'[o].seq[p] >= f.seq)
  <2>1. Waiting(o) /\ record[o] = "none" /\ p \in request[o].parties /\ request[o].epoch[p] = e
    BY <1>3, <1>5, <1>10 DEF Live, Waiting
  <2>2. session[p][e].op = o
    BY <1>1, <1>2, <2>1 DEF WaitsOrDone
  <2>3. Owed(p, e) = request[o].gives[p]
    BY <2>1, <2>2, NoneAssumption DEF Owed
  <2>4. request[o].seq[p] <= session[p][e].captured /\ request[o].seq[p] \in Nat
    BY <1>1, <1>2, <2>1, PartyFields DEF PartiesKnown, Waiting
  <2> QED
    BY <1>1, <1>3, <1>7, <2>3, <2>4
<1> QED
  BY <1>1, <1>8, <1>9, <1>10 DEF Left

LEMMA LeftStays ==
  ASSUME Known, Places, [Next]_vars, NEW f \in fallen, f \in fallen', IsCurrent(f)'
  PROVE  Left(f)'
<1>1. Types /\ FallenKnown /\ FallenLeft /\ FallenOwned
  BY DEF Known, Places
<1>2. IsCurrent(f) /\ Counts(f)
  BY <1>1, CurrentWas DEF Counts
<1>3. Left(f)
  BY <1>1, <1>2 DEF FallenLeft, Left
<1> DEFINE p == f.player
           e == f.epoch
           u == f.unit
<1>4. p \in Players /\ e \in Epochs /\ session[p][e] # NoSession /\ f.seq \in Nat
  BY <1>1, FallenFields DEF FallenKnown
<1>5. e = profile[p].epoch /\ e = profile'[p].epoch
  BY <1>2 DEF IsCurrent
<1>6. ~Has(p, e, u)
  BY <1>3 DEF Left
<1>7. \A q \in Players : Owns(q, u) => q = p
  BY <1>1, <1>2 DEF FallenOwned
<1>8. \A d \in Ops : ~Lies(d, u)
  BY <1>1, <1>2 DEF FallenOwned
<1>9. ASSUME Has(p, e, u)' PROVE FALSE
  <2>1. ASSUME NEW g \in fallen, Find(p, e, g), g.unit = u PROVE FALSE
    BY <1>1, <1>2, <2>1, FoundIsOther
  <2>2. ASSUME NEW o \in Ops, AppliedTo(o, p), u \in request[o].gets[p] PROVE FALSE
    BY <1>2, <1>4, <2>2, NoneGetsFallen
  <2>3. ~SessionNew(p, e)
    BY <1>4 DEF SessionNew
  <2> QED
    BY <1>4, <1>5, <1>6, <1>9, <2>1, <2>2, <2>3, HasWas
<1>10. ASSUME NEW c \in commits', c.player = p, c.epoch = e, c.seq >= f.seq, u \in c.goods PROVE FALSE
  <2>1. CASE c \in commits
    BY <1>3, <1>10, <2>1 DEF Left
  <2>2. CASE c \notin commits
    <3>1. Capture(p, e) /\ c = CommitOf(p, e)
      BY <1>10, <2>2, CommitsCome
    <3>2. c.goods = session[p][e].goods
      BY <1>1, <1>4, <3>1, CaptureEffect
    <3>3. Playing(p, e)
      BY <3>1 DEF Capture, Free
    <3> QED
      BY <1>6, <1>10, <3>2, <3>3 DEF Has
  <2> QED
    BY <2>1, <2>2
<1>11. ASSUME NEW o \in Ops, Live(o)', p \in request'[o].parties
       PROVE  /\ u \notin request'[o].gives[p]
              /\ request'[o].seq[p] >= f.seq => u \notin request'[o].goods[p]
  <2>1. CASE request[o] # NoRequest
    <3>1. Live(o) /\ RequestKept(o)
      BY <1>11, <2>1, LiveWas
    <3>2. /\ request'[o].parties = request[o].parties /\ request'[o].gives = request[o].gives
          /\ request'[o].seq = request[o].seq /\ request'[o].goods = request[o].goods
      BY <3>1 DEF RequestKept
    <3>3. /\ u \notin request[o].gives[p]
          /\ request[o].seq[p] >= f.seq => u \notin request[o].goods[p]
      BY <1>3, <1>11, <3>1, <3>2 DEF Left
    <3> QED
      BY <3>2, <3>3
  <2>2. CASE request[o] = NoRequest
    <3>1. Sent(o)
      BY <1>11, <2>2, RequestsCome DEF Live, Waiting
    <3>2. /\ Playing(p, e)
          /\ request'[o].gives[p] \subseteq session[p][e].goods
          /\ request'[o].goods[p] = (session[p][e].goods \ request'[o].gives[p]) \cup request'[o].gets[p]
      <4>1. PICK d \in Epochs : /\ d = profile[p].epoch /\ Playing(p, d)
              /\ request'[o].gives[p] \subseteq session[p][d].goods
              /\ request'[o].goods[p] = (session[p][d].goods \ request'[o].gives[p])
                                          \cup request'[o].gets[p]
        BY <1>11, <3>1, SentHolds
      <4> QED
        BY <1>5, <4>1
    <3>3. u \notin session[p][e].goods
      BY <1>6, <3>2 DEF Has
    <3>4. u \notin request'[o].gets[p]
      BY <1>7, <1>8, <1>11, <3>1, SentGets
    <3> QED
      BY <3>2, <3>3, <3>4
  <2> QED
    BY <2>1, <2>2
<1> QED
  BY <1>9, <1>10, <1>11 DEF Left

LEMMA FallenLeftStep == ASSUME Known, Places, [Next]_vars PROVE FallenLeft'
<1> SUFFICES ASSUME NEW f \in fallen', IsCurrent(f)' PROVE Left(f)'
  BY DEF FallenLeft, Left
<1> QED
  BY FallIsLeft, LeftStays


(* Once the commit that takes it is written, nobody owns a coin on the     *)
(* ground.                                                                 *)
LEMMA SettledLeaves ==
  ASSUME Known', FallenLeft', NEW f \in fallen', IsCurrent(f)',
         profile'[f.player].commitSeq >= f.seq, f.unit \notin profile'[f.player].goods
  PROVE  ~Owns(f.player, f.unit)'
<1>1. Types' /\ PartiesKnown'
  BY DEF Known, Books
<1> DEFINE p == f.player
           u == f.unit
<1>2. f \in Fallen /\ profile' \in [Players -> Profile]
  BY <1>1 DEF Types
<1>3. p \in Players /\ f.seq \in Nat
  BY <1>2 DEF Fallen
<1>4. profile'[p].commitSeq \in Nat
  BY <1>2, <1>3 DEF Profile
<1>5. Left(f)'
  BY DEF FallenLeft, Left
<1>6. ASSUME NEW c \in commits', c.player = p, Pending(c)', u \in c.goods PROVE FALSE
  <2>1. c \in Commit
    BY <1>1 DEF Types
  <2>2. c.epoch = f.epoch /\ c.seq > profile'[p].commitSeq /\ c.seq \in Nat
    BY <1>6, <2>1 DEF Pending, IsCurrent, Commit
  <2>3. c.seq >= f.seq
    BY <1>3, <1>4, <2>2
  <2> QED
    BY <1>5, <1>6, <2>2, <2>3 DEF Left
<1>7. ASSUME NEW e \in Epochs, e = profile'[p].epoch, Has(p, e, u)' PROVE FALSE
  BY <1>5, <1>7 DEF Left, IsCurrent
<1>8. ASSUME NEW o \in Ops, Live(o)', p \in request'[o].parties, Brings(o, p, u)' PROVE FALSE
  <2>1. request'[o] \in Request
    BY <1>1, <1>8 DEF Types, Live, Waiting
  <2>2. request'[o].seq[p] \in Nat /\ request'[o].seq[p] > profile'[p].commitSeq
    BY <1>3, <1>8, <2>1, RequestFields DEF Live
  <2>3. request'[o].seq[p] >= f.seq
    BY <1>3, <1>4, <2>2
  <2> QED
    BY <1>5, <1>8, <2>3 DEF Left, Brings
<1> QED
  BY <1>6, <1>7, <1>8 DEF Owns

LEMMA SettledIsFree ==
  ASSUME Known, Places, [Next]_vars, NEW f \in fallen, f \in fallen', Settles(f),
         NEW q \in Players, Owns(q, f.unit)'
  PROVE  FALSE
<1>1. Types /\ FallenLeft /\ FallenOwned
  BY DEF Known, Places
<1>2. IsCurrent(f) /\ Counts(f)
  BY DEF Settles, Counts
<1> DEFINE p == f.player
           u == f.unit
<1>3. q = p
  BY <1>1, <1>2, FallenOwnerWas DEF FallenOwned
<1>4. profile'[p].epoch = f.epoch /\ profile'[p].commitSeq >= f.seq /\ u \notin profile'[p].goods
  <2>1. CASE \E c \in commits : Writes(c) /\ c.player = p /\ c.epoch = f.epoch /\ c.seq >= f.seq
    BY <1>1, <1>2, <2>1 DEF Writes, FallenLeft
  <2>2. CASE \E o \in Ops : /\ AppliedTo(o, p) /\ request[o].epoch[p] = f.epoch
                            /\ request[o].seq[p] >= f.seq
    <3>1. PICK o \in Ops : /\ AppliedTo(o, p) /\ request[o].epoch[p] = f.epoch
                           /\ request[o].seq[p] >= f.seq
      BY <2>2
    <3>2. /\ profile'[p].epoch = request[o].epoch[p] /\ profile'[p].commitSeq = request[o].seq[p]
          /\ profile'[p].goods = request[o].goods[p] /\ Live(o)
      BY <3>1, AppliedWrites
    <3> QED
      BY <1>1, <1>2, <3>1, <3>2 DEF FallenLeft, AppliedTo
  <2> QED
    BY <2>1, <2>2 DEF Settles
<1>5. IsCurrent(f)'
  BY <1>4 DEF IsCurrent
<1>6. Known' /\ FallenLeft'
  BY KnownStep, FallenLeftStep
<1> QED
  BY <1>3, <1>4, <1>5, <1>6, SettledLeaves

(* The unit of a coin that just fell is not that of another one.           *)
LEMMA FallenApart ==
  ASSUME Known, Places, [Next]_vars, NEW f \in fallen', f \notin fallen, Counts(f)',
         NEW g \in fallen, Counts(g)', g.unit = f.unit
  PROVE  FALSE
<1>1. Types /\ FallenKnown /\ FallenLeft /\ FallenOwned
  BY DEF Known, Places
<1>2. PICK p \in Players, e \in Epochs, u \in Coins :
        /\ Fall(p, e, u) /\ f.unit = u /\ f.player = p /\ f.epoch = e
        /\ session[p][e] \in Session /\ session[p][e].state = "playing" /\ u \in session[p][e].goods
  BY FallenCome
<1>3. IsCurrent(f)'
  BY FallIsUnreleased DEF Counts
<1>4. e = profile[p].epoch
  BY <1>2, <1>3 DEF IsCurrent, Fall, engineVars
<1>5. Has(p, e, u)
  BY <1>2, SessionFields DEF Has, Playing
<1>6. Owns(p, u)
  BY <1>4, <1>5 DEF Owns
<1>7. Counts(g)
  BY <1>1, CountsWas
<1>8. p = g.player /\ IsCurrent(g)
  BY <1>1, <1>2, <1>6, <1>7 DEF FallenOwned, Counts
<1>9. g.epoch = e
  BY <1>4, <1>8 DEF IsCurrent
<1> QED
  BY <1>1, <1>2, <1>5, <1>8, <1>9 DEF FallenLeft

LEMMA FallenOwnedStep == ASSUME Known, Places, [Next]_vars PROVE FallenOwned'
<1> SUFFICES ASSUME NEW f \in fallen', Counts(f)'
             PROVE  /\ \A q \in Players : Owns(q, f.unit)' => q = f.player /\ ~Released(f)'
                    /\ \A d \in Ops : ~Lies(d, f.unit)'
                    /\ \A g \in fallen' : Counts(g)' /\ g.unit = f.unit => g = f
  BY DEF FallenOwned
<1>1. Types /\ OneOwner /\ OneLies /\ FallenKnown /\ FallenLeft /\ FallenOwned
  BY DEF Known, Places
<1>2. CASE f \in fallen
  <2>1. Counts(f)
    BY <1>1, <1>2, CountsWas
  <2>2. ASSUME NEW q \in Players, Owns(q, f.unit)' PROVE q = f.player /\ ~Released(f)'
    <3>1. Owns(q, f.unit)
      BY <1>2, <2>1, <2>2, FallenOwnerWas
    <3>2. q = f.player /\ ~Released(f)
      BY <1>1, <1>2, <2>1, <3>1 DEF FallenOwned
    <3>3. ASSUME Released(f)' PROVE FALSE
      <4>1. Settles(f)
        BY <1>1, <1>2, <3>2, <3>3, ReleasedWas
      <4> QED
        BY <1>2, <2>2, <4>1, SettledIsFree
    <3> QED
      BY <3>2, <3>3
  <2>3. ASSUME NEW d \in Ops, Lies(d, f.unit)' PROVE FALSE
    <3>1. ~Lies(d, f.unit)
      BY <1>1, <1>2, <2>1 DEF FallenOwned
    <3>2. PICK p \in Players : AppliedTo(d, p) /\ f.unit \in request[d].gives[p]
      BY <2>3, <3>1, LiesWas
    <3>3. Owns(p, f.unit)
      BY <3>2, GiverOwns
    <3>4. p = f.player /\ IsCurrent(f)
      BY <1>1, <1>2, <2>1, <3>3 DEF FallenOwned, Counts
    <3>5. Live(d) /\ p \in request[d].parties
      BY <3>2, AppliedWrites DEF AppliedTo
    <3> QED
      BY <1>1, <1>2, <3>2, <3>4, <3>5 DEF FallenLeft
  <2>4. ASSUME NEW g \in fallen', Counts(g)', g.unit = f.unit PROVE g = f
    <3>1. CASE g \in fallen
      <4>1. Counts(g)
        BY <1>1, <2>4, <3>1, CountsWas
      <4> QED
        BY <1>1, <1>2, <2>1, <2>4, <3>1, <4>1 DEF FallenOwned
    <3>2. CASE g \notin fallen
      BY <1>2, <2>4, <3>2, FallenApart
    <3> QED
      BY <3>1, <3>2
  <2> QED
    BY <2>2, <2>3, <2>4
<1>3. CASE f \notin fallen
  <2>1. PICK p \in Players, e \in Epochs, u \in Coins :
          /\ Fall(p, e, u) /\ f = CoinOf(p, e, u) /\ f.unit = u /\ f.player = p /\ f.epoch = e
          /\ session[p][e] \in Session /\ session[p][e].state = "playing" /\ u \in session[p][e].goods
    BY <1>3, FallenCome
  <2>2. ~Released(f)'
    BY <1>3, FallIsUnreleased
  <2>3. e = profile[p].epoch
    BY <2>1, <2>2 DEF Counts, IsCurrent, Fall, engineVars
  <2>4. Owns(p, u) /\ u \in Units
    <3>1. Has(p, e, u)
      BY <2>1, SessionFields DEF Has, Playing
    <3> QED
      BY <2>3, <3>1 DEF Owns, Units
  <2>5. fallen' = fallen \cup {f}
    BY <1>1, <2>1, FallEffect
  <2>6. record' = record
    BY <2>1 DEF Fall, engineVars
  <2>7. ASSUME NEW o \in Ops, NEW q \in Players, AppliedTo(o, q) PROVE FALSE
    BY <2>6, <2>7, AppliedWrites
  <2>8. ASSUME NEW q \in Players, Owns(q, u)' PROVE q = p
    <3>1. ASSUME NEW d \in Epochs, NEW g \in fallen, Find(q, d, g) PROVE FALSE
      BY <2>5, <3>1 DEF Find
    <3>2. Owns(q, u)
      BY <2>7, <2>8, <3>1, OwnsWas
    <3> QED
      BY <1>1, <2>4, <3>2 DEF OneOwner
  <2>9. ASSUME NEW d \in Ops, Lies(d, u)' PROVE FALSE
    <3>1. Lies(d, u)
      BY <2>7, <2>9, LiesWas
    <3> QED
      BY <1>1, <2>4, <3>1 DEF OneLies
  <2>10. ASSUME NEW g \in fallen', Counts(g)', g.unit = f.unit PROVE g = f
    <3>1. CASE g \in fallen
      BY <1>3, <2>10, <3>1, FallenApart
    <3> QED
      BY <2>5, <3>1
  <2> QED
    BY <2>1, <2>2, <2>8, <2>9, <2>10
<1> QED
  BY <1>2, <1>3

-----------------------------------------------------------------------------
(***************************************************************************)
(* The invariant holds.                                                    *)
(***************************************************************************)
LEMMA InitPlaces == Init => Places
<1> SUFFICES ASSUME Init PROVE Places
  OBVIOUS
<1>1. /\ \A p \in Players : profile[p].epoch = 0 /\ profile[p].goods = InitialGoods[p]
      /\ \A p \in Players, e \in Epochs : session[p][e] = NoSession
      /\ \A o \in Ops : drops[o] = NoDrop /\ request[o] = NoRequest
      /\ commits = {} /\ fallen = {}
  BY DEF Init
<1>2. \A p \in Players, u \in Units : Owns(p, u) => u \in InitialGoods[p]
  BY <1>1 DEF Owns, Has, Playing, Live, Waiting
<1>3. \A d \in Ops, u \in Units : ~Lies(d, u)
  <2>1. NoDrop.status # "public"
    BY DEF NoDrop
  <2> QED
    BY <1>1, <2>1 DEF Lies
<1>4. OneOwner
  BY <1>2, GoodsAssumption DEF OneOwner
<1>5. OneLies
  BY <1>3 DEF OneLies
<1>6. Escrow
  BY <1>1 DEF Escrow, Playing
<1>7. FallenKnown /\ FallenLeft /\ FallenOwned
  BY <1>1 DEF FallenKnown, FallenLeft, FallenOwned
<1> QED
  BY <1>4, <1>5, <1>6, <1>7 DEF Places

LEMMA PlacesStep == ASSUME Known, Places, [Next]_vars PROVE Places'
<1>1. OneOwner' /\ OneLies' /\ Escrow'
  BY OneOwnerStep, OneLiesStep, EscrowStep
<1>2. FallenKnown' /\ FallenLeft' /\ FallenOwned'
  BY FallenKnownStep, FallenLeftStep, FallenOwnedStep DEF Places
<1> QED
  BY <1>1, <1>2 DEF Places

LEMMA AlwaysPlaces == Spec => [](Known /\ Places)
<1>1. Init => Places
  BY InitPlaces
<1>2. Known /\ Places /\ [Next]_vars => Places'
  BY PlacesStep
<1> QED
  BY <1>1, <1>2, AlwaysKnown, PTL DEF Spec

(* No unit has two holders in the database, whatever is crashed, retried,  *)
(* late or taken over: what a profile, a public world drop, a commit that  *)
(* may still be written and the newest session of each player hold are     *)
(* apart.                                                                  *)
THEOREM UnitsHaveOneHolder == Spec => []OneHolder
<1>1. ASSUME Places PROVE OneHolder
  <2> SUFFICES ASSUME NEW u \in Units PROVE Cardinality(Holders(u)) <= 1
    BY DEF OneHolder
  <2>1. OneOwner /\ OneLies
    BY <1>1 DEF Places
  <2>2. ASSUME NEW x \in Holders(u), NEW y \in Holders(u) PROVE x = y
    <3>1. \A z \in Holders(u) : (z \in Players /\ Owns(z, u)) \/ (z \in Ops /\ Lies(z, u))
      BY DEF Holders, Owns, Lies
    <3> QED
      BY <2>1, <3>1 DEF OneOwner, OneLies
  <2>3. CASE Holders(u) = {}
    BY <2>3, FS_EmptySet
  <2>4. ASSUME NEW x \in Holders(u) PROVE Cardinality(Holders(u)) <= 1
    <3>1. Holders(u) = {x}
      BY <2>2
    <3> QED
      BY <3>1, FS_Singleton
  <2> QED
    BY <2>3, <2>4
<1> QED
  BY <1>1, AlwaysPlaces, PTL

(* A unit passes from one profile to another only in a trade the engine    *)
(* applies, and that step writes what both committed.                      *)
THEOREM TradesAtOnce == Spec => TradeAtOnce
<1> DEFINE Traded == \A p, q \in Players : \A u \in Units :
               p # q /\ u \in profile[p].goods /\ u \in profile'[q].goods =>
                  \E o \in Ops : /\ record[o] = "none" /\ record'[o] = "kept"
                                 /\ {p, q} \subseteq request[o].parties
                                 /\ \A x \in {p, q} : profile'[x].goods = request[o].goods[x]
<1>1. ASSUME Known, Places, [Next]_vars PROVE Traded
  <2> SUFFICES ASSUME NEW p \in Players, NEW q \in Players, NEW u \in Units,
                      p # q, u \in profile[p].goods, u \in profile'[q].goods
               PROVE  \E o \in Ops : /\ record[o] = "none" /\ record'[o] = "kept"
                                     /\ {p, q} \subseteq request[o].parties
                                     /\ \A x \in {p, q} : profile'[x].goods = request[o].goods[x]
    OBVIOUS
  <2>1. OneOwner /\ OneLies
    BY <1>1 DEF Places
  <2>2. Owns(p, u)
    BY DEF Owns
  <2>3. ~Owns(q, u)
    BY <2>1, <2>2 DEF OneOwner
  <2>4. PICK o \in Ops : AppliedTo(o, q) /\ u \in request[o].gets[q]
    BY <1>1, <2>3, GoodsWereOwned
  <2>5. PICK y \in Players : /\ request[o].parties = {q, y} /\ AppliedTo(o, y) /\ Owns(y, u)
    BY <1>1, <2>1, <2>2, <2>4, GetsFrom DEF OneLies
  <2>6. y = p
    BY <2>1, <2>2, <2>5 DEF OneOwner
  <2> QED
    BY <1>1, <2>4, <2>5, <2>6, AppliedWrites
<1>2. ASSUME Known, Places, [Next]_vars PROVE [Traded]_vars
  BY <1>1, <1>2
<1> QED
  BY <1>2, AlwaysPlaces, PTL DEF Spec, TradeAtOnce


-----------------------------------------------------------------------------
(***************************************************************************)
(* Stacks: they never fall, so what the newest session and what it sent    *)
(* hold are the stacks of the profile.                                     *)
(***************************************************************************)
SameStacks(S, T) == S \cap Stacks = T \cap Stacks

StacksSent == \A p \in Players : \A c \in commits :
    c.player = p /\ Pending(c) => SameStacks(c.goods, profile[p].goods)

StacksHeld == \A p \in Players, e \in Epochs : e = profile[p].epoch /\ Playing(p, e) =>
    SameStacks(session[p][e].goods \cup Owed(p, e), profile[p].goods)

StacksJoined == \A p \in Players, o \in Ops : Live(o) /\ p \in request[o].parties =>
    /\ request[o].gives[p] \cap Stacks \subseteq profile[p].goods
    /\ SameStacks(request[o].goods[p], (profile[p].goods \ request[o].gives[p]) \cup request[o].gets[p])

(* Each stack is in a profile or in a world drop that nobody claimed.      *)
Kept(u) ==
    \/ \E p \in Players : u \in profile[p].goods
    \/ \E d \in Ops : drops[d].status \in {"public", "expired"} /\ u \in drops[d].goods

StackBooks == StacksSent /\ StacksHeld /\ StacksJoined /\ \A u \in Stacks : Kept(u)

(* Only a joint commit changes the stacks of a profile.                    *)
LEMMA StacksStay ==
  ASSUME Known, StacksSent, [Next]_vars, NEW p \in Players, \A o \in Ops : ~AppliedTo(o, p)
  PROVE  SameStacks(profile'[p].goods, profile[p].goods)
<1>1. Types
  BY DEF Known
<1>2. CASE profile'[p] = profile[p]
  BY <1>2 DEF SameStacks
<1>3. ASSUME NEW s \in Servers, Acquire(p, s) PROVE SameStacks(profile'[p].goods, profile[p].goods)
  <2>1. profile'[p].goods = profile[p].goods
    BY <1>1, <1>3, AcquireEffect
  <2> QED
    BY <2>1 DEF SameStacks
<1>4. ASSUME NEW c \in commits, c.player = p, Writes(c)
      PROVE  SameStacks(profile'[p].goods, profile[p].goods)
  BY <1>4 DEF StacksSent, Writes
<1> QED
  BY <1>2, <1>3, <1>4, ProfilesMove

LEMMA StacksSentStep ==
  ASSUME Known, StacksSent, StacksHeld, [Next]_vars
  PROVE  StacksSent'
<1> SUFFICES ASSUME NEW p \in Players, NEW c \in commits', c.player = p, Pending(c)'
             PROVE  SameStacks(c.goods, profile'[p].goods)
  BY DEF StacksSent
<1>1. Types /\ WaitsOrDone
  BY DEF Known, Books
<1>2. CASE c \in commits
  <2>1. Pending(c)
    BY <1>2, PendingWas
  <2>2. SameStacks(c.goods, profile[p].goods)
    BY <1>2, <2>1 DEF StacksSent
  <2>3. ASSUME NEW o \in Ops, AppliedTo(o, p) PROVE FALSE
    <3>1. /\ Live(o) /\ profile[p].epoch = request[o].epoch[p]
          /\ profile'[p].commitSeq = request[o].seq[p] /\ request[o].seq[p] \in Nat
      BY <2>3, AppliedWrites
    <3>2. c.seq < request[o].seq[p]
      BY <1>1, <1>2, <2>1, <2>3, <3>1 DEF WaitsOrDone, Live, AppliedTo, Pending
    <3>3. c.seq > request[o].seq[p] /\ c.seq \in Nat
      BY <1>1, <1>2, <3>1, CommitFields DEF Pending
    <3> QED
      BY <3>1, <3>2, <3>3
  <2> QED
    BY <2>2, <2>3, StacksStay DEF SameStacks
<1>3. CASE c \notin commits
  <2>1. PICK q \in Players, e \in Epochs :
          /\ Capture(q, e) /\ c = CommitOf(q, e) /\ c.player = q /\ c.epoch = e
          /\ session[q][e] \in Session /\ session[q][e].state = "playing" /\ session[q][e].op = NoOp
    BY <1>3, CommitsCome
  <2>2. q = p /\ c.goods = session[p][e].goods
    BY <1>1, <2>1, CaptureEffect
  <2>3. profile' = profile
    BY <2>1 DEF Capture, engineVars
  <2>4. e = profile[p].epoch /\ Playing(p, e)
    BY <2>1, <2>2, <2>3, SessionFields DEF Pending, Playing
  <2>5. Owed(p, e) = {}
    BY <2>1, <2>2 DEF Owed
  <2>6. SameStacks(session[p][e].goods \cup Owed(p, e), profile[p].goods)
    BY <2>4 DEF StacksHeld
  <2> QED
    BY <2>2, <2>3, <2>5, <2>6 DEF SameStacks
<1> QED
  BY <1>2, <1>3

LEMMA StacksHeldStep ==
  ASSUME Known, Places, StackBooks, [Next]_vars
  PROVE  StacksHeld'
<1> SUFFICES ASSUME NEW p \in Players, NEW e \in Epochs, e = profile'[p].epoch, Playing(p, e)'
             PROVE  SameStacks(session'[p][e].goods \cup Owed(p, e)', profile'[p].goods)
  BY DEF StacksHeld
<1>1. Types /\ Escrow /\ StacksSent /\ StacksHeld /\ StacksJoined /\ WaitsOrDone /\ FallenOwned
  BY DEF Known, Books, Places, StackBooks
<1>2. CASE SessionNew(p, e)
  <2>1. /\ profile'[p].goods = profile[p].goods /\ session'[p][e].goods = profile[p].goods
        /\ session'[p][e].op = NoOp
    BY <1>1, <1>2, NewSessionIs
  <2>2. Owed(p, e)' = {}
    BY <2>1 DEF Owed
  <2> QED
    BY <2>1, <2>2 DEF SameStacks
<1>3. CASE e = profile[p].epoch /\ Playing(p, e) /\ session[p][e] \in Session /\ ~SessionNew(p, e)
  <2> DEFINE S == session[p][e].goods
             T == session'[p][e].goods
             B == Owed(p, e)
             C == Owed(p, e)'
             G == profile[p].goods
             H == profile'[p].goods
  <2>1. SameStacks(S \cup B, G) /\ S \cap B = {}
    BY <1>1, <1>3 DEF StacksHeld, Escrow
  <2>2. ASSUME NEW o \in Ops, AppliedTo(o, p) PROVE SameStacks(T \cup C, H)
    <3>1. /\ Live(o) /\ record[o] = "none" /\ record'[o] = "kept"
          /\ profile[p].epoch = request[o].epoch[p] /\ H = request[o].goods[p]
          /\ session' = session /\ request' = request /\ p \in request[o].parties
      BY <2>2, AppliedWrites DEF AppliedTo
    <3>2. session[p][e].op = o
      BY <1>1, <1>3, <3>1 DEF WaitsOrDone, Live, Playing
    <3>3. B = request[o].gives[p] /\ C = request[o].gets[p]
      BY <3>1, <3>2, NoneAssumption DEF Owed
    <3>4. SameStacks(H, (G \ B) \cup C)
      BY <1>1, <3>1, <3>3 DEF StacksJoined
    <3>5. T = S
      BY <3>1
    <3> HIDE DEF S, T, B, C, G, H
    <3> QED
      BY <2>1, <3>4, <3>5 DEF SameStacks
  <2>3. ASSUME \A o \in Ops : ~AppliedTo(o, p) PROVE SameStacks(T \cup C, H)
    <3>1. SameStacks(H, G)
      BY <1>1, <2>3, StacksStay
    <3>2. ASSUME SameStacks(T \cup C, S \cup B) PROVE SameStacks(T \cup C, H)
      <4> HIDE DEF S, T, B, C, G, H
      <4> QED
        BY <2>1, <3>1, <3>2 DEF SameStacks
    <3>3. CASE OpKept(p, e)
      <4>1. C = B
        BY <2>3, <3>3, OwedMoves DEF OpKept
      <4>2. SameStacks(T, S)
        <5>1. CASE session'[p][e] = session[p][e] \/ StateSaved(p, e)
          BY <5>1 DEF SameStacks, StateSaved
        <5>2. CASE CoinFell(p, e)
          BY <5>2, UnitAssumption DEF SameStacks, CoinFell
        <5>3. CASE CoinFound(p, e)
          <6>1. PICK f \in fallen : T = S \cup {f.unit}
            BY <5>3 DEF CoinFound
          <6>2. f.unit \in Coins
            BY <1>1, FallenFields
          <6> QED
            BY <6>1, <6>2, UnitAssumption DEF SameStacks
        <5>4. CASE SessionEnds(p, e)
          BY <5>4, DoneFields DEF SessionEnds, Playing
        <5>5. CASE StateCaptured(p, e)
          BY <5>5 DEF SameStacks, StateCaptured
        <5>6. CASE OpSent(p, e)
          BY <3>3, <5>6, NoneAssumption DEF OpKept, OpSent
        <5>7. CASE OpHeard(p, e)
          BY <3>3, <5>7, NoneAssumption DEF OpKept, OpHeard
        <5> QED
          BY <1>3, <5>1, <5>2, <5>3, <5>4, <5>5, <5>6, <5>7, SessionsChange DEF SessionChanges
      <4> HIDE DEF S, T, B, C, G, H
      <4>3. SameStacks(T \cup C, S \cup B)
        BY <4>1, <4>2 DEF SameStacks
      <4> QED
        BY <3>2, <4>3
    <3>4. CASE StateCaptured(p, e)
      <4>1. T = S /\ C = {} /\ B = {}
        BY <3>4 DEF StateCaptured, Owed
      <4> QED
        BY <3>2, <4>1 DEF SameStacks
    <3>5. CASE OpSent(p, e)
      <4>1. B = {} /\ S = T \cup C
        BY <3>5, SentIsOwed
      <4> QED
        BY <3>2, <4>1 DEF SameStacks
    <3>6. CASE OpHeard(p, e)
      <4>1. T = S \cup B /\ C = {}
        BY <3>6, HeardWasOwed
      <4> QED
        BY <3>2, <4>1 DEF SameStacks
    <3> QED
      BY <1>3, <3>3, <3>4, <3>5, <3>6, NewestChanges
  <2> QED
    BY <2>2, <2>3
<1> QED
  BY <1>2, <1>3, NewestChanges


LEMMA StacksJoinedStep ==
  ASSUME Known, Places, StackBooks, [Next]_vars
  PROVE  StacksJoined'
<1> SUFFICES ASSUME NEW p \in Players, NEW o \in Ops, Live(o)', p \in request'[o].parties
             PROVE  /\ request'[o].gives[p] \cap Stacks \subseteq profile'[p].goods
                    /\ SameStacks(request'[o].goods[p],
                                  (profile'[p].goods \ request'[o].gives[p]) \cup request'[o].gets[p])
  BY DEF StacksJoined
<1>1. Types /\ StacksSent /\ StacksHeld /\ StacksJoined
  BY DEF Known, StackBooks
<1>2. ASSUME NEW x \in Ops, AppliedTo(x, p) PROVE FALSE
  <2>1. Live(x) /\ record'[x] = "kept" /\ request' = request /\ p \in request[x].parties
    BY <1>2, AppliedWrites DEF AppliedTo
  <2>2. x # o /\ request[o] # NoRequest
    BY <2>1 DEF Live, Waiting
  <2>3. Live(o) /\ p \in request[o].parties
    BY <2>1, <2>2, LiveWas
  <2> QED
    BY <2>1, <2>2, <2>3, OneLive
<1>3. SameStacks(profile'[p].goods, profile[p].goods)
  BY <1>1, <1>2, StacksStay
<1>4. CASE request[o] # NoRequest
  <2>1. Live(o) /\ RequestKept(o)
    BY <1>4, LiveWas
  <2>2. /\ request'[o].parties = request[o].parties /\ request'[o].gives = request[o].gives
        /\ request'[o].gets = request[o].gets /\ request'[o].goods = request[o].goods
    BY <2>1 DEF RequestKept
  <2>3. /\ request[o].gives[p] \cap Stacks \subseteq profile[p].goods
        /\ SameStacks(request[o].goods[p],
                      (profile[p].goods \ request[o].gives[p]) \cup request[o].gets[p])
    BY <1>1, <2>1, <2>2 DEF StacksJoined
  <2> QED
    BY <1>3, <2>2, <2>3 DEF SameStacks
<1>5. CASE request[o] = NoRequest
  <2>1. Sent(o)
    BY <1>5, RequestsCome DEF Live, Waiting
  <2>2. PICK e \in Epochs : /\ e = profile[p].epoch /\ Playing(p, e) /\ session[p][e].op = NoOp
           /\ request'[o].gives[p] \subseteq session[p][e].goods
           /\ request'[o].goods[p] = (session[p][e].goods \ request'[o].gives[p]) \cup request'[o].gets[p]
    BY <2>1, SentHolds
  <2>3. Owed(p, e) = {}
    BY <2>2 DEF Owed
  <2>4. SameStacks(session[p][e].goods, profile[p].goods)
    BY <1>1, <2>2, <2>3 DEF StacksHeld, SameStacks
  <2> QED
    BY <1>3, <2>2, <2>4 DEF SameStacks
<1> QED
  BY <1>4, <1>5

(* What a party gives, the other one gets, or it lies in the record.       *)
LEMMA GivesTo ==
  ASSUME Known, NEW o \in Ops, NEW p, AppliedTo(o, p), NEW u \in request[o].gives[p]
  PROVE  \/ \E q \in Players : AppliedTo(o, q) /\ u \in request[o].gets[q]
         \/ drops'[o].status = "public" /\ u \in drops'[o].goods
<1>1. Types /\ LeaseKnown /\ PartiesKnown /\ Shapes
  BY DEF Known, Books
<1>2. request[o] \in Request
  BY AppliedWrites
<1>3. request[o] # NoRequest /\ p \in request[o].parties /\ ApplyStates(o, request[o])
  BY DEF AppliedTo
<1>4. Shape(request[o].kind, request[o].server, request[o].parties,
            request[o].gives, request[o].gets, request[o].claim)
  BY <1>1, <1>3 DEF Shapes
<1>5. CASE request[o].kind = "trade"
  <2>1. PICK a, b \in Players : /\ a # b /\ request[o].parties = {a, b}
          /\ request[o].gets[a] = request[o].gives[b] /\ request[o].gets[b] = request[o].gives[a]
    BY <1>4, <1>5 DEF Shape
  <2> QED
    BY <1>3, <2>1 DEF AppliedTo
<1>6. CASE request[o].kind = "drop"
  <2>1. request[o].claim = NoOp
    BY <1>4, <1>6 DEF Shape
  <2>2. drops'[o].status = "public" /\ drops'[o].goods = UNION {request[o].gives[x] : x \in request[o].parties}
    BY <1>1, <1>3, <1>6, <2>1, ApplyEffect, NoneAssumption
  <2>3. u \in drops'[o].goods
    BY <1>3, <2>2
  <2> QED
    BY <2>2, <2>3
<1>7. CASE request[o].kind = "pickup"
  BY <1>3, <1>4, <1>7 DEF Shape
<1> QED
  BY <1>2, <1>5, <1>6, <1>7, RequestFields DEF OperationKinds

(* A world drop leaves the ground only to who claims it.                   *)
LEMMA DropsLeave ==
  ASSUME Known, [Next]_vars, NEW d \in Ops, drops[d].status \in {"public", "expired"}
  PROVE  \/ drops'[d].status \in {"public", "expired"} /\ drops'[d].goods = drops[d].goods
         \/ \E o \in Ops, p \in Players : AppliedTo(o, p) /\ request[o].gets[p] = drops[d].goods
<1>1. Types /\ LeaseKnown /\ PartiesKnown /\ Shapes
  BY DEF Known, Books
<1>2. drops'[d].goods = drops[d].goods
  BY DropsGrow
<1>3. CASE Applies
  <2>1. PICK o \in Ops : request[o] # NoRequest /\ ApplyStates(o, request[o])
    BY <1>3 DEF Applies
  <2>2. request[o] \in Request
    BY <1>1, <2>1, ApplyEffect
  <2>3. CASE d = request[o].claim
    <3>1. request[o].claim # NoOp
      BY <2>3, NoneAssumption
    <3>2. Shape(request[o].kind, request[o].server, request[o].parties,
                request[o].gives, request[o].gets, request[o].claim)
      BY <1>1, <2>1 DEF Shapes
    <3>3. request[o].kind = "pickup"
      BY <2>2, <3>1, <3>2, RequestFields DEF Shape, OperationKinds
    <3> QED
      BY <2>1, <2>3, <3>2, <3>3 DEF Shape, AppliedTo
  <2>4. CASE d # request[o].claim
    BY <1>1, <1>2, <2>1, <2>4, ApplyEffect
  <2> QED
    BY <2>3, <2>4
<1>4. ASSUME NEW x \in Ops, DropExpires(x) PROVE drops'[d].status \in {"public", "expired"}
  <2>1. drops' = [drops EXCEPT ![x].status = "expired"]
    BY <1>4 DEF DropExpires
  <2> QED
    BY <1>1, <2>1 DEF Types, Drop
<1> QED
  BY <1>2, <1>3, <1>4, Frames

LEMMA KeptStep ==
  ASSUME Known, StackBooks, [Next]_vars, NEW u \in Stacks, Kept(u)
  PROVE  Kept(u)'
<1>1. PartiesKnown /\ StacksSent /\ StacksJoined
  BY DEF Known, Books, StackBooks
<1>2. ASSUME NEW o \in Ops, NEW q \in Players, AppliedTo(o, q), u \in request[o].gets[q] PROVE Kept(u)'
  <2>1. request[o].gets[q] \subseteq request[o].goods[q]
    BY <1>1, <1>2 DEF PartiesKnown, AppliedTo
  <2> QED
    BY <1>2, <2>1, AppliedWrites DEF Kept
<1>3. ASSUME NEW p \in Players, u \in profile[p].goods PROVE Kept(u)'
  <2>1. ASSUME NEW o \in Ops, AppliedTo(o, p) PROVE Kept(u)'
    <3>1. Live(o) /\ profile'[p].goods = request[o].goods[p] /\ p \in request[o].parties
      BY <2>1, AppliedWrites DEF AppliedTo
    <3>2. CASE u \in request[o].gives[p]
      BY <1>2, <2>1, <3>2, GivesTo DEF Kept
    <3>3. CASE u \notin request[o].gives[p]
      <4>1. SameStacks(request[o].goods[p],
                       (profile[p].goods \ request[o].gives[p]) \cup request[o].gets[p])
        BY <1>1, <3>1 DEF StacksJoined
      <4>2. u \in profile'[p].goods
        BY <1>3, <3>1, <3>3, <4>1 DEF SameStacks
      <4> QED
        BY <4>2 DEF Kept
    <3> QED
      BY <3>2, <3>3
  <2>2. ASSUME \A o \in Ops : ~AppliedTo(o, p) PROVE Kept(u)'
    <3>1. SameStacks(profile'[p].goods, profile[p].goods)
      BY <1>1, <2>2, StacksStay
    <3>2. u \in profile'[p].goods
      BY <1>3, <3>1 DEF SameStacks
    <3> QED
      BY <3>2 DEF Kept
  <2> QED
    BY <2>1, <2>2
<1>4. ASSUME NEW d \in Ops, drops[d].status \in {"public", "expired"}, u \in drops[d].goods PROVE Kept(u)'
  BY <1>2, <1>4, DropsLeave DEF Kept
<1> QED
  BY <1>3, <1>4 DEF Kept

LEMMA InitStackBooks == Init => StackBooks
<1> SUFFICES ASSUME Init PROVE StackBooks
  OBVIOUS
<1>1. /\ \A p \in Players : profile[p].goods = InitialGoods[p]
      /\ \A p \in Players, e \in Epochs : session[p][e] = NoSession
      /\ \A o \in Ops : request[o] = NoRequest
      /\ commits = {}
  BY DEF Init
<1>2. StacksSent /\ StacksHeld /\ StacksJoined
  BY <1>1 DEF StacksSent, StacksHeld, StacksJoined, Playing, Live, Waiting
<1>3. \A u \in Stacks : Kept(u)
  BY <1>1, GoodsAssumption DEF Kept
<1> QED
  BY <1>2, <1>3 DEF StackBooks

LEMMA StackBooksStep == ASSUME Known, Places, StackBooks, [Next]_vars PROVE StackBooks'
<1>1. StacksSent'
  BY StacksSentStep DEF StackBooks
<1>2. StacksHeld' /\ StacksJoined'
  BY StacksHeldStep, StacksJoinedStep
<1>3. ASSUME NEW u \in Stacks PROVE Kept(u)'
  BY KeptStep DEF StackBooks
<1>4. (\A u \in Stacks : Kept(u))'
  BY <1>3
<1> QED
  BY <1>1, <1>2, <1>4 DEF StackBooks

(* No stack is lost: what leaves one profile is in the commit of another,  *)
(* or in the record of a drop, written in the same transaction; and a      *)
(* takeover, a restart or a refused operation loses nothing of a profile.  *)
THEOREM StacksAreKept == Spec => []StacksKept
<1>1. Init => StackBooks
  BY InitStackBooks
<1>2. Known /\ Places /\ StackBooks /\ [Next]_vars => StackBooks'
  BY StackBooksStep
<1>3. StackBooks => StacksKept
  BY DEF StackBooks, Kept, StacksKept, Holders
<1> QED
  BY <1>1, <1>2, <1>3, AlwaysPlaces, PTL DEF Spec

=============================================================================
