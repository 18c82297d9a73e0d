----------------------- MODULE PlayerOperations_proofs -----------------------
(***************************************************************************)
(* Proofs of what PlayerSession promises an operator, for every value of   *)
(* its constants.  Both rest on the fence of PlayerSession_proofs and on   *)
(* what one step may do to a profile, to what a session loaded and to a    *)
(* request.                                                                *)
(***************************************************************************)
EXTENDS PlayerSession_proofs

USE DEF Epochs

LEMMA NotAfterTransitive ==
  ASSUME NEW a \in Stamp, NEW b \in Stamp, NEW c \in Stamp, NotAfter(a, b), NotAfter(b, c)
  PROVE  NotAfter(a, c)
  BY DEF Stamp, NotAfter

LEMMA NotAfterReflexive == ASSUME NEW a \in Stamp PROVE NotAfter(a, a)
  BY DEF Stamp, NotAfter

-----------------------------------------------------------------------------
(***************************************************************************)
(* What a step does to a profile and to what its sessions loaded.          *)
(***************************************************************************)
Grows(u) ==
    /\ profile[u].epoch <= profile'[u].epoch
    /\ NotAfter(profile[u].value, profile'[u].value)
    /\ profile'[u].value # profile[u].value => profile[u].epoch <= profile'[u].value.epoch

LoadsWhatIsStored(u, e) ==
    Granted(u, e)' =>
        \/ Granted(u, e) /\ session'[u][e].base = session[u][e].base
        \/ session'[u][e].base = profile[u].value

LEMMA SameGrows ==
  ASSUME TypeOK, NEW u \in Universes, profile'[u] = profile[u]
  PROVE  Grows(u)
  BY FenceTypes, NotAfterReflexive DEF Grows

LEMMA SameLoads ==
  ASSUME NEW u \in Universes, NEW e \in Epochs, session' = session
  PROVE  LoadsWhatIsStored(u, e)
  BY DEF LoadsWhatIsStored, Granted

LEMMA SilentLoads ==
  ASSUME NEW u \in Universes, NEW e \in Epochs, SameSession(u, e)
  PROVE  LoadsWhatIsStored(u, e)
  BY DEF LoadsWhatIsStored, SameSession, Granted

LEMMA TakeEffect ==
  ASSUME Fence, NEW c \in Conns, TakeLease(c), NEW u \in Universes
  PROVE  Grows(u) /\ \A e \in Epochs : LoadsWhatIsStored(u, e)
<1> DEFINE v == UniverseOfConn(c)
           f == profile[v].epoch + 1
           s == [state |-> "playing", conn |-> c, base |-> profile[v].value,
                 captured |-> 0, saved |-> 0, reported |-> FALSE]
<1>1. TypeOK /\ v \in Universes
  BY ServerAssumption, UniverseAssumption DEF Fence, UniverseOfConn
<1>2. profile[v] \in Profile /\ Taken(profile[v]).epoch = f
  BY <1>1 DEF TypeOK, Taken, Profile
<1>3. f <= MaxEpoch /\ SetSession(v, f, s) /\ profile' = [profile EXCEPT ![v] = Taken(profile[v])]
  BY <1>2 DEF TakeLease
<1>4. f \in Epochs
  BY <1>1, <1>3, FenceTypes, BoundAssumption
<1>5. /\ profile'[v].epoch = f /\ profile'[v].value = profile[v].value
      /\ u # v => profile'[u] = profile[u]
  BY <1>1, <1>2, <1>3 DEF Taken, Profile, TypeOK
<1>6. \A e \in Epochs : session'[u][e] = IF u = v /\ e = f THEN s ELSE session[u][e]
  BY <1>1, <1>3, <1>4, SetSessionEffect
<1>7. s.base = profile[v].value
  OBVIOUS
<1>8. profile[v].epoch <= f
  BY <1>1, FenceTypes
<1> HIDE DEF v, f, s
<1>9. Grows(u)
  <2>1. CASE u = v
    BY <1>1, <1>5, <1>8, <2>1, FenceTypes, NotAfterReflexive DEF Grows
  <2>2. CASE u # v
    BY <1>1, <1>5, <2>2, SameGrows
  <2> QED
    BY <2>1, <2>2
<1>10. \A e \in Epochs : LoadsWhatIsStored(u, e)
  BY <1>6, <1>7 DEF LoadsWhatIsStored, Granted
<1> QED
  BY <1>9, <1>10

LEMMA AnswerLoads ==
  ASSUME TypeOK, NEW v \in Universes, NEW f \in Epochs, NEW n \in Sent(v, f), SaveAnswered(v, f, n),
         NEW u \in Universes, NEW e \in Epochs
  PROVE  LoadsWhatIsStored(u, e)
  BY AnswerEffect DEF LoadsWhatIsStored, Granted

LEMMA CommitEffect ==
  ASSUME Fence, NEW v \in Universes, NEW f \in Epochs, NEW n \in Sent(v, f), NEW moved \in Moves,
         CommitState(v, f, n, moved), NEW u \in Universes
  PROVE  Grows(u) /\ \A e \in Epochs : LoadsWhatIsStored(u, e)
<1> DEFINE stamp == [epoch |-> f, seq |-> n]
<1>1. TypeOK /\ SaveAnswered(v, f, n) /\ profile' = [profile EXCEPT ![v] = Written(profile[v], stamp)]
  BY DEF Fence, CommitState
<1>2. profile[v].epoch = f /\ profile[v].commitSeq < n /\ n \in Nat /\ f \in Nat
  BY <1>1, AnswerEffect, FenceTypes DEF CommitState, CommitAccepted
<1>3. /\ profile'[v].epoch = f /\ profile'[v].value = stamp
      /\ u # v => profile'[u] = profile[u]
  BY <1>1, <1>2 DEF TypeOK, Written, Profile
<1>4. Grows(u)
  <2>1. CASE u = v
    <3>1. NotAfter(profile[v].value, stamp)
      BY <1>1, <1>2, FenceTypes DEF Fence, ValueBehindEpoch, NotAfter, Stamp
    <3> QED
      BY <1>2, <1>3, <2>1, <3>1 DEF Grows
  <2>2. CASE u # v
    BY <1>1, <1>3, <2>2, SameGrows
  <2> QED
    BY <2>1, <2>2
<1> QED
  BY <1>1, <1>4, AnswerLoads

LEMMA RaiseEffect ==
  ASSUME TypeOK, NEW v \in Universes, RaiseEpoch(v), NEW u \in Universes
  PROVE  Grows(u)
<1>1. /\ profile'[u].value = profile[u].value
      /\ u # v => profile'[u] = profile[u]
      /\ u = v => profile'[u].epoch = profile[u].epoch + 1
  BY DEF RaiseEpoch, TypeOK, Profile
<1> QED
  BY <1>1, FenceTypes, NotAfterReflexive DEF Grows

(* What a change of the stacks writes.                                     *)
LEMMA ChangeEffect ==
  ASSUME TypeOK, NEW o \in Operations, ChangeStacks(o)
  PROVE  /\ profile[TargetOf[o]].epoch = operation[o].epoch
         /\ profile'[TargetOf[o]].epoch = operation[o].epoch + 1
         /\ profile'[TargetOf[o]].value = [epoch |-> operation[o].epoch + 1, seq |-> 0]
         /\ \A u \in Universes : u # TargetOf[o] => profile'[u] = profile[u]
<1> DEFINE v == TargetOf[o]
<1>1. v \in Universes
  BY OperationAssumption
<1>2. profile' = [profile EXCEPT ![v] = Changed(profile[v])] /\ profile[v].epoch = operation[o].epoch
  BY DEF ChangeStacks
<1> HIDE DEF v
<1>3. /\ profile'[v].epoch = profile[v].epoch + 1
      /\ profile'[v].value = [epoch |-> profile[v].epoch + 1, seq |-> 0]
      /\ \A u \in Universes : u # v => profile'[u] = profile[u]
  BY <1>1, <1>2 DEF Changed, TypeOK, Profile
<1> QED
  BY <1>2, <1>3 DEF v

LEMMA ChangeGrows ==
  ASSUME Fence, NEW o \in Operations, ChangeStacks(o), NEW u \in Universes
  PROVE  Grows(u)
<1> DEFINE v == TargetOf[o]
           was == profile[v].epoch
<1>1. TypeOK /\ v \in Universes
  BY OperationAssumption DEF Fence
<1>2. /\ profile'[v].epoch = was + 1 /\ profile'[v].value = [epoch |-> was + 1, seq |-> 0]
      /\ u # v => profile'[u] = profile[u]
  BY <1>1, ChangeEffect
<1>3. was \in Nat /\ profile[v].value \in Stamp /\ profile[v].commitSeq \in Nat
  BY <1>1, FenceTypes
<1>4. NotAfter(profile[v].value, [epoch |-> was, seq |-> profile[v].commitSeq])
  BY <1>1 DEF Fence, ValueBehindEpoch
<1> HIDE DEF v
<1>5. CASE u = v
  <2>1. NotAfter(profile[v].value, [epoch |-> was + 1, seq |-> 0])
    BY <1>3, <1>4 DEF NotAfter, Stamp
  <2> QED
    BY <1>2, <1>3, <1>5, <2>1 DEF Grows
<1>6. CASE u # v
  BY <1>1, <1>2, <1>6, SameGrows
<1> QED
  BY <1>5, <1>6

(* No step makes the stored state of a profile older, and a session that   *)
(* is granted loads what is stored.                                        *)
LEMMA StepEffect ==
  ASSUME Fence, [Next]_vars, NEW u \in Universes
  PROVE  Grows(u) /\ \A e \in Epochs : LoadsWhatIsStored(u, e)
<1>1. TypeOK
  BY DEF Fence
<1>2. CASE Silent \/ UNCHANGED vars
  <2>1. Silent
    BY <1>2, UnchangedIsSilent DEF vars, sessionVars
  <2> QED
    BY <1>1, <2>1, SameGrows, SilentLoads DEF Silent
<1>3. CASE \E c \in Conns : TakeLease(c)
  BY <1>3, TakeEffect
<1>4. ASSUME NEW v \in Universes, NEW f \in Epochs, NEW n \in Sent(v, f), CommitDuplicate(v, f, n)
      PROVE  Grows(u) /\ \A e \in Epochs : LoadsWhatIsStored(u, e)
  BY <1>1, <1>4, AnswerLoads, SameGrows DEF CommitDuplicate
<1>5. ASSUME NEW v \in Universes, NEW f \in Epochs, NEW n \in Sent(v, f), NEW moved \in Moves,
             CommitState(v, f, n, moved)
      PROVE  Grows(u) /\ \A e \in Epochs : LoadsWhatIsStored(u, e)
  BY <1>5, CommitEffect
<1>6. CASE \E v \in Universes : RaiseEpoch(v) /\ UNCHANGED session
  BY <1>1, <1>6, RaiseEffect, SameLoads
<1>7. CASE \E o \in Operations : ChangeStacks(o)
  BY <1>7, ChangeGrows, SameLoads DEF ChangeStacks
<1> QED
  BY <1>1, <1>2, <1>3, <1>4, <1>5, <1>6, <1>7, StepKinds

-----------------------------------------------------------------------------
(***************************************************************************)
(* What a step does to a request: it is answered once, and an answered one *)
(* keeps its kind and the epoch it named.                                  *)
(***************************************************************************)
LEMMA RecordEffect ==
  ASSUME TypeOK, NEW o \in Operations, NEW status, Record(o, status)
  PROVE  /\ operation'[o].status = status
         /\ operation'[o].kind = operation[o].kind /\ operation'[o].epoch = operation[o].epoch
         /\ \A p \in Operations : p # o => operation'[p] = operation[p]
  BY DEF Record, TypeOK, Operation

LEMMA DoneEffect ==
  ASSUME TypeOK, [Next]_vars, NEW o \in Operations, operation'[o].status = "done"
  PROVE  /\ operation'[o].kind = operation[o].kind /\ operation'[o].epoch = operation[o].epoch
         /\ \/ operation[o].status = "done"
            \/ EndSession(o) \/ ChangeStacks(o) \/ RestrictAccount(o)
<1>1. CASE operation' = operation
  BY <1>1
<1>2. ASSUME NEW p \in Operations, NEW kind \in Kinds, SendOperation(p, kind)
      PROVE  operation'[o] = operation[o]
  <2>1. operation'[p].status = "sent" /\ \A q \in Operations : q # p => operation'[q] = operation[q]
    BY <1>2 DEF SendOperation, TypeOK
  <2> QED
    BY <2>1
<1>3. ASSUME NEW p \in Operations, NEW status \in {"done", "refused"}, Record(p, status)
      PROVE  /\ operation'[o].kind = operation[o].kind /\ operation'[o].epoch = operation[o].epoch
             /\ operation[o].status = "done" \/ (o = p /\ status = "done")
  BY <1>3, RecordEffect
<1>4. CASE OperatorStep
  <2>1. PICK p \in Operations :
          \/ \E kind \in Kinds : SendOperation(p, kind)
          \/ RefuseOperation(p) \/ EndSession(p) \/ ChangeStacks(p) \/ RestrictAccount(p)
    BY <1>4 DEF OperatorStep
  <2>2. CASE \E kind \in Kinds : SendOperation(p, kind)
    BY <1>2, <2>2
  <2>3. CASE RefuseOperation(p)
    BY <1>3, <2>3 DEF RefuseOperation
  <2>4. CASE EndSession(p) \/ ChangeStacks(p) \/ RestrictAccount(p)
    <3>1. Record(p, "done")
      BY <2>4 DEF EndSession, ChangeStacks, RestrictAccount
    <3> QED
      BY <1>3, <2>4, <3>1
  <2> QED
    BY <2>1, <2>2, <2>3, <2>4
<1>5. CASE TicketStep
  BY <1>1, <1>5 DEF TicketStep, RequestLaunch, SignOut, ExpireTicket, IssueResume, IssueTravel, sessionVars
<1>6. CASE LaunchStep
  BY <1>1, <1>6 DEF LaunchStep, BeginLaunch, ConsumeLaunch, AdmitLaunch, CallAcquire, AcquireSession,
                    KeepLease, AnswerSaving, TakeLease
<1>7. CASE SessionStep
  <2>1. PICK u \in Universes, e \in Epochs :
          \/ Capture(u, e) \/ Leave(u, e) \/ Stop(u, e)
          \/ \E n \in Sent(u, e) :
                \/ CommitDuplicate(u, e, n)
                \/ \E moved \in Moves : CommitState(u, e, n, moved)
                \/ CommitStale(u, e, n)
          \/ \E recovery \in Reports : BeginCheckpoint(u, e, recovery)
          \/ CheckpointEnded(u, e)
          \/ ReleaseSession(u, e)
    BY <1>7 DEF SessionStep
  <2>2. CASE Capture(u, e) \/ Leave(u, e) \/ Stop(u, e) \/ CheckpointEnded(u, e) \/ ReleaseSession(u, e)
    BY <1>1, <2>2 DEF Capture, Leave, Stop, CheckpointEnded, ReleaseSession
  <2>3. CASE \E n \in Sent(u, e) : CommitDuplicate(u, e, n) \/ CommitStale(u, e, n)
    BY <1>1, <2>3 DEF CommitDuplicate, CommitStale
  <2>4. CASE \E n \in Sent(u, e) : \E moved \in Moves : CommitState(u, e, n, moved)
    BY <1>1, <2>4 DEF CommitState
  <2>5. CASE \E recovery \in Reports : BeginCheckpoint(u, e, recovery)
    BY <1>1, <2>5 DEF BeginCheckpoint
  <2> QED
    BY <2>1, <2>2, <2>3, <2>4, <2>5
<1>8. CASE LeaseStep
  BY <1>1, <1>8 DEF LeaseStep, LeaseExpires, RenewLease, WritePosition
<1>9. CASE UNCHANGED vars
  BY <1>1, <1>9 DEF vars, sessionVars
<1> QED
  BY <1>4, <1>5, <1>6, <1>7, <1>8, <1>9 DEF Next

LEMMA OperationTypes ==
  ASSUME TypeOK, NEW o \in Operations
  PROVE  TargetOf[o] \in Universes /\ operation[o].epoch \in Nat
  BY OperationAssumption, BoundAssumption DEF TypeOK, Operation

-----------------------------------------------------------------------------
(***************************************************************************)
(* A change of the stacks stays.                                           *)
(***************************************************************************)
LEMMA InitChangeStays == Init => OperatorChangeStays
  BY DEF Init, OperatorChangeStays

LEMMA ChangeStaysStep ==
  ASSUME Fence, OperatorChangeStays, [Next]_vars
  PROVE  OperatorChangeStays'
<1>1. TypeOK /\ TypeOK' /\ Fence'
  BY TypeOKStep, FenceStep DEF Fence
<1> SUFFICES ASSUME NEW o \in Operations,
                    operation'[o].kind = "stacks", operation'[o].status = "done"
             PROVE  LET u == TargetOf[o]
                        change == [epoch |-> operation'[o].epoch + 1, seq |-> 0]
                    IN  /\ NotAfter(change, profile'[u].value)
                        /\ \A e \in Epochs : e > change.epoch /\ Granted(u, e)' =>
                                               NotAfter(change, session'[u][e].base)
  BY DEF OperatorChangeStays
<1> DEFINE u == TargetOf[o]
           change == [epoch |-> operation[o].epoch + 1, seq |-> 0]
<1>2. u \in Universes /\ operation[o].epoch \in Nat
  BY <1>1, OperationTypes
<1>3. change \in Stamp /\ change.epoch = operation[o].epoch + 1
  BY <1>2 DEF Stamp
<1>4. operation'[o].kind = operation[o].kind /\ operation'[o].epoch = operation[o].epoch
  BY <1>1, DoneEffect
<1>5. profile[u].value \in Stamp /\ profile'[u].value \in Stamp
  BY <1>1, <1>2, FenceTypes DEF TypeOK, Profile
<1>6. CASE operation[o].status = "done"
  <2>1. /\ NotAfter(change, profile[u].value)
        /\ \A e \in Epochs : e > change.epoch /\ Granted(u, e) => NotAfter(change, session[u][e].base)
    BY <1>4, <1>6 DEF OperatorChangeStays
  <2>2. Grows(u) /\ \A e \in Epochs : LoadsWhatIsStored(u, e)
    BY <1>2, StepEffect
  <2> HIDE DEF u, change
  <2>3. NotAfter(change, profile'[u].value)
    BY <1>3, <1>5, <2>1, <2>2, NotAfterTransitive DEF Grows
  <2>4. \A e \in Epochs : e > change.epoch /\ Granted(u, e)' => NotAfter(change, session'[u][e].base)
    BY <2>1, <2>2 DEF LoadsWhatIsStored
  <2> QED
    BY <1>4, <2>3, <2>4 DEF u, change
<1>7. CASE ChangeStacks(o)
  <2>1. profile'[u].epoch = change.epoch /\ profile'[u].value = change
    BY <1>1, <1>3, <1>7, ChangeEffect
  <2> HIDE DEF u, change
  <2>2. \A e \in Epochs : Granted(u, e)' => e <= profile'[u].epoch
    BY <1>1, <1>2 DEF Fence, GrantedInOrder
  <2>3. \A e \in Epochs : e > change.epoch => ~Granted(u, e)'
    BY <1>2, <1>3, <2>1, <2>2, BoundAssumption
  <2>4. NotAfter(change, profile'[u].value)
    BY <1>3, <2>1, NotAfterReflexive
  <2> QED
    BY <1>4, <2>3, <2>4 DEF u, change
<1>8. CASE EndSession(o) \/ RestrictAccount(o)
  BY <1>4, <1>8 DEF EndSession, RestrictAccount
<1> QED
  BY <1>1, <1>6, <1>7, <1>8, DoneEffect

(* What an operator changed in the stacks is never written over by an      *)
(* older session, and every later session loads it.                        *)
THEOREM ChangeStays == Spec => []OperatorChangeStays
<1>1. Fence /\ OperatorChangeStays /\ [Next]_vars => OperatorChangeStays'
  BY ChangeStaysStep
<1> QED
  BY <1>1, InitChangeStays, FenceHolds, PTL DEF Spec

-----------------------------------------------------------------------------
(***************************************************************************)
(* A session an operator ended is fenced.                                  *)
(***************************************************************************)
EndedIsFenced ==
    \A o \in Operations :
        operation[o].kind = "session.end" /\ operation[o].status = "done" =>
            operation[o].epoch < profile[TargetOf[o]].epoch

(* What ending a session does to the profile.                              *)
LEMMA EndEffect ==
  ASSUME TypeOK, NEW o \in Operations, EndSession(o)
  PROVE  /\ profile[TargetOf[o]].epoch = operation[o].epoch
         /\ profile'[TargetOf[o]].epoch = operation[o].epoch + 1
         /\ profile'[TargetOf[o]].value = profile[TargetOf[o]].value
<1> DEFINE u == TargetOf[o]
<1>1. u \in Universes
  BY OperationAssumption
<1>2. RaiseEpoch(u) /\ profile[u].epoch = operation[o].epoch
  BY DEF EndSession, EndLease
<1> HIDE DEF u
<1>3. profile'[u].epoch = profile[u].epoch + 1 /\ profile'[u].value = profile[u].value
  BY <1>1, <1>2 DEF RaiseEpoch, TypeOK, Profile
<1> QED
  BY <1>2, <1>3 DEF u

LEMMA InitEndedIsFenced == Init => EndedIsFenced
  BY DEF Init, EndedIsFenced

LEMMA EndedIsFencedStep ==
  ASSUME Fence, EndedIsFenced, [Next]_vars
  PROVE  EndedIsFenced'
<1>1. TypeOK /\ TypeOK'
  BY TypeOKStep DEF Fence
<1> SUFFICES ASSUME NEW o \in Operations,
                    operation'[o].kind = "session.end", operation'[o].status = "done"
             PROVE  operation'[o].epoch < profile'[TargetOf[o]].epoch
  BY DEF EndedIsFenced
<1> DEFINE u == TargetOf[o]
<1>2. u \in Universes /\ operation[o].epoch \in Nat
  BY <1>1, OperationTypes
<1>3. operation'[o].kind = operation[o].kind /\ operation'[o].epoch = operation[o].epoch
  BY <1>1, DoneEffect
<1>4. CASE operation[o].status = "done"
  <2>1. operation[o].epoch < profile[u].epoch
    BY <1>3, <1>4 DEF EndedIsFenced
  <2>2. profile[u].epoch <= profile'[u].epoch
    BY <1>2, StepEffect DEF Grows
  <2>3. profile[u].epoch \in Nat /\ profile'[u].epoch \in Nat
    BY <1>1, <1>2, BoundAssumption DEF TypeOK, Profile
  <2> HIDE DEF u
  <2>4. operation[o].epoch < profile'[u].epoch
    BY <1>2, <2>1, <2>2, <2>3
  <2> QED
    BY <1>3, <2>4 DEF u
<1>5. CASE EndSession(o)
  <2>1. profile'[u].epoch = operation[o].epoch + 1
    BY <1>1, <1>5, EndEffect
  <2> QED
    BY <1>2, <1>3, <2>1
<1>6. CASE ChangeStacks(o) \/ RestrictAccount(o)
  BY <1>3, <1>6 DEF ChangeStacks, RestrictAccount
<1> QED
  BY <1>1, <1>4, <1>5, <1>6, DoneEffect

LEMMA EndedForGoodStep ==
  ASSUME Fence, EndedIsFenced, [Next]_vars, NEW o \in Operations,
         operation[o].kind = "session.end", operation'[o].status = "done"
  PROVE  /\ operation[o].status # "done" =>
              ~\E e \in Epochs : e > operation[o].epoch /\ Running(TargetOf[o], e)
         /\ profile'[TargetOf[o]].value # profile[TargetOf[o]].value =>
              profile'[TargetOf[o]].value.epoch > operation[o].epoch
<1> DEFINE u == TargetOf[o]
<1>1. TypeOK /\ TypeOK'
  BY TypeOKStep DEF Fence
<1>2. u \in Universes /\ operation[o].epoch \in Nat
  BY <1>1, OperationTypes
<1>3. CASE operation[o].status = "done"
  <2>1. operation[o].epoch < profile[u].epoch
    BY <1>3 DEF EndedIsFenced
  <2>2. profile'[u].value # profile[u].value => profile[u].epoch <= profile'[u].value.epoch
    BY <1>2, StepEffect DEF Grows
  <2>3. profile[u].epoch \in Nat /\ profile'[u].value.epoch \in Nat
    BY <1>1, <1>2, BoundAssumption DEF TypeOK, Profile, Stamp
  <2> HIDE DEF u
  <2>4. profile'[u].value # profile[u].value => profile'[u].value.epoch > operation[o].epoch
    BY <1>2, <2>1, <2>2, <2>3
  <2> QED
    BY <1>3, <2>4 DEF u
<1>4. CASE EndSession(o)
  <2>1. profile[u].epoch = operation[o].epoch /\ profile'[u].value = profile[u].value
    BY <1>1, <1>4, EndEffect
  <2>2. \A e \in Epochs : Running(u, e) => e <= profile[u].epoch
    BY <1>2 DEF Fence, GrantedInOrder, Granted, Running
  <2>3. \A e \in Epochs : e \in Nat
    BY BoundAssumption
  <2> HIDE DEF u
  <2>4. ~\E e \in Epochs : e > operation[o].epoch /\ Running(u, e)
    BY <1>2, <2>1, <2>2, <2>3
  <2> QED
    BY <2>1, <2>4 DEF u
<1>5. CASE ChangeStacks(o) \/ RestrictAccount(o)
  BY <1>5 DEF ChangeStacks, RestrictAccount
<1> QED
  BY <1>1, <1>3, <1>4, <1>5, DoneEffect

(* A session an operator ended stores nothing more, and the request of an  *)
(* operator who saw an older session ends none that took over since.       *)
THEOREM EndIsForGood == Spec => EndedForGood
<1>1. Fence /\ EndedIsFenced /\ [Next]_vars => EndedIsFenced'
  BY EndedIsFencedStep
<1> DEFINE Step == \A o \in Operations :
              operation[o].kind = "session.end" /\ operation'[o].status = "done" =>
                  LET u == TargetOf[o]
                      seen == operation[o].epoch
                  IN  /\ operation[o].status # "done" => ~\E e \in Epochs : e > seen /\ Running(u, e)
                      /\ profile'[u].value # profile[u].value => profile'[u].value.epoch > seen
<1>2. Fence /\ EndedIsFenced /\ [Next]_vars => Step
  BY EndedForGoodStep
<1>3. Fence /\ EndedIsFenced /\ [Next]_vars => [Step]_vars
  BY <1>2
<1>4. Spec => [][Step]_vars
  BY <1>1, <1>3, InitEndedIsFenced, FenceHolds, PTL DEF Spec
<1> QED
  BY <1>4 DEF EndedForGood
===============================================================================
