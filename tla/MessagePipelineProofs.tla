------------------------- MODULE MessagePipelineProofs -------------------------
(***************************************************************************)
(* Proofs about MessagePipeline for any number of sends, members, epochs    *)
(* and any history cap.                                                     *)
(*                                                                          *)
(* The argument for AcceptedOnce: what was accepted is still in the table   *)
(* or in Redis, or its epoch is over (Retained); a send between its         *)
(* verification and its insert is still inside its epoch (InTime, which is  *)
(* what Prompt buys), so the earlier signal it could clash with is there to *)
(* be found, and the unique index does the rest.                            *)
(***************************************************************************)
EXTENDS MessagePipeline, FiniteSetTheorems, TLAPS

Signed == \A r \in Request : (pc[r] = "idle" <=> signal[r] = None)

Writers == {"store", "recheck", "pruneRead", "pruneDelete"}

\* A room is of one kind: rows and the statements on them in the one, records in
\* the other.
OneStore ==
    /\ message # {} => Persistence = "PERSISTENT"
    /\ point # {} => Persistence = "EPHEMERAL"
    /\ \A r \in Request : pc[r] \in Writers => Persistence = "PERSISTENT"

Sampled == \A r \in Request : seenEpoch[r] <= clock

\* What was accepted was submitted, and so was what rows and records belong to.
Submitted ==
    /\ \A r \in accepted : signal[r] # None
    /\ \A m \in message : signal[m.by] # None
    /\ \A p \in point : signal[p.by] # None

InTime ==
    \A r \in Request : pc[r] \in {"check", "store", "recheck"} =>
        clock <= signal[r].epoch + 1 /\ signal[r].epoch <= clock + 1

RecordFresh == \A p \in point : p.at <= clock /\ signal[p.by].epoch <= p.at + 1

Retained ==
    \A r \in accepted :
        \/ \E m \in message : m.by = r
        \/ \E p \in point : p.by = r
        \/ signal[r].epoch + 1 < clock

\* The look-up of a send that goes on to ban returned a signal that collides.
FoundCollides ==
    \A r \in Request : pc[r] = "collision" =>
        found[r] \in Request /\ signal[found[r]] # None /\ Collides(signal[found[r]], signal[r])

-----------------------------------------------------------------------------
(* Types.                                                                   *)

Base == TypeOK /\ Signed /\ OneStore /\ Submitted /\ FoundCollides

USE DEF Epoch, Row, Point, Signal, Slash

LEMMA StampType == TypeOK => Cardinality(accepted) + 1 \in Nat
<1>1. SUFFICES ASSUME TypeOK PROVE Cardinality(accepted) + 1 \in Nat OBVIOUS
<1>2. IsFiniteSet(accepted) BY <1>1, RequestAssumption, FS_Subset DEF TypeOK
<1>3. QED BY <1>2, FS_CardinalityType

\* A change of the tree gives each member a leaf or none.
LEMMA TreeType ==
  ASSUME TypeOK, Tree!Next
  PROVE  leaf' \in [Member -> Identity \union {None}]
BY DEF TypeOK, Tree!Next, Tree!Enter, Tree!Replace, Tree!Leave

LEMMA BaseInit == Init => Base
  BY BoundAssumption DEF Init, Tree!Init, Base, TypeOK, Signed, OneStore, Submitted, FoundCollides, PC,
                         Answer, Writers

\* A request that moves on, or is answered, keeps the parts about the requests.
LEMMA GotoType ==
  ASSUME TypeOK, NEW r \in Request, NEW label \in PC, Goto(r, label)
  PROVE  pc' \in [Request -> PC] /\ pc'[r] = label /\ \A q \in Request \ {r} : pc'[q] = pc[q]
BY DEF TypeOK, Goto

LEMMA ReplyType ==
  ASSUME TypeOK, NEW r \in Request, NEW answer \in Answer, Reply(r, answer)
  PROVE  /\ pc' \in [Request -> PC] /\ pc'[r] = answer
         /\ \A q \in Request \ {r} : pc'[q] = pc[q] /\ seenEpoch'[q] = seenEpoch[q]
                                     /\ found'[q] = found[q]
         /\ seenEpoch' \in [Request -> Epoch] /\ found' \in [Request -> Request \union {None}]
         /\ edge' \in [Request -> Nat]
         /\ seenEpoch'[r] = 0
BY BoundAssumption DEF TypeOK, Reply, Goto, PC

LEMMA ClassifyType ==
  ASSUME TypeOK, NEW r \in Request, NEW q \in Request, Classify(r, q)
  PROVE  /\ pc' \in [Request -> PC] /\ pc'[r] \in {"duplicate", "collision"}
         /\ \A o \in Request \ {r} : pc'[o] = pc[o] /\ found'[o] = found[o]
                                     /\ seenEpoch'[o] = seenEpoch[o]
         /\ seenEpoch' \in [Request -> Epoch] /\ found' \in [Request -> Request \union {None}]
         /\ edge' \in [Request -> Nat]
         /\ seenEpoch'[r] \in {0, seenEpoch[r]}
         /\ pc'[r] = "collision" => found'[r] = q /\ signal[q].x # signal[r].x
<1>1. CASE Reply(r, "duplicate") BY <1>1, ReplyType DEF Answer
<1>2. CASE Outcome(r, q) = "collision" /\ Goto(r, "collision")
           /\ found' = [found EXCEPT ![r] = q] /\ UNCHANGED <<seenEpoch, edge>>
  BY <1>2 DEF TypeOK, Goto, PC, Outcome
<1>3. QED BY <1>1, <1>2 DEF Classify

\* A step of r that writes no table.
LEMMA RequestFrame ==
  ASSUME Base, NEW r \in Request,
         UNCHANGED <<clock, leaf, store, signal, accepted, slashed, parted>>,
         pc' \in [Request -> PC], pc[r] # "idle", pc'[r] # "idle",
         pc'[r] \in Writers => Persistence = "PERSISTENT",
         \A q \in Request \ {r} : pc'[q] = pc[q] /\ found'[q] = found[q],
         seenEpoch' \in [Request -> Epoch],
         found' \in [Request -> Request \union {None}],
         edge' \in [Request -> Nat],
         pc'[r] = "collision" =>
            found'[r] \in Request /\ signal[found'[r]] # None
            /\ Collides(signal[found'[r]], signal[r])
  PROVE  Base'
<1>1. TypeOK' BY DEF Base, TypeOK, store
<1>2. Signed' BY DEF Base, Signed
<1>3. OneStore' BY DEF Base, OneStore, store
<1>4. Submitted' BY DEF Base, Submitted, store
<1>5. FoundCollides' BY DEF Base, FoundCollides
<1>6. QED BY <1>1, <1>2, <1>3, <1>4, <1>5 DEF Base

\* A step of the environment: no request moves.
LEMMA EnvironmentKeepsBase == ASSUME Base, Environment PROVE Base'
<1>a. TypeOK /\ Signed /\ OneStore /\ Submitted /\ FoundCollides BY DEF Base
<1>1. CASE Tick
  <2>1. clock' \in Epoch BY <1>1, <1>a, BoundAssumption DEF Tick, TypeOK
  <2>2. TypeOK' BY <1>1, <1>a, <2>1 DEF Tick, TypeOK, store, local
  <2>3. QED BY <1>1, <1>a, <2>2 DEF Tick, store, local, Base, Signed, OneStore, Submitted,
                                    FoundCollides
<1>2. CASE ChangeTree
  <2>0. leaf' \in [Member -> Identity \union {None}] /\ parted' \in SUBSET Request
    BY <1>2, <1>a, TreeType DEF ChangeTree, TypeOK, Parting
  <2>1. TypeOK' BY <1>2, <1>a, <2>0 DEF ChangeTree, TypeOK, store, local
  <2>2. QED BY <1>2, <1>a, <2>1 DEF ChangeTree, store, local, Base, Signed, OneStore,
                                    Submitted, FoundCollides
<1>3. CASE DeleteMessage
  <2>1. TypeOK' BY <1>3, <1>a DEF DeleteMessage, TypeOK, local
  <2>2. QED BY <1>3, <1>a, <2>1 DEF DeleteMessage, local, Base, Signed, OneStore, Submitted,
                                    FoundCollides
<1>4. CASE Expire
  <2>0. point' \subseteq point BY <1>4 DEF Expire
  <2>1. TypeOK' BY <1>4, <1>a, <2>0 DEF Expire, TypeOK, local
  <2>2. QED BY <1>4, <1>a, <2>0, <2>1 DEF Expire, local, Base, Signed, OneStore, Submitted,
                                    FoundCollides
<1>5. QED BY <1>1, <1>2, <1>3, <1>4 DEF Environment

LEMMA SubmitKeepsBase == ASSUME Base, NEW r \in Request, Submit(r) PROVE Base'
<1>a. TypeOK /\ Signed /\ OneStore /\ Submitted /\ FoundCollides BY DEF Base
<1>1. PICK s \in Signal : signal' = [signal EXCEPT ![r] = s] BY DEF Submit
<1>2. /\ pc' \in [Request -> PC] /\ pc'[r] = "readLeaves"
      /\ \A q \in Request \ {r} : pc'[q] = pc[q]
  BY <1>a, GotoType DEF Submit, PC
<1>3. /\ signal' \in [Request -> Signal \union {None}] /\ signal'[r] = s /\ s # None
      /\ \A q \in Request \ {r} : signal'[q] = signal[q]
  BY <1>a, <1>1, NoneAssumption DEF TypeOK
<1>4. pc[r] = "idle" /\ signal[r] = None BY <1>a DEF Submit, Signed
<1>5. TypeOK' BY <1>a, <1>2, <1>3 DEF TypeOK, Submit, store, local
<1>6. Signed' BY <1>a, <1>2, <1>3 DEF Signed
<1>7. OneStore' BY <1>a, <1>2 DEF OneStore, Submit, store, Writers
<1>8. Submitted' BY <1>a, <1>3, <1>4 DEF Submitted, Submit, store, TypeOK
<1>9. FoundCollides' BY <1>a, <1>2, <1>3, <1>4 DEF FoundCollides, Submit, local
<1>10. QED BY <1>5, <1>6, <1>7, <1>8, <1>9 DEF Base

LEMMA PriorFound ==
  ASSUME Base, NEW r \in Request, pc[r] # "idle", NEW q \in Prior(r), signal[q].x # signal[r].x
  PROVE  q \in Request /\ signal[q] # None /\ Collides(signal[q], signal[r])
BY DEF Base, Prior, Submitted, Collides

LEMMA HandleKeepsBase ==
  ASSUME Base, NEW r \in Request, Handle(r) \/ Die(r)
  PROVE  Base'
<1>a. TypeOK /\ Signed /\ OneStore /\ Submitted /\ FoundCollides BY DEF Base
<1>b. /\ seenEpoch \in [Request -> Epoch] /\ found \in [Request -> Request \union {None}]
      /\ edge \in [Request -> Nat]
  BY <1>a DEF TypeOK
<1>c. ASSUME NEW answer \in Answer, Reply(r, answer), pc[r] # "idle",
             UNCHANGED <<clock, leaf, store, signal, accepted, slashed, parted>>
      PROVE  Base'
  <2>1. answer \notin Writers \union {"idle", "collision"} BY DEF Answer, Writers
  <2>2. QED BY <1>a, <1>c, <2>1, ReplyType, RequestFrame
<1>d. ASSUME NEW label \in PC, Goto(r, label), pc[r] # "idle", label # "idle",
             label # "collision", label \in Writers => Persistence = "PERSISTENT",
             UNCHANGED <<clock, leaf, store, signal, accepted, slashed, parted>>,
             seenEpoch' \in [Request -> Epoch], edge' \in [Request -> Nat], UNCHANGED found
      PROVE  Base'
  BY <1>a, <1>b, <1>d, GotoType, RequestFrame
<1>e. ASSUME NEW q \in Prior(r), Classify(r, q), pc[r] # "idle",
             UNCHANGED <<clock, leaf, store, signal, accepted, slashed, parted>>
      PROVE  Base'
  <2>1. q \in Request BY DEF Prior
  <2>2. /\ pc' \in [Request -> PC] /\ pc'[r] \in {"duplicate", "collision"}
        /\ \A o \in Request \ {r} : pc'[o] = pc[o] /\ found'[o] = found[o]
        /\ seenEpoch' \in [Request -> Epoch] /\ found' \in [Request -> Request \union {None}]
        /\ edge' \in [Request -> Nat]
        /\ pc'[r] = "collision" => found'[r] = q /\ signal[q].x # signal[r].x
    BY <1>a, <1>e, <2>1, ClassifyType
  <2>3. pc'[r] = "collision" => signal[q] # None /\ Collides(signal[q], signal[r])
    BY <1>e, <2>2, PriorFound
  <2>4. QED BY <1>e, <2>1, <2>2, <2>3, RequestFrame DEF Writers
<1> USE DEF PC, Answer
<1>1. CASE ReadLeaves(r)
  BY <1>1, <1>b, <1>c, <1>d DEF ReadLeaves, local, Writers
<1>2. CASE Verify(r)
  <2>1. CASE Goto(r, "check") /\ seenEpoch' = [seenEpoch EXCEPT ![r] = clock]
             /\ UNCHANGED <<found, edge>>
    <3>1. seenEpoch' \in [Request -> Epoch] BY <1>a, <2>1 DEF TypeOK
    <3>2. QED BY <1>2, <1>b, <1>d, <2>1, <3>1 DEF Verify, Writers
  <2>2. QED BY <1>2, <1>c, <2>1 DEF Verify
<1>3. CASE Check(r)
  BY <1>3, <1>b, <1>d, <1>e DEF Check, local
<1>4. CASE Store(r)
  <2>1. CASE Prior(r) # {}
    BY <1>4, <1>a, <1>b, <1>d, <2>1 DEF Store, store, local, OneStore, Writers
  <2>2. CASE Prior(r) = {}
    <3>0. Cardinality(accepted) + 1 \in Nat BY <1>a, StampType
    <3>1. /\ message' = message \union {[by |-> r, at |-> Cardinality(accepted) + 1]}
          /\ accepted' = accepted \union {r} /\ Goto(r, "pruneRead")
          /\ UNCHANGED <<clock, leaf, point, tombstone, signal, local, slashed, parted>>
          /\ pc[r] = "store"
      BY <1>4, <2>2 DEF Store
    <3>2. pc' \in [Request -> PC] /\ pc'[r] = "pruneRead" /\ \A q \in Request \ {r} : pc'[q] = pc[q]
      BY <1>a, <3>1, GotoType
    <3>3. message' \in SUBSET Row /\ accepted' \in SUBSET Request BY <1>a, <3>0, <3>1 DEF TypeOK
    <3>4. TypeOK' BY <1>a, <3>1, <3>2, <3>3 DEF TypeOK, local
    <3>5. signal[r] # None /\ Persistence = "PERSISTENT" BY <1>a, <3>1 DEF Signed, OneStore, Writers
    <3>6. Signed' BY <1>a, <3>1, <3>2 DEF Signed
    <3>7. OneStore' BY <1>a, <3>1, <3>2, <3>5 DEF OneStore
    <3>8. Submitted' BY <1>a, <3>1, <3>5 DEF Submitted
    <3>9. FoundCollides' BY <1>a, <3>1, <3>2 DEF FoundCollides, local
    <3>10. QED BY <3>4, <3>6, <3>7, <3>8, <3>9 DEF Base
  <2>3. QED BY <2>1, <2>2
<1>5. CASE Recheck(r)
  BY <1>5, <1>c, <1>e DEF Recheck
<1>6. CASE CheckAndRecord(r)
  <2> DEFINE prior == {p \in point : SameNullifier(signal[p.by], signal[r])}
  <2>1. ASSUME NEW p \in prior, Classify(r, p.by) PROVE Base'
    <3>0. UNCHANGED <<clock, leaf, store, signal, accepted, slashed, parted>> /\ pc[r] = "check"
      BY <1>6, <2>1 DEF CheckAndRecord, store
    <3>1. p.by \in Request /\ signal[p.by] # None BY <1>a DEF TypeOK, Submitted
    <3>2. /\ pc' \in [Request -> PC] /\ pc'[r] \in {"duplicate", "collision"}
          /\ \A o \in Request \ {r} : pc'[o] = pc[o] /\ found'[o] = found[o]
          /\ seenEpoch' \in [Request -> Epoch] /\ found' \in [Request -> Request \union {None}]
          /\ edge' \in [Request -> Nat]
          /\ pc'[r] = "collision" => found'[r] = p.by /\ signal[p.by].x # signal[r].x
      BY <1>a, <2>1, <3>1, ClassifyType
    <3>3. pc'[r] = "collision" => Collides(signal[p.by], signal[r]) BY <3>2 DEF Collides
    <3>4. QED BY <3>0, <3>1, <3>2, <3>3, RequestFrame DEF Writers
  <2>2. CASE prior = {}
    <3>1. /\ point' = point \union {[by |-> r, at |-> clock]}
          /\ accepted' = accepted \union {r} /\ Goto(r, "publish")
          /\ UNCHANGED <<clock, leaf, message, tombstone, signal, local, slashed, parted>>
          /\ pc[r] = "check" /\ Persistence = "EPHEMERAL"
      BY <1>6, <2>2 DEF CheckAndRecord
    <3>2. pc' \in [Request -> PC] /\ pc'[r] = "publish" /\ \A q \in Request \ {r} : pc'[q] = pc[q]
      BY <1>a, <3>1, GotoType
    <3>3. point' \in SUBSET Point /\ accepted' \in SUBSET Request BY <1>a, <3>1 DEF TypeOK
    <3>4. TypeOK' BY <1>a, <3>1, <3>2, <3>3 DEF TypeOK, local
    <3>5. signal[r] # None BY <1>a, <3>1 DEF Signed
    <3>6. Signed' BY <1>a, <3>1, <3>2 DEF Signed
    <3>7. OneStore' BY <1>a, <3>1, <3>2 DEF OneStore, Writers
    <3>8. Submitted' BY <1>a, <3>1, <3>5 DEF Submitted
    <3>9. FoundCollides' BY <1>a, <3>1, <3>2 DEF FoundCollides, local
    <3>10. QED BY <3>4, <3>6, <3>7, <3>8, <3>9 DEF Base
  <2>3. QED BY <1>6, <2>1, <2>2 DEF CheckAndRecord
<1>7. CASE Collision(r)
  <2>1. found[r] \in Request /\ signal[found[r]] \in Signal
    BY <1>7, <1>a DEF Collision, FoundCollides, TypeOK
  <2>2. signal[found[r]].id \in Identity BY <2>1
  <2>3. /\ pc' \in [Request -> PC] /\ pc'[r] = "banned"
        /\ \A q \in Request \ {r} : pc'[q] = pc[q] /\ found'[q] = found[q]
        /\ seenEpoch' \in [Request -> Epoch] /\ found' \in [Request -> Request \union {None}]
        /\ edge' \in [Request -> Nat]
    BY <1>7, <1>a, ReplyType DEF Collision
  <2>4. /\ leaf' \in [Member -> Identity \union {None}] /\ slashed' \in SUBSET Slash
        /\ parted' \in SUBSET Request
    BY <1>7, <1>a, <2>2 DEF Collision, TypeOK, Tree!Leave, Parting
  <2>5. UNCHANGED <<clock, store, signal, accepted>> /\ pc[r] = "collision"
    BY <1>7 DEF Collision
  <2>6. TypeOK' BY <1>a, <2>3, <2>4, <2>5 DEF TypeOK, store
  <2>7. Signed' BY <1>a, <2>3, <2>5 DEF Signed
  <2>8. OneStore' /\ Submitted' BY <1>a, <2>3, <2>5 DEF OneStore, Submitted, store, Writers
  <2>9. FoundCollides' BY <1>a, <2>3, <2>5 DEF FoundCollides
  <2>10. QED BY <2>6, <2>7, <2>8, <2>9 DEF Base
<1>8. CASE PruneRead(r)
  <2>1. Persistence = "PERSISTENT" BY <1>8, <1>a DEF PruneRead, OneStore, Writers
  <2>2. edge' \in [Request -> Nat] BY <1>8, <1>a DEF PruneRead, TypeOK
  <2>3. seenEpoch' = seenEpoch /\ found' = found /\ pc[r] = "pruneRead"
        /\ UNCHANGED <<clock, leaf, store, signal, accepted, slashed, parted>>
    BY <1>8 DEF PruneRead
  <2>4. Goto(r, "publish") \/ Goto(r, "pruneDelete") BY <1>8 DEF PruneRead
  <2>5. QED BY <1>b, <1>d, <2>1, <2>2, <2>3, <2>4
<1>9. CASE PruneDelete(r)
  <2>1. message' \subseteq message BY <1>9 DEF PruneDelete
  <2>2. pc' \in [Request -> PC] /\ pc'[r] = "publish" /\ \A q \in Request \ {r} : pc'[q] = pc[q]
    BY <1>9, <1>a, GotoType DEF PruneDelete
  <2>3. UNCHANGED <<clock, leaf, point, tombstone, signal, local, accepted, slashed, parted>>
        /\ pc[r] = "pruneDelete"
    BY <1>9 DEF PruneDelete
  <2>4. TypeOK' BY <1>a, <2>1, <2>2, <2>3 DEF TypeOK, local
  <2>5. Signed' BY <1>a, <2>2, <2>3 DEF Signed
  <2>6. OneStore' BY <1>a, <2>1, <2>2, <2>3 DEF OneStore, Writers
  <2>7. Submitted' BY <1>a, <2>1, <2>3 DEF Submitted
  <2>8. FoundCollides' BY <1>a, <2>2, <2>3 DEF FoundCollides, local
  <2>9. QED BY <2>4, <2>5, <2>6, <2>7, <2>8 DEF Base
<1>10. CASE Publish(r)
  BY <1>10, <1>c DEF Publish
<1>11. CASE Die(r)
  BY <1>11, <1>c DEF Die
<1>12. QED BY <1>1, <1>2, <1>3, <1>4, <1>5, <1>6, <1>7, <1>8, <1>9, <1>10, <1>11 DEF Handle

LEMMA BaseStutter == Base /\ UNCHANGED vars => Base'
BY DEF vars, store, local, Base, TypeOK, Signed, OneStore, Submitted, FoundCollides

LEMMA BaseNext == Base /\ [Next]_vars => Base'
BY EnvironmentKeepsBase, SubmitKeepsBase, HandleKeepsBase, BaseStutter DEF Next, AllDone

LEMMA BaseInvariant == Spec => []Base
BY BaseInit, BaseNext, PTL DEF Spec

\* Tables, records and the requests' state keep their types.
THEOREM PipelineTypes == Spec => []TypeOK
<1>1. Base => TypeOK BY DEF Base
<1>2. QED BY <1>1, BaseInvariant, PTL

-----------------------------------------------------------------------------
(* Who is slashed.                                                          *)

\* A proof, once sent, is the request's for good.
LEMMA SignalStable ==
  ASSUME Base, [Next]_vars
  PROVE  \A q \in Request : signal[q] # None => signal'[q] = signal[q]
<1>1. CASE \E r \in Request : Submit(r)
  <2>1. PICK r \in Request : Submit(r) BY <1>1
  <2>2. signal[r] = None BY <2>1 DEF Base, Signed, Submit
  <2>3. QED BY <2>1, <2>2 DEF Submit, Base, TypeOK
<1>2. CASE ~\E r \in Request : Submit(r)
  <2>1. UNCHANGED signal
    BY <1>2 DEF Next, Environment, Tick, ChangeTree, DeleteMessage, Expire,
         Handle, ReadLeaves, Verify, Check, Store, Recheck, CheckAndRecord, Collision,
         PruneRead, PruneDelete, Publish, Die, AllDone, vars
  <2>2. QED BY <2>1
<1>3. QED BY <1>1, <1>2

\* A member is slashed only for two different contents under one nullifier: what
\* reaches banOnCollision are two signals of one line.
THEOREM SlashedDoubleSignalled == Spec => []OnlyDoubleSignalersSlashed
<1>1. Init => OnlyDoubleSignalersSlashed BY DEF Init, OnlyDoubleSignalersSlashed
<1>2. ASSUME Base, OnlyDoubleSignalersSlashed, [Next]_vars PROVE OnlyDoubleSignalersSlashed'
  <2>1. \A q \in Request : signal[q] # None => signal'[q] = signal[q] BY <1>2, SignalStable
  <2>2. ASSUME NEW s \in slashed'
        PROVE  s \in slashed \/ \E q, r \in Request :
                  /\ signal[q] # None /\ signal[r] # None
                  /\ Collides(signal[q], signal[r]) /\ signal[r].id = s.id
    <3>1. CASE \E r \in Request : Collision(r)
      <4>1. PICK r \in Request : Collision(r) BY <3>1
      <4>2. /\ found[r] \in Request /\ signal[found[r]] # None
            /\ Collides(signal[found[r]], signal[r]) /\ signal[r] # None
        BY <1>2, <4>1 DEF Base, FoundCollides, Collision, Signed
      <4>3. s \in slashed \/ s.id = signal[found[r]].id BY <4>1, <2>2 DEF Collision
      <4>4. QED BY <4>2, <4>3 DEF Collides, SameNullifier
    <3>2. CASE ~\E r \in Request : Collision(r)
      <4>1. UNCHANGED slashed
        BY <1>2, <3>2 DEF Next, Environment, Tick, ChangeTree, DeleteMessage, Expire,
             Submit, Handle, ReadLeaves, Verify, Check, Store, Recheck, CheckAndRecord,
             PruneRead, PruneDelete, Publish, Die, AllDone, vars
      <4>2. QED BY <4>1, <2>2
    <3>3. QED BY <3>1, <3>2
  <2>3. QED BY <1>2, <2>1, <2>2 DEF OnlyDoubleSignalersSlashed
<1>3. Base /\ OnlyDoubleSignalersSlashed /\ [Next]_vars => OnlyDoubleSignalersSlashed'
  BY <1>2
<1>4. QED BY <1>1, <1>3, BaseInvariant, PTL DEF Spec

-----------------------------------------------------------------------------
(* One signal per nullifier.                                                *)

Timed == Sampled /\ InTime /\ RecordFresh /\ Retained /\ AcceptedOnce

\* What an accepted signal leaves behind is what an equal one finds.
LEMMA SpentIsFound ==
  ASSUME Base, Timed, NEW r \in Request, pc[r] \in {"check", "store"},
         NEW q \in accepted, SameNullifier(signal[q], signal[r])
  PROVE  \/ q \in Prior(r)
         \/ \E p \in point : SameNullifier(signal[p.by], signal[r])
<1>1. q \in Request /\ signal[q] \in Signal /\ signal[r] \in Signal
  BY DEF Base, TypeOK, Submitted, Signed
<1>2. clock \in Nat BY BoundAssumption DEF Base, TypeOK
<1>3. ~(signal[q].epoch + 1 < clock)
  BY <1>1, <1>2, BoundAssumption DEF Timed, InTime, SameNullifier
<1>4. QED BY <1>1, <1>3 DEF Timed, Retained, Prior

\* Steps that only move requests, none of them into the checked part.
LEMMA TimedFrame ==
  ASSUME Base, Base', Timed, UNCHANGED <<clock, message, point, signal, accepted>>,
         NEW r \in Request,
         \A q \in Request \ {r} : pc'[q] = pc[q] /\ seenEpoch'[q] = seenEpoch[q],
         seenEpoch'[r] <= clock,
         pc'[r] \in {"check", "store", "recheck"} =>
            clock <= signal[r].epoch + 1 /\ signal[r].epoch <= clock + 1
  PROVE  Timed'
<1>1. Sampled' BY DEF Timed, Sampled
<1>2. InTime' BY DEF Timed, InTime
<1>3. RecordFresh' /\ Retained' /\ AcceptedOnce'
  BY DEF Timed, RecordFresh, Retained, AcceptedOnce
<1>4. QED BY <1>1, <1>2, <1>3 DEF Timed

LEMMA EnvironmentKeepsTimed ==
  ASSUME Prompt, Base, Timed, Environment
  PROVE  Timed'
<1>a. /\ clock \in Nat /\ point \in SUBSET Point /\ signal \in [Request -> Signal \union {None}]
      /\ seenEpoch \in [Request -> Epoch] /\ accepted \subseteq Request
      /\ \A p \in point : signal[p.by] \in Signal
      /\ \A q \in accepted : signal[q] \in Signal
      /\ \A q \in Request : pc[q] # "idle" => signal[q] \in Signal
  BY BoundAssumption DEF Base, TypeOK, Submitted, Signed
<1>1. CASE Tick
  <2>1. /\ clock' = clock + 1
        /\ UNCHANGED <<message, point, signal, accepted, pc, seenEpoch>>
        /\ \A q \in Request : pc[q] \in {"check", "store", "recheck"} => clock <= signal[q].epoch
    BY <1>1 DEF Tick, store, local
  <2>2. Sampled' BY <1>a, <2>1 DEF Timed, Sampled
  <2>3. InTime' BY <1>a, <2>1 DEF Timed, InTime
  <2>4. RecordFresh' BY <1>a, <2>1 DEF Timed, RecordFresh
  <2>5. Retained' BY <1>a, <2>1 DEF Timed, Retained
  <2>6. AcceptedOnce' BY <2>1 DEF Timed, AcceptedOnce
  <2>7. QED BY <2>2, <2>3, <2>4, <2>5, <2>6 DEF Timed
<1>2. CASE Expire
  <2>1. PICK p \in point : p.at + TTL <= clock /\ point' = point \ {p} BY <1>2 DEF Expire
  <2>2. UNCHANGED <<clock, message, signal, accepted, pc, seenEpoch>> BY <1>2 DEF Expire, local
  <2>3. signal[p.by].epoch + 1 < clock
    BY <1>a, <2>1 DEF Timed, RecordFresh, TTL
  <2>4. Retained' BY <2>1, <2>2, <2>3 DEF Timed, Retained
  <2>5. RecordFresh' BY <2>1, <2>2 DEF Timed, RecordFresh
  <2>6. Sampled' /\ InTime' /\ AcceptedOnce' BY <2>2 DEF Timed, Sampled, InTime, AcceptedOnce
  <2>7. QED BY <2>4, <2>5, <2>6 DEF Timed
<1>3. CASE DeleteMessage \/ ChangeTree
  <2>1. UNCHANGED <<clock, message, point, signal, accepted, pc, seenEpoch>>
    BY <1>3 DEF DeleteMessage, ChangeTree, store, local
  <2>2. QED BY <2>1 DEF Timed, Sampled, InTime, RecordFresh, Retained, AcceptedOnce
<1>4. QED BY <1>1, <1>2, <1>3 DEF Environment

LEMMA SubmitKeepsTimed ==
  ASSUME Base, Base', Timed, NEW r \in Request, Submit(r)
  PROVE  Timed'
<1>1. /\ UNCHANGED <<clock, message, point, accepted, seenEpoch>>
      /\ \A q \in Request \ {r} : signal'[q] = signal[q] /\ pc'[q] = pc[q]
      /\ signal[r] = None /\ pc'[r] = "readLeaves"
  BY DEF Submit, store, local, Base, TypeOK, Signed, Goto
<1>2. /\ \A q \in accepted : q # r /\ q \in Request
      /\ \A p \in point : p.by # r /\ p.by \in Request
  BY <1>1 DEF Base, Submitted, TypeOK
<1>3. Sampled' /\ InTime' BY <1>1 DEF Timed, Sampled, InTime
<1>4. RecordFresh' BY <1>1, <1>2 DEF Timed, RecordFresh
<1>5. Retained' BY <1>1, <1>2 DEF Timed, Retained
<1>6. AcceptedOnce' BY <1>1, <1>2 DEF Timed, AcceptedOnce
<1>7. QED BY <1>3, <1>4, <1>5, <1>6 DEF Timed

LEMMA HandleKeepsTimed ==
  ASSUME Base, Base', Timed, NEW r \in Request, Handle(r) \/ Die(r)
  PROVE  Timed'
<1>a. /\ TypeOK /\ clock \in Nat /\ seenEpoch \in [Request -> Epoch]
      /\ seenEpoch[r] <= clock /\ 0 <= clock
      /\ accepted \subseteq Request /\ pc \in [Request -> PC]
      /\ pc[r] # "idle" => signal[r] \in Signal
      /\ \A q \in accepted : signal[q] \in Signal
      /\ \A m \in message : signal[m.by] \in Signal /\ m.by \in Request
  BY BoundAssumption DEF Base, TypeOK, Signed, Submitted, Timed, Sampled
<1>b. ASSUME NEW answer \in Answer, Reply(r, answer),
             UNCHANGED <<clock, message, point, signal, accepted>>
      PROVE  Timed'
  <2>1. answer \notin {"check", "store", "recheck"} BY DEF Answer
  <2>2. QED BY <1>a, <1>b, <2>1, ReplyType, TimedFrame
<1>c. ASSUME NEW q \in Request, Classify(r, q),
             UNCHANGED <<clock, message, point, signal, accepted>>
      PROVE  Timed'
  BY <1>a, <1>c, ClassifyType, TimedFrame
<1>d. ASSUME NEW label \in PC, Goto(r, label), UNCHANGED seenEpoch,
             label \in {"check", "store", "recheck"} =>
                pc[r] \in {"check", "store", "recheck"},
             UNCHANGED <<clock, message, point, signal, accepted>>
      PROVE  Timed'
  BY <1>a, <1>d, GotoType, TimedFrame DEF Timed, InTime
<1> USE DEF PC, Answer
<1>1. CASE ReadLeaves(r) BY <1>1, <1>b, <1>d DEF ReadLeaves, local, store
<1>2. CASE Verify(r)
  <2>1. CASE InWindow(signal[r].epoch, clock) /\ Goto(r, "check")
             /\ seenEpoch' = [seenEpoch EXCEPT ![r] = clock]
    <3>1. /\ pc'[r] = "check" /\ \A q \in Request \ {r} : pc'[q] = pc[q]
          /\ seenEpoch'[r] = clock /\ \A q \in Request \ {r} : seenEpoch'[q] = seenEpoch[q]
      BY <1>a, <2>1, GotoType
    <3>2. UNCHANGED <<clock, message, point, signal, accepted>> BY <1>2 DEF Verify, store
    <3>3. clock <= signal[r].epoch + 1 /\ signal[r].epoch <= clock + 1 BY <2>1 DEF InWindow
    <3>4. QED BY <1>a, <3>1, <3>2, <3>3, TimedFrame
  <2>2. QED BY <1>2, <1>b, <2>1 DEF Verify, store
<1>3. CASE Check(r) BY <1>3, <1>c, <1>d DEF Check, local, store, Prior
<1>4. CASE Store(r)
  <2>1. CASE Prior(r) # {}
    BY <1>4, <1>d, <2>1 DEF Store, local
  <2>2. CASE Prior(r) = {}
    <3>1. /\ message' = message \union {[by |-> r, at |-> Cardinality(accepted) + 1]}
          /\ accepted' = accepted \union {r} /\ Goto(r, "pruneRead") /\ pc[r] = "store"
          /\ UNCHANGED <<clock, point, signal, seenEpoch>>
      BY <1>4, <2>2 DEF Store, local
    <3>2. pc'[r] = "pruneRead" /\ \A q \in Request \ {r} : pc'[q] = pc[q]
      BY <1>a, <3>1, GotoType
    <3>3. point = {} BY <3>1 DEF Base, OneStore, Writers
    <3>4. \A q \in accepted : ~SameNullifier(signal[q], signal[r])
      BY <2>2, <3>1, <3>3, SpentIsFound
    <3>5. AcceptedOnce' BY <3>1, <3>4 DEF Timed, AcceptedOnce, SameNullifier
    <3>6. \E m \in message' : m.by = r
      <4>1. [by |-> r, at |-> Cardinality(accepted) + 1] \in message' BY <3>1
      <4>2. QED BY <4>1, Zenon
    <3>7. Retained' BY <3>1, <3>6 DEF Timed, Retained
    <3>8. Sampled' BY <3>1 DEF Timed, Sampled
    <3>9. InTime' BY <3>1, <3>2 DEF Timed, InTime
    <3>10. RecordFresh' BY <3>1 DEF Timed, RecordFresh
    <3>11. QED BY <3>5, <3>7, <3>8, <3>9, <3>10 DEF Timed
  <2>3. QED BY <2>1, <2>2
<1>5. CASE Recheck(r) BY <1>5, <1>b, <1>c DEF Recheck, store, Prior
<1>6. CASE CheckAndRecord(r)
  <2> DEFINE prior == {p \in point : SameNullifier(signal[p.by], signal[r])}
  <2>1. ASSUME NEW p \in prior, Classify(r, p.by), UNCHANGED <<point, accepted>> PROVE Timed'
    <3>1. p.by \in Request BY <1>a DEF TypeOK
    <3>2. QED BY <1>6, <1>c, <2>1, <3>1 DEF CheckAndRecord
  <2>2. CASE prior = {}
    <3>1. /\ point' = point \union {[by |-> r, at |-> clock]}
          /\ accepted' = accepted \union {r} /\ Goto(r, "publish") /\ pc[r] = "check"
          /\ UNCHANGED <<clock, message, signal, seenEpoch>> /\ Persistence = "EPHEMERAL"
      BY <1>6, <2>2 DEF CheckAndRecord, local
    <3>2. pc'[r] = "publish" /\ \A q \in Request \ {r} : pc'[q] = pc[q]
      BY <1>a, <3>1, GotoType
    <3>3. message = {} BY <3>1 DEF Base, OneStore
    <3>4. \A q \in accepted : ~SameNullifier(signal[q], signal[r])
      BY <2>2, <3>1, <3>3, SpentIsFound DEF Prior
    <3>5. AcceptedOnce' BY <3>1, <3>4 DEF Timed, AcceptedOnce, SameNullifier
    <3>6. \E p \in point' : p.by = r
      <4>1. [by |-> r, at |-> clock] \in point' BY <3>1
      <4>2. QED BY <4>1, Zenon
    <3>7. Retained' BY <3>1, <3>6 DEF Timed, Retained
    <3>8. Sampled' BY <3>1 DEF Timed, Sampled
    <3>9. InTime' BY <3>1, <3>2 DEF Timed, InTime
    <3>10. signal[r].epoch <= clock + 1 BY <3>1 DEF Timed, InTime
    <3>11. RecordFresh' BY <1>a, <3>1, <3>10 DEF Timed, RecordFresh
    <3>12. QED BY <3>5, <3>7, <3>8, <3>9, <3>11 DEF Timed
  <2>3. QED BY <1>6, <2>1, <2>2 DEF CheckAndRecord
<1>7. CASE Collision(r) BY <1>7, <1>b DEF Collision, store
<1>8. CASE PruneRead(r) BY <1>8, <1>d DEF PruneRead, store
<1>9. CASE PruneDelete(r)
  <2>1. /\ message' = message \ Prunable(r) /\ Goto(r, "publish")
        /\ UNCHANGED <<clock, point, signal, seenEpoch, accepted>>
    BY <1>9 DEF PruneDelete, local
  <2>2. pc'[r] = "publish" /\ \A q \in Request \ {r} : pc'[q] = pc[q]
    BY <1>a, <2>1, GotoType
  <2>3. \A m \in Prunable(r) : signal[m.by].epoch + 1 < clock
    BY <1>a DEF Prunable
  <2>4. Retained' BY <2>1, <2>3 DEF Timed, Retained
  <2>5. Sampled' BY <2>1 DEF Timed, Sampled
  <2>6. InTime' BY <2>1, <2>2 DEF Timed, InTime
  <2>7. RecordFresh' /\ AcceptedOnce' BY <2>1 DEF Timed, RecordFresh, AcceptedOnce
  <2>8. QED BY <2>4, <2>5, <2>6, <2>7 DEF Timed
<1>10. CASE Publish(r) BY <1>10, <1>b DEF Publish, store
<1>11. CASE Die(r) BY <1>11, <1>b DEF Die, store
<1>12. QED BY <1>1, <1>2, <1>3, <1>4, <1>5, <1>6, <1>7, <1>8, <1>9, <1>10, <1>11 DEF Handle

\* When no epoch ends under a send that would lose it, no nullifier gets two signals
\* through, in a room of either kind, however sends, prunes, deletes and expiries
\* interleave.
THEOREM SpentOnce == Prompt => (Spec => []AcceptedOnce)
<1>1. Init => Timed
  BY DEF Init, Timed, Sampled, InTime, RecordFresh, Retained, AcceptedOnce
<1>2. Timed /\ UNCHANGED vars => Timed'
  BY DEF Timed, Sampled, InTime, RecordFresh, Retained, AcceptedOnce, vars, store, local
<1>3. Prompt /\ Base /\ Base' /\ Timed /\ [Next]_vars => Timed'
  BY <1>2, EnvironmentKeepsTimed, SubmitKeepsTimed, HandleKeepsTimed DEF Next, AllDone
<1>4. Timed => AcceptedOnce BY DEF Timed
<1>5. SUFFICES ASSUME Prompt PROVE Spec => []AcceptedOnce OBVIOUS
<1>6. Base /\ Base' /\ Timed /\ [Next]_vars => Timed' BY <1>3, <1>5
<1>7. QED BY <1>1, <1>4, <1>6, BaseInvariant, PTL DEF Spec

-----------------------------------------------------------------------------
(* The prune.                                                               *)

AtOrAbove(at) == {m \in message : m.at >= at}

\* Between its two queries a prune has Cap rows at or above its boundary: another one
\* deletes below its own boundary, and that keeps Cap rows above either of them.
EdgeKept ==
    /\ IsFiniteSet(message)
    /\ \A r \in Request : pc[r] = "pruneDelete" => Cardinality(AtOrAbove(edge[r])) >= Cap

Below(at) == {m \in message : m.at < at}

\* The one step that takes rows away is a prune's second query ...
LEMMA RowsStep ==
  ASSUME Base, [Next]_vars
  PROVE  \/ \E r \in Request : /\ pc[r] = "pruneDelete"
                               /\ message' \subseteq message
                               /\ message \ message' \subseteq Below(edge[r])
         \/ \E row \in Row : message' = message \union {row}
         \/ message' = message
<1>1. ASSUME NEW r \in Request, PruneDelete(r)
      PROVE  /\ pc[r] = "pruneDelete" /\ message' \subseteq message
             /\ message \ message' \subseteq Below(edge[r])
  BY <1>1 DEF PruneDelete, Prunable, Below
<1>2. ASSUME NEW r \in Request, Store(r)
      PROVE  message' = message \/ \E row \in Row : message' = message \union {row}
  <2>1. Cardinality(accepted) + 1 \in Nat BY StampType DEF Base
  <2>2. [by |-> r, at |-> Cardinality(accepted) + 1] \in Row BY <2>1
  <2>3. QED BY <1>2, <2>2 DEF Store
<1>3. CASE ~\E r \in Request : Store(r) \/ PruneDelete(r)
  <2>1. message' = message
    BY <1>3 DEF Next, Environment, Tick, ChangeTree, DeleteMessage, Expire, Submit,
         Handle, ReadLeaves, Verify, Check, Recheck, CheckAndRecord, Collision, PruneRead,
         Publish, Die, AllDone, vars, store
  <2>2. QED BY <2>1
<1>4. QED BY <1>1, <1>2, <1>3

\* ... and the one that sets a boundary its first.
LEMMA EdgeStep ==
  ASSUME Base, [Next]_vars, NEW r \in Request, pc'[r] = "pruneDelete"
  PROVE  \/ pc[r] = "pruneDelete" /\ edge'[r] = edge[r]
         \/ /\ message' = message
            /\ \E m \in message : Cardinality(Newer(m.at)) = Cap - 1 /\ edge'[r] = m.at
<1>a. TypeOK BY DEF Base
<1>b. pc \in [Request -> PC] /\ edge \in [Request -> Nat] BY <1>a DEF TypeOK
<1>1. ASSUME NEW q \in Request, NEW answer \in Answer, Reply(q, answer)
      PROVE  pc[r] = "pruneDelete" /\ edge'[r] = edge[r]
  <2>1. r # q BY <1>a, <1>1, ReplyType DEF Answer
  <2>2. QED BY <1>b, <1>1, <2>1 DEF Reply, Goto
<1>2. ASSUME NEW q \in Request, NEW label, label # "pruneDelete", Goto(q, label), UNCHANGED edge
      PROVE  pc[r] = "pruneDelete" /\ edge'[r] = edge[r]
  BY <1>b, <1>2 DEF Goto
<1>3. ASSUME NEW q \in Request, NEW p, Classify(q, p)
      PROVE  pc[r] = "pruneDelete" /\ edge'[r] = edge[r]
  BY <1>1, <1>2, <1>3 DEF Classify, Answer
<1>4. ASSUME NEW q \in Request, PruneRead(q) PROVE
         \/ pc[r] = "pruneDelete" /\ edge'[r] = edge[r]
         \/ /\ message' = message
            /\ \E m \in message : Cardinality(Newer(m.at)) = Cap - 1 /\ edge'[r] = m.at
  BY <1>b, <1>2, <1>4 DEF PruneRead, store, Goto
<1>5. ASSUME NEW q \in Request, Submit(q) \/ Handle(q) \/ Die(q), ~PruneRead(q)
      PROVE  pc[r] = "pruneDelete" /\ edge'[r] = edge[r]
  <2>1. CASE Submit(q) BY <1>2, <2>1 DEF Submit, local
  <2>2. CASE ReadLeaves(q) BY <1>1, <1>2, <2>2 DEF ReadLeaves, local, Answer
  <2>3. CASE Verify(q) BY <1>1, <1>2, <2>3 DEF Verify, Answer
  <2>4. CASE Check(q) BY <1>2, <1>3, <2>4 DEF Check, local
  <2>5. CASE Store(q) BY <1>2, <2>5 DEF Store, local
  <2>6. CASE Recheck(q) BY <1>1, <1>3, <2>6 DEF Recheck, Answer
  <2>7. CASE CheckAndRecord(q) BY <1>2, <1>3, <2>7 DEF CheckAndRecord, local
  <2>8. CASE Collision(q) BY <1>1, <2>8 DEF Collision, Answer
  <2>9. CASE PruneDelete(q) BY <1>2, <2>9 DEF PruneDelete, local
  <2>10. CASE Publish(q) BY <1>1, <2>10 DEF Publish, Answer
  <2>11. CASE Die(q) BY <1>1, <2>11 DEF Die, Answer
  <2>12. QED BY <1>5, <2>1, <2>2, <2>3, <2>4, <2>5, <2>6, <2>7, <2>8, <2>9, <2>10, <2>11 DEF Handle
<1>6. CASE Environment \/ AllDone \/ UNCHANGED vars
  BY <1>6 DEF Environment, Tick, ChangeTree, DeleteMessage, Expire, AllDone, vars, local
<1>7. QED BY <1>4, <1>5, <1>6 DEF Next

\* Rows a boundary keeps are still at or above any boundary that is not higher.
LEMMA AboveKept ==
  ASSUME EdgeKept, NEW r \in Request, NEW q \in Request, pc[q] = "pruneDelete",
         pc[r] = "pruneDelete", edge \in [Request -> Nat], message \in SUBSET Row,
         NEW rest, rest \subseteq message, message \ rest \subseteq Below(edge[q])
  PROVE  Cardinality({m \in rest : m.at >= edge[r]}) >= Cap
<1>a. \A m \in message : m.at \in Nat OBVIOUS
<1>b. Cap \in Nat /\ edge[q] \in Nat /\ edge[r] \in Nat BY CapAssumption
<1>c. IsFiniteSet(message) BY DEF EdgeKept
<1> DEFINE left == {m \in rest : m.at >= edge[r]}
<1>1. IsFiniteSet(rest) /\ IsFiniteSet(left) BY <1>c, FS_Subset
<1>2. CASE edge[q] <= edge[r]
  <2>1. AtOrAbove(edge[r]) \subseteq left BY <1>a, <1>b, <1>2 DEF AtOrAbove, Below
  <2>2. Cardinality(AtOrAbove(edge[r])) <= Cardinality(left) BY <1>1, <2>1, FS_Subset
  <2>3. QED BY <1>1, <1>b, <2>1, <2>2, FS_Subset, FS_CardinalityType DEF EdgeKept
<1>3. CASE edge[r] < edge[q]
  <2>1. AtOrAbove(edge[q]) \subseteq left BY <1>a, <1>b, <1>3 DEF AtOrAbove, Below
  <2>2. Cardinality(AtOrAbove(edge[q])) <= Cardinality(left) BY <1>1, <2>1, FS_Subset
  <2>3. QED BY <1>1, <1>b, <2>1, <2>2, FS_Subset, FS_CardinalityType DEF EdgeKept
<1>4. QED BY <1>b, <1>2, <1>3

LEMMA EdgeNext == Base /\ EdgeKept /\ [Next]_vars => EdgeKept'
<1> SUFFICES ASSUME Base, EdgeKept, [Next]_vars PROVE EdgeKept'
  OBVIOUS
<1>a. /\ message \in SUBSET Row /\ edge \in [Request -> Nat] /\ Cap \in Nat \ {0}
      /\ IsFiniteSet(message)
  BY CapAssumption DEF Base, TypeOK, EdgeKept
<1>1. IsFiniteSet(message')
  <2>1. CASE message' \subseteq message BY <1>a, <2>1, FS_Subset
  <2>2. ASSUME NEW row \in Row, message' = message \union {row} PROVE IsFiniteSet(message')
    BY <1>a, <2>2, FS_AddElement
  <2>3. QED BY <2>1, <2>2, RowsStep
<1>2. ASSUME NEW r \in Request, pc'[r] = "pruneDelete"
      PROVE  Cardinality({m \in message' : m.at >= edge'[r]}) >= Cap
  <2>1. ASSUME NEW m \in message, Cardinality(Newer(m.at)) = Cap - 1, edge'[r] = m.at,
               message' = message
        PROVE  Cardinality({n \in message' : n.at >= edge'[r]}) >= Cap
    <3> DEFINE above == {n \in message' : n.at >= edge'[r]}
    <3>1. \A n \in message : n.at \in Nat BY <1>a
    <3>2. m \notin Newer(m.at) /\ Newer(m.at) \union {m} \subseteq above
      BY <2>1, <3>1 DEF Newer
    <3>3. IsFiniteSet(Newer(m.at)) /\ IsFiniteSet(above) BY <1>a, <2>1, FS_Subset DEF Newer
    <3>4. Cardinality(Newer(m.at) \union {m}) = Cap
      <4>1. Cardinality(Newer(m.at) \union {m}) = Cardinality(Newer(m.at)) + 1
        BY <3>2, <3>3, FS_AddElement
      <4>2. QED BY <1>a, <2>1, <4>1
    <3>5. Cardinality(Newer(m.at) \union {m}) <= Cardinality(above) BY <3>2, <3>3, FS_Subset
    <3>6. QED BY <1>a, <3>3, <3>4, <3>5, FS_CardinalityType
  <2>2. CASE pc[r] = "pruneDelete" /\ edge'[r] = edge[r]
    <3>1. CASE message \subseteq message'
      <4>1. AtOrAbove(edge[r]) \subseteq {m \in message' : m.at >= edge'[r]}
        BY <2>2, <3>1 DEF AtOrAbove
      <4>2. IsFiniteSet({m \in message' : m.at >= edge'[r]}) BY <1>1, FS_Subset
      <4>3. QED BY <1>a, <2>2, <4>1, <4>2, FS_Subset, FS_CardinalityType DEF EdgeKept
    <3>2. CASE \E q \in Request : /\ pc[q] = "pruneDelete" /\ message' \subseteq message
                                  /\ message \ message' \subseteq Below(edge[q])
      BY <1>a, <2>2, <3>2, AboveKept
    <3>3. QED BY <3>1, <3>2, RowsStep
  <2>3. QED BY <1>2, <2>1, <2>2, EdgeStep
<1>3. QED BY <1>1, <1>2 DEF EdgeKept, AtOrAbove

\* No prune deletes one of the newest Cap rows, also when other sends have stored and
\* other prunes have deleted between its two queries.
THEOREM PruneKeepsNewest == Spec => NewestKept
<1>1. Init => EdgeKept BY FS_EmptySet DEF Init, EdgeKept
<1>2. ASSUME Base, EdgeKept, [Next]_vars,
             NEW m \in message, Cardinality(Newer(m.at)) < Cap
      PROVE  m \in message'
  <2>1. SUFFICES ASSUME m \notin message' PROVE FALSE OBVIOUS
  <2>2. PICK r \in Request : pc[r] = "pruneDelete" /\ m \in Below(edge[r])
    BY <1>2, <2>1, RowsStep
  <2>3. /\ \A n \in message : n.at \in Nat
        /\ edge[r] \in Nat /\ Cap \in Nat
    BY <1>2, CapAssumption DEF Base, TypeOK
  <2>4. AtOrAbove(edge[r]) \subseteq Newer(m.at) BY <2>2, <2>3 DEF AtOrAbove, Newer, Below
  <2>5. IsFiniteSet(Newer(m.at)) BY <1>2, FS_Subset DEF EdgeKept, Newer
  <2>6. Cardinality(AtOrAbove(edge[r])) <= Cardinality(Newer(m.at)) BY <2>4, <2>5, FS_Subset
  <2>7. QED BY <1>2, <2>2, <2>3, <2>4, <2>5, <2>6, FS_Subset, FS_CardinalityType DEF EdgeKept
<1>3. Base /\ EdgeKept /\ [Next]_vars =>
        [\A m \in message : Cardinality(Newer(m.at)) < Cap => m \in message']_vars
  BY <1>2
<1>4. QED BY <1>1, <1>3, EdgeNext, BaseInvariant, PTL DEF Spec, NewestKept

-----------------------------------------------------------------------------
(* Who is not slashed.                                                      *)

\* The leaf a send was proved from is there, or was taken away since: by the send's own
\* collision or by something else.
LeafHeld == \A r \in Request : Proven(r) => signal[r].id \in Leaf \/ r \in parted \/ Slashes(r)

FromAccepted ==
    /\ \A m \in message : m.by \in accepted
    /\ \A p \in point : p.by \in accepted

Repeats(r) == \E q \in accepted : SameNullifier(signal[q], signal[r]) /\ signal[q].x = signal[r].x

\* What an answer says is true of the signals accepted and of the tree.
Verdict ==
    \A r \in Request :
        /\ pc[r] \in {"pruneRead", "pruneDelete", "publish", "sent"} => r \in accepted
        /\ pc[r] = "duplicate" => Repeats(r)
        /\ pc[r] = "banned" => Slashes(r) \/ r \in parted

Judged == LeafHeld /\ FromAccepted /\ Verdict

\* What a step must do to keep the verdicts: r may move, the others stay, and who loses
\* the leaf is noted.
LEMMA JudgedFrame ==
  ASSUME Base, Judged, NEW r \in Request, UNCHANGED signal,
         accepted \subseteq accepted', accepted' \in SUBSET Request, FromAccepted',
         slashed \subseteq slashed', parted \subseteq parted',
         \A q \in Request \ {r} : pc'[q] = pc[q],
         \A q \in Request \ {r} : Proven(q) /\ signal[q].id \in Leaf =>
             signal[q].id \in Leaf' \/ q \in parted',
         Proven(r)' => signal[r].id \in Leaf' \/ r \in parted' \/ Slashes(r)',
         pc'[r] \in {"pruneRead", "pruneDelete", "publish", "sent"} => r \in accepted',
         pc'[r] = "duplicate" => Repeats(r),
         pc'[r] = "banned" => Slashes(r)' \/ r \in parted'
  PROVE  Judged'
<1>0. \A q \in Request : Slashes(q) => Slashes(q)' BY DEF Slashes
<1>1. LeafHeld'
  <2>1. ASSUME NEW q \in Request \ {r}, Proven(q)'
        PROVE  signal[q].id \in Leaf' \/ q \in parted' \/ Slashes(q)'
    <3>1. Proven(q) BY <2>1 DEF Proven
    <3>2. QED BY <1>0, <3>1 DEF Judged, LeafHeld
  <2>2. QED BY <2>1 DEF LeafHeld
<1>2. ASSUME NEW q \in Request, Repeats(q) PROVE Repeats(q)' BY <1>2 DEF Repeats, SameNullifier
<1>3. ASSUME NEW q \in Request
      PROVE  /\ pc'[q] \in {"pruneRead", "pruneDelete", "publish", "sent"} => q \in accepted'
             /\ pc'[q] = "duplicate" => Repeats(q)'
             /\ pc'[q] = "banned" => Slashes(q)' \/ q \in parted'
  <2>1. CASE q = r BY <1>2, <2>1
  <2>2. CASE q # r BY <1>0, <1>2, <2>2 DEF Judged, Verdict
  <2>3. QED BY <2>1, <2>2
<1>4. Verdict' BY <1>3 DEF Verdict
<1>5. QED BY <1>1, <1>4 DEF Judged

\* The same for a step that leaves the tree alone.
LEMMA JudgedMoves ==
  ASSUME Base, Judged, NEW r \in Request, UNCHANGED <<leaf, signal, slashed, parted>>,
         accepted \subseteq accepted', accepted' \in SUBSET Request, FromAccepted',
         \A q \in Request \ {r} : pc'[q] = pc[q],
         Proven(r)' => Proven(r) \/ signal[r].id \in Leaf,
         pc'[r] \in {"pruneRead", "pruneDelete", "publish", "sent"} => r \in accepted',
         pc'[r] = "duplicate" => Repeats(r),
         pc'[r] # "banned"
  PROVE  Judged'
<1>1. Leaf' = Leaf BY DEF Leaf
<1>2. Slashes(r) => Slashes(r)' BY DEF Slashes
<1>3. Proven(r)' => signal[r].id \in Leaf' \/ r \in parted' \/ Slashes(r)'
  BY <1>1, <1>2 DEF Judged, LeafHeld
<1>4. QED BY <1>1, <1>3, JudgedFrame

LEMMA EnvironmentKeepsJudged ==
  ASSUME Base, Judged, Environment \/ AllDone \/ UNCHANGED vars
  PROVE  Judged'
<1>1. /\ UNCHANGED <<message, pc, signal, accepted, slashed>> /\ point' \subseteq point
      /\ UNCHANGED <<leaf, parted>> \/ parted' = parted \union Parting
  BY DEF Environment, Tick, ChangeTree, DeleteMessage, Expire, AllDone, vars, store
<1>2. \A q \in Request : (Proven(q)' <=> Proven(q)) /\ (Slashes(q)' <=> Slashes(q))
  BY <1>1 DEF Proven, Slashes
<1>3. UNCHANGED leaf => Leaf' = Leaf BY DEF Leaf
<1>4. ASSUME NEW q \in Request, Proven(q)
      PROVE  signal[q].id \in Leaf' \/ q \in parted' \/ Slashes(q)
  BY <1>1, <1>3, <1>4 DEF Judged, LeafHeld, Parting
<1>5. LeafHeld' BY <1>1, <1>2, <1>4 DEF LeafHeld
<1>6. FromAccepted' BY <1>1 DEF Judged, FromAccepted
<1>7. parted \subseteq parted' BY <1>1
<1>8. Verdict' BY <1>1, <1>2, <1>7 DEF Judged, Verdict, Repeats, SameNullifier
<1>9. QED BY <1>5, <1>6, <1>8 DEF Judged

LEMMA SubmitKeepsJudged == ASSUME Base, Judged, NEW r \in Request, Submit(r) PROVE Judged'
<1>1. /\ UNCHANGED <<leaf, message, point, accepted, slashed, parted>>
      /\ \A q \in Request \ {r} : signal'[q] = signal[q] /\ pc'[q] = pc[q]
      /\ signal[r] = None /\ pc'[r] = "readLeaves"
  BY DEF Submit, store, Base, TypeOK, Signed, Goto
<1>2. r \notin accepted BY <1>1 DEF Base, Submitted
<1>3. UNCHANGED Leaf BY <1>1 DEF Leaf
<1>4. \A q \in Request \ {r} : Slashes(q)' <=> Slashes(q) BY <1>1 DEF Slashes
<1>5. LeafHeld' BY <1>1, <1>3, <1>4 DEF Judged, LeafHeld, Proven
<1>6. FromAccepted' BY <1>1 DEF Judged, FromAccepted
<1>7. \A q \in Request \ {r} : Repeats(q) => Repeats(q)'
  <2>1. accepted \subseteq Request \ {r} BY <1>2 DEF Base, TypeOK
  <2>2. QED BY <1>1, <2>1 DEF Repeats, SameNullifier
<1>8. Verdict' BY <1>1, <1>4, <1>7 DEF Judged, Verdict
<1>9. QED BY <1>5, <1>6, <1>8 DEF Judged

LEMMA HandleKeepsJudged ==
  ASSUME Base, Judged, NEW r \in Request, Handle(r) \/ Die(r)
  PROVE  Judged'
<1>a. /\ TypeOK /\ FromAccepted /\ pc \in [Request -> PC] /\ accepted \in SUBSET Request
      /\ pc[r] # "idle"
  BY DEF Base, TypeOK, Judged, Handle, ReadLeaves, Verify, Check, Store, Recheck,
         CheckAndRecord, Collision, PruneRead, PruneDelete, Publish, Die
<1>b. ASSUME NEW answer \in Answer, Reply(r, answer),
             UNCHANGED <<leaf, message, point, signal, accepted, slashed, parted>>,
             answer \in {"sent", "duplicate"} => Proven(r),
             answer = "sent" => r \in accepted, answer = "duplicate" => Repeats(r),
             answer # "banned"
      PROVE  Judged'
  <2>1. pc'[r] = answer /\ \A q \in Request \ {r} : pc'[q] = pc[q] BY <1>a, <1>b, ReplyType
  <2>2. answer \notin {"pruneRead", "pruneDelete", "publish"} /\ (Proven(r)' => Proven(r))
    BY <1>b, <2>1 DEF Answer, Proven
  <2>3. FromAccepted' BY <1>a, <1>b DEF FromAccepted
  <2>4. QED BY <1>a, <1>b, <2>1, <2>2, <2>3, JudgedMoves
<1>c. ASSUME NEW label \in PC \ Answer, Goto(r, label),
             UNCHANGED <<leaf, message, point, signal, accepted, slashed, parted>>,
             Proven(r) \/ signal[r].id \in Leaf,
             label \in {"pruneRead", "pruneDelete", "publish"} => r \in accepted
      PROVE  Judged'
  <2>1. pc'[r] = label /\ \A q \in Request \ {r} : pc'[q] = pc[q] BY <1>a, <1>c, GotoType
  <2>2. FromAccepted' BY <1>a, <1>c DEF FromAccepted
  <2>3. QED BY <1>a, <1>c, <2>1, <2>2, JudgedMoves DEF Answer
<1>d. ASSUME NEW q \in accepted, SameNullifier(signal[q], signal[r]), Classify(r, q), Proven(r),
             UNCHANGED <<leaf, message, point, signal, accepted, slashed, parted>>
      PROVE  Judged'
  <2>1. CASE Outcome(r, q) = "duplicate" /\ Reply(r, "duplicate")
    <3>1. Repeats(r) BY <1>d, <2>1 DEF Repeats, Outcome
    <3>2. QED BY <1>b, <1>d, <2>1, <3>1 DEF Answer
  <2>2. CASE Goto(r, "collision") BY <1>c, <1>d, <2>2 DEF PC, Answer
  <2>3. QED BY <1>d, <2>1, <2>2 DEF Classify
<1>e. \A q \in Prior(r) : q \in accepted /\ SameNullifier(signal[q], signal[r])
  BY <1>a DEF Prior, FromAccepted
<1>f. /\ pc[r] \in {"pruneRead", "pruneDelete", "publish"} => r \in accepted
      /\ pc[r] \notin {"readLeaves", "rejected", "failed"} => Proven(r)
  BY <1>a DEF Judged, Verdict, Proven
<1>1. CASE ReadLeaves(r)
  <2>1. CASE signal[r].id \in Leaf /\ Goto(r, "verify")
    BY <1>1, <1>c, <2>1 DEF ReadLeaves, store, PC, Answer
  <2>2. CASE Reply(r, "rejected") BY <1>1, <1>b, <2>2 DEF ReadLeaves, store, Answer
  <2>3. QED BY <1>1, <2>1, <2>2 DEF ReadLeaves
<1>2. CASE Verify(r)
  <2>1. CASE Goto(r, "check") BY <1>2, <1>c, <1>f, <2>1 DEF Verify, store, PC, Answer
  <2>2. CASE Reply(r, "rejected") BY <1>2, <1>b, <2>2 DEF Verify, store, Answer
  <2>3. QED BY <1>2, <2>1, <2>2 DEF Verify
<1>3. CASE Check(r)
  <2>1. ASSUME NEW q \in Prior(r), Classify(r, q) PROVE Judged'
    BY <1>3, <1>d, <1>e, <1>f, <2>1 DEF Check, store
  <2>2. CASE Goto(r, "store") BY <1>3, <1>c, <1>f, <2>2 DEF Check, store, PC, Answer
  <2>3. QED BY <1>3, <2>1, <2>2 DEF Check
<1>4. CASE Store(r)
  <2>1. CASE Prior(r) # {} BY <1>4, <1>c, <1>f, <2>1 DEF Store, PC, Answer
  <2>2. CASE Prior(r) = {}
    <3>1. /\ message' = message \union {[by |-> r, at |-> Cardinality(accepted) + 1]}
          /\ accepted' = accepted \union {r} /\ Goto(r, "pruneRead") /\ pc[r] = "store"
          /\ UNCHANGED <<leaf, point, signal, slashed, parted>>
      BY <1>4, <2>2 DEF Store
    <3>2. pc'[r] = "pruneRead" /\ \A q \in Request \ {r} : pc'[q] = pc[q]
      BY <1>a, <3>1, GotoType DEF PC
    <3>3. FromAccepted' BY <1>a, <3>1 DEF FromAccepted
    <3>4. QED BY <1>a, <1>f, <3>1, <3>2, <3>3, JudgedMoves
  <2>3. QED BY <2>1, <2>2
<1>5. CASE Recheck(r)
  <2>1. ASSUME NEW q \in Prior(r), Classify(r, q) PROVE Judged'
    BY <1>5, <1>d, <1>e, <1>f, <2>1 DEF Recheck, store
  <2>2. CASE Reply(r, "failed") BY <1>5, <1>b, <2>2 DEF Recheck, store, Answer
  <2>3. QED BY <1>5, <2>1, <2>2 DEF Recheck
<1>6. CASE CheckAndRecord(r)
  <2> DEFINE prior == {p \in point : SameNullifier(signal[p.by], signal[r])}
  <2>1. ASSUME NEW p \in prior, Classify(r, p.by), UNCHANGED <<point, accepted>> PROVE Judged'
    <3>1. p.by \in accepted /\ SameNullifier(signal[p.by], signal[r]) BY <1>a DEF FromAccepted
    <3>2. QED BY <1>6, <1>d, <1>f, <2>1, <3>1 DEF CheckAndRecord
  <2>2. CASE prior = {}
    <3>1. /\ point' = point \union {[by |-> r, at |-> clock]}
          /\ accepted' = accepted \union {r} /\ Goto(r, "publish") /\ pc[r] = "check"
          /\ UNCHANGED <<leaf, message, signal, slashed, parted>>
      BY <1>6, <2>2 DEF CheckAndRecord
    <3>2. pc'[r] = "publish" /\ \A q \in Request \ {r} : pc'[q] = pc[q]
      BY <1>a, <3>1, GotoType DEF PC
    <3>3. FromAccepted' BY <1>a, <3>1 DEF FromAccepted
    <3>4. QED BY <1>a, <1>f, <3>1, <3>2, <3>3, JudgedMoves
  <2>3. QED BY <1>6, <2>1, <2>2 DEF CheckAndRecord
<1>7. CASE Collision(r)
  <2> DEFINE id == signal[r].id
  <2>1. pc[r] = "collision" /\ signal[found[r]].id = id
    BY <1>7 DEF Collision, Base, FoundCollides, Collides, SameNullifier
  <2>2. pc'[r] = "banned" /\ \A q \in Request \ {r} : pc'[q] = pc[q]
    BY <1>7, <1>a, ReplyType DEF Collision, Answer
  <2>3. /\ UNCHANGED <<message, point, signal, accepted>> /\ slashed \subseteq slashed'
        /\ parted' = parted \union (Parting \ {r})
    BY <1>7 DEF Collision, store
  <2>4. Slashes(r)' \/ r \in parted
    <3>1. CASE slashed' = slashed \union {[by |-> r, id |-> id]} BY <2>3, <3>1 DEF Slashes
    <3>2. CASE Tree!Vacant(id) /\ slashed' = slashed
      <4>1. id \notin Leaf BY <3>2 DEF Tree!Vacant, Tree!Holds, Leaf
      <4>2. QED BY <1>f, <2>1, <2>3, <3>2, <4>1 DEF Judged, LeafHeld, Slashes
    <3>3. QED BY <1>7, <2>1, <3>1, <3>2 DEF Collision
  <2>5. \A q \in Request \ {r} : Proven(q) /\ signal[q].id \in Leaf =>
           signal[q].id \in Leaf' \/ q \in parted'
    BY <2>3 DEF Parting
  <2>6. FromAccepted' BY <1>a, <2>3 DEF FromAccepted
  <2>7. parted \subseteq parted' BY <2>3
  <2>8. QED BY <1>a, <2>2, <2>3, <2>4, <2>5, <2>6, <2>7, JudgedFrame
<1>8. CASE PruneRead(r)
  <2>1. Goto(r, "publish") \/ Goto(r, "pruneDelete") BY <1>8 DEF PruneRead
  <2>2. QED BY <1>8, <1>c, <1>f, <2>1 DEF PruneRead, store, PC, Answer
<1>9. CASE PruneDelete(r)
  <2>1. /\ message' \subseteq message /\ Goto(r, "publish") /\ pc[r] = "pruneDelete"
        /\ UNCHANGED <<leaf, point, signal, accepted, slashed, parted>>
    BY <1>9 DEF PruneDelete
  <2>2. pc'[r] = "publish" /\ \A q \in Request \ {r} : pc'[q] = pc[q]
    BY <1>a, <2>1, GotoType DEF PC
  <2>3. FromAccepted' BY <1>a, <2>1 DEF FromAccepted
  <2>4. QED BY <1>a, <1>f, <2>1, <2>2, <2>3, JudgedMoves
<1>10. CASE Publish(r) BY <1>10, <1>b, <1>f DEF Publish, store, Answer
<1>11. CASE Die(r) BY <1>11, <1>b DEF Die, store, Answer
<1>12. QED BY <1>1, <1>2, <1>3, <1>4, <1>5, <1>6, <1>7, <1>8, <1>9, <1>10, <1>11 DEF Handle

LEMMA JudgedInvariant == Spec => []Judged
<1>1. Init => Judged
  BY DEF Init, Judged, LeafHeld, FromAccepted, Verdict, Proven
<1>2. Base /\ Judged /\ [Next]_vars => Judged'
  BY EnvironmentKeepsJudged, SubmitKeepsJudged, HandleKeepsJudged DEF Next
<1>3. QED BY <1>1, <1>2, BaseInvariant, PTL DEF Spec

\* Of two contents signed under one nullifier and both answered for, one send is answered
\* `banned`, provided no epoch ends under a send that would lose it: at most one of the
\* two was accepted and a repeat is a repeat of that one.  That send's collision took the
\* leaf away, or something else had since the send was checked against the tree.
THEOREM DoubleSignalIsSlashed == Prompt => (Spec => []DoubleSignalSlashed)
<1>1. ASSUME Base, Judged, AcceptedOnce PROVE DoubleSignalSlashed
  <2>1. SUFFICES ASSUME NEW q \in Request, NEW r \in Request, Handled(q), Handled(r),
                        Collides(signal[q], signal[r]),
                        pc[q] # "banned", pc[r] # "banned"
                 PROVE  FALSE
    BY <1>1 DEF DoubleSignalSlashed, Judged, Verdict
  <2>2. pc[q] \in {"sent", "duplicate"} /\ pc[r] \in {"sent", "duplicate"}
    BY <2>1 DEF Handled
  <2>3. Repeats(q) /\ Repeats(r)
    BY <1>1, <2>2 DEF Judged, Verdict, Repeats, SameNullifier
  <2>4. PICK a \in accepted : SameNullifier(signal[a], signal[q]) /\ signal[a].x = signal[q].x
    BY <2>3 DEF Repeats
  <2>5. PICK b \in accepted : SameNullifier(signal[b], signal[r]) /\ signal[b].x = signal[r].x
    BY <2>3 DEF Repeats
  <2>6. a = b BY <1>1, <2>1, <2>4, <2>5 DEF AcceptedOnce, Collides, SameNullifier
  <2>7. QED BY <2>1, <2>4, <2>5, <2>6 DEF Collides
<1>2. SUFFICES ASSUME Prompt PROVE Spec => []DoubleSignalSlashed OBVIOUS
<1>3. Spec => []AcceptedOnce BY <1>2, SpentOnce
<1>4. Base /\ Judged /\ AcceptedOnce => DoubleSignalSlashed BY <1>1
<1>5. QED BY <1>3, <1>4, BaseInvariant, JudgedInvariant, PTL

=============================================================================
