---------------------------- MODULE RoomAuthProofs ----------------------------
(***************************************************************************)
(* Proofs about RoomAuthFlow for any flows, requests, time to live and       *)
(* faults.                                                                  *)
(*                                                                          *)
(* Everything rests on two one-way facts: a started flow whose row is gone   *)
(* never has one again, and a verifier once nulled stays null (Spent). The  *)
(* callback that nulled it is then the only one that trades the code, stores *)
(* the token or drops the row (OneConsumer), and once it has sent the       *)
(* browser on nobody is left to remove a live token (Released).             *)
(***************************************************************************)
EXTENDS RoomAuthFlow, TLAPS

Holding == {"callback.check", "callback.exchange", "callback.save", "callback.drop"}
BeforeFind == {"idle", "callback.sweep", "callback.find", "token.find"} \union StartPc

\* A request has a flow exactly from its arrival on; a flow being started is not
\* in the table yet and no other request knows it.
Targets ==
    /\ \A r \in Request : pc[r] = "idle" <=> target[r] = None
    /\ \A r \in Request : pc[r] \in StartPc =>
         target[r] \notin Started /\ \A s \in Request \ {r} : target[s] # target[r]
    /\ \A r \in Request : pc[r] \in CallbackPc \union PickupPc => target[r] \in Started
    /\ \A f \in Started : \E r \in Request : target[r] = f
    /\ redirected \subseteq Started

Rows == \A f \in Stored : f \in Started /\ expiry[f] = row[f].expires

Reads ==
    /\ \A r \in Request : pc[r] \in BeforeFind => seen[r] = None
    /\ \A r \in Request : pc[r] \in {"token.delete", "token.answer"} =>
         seen[r] # None /\ seen[r].token

Spent(f) == f \in Started /\ (f \in Stored => ~row[f].verifier)

Holders(f) == {r \in Request : target[r] = f /\ pc[r] \in Holding} \union exchanged[f]

OneConsumer ==
    \A f \in Flow :
        /\ Holders(f) # {} => Spent(f)
        /\ \A r, s \in Holders(f) : r = s

Released ==
    \A f \in redirected : Spent(f) /\ \A r \in Request : target[r] = f => pc[r] \notin Holding

Removed(f) == f \in Started /\ (f \in Stored => f \in undeleted)

Answered ==
    /\ \A r \in Request : pc[r] = "token.answer" => Removed(target[r])
    /\ \A f \in Flow : delivered[f] # {} => Removed(f)

IInv == TypeOK /\ Targets /\ Rows /\ Reads /\ OneConsumer /\ Released /\ Answered
          /\ PickupHonoured

USE DEF Row, Pc, StartPc, CallbackPc, PickupPc

THEOREM InitIInv == Init => IInv
  BY NoneAssumption
    DEF Init, IInv, TypeOK, Targets, Rows, Reads, OneConsumer, Released, Answered,
     PickupHonoured, Holders, Holding, BeforeFind, Stored, Started

-----------------------------------------------------------------------------
(* The table only loses: what happens to the rows of started flows.          *)

Loses ==
    /\ \A f \in Started :
         /\ f \in Started' /\ expiry'[f] = expiry[f]
         /\ f \in Stored' =>
              /\ f \in Stored
              /\ row'[f].expires = row[f].expires
              /\ row'[f].verifier => row[f].verifier
    /\ undeleted \subseteq undeleted'

LEMMA SweepLoses == ASSUME IInv, Sweep, UNCHANGED <<expiry, undeleted>> PROVE Loses
  BY DEF Sweep, Swept, Loses, Stored, Started, IInv, TypeOK

LEMMA DeleteLoses ==
  ASSUME IInv, NEW f \in Flow, DeleteIgnoringErrors(f), UNCHANGED expiry
  PROVE  Loses
  BY DEF DeleteIgnoringErrors, DeleteRow, Loses, Stored, Started, IInv, TypeOK

LEMMA StepLoses == IInv /\ [Next]_vars => Loses
<1>1. SUFFICES ASSUME IInv, [Next]_vars PROVE Loses OBVIOUS
<1>2. CASE row' = row /\ expiry' = expiry /\ undeleted' = undeleted
  BY <1>2 DEF Loses, Stored, Started
<1>3. ASSUME NEW r \in Request, StartSweep(r) \/ CallbackSweep(r) PROVE Loses
  BY <1>1, <1>3, SweepLoses DEF StartSweep, CallbackSweep
<1>4. ASSUME NEW r \in Request, StartCreate(r) PROVE Loses
  BY <1>1, <1>4, NoneAssumption
    DEF StartCreate, Goto, IInv, TypeOK, Targets, Loses, Stored, Started
<1>5. ASSUME NEW r \in Request, CallbackConsume(r) PROVE Loses
  BY <1>1, <1>5
    DEF CallbackConsume, Consumable, Goto, IInv, TypeOK, Targets, Loses, Stored, Started
<1>6. ASSUME NEW r \in Request, CallbackSave(r) PROVE Loses
  BY <1>1, <1>6
    DEF CallbackSave, SaveToken, SaveFails, IInv, TypeOK, Targets, Loses, Stored, Started
<1>7. ASSUME NEW r \in Request, CallbackDrop(r) \/ PickupDelete(r) PROVE Loses
  <2>1. target[r] \in Flow BY <1>1, <1>7
      DEF CallbackDrop, PickupDelete, Goto, IInv, Targets, Started
  <2>2. QED BY <1>1, <1>7, <2>1, DeleteLoses DEF CallbackDrop, PickupDelete
<1>8. QED
  BY <1>1, <1>2, <1>3, <1>4, <1>5, <1>6, <1>7
  DEF Next, Handle, vars, table, Tick, Start, Callback, Pickup, Die, Quiet, CallbackFind,
      CallbackCheck, CallbackExchange, PickupFind, PickupAnswer

LEMMA SpentStays == ASSUME Loses, NEW f \in Flow, Spent(f) PROVE Spent(f)'
  BY DEF Loses, Spent

LEMMA RemovedStays == ASSUME Loses, NEW f \in Flow, Removed(f) PROVE Removed(f)'
  BY DEF Loses, Removed

-----------------------------------------------------------------------------
(* The inductive step, one part of IInv at a time.                           *)

LEMMA VerifierNulled ==
  ASSUME NEW x \in Row, NEW y, y = [x EXCEPT !.verifier = FALSE]
  PROVE  y \in Row /\ ~y.verifier /\ y.token = x.token
  OBVIOUS

LEMMA TokenStored ==
  ASSUME NEW x \in Row, NEW y, y = [x EXCEPT !.token = TRUE]
  PROVE  y \in Row /\ y.verifier = x.verifier /\ y.token
  OBVIOUS

LEMMA TypeStep == IInv /\ [Next]_vars => TypeOK'
<1>1. SUFFICES ASSUME IInv, [Next]_vars PROVE TypeOK' OBVIOUS
<1>2. CASE UNCHANGED vars BY <1>1, <1>2 DEF vars, IInv, TypeOK, Stored
<1>3. CASE Tick BY <1>1, <1>3 DEF Tick, table, history, IInv, TypeOK, Stored
<1>4. ASSUME NEW r \in Request, Start(r) \/ Callback(r) \/ Pickup(r) \/ Die(r) PROVE TypeOK'
  BY <1>1, <1>4 DEF Start, Callback, Pickup, Die, Goto, MayFail, table, history, IInv, TypeOK,
                    Targets, Stored, Started
<1>5. ASSUME NEW r \in Request, Handle(r) PROVE TypeOK'
  <2>0. target[r] \in Flow
    BY <1>1, <1>5 DEF IInv, Targets, Started, Handle, StartSweep, StartCreate, CallbackSweep,
       CallbackFind, CallbackConsume, CallbackCheck, CallbackExchange, CallbackSave, SaveToken,
       SaveFails, CallbackDrop, PickupFind, PickupDelete, PickupAnswer, Goto, TypeOK
  <2>1. CASE StartSweep(r) \/ CallbackSweep(r)
    BY <1>1, <2>1 DEF StartSweep, CallbackSweep, Sweep, Swept, MayFail, NoFault, Goto, history,
                      IInv, TypeOK, Stored
  <2>2. CASE StartCreate(r)
    BY <1>1, <2>0, <2>2, TTLAssumption DEF StartCreate, Goto, history, IInv, TypeOK, Stored
  <2>3. CASE CallbackFind(r) \/ PickupFind(r)
    BY <1>1, <2>0, <2>3 DEF CallbackFind, PickupFind, Goto, table, history, IInv, TypeOK, Stored
  <2>4. CASE CallbackConsume(r)
    <3>1. CASE Consumable(target[r])
      <4>1. row[target[r]] \in Row BY <1>1, <2>0, <3>1 DEF Consumable, Stored, IInv, TypeOK
      <4>2. PICK y : y = [row[target[r]] EXCEPT !.verifier = FALSE] OBVIOUS
      <4>3. row' = [row EXCEPT ![target[r]] = y] BY <2>4, <3>1, <4>2 DEF CallbackConsume
      <4>4. y \in Row /\ ~y.verifier BY <4>1, <4>2, VerifierNulled
      <4>5. QED BY <1>1, <2>0, <2>4, <3>1, <4>3, <4>4
                DEF CallbackConsume, Goto, history, IInv, TypeOK, Stored
    <3>2. CASE ~Consumable(target[r])
      BY <1>1, <2>0, <2>4, <3>2 DEF CallbackConsume, Goto, history, IInv, TypeOK, Stored
    <3>3. QED BY <3>1, <3>2
  <2>5. CASE CallbackCheck(r) \/ CallbackExchange(r) \/ PickupAnswer(r)
    BY <1>1, <2>0, <2>5 DEF CallbackCheck, CallbackExchange, PickupAnswer, Goto, table, history,
                      IInv, TypeOK, Stored
  <2>6. CASE CallbackSave(r)
    <3>1. CASE SaveToken(r)
      <4>1. row[target[r]] \in Row BY <1>1, <2>0, <3>1 DEF SaveToken, Stored, IInv, TypeOK
      <4>2. PICK y : y = [row[target[r]] EXCEPT !.token = TRUE] OBVIOUS
      <4>3. row' = [row EXCEPT ![target[r]] = y] BY <3>1, <4>2 DEF SaveToken
      <4>4. r \in Holders(target[r]) BY <3>1 DEF SaveToken, Goto, Holders, Holding
      <4>5. ~row[target[r]].verifier
        BY <1>1, <2>0, <3>1, <4>4 DEF SaveToken, IInv, OneConsumer, Spent
      <4>6. y \in Row /\ ~y.verifier BY <4>1, <4>2, <4>5, TokenStored
      <4>7. QED BY <1>1, <2>0, <2>6, <3>1, <4>3, <4>6
                DEF CallbackSave, SaveToken, NoFault, Goto, IInv, TypeOK, Stored
    <3>2. CASE SaveFails(r)
      BY <1>1, <2>0, <2>6, <3>2
        DEF CallbackSave, SaveFails, MayFail, NoFault, Goto, IInv, TypeOK,
                                    Stored
    <3>3. QED BY <2>6, <3>1, <3>2 DEF CallbackSave
  <2>7. CASE CallbackDrop(r) \/ PickupDelete(r)
    BY <1>1, <2>0, <2>7
      DEF CallbackDrop, PickupDelete, DeleteIgnoringErrors, DeleteRow, MayFail,
                      NoFault, Goto, history, IInv, TypeOK, Stored
  <2>8. QED BY <1>5, <2>1, <2>2, <2>3, <2>4, <2>5, <2>6, <2>7 DEF Handle
<1>6. QED BY <1>1, <1>2, <1>3, <1>4, <1>5 DEF Next, Quiet

\* How the program counters move: a handled request keeps its flow, and the
\* others are left alone.
Advances(r) ==
    /\ target' = target
    /\ pc[r] # "idle" /\ pc'[r] # "idle"
    /\ pc'[r] \in StartPc => pc[r] \in StartPc
    /\ \A s \in Request \ {r} : pc'[s] = pc[s] /\ seen'[s] = seen[s]

LEMMA HandleAdvances == ASSUME TypeOK, NEW r \in Request, Handle(r) \/ Die(r) PROVE Advances(r)
  BY DEF Handle, StartSweep, StartCreate, CallbackSweep, CallbackFind, CallbackConsume,
     CallbackCheck, CallbackExchange, CallbackSave, SaveToken, SaveFails, CallbackDrop,
     PickupFind, PickupDelete, PickupAnswer, Die, Goto, Advances, TypeOK

\* Whatever happens, a request either stays as it is or takes a step of its own.
LEMMA Moves ==
  ASSUME IInv, [Next]_vars, NEW r \in Request
  PROVE  \/ pc'[r] = pc[r] /\ target'[r] = target[r] /\ seen'[r] = seen[r]
         \/ Start(r) \/ Callback(r) \/ Pickup(r) \/ Handle(r) \/ Die(r)
<1>1. CASE UNCHANGED vars \/ Tick BY <1>1 DEF vars, Tick
<1>2. ASSUME NEW s \in Request, s # r, Start(s) \/ Callback(s) \/ Pickup(s)
      PROVE  pc'[r] = pc[r] /\ target'[r] = target[r] /\ seen'[r] = seen[r]
  BY <1>2 DEF Start, Callback, Pickup, Goto, IInv, TypeOK
<1>3. ASSUME NEW s \in Request, s # r, Handle(s) \/ Die(s)
      PROVE  pc'[r] = pc[r] /\ target'[r] = target[r] /\ seen'[r] = seen[r]
  BY <1>3, HandleAdvances DEF Advances, IInv
<1>4. QED BY <1>1, <1>2, <1>3 DEF Next, Quiet

LEMMA TargetsStep == IInv /\ [Next]_vars => Targets'
<1>1. SUFFICES ASSUME IInv, [Next]_vars PROVE Targets' OBVIOUS
<1>2. CASE UNCHANGED vars \/ Tick
  BY <1>1, <1>2 DEF Tick, vars, table, history, IInv, Targets, Started
<1>3. ASSUME NEW r \in Request, Start(r) PROVE Targets'
  BY <1>1, <1>3, NoneAssumption DEF Start, Goto, table, history, IInv, TypeOK, Targets, Started
<1>4. ASSUME NEW r \in Request, Callback(r) \/ Pickup(r) PROVE Targets'
  BY <1>1, <1>4, NoneAssumption
    DEF Callback, Pickup, Goto, table, history, IInv, TypeOK, Targets,
                                    Started
<1>5. ASSUME NEW r \in Request, StartCreate(r) PROVE Targets'
  BY <1>1, <1>5, TTLAssumption, NoneAssumption
  DEF StartCreate, Goto, history, IInv, TypeOK, Targets, Started
<1>6. ASSUME NEW r \in Request, Handle(r) \/ Die(r), ~StartCreate(r) PROVE Targets'
  <2>1. Advances(r) /\ expiry' = expiry
    BY <1>1, <1>6, HandleAdvances DEF IInv, Handle, StartSweep, CallbackSweep, CallbackFind,
       CallbackConsume, CallbackCheck, CallbackExchange, CallbackSave, CallbackDrop, PickupFind,
       PickupDelete, PickupAnswer, Die, table
  <2>2. pc'[r] \in CallbackPc \union PickupPc => pc[r] \in CallbackPc \union PickupPc
    BY <1>1, <1>6 DEF IInv, TypeOK, Handle, StartSweep, CallbackSweep, CallbackFind,
       CallbackConsume, CallbackCheck, CallbackExchange, CallbackSave, SaveToken, SaveFails,
       CallbackDrop, PickupFind, PickupDelete, PickupAnswer, Die, Goto
  <2>3. redirected' \subseteq Started
    BY <1>1, <1>6 DEF IInv, Targets, Handle, StartSweep, CallbackSweep, CallbackFind,
       CallbackConsume, CallbackCheck, CallbackExchange, CallbackSave, SaveToken, SaveFails,
       CallbackDrop, PickupFind, PickupDelete, PickupAnswer, Die, Goto, history
  <2>4. QED BY <1>1, <2>1, <2>2, <2>3 DEF IInv, Targets, Advances, Started
<1>7. QED BY <1>1, <1>2, <1>3, <1>4, <1>5, <1>6 DEF Next, Quiet

LEMMA RowsStep == IInv /\ [Next]_vars => Rows'
<1>1. SUFFICES ASSUME IInv, [Next]_vars PROVE Rows' OBVIOUS
<1>2. Loses BY <1>1, StepLoses
<1>3. \A f \in Stored' \ Started : f \in Started' /\ expiry'[f] = row'[f].expires
  <2>1. SUFFICES ASSUME NEW r \in Request, StartCreate(r), NEW f \in Stored', f \notin Started
                 PROVE  f \in Started' /\ expiry'[f] = row'[f].expires
    BY <1>1
      DEF Next, Handle, vars, table, Tick, Start, Callback, Pickup, Die, Quiet, CallbackFind,
       CallbackCheck, CallbackExchange, PickupFind, PickupAnswer, IInv, Rows, Stored, Started,
       StartSweep, CallbackSweep, Sweep, Swept, CallbackConsume, Consumable, CallbackSave,
       SaveToken, SaveFails, CallbackDrop, PickupDelete, DeleteIgnoringErrors, DeleteRow, TypeOK
  <2>2. f = target[r] BY <1>1, <2>1 DEF StartCreate, IInv, Rows, Stored, TypeOK
  <2>3. QED BY <1>1, <2>1, <2>2, TTLAssumption, NoneAssumption
            DEF StartCreate, IInv, TypeOK, Stored, Started
<1>4. QED BY <1>1, <1>2, <1>3 DEF Loses, IInv, Rows, Started, Stored

LEMMA ReadsStep == IInv /\ [Next]_vars => Reads'
<1>1. SUFFICES ASSUME IInv, [Next]_vars PROVE Reads' OBVIOUS
<1>2. CASE UNCHANGED vars \/ Tick BY <1>1, <1>2 DEF Tick, vars, IInv, Reads
<1>3. ASSUME NEW r \in Request, Start(r) \/ Callback(r) \/ Pickup(r) PROVE Reads'
  BY <1>1, <1>3 DEF Start, Callback, Pickup, Goto, IInv, TypeOK, Reads, BeforeFind
<1>4. ASSUME NEW r \in Request, Handle(r) \/ Die(r) PROVE Reads'
  <2>1. Advances(r) BY <1>1, <1>4, HandleAdvances DEF IInv
  <2>2. pc'[r] \in BeforeFind => seen'[r] = None
    BY <1>1, <1>4 DEF IInv, TypeOK, Reads, BeforeFind, Handle, StartSweep, StartCreate,
       CallbackSweep, CallbackFind, CallbackConsume, CallbackCheck, CallbackExchange,
       CallbackSave, SaveToken, SaveFails, CallbackDrop, PickupFind, PickupDelete, PickupAnswer,
       Die, Goto
  <2>3. pc'[r] \in {"token.delete", "token.answer"} => seen'[r] # None /\ seen'[r].token
    BY <1>1, <1>4 DEF IInv, TypeOK, Reads, Handle, StartSweep, StartCreate,
       CallbackSweep, CallbackFind, CallbackConsume, CallbackCheck, CallbackExchange,
       CallbackSave, SaveToken, SaveFails, CallbackDrop, PickupFind, PickupDelete, PickupAnswer,
       Die, Goto
  <2>4. QED BY <1>1, <2>1, <2>2, <2>3 DEF IInv, Reads, Advances
<1>5. QED BY <1>1, <1>2, <1>3, <1>4 DEF Next, Quiet

\* Only the update that nulls a verifier makes a new holder.
LEMMA HoldersStep ==
  ASSUME IInv, [Next]_vars, NEW f \in Flow
  PROVE  \/ Holders(f)' \subseteq Holders(f)
         \/ \E r \in Request : CallbackConsume(r) /\ Consumable(f) /\ target[r] = f
                                /\ Holders(f)' \subseteq Holders(f) \union {r}
<1>2. CASE UNCHANGED vars \/ Tick
  BY <1>2 DEF Tick, vars, history, Holders
<1>3. ASSUME NEW r \in Request, Start(r) \/ Callback(r) \/ Pickup(r)
      PROVE  Holders(f)' \subseteq Holders(f)
  BY <1>3 DEF Start, Callback, Pickup, Goto, history, IInv, TypeOK, Holders, Holding
<1>4. ASSUME NEW r \in Request, Handle(r) \/ Die(r), ~CallbackConsume(r)
      PROVE  Holders(f)' \subseteq Holders(f)
  <2>1. Advances(r) BY <1>4, HandleAdvances DEF IInv
  <2>2. pc'[r] \in Holding => pc[r] \in Holding
    BY <1>4 DEF IInv, TypeOK, Holding, Handle, StartSweep, StartCreate, CallbackSweep,
       CallbackFind, CallbackCheck, CallbackExchange, CallbackSave, SaveToken, SaveFails,
       CallbackDrop, PickupFind, PickupDelete, PickupAnswer, Die, Goto
  <2>3. \/ exchanged' = exchanged
        \/ pc[r] \in Holding /\ exchanged' = [exchanged EXCEPT ![target[r]] = @ \union {r}]
    BY <1>4 DEF Holding, Handle, StartSweep, StartCreate, CallbackSweep, CallbackFind,
       CallbackCheck, CallbackExchange, CallbackSave, SaveToken, SaveFails,
       CallbackDrop, PickupFind, PickupDelete, PickupAnswer, Die, Goto, history
  <2>4. QED BY <2>1, <2>2, <2>3 DEF Advances, Holders, IInv, TypeOK
<1>5. ASSUME NEW r \in Request, CallbackConsume(r)
      PROVE  \/ Holders(f)' \subseteq Holders(f)
             \/ Consumable(f) /\ target[r] = f /\ Holders(f)' \subseteq Holders(f) \union {r}
  <2>1. Advances(r) BY <1>5, HandleAdvances DEF IInv, Handle
  <2>2. pc'[r] \in Holding => Consumable(target[r])
    BY <1>5 DEF CallbackConsume, Goto, Holding, IInv, TypeOK
  <2>3. exchanged' = exchanged BY <1>5 DEF CallbackConsume, history
  <2>4. QED BY <2>1, <2>2, <2>3 DEF Advances, Holders
<1>6. QED BY <1>2, <1>3, <1>4, <1>5 DEF Next, Quiet

LEMMA ConsumeSpends ==
  ASSUME IInv, NEW r \in Request, NEW f \in Flow, target[r] = f, CallbackConsume(r), Consumable(f)
  PROVE  Spent(f)'
<1>1. row[f] \in Row /\ f \in Started BY DEF Consumable, Stored, IInv, TypeOK, Rows
<1>2. PICK y : y = [row[f] EXCEPT !.verifier = FALSE] OBVIOUS
<1>3. row' = [row EXCEPT ![f] = y] BY <1>2 DEF CallbackConsume
<1>4. ~y.verifier BY <1>1, <1>2, VerifierNulled
<1>5. QED BY <1>1, <1>3, <1>4 DEF CallbackConsume, Spent, Started, IInv, TypeOK

LEMMA OneConsumerStep == IInv /\ [Next]_vars => OneConsumer'
<1>1. SUFFICES ASSUME IInv, [Next]_vars, NEW f \in Flow
               PROVE  /\ (Holders(f) # {} => Spent(f))'
                      /\ (\A r, s \in Holders(f) : r = s)'
  BY DEF OneConsumer
<1>2. Loses BY <1>1, StepLoses
<1>3. CASE Holders(f)' \subseteq Holders(f)
  BY <1>1, <1>2, <1>3, SpentStays DEF IInv, OneConsumer
<1>4. ASSUME NEW r \in Request, CallbackConsume(r), Consumable(f), target[r] = f,
             Holders(f)' \subseteq Holders(f) \union {r}
      PROVE  Spent(f)' /\ (\A q, s \in Holders(f) : q = s)'
  <2>1. Spent(f)' BY <1>1, <1>4, ConsumeSpends
  <2>2. Holders(f) = {} BY <1>1, <1>4 DEF IInv, OneConsumer, Consumable, Spent
  <2>3. QED BY <1>4, <2>1, <2>2
<1>5. QED BY <1>1, <1>3, <1>4, HoldersStep

LEMMA ReleasedStep == IInv /\ [Next]_vars => Released'
<1>1. SUFFICES ASSUME IInv, [Next]_vars, NEW f \in redirected'
               PROVE  Spent(f)' /\ \A r \in Request : target'[r] = f => pc'[r] \notin Holding
  BY DEF Released
<1>2. Loses BY <1>1, StepLoses
<1>3. f \in Flow BY <1>1, TypeStep DEF TypeOK
<1>4. CASE f \in redirected
  <2>1. Spent(f)' BY <1>1, <1>2, <1>3, <1>4, SpentStays DEF IInv, Released
  <2>2. ASSUME NEW r \in Request, target'[r] = f, pc'[r] \in Holding PROVE FALSE
    <3>1. \/ target[r] = f /\ pc[r] \in Holding
          \/ CallbackConsume(r) /\ Consumable(f) /\ target[r] = f
      BY <1>1, <2>2, Moves
        DEF IInv, TypeOK, Holding, Start, Callback, Pickup, Handle, StartSweep,
         StartCreate, CallbackSweep, CallbackFind, CallbackConsume, CallbackCheck,
         CallbackExchange, CallbackSave, SaveToken, SaveFails, CallbackDrop, PickupFind,
         PickupDelete, PickupAnswer, Die, Goto
    <3>2. QED BY <1>1, <1>4, <3>1 DEF IInv, Released, Spent, Consumable
  <2>3. QED BY <2>1, <2>2
<1>5. CASE f \notin redirected
  <2>1. PICK r \in Request : CallbackSave(r) /\ SaveToken(r) /\ target[r] = f
    BY <1>1, <1>5 DEF Next, Quiet, vars, Tick, Start, Callback, Pickup, history,
       Handle, StartSweep, StartCreate, CallbackSweep, CallbackFind, CallbackConsume,
       CallbackCheck, CallbackExchange, CallbackSave, SaveToken, SaveFails, CallbackDrop,
       PickupFind, PickupDelete, PickupAnswer, Die
  <2>2. r \in Holders(f) BY <2>1 DEF SaveToken, Goto, Holders, Holding
  <2>3. Spent(f)' BY <1>1, <1>2, <1>3, <2>2, SpentStays DEF IInv, OneConsumer
  <2>4. \A s \in Request : target[s] = f /\ pc[s] \in Holding => s = r
    BY <1>1, <1>3, <2>2 DEF IInv, OneConsumer, Holders
  <2>5. QED BY <1>1, <2>1, <2>3, <2>4 DEF CallbackSave, SaveToken, Goto, Holding, IInv, TypeOK
<1>6. QED BY <1>4, <1>5

LEMMA AnsweredStep == IInv /\ [Next]_vars => Answered'
<1>1. SUFFICES ASSUME IInv, [Next]_vars PROVE Answered' OBVIOUS
<1>2. Loses BY <1>1, StepLoses
<1>3. ASSUME NEW r \in Request, pc'[r] = "token.answer"
       PROVE  Removed(target[r])' /\ target'[r] = target[r]
  <2>1. CASE pc[r] = "token.answer"
    <3>1. target'[r] = target[r]
      BY <1>1, <2>1, HandleAdvances, Moves DEF Advances, IInv, Start, Callback, Pickup, Goto
    <3>2. target[r] \in Flow BY <1>1, <2>1 DEF IInv, Targets, Started
    <3>3. QED BY <1>1, <1>2, <2>1, <3>1, <3>2, RemovedStays DEF IInv, Answered
  <2>2. CASE pc[r] # "token.answer"
    <3>1. PickupDelete(r)
      BY <1>1, <1>3, <2>2, Moves
       
         
           
             
               
                 
                   
                     
                       
                         
                           
                             
                               
                                 
                                   
                                     
                                       
                                         
                                           
                                             
                                               
                                                 
                                                   
                                                     
                                                       
                                                         
                                                           
                                                             
                                                               
                                                                 
                                                                   
                                                                     
                                                                       
                                                                         
                                                                           
                                                                             
                                                                               
                                                                                 
                                                                                   
                                                                                     
                                                                                       
                                                                                         
                                                                                           
                                                                                             
                                                                                               
                                                                                                  DEF IInv, TypeOK, Start, Callback, Pickup, Handle, StartSweep, StartCreate, CallbackSweep, CallbackFind, CallbackConsume,
         CallbackCheck, CallbackExchange, CallbackSave, SaveToken, SaveFails, CallbackDrop,
         PickupFind, PickupDelete, PickupAnswer, Die, Goto
    <3>2. target[r] \in Started BY <1>1, <3>1 DEF PickupDelete, Goto, IInv, Targets
    <3>3. QED BY <1>1, <3>1, <3>2 DEF PickupDelete, DeleteIgnoringErrors, DeleteRow, Removed,
                                      Started, Stored, IInv, TypeOK
  <2>3. QED BY <2>1, <2>2
<1>4. ASSUME NEW f \in Flow, delivered'[f] # {} PROVE Removed(f)'
  <2>1. \/ delivered[f] # {}
        \/ \E r \in Request : pc[r] = "token.answer" /\ target[r] = f
    BY <1>1, <1>4 DEF IInv, TypeOK, Next, Quiet, vars, Tick, Start, Callback, Pickup, history,
       Handle, StartSweep, StartCreate, CallbackSweep, CallbackFind, CallbackConsume,
       CallbackCheck, CallbackExchange, CallbackSave, SaveToken, SaveFails, CallbackDrop,
       PickupFind, PickupDelete, PickupAnswer, Die, Goto
  <2>2. QED BY <1>1, <1>2, <1>4, <2>1, RemovedStays DEF IInv, Answered
<1>5. QED BY <1>3, <1>4 DEF Answered

LEMMA HonouredStep == IInv /\ [Next]_vars => PickupHonoured'
<1>1. SUFFICES ASSUME IInv, [Next]_vars, NEW f \in redirected'
               PROVE  \/ f \in Stored' /\ row'[f].token
                      \/ ReadByPickup(f)'
                      \/ expiry'[f] < clock'
  BY DEF PickupHonoured
<1>2. Loses BY <1>1, StepLoses
<1>3. f \in Flow BY <1>1, TypeStep DEF TypeOK
<1>4. CASE f \in redirected
  <2>1. f \in Started BY <1>1, <1>4 DEF IInv, Targets
  <2>2. expiry'[f] = expiry[f] /\ expiry[f] \in Nat
    BY <1>1, <1>2, <2>1 DEF Loses, IInv, TypeOK, Started
  <2>3. clock \in Nat /\ clock' \in Nat /\ clock' >= clock
    <3>1. clock' = clock \/ Tick
      BY <1>1 DEF Next, Quiet, vars, Start, Callback, Pickup, Handle, StartSweep, StartCreate,
         CallbackSweep, CallbackFind, CallbackConsume, CallbackCheck, CallbackExchange,
         CallbackSave, CallbackDrop, PickupFind, PickupDelete, PickupAnswer, Die
    <3>2. clock \in Nat BY <1>1 DEF IInv, TypeOK
    <3>3. QED BY <3>1, <3>2 DEF Tick
  <2>4. CASE expiry[f] < clock BY <2>2, <2>3, <2>4
  <2>5. CASE ReadByPickup(f)
    <3>1. PICK r \in Request : target[r] = f /\ seen[r] # None /\ seen[r].token
      BY <2>5 DEF ReadByPickup
    <3>2. pc[r] \notin BeforeFind BY <1>1, <3>1 DEF IInv, Reads
    <3>3. target'[r] = f /\ seen'[r] = seen[r]
      BY <1>1, <3>1, <3>2, Moves DEF BeforeFind, Start, Callback, Pickup, Handle, StartSweep,
         StartCreate, CallbackSweep, CallbackFind, CallbackConsume, CallbackCheck,
         CallbackExchange, CallbackSave, CallbackDrop, PickupFind, PickupDelete, PickupAnswer,
         Die, Goto
    <3>4. QED BY <3>1, <3>3 DEF ReadByPickup
  <2>6. ASSUME f \in Stored, row[f].token, ~ReadByPickup(f), ~(expiry[f] < clock)
        PROVE  f \in Stored' /\ row'[f].token
    <3>1. row[f] \in Row /\ row[f].expires = expiry[f]
      BY <1>1, <2>6 DEF IInv, TypeOK, Rows, Stored
    <3>2. \A r \in Request : target[r] = f => pc[r] \notin Holding
      BY <1>1, <1>4 DEF IInv, Released
    <3>3. ~row[f].verifier BY <1>1, <1>4, <2>6 DEF IInv, Released, Spent
    <3>4. \A r \in Request : target[r] = f => pc[r] # "token.delete"
      BY <1>1, <2>6 DEF IInv, Reads, ReadByPickup
    <3>5. \A r \in Request : target[r] = f => pc[r] # "start.create"
      BY <1>1, <2>1 DEF IInv, Targets
    <3>6. ASSUME NEW r \in Request, StartSweep(r) \/ CallbackSweep(r) PROVE row'[f] = row[f]
      BY <1>3, <2>6, <3>1, <3>6
      DEF StartSweep, CallbackSweep, Sweep, Swept, ExpiredAt
    <3>7. ASSUME NEW r \in Request, StartCreate(r) \/ CallbackDrop(r) \/ PickupDelete(r)
          PROVE  row'[f] = row[f]
      <4>1. target[r] # f BY <3>2, <3>4, <3>5, <3>7
          DEF StartCreate, CallbackDrop, PickupDelete, Goto, Holding
      <4>2. QED BY <1>1, <1>3, <3>7, <4>1 DEF StartCreate, CallbackDrop, PickupDelete,
                   DeleteIgnoringErrors, DeleteRow, IInv, TypeOK
    <3>8. ASSUME NEW r \in Request, CallbackConsume(r) \/ CallbackSave(r) PROVE row'[f] = row[f]
      <4>1. row' = row \/ target[r] # f
        BY <3>2, <3>3, <3>8 DEF CallbackConsume, Consumable, CallbackSave, SaveToken, SaveFails,
                                Goto, Holding
      <4>2. QED BY <1>1, <1>3, <3>8, <4>1
          DEF CallbackConsume, CallbackSave, SaveToken, SaveFails,
                                              IInv, TypeOK
    <3>9. QED
      <4>1. \/ row' = row
            \/ \E r \in Request :
                 \/ StartSweep(r) \/ CallbackSweep(r) \/ StartCreate(r) \/ CallbackDrop(r)
                 \/ PickupDelete(r) \/ CallbackConsume(r) \/ CallbackSave(r)
        BY <1>1 DEF Next, Quiet, vars, Tick, Start, Callback, Pickup, Handle, CallbackFind,
           CallbackCheck, CallbackExchange, PickupFind, PickupAnswer, Die, table
      <4>2. row'[f] = row[f] BY <3>6, <3>7, <3>8, <4>1
      <4>3. QED BY <2>6, <4>2, <1>3 DEF Stored
  <2>7. QED BY <1>1, <1>4, <2>2, <2>4, <2>5, <2>6 DEF IInv, PickupHonoured
<1>5. CASE f \notin redirected
  <2>1. PICK r \in Request : SaveToken(r) /\ target[r] = f
    BY <1>1, <1>5 DEF Next, Quiet, vars, Tick, Start, Callback, Pickup, history,
       Handle, StartSweep, StartCreate, CallbackSweep, CallbackFind, CallbackConsume,
       CallbackCheck, CallbackExchange, CallbackSave, SaveToken, SaveFails, CallbackDrop,
       PickupFind, PickupDelete, PickupAnswer, Die
  <2>2. row[f] \in Row BY <1>1, <1>3, <2>1 DEF SaveToken, Stored, IInv, TypeOK
  <2>3. PICK y : y = [row[f] EXCEPT !.token = TRUE] OBVIOUS
  <2>4. row' = [row EXCEPT ![f] = y] BY <2>1, <2>3 DEF SaveToken
  <2>5. y \in Row /\ y.token BY <2>2, <2>3, TokenStored
  <2>6. QED BY <1>1, <1>3, <2>4, <2>5, NoneAssumption DEF Stored, IInv, TypeOK
<1>6. QED BY <1>4, <1>5

-----------------------------------------------------------------------------
(* Theorems.                                                                 *)

THEOREM Inductive == Spec => []IInv
<1>1. IInv /\ [Next]_vars => IInv'
  BY TypeStep, TargetsStep, RowsStep, ReadsStep, OneConsumerStep, ReleasedStep, AnsweredStep,
     HonouredStep DEF IInv
<1>2. QED BY <1>1, InitIInv, PTL DEF Spec

\* The variables keep their types, and no row holds both the verifier and the
\* token bought with it (callback/route.ts).
THEOREM RoomAuthTypes == Spec => []TypeOK
<1>1. IInv => TypeOK BY DEF IInv
<1>2. QED BY <1>1, Inductive, PTL

\* One code exchange per flow, however many callbacks carry its state
\* (callback/route.ts:44-57).
THEOREM StateSingleUse == Spec => []ExchangedOnce
<1>1. IInv => ExchangedOnce BY DEF IInv, OneConsumer, Holders, ExchangedOnce
<1>2. QED BY <1>1, Inductive, PTL

\* The token waits for the pickup it was promised to (callback/route.ts:79-91,
\* lib/room-auth.ts:81-85).
THEOREM TokenWaits == Spec => []PickupHonoured
<1>1. IInv => PickupHonoured BY DEF IInv
<1>2. QED BY <1>1, Inductive, PTL

\* An answered flow has no row, unless its delete failed (token/route.ts:28-35).
THEOREM RowGoneWhenAnswered == Spec => []AnsweredRowIsGone
<1>1. IInv => AnsweredRowIsGone BY DEF IInv, Answered, Removed, AnsweredRowIsGone
<1>2. QED BY <1>1, Inductive, PTL

\* A removed row never comes back (callback/route.ts:79-91).
THEOREM RowsStayGone == Spec => GoneForGood
<1>1. IInv /\ [Next]_vars => [\A f \in Flow : f \in Started \ Stored => f \notin Stored']_vars
  BY StepLoses DEF Loses
<1>2. QED BY <1>1, Inductive, PTL DEF Spec, GoneForGood
=============================================================================
