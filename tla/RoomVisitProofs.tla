---------------------------- MODULE RoomVisitProofs ----------------------------
(***************************************************************************)
(* Proofs about RoomVisit, for any tabs, accounts, limits and bounds.       *)
(***************************************************************************)
EXTENDS RoomVisit, TLAPS

USE BrowserAssumption, VisitAssumption

LEMMA BranchTypes ==
    ASSUME TypeOK, NEW s \in Session \union {None}
    PROVE  DeriveForRoom(s) \in Identity \union {None}
BY DEF TypeOK, BrowserTypeOK, DeriveForRoom, ReadMinisterBranch, Session, Slot, Identity

LEMMA CancelTypes ==
    ASSUME NEW S \in SUBSET Job
    PROVE  /\ Cancel(S) \in SUBSET Job
           /\ \A j \in Cancel(S) : j.live = FALSE
BY DEF Cancel, Job

LEMMA DeriveTypes ==
    ASSUME TypeOK, NEW t \in Tab, NEW s \in Session \union {None}, Derive(t, s)
    PROVE  /\ jobs' \in [Tab -> SUBSET Job]
           /\ \A u \in Tab : \A j, k \in jobs'[u] : j.live /\ k.live => j = k
           /\ identity' \in [Tab -> Identity \union {None}]
           /\ loading' \in [Tab -> BOOLEAN]
<1> DEFINE job == [result |-> DeriveForRoom(s), live |-> TRUE]
<1>1. job \in Job
  BY BranchTypes DEF Job
<1>2. jobs[t] \in SUBSET Job
  BY DEF TypeOK, BrowserTypeOK
<1>3. /\ Cancel(jobs[t]) \in SUBSET Job
      /\ \A j \in Cancel(jobs[t]) : j.live = FALSE
  BY <1>2, CancelTypes
<1>4. jobs' = [jobs EXCEPT ![t] = Cancel(jobs[t]) \union {job}]
  BY DEF Derive
<1> HIDE DEF job
<1>5. jobs' \in [Tab -> SUBSET Job]
  BY <1>1, <1>3, <1>4 DEF TypeOK, BrowserTypeOK
<1>6. \A u \in Tab : \A j, k \in jobs'[u] : j.live /\ k.live => j = k
  BY <1>3, <1>4 DEF TypeOK, BrowserTypeOK
<1>7. /\ identity' \in [Tab -> Identity \union {None}]
      /\ loading' \in [Tab -> BOOLEAN]
  BY DEF Derive, TypeOK, BrowserTypeOK
<1> QED BY <1>5, <1>6, <1>7

LEMMA LoadTypes ==
    ASSUME TypeOK, NEW t \in Tab, NEW branch \in Branch \union {None}, Load(t, branch)
    PROVE  /\ stored' = stored /\ view' = view
           /\ captured' \in [Tab -> Branch \union {None}]
           /\ writing' \in [Tab -> Adoption \union {None}]
           /\ asked' \in [Tab -> SUBSET (Session \union {None})]
           /\ session' \in [Tab -> Session \union {None}]
           /\ jobs' \in [Tab -> SUBSET Job]
           /\ \A u \in Tab : \A j, k \in jobs'[u] : j.live /\ k.live => j = k
           /\ identity' \in [Tab -> Identity \union {None}]
           /\ loading' \in [Tab -> BOOLEAN]
           /\ loads' \in 0..MaxLoads
<1>1. [result |-> None, live |-> TRUE] \in Job
  BY DEF Job
<1>2. jobs' \in [Tab -> SUBSET Job]
  BY <1>1 DEF Load, TypeOK, BrowserTypeOK
<1>3. \A u \in Tab : \A j, k \in jobs'[u] : j.live /\ k.live => j = k
  BY DEF Load, TypeOK, BrowserTypeOK
<1> QED BY <1>2, <1>3 DEF Load, TypeOK, BrowserTypeOK

-----------------------------------------------------------------------------
(* TypeOK, by the part of the state an action changes.                       *)

LEMMA SettleTypes ==
    ASSUME TypeOK, NEW t \in Tab, Settle(t)
    PROVE  BrowserTypeOK'
<1>1. PICK j \in jobs[t] :
         /\ jobs' = [jobs EXCEPT ![t] = @ \ {j}]
         /\ \/ /\ identity' = [identity EXCEPT ![t] = j.result]
               /\ loading' = [loading EXCEPT ![t] = FALSE]
            \/ UNCHANGED <<identity, loading>>
  BY DEF Settle
<1>2. j.result \in Identity \union {None}
  BY DEF TypeOK, BrowserTypeOK, Job
<1>3. jobs' \in [Tab -> SUBSET Job] /\ \A u \in Tab : jobs'[u] \subseteq jobs[u]
  BY <1>1 DEF TypeOK, BrowserTypeOK
<1>4. identity' \in [Tab -> Identity \union {None}] /\ loading' \in [Tab -> BOOLEAN]
  BY <1>1, <1>2 DEF TypeOK, BrowserTypeOK
<1> QED BY <1>3, <1>4 DEF Settle, account, TypeOK, BrowserTypeOK

LEMMA VisitTypes ==
    ASSUME TypeOK, NEW t \in Tab, Visit(t)
    PROVE  BrowserTypeOK'
<1>1. Derive(t, session[t]) /\ session[t] \in Session \union {None}
  BY DEF Visit, TypeOK, BrowserTypeOK
<1> QED BY <1>1, DeriveTypes DEF Visit, account, TypeOK, BrowserTypeOK

LEMMA LeaveTypes ==
    ASSUME TypeOK, NEW t \in Tab, Leave(t)
    PROVE  BrowserTypeOK'
<1>1. jobs' = [jobs EXCEPT ![t] = Cancel(jobs[t])] /\ jobs[t] \in SUBSET Job
  BY DEF Leave, TypeOK, BrowserTypeOK
<1>2. Cancel(jobs[t]) \in SUBSET Job /\ \A j \in Cancel(jobs[t]) : j.live = FALSE
  BY <1>1, CancelTypes
<1>3. /\ jobs' \in [Tab -> SUBSET Job]
      /\ \A u \in Tab : \A j, k \in jobs'[u] : j.live /\ k.live => j = k
  BY <1>1, <1>2 DEF TypeOK, BrowserTypeOK
<1> QED BY <1>3 DEF Leave, account, TypeOK, BrowserTypeOK

LEMMA AskTypes ==
    ASSUME TypeOK, NEW t \in Tab, AskSession(t)
    PROVE  BrowserTypeOK'
<1> DEFINE s == IF cookie = None THEN None ELSE [sub |-> cookie, epoch |-> idToken[cookie]]
<1>1. s \in Session \union {None}
  BY DEF TypeOK, BrowserTypeOK, Session, Epoch
<1>2. asked' = [asked EXCEPT ![t] = {s}]
  BY DEF AskSession
<1> HIDE DEF s
<1> QED BY <1>1, <1>2 DEF AskSession, account, roomIdentity, TypeOK, BrowserTypeOK

LEMMA AdoptTypes ==
    ASSUME TypeOK, NEW t \in Tab, NEW s \in Session, AdoptMinisterBranch(t, s)
    PROVE  /\ writing' \in [Tab -> Adoption \union {None}]
           /\ captured' \in [Tab -> Branch \union {None}]
<1>1. captured[t] # None =>
         [sub |-> s.sub, slot |-> [b |-> captured[t], e |-> s.epoch]] \in Adoption
  BY DEF TypeOK, BrowserTypeOK, Session, Slot, Adoption
<1> QED BY <1>1 DEF AdoptMinisterBranch, TypeOK, BrowserTypeOK

LEMMA PersistTypes ==
    ASSUME TypeOK, NEW t \in Tab, PersistBranch(t)
    PROVE  BrowserTypeOK'
<1>1. writing[t] \in Adoption
  BY DEF PersistBranch, TypeOK, BrowserTypeOK
<1>2. writing[t].slot \in Slot
  BY <1>1 DEF Adoption
<1>3. stored' \in [Account -> Slot \union {None}]
  BY <1>2 DEF PersistBranch, TypeOK, BrowserTypeOK
<1>4. writing' \in [Tab -> Adoption \union {None}]
  BY DEF PersistBranch, TypeOK, BrowserTypeOK
<1> QED BY <1>3, <1>4 DEF PersistBranch, account, roomIdentity, TypeOK, BrowserTypeOK

LEMMA ArrivesTypes ==
    ASSUME TypeOK, NEW t \in Tab, SessionArrives(t)
    PROVE  BrowserTypeOK'
<1>1. PICK s \in asked[t] :
         /\ session' = [session EXCEPT ![t] = s]
         /\ IF t \in view /\ SubOf(s) # SubOf(session[t])
            THEN Cardinality(jobs[t]) < MaxDerivations /\ Derive(t, s)
            ELSE UNCHANGED roomIdentity
         /\ IF s # None /\ s # session[t]
            THEN AdoptMinisterBranch(t, s)
            ELSE UNCHANGED <<captured, writing>>
  BY DEF SessionArrives
<1>2. s \in Session \union {None}
  BY DEF TypeOK, BrowserTypeOK
<1>3. session' \in [Tab -> Session \union {None}] /\ asked' \in [Tab -> SUBSET (Session \union {None})]
  BY <1>1, <1>2 DEF SessionArrives, TypeOK, BrowserTypeOK
<1>4. /\ jobs' \in [Tab -> SUBSET Job]
      /\ \A u \in Tab : \A j, k \in jobs'[u] : j.live /\ k.live => j = k
      /\ identity' \in [Tab -> Identity \union {None}]
      /\ loading' \in [Tab -> BOOLEAN]
  <2>1. CASE Derive(t, s)
    BY <2>1, <1>2, DeriveTypes
  <2>2. CASE UNCHANGED roomIdentity
    BY <2>2 DEF roomIdentity, TypeOK, BrowserTypeOK
  <2> QED BY <2>1, <2>2, <1>1
<1>5. writing' \in [Tab -> Adoption \union {None}] /\ captured' \in [Tab -> Branch \union {None}]
  <2>1. CASE s # None /\ s # session[t]
    BY <2>1, <1>1, <1>2, AdoptTypes
  <2>2. CASE ~(s # None /\ s # session[t])
    BY <2>2, <1>1 DEF TypeOK, BrowserTypeOK
  <2> QED BY <2>1, <2>2
<1> QED BY <1>3, <1>4, <1>5 DEF SessionArrives, account, TypeOK, BrowserTypeOK

LEMMA NewRootTypes ==
    ASSUME TypeOK, NEW a \in Account, NewRoot(a)
    PROVE  BrowserTypeOK'
BY DEF NewRoot, roomIdentity, TypeOK, BrowserTypeOK, Epoch

LEMMA SignInTypes ==
    ASSUME TypeOK, NEW t \in Tab, NEW a \in Account, SignIn(t, a)
    PROVE  BrowserTypeOK'
<1>1. PICK branch \in Branch \union {None} : Load(t, branch)
  BY DEF SignIn, TypeOK, BrowserTypeOK, Branch
<1>2. /\ idToken' \in [Account -> 0..MaxEpoch] /\ cookie' = a /\ idToken'[a] > 0
  BY DEF SignIn, RefreshMinisterAccountTokens, TypeOK, BrowserTypeOK, Epoch
<1> QED BY <1>1, <1>2, LoadTypes DEF SignIn, TypeOK, BrowserTypeOK

LEMMA SignOutTypes ==
    ASSUME TypeOK, NEW t \in Tab, SignOut(t)
    PROVE  BrowserTypeOK'
BY LoadTypes DEF SignOut, TypeOK, BrowserTypeOK

LEMMA DiscloseTypes ==
    ASSUME TypeOK, NEW t \in Tab, Disclose(t)
    PROVE  BrowserTypeOK'
BY LoadTypes DEF Disclose, account, TypeOK, BrowserTypeOK

LEMMA JoinTypes ==
    ASSUME TypeOK, NEW t \in Tab, Join(t)
    PROVE  TypeOK'
<1>1. TokenForJoin(t) \in Account
  BY DEF Join, TokenForJoin, SubOf, TypeOK, VisitTypeOK, BrowserTypeOK, Session
<1>2. identity[t].b \in Branch
  BY DEF Join, TypeOK, BrowserTypeOK, Identity
<1>3. VisitTypeOK'
  BY <1>1, <1>2 DEF Join, RecordLocalMembership, ClearRoomToken, TypeOK, VisitTypeOK
<1>4. BrowserTypeOK'
  BY DEF Join, TypeOK, BrowserTypeOK, browserVars, account, roomIdentity
<1> QED BY <1>3, <1>4 DEF TypeOK

LEMMA StartSendTypes ==
    ASSUME TypeOK, NEW t \in Tab, StartSend(t)
    PROVE  TypeOK'
<1>1. identity[t].b \in Branch
  BY DEF StartSend, Joined, TypeOK, BrowserTypeOK, Identity
<1>2. [b |-> identity[t].b, epoch |-> clock, used |-> 0, read |-> FALSE] \in Reservation
  <2>1. 0 \in 0..Limit - 1
    BY DEF VisitAssumption
  <2> QED BY <1>1, <2>1 DEF Reservation, TypeOK, VisitTypeOK
<1>3. VisitTypeOK'
  BY <1>2 DEF StartSend, TypeOK, VisitTypeOK
<1>4. BrowserTypeOK'
  BY DEF StartSend, TypeOK, BrowserTypeOK, browserVars, account, roomIdentity
<1> QED BY <1>3, <1>4 DEF TypeOK

\* What a reservation has read lies under the limit.
LEMMA ReadCounterTypes ==
    ASSUME TypeOK, NEW t \in Tab, ReadCounter(t)
    PROVE  TypeOK'
<1> DEFINE r == reserving[t]
           used == Used(r.epoch)
<1>1. r \in Reservation
  BY DEF ReadCounter, TypeOK, VisitTypeOK
<1>2. used \in 0..Limit
  BY DEF Used, TypeOK, VisitTypeOK
<1>3. used < Limit => [r EXCEPT !.used = used, !.read = TRUE] \in Reservation
  <2> HIDE DEF r, used
  <2>1. Limit \in Nat
    BY DEF VisitAssumption
  <2>2. used < Limit => used \in 0..Limit - 1
    BY <1>2, <2>1
  <2> QED BY <1>1, <2>2 DEF Reservation
<1>4. reserving' = [reserving EXCEPT ![t] =
         IF used < Limit THEN [r EXCEPT !.used = used, !.read = TRUE] ELSE None]
  BY DEF ReadCounter
<1> HIDE DEF r, used
<1>5. reserving' \in [Tab -> Reservation \union {None}]
  BY <1>3, <1>4 DEF TypeOK, VisitTypeOK
<1>6. VisitTypeOK'
  BY <1>5 DEF ReadCounter, TypeOK, VisitTypeOK
<1>7. BrowserTypeOK'
  BY DEF ReadCounter, TypeOK, BrowserTypeOK, browserVars, account, roomIdentity
<1> QED BY <1>6, <1>7 DEF TypeOK

LEMMA ReserveTypes ==
    ASSUME TypeOK, NEW t \in Tab, Reserve(t)
    PROVE  TypeOK'
<1> DEFINE r == reserving[t]
           new == [signal |-> [b |-> r.b, epoch |-> r.epoch, mid |-> r.used],
                   tab |-> t, here |-> TRUE]
<1>1. r \in Reservation
  BY DEF Reserve, TypeOK, VisitTypeOK
<1>2. new \in Send /\ Counted(r) \in [epoch : 0..MaxClock, next : 0..Limit]
  BY <1>1 DEF Reservation, Send, Signal, Counted
<1>3. /\ counter' = Counted(r) /\ sending' = sending \union {new}
      \/ UNCHANGED <<counter, sending>>
  BY DEF Reserve
<1>4. reserving' = [reserving EXCEPT ![t] = None]
  BY DEF Reserve
<1> HIDE DEF r, new
<1>5. VisitTypeOK'
  BY <1>2, <1>3, <1>4 DEF Reserve, TypeOK, VisitTypeOK
<1>6. BrowserTypeOK'
  BY DEF Reserve, TypeOK, BrowserTypeOK, browserVars, account, roomIdentity
<1> QED BY <1>5, <1>6 DEF TypeOK

LEMMA EndSendTypes ==
    ASSUME TypeOK, NEW s \in sending, EndSend(s)
    PROVE  TypeOK'
<1>1. s.signal \in Signal
  BY DEF TypeOK, VisitTypeOK, Send
<1>2. VisitTypeOK'
  BY <1>1 DEF EndSend, TypeOK, VisitTypeOK
<1>3. BrowserTypeOK'
  BY DEF EndSend, TypeOK, BrowserTypeOK, browserVars, account, roomIdentity
<1> QED BY <1>2, <1>3 DEF TypeOK

\* A composer that is gone leaves its sends as they were but for here.
LEMMA ComposerGoneSends ==
    ASSUME TypeOK, NEW t \in Tab, ComposerGone(t)
    PROVE  /\ sending' \subseteq Send
           /\ \A s \in sending' : \E r \in sending : s.signal = r.signal /\ s.tab = r.tab
                 /\ s = IF r.tab = t THEN [r EXCEPT !.here = FALSE] ELSE r
<1>1. \A r \in sending : r \in Send /\ [r EXCEPT !.here = FALSE] \in Send
         /\ [r EXCEPT !.here = FALSE].signal = r.signal /\ [r EXCEPT !.here = FALSE].tab = r.tab
  BY DEF TypeOK, VisitTypeOK, Send
<1> QED BY <1>1 DEF ComposerGone

LEMMA ComposerGoneTypes ==
    ASSUME TypeOK, NEW t \in Tab, ComposerGone(t)
    PROVE  VisitTypeOK'
BY ComposerGoneSends DEF ComposerGone, TypeOK, VisitTypeOK

LEMMA TypeInit == Init => TypeOK
<1> SUFFICES ASSUME Init PROVE TypeOK
  OBVIOUS
<1>1. BrowserTypeOK
  BY DEF Init, BrowserInit, BrowserTypeOK, Epoch
<1>2. VisitTypeOK
  <2>1. 0 \in 0..MaxClock /\ 0 \in 0..Limit
    BY VisitAssumption DEF VisitAssumption
  <2>2. counter \in [epoch : 0..MaxClock, next : 0..Limit]
    BY <2>1 DEF Init
  <2>3. leaf \in [Account -> Branch \union {None}] /\ roomToken \in [Tab -> Account \union {None}]
    BY DEF Init
  <2> QED BY <2>1, <2>2, <2>3 DEF Init, VisitTypeOK
<1> QED BY <1>1, <1>2 DEF TypeOK

LEMMA TypeNext == TypeOK /\ [Next]_vars => TypeOK'
<1> SUFFICES ASSUME TypeOK, [Next]_vars PROVE TypeOK'
  OBVIOUS
<1>1. ASSUME UNCHANGED visitVars PROVE VisitTypeOK'
  BY <1>1 DEF visitVars, TypeOK, VisitTypeOK
<1>2. ASSUME UNCHANGED browserVars PROVE BrowserTypeOK'
  BY <1>2 DEF browserVars, account, roomIdentity, TypeOK, BrowserTypeOK
<1>3. CASE Tick
  BY <1>3, <1>2 DEF Tick, TypeOK, VisitTypeOK
<1>4. ASSUME NEW a \in Account, NewRoot(a), UNCHANGED visitVars PROVE TypeOK'
  BY <1>4, <1>1, NewRootTypes DEF TypeOK, VisitTypeOK
<1>5. ASSUME NEW t \in Tab, Document(t) PROVE TypeOK'
  <2>1. BrowserTypeOK'
    BY <1>5, SignInTypes, SignOutTypes DEF Document
  <2>2. VisitTypeOK'
    BY <1>5 DEF Document, Unload, TypeOK, VisitTypeOK
  <2> QED BY <2>1, <2>2 DEF TypeOK
<1>6. ASSUME NEW t \in Tab, Event(t) PROVE TypeOK'
  <2>1. CASE Browser(t)
    BY <2>1, <1>1, SettleTypes, VisitTypes, AskTypes, ArrivesTypes DEF Browser, TypeOK
  <2>2. CASE Disclose(t)
    <3>1. VisitTypeOK'
      BY <2>2 DEF Disclose, Unload, TypeOK, VisitTypeOK
    <3> QED BY <2>2, <3>1, DiscloseTypes DEF TypeOK
  <2>3. CASE LeaveRoom(t)
    BY <2>3, LeaveTypes, ComposerGoneTypes DEF LeaveRoom, TypeOK
  <2>4. CASE Unmount(t)
    BY <2>4, <1>2, ComposerGoneTypes DEF Unmount, TypeOK
  <2>5. CASE Join(t) \/ StartSend(t)
    BY <2>5, JoinTypes, StartSendTypes
  <2> QED BY <1>6, <2>1, <2>2, <2>3, <2>4, <2>5 DEF Event
<1>7. ASSUME NEW t \in Tab, PersistBranch(t), UNCHANGED visitVars PROVE TypeOK'
  BY <1>7, <1>1, PersistTypes DEF TypeOK
<1>8. ASSUME NEW t \in Tab, ReadCounter(t) \/ Reserve(t) PROVE TypeOK'
  BY <1>8, ReadCounterTypes, ReserveTypes
<1>9. ASSUME NEW s \in sending, EndSend(s) PROVE TypeOK'
  BY <1>9, EndSendTypes
<1>10. CASE UNCHANGED vars
  BY <1>10, <1>1, <1>2 DEF vars, TypeOK
<1> QED BY <1>3, <1>4, <1>5, <1>6, <1>7, <1>8, <1>9, <1>10 DEF Next

\* Every variable keeps its type: in particular at most one derivation of a tab is
\* live, whatever it was started and cancelled by.
THEOREM TypeCorrect == Spec => []TypeOK
BY TypeInit, TypeNext, PTL DEF Spec

-----------------------------------------------------------------------------
(* NeverDoubleSignals: what was reserved lies below the counter.             *)

Below(g) ==
    \/ g.epoch < counter.epoch
    \/ g.epoch = counter.epoch /\ g.mid < counter.next

Reserved ==
    /\ \A s \in sending : Below(s.signal)
    /\ \A g \in signed : Below(g)

\* A reserved signal is that of one send, or has left.
ReservedOnce ==
    /\ \A s \in sending : s.signal \notin signed
    /\ \A r, s \in sending : r.signal = s.signal => r = s

\* Between its epoch and its write a tab is the only one, in an epoch not older
\* than the counter's, and what it has read is what the counter holds.
Undisturbed ==
    \A t \in Tab : reserving[t] # None =>
        /\ \A u \in Tab : reserving[u] # None => u = t
        /\ counter.epoch <= reserving[t].epoch
        /\ reserving[t].read => reserving[t].used = Used(reserving[t].epoch)

Careful == Reserved /\ ReservedOnce /\ Undisturbed /\ ~twice

Sound == TypeOK /\ (~disturbed => Careful)

LEMMA StartSendSound ==
    ASSUME Sound, NEW t \in Tab, StartSend(t), ~disturbed'
    PROVE  Careful'
<1>1. /\ reserving' = [reserving EXCEPT ![t] =
            [b |-> identity[t].b, epoch |-> clock, used |-> 0, read |-> FALSE]]
      /\ ~disturbed /\ ~(clock < counter.epoch) /\ \A u \in Tab : reserving[u] = None
      /\ UNCHANGED <<counter, sending, signed, twice>>
  BY DEF StartSend
<1>2. reserving \in [Tab -> Reservation \union {None}] /\ clock \in Nat /\ counter.epoch \in Nat
  BY DEF Sound, TypeOK, VisitTypeOK
<1>3. Careful
  BY <1>1 DEF Sound
<1>4. Undisturbed'
  BY <1>1, <1>2 DEF Undisturbed
<1> QED BY <1>1, <1>3, <1>4 DEF Careful, Reserved, ReservedOnce, Below

LEMMA ReadCounterSound ==
    ASSUME Sound, Careful, NEW t \in Tab, ReadCounter(t)
    PROVE  Careful'
<1>0. PICK r, used : r = reserving[t] /\ used = Used(r.epoch)
  OBVIOUS
<1>1. r \in Reservation /\ r # None
  BY <1>0 DEF ReadCounter, Sound, TypeOK, VisitTypeOK
<1>2. reserving' = [reserving EXCEPT ![t] =
         IF used < Limit THEN [r EXCEPT !.used = used, !.read = TRUE] ELSE None]
      /\ UNCHANGED <<counter, sending, signed, twice>>
  BY <1>0 DEF ReadCounter
<1>3. [r EXCEPT !.used = used, !.read = TRUE].epoch = r.epoch
      /\ [r EXCEPT !.used = used, !.read = TRUE].used = used
  BY <1>1 DEF Reservation
<1>4. counter.epoch <= r.epoch /\ \A u \in Tab : reserving[u] # None => u = t
  BY <1>0, <1>1 DEF Careful, Undisturbed
<1>5. reserving \in [Tab -> Reservation \union {None}]
  BY DEF Sound, TypeOK, VisitTypeOK
<1>6. \A u \in Tab : reserving'[u] # None =>
         u = t /\ reserving'[t].epoch = r.epoch /\ reserving'[t].used = used
  BY <1>2, <1>3, <1>4, <1>5
<1>7. used = Used(r.epoch)'
  BY <1>0, <1>2 DEF Used
<1>8. Undisturbed'
  BY <1>2, <1>4, <1>6, <1>7 DEF Undisturbed
<1> QED BY <1>2, <1>8 DEF Careful, Reserved, ReservedOnce, Below

\* The new signal lies just below the counter it leaves, the others further below.
LEMMA ReserveSound ==
    ASSUME Sound, Careful, NEW t \in Tab, Reserve(t)
    PROVE  Careful'
<1>0. PICK r, new : r = reserving[t]
         /\ new = [signal |-> [b |-> r.b, epoch |-> r.epoch, mid |-> r.used],
                   tab |-> t, here |-> TRUE]
  OBVIOUS
<1>1. /\ r \in Reservation /\ r # None /\ r.read
      /\ reserving' = [reserving EXCEPT ![t] = None]
      /\ UNCHANGED <<signed, twice>>
  BY <1>0 DEF Reserve, Sound, TypeOK, VisitTypeOK
<1>2. /\ counter' = Counted(r) /\ sending' = sending \union {new}
      \/ UNCHANGED <<counter, sending>>
  BY <1>0 DEF Reserve
<1>3. counter.epoch <= r.epoch /\ r.used = Used(r.epoch) /\ \A u \in Tab : reserving[u] # None => u = t
  BY <1>0, <1>1 DEF Careful, Undisturbed
<1>4. Undisturbed'
  BY <1>0, <1>1, <1>3 DEF Undisturbed, Sound, TypeOK, VisitTypeOK
<1>5. CASE UNCHANGED <<counter, sending>>
  BY <1>1, <1>4, <1>5 DEF Careful, Reserved, ReservedOnce, Below
<1>6. CASE counter' = Counted(r) /\ sending' = sending \union {new}
  <2>1. /\ new.signal.epoch = r.epoch /\ new.signal.mid = r.used
        /\ counter'.epoch = r.epoch /\ counter'.next = r.used + 1
    BY <1>0, <1>6 DEF Counted
  <2>2. /\ r.epoch \in Nat /\ r.used \in Nat /\ counter.epoch \in Nat /\ counter.next \in Nat
        /\ r.used = IF counter.epoch = r.epoch THEN counter.next ELSE 0
    BY <1>1, <1>3 DEF Reservation, Used, Sound, TypeOK, VisitTypeOK
  <2>3. ASSUME NEW g \in Signal, Below(g)
        PROVE  Below(g)' /\ g # new.signal
    <3>1. g.epoch \in Nat /\ g.mid \in Nat
      BY DEF Signal
    <3> QED BY <1>3, <2>1, <2>2, <2>3, <3>1 DEF Below
  <2>4. Below(new.signal)'
    BY <2>1, <2>2 DEF Below
  <2>5. /\ signed \subseteq Signal /\ \A s \in sending : s.signal \in Signal
        /\ \A s \in sending : Below(s.signal)
        /\ \A g \in signed : Below(g)
    BY DEF Sound, TypeOK, VisitTypeOK, Send, Careful, Reserved
  <2>6. (\A s \in sending : Below(s.signal)' /\ s.signal # new.signal)
        /\ \A g \in signed : Below(g)' /\ g # new.signal
    BY <2>3, <2>5
  <2>7. Reserved'
    BY <1>1, <1>6, <2>4, <2>6 DEF Reserved, Below
  <2> QED BY <1>1, <1>4, <1>6, <2>6, <2>7 DEF Careful, ReservedOnce
<1> QED BY <1>2, <1>5, <1>6

\* Sends and reservations that end or are dropped leave the others as they were.
LEMMA FewerSends ==
    ASSUME Careful, sending' \subseteq sending, UNCHANGED <<counter, signed, twice>>,
           \A t \in Tab : reserving'[t] \in {reserving[t], None}
    PROVE  Careful'
BY DEF Careful, Reserved, ReservedOnce, Undisturbed, Below, Used

LEMMA EndSendSound ==
    ASSUME Sound, Careful, NEW s \in sending, EndSend(s)
    PROVE  Careful'
<1>0. sending' = sending \ {s} /\ UNCHANGED <<counter, reserving>>
  BY DEF EndSend
<1>1. CASE UNCHANGED <<signed, twice>>
  BY <1>0, <1>1, FewerSends
<1>2. CASE signed' = signed \union {s.signal} /\ twice' = (twice \/ s.signal \in signed)
  <2>1. s.signal \notin signed /\ \A r \in sending' : r.signal # s.signal
    BY <1>0 DEF Careful, ReservedOnce
  <2>2. Reserved' /\ Undisturbed'
    BY <1>0, <1>2 DEF Careful, Reserved, Undisturbed, Below, Used
  <2> QED BY <1>0, <1>2, <2>1, <2>2 DEF Careful, ReservedOnce
<1> QED BY <1>1, <1>2 DEF EndSend

LEMMA ComposerGoneSound ==
    ASSUME Sound, Careful, NEW t \in Tab, ComposerGone(t)
    PROVE  Careful'
<1>1. UNCHANGED <<counter, reserving, signed, twice>>
  BY DEF ComposerGone
<1>2. \A s \in sending' : \E r \in sending : s.signal = r.signal
         /\ s = IF r.tab = t THEN [r EXCEPT !.here = FALSE] ELSE r
  BY ComposerGoneSends DEF Sound
<1>3. Reserved' /\ Undisturbed'
  BY <1>1, <1>2 DEF Careful, Reserved, Undisturbed, Below, Used
<1>4. ReservedOnce'
  <2>1. \A s \in sending' : s.signal \notin signed
    BY <1>2 DEF Careful, ReservedOnce
  <2>2. ASSUME NEW s1 \in sending', NEW s2 \in sending', s1.signal = s2.signal
        PROVE  s1 = s2
    <3>1. PICK r1 \in sending : s1.signal = r1.signal
             /\ s1 = IF r1.tab = t THEN [r1 EXCEPT !.here = FALSE] ELSE r1
      BY <1>2
    <3>2. PICK r2 \in sending : s2.signal = r2.signal
             /\ s2 = IF r2.tab = t THEN [r2 EXCEPT !.here = FALSE] ELSE r2
      BY <1>2
    <3>3. r1 = r2
      BY <2>2, <3>1, <3>2 DEF Careful, ReservedOnce
    <3> QED BY <3>1, <3>2, <3>3
  <2> QED BY <1>1, <2>1, <2>2 DEF ReservedOnce
<1> QED BY <1>1, <1>3, <1>4 DEF Careful

LEMMA SoundNext == Sound /\ [Next]_vars => Sound'
<1> SUFFICES ASSUME Sound, [Next]_vars PROVE Sound'
  OBVIOUS
<1>1. TypeOK'
  BY TypeNext DEF Sound
<1>2. ASSUME UNCHANGED <<counter, reserving, sending, signed, twice, disturbed>>
      PROVE  Sound'
  BY <1>1, <1>2, FewerSends DEF Sound
<1>3. CASE Tick \/ UNCHANGED vars
  BY <1>2, <1>3 DEF Tick, vars, visitVars
<1>4. ASSUME UNCHANGED visitVars PROVE Sound'
  BY <1>2, <1>4 DEF visitVars
<1>5. ASSUME NEW t \in Tab, Unload(t) PROVE Sound'
  BY <1>1, <1>5, FewerSends DEF Unload, Sound, TypeOK, VisitTypeOK
<1>6. ASSUME NEW t \in Tab, ComposerGone(t) PROVE Sound'
  BY <1>1, <1>6, ComposerGoneSound DEF ComposerGone, Sound
<1>7. ASSUME NEW t \in Tab, Event(t) PROVE Sound'
  <2>1. CASE Browser(t)
    BY <2>1, <1>4 DEF Browser
  <2>2. CASE Disclose(t) \/ LeaveRoom(t) \/ Unmount(t)
    BY <2>2, <1>5, <1>6 DEF Disclose, LeaveRoom, Unmount
  <2>3. CASE Join(t)
    BY <2>3, <1>2 DEF Join
  <2>4. CASE StartSend(t)
    BY <2>4, <1>1, StartSendSound DEF Sound
  <2> QED BY <1>7, <2>1, <2>2, <2>3, <2>4 DEF Event
<1>8. ASSUME NEW t \in Tab, ReadCounter(t) \/ Reserve(t) PROVE Sound'
  BY <1>1, <1>8, ReadCounterSound, ReserveSound DEF ReadCounter, Reserve, Sound
<1>9. ASSUME NEW s \in sending, EndSend(s) PROVE Sound'
  BY <1>1, <1>9, EndSendSound DEF EndSend, Sound
<1>10. ASSUME NEW t \in Tab, Document(t) PROVE Sound'
  BY <1>5, <1>10 DEF Document
<1> QED BY <1>3, <1>4, <1>7, <1>8, <1>9, <1>10 DEF Next

\* One browser signs two messages of an identity with one epoch and id only after
\* two tabs' reservations overlapped, or one was made in an epoch older than the
\* counter's.
THEOREM CounterNeverReused == Spec => []NeverDoubleSignals
<1>1. Init => Sound
  BY TypeInit DEF Init, Sound, Careful, Reserved, ReservedOnce, Undisturbed
<1>2. Sound => NeverDoubleSignals
  BY DEF Sound, Careful, NeverDoubleSignals
<1> QED BY <1>1, <1>2, SoundNext, PTL DEF Spec

-----------------------------------------------------------------------------
(* OwnIdentity: a live derivation is one of the session the tab shows.       *)

OwnJobs ==
    \A t \in view : \A j \in jobs[t] : j.live /\ j.result # None =>
        session[t] # None /\ j.result.sub = session[t].sub

Owned == TypeOK /\ OwnJobs /\ OwnIdentity

\* A derivation just started is the session's, and the room is loading.
LEMMA DeriveOwned ==
    ASSUME Owned, NEW t \in Tab, NEW s \in Session \union {None}, Derive(t, s)
    PROVE  /\ loading'[t] = TRUE
           /\ \A j \in jobs'[t] : j.live /\ j.result # None => s # None /\ j.result.sub = s.sub
           /\ \A u \in Tab \ {t} : /\ jobs'[u] = jobs[u] /\ identity'[u] = identity[u]
                                   /\ loading'[u] = loading[u]
<1> DEFINE job == [result |-> DeriveForRoom(s), live |-> TRUE]
<1>1. job.result # None => s # None /\ job.result.sub = s.sub
  BY DEF DeriveForRoom
<1>2. \A j \in Cancel(jobs[t]) : j.live = FALSE
  BY CancelTypes DEF Owned, TypeOK, BrowserTypeOK
<1>3. jobs' = [jobs EXCEPT ![t] = Cancel(jobs[t]) \union {job}]
      /\ loading' = [loading EXCEPT ![t] = TRUE] /\ identity' = identity
  BY DEF Derive
<1> HIDE DEF job
<1> QED BY <1>1, <1>2, <1>3 DEF Owned, TypeOK, BrowserTypeOK

LEMMA SettleOwned ==
    ASSUME Owned, NEW t \in Tab, Settle(t)
    PROVE  (OwnJobs /\ OwnIdentity)'
<1>1. PICK j \in jobs[t] :
         /\ jobs' = [jobs EXCEPT ![t] = @ \ {j}]
         /\ \/ /\ j.live
               /\ identity' = [identity EXCEPT ![t] = j.result]
               /\ loading' = [loading EXCEPT ![t] = FALSE]
            \/ UNCHANGED <<identity, loading>>
  BY DEF Settle
<1>2. view' = view /\ session' = session
  BY DEF Settle
<1>3. OwnJobs'
  BY <1>1, <1>2 DEF Owned, OwnJobs, TypeOK, BrowserTypeOK
<1>4. OwnIdentity'
  BY <1>1, <1>2 DEF Owned, OwnJobs, OwnIdentity, TypeOK, BrowserTypeOK
<1> QED BY <1>3, <1>4

LEMMA VisitOwned ==
    ASSUME Owned, NEW t \in Tab, Visit(t)
    PROVE  (OwnJobs /\ OwnIdentity)'
<1>1. Derive(t, session[t]) /\ session[t] \in Session \union {None}
      /\ view' = view \union {t} /\ session' = session
  BY DEF Visit, Owned, TypeOK, BrowserTypeOK
<1>2. view \subseteq Tab
  BY DEF Owned, TypeOK, BrowserTypeOK
<1>3. /\ loading'[t] = TRUE
      /\ \A j \in jobs'[t] : j.live /\ j.result # None =>
            session[t] # None /\ j.result.sub = session[t].sub
      /\ \A u \in Tab \ {t} : /\ jobs'[u] = jobs[u] /\ identity'[u] = identity[u]
                              /\ loading'[u] = loading[u]
  BY <1>1, DeriveOwned
<1>4. OwnJobs'
  <2>1. SUFFICES ASSUME NEW u \in view', NEW j \in jobs'[u], j.live, j.result # None
                 PROVE  session[u] # None /\ j.result.sub = session[u].sub
    BY <1>1 DEF OwnJobs
  <2>2. CASE u = t
    BY <2>1, <2>2, <1>3
  <2>3. CASE u # t
    BY <2>1, <2>3, <1>1, <1>2, <1>3 DEF Owned, OwnJobs
  <2> QED BY <2>2, <2>3
<1>5. OwnIdentity'
  BY <1>1, <1>2, <1>3 DEF Owned, OwnIdentity
<1> QED BY <1>4, <1>5

LEMMA LeaveOwned ==
    ASSUME Owned, NEW t \in Tab, Leave(t)
    PROVE  (OwnJobs /\ OwnIdentity)'
<1>1. /\ view' = view \ {t} /\ view \subseteq Tab /\ session' = session
      /\ \A u \in Tab \ {t} : /\ jobs'[u] = jobs[u] /\ identity'[u] = identity[u]
                              /\ loading'[u] = loading[u]
  BY DEF Leave, Owned, TypeOK, BrowserTypeOK
<1> QED BY <1>1 DEF Owned, OwnJobs, OwnIdentity

LEMMA LoadOwned ==
    ASSUME Owned, NEW t \in Tab, NEW branch, Load(t, branch)
    PROVE  (OwnJobs /\ OwnIdentity)'
<1>1. /\ view' = view /\ view \subseteq Tab
      /\ loading'[t] = TRUE
      /\ \A j \in jobs'[t] : j.result = None
      /\ \A u \in Tab \ {t} : /\ jobs'[u] = jobs[u] /\ identity'[u] = identity[u]
                              /\ loading'[u] = loading[u] /\ session'[u] = session[u]
  BY DEF Load, Owned, TypeOK, BrowserTypeOK
<1> QED BY <1>1 DEF Owned, OwnJobs, OwnIdentity

\* An answer with the subject the tab already shows starts no derivation.
LEMMA ArrivesOwned ==
    ASSUME Owned, NEW t \in Tab, SessionArrives(t)
    PROVE  (OwnJobs /\ OwnIdentity)'
<1>1. PICK s \in asked[t] :
         /\ session' = [session EXCEPT ![t] = s]
         /\ IF t \in view /\ SubOf(s) # SubOf(session[t])
            THEN Cardinality(jobs[t]) < MaxDerivations /\ Derive(t, s)
            ELSE UNCHANGED roomIdentity
  BY DEF SessionArrives
<1>2. s \in Session \union {None} /\ session[t] \in Session \union {None} /\ view \subseteq Tab
  BY DEF Owned, TypeOK, BrowserTypeOK
<1>3. /\ session'[t] = s /\ \A u \in Tab \ {t} : session'[u] = session[u]
      /\ view' = view
  BY <1>1 DEF SessionArrives, Owned, TypeOK, BrowserTypeOK
<1>4. CASE Derive(t, s)
  <2>1. /\ loading'[t] = TRUE
        /\ \A j \in jobs'[t] : j.live /\ j.result # None => s # None /\ j.result.sub = s.sub
        /\ \A u \in Tab \ {t} : /\ jobs'[u] = jobs[u] /\ identity'[u] = identity[u]
                                /\ loading'[u] = loading[u]
    BY <1>2, <1>4, DeriveOwned
  <2>2. OwnJobs'
    <3>1. SUFFICES ASSUME NEW u \in view, NEW j \in jobs'[u], j.live, j.result # None
                   PROVE  session'[u] # None /\ j.result.sub = session'[u].sub
      BY <1>3 DEF OwnJobs
    <3>2. CASE u = t
      BY <3>1, <3>2, <2>1, <1>3
    <3>3. CASE u # t
      BY <3>1, <3>3, <2>1, <1>2, <1>3 DEF Owned, OwnJobs
    <3> QED BY <3>2, <3>3
  <2>3. OwnIdentity'
    BY <1>2, <1>3, <2>1 DEF Owned, OwnIdentity
  <2> QED BY <2>2, <2>3
<1>5. CASE t \notin view /\ UNCHANGED roomIdentity
  BY <1>2, <1>3, <1>5 DEF roomIdentity, Owned, OwnJobs, OwnIdentity
<1>6. CASE SubOf(s) = SubOf(session[t]) /\ UNCHANGED roomIdentity
  <2>1. session[t] # None => s # None /\ s.sub = session[t].sub
    <3>1. \A r \in Session : r.sub \in Account
      BY DEF Session
    <3>2. None \notin Account
      BY BrowserAssumption DEF BrowserAssumption
    <3> QED BY <1>2, <1>6, <3>1, <3>2 DEF SubOf
  <2>2. OwnJobs'
    BY <2>1, <1>2, <1>3, <1>6 DEF roomIdentity, Owned, OwnJobs
  <2>3. OwnIdentity'
    BY <2>1, <1>2, <1>3, <1>6 DEF roomIdentity, Owned, OwnIdentity
  <2> QED BY <2>2, <2>3
<1> QED BY <1>1, <1>4, <1>5, <1>6

LEMMA OwnedNext == Owned /\ [Next]_vars => Owned'
<1> SUFFICES ASSUME Owned, [Next]_vars PROVE Owned'
  OBVIOUS
<1>1. TypeOK'
  BY TypeNext DEF Owned
<1>2. ASSUME UNCHANGED <<view, jobs, identity, loading, session>> PROVE Owned'
  BY <1>1, <1>2 DEF Owned, OwnJobs, OwnIdentity
<1>3. ASSUME UNCHANGED browserVars PROVE Owned'
  BY <1>2, <1>3 DEF browserVars, roomIdentity
<1>4. CASE Tick \/ (\E s \in sending : EndSend(s)) \/ UNCHANGED vars
  BY <1>3, <1>4 DEF Tick, EndSend, vars
<1>5. ASSUME NEW t \in Tab, ReadCounter(t) \/ Reserve(t) PROVE Owned'
  BY <1>3, <1>5 DEF ReadCounter, Reserve
<1>6. ASSUME NEW a \in Account, NewRoot(a) PROVE Owned'
  BY <1>2, <1>6 DEF NewRoot, roomIdentity
<1>7. ASSUME NEW t \in Tab, Document(t) \/ Disclose(t) PROVE Owned'
  BY <1>1, <1>7, LoadOwned DEF Document, SignIn, SignOut, Disclose, Owned
<1>8. ASSUME NEW t \in Tab, PersistBranch(t) PROVE Owned'
  BY <1>2, <1>8 DEF PersistBranch, roomIdentity
<1>9. ASSUME NEW t \in Tab, Event(t) PROVE Owned'
  <2>1. CASE Browser(t)
    <3>1. CASE AskSession(t)
      BY <1>2, <3>1 DEF AskSession, roomIdentity
    <3>2. CASE Settle(t) \/ Visit(t) \/ SessionArrives(t)
      BY <1>1, <3>2, SettleOwned, VisitOwned, ArrivesOwned DEF Owned
    <3> QED BY <2>1, <3>1, <3>2 DEF Browser
  <2>2. CASE Disclose(t)
    BY <2>2, <1>7
  <2>3. CASE LeaveRoom(t)
    BY <1>1, <2>3, LeaveOwned DEF LeaveRoom, Owned
  <2>4. CASE Join(t) \/ StartSend(t) \/ Unmount(t)
    BY <1>3, <2>4 DEF Join, StartSend, Unmount
  <2> QED BY <1>9, <2>1, <2>2, <2>3, <2>4 DEF Event
<1> QED BY <1>4, <1>5, <1>6, <1>7, <1>8, <1>9 DEF Next

\* A settled room never shows another account's identity.
THEOREM IdentityIsOwn == Spec => []OwnIdentity
<1>1. Init => Owned
  BY TypeInit DEF Init, BrowserInit, Owned, OwnJobs, OwnIdentity
<1>2. Owned => OwnIdentity
  BY DEF Owned
<1> QED BY <1>1, <1>2, OwnedNext, PTL DEF Spec
=============================================================================
