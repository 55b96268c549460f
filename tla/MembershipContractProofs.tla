----------------------- MODULE MembershipContractProofs -----------------------
(***************************************************************************)
(* Membership implements MembershipContract, for any sets of requests,      *)
(* users and commitments.                                                   *)
(*                                                                          *)
(* The argument: a request's writes become visible in one statement.  What  *)
(* that statement relies on is either protected (by the row lock, by the    *)
(* leaf row, by the unique index), or was read earlier without protection.  *)
(* The second kind is true when it is used only while requests do not       *)
(* overlap (Alone, Knows); it is what the contract asks for when strict.     *)
(***************************************************************************)
EXTENDS MembershipProofs

USE DEF MemberRow, LeafRow, BanRow, Call, Epoch, RateCommitment

-----------------------------------------------------------------------------
(* Requests that do not overlap.                                            *)

\* As long as no two requests have overlapped, at most one is in flight.
Alone == ~overlap => \A q, r \in InFlight : q = r

\* What a request has read and still relies on.
Knows(r) ==
    /\ pc[r] \in {"joinCreate", "joinLock", "joinCheck", "joinInsert"} =>
          member[Nul(r)].status # "BANNED"
    /\ pc[r] \in {"rotateFind", "rotateLeaf", "rotateRow"} =>
          /\ member[Nul(r)].status = "ACTIVE"
          /\ arg[r].epoch > member[Nul(r)].epoch
    /\ pc[r] \in Joining \union RotatingPC => arg[r].lim = limit
    /\ pc[r] = "limitWrite" => \A n \in Nullifier : member[n].status = "NONE"

SerialTree == \A l \in leaf : member[l.owner].status # "BANNED" /\ l.rc[2] = limit

LeafHasRow == \A l \in leaf : member[l.owner].status # "NONE"

SInv ==
    /\ Alone
    /\ ~overlap => (\A r \in Request : Knows(r)) /\ SerialTree
    /\ LeafHasRow

\* One step moves one request.  The others stay where they are, and a request
\* that arrives marks the overlap if it is not alone.
LEMMA OneMoves ==
  ASSUME IInv, NEW r \in Request, Arrive(r) \/ Statement(r) \/ Abort(r)
  PROVE  /\ \A q \in Request \ {r} : pc'[q] = pc[q]
         /\ \/ r \in InFlight /\ UNCHANGED overlap
            \/ Arrive(r) /\ overlap' = (overlap \/ InFlight # {})
<1>0. pc \in [Request -> PC] BY DEF IInv, TypeInv, LocalOK
<1>a. ASSUME NEW label, Goto(r, label)
      PROVE  (\A q \in Request \ {r} : pc'[q] = pc[q]) /\ UNCHANGED overlap
  BY <1>0, <1>a DEF Goto
<1>b. ASSUME Release(r)
      PROVE  (\A q \in Request \ {r} : pc'[q] = pc[q]) /\ UNCHANGED overlap
  BY <1>0, <1>b DEF Release
<1>1. CASE Arrive(r)
  <2>1. PICK call, label : Begin(r, call, label)
    <3>1. CASE Join(r) BY <3>1 DEF Join
    <3>2. CASE Rotate(r) BY <3>2 DEF Rotate
    <3>3. CASE BanLeaf(r) BY <3>3 DEF BanLeaf
    <3>4. CASE BanNullifier(r) BY <3>4 DEF BanNullifier
    <3>5. CASE Unban(r) BY <3>5 DEF Unban
    <3>6. CASE SetLimit(r) BY <3>6 DEF SetLimit
    <3>7. QED BY <1>1, <3>1, <3>2, <3>3, <3>4, <3>5, <3>6 DEF Arrive
  <2>2. QED BY <1>0, <1>1, <2>1 DEF Begin
<1>2. CASE Statement(r)
  <2>1. r \in InFlight
    BY <1>2 DEF Statement, InFlight, JoinFind, JoinCreate, JoinLock, JoinCheck, JoinInsert,
                RotateRead, RotateFind, RotateLeaf, RotateRow, BanFind, BanRowLock, Prune,
                UnbanRow, UnbanClear, LimitCheck, LimitWrite, DeadlockVictim, Deadlocked, WaitsFor
  <2>2. Release(r) \/ \E label : Goto(r, label)
    BY <1>2 DEF Statement, JoinFind, JoinCreate, JoinLock, JoinCheck, JoinInsert,
                RotateRead, RotateFind, RotateLeaf, RotateRow, BanFind, BanRowLock, Prune,
                UnbanRow, UnbanClear, LimitCheck, LimitWrite, DeadlockVictim, Finish, Fail
  <2>3. QED BY <1>a, <1>b, <2>1, <2>2
<1>3. CASE Abort(r) BY <1>b, <1>3 DEF Abort, Fail, Finish
<1>4. QED BY <1>1, <1>2, <1>3

\* While requests do not overlap, the request that moves is the only one running.
LEMMA StaysAlone ==
  ASSUME IInv, Alone, NEW r \in Request, Arrive(r) \/ Statement(r) \/ Abort(r)
  PROVE  /\ Alone'
         /\ ~overlap' => /\ ~overlap
                         /\ \A q \in Request \ {r} : pc'[q] \in {"idle", "done"}
<1>1. overlap \in BOOLEAN /\ overlap' \in BOOLEAN
  BY NextKeeps DEF Next, IInv, TypeInv, LocalOK
<1>2. \A q \in Request \ {r} : pc'[q] = pc[q] BY OneMoves
<1>3. ~overlap' => ~overlap /\ \A q \in Request \ {r} : pc[q] \in {"idle", "done"}
  <2>1. CASE r \in InFlight /\ UNCHANGED overlap BY <2>1 DEF Alone, InFlight
  <2>2. CASE overlap' = (overlap \/ InFlight # {}) BY <1>1, <2>2 DEF InFlight
  <2>3. QED BY <2>1, <2>2, OneMoves
<1>4. Alone' BY <1>2, <1>3 DEF Alone, InFlight
<1>5. QED BY <1>2, <1>3, <1>4

\* A request that has ended or not begun relies on nothing.
LEMMA RestKnows ==
  ASSUME NEW q \in Request, pc[q] \in {"idle", "done"}
  PROVE  Knows(q)
BY DEF Knows, Joining, RotatingPC

\* A membership once created is never removed.
LEMMA RowStays ==
  ASSUME IInv, NEW r \in Request, Arrive(r) \/ Statement(r) \/ Abort(r), NEW n \in Nullifier,
         member[n].status # "NONE"
  PROVE  member'[n].status # "NONE"
<1>a. member \in [Nullifier -> MemberRow] /\ InputOK(r) BY DEF IInv, TypeInv, TablesOK, LocalOK
<1>b. ASSUME pc[r] \in {"joinCheck", "joinInsert"}, member' = [member EXCEPT ![Nul(r)] = JoinedRow(r)]
      PROVE  member'[n].status # "NONE"
  BY <1>a, <1>b DEF JoinedRow
<1>1. CASE ~Writes(r) BY <1>1, OnlyWrites DEF tables
<1>2. CASE JoinCheck(r) BY <1>b, <1>2 DEF JoinCheck, tables
<1>3. CASE JoinInsert(r) BY <1>b, <1>3 DEF JoinInsert, Fail, tables
<1>4. CASE RotateRow(r) BY <1>a, <1>4 DEF RotateRow
<1>5. CASE Prune(r) BY <1>a, <1>5 DEF Prune
<1>6. CASE UnbanClear(r) BY <1>a, <1>6 DEF UnbanClear
<1>7. CASE LimitWrite(r) BY <1>7 DEF LimitWrite
<1>8. QED BY <1>1, <1>2, <1>3, <1>4, <1>5, <1>6, <1>7 DEF Writes

\* The step of a request that runs alone: with what it has read, it keeps what it
\* and the requests after it rely on.
LEMMA SerialKnows ==
  ASSUME IInv, SInv, NEW r \in Request, Arrive(r) \/ Statement(r) \/ Abort(r), ~overlap'
  PROVE  Knows(r)'
<1>a. /\ pc \in [Request -> PC] /\ arg \in [Request -> Call \union {None}]
      /\ member \in [Nullifier -> MemberRow] /\ InputOK(r)
  BY DEF IInv, TypeInv, TablesOK, LocalOK
<1>0. ~overlap /\ Knows(r) BY StaysAlone DEF SInv
<1>b. ASSUME Release(r) PROVE Knows(r)'
  <2>1. pc'[r] = "done" BY <1>a, <1>b DEF Release
  <2>2. QED BY <2>1 DEF Knows, Joining, RotatingPC
<1>c. ASSUME NEW label, Goto(r, label) PROVE pc'[r] = label BY <1>a, <1>c DEF Goto
<1>d. ASSUME NEW label \in {"banRow", "prune", "unbanClear"}, Goto(r, label) PROVE Knows(r)'
  BY <1>c, <1>d DEF Knows, Joining, RotatingPC
<1>e. ASSUME NEW label, Goto(r, label), UNCHANGED <<tables, arg>>,
             pc[r] \in {"joinCreate", "joinLock", "joinCheck"},
             label \in {"joinCheck", "joinInsert"}
      PROVE  Knows(r)'
  BY <1>0, <1>c, <1>e DEF Knows, Joining, RotatingPC, tables, Nul
<1>f. ASSUME NEW label, Goto(r, label), UNCHANGED <<tables, arg>>,
             pc[r] \in {"rotateFind", "rotateLeaf"}, label \in {"rotateLeaf", "rotateRow"}
      PROVE  Knows(r)'
  BY <1>0, <1>c, <1>f DEF Knows, Joining, RotatingPC, tables, Nul
<1>1. CASE Arrive(r)
  <2>1. ASSUME NEW call \in [op : {"join", "rotate"}, nul : Nullifier, ic : Commitment,
                             epoch : Epoch, lim : {limit}],
               NEW label \in {"joinFind", "rotateRead"}, Begin(r, call, label)
        PROVE  Knows(r)'
    <3>1. pc'[r] = label /\ arg'[r] = call /\ limit' = limit
      BY <1>a, <2>1 DEF Begin, tables
    <3>2. QED BY <3>1 DEF Knows, Joining, RotatingPC
  <2>2. ASSUME NEW call, NEW label \in {"banFind", "banUpsert", "unbanRow", "limitCheck"},
               Begin(r, call, label)
        PROVE  Knows(r)'
    <3>1. pc'[r] = label BY <1>a, <2>2 DEF Begin
    <3>2. QED BY <3>1 DEF Knows, Joining, RotatingPC
  <2>3. CASE Join(r) BY <2>1, <2>3 DEF Join
  <2>4. CASE Rotate(r) BY <2>1, <2>4 DEF Rotate
  <2>5. CASE BanLeaf(r) BY <2>2, <2>5 DEF BanLeaf
  <2>6. CASE BanNullifier(r) BY <2>2, <2>6 DEF BanNullifier
  <2>7. CASE Unban(r) BY <2>2, <2>7 DEF Unban
  <2>8. CASE SetLimit(r) BY <2>2, <2>8 DEF SetLimit
  <2>9. QED BY <1>1, <2>3, <2>4, <2>5, <2>6, <2>7, <2>8 DEF Arrive
<1>2. CASE JoinFind(r)
  <2>1. ASSUME NEW label \in {"joinCreate", "joinLock"}, Goto(r, label), UNCHANGED <<tables, arg>>,
               member[Nul(r)].status # "BANNED"
        PROVE  Knows(r)'
    <3>1. pc[r] = "joinFind" BY <1>2 DEF JoinFind
    <3>2. QED BY <1>0, <1>c, <2>1, <3>1 DEF Knows, Joining, RotatingPC, tables, Nul
  <2>2. QED BY <1>b, <1>2, <2>1 DEF JoinFind, Finish
<1>3. CASE JoinCreate(r) BY <1>b, <1>e, <1>3 DEF JoinCreate, Finish
<1>4. CASE JoinLock(r) BY <1>e, <1>4 DEF JoinLock
<1>5. CASE JoinCheck(r) BY <1>b, <1>e, <1>5 DEF JoinCheck, Finish
<1>6. CASE JoinInsert(r) BY <1>b, <1>6 DEF JoinInsert, Fail, Finish
<1>7. CASE RotateRead(r)
  <2>1. CASE /\ Goto(r, "rotateFind") /\ UNCHANGED <<tables, arg>>
             /\ member[Nul(r)].status = "ACTIVE" /\ ~EpochRefused(arg[r].epoch, member[Nul(r)])
    <3>1. arg[r].epoch \in Nat /\ member[Nul(r)].epoch \in Nat
      BY <1>a, <1>7, BoundsAssumption DEF RotateRead, InputOK, Nul, NulPC, RotatingPC
    <3>2. arg[r].epoch > member[Nul(r)].epoch BY <2>1, <3>1 DEF EpochRefused
    <3>3. pc[r] = "rotateRead" BY <1>7 DEF RotateRead
    <3>4. QED BY <1>0, <1>c, <2>1, <3>2, <3>3 DEF Knows, Joining, RotatingPC, tables, Nul
  <2>2. QED BY <1>b, <1>7, <2>1 DEF RotateRead, Finish
<1>8. CASE RotateFind(r) BY <1>b, <1>f, <1>8 DEF RotateFind, Finish
<1>9. CASE RotateLeaf(r) BY <1>b, <1>f, <1>9 DEF RotateLeaf, Finish
<1>10. CASE RotateRow(r) BY <1>b, <1>10 DEF RotateRow, Finish
<1>11. CASE BanFind(r) BY <1>b, <1>d, <1>11 DEF BanFind, Finish
<1>12. CASE BanRowLock(r) BY <1>d, <1>12 DEF BanRowLock
<1>13. CASE Prune(r) BY <1>b, <1>13 DEF Prune, Finish
<1>14. CASE UnbanRow(r) BY <1>d, <1>14 DEF UnbanRow
<1>15. CASE UnbanClear(r) BY <1>b, <1>15 DEF UnbanClear, Finish
<1>16. CASE LimitCheck(r)
  <2>1. CASE Goto(r, "limitWrite") /\ UNCHANGED tables
             /\ \A n \in Nullifier : member[n].status = "NONE"
    BY <1>c, <2>1 DEF Knows, Joining, RotatingPC, tables
  <2>2. QED BY <1>b, <1>16, <2>1 DEF LimitCheck, Finish
<1>17. CASE LimitWrite(r) BY <1>b, <1>17 DEF LimitWrite, Finish
<1>18. CASE DeadlockVictim(r) BY <1>b, <1>18 DEF DeadlockVictim, Fail, Finish
<1>19. CASE Abort(r) BY <1>b, <1>19 DEF Abort, Fail, Finish
<1>99. QED
  BY <1>1, <1>2, <1>3, <1>4, <1>5, <1>6, <1>7, <1>8, <1>9, <1>10, <1>11, <1>12, <1>13,
     <1>14, <1>15, <1>16, <1>17, <1>18, <1>19 DEF Statement

\* A leaf after a step has the owner of a leaf before it, or the row of the join
\* that has just made it.
LEMMA LeafHasRowKept ==
  ASSUME IInv, LeafHasRow, NEW r \in Request, Arrive(r) \/ Statement(r) \/ Abort(r)
  PROVE  LeafHasRow'
<1>a. /\ member \in [Nullifier -> MemberRow] /\ leaf \in SUBSET LeafRow
      /\ InputOK(r) /\ Rotating(r)
  BY DEF IInv, TypeInv, TablesOK, LocalOK
<1>b. ASSUME \A l \in leaf' : \E k \in leaf : l.owner = k.owner PROVE LeafHasRow'
  BY <1>a, <1>b, RowStays DEF LeafHasRow
<1>1. CASE ~Writes(r) BY <1>b, <1>1, OnlyWrites DEF tables
<1>2. CASE JoinCheck(r) BY <1>b, <1>2 DEF JoinCheck, tables
<1>3. CASE JoinInsert(r)
  <2>1. CASE /\ leaf' = leaf \union {[id |-> r, owner |-> Nul(r), rc |-> Rc(r)]}
             /\ member' = [member EXCEPT ![Nul(r)] = JoinedRow(r)]
    <3>1. Nul(r) \in Nullifier
      BY <1>a, <1>3 DEF JoinInsert, InputOK, Nul, NulPC, Joining
    <3>2. member'[Nul(r)].status # "NONE" BY <1>a, <2>1, <3>1 DEF JoinedRow
    <3>3. \A k \in leaf : member'[k.owner].status # "NONE"
      BY <1>a, RowStays DEF LeafHasRow
    <3>4. QED BY <2>1, <3>2, <3>3 DEF LeafHasRow
  <2>2. QED BY <1>b, <1>3, <2>1 DEF JoinInsert, Fail, tables
<1>4. CASE RotateRow(r)
  <2>1. \E k \in leaf : k.owner = Nul(r) BY <1>a, <1>4 DEF Rotating, RotateRow
  <2>2. QED BY <1>b, <1>4, <2>1 DEF RotateRow
<1>5. CASE Prune(r) BY <1>b, <1>5 DEF Prune
<1>6. CASE UnbanClear(r) BY <1>b, <1>6 DEF UnbanClear
<1>7. CASE LimitWrite(r) BY <1>b, <1>7 DEF LimitWrite
<1>8. QED BY <1>1, <1>2, <1>3, <1>4, <1>5, <1>6, <1>7 DEF Writes

LEMMA SerialTreeKept ==
  ASSUME IInv, SInv, NEW r \in Request, Arrive(r) \/ Statement(r) \/ Abort(r), ~overlap'
  PROVE  SerialTree'
<1>a. /\ member \in [Nullifier -> MemberRow] /\ leaf \in SUBSET LeafRow
      /\ InputOK(r) /\ Rotating(r) /\ LeafHasRow
  BY DEF IInv, SInv, TypeInv, TablesOK, LocalOK
<1>0. Knows(r) /\ SerialTree BY StaysAlone DEF SInv
<1>b. ASSUME UNCHANGED limit, leaf' \subseteq leaf,
             \A l \in leaf' : member'[l.owner].status = "BANNED" => member[l.owner].status = "BANNED"
      PROVE  SerialTree'
  BY <1>0, <1>b DEF SerialTree
<1>c. ASSUME pc[r] \in {"joinCheck", "joinInsert"}, UNCHANGED limit,
             leaf' \subseteq leaf \union {[id |-> r, owner |-> Nul(r), rc |-> Rc(r)]},
             member' = [member EXCEPT ![Nul(r)] = JoinedRow(r)]
      PROVE  SerialTree'
  <2>1. arg[r].lim = limit /\ member[Nul(r)].status # "BANNED" /\ Nul(r) \in Nullifier
    BY <1>0, <1>a, <1>c DEF Knows, Joining, InputOK, Nul, NulPC
  <2>2. \A n \in Nullifier : member'[n].status = "BANNED" => member[n].status = "BANNED"
    BY <1>a, <1>c, <2>1 DEF JoinedRow
  <2>3. member'[Nul(r)].status # "BANNED" BY <2>1, <2>2
  <2>4. QED BY <1>0, <1>a, <1>c, <2>1, <2>2, <2>3 DEF SerialTree, Rc
<1>1. CASE ~Writes(r) BY <1>b, <1>1, OnlyWrites DEF tables
<1>2. CASE JoinCheck(r) BY <1>b, <1>c, <1>2 DEF JoinCheck, tables
<1>3. CASE JoinInsert(r) BY <1>b, <1>c, <1>3 DEF JoinInsert, Fail, tables
<1>4. CASE RotateRow(r)
  <2>1. pc[r] = "rotateRow" /\ Nul(r) \in Nullifier
    BY <1>a, <1>4 DEF RotateRow, InputOK, Nul, NulPC, RotatingPC
  <2>2. arg[r].lim = limit /\ limit' = limit /\ member[Nul(r)].status # "BANNED"
    BY <1>0, <1>4, <2>1 DEF Knows, RotatingPC, RotateRow
  <2>3. \A n \in Nullifier : member'[n].status = member[n].status
    BY <1>a, <1>4, <2>1 DEF RotateRow
  <2>4. \A l \in leaf' : l \in leaf \/ (l.owner = Nul(r) /\ l.rc[2] = limit)
    <3>1. Rc(r)[2] = limit BY <2>2 DEF Rc
    <3>2. leaf' = {l \in leaf : l.id # seenLeaf[r]}
                    \union {[id |-> seenLeaf[r], owner |-> Nul(r), rc |-> Rc(r)]}
      BY <1>4 DEF RotateRow
    <3>3. QED BY <3>1, <3>2
  <2>5. QED BY <1>0, <1>a, <2>1, <2>2, <2>3, <2>4 DEF SerialTree
<1>5. CASE Prune(r)
  <2>1. \A l \in leaf' : l \in leaf /\ l.owner # Nul(r) BY <1>5 DEF Prune, LeavesOf
  <2>2. \A n \in Nullifier : n # Nul(r) => member'[n] = member[n] BY <1>a, <1>5 DEF Prune
  <2>3. QED BY <1>a, <1>b, <1>5, <2>1, <2>2 DEF Prune
<1>6. CASE UnbanClear(r)
  <2>1. \A n \in Nullifier : member'[n].status = "BANNED" => member[n].status = "BANNED"
    BY <1>a, <1>6 DEF UnbanClear
  <2>2. QED BY <1>a, <1>b, <1>6, <2>1 DEF UnbanClear
<1>7. CASE LimitWrite(r)
  <2>1. \A n \in Nullifier : member[n].status = "NONE" BY <1>0, <1>7 DEF Knows, LimitWrite
  <2>2. leaf' = {} BY <1>a, <1>7, <2>1 DEF LeafHasRow, LimitWrite
  <2>3. QED BY <2>2 DEF SerialTree
<1>8. QED BY <1>1, <1>2, <1>3, <1>4, <1>5, <1>6, <1>7 DEF Writes

LEMMA SerialInvariance == Spec => []SInv
<1>1. Init => SInv
  <2>1. SUFFICES ASSUME Init PROVE SInv OBVIOUS
  <2>2. InFlight = {} /\ leaf = {} BY <2>1 DEF Init, InFlight
  <2>3. \A r \in Request : Knows(r) BY <2>1, RestKnows DEF Init
  <2>4. QED BY <2>2, <2>3 DEF SInv, Alone, SerialTree, LeafHasRow
<1>2. ASSUME IInv, SInv, NEW r \in Request, Arrive(r) \/ Statement(r) \/ Abort(r) PROVE SInv'
  <2>1. Alone' /\ LeafHasRow' BY <1>2, StaysAlone, LeafHasRowKept DEF SInv
  <2>2. ASSUME ~overlap', NEW q \in Request PROVE Knows(q)'
    <3>1. CASE q = r BY <1>2, <2>2, <3>1, SerialKnows
    <3>2. CASE q # r
      <4>1. pc'[q] \in {"idle", "done"} BY <1>2, <2>2, <3>2, StaysAlone DEF SInv
      <4>2. QED BY <4>1 DEF Knows, Joining, RotatingPC
    <3>3. QED BY <3>1, <3>2
  <2>3. ~overlap' => SerialTree' BY <1>2, SerialTreeKept
  <2>4. QED BY <2>1, <2>2, <2>3 DEF SInv
<1>3. SInv /\ UNCHANGED vars => SInv'
  <2>1. SUFFICES ASSUME SInv, UNCHANGED vars PROVE SInv' OBVIOUS
  <2>2. \A q \in Request : Knows(q)' <=> Knows(q) BY <2>1 DEF Knows, Nul, vars, tables
  <2>3. QED BY <2>1, <2>2 DEF SInv, Alone, InFlight, SerialTree, LeafHasRow, vars, tables
<1>4. IInv /\ SInv /\ [Next]_vars => SInv' BY <1>2, <1>3 DEF Next, AllDone
<1>5. QED BY <1>1, <1>4, Invariance, PTL DEF Spec

\* As long as requests do not overlap, a ban leaves nothing of its user in the tree: no
\* later join or re-key is let in before an unban (joinRoom, rotateDevice and
\* banMembershipByLeaf, each checking the status).  Every leaf is of the room's limit,
\* which changes only while the room has no membership (room.update), and is swapped
\* only under a later epoch (rotateDevice's stale-epoch check).
THEOREM SerialPromisesKept == Spec => SerialPromises
<1>1. ASSUME IInv, SInv, NEW r \in Request, Arrive(r) \/ Statement(r) \/ Abort(r), ~overlap'
      PROVE  SwapAdvancesEpoch
  <2>a. /\ member \in [Nullifier -> MemberRow] /\ leaf \in SUBSET LeafRow
        /\ InputOK(r) /\ Rotating(r) /\ LeafMade
    BY <1>1 DEF IInv, TypeInv, TablesOK, LocalOK
  <2>0. Knows(r) BY <1>1, StaysAlone DEF SInv
  <2>b. ASSUME \A l \in leaf' : l \in leaf \/ \A k \in leaf : k.id # l.id PROVE Replaced = {}
    BY <2>a, <2>b DEF Replaced, LeafMade
  <2>1. ASSUME ~RotateRow(r) PROVE Replaced = {}
    <3>1. CASE ~Writes(r) BY <1>1, <2>b, <3>1, OnlyWrites DEF tables
    <3>2. CASE JoinCheck(r) BY <2>b, <3>2 DEF JoinCheck, tables
    <3>3. CASE JoinInsert(r)
      <4>1. \A k \in leaf : k.id # r BY <2>a, <3>3 DEF LeafMade, JoinInsert
      <4>2. QED BY <2>b, <3>3, <4>1 DEF JoinInsert, Fail, tables
    <3>4. CASE Prune(r) BY <2>b, <3>4 DEF Prune
    <3>5. CASE UnbanClear(r) BY <2>b, <3>5 DEF UnbanClear
    <3>6. CASE LimitWrite(r) BY <2>b, <3>6 DEF LimitWrite
    <3>7. QED BY <2>1, <3>1, <3>2, <3>3, <3>4, <3>5, <3>6 DEF Writes
  <2>2. CASE RotateRow(r)
    <3>1. /\ Nul(r) \in Nullifier /\ arg[r].epoch > member[Nul(r)].epoch
          /\ \A l \in leaf : l.id = seenLeaf[r] => l.owner = Nul(r)
      BY <2>0, <2>a, <2>2 DEF RotateRow, InputOK, Nul, NulPC, RotatingPC, Knows, Rotating
    <3>2. member'[Nul(r)].epoch = arg[r].epoch BY <2>a, <2>2, <3>1 DEF RotateRow
    <3>3. ASSUME NEW p \in Replaced PROVE p[1].owner = Nul(r)
      <4>1. p[1] \in leaf /\ p[2] \in leaf' /\ p[1].id = p[2].id /\ p[1] # p[2] BY DEF Replaced
      <4>2. p[1].id = seenLeaf[r] BY <2>a, <2>2, <4>1 DEF RotateRow, LeafMade
      <4>3. QED BY <3>1, <4>1, <4>2
    <3>4. QED BY <3>1, <3>2, <3>3 DEF SwapAdvancesEpoch
  <2>3. QED BY <2>1, <2>2 DEF SwapAdvancesEpoch
<1>2. SInv' /\ ~overlap' => BannedHasNoLeaf' /\ LeafUsesRoomLimit'
  BY DEF SInv, SerialTree, BannedHasNoLeaf, LeafUsesRoomLimit
<1>3. IInv /\ SInv /\ SInv' /\ [Next]_vars =>
        [~overlap' => BannedHasNoLeaf' /\ LeafUsesRoomLimit' /\ SwapAdvancesEpoch]_vars
  BY <1>1, <1>2 DEF Next, AllDone
<1>4. QED BY <1>3, Invariance, SerialInvariance, PTL DEF Spec, SerialPromises

-----------------------------------------------------------------------------
(* What protects a commit: keys, row locks and tokens.                      *)

\* A step leaves the other requests' local state alone.
LEMMA OthersKept ==
  ASSUME IInv, NEW r \in Request, Arrive(r) \/ Statement(r) \/ Abort(r), NEW q \in Request \ {r}
  PROVE  /\ pc'[q] = pc[q] /\ arg'[q] = arg[q]
         /\ authorToken'[q] = authorToken[q] /\ seenLeaf'[q] = seenLeaf[q]
<1>a. /\ arg \in [Request -> Call \union {None}]
      /\ authorToken \in [Request -> Request \union {None}]
      /\ seenLeaf \in [Request -> Request \union {None}]
  BY DEF IInv, TypeInv, LocalOK
<1>1. pc'[q] = pc[q] BY OneMoves
<1>b. ASSUME Release(r) PROVE arg'[q] = arg[q] /\ authorToken'[q] = authorToken[q]
                              /\ seenLeaf'[q] = seenLeaf[q]
  BY <1>a, <1>b DEF Release
<1>2. CASE Arrive(r)
  <2>1. PICK call, label : Begin(r, call, label)
    BY <1>2 DEF Arrive, Join, Rotate, BanLeaf, BanNullifier, Unban, SetLimit
  <2>2. QED BY <1>1, <1>a, <2>1 DEF Begin
<1>3. CASE Statement(r)
  <2>1. Release(r) \/ JoinFind(r) \/ JoinCreate(r) \/ JoinLock(r) \/ JoinCheck(r)
          \/ RotateRead(r) \/ RotateFind(r) \/ RotateLeaf(r) \/ BanFind(r) \/ BanRowLock(r)
          \/ UnbanRow(r) \/ LimitCheck(r)
    BY <1>3 DEF Statement, JoinInsert, RotateRow, Prune, UnbanClear, LimitWrite, DeadlockVictim,
                Fail, Finish
  <2>2. Release(r) \/ /\ UNCHANGED arg \/ \E x : arg' = [arg EXCEPT ![r].nul = x]
                      /\ UNCHANGED authorToken \/ \E x : authorToken' = [authorToken EXCEPT ![r] = x]
                      /\ UNCHANGED seenLeaf \/ \E x : seenLeaf' = [seenLeaf EXCEPT ![r] = x]
    BY <2>1 DEF JoinFind, JoinCreate, JoinLock, JoinCheck, RotateRead, RotateFind, RotateLeaf,
                BanFind, BanRowLock, UnbanRow, LimitCheck, Finish
  <2>3. QED BY <1>1, <1>a, <1>b, <2>2
<1>4. CASE Abort(r) BY <1>1, <1>b, <1>4 DEF Abort, Fail, Finish
<1>5. QED BY <1>2, <1>3, <1>4

\* A rate commitment is in the tree once, and a rotation that has updated its leaf
\* has reserved the new one (the unique index on roomId and rateCommitment).
KeysDiffer == \A l1, l2 \in leaf : l1.rc = l2.rc => l1 = l2

KeyReserved(r) ==
    pc[r] = "rotateRow" => \A l \in leaf : l.rc = Rc(r) => l.id = seenLeaf[r]

KInv ==
    /\ KeysDiffer
    /\ \A r \in Request : KeyReserved(r)
    /\ \A q, r \in Request :
          q # r /\ pc[q] = "rotateRow" /\ pc[r] = "rotateRow" => Rc(q) # Rc(r)

\* Only the UPDATE of the leaf leads to the UPDATE of the row.
LEMMA ToRotateRow ==
  ASSUME IInv, NEW r \in Request, Arrive(r) \/ Statement(r) \/ Abort(r), pc'[r] = "rotateRow"
  PROVE  /\ RcSettled(Rc(r), r) /\ UNCHANGED <<tables, arg, seenLeaf>>
         /\ \A l \in leaf : l.rc = Rc(r) => l.id = seenLeaf[r]
<1>0. pc \in [Request -> PC] BY DEF IInv, TypeInv, LocalOK
<1>a. ASSUME NEW label, Goto(r, label) PROVE label = "rotateRow" BY <1>0, <1>a DEF Goto
<1>b. ~Release(r) BY <1>0 DEF Release
<1>1. ~Arrive(r)
  <2>1. ASSUME NEW call, NEW label, Begin(r, call, label) PROVE label = "rotateRow"
    BY <1>0, <2>1 DEF Begin
  <2>2. QED BY <2>1 DEF Arrive, Join, Rotate, BanLeaf, BanNullifier, Unban, SetLimit
<1>2. ~Abort(r) BY <1>b DEF Abort, Fail, Finish
<1>3. Statement(r) => RotateLeaf(r)
  BY <1>a, <1>b DEF Statement, JoinFind, JoinCreate, JoinLock, JoinCheck, JoinInsert,
            RotateRead, RotateFind, RotateRow, BanFind, BanRowLock, Prune,
            UnbanRow, UnbanClear, LimitCheck, LimitWrite, DeadlockVictim, Fail, Finish
<1>4. QED BY <1>1, <1>2, <1>3, <1>b DEF RotateLeaf, Finish

LEMMA KeysKept ==
  ASSUME IInv, KInv, NEW r \in Request, Arrive(r) \/ Statement(r) \/ Abort(r)
  PROVE  KInv'
<1>a. LeafMade /\ Rotating(r) BY DEF IInv
<1>b. \A q \in Request \ {r} : pc'[q] = pc[q] /\ arg'[q] = arg[q] /\ seenLeaf'[q] = seenLeaf[q]
  BY OthersKept
<1>c. pc'[r] # "rotateRow" \/ UNCHANGED leaf BY ToRotateRow DEF tables
<1>1. \A q1, q2 \in Request :
         q1 # q2 /\ pc'[q1] = "rotateRow" /\ pc'[q2] = "rotateRow" => Rc(q1)' # Rc(q2)'
  <2>1. ASSUME NEW q \in Request \ {r}, pc'[r] = "rotateRow", pc[q] = "rotateRow"
        PROVE  Rc(q)' # Rc(r)'
    <3>1. arg' = arg /\ Rc(q) # Rc(r) BY <2>1, ToRotateRow DEF RcSettled
    <3>2. QED BY <3>1 DEF Rc
  <2>2. ASSUME NEW q1 \in Request \ {r}, NEW q2 \in Request \ {r}, q1 # q2,
               pc[q1] = "rotateRow", pc[q2] = "rotateRow"
        PROVE  Rc(q1)' # Rc(q2)'
    <3>1. Rc(q1) # Rc(q2) BY <2>2 DEF KInv
    <3>2. QED BY <1>b, <3>1 DEF Rc
  <2>3. QED BY <1>b, <2>1, <2>2
<1>2. ASSUME KeysDiffer',
             \A q \in Request \ {r} : pc[q] = "rotateRow" =>
                \A l \in leaf' : l.rc = Rc(q) => l.id = seenLeaf[q]
      PROVE  KInv'
  <2>1. ASSUME NEW q \in Request PROVE KeyReserved(q)'
    <3>1. CASE q = r
      <4>1. CASE pc'[r] = "rotateRow"
        BY <3>1, <4>1, ToRotateRow DEF KeyReserved, Rc, tables
      <4>2. QED BY <3>1, <4>1 DEF KeyReserved
    <3>2. CASE q # r BY <1>2, <1>b, <3>2 DEF KeyReserved, Rc
    <3>3. QED BY <3>1, <3>2
  <2>2. QED BY <1>1, <1>2, <2>1 DEF KInv
<1>3. ASSUME leaf' \subseteq leaf PROVE KInv'
  <2>1. KeysDiffer' BY <1>3 DEF KInv, KeysDiffer
  <2>2. QED BY <1>2, <1>3, <2>1 DEF KInv, KeyReserved
<1>4. CASE ~Writes(r) BY <1>3, <1>4, OnlyWrites DEF tables
<1>5. CASE JoinCheck(r) BY <1>3, <1>5 DEF JoinCheck, tables
<1>6. CASE JoinInsert(r)
  <2>1. CASE /\ \A l \in leaf : l.rc # Rc(r)
             /\ leaf' = leaf \union {[id |-> r, owner |-> Nul(r), rc |-> Rc(r)]}
    <3>1. KeysDiffer' BY <2>1 DEF KInv, KeysDiffer
    <3>2. \A q \in Request \ {r} : pc[q] = "rotateRow" => Rc(q) # Rc(r)
      BY <1>6 DEF JoinInsert, RcSettled
    <3>3. QED BY <1>2, <2>1, <3>1, <3>2 DEF KInv, KeyReserved
  <2>2. QED BY <1>3, <1>6, <2>1 DEF JoinInsert, Fail, tables
<1>7. CASE RotateRow(r)
  <2>1. /\ pc[r] = "rotateRow"
        /\ leaf' = {l \in leaf : l.id # seenLeaf[r]}
                     \union {[id |-> seenLeaf[r], owner |-> Nul(r), rc |-> Rc(r)]}
    BY <1>7 DEF RotateRow
  <2>2. KeysDiffer' BY <2>1 DEF KInv, KeysDiffer, KeyReserved
  <2>3. \A q \in Request \ {r} : pc[q] = "rotateRow" => Rc(q) # Rc(r)
    BY <2>1 DEF KInv
  <2>4. QED BY <1>2, <2>1, <2>2, <2>3 DEF KInv, KeyReserved
<1>8. CASE Prune(r) BY <1>3, <1>8 DEF Prune
<1>9. CASE UnbanClear(r) BY <1>3, <1>9 DEF UnbanClear
<1>10. CASE LimitWrite(r) BY <1>3, <1>10 DEF LimitWrite
<1>11. QED BY <1>4, <1>5, <1>6, <1>7, <1>8, <1>9, <1>10 DEF Writes

\* A rotation that has passed the epoch check carries a claim.
EpochClaimed(r) ==
    pc[r] \in {"rotateFind", "rotateLeaf", "rotateRow"} => arg[r].epoch \in 1..MaxEpoch

LEMMA EpochClaimedKept ==
  ASSUME IInv, NEW r \in Request, EpochClaimed(r), Arrive(r) \/ Statement(r) \/ Abort(r)
  PROVE  EpochClaimed(r)'
<1>a. pc \in [Request -> PC] /\ member \in [Nullifier -> MemberRow] /\ InputOK(r)
  BY DEF IInv, TypeInv, TablesOK, LocalOK
<1>b. ASSUME Release(r) PROVE EpochClaimed(r)'
  <2>1. pc'[r] = "done" BY <1>a, <1>b DEF Release
  <2>2. QED BY <2>1 DEF EpochClaimed
<1>c. ASSUME NEW label, Goto(r, label), label \notin {"rotateFind", "rotateLeaf", "rotateRow"}
      PROVE  EpochClaimed(r)'
  <2>1. pc'[r] = label BY <1>a, <1>c DEF Goto
  <2>2. QED BY <1>c, <2>1 DEF EpochClaimed
<1>1. CASE Arrive(r)
  <2>1. ASSUME NEW call, NEW label, Begin(r, call, label),
               label \notin {"rotateFind", "rotateLeaf", "rotateRow"}
        PROVE  EpochClaimed(r)'
    <3>1. pc'[r] = label BY <1>a, <2>1 DEF Begin
    <3>2. QED BY <2>1, <3>1 DEF EpochClaimed
  <2>2. CASE Join(r) BY <2>1, <2>2 DEF Join
  <2>3. CASE Rotate(r) BY <2>1, <2>3 DEF Rotate
  <2>4. CASE BanLeaf(r) BY <2>1, <2>4 DEF BanLeaf
  <2>5. CASE BanNullifier(r) BY <2>1, <2>5 DEF BanNullifier
  <2>6. CASE Unban(r) BY <2>1, <2>6 DEF Unban
  <2>7. CASE SetLimit(r) BY <2>1, <2>7 DEF SetLimit
  <2>8. QED BY <1>1, <2>2, <2>3, <2>4, <2>5, <2>6, <2>7 DEF Arrive
<1>2. CASE RotateRead(r)
  <2>1. CASE ~EpochRefused(arg[r].epoch, member[Nul(r)]) /\ UNCHANGED arg
    <3>1. arg[r].epoch \in 0..MaxEpoch /\ member[Nul(r)].epoch \in 0..MaxEpoch
      BY <1>a, <1>2 DEF RotateRead, InputOK, Nul, NulPC, RotatingPC
    <3>2. arg[r].epoch \in 1..MaxEpoch
      BY <2>1, <3>1, BoundsAssumption DEF EpochRefused
    <3>3. QED BY <2>1, <3>2 DEF EpochClaimed
  <2>2. QED BY <1>b, <1>2, <2>1 DEF RotateRead, Finish
<1>3. CASE RotateFind(r) \/ RotateLeaf(r)
  <2>1. CASE UNCHANGED arg BY <1>3, <2>1 DEF RotateFind, RotateLeaf, EpochClaimed
  <2>2. QED BY <1>b, <1>3, <2>1 DEF RotateFind, RotateLeaf, Finish
<1>4. CASE Statement(r) /\ ~RotateRead(r) /\ ~RotateFind(r) /\ ~RotateLeaf(r)
  BY <1>b, <1>c, <1>4 DEF Statement, JoinFind, JoinCreate, JoinLock, JoinCheck, JoinInsert,
     RotateRow, BanFind, BanRowLock, Prune, UnbanRow, UnbanClear, LimitCheck, LimitWrite,
     DeadlockVictim, Fail, Finish
<1>5. CASE Abort(r) BY <1>b, <1>5 DEF Abort, Fail, Finish
<1>6. QED BY <1>1, <1>2, <1>3, <1>4, <1>5

\* A row lock is held from the statement that takes it until the transaction ends, and
\* is of the request's own row; the lock an unban takes is of a row that exists.
Holding == {"joinCheck", "joinInsert", "prune", "unbanClear"}

HoldsLock(r) == \A n \in Nullifier : rowLock[n] = r => pc[r] \in Holding /\ Nul(r) = n

UnbansRow(r) ==
    pc[r] = "unbanClear" /\ rowLock[Nul(r)] = r => member[Nul(r)].status # "NONE"

LEMMA HoldsLockKept ==
  ASSUME IInv, NEW r \in Request, HoldsLock(r), Arrive(r) \/ Statement(r) \/ Abort(r)
  PROVE  HoldsLock(r)'
<1>a. pc \in [Request -> PC] /\ rowLock \in [Nullifier -> Request \union {None}]
  BY DEF IInv, TypeInv, LocalOK
<1>b. ASSUME Release(r) PROVE HoldsLock(r)'
  BY <1>a, <1>b, NoneAssumption DEF Release, HoldsLock
<1>c. ASSUME pc[r] \notin Holding, UNCHANGED rowLock PROVE HoldsLock(r)'
  BY <1>c DEF HoldsLock
<1>d. ASSUME NEW label \in Holding, Goto(r, label), UNCHANGED arg,
             UNCHANGED rowLock \/ LockRow(r, Nul(r))
      PROVE  HoldsLock(r)'
  <2>1. pc'[r] = label /\ Nul(r)' = Nul(r) BY <1>a, <1>d DEF Goto, Nul
  <2>2. ASSUME NEW n \in Nullifier, rowLock'[n] = r PROVE Nul(r) = n
    BY <1>a, <1>d, <2>2 DEF LockRow, HoldsLock
  <2>3. QED BY <1>d, <2>1, <2>2 DEF HoldsLock
<1>1. CASE Arrive(r)
  <2>1. pc[r] = "idle" /\ UNCHANGED rowLock
    BY <1>1 DEF Arrive, Join, Rotate, BanLeaf, BanNullifier, Unban, SetLimit, Begin
  <2>2. QED BY <1>c, <2>1 DEF Holding
<1>2. CASE Statement(r)
  BY <1>b, <1>c, <1>d, <1>2 DEF Statement, Holding, JoinFind, JoinCreate, JoinLock, JoinCheck,
     JoinInsert, RotateRead, RotateFind, RotateLeaf, RotateRow, BanFind, BanRowLock, Prune,
     UnbanRow, UnbanClear, LimitCheck, LimitWrite, DeadlockVictim, Fail, Finish
<1>3. CASE Abort(r) BY <1>b, <1>3 DEF Abort, Fail, Finish
<1>4. QED BY <1>1, <1>2, <1>3

\* No step of r gives another request a lock.
LEMMA LocksOfOthers ==
  ASSUME IInv, NEW r \in Request, Arrive(r) \/ Statement(r) \/ Abort(r),
         NEW q \in Request \ {r}, NEW n \in Nullifier, rowLock'[n] = q
  PROVE  rowLock[n] = q
<1>a. rowLock \in [Nullifier -> Request \union {None}] BY DEF IInv, TypeInv, LocalOK
<1>1. UNCHANGED rowLock \/ Release(r) \/ \E m : LockRow(r, m)
  <2>1. CASE Arrive(r)
    BY <2>1 DEF Arrive, Join, Rotate, BanLeaf, BanNullifier, Unban, SetLimit, Begin
  <2>2. CASE Statement(r)
    BY <2>2 DEF Statement, JoinFind, JoinCreate, JoinLock, JoinCheck, JoinInsert, RotateRead,
       RotateFind, RotateLeaf, RotateRow, BanFind, BanRowLock, Prune, UnbanRow, UnbanClear,
       LimitCheck, LimitWrite, DeadlockVictim, Fail, Finish
  <2>3. CASE Abort(r) BY <2>3 DEF Abort, Fail, Finish
  <2>4. QED BY <2>1, <2>2, <2>3
<1>2. QED BY <1>a, <1>1, NoneAssumption DEF Release, LockRow

\* Only an unban's first statement leads to its second.
LEMMA ToUnbanClear ==
  ASSUME IInv, NEW r \in Request, Arrive(r) \/ Statement(r) \/ Abort(r), pc'[r] = "unbanClear"
  PROVE  UnbanRow(r)
<1>0. pc \in [Request -> PC] BY DEF IInv, TypeInv, LocalOK
<1>a. ASSUME NEW label, Goto(r, label) PROVE label = "unbanClear" BY <1>0, <1>a DEF Goto
<1>b. ~Release(r) BY <1>0 DEF Release
<1>1. ~Arrive(r)
  <2>1. ASSUME NEW call, NEW label, Begin(r, call, label) PROVE label = "unbanClear"
    BY <1>0, <2>1 DEF Begin
  <2>2. QED BY <2>1 DEF Arrive, Join, Rotate, BanLeaf, BanNullifier, Unban, SetLimit
<1>2. QED
  BY <1>a, <1>b, <1>1 DEF Statement, JoinFind, JoinCreate, JoinLock, JoinCheck, JoinInsert,
     RotateRead, RotateFind, RotateLeaf, RotateRow, BanFind, BanRowLock, Prune,
     UnbanClear, LimitCheck, LimitWrite, DeadlockVictim, Abort, Fail, Finish

LInv == \A r \in Request : EpochClaimed(r) /\ HoldsLock(r) /\ UnbansRow(r)

LEMMA LocksKept ==
  ASSUME IInv, LInv, NEW r \in Request, Arrive(r) \/ Statement(r) \/ Abort(r)
  PROVE  LInv'
<1>1. EpochClaimed(r)' /\ HoldsLock(r)' BY EpochClaimedKept, HoldsLockKept DEF LInv
<1>2. UnbansRow(r)'
  <2>1. SUFFICES ASSUME pc'[r] = "unbanClear", (rowLock[Nul(r)] = r)'
                 PROVE  (member[Nul(r)].status # "NONE")'
    BY DEF UnbansRow
  <2>2. UnbanRow(r) BY <2>1, ToUnbanClear
  <2>3. Nul(r) \in Nullifier /\ HoldsLock(r) /\ pc[r] = "unbanRow"
    BY <2>2 DEF IInv, TypeInv, LocalOK, InputOK, UnbanRow, Nul, NulPC, LInv
  <2>4. rowLock[Nul(r)] # r BY <2>3 DEF HoldsLock, Holding
  <2>5. member[Nul(r)].status # "NONE" BY <2>1, <2>2, <2>4 DEF UnbanRow, Nul
  <2>6. QED BY <2>2, <2>5 DEF UnbanRow, Nul, tables
<1>3. ASSUME NEW q \in Request \ {r} PROVE (EpochClaimed(q) /\ HoldsLock(q) /\ UnbansRow(q))'
  <2>1. pc'[q] = pc[q] /\ arg'[q] = arg[q] BY OthersKept
  <2>2. EpochClaimed(q) /\ HoldsLock(q) /\ UnbansRow(q) BY DEF LInv
  <2>3. EpochClaimed(q)' BY <2>1, <2>2 DEF EpochClaimed
  <2>4. HoldsLock(q)' BY <2>1, <2>2, LocksOfOthers DEF HoldsLock, Nul
  <2>5. UnbansRow(q)'
    <3>1. SUFFICES ASSUME pc[q] = "unbanClear", rowLock'[Nul(q)] = q
                   PROVE  member'[Nul(q)].status # "NONE"
      BY <2>1 DEF UnbansRow, Nul
    <3>2. Nul(q) \in Nullifier
      BY <3>1 DEF IInv, TypeInv, LocalOK, InputOK, Nul, NulPC
    <3>3. rowLock[Nul(q)] = q BY <3>1, <3>2, LocksOfOthers
    <3>4. QED BY <2>2, <3>1, <3>2, <3>3, RowStays DEF UnbansRow
  <2>6. QED BY <2>3, <2>4, <2>5
<1>4. QED BY <1>1, <1>2, <1>3 DEF LInv

\* A token on a row was minted by a join that has ended, so the token a running
\* join mints is on no row.
TokenMade == \A n \in Nullifier : member[n].token # None => pc[member[n].token] = "done"

MintsOrKeeps(r) ==
    pc[r] = "joinInsert" => authorToken[r] = r \/ authorToken[r] = member[Nul(r)].token

MInv == TokenMade /\ \A r \in Request : MintsOrKeeps(r)

LEMMA MintedToken ==
  ASSUME IInv, TInv, MInv, NEW r \in Request, pc[r] \in {"joinCheck", "joinInsert"}
  PROVE  IF member[Nul(r)].token = None THEN JoinToken(r) = r
         ELSE JoinToken(r) = member[Nul(r)].token
<1>1. arg[r] \in Call /\ Nul(r) \in Nullifier /\ TokenRead(r) /\ MintsOrKeeps(r)
  BY DEF IInv, TInv, MInv, TypeInv, LocalOK, InputOK, Nul, NulPC, Joining
<1>2. member[Nul(r)] \in MemberRow BY <1>1 DEF IInv, TypeInv, TablesOK
<1>3. member[Nul(r)].token # None => JoinToken(r) = member[Nul(r)].token BY TokenKept
<1>4. member[Nul(r)].token = None => JoinToken(r) = r
  BY <1>1, <1>2 DEF TokenRead, MintsOrKeeps, JoinToken
<1>5. QED BY <1>3, <1>4

\* A step changes the token of one row at most, when a join commits under its lock.
LEMMA TokenChange ==
  ASSUME IInv, NEW r \in Request, Arrive(r) \/ Statement(r) \/ Abort(r)
  PROVE  \/ \A n \in Nullifier : member'[n].token = member[n].token
         \/ /\ pc[r] \in {"joinCheck", "joinInsert"} /\ Release(r)
            /\ member' = [member EXCEPT ![Nul(r)] = JoinedRow(r)]
<1>a. member \in [Nullifier -> MemberRow] BY DEF IInv, TypeInv, TablesOK
<1>1. CASE ~Writes(r) BY <1>1, OnlyWrites DEF tables
<1>2. CASE JoinCheck(r) BY <1>2 DEF JoinCheck, tables, Finish
<1>3. CASE JoinInsert(r) BY <1>3 DEF JoinInsert, Fail, tables
<1>4. CASE RotateRow(r) BY <1>a, <1>4 DEF RotateRow
<1>5. CASE Prune(r) BY <1>a, <1>5 DEF Prune
<1>6. CASE UnbanClear(r) BY <1>a, <1>6 DEF UnbanClear
<1>7. CASE LimitWrite(r) BY <1>7 DEF LimitWrite
<1>8. QED BY <1>1, <1>2, <1>3, <1>4, <1>5, <1>6, <1>7 DEF Writes

\* Only the device checks lead to the insert.
LEMMA ToJoinInsert ==
  ASSUME IInv, NEW r \in Request, Arrive(r) \/ Statement(r) \/ Abort(r), pc'[r] = "joinInsert"
  PROVE  /\ pc[r] = "joinCheck" /\ UNCHANGED <<tables, arg>>
         /\ authorToken'[r] = JoinToken(r)
<1>0. /\ pc \in [Request -> PC]
      /\ authorToken \in [Request -> Request \union {None}]
  BY DEF IInv, TypeInv, LocalOK
<1>a. ASSUME NEW label, Goto(r, label) PROVE label = "joinInsert" BY <1>0, <1>a DEF Goto
<1>b. ~Release(r) BY <1>0 DEF Release
<1>1. ~Arrive(r)
  <2>1. ASSUME NEW call, NEW label, Begin(r, call, label) PROVE label = "joinInsert"
    BY <1>0, <2>1 DEF Begin
  <2>2. QED BY <2>1 DEF Arrive, Join, Rotate, BanLeaf, BanNullifier, Unban, SetLimit
<1>2. JoinCheck(r)
  BY <1>a, <1>b, <1>1 DEF Statement, JoinFind, JoinCreate, JoinLock, JoinInsert,
     RotateRead, RotateFind, RotateLeaf, RotateRow, BanFind, BanRowLock, Prune,
     UnbanRow, UnbanClear, LimitCheck, LimitWrite, DeadlockVictim, Abort, Fail, Finish
<1>3. QED BY <1>0, <1>b, <1>2 DEF JoinCheck, Finish

LEMMA TokensKept ==
  ASSUME IInv, TInv, MInv, NEW r \in Request, Arrive(r) \/ Statement(r) \/ Abort(r)
  PROVE  MInv'
<1>a. /\ member \in [Nullifier -> MemberRow] /\ pc \in [Request -> PC]
      /\ InputOK(r) /\ Locked(r)
  BY DEF IInv, TypeInv, TablesOK, LocalOK
<1>1. pc[r] # "done"
  <2>1. Arrive(r) => pc[r] = "idle"
    BY DEF Arrive, Join, Rotate, BanLeaf, BanNullifier, Unban, SetLimit, Begin
  <2>2. QED BY <2>1, OneMoves DEF InFlight
<1>2. \A q \in Request : pc[q] = "done" => pc'[q] = "done" BY <1>1, OthersKept
<1>3. CASE \A n \in Nullifier : member'[n].token = member[n].token
  <2>1. TokenMade'
    <3>1. \A n \in Nullifier : member[n].token \in Request \union {None} BY <1>a
    <3>2. QED BY <1>2, <1>3, <3>1 DEF MInv, TokenMade
  <2>2. ASSUME NEW q \in Request \ {r} PROVE MintsOrKeeps(q)'
    <3>1. pc'[q] = pc[q] /\ arg'[q] = arg[q] /\ authorToken'[q] = authorToken[q] BY OthersKept
    <3>2. pc[q] = "joinInsert" => Nul(q) \in Nullifier
      BY DEF IInv, TypeInv, LocalOK, InputOK, Nul, NulPC, Joining
    <3>3. QED BY <1>3, <3>1, <3>2 DEF MInv, MintsOrKeeps, Nul
  <2>3. MintsOrKeeps(r)'
    <3>1. SUFFICES ASSUME pc'[r] = "joinInsert"
                   PROVE  (authorToken[r] = r \/ authorToken[r] = member[Nul(r)].token)'
      BY DEF MintsOrKeeps
    <3>2. /\ pc[r] = "joinCheck" /\ UNCHANGED <<tables, arg>> /\ authorToken'[r] = JoinToken(r)
      BY <3>1, ToJoinInsert
    <3>3. JoinToken(r) \in {r, member[Nul(r)].token} BY <3>2, MintedToken
    <3>4. QED BY <3>2, <3>3 DEF Nul, tables
  <2>4. QED BY <2>1, <2>2, <2>3 DEF MInv
<1>4. CASE /\ pc[r] \in {"joinCheck", "joinInsert"} /\ Release(r)
           /\ member' = [member EXCEPT ![Nul(r)] = JoinedRow(r)]
  <2>0. /\ Nul(r) \in Nullifier /\ rowLock[Nul(r)] = r /\ pc'[r] = "done"
        /\ JoinedRow(r).token = JoinToken(r) /\ JoinToken(r) \in {r, member[Nul(r)].token}
    BY <1>a, <1>4, TokenKept, MintedToken DEF InputOK, Nul, NulPC, Joining, Locked, Release
  <2>1. \A n \in Nullifier : member'[n] = IF n = Nul(r) THEN JoinedRow(r) ELSE member[n]
    BY <1>a, <1>4, <2>0
  <2>2. TokenMade'
    <3>1. ASSUME NEW n \in Nullifier, member'[n].token # None PROVE pc'[member'[n].token] = "done"
      <4>1. CASE member'[n].token = r BY <2>0, <4>1
      <4>2. CASE member'[n].token = member[n].token
        <5>1. member[n].token \in Request /\ pc[member[n].token] = "done"
          BY <1>a, <3>1, <4>2 DEF MInv, TokenMade
        <5>2. QED BY <1>2, <4>2, <5>1
      <4>3. QED BY <2>0, <2>1, <4>1, <4>2
    <3>2. QED BY <3>1 DEF TokenMade
  <2>3. ASSUME NEW q \in Request PROVE MintsOrKeeps(q)'
    <3>1. CASE q = r BY <2>0, <3>1 DEF MintsOrKeeps
    <3>2. CASE q # r
      <4>1. pc'[q] = pc[q] /\ arg'[q] = arg[q] /\ authorToken'[q] = authorToken[q]
        BY <3>2, OthersKept
      <4>2. pc[q] = "joinInsert" => Nul(q) \in Nullifier /\ rowLock[Nul(q)] = q
        BY DEF IInv, TypeInv, LocalOK, InputOK, Nul, NulPC, Joining, Locked
      <4>3. pc[q] = "joinInsert" => Nul(q) # Nul(r) BY <2>0, <3>2, <4>2
      <4>4. QED BY <2>1, <4>1, <4>2, <4>3 DEF MInv, MintsOrKeeps, Nul
    <3>3. QED BY <3>1, <3>2
  <2>4. QED BY <2>2, <2>3 DEF MInv
<1>5. QED BY <1>3, <1>4, TokenChange

-----------------------------------------------------------------------------
(* The refinement: each commit is one step of the contract.                 *)

CInv == IInv /\ SInv /\ TInv /\ KInv /\ LInv /\ MInv

LEMMA ContractInvariance == Spec => []CInv
<1>1. Init => TInv /\ KInv /\ LInv /\ MInv
  <2>1. SUFFICES ASSUME Init PROVE TInv /\ KInv /\ LInv /\ MInv OBVIOUS
  <2>2. TInv BY <2>1 DEF Init, TInv, TokenRead, NoRowNoToken, JoinTokenResolves, NoMember
  <2>3. KInv BY <2>1 DEF Init, KInv, KeysDiffer, KeyReserved
  <2>4. LInv BY <2>1, NoneAssumption DEF Init, LInv, EpochClaimed, HoldsLock, UnbansRow
  <2>5. MInv BY <2>1 DEF Init, MInv, TokenMade, MintsOrKeeps, NoMember
  <2>6. QED BY <2>2, <2>3, <2>4, <2>5
<1>2. ASSUME IInv, TInv, KInv, LInv, MInv, [Next]_vars PROVE TInv' /\ KInv' /\ LInv' /\ MInv'
  <2>1. ASSUME NEW r \in Request, Arrive(r) \/ Statement(r) \/ Abort(r)
        PROVE  TInv' /\ KInv' /\ LInv' /\ MInv'
    BY <1>2, <2>1, TokenStep, KeysKept, LocksKept, TokensKept
  <2>2. CASE UNCHANGED vars
    <3>1. TInv'
      BY <1>2, <2>2 DEF TInv, TokenRead, NoRowNoToken, JoinTokenResolves, Nul, vars, tables
    <3>2. KInv' BY <1>2, <2>2 DEF KInv, KeysDiffer, KeyReserved, Rc, vars, tables
    <3>3. LInv'
      BY <1>2, <2>2 DEF LInv, EpochClaimed, HoldsLock, UnbansRow, Nul, vars, tables
    <3>4. MInv' BY <1>2, <2>2 DEF MInv, TokenMade, MintsOrKeeps, Nul, vars, tables
    <3>5. QED BY <3>1, <3>2, <3>3, <3>4
  <2>3. QED BY <1>2, <2>1, <2>2 DEF Next, AllDone
<1>3. QED BY <1>1, <1>2, Invariance, SerialInvariance, PTL DEF Spec, CInv

\* KeyOf over any set of leaves, for the state before a step and the one after it.
KeyFrom(own) == IF own = {} THEN None ELSE (CHOOSE l \in own : TRUE).rc

KeyIn(L, n) == KeyFrom({l \in L : l.owner = n})

LEMMA KeyOfLeaf ==
  ASSUME NEW L, \A l1, l2 \in L : l1.owner = l2.owner => l1 = l2, NEW l \in L
  PROVE  KeyIn(L, l.owner) = l.rc
<1> DEFINE own == {k \in L : k.owner = l.owner}
<1>1. own = {l} OBVIOUS
<1>2. (CHOOSE k \in own : TRUE) = l BY <1>1
<1>3. QED BY <1>1, <1>2 DEF KeyIn, KeyFrom

LEMMA KeyOfNone ==
  ASSUME NEW L, NEW n, \A l \in L : l.owner # n
  PROVE  KeyIn(L, n) = None
BY DEF KeyIn, KeyFrom

LEMMA KeyOfRead == (\A n : KeyOf(n) = KeyIn(leaf, n)) /\ (\A n : KeyOf(n)' = KeyIn(leaf', n))
BY DEF KeyOf, LeavesOf, KeyIn, KeyFrom

\* The keys of two states agree on a user whose leaves are the same in both.
LEMMA KeySame ==
  ASSUME NEW L, NEW M, NEW n, {l \in L : l.owner = n} = {l \in M : l.owner = n}
  PROVE  KeyIn(L, n) = KeyIn(M, n)
BY DEF KeyIn

\* A rate commitment that no leaf of another user has is unused.
LEMMA KeyUnused ==
  ASSUME CInv, NEW n \in Nullifier, NEW k \in RateCommitment,
         \A l \in leaf : l.rc = k => l.owner = n
  PROVE  \A v \in Nullifier \ {n} : KeyOf(v) # k
<1>1. SUFFICES ASSUME NEW v \in Nullifier \ {n}, KeyOf(v) = k PROVE FALSE OBVIOUS
<1>2. CASE \E l \in leaf : l.owner = v
  <2>1. PICK l \in leaf : l.owner = v BY <1>2
  <2>2. KeyOf(v) = l.rc BY <2>1, KeyOfRead, KeyOfLeaf DEF CInv, IInv, OneLeaf
  <2>3. QED BY <1>1, <2>1, <2>2
<1>3. CASE \A l \in leaf : l.owner # v
  <2>1. KeyOf(v) = None BY <1>3, KeyOfRead, KeyOfNone
  <2>2. QED BY <1>1, <2>1, NoneAssumption
<1>4. QED BY <1>2, <1>3

\* A join's row as it commits is the contract's Enrol.
LEMMA JoinEnrols ==
  ASSUME CInv, NEW r \in Request, NEW n \in Nullifier, n = Nul(r),
         pc[r] \in {"joinCheck", "joinInsert"},
         member' = [member EXCEPT ![n] = JoinedRow(r)]
  PROVE  Contract!Enrol(n) /\ (~overlap => member[n].status # "BANNED")
<1>a. /\ member \in [Nullifier -> MemberRow] /\ arg[r] \in Call
      /\ ~overlap => Knows(r)
  BY DEF CInv, IInv, SInv, TypeInv, TablesOK, LocalOK, InputOK, Nul, NulPC, Joining
<1>1. \A m \in Nullifier : member'[m] = IF m = n THEN JoinedRow(r) ELSE member[m]
  BY <1>a
<1>2. JoinedRow(r).token = JoinToken(r)
      /\ IF member[n].token = None THEN JoinToken(r) = r ELSE JoinToken(r) = member[n].token
  BY TokenKept, MintedToken DEF CInv
<1>3. IF member[n].status = "NONE"
      THEN JoinedRow(r).status = "ACTIVE" /\ JoinedRow(r).epoch = arg[r].epoch
      ELSE JoinedRow(r).status = member[n].status /\ JoinedRow(r).epoch = member[n].epoch
  BY <1>a DEF JoinedRow
<1>4. \A v \in Nullifier : member[v].token # r
  BY NoneAssumption DEF CInv, MInv, TokenMade
<1>5. arg[r].epoch \in 0..MaxEpoch BY <1>a
<1>6. \/ /\ member[n].status = "NONE"
         /\ [m \in Nullifier |-> member'[m].status]
              = [[m \in Nullifier |-> member[m].status] EXCEPT ![n] = "ACTIVE"]
         /\ [m \in Nullifier |-> member'[m].epoch]
              = [[m \in Nullifier |-> member[m].epoch] EXCEPT ![n] = arg[r].epoch]
      \/ /\ member[n].status # "NONE"
         /\ [m \in Nullifier |-> member'[m].status] = [m \in Nullifier |-> member[m].status]
         /\ [m \in Nullifier |-> member'[m].epoch] = [m \in Nullifier |-> member[m].epoch]
  BY <1>a, <1>1, <1>3
<1>7. \/ /\ member[n].token = None
         /\ [m \in Nullifier |-> member'[m].token]
              = [[m \in Nullifier |-> member[m].token] EXCEPT ![n] = r]
      \/ /\ member[n].token # None
         /\ [m \in Nullifier |-> member'[m].token] = [m \in Nullifier |-> member[m].token]
  <2>1. CASE member[n].token = None
    <3>1. \A m \in Nullifier : member'[m].token = IF m = n THEN r ELSE member[m].token
      BY <1>1, <1>2, <2>1
    <3>2. QED BY <1>a, <2>1, <3>1
  <2>2. CASE member[n].token # None
    <3>1. \A m \in Nullifier : member'[m].token = member[m].token
      BY <1>1, <1>2, <2>2
    <3>2. QED BY <2>2, <3>1
  <2>3. QED BY <2>1, <2>2
<1>8. Contract!Enrol(n) BY <1>a, <1>4, <1>5, <1>6, <1>7 DEF Contract!Enrol
<1>9. ~overlap => member[n].status # "BANNED" BY <1>a DEF Knows
<1>10. QED BY <1>8, <1>9

\* The mapped key function after a step that touches the leaves of n at most.
LEMMA KeysAfter ==
  ASSUME NEW n \in Nullifier, NEW k, KeyIn(leaf', n) = k,
         \A v \in Nullifier \ {n} : {l \in leaf' : l.owner = v} = {l \in leaf : l.owner = v}
  PROVE  [v \in Nullifier |-> KeyOf(v)]' = [[v \in Nullifier |-> KeyOf(v)] EXCEPT ![n] = k]
<1>1. KeyOf(n)' = k BY KeyOfRead
<1>2. \A v \in Nullifier \ {n} : KeyOf(v)' = KeyOf(v) BY KeyOfRead, KeySame
<1>3. QED BY <1>1, <1>2

\* A join that is refused on the device checks commits its row only.
LEMMA RefusedJoinRegisters ==
  ASSUME CInv, NEW r \in Request, NEW n \in Nullifier, n = Nul(r), pc[r] = "joinCheck",
         member' = [member EXCEPT ![n] = JoinedRow(r)], UNCHANGED leaf
  PROVE  Contract!Register(n)
<1>1. [v \in Nullifier |-> KeyOf(v)]' = [v \in Nullifier |-> KeyOf(v)] BY KeyOfRead
<1>2. Contract!Enrol(n) /\ (~overlap => member[n].status # "BANNED") BY JoinEnrols
<1>3. QED BY <1>1, <1>2 DEF Contract!Register

\* The insert of the leaf admits the user under an unused key.
LEMMA InsertAdmits ==
  ASSUME CInv, NEW r \in Request, NEW n \in Nullifier, n = Nul(r), JoinInsert(r),
         \A l \in leaf : l.rc # Rc(r),
         leaf' = leaf \union {[id |-> r, owner |-> n, rc |-> Rc(r)]},
         member' = [member EXCEPT ![n] = JoinedRow(r)]
  PROVE  Contract!Admit(n)
<1> DEFINE new == [id |-> r, owner |-> n, rc |-> Rc(r)]
<1>a. pc[r] = "joinInsert" /\ Rc(r) \in RateCommitment
  BY DEF CInv, IInv, TypeInv, LocalOK, InputOK, Nul, NulPC, Joining, JoinInsert, Rc
<1>b. \A l \in leaf : l.owner # n BY <1>a DEF CInv, IInv, NoLeafYet
<1>1. KeyOf(n) = None BY <1>b, KeyOfRead, KeyOfNone
<1>2. KeyIn(leaf', n) = Rc(r)
  <2>1. \A l1, l2 \in leaf' : l1.owner = l2.owner => l1 = l2
    BY NextKeeps DEF CInv, Next, Statement, IInv, OneLeaf
  <2>2. new \in leaf' OBVIOUS
  <2>3. KeyIn(leaf', new.owner) = new.rc BY <2>1, <2>2, KeyOfLeaf
  <2>4. QED BY <2>3
<1>3. \A v \in Nullifier \ {n} : {l \in leaf' : l.owner = v} = {l \in leaf : l.owner = v}
  OBVIOUS
<1>4. \A v \in Nullifier \ {n} : KeyOf(v) # Rc(r) BY <1>a, KeyUnused
<1>5. Contract!Unused(Rc(r), n) BY <1>4 DEF Contract!Unused
<1>6. [v \in Nullifier |-> KeyOf(v)]' = [[v \in Nullifier |-> KeyOf(v)] EXCEPT ![n] = Rc(r)]
  BY <1>a, <1>2, <1>3, KeysAfter
<1>7. Contract!Enrol(n) /\ (~overlap => member[n].status # "BANNED") BY <1>a, JoinEnrols
<1> HIDE DEF new
<1>8. QED BY <1>a, <1>1, <1>5, <1>6, <1>7 DEF Contract!Admit

\* The commit of a rotation re-keys the user: the key is reserved, the epoch claimed.
LEMMA RowRekeys ==
  ASSUME CInv, NEW r \in Request, NEW n \in Nullifier, n = Nul(r), RotateRow(r)
  PROVE  Contract!Rekey(n)
<1> DEFINE new == [id |-> seenLeaf[r], owner |-> n, rc |-> Rc(r)]
<1>a. /\ pc[r] = "rotateRow" /\ Rc(r) \in RateCommitment
      /\ member \in [Nullifier -> MemberRow] /\ leaf \in SUBSET LeafRow
      /\ LeafMade /\ OneLeaf /\ Rotating(r) /\ KeyReserved(r) /\ EpochClaimed(r)
      /\ ~overlap => Knows(r)
  BY DEF CInv, IInv, KInv, LInv, SInv, TypeInv, TablesOK, LocalOK, InputOK, Nul, NulPC,
         RotatingPC, RotateRow, Rc
<1>b. PICK old \in leaf : old.id = seenLeaf[r] BY <1>a DEF Rotating
<1>c. old.owner = n BY <1>a, <1>b DEF Rotating
<1>d. leaf' = {l \in leaf : l.id # seenLeaf[r]} \union {new} BY DEF RotateRow
<1>1. KeyOf(n) # None
  <2>1. KeyIn(leaf, old.owner) = old.rc BY <1>a, <1>b, KeyOfLeaf DEF OneLeaf
  <2>2. old.rc \in RateCommitment BY <1>a, <1>b
  <2>3. QED BY <1>c, <2>1, <2>2, KeyOfRead, NoneAssumption
<1>2. KeyIn(leaf', n) = Rc(r)
  <2>1. \A l1, l2 \in leaf' : l1.owner = l2.owner => l1 = l2
    BY NextKeeps DEF CInv, Next, Statement, IInv, OneLeaf
  <2>2. new \in leaf' BY <1>d
  <2>3. KeyIn(leaf', new.owner) = new.rc BY <2>1, <2>2, KeyOfLeaf
  <2>4. QED BY <2>3
<1>3. ASSUME NEW v \in Nullifier \ {n}
      PROVE  {l \in leaf' : l.owner = v} = {l \in leaf : l.owner = v}
  <2>1. \A l \in leaf : l.owner = v => l.id # seenLeaf[r] BY <1>a DEF Rotating
  <2>2. new.owner # v OBVIOUS
  <2>3. QED BY <1>d, <2>1, <2>2
<1>4. \A l \in leaf : l.rc = Rc(r) => l.owner = n
  BY <1>a, <1>b, <1>c DEF KeyReserved, LeafMade
<1>5. Contract!Unused(Rc(r), n) BY <1>a, <1>4, KeyUnused DEF Contract!Unused
<1>6. [v \in Nullifier |-> KeyOf(v)]' = [[v \in Nullifier |-> KeyOf(v)] EXCEPT ![n] = Rc(r)]
  BY <1>a, <1>2, <1>3, KeysAfter
<1>7. /\ arg[r].epoch \in 1..MaxEpoch
      /\ ~overlap => arg[r].epoch > member[n].epoch /\ member[n].status = "ACTIVE"
  BY <1>a DEF EpochClaimed, Knows
<1>8. /\ [v \in Nullifier |-> member[v].epoch]'
           = [[v \in Nullifier |-> member[v].epoch] EXCEPT ![n] = arg[r].epoch]
      /\ [v \in Nullifier |-> member[v].status]' = [v \in Nullifier |-> member[v].status]
      /\ [v \in Nullifier |-> member[v].token]' = [v \in Nullifier |-> member[v].token]
  <2>1. member' = [member EXCEPT ![n].epoch = arg[r].epoch] BY DEF RotateRow
  <2>2. \A v \in Nullifier : /\ member'[v].epoch = IF v = n THEN arg[r].epoch ELSE member[v].epoch
                             /\ member'[v].status = member[v].status
                             /\ member'[v].token = member[v].token
    BY <1>a, <2>1
  <2>3. QED BY <1>a, <2>2
<1> HIDE DEF new
<1>9. QED BY <1>a, <1>1, <1>5, <1>6, <1>7, <1>8 DEF Contract!Rekey

\* The delete of the leaves bans the user and takes the key away.
LEMMA PruneBans ==
  ASSUME CInv, NEW r \in Request, NEW n \in Nullifier, n = Nul(r), Prune(r)
  PROVE  Contract!Ban(n)
<1>a. member \in [Nullifier -> MemberRow]
  BY DEF CInv, IInv, TypeInv, TablesOK, LocalOK, InputOK, Nul, NulPC, Prune
<1>b. leaf' = leaf \ LeavesOf(n) /\ member' = [member EXCEPT ![n].status = "BANNED"]
  BY DEF Prune
<1>1. KeyIn(leaf', n) = None BY <1>b, KeyOfNone DEF LeavesOf
<1>2. ASSUME NEW v \in Nullifier \ {n}
      PROVE  {l \in leaf' : l.owner = v} = {l \in leaf : l.owner = v}
  BY <1>b DEF LeavesOf
<1>3. [v \in Nullifier |-> KeyOf(v)]' = [[v \in Nullifier |-> KeyOf(v)] EXCEPT ![n] = None]
  BY <1>a, <1>1, <1>2, KeysAfter
<1>4. \A v \in Nullifier : /\ member'[v].status = IF v = n THEN "BANNED" ELSE member[v].status
                           /\ member'[v].token = member[v].token
                           /\ member'[v].epoch = member[v].epoch
  BY <1>a, <1>b
<1>5. QED BY <1>a, <1>3, <1>4 DEF Contract!Ban

\* The second write of an unban readmits a user who is known, or does nothing.
LEMMA ClearUnbans ==
  ASSUME CInv, NEW r \in Request, NEW n \in Nullifier, n = Nul(r), UnbanClear(r)
  PROVE  Contract!Unban(n) \/ UNCHANGED <<member, leaf>>
<1>1. CASE rowLock[n] = r
  <2>a. member \in [Nullifier -> MemberRow]
    BY DEF CInv, IInv, TypeInv, TablesOK, LocalOK, InputOK, Nul, NulPC, UnbanClear
  <2>b. leaf' = leaf /\ member' = [member EXCEPT ![n].status = "ACTIVE"]
    BY <1>1 DEF UnbanClear
  <2>1. member[n].status # "NONE" BY <1>1 DEF CInv, LInv, UnbansRow, UnbanClear
  <2>2. [v \in Nullifier |-> KeyOf(v)]' = [v \in Nullifier |-> KeyOf(v)] BY <2>b, KeyOfRead
  <2>3. \A v \in Nullifier : /\ member'[v].status = IF v = n THEN "ACTIVE" ELSE member[v].status
                             /\ member'[v].token = member[v].token
                             /\ member'[v].epoch = member[v].epoch
    BY <2>a, <2>b
  <2>4. QED BY <2>a, <2>1, <2>2, <2>3 DEF Contract!Unban
<1>2. CASE rowLock[n] # r BY <1>2 DEF UnbanClear
<1>3. QED BY <1>1, <1>2

\* A step that writes no row and no leaf is none of the contract's, except that the
\* arrival of a second request ends strictness.
LEMMA ReadsStutter ==
  ASSUME CInv, UNCHANGED <<member, leaf>>, overlap' \in BOOLEAN, overlap => overlap'
  PROVE  Contract!Overlap \/ UNCHANGED Contract!room
<1>1. [v \in Nullifier |-> KeyOf(v)]' = [v \in Nullifier |-> KeyOf(v)] BY KeyOfRead
<1>2. overlap \in BOOLEAN BY DEF CInv, IInv, TypeInv, LocalOK
<1>3. CASE overlap' = overlap BY <1>1, <1>3 DEF Contract!room
<1>4. CASE ~overlap /\ overlap' = TRUE BY <1>1, <1>4 DEF Contract!Overlap
<1>5. QED BY <1>2, <1>3, <1>4

\* Every statement of every interleaving is a step of the contract or invisible to it.
LEMMA StepImplements ==
  ASSUME CInv, NEW r \in Request, Arrive(r) \/ Statement(r) \/ Abort(r)
  PROVE  Contract!Next \/ UNCHANGED Contract!room
<1>a. /\ overlap \in BOOLEAN /\ overlap' \in BOOLEAN
      /\ overlap => overlap'
  BY NextKeeps, OneMoves DEF Next, CInv, IInv, TypeInv, LocalOK
<1>b. ASSUME NEW n \in Nullifier, UNCHANGED overlap,
             Contract!Register(n) \/ Contract!Admit(n) \/ Contract!Rekey(n)
               \/ Contract!Ban(n) \/ Contract!Unban(n)
      PROVE  Contract!Next
  BY <1>b DEF Contract!Next
<1>c. ASSUME UNCHANGED <<member, leaf>> PROVE Contract!Next \/ UNCHANGED Contract!room
  BY <1>a, <1>c, ReadsStutter DEF Contract!Next
<1>d. Writes(r) => UNCHANGED overlap
  BY DEF Writes, JoinCheck, JoinInsert, RotateRow, Prune, UnbanClear, LimitWrite,
         Goto, Fail, Finish, Release
<1>e. ASSUME Writes(r), ~LimitWrite(r) PROVE \E n \in Nullifier : n = Nul(r)
  BY <1>e DEF CInv, IInv, TypeInv, LocalOK, InputOK, Nul, NulPC, Joining, RotatingPC,
         Writes, JoinCheck, JoinInsert, RotateRow, Prune, UnbanClear
<1>1. CASE ~Writes(r) BY <1>c, <1>1, OnlyWrites DEF tables
<1>2. ASSUME Writes(r), NEW n \in Nullifier, n = Nul(r)
      PROVE  Contract!Next \/ UNCHANGED Contract!room
  <2>0. UNCHANGED overlap BY <1>2, <1>d
  <2>1. CASE JoinCheck(r)
    <3>1. CASE member' = [member EXCEPT ![n] = JoinedRow(r)] /\ UNCHANGED leaf
      <4>1. Contract!Register(n) BY <1>2, <2>1, <3>1, RefusedJoinRegisters DEF JoinCheck
      <4>2. QED BY <1>b, <2>0, <4>1
    <3>2. QED BY <1>2, <1>c, <2>1, <3>1 DEF JoinCheck, tables
  <2>2. CASE JoinInsert(r)
    <3>1. CASE /\ \A l \in leaf : l.rc # Rc(r)
               /\ leaf' = leaf \union {[id |-> r, owner |-> n, rc |-> Rc(r)]}
               /\ member' = [member EXCEPT ![n] = JoinedRow(r)]
      <4>1. Contract!Admit(n) BY <1>2, <2>2, <3>1, InsertAdmits
      <4>2. QED BY <1>b, <2>0, <4>1
    <3>2. QED BY <1>2, <1>c, <2>2, <3>1 DEF JoinInsert, Fail, tables
  <2>3. CASE RotateRow(r) BY <1>2, <1>b, <2>0, <2>3, RowRekeys
  <2>4. CASE Prune(r) BY <1>2, <1>b, <2>0, <2>4, PruneBans
  <2>5. CASE UnbanClear(r) BY <1>2, <1>b, <1>c, <2>0, <2>5, ClearUnbans
  <2>6. CASE LimitWrite(r) BY <1>c, <2>6 DEF LimitWrite
  <2>7. QED BY <1>2, <2>1, <2>2, <2>3, <2>4, <2>5, <2>6 DEF Writes
<1>3. CASE LimitWrite(r) BY <1>c, <1>3 DEF LimitWrite
<1>4. QED BY <1>1, <1>2, <1>3, <1>e

\* The statements and locks of join, rotate, ban and unban, in any interleaving, have the
\* effect of atomic requests applied in commit order; and of requests that also respect
\* status and epoch for as long as none of them overlap.
THEOREM Implementation == Spec => ImplementsContract
<1>1. Init => Contract!Init
  <2>1. SUFFICES ASSUME Init PROVE Contract!Init OBVIOUS
  <2>2. \A n \in Nullifier : KeyOf(n) = None BY <2>1 DEF Init, KeyOf, LeavesOf
  <2>3. \A n \in Nullifier : member[n] = NoMember BY <2>1 DEF Init
  <2>4. [n \in Nullifier |-> KeyOf(n)] = [n \in Nullifier |-> None] BY <2>2
  <2>5. QED BY <2>1, <2>3, <2>4 DEF Init, NoMember, Contract!Init
<1>2. CInv /\ [Next]_vars => [Contract!Next]_Contract!room
  <2>1. SUFFICES ASSUME CInv, [Next]_vars PROVE Contract!Next \/ UNCHANGED Contract!room
    OBVIOUS
  <2>2. CASE UNCHANGED vars
    <3>1. UNCHANGED <<member, leaf, overlap>> BY <2>2 DEF vars, tables
    <3>2. overlap \in BOOLEAN BY <2>1 DEF CInv, IInv, TypeInv, LocalOK
    <3>3. QED BY <2>1, <3>1, <3>2, ReadsStutter DEF Contract!Next
  <2>3. QED BY <2>1, <2>2, StepImplements DEF Next, AllDone
<1>3. QED BY <1>1, <1>2, ContractInvariance, PTL DEF Spec, ImplementsContract, Contract!Spec

-----------------------------------------------------------------------------
(* What the message pipeline lets the tree do under its sends is all that    *)
(* the membership operations ever do to it.                                  *)

Tree == INSTANCE MembershipTree WITH
    Member <- Nullifier, Identity <- RateCommitment, leaf <- [n \in Nullifier |-> KeyOf(n)]

\* A request of the contract gives its user a vacant key, takes the key away, or leaves
\* the keys alone.
LEMMA ContractChangesTree ==
  ASSUME Contract!Next
  PROVE  Tree!Next \/ UNCHANGED [n \in Nullifier |-> KeyOf(n)]
<1> DEFINE key == [n \in Nullifier |-> KeyOf(n)]
<1>1. ASSUME NEW u \in Nullifier, Contract!Admit(u) PROVE Tree!Next
  <2>1. PICK k \in RateCommitment : Contract!Unused(k, u) /\ key' = [key EXCEPT ![u] = k]
    BY <1>1 DEF Contract!Admit
  <2>2. key[u] = None BY <1>1 DEF Contract!Admit
  <2>3. \A v \in Nullifier : key[v] # k
    BY <2>1, <2>2, NoneAssumption DEF Contract!Unused
  <2>4. Tree!Enter(u) BY <2>1, <2>2, <2>3 DEF Tree!Enter, Tree!Vacant, Tree!Holds
  <2>5. QED BY <2>4 DEF Tree!Next
<1>2. ASSUME NEW u \in Nullifier, Contract!Rekey(u) PROVE Tree!Next \/ UNCHANGED key
  <2>1. PICK k \in RateCommitment : Contract!Unused(k, u) /\ key' = [key EXCEPT ![u] = k]
    BY <1>2 DEF Contract!Rekey
  <2>2. key[u] # None BY <1>2 DEF Contract!Rekey
  <2>3. CASE key[u] = k BY <2>1, <2>3
  <2>4. CASE key[u] # k
    <3>1. \A v \in Nullifier : key[v] # k BY <2>1, <2>4 DEF Contract!Unused
    <3>2. Tree!Replace(u) BY <2>1, <2>2, <3>1 DEF Tree!Replace, Tree!Vacant, Tree!Holds
    <3>3. QED BY <3>2 DEF Tree!Next
  <2>5. QED BY <2>3, <2>4
<1>3. ASSUME NEW u \in Nullifier, Contract!Ban(u) PROVE Tree!Next \/ UNCHANGED key
  <2>1. key' = [key EXCEPT ![u] = None] BY <1>3 DEF Contract!Ban
  <2>2. CASE key[u] = None BY <2>1, <2>2
  <2>3. CASE key[u] # None BY <2>1, <2>3 DEF Tree!Leave, Tree!Next
  <2>4. QED BY <2>2, <2>3
<1>4. ASSUME NEW u \in Nullifier, Contract!Register(u) \/ Contract!Unban(u) PROVE UNCHANGED key
  BY <1>4 DEF Contract!Register, Contract!Unban
<1>5. ASSUME Contract!Overlap PROVE UNCHANGED key BY <1>5 DEF Contract!Overlap
<1>6. QED BY <1>1, <1>2, <1>3, <1>4, <1>5 DEF Contract!Next

\* Whatever joins, rotations, bans and unbans do to the leaves of a room, however their
\* statements interleave, is a tree and a change of the tree that MessagePipeline's sends
\* are checked under (its ChangeTree is any step of MembershipTree, at any time).
THEOREM TreeChangesCovered == Spec => Tree!Spec
<1>1. Contract!Init => Tree!Init
  <2>1. SUFFICES ASSUME Contract!Init PROVE Tree!Init OBVIOUS
  <2>2. [n \in Nullifier |-> KeyOf(n)] = [n \in Nullifier |-> None] BY <2>1 DEF Contract!Init
  <2>3. QED BY <2>2 DEF Tree!Init
<1>2. [Contract!Next]_Contract!room => [Tree!Next]_([n \in Nullifier |-> KeyOf(n)])
  <2>1. CASE Contract!Next BY <2>1, ContractChangesTree
  <2>2. CASE UNCHANGED Contract!room BY <2>2 DEF Contract!room
  <2>3. QED BY <2>1, <2>2
<1>3. QED BY <1>1, <1>2, Implementation, PTL DEF ImplementsContract, Contract!Spec, Tree!Spec

-----------------------------------------------------------------------------
(* No deadlock the database does not break.  A request that waits, waits     *)
(* for the holder of a row lock or for a rotation about to commit; a         *)
(* rotation waits for the holder of its own row, which can only be a ban     *)
(* that waits for that same rotation, or one that runs.                      *)

WaitingPC == {"joinCreate", "joinLock", "rotateLeaf", "banRow", "banUpsert", "unbanRow"}

LEMMA HolderIsRunning ==
  ASSUME CInv, NEW n \in Nullifier, rowLock[n] # None
  PROVE  \E h \in InFlight : rowLock[n] = h /\ pc[h] \in Holding /\ Nul(h) = n
<1>1. rowLock[n] \in Request
  BY DEF CInv, IInv, TypeInv, LocalOK
<1>2. HoldsLock(rowLock[n]) BY <1>1 DEF CInv, LInv
<1>3. QED BY <1>1, <1>2 DEF HoldsLock, Holding, InFlight

\* A rotation about to commit runs, or some request does.
LEMMA RotationRuns ==
  ASSUME CInv, NEW q \in Request, pc[q] = "rotateRow"
  PROVE  \E r \in InFlight : CanRun(r)
<1>1. Nul(q) \in Nullifier /\ q \in InFlight
  BY DEF CInv, IInv, TypeInv, LocalOK, InputOK, Nul, NulPC, RotatingPC, InFlight
<1>2. PICK l \in leaf : l.id = seenLeaf[q] /\ l.owner = Nul(q)
  BY DEF CInv, IInv, Rotating
<1>3. CASE rowLock[Nul(q)] = None BY <1>1, <1>3 DEF CanRun, RowFree
<1>4. CASE rowLock[Nul(q)] # None
  <2>1. PICK h \in InFlight : rowLock[Nul(q)] = h /\ pc[h] \in Holding /\ Nul(h) = Nul(q)
    BY <1>1, <1>4, HolderIsRunning
  <2>2. h \in Request /\ h # q BY <2>1 DEF InFlight, Holding
  <2>3. CASE pc[h] \in {"joinCheck", "unbanClear"} BY <2>3 DEF CanRun
  <2>4. CASE pc[h] = "joinInsert"
    BY <1>2, <2>1, <2>2, <2>4 DEF CInv, IInv, NoLeafYet
  <2>5. CASE pc[h] = "prune"
    <3>1. WaitsFor(h, q) BY <1>2, <2>1, <2>5 DEF WaitsFor, LeavesOf, HoldsLeaf
    <3>2. WaitsFor(q, h) BY <2>1 DEF WaitsFor
    <3>3. QED BY <2>2, <3>1, <3>2 DEF CanRun, Deadlocked
  <2>6. QED BY <2>1, <2>3, <2>4, <2>5 DEF Holding
<1>5. QED BY <1>3, <1>4

\* Neither do the holders of row locks wait for each other.
LEMMA HolderRuns ==
  ASSUME CInv, NEW h \in InFlight, pc[h] \in Holding
  PROVE  \E r \in InFlight : CanRun(r)
<1>1. CASE pc[h] \in {"joinCheck", "unbanClear"} BY <1>1 DEF CanRun
<1>2. CASE pc[h] = "joinInsert" /\ ~RcSettled(Rc(h), h)
  <2>1. \E q \in Request : pc[q] = "rotateRow" BY <1>2 DEF RcSettled
  <2>2. QED BY <2>1, RotationRuns
<1>3. CASE pc[h] = "prune" /\ ~(\A l \in LeavesOf(Nul(h)) : LeafFree(h, l.id))
  <2>1. \E q \in Request : pc[q] = "rotateRow" BY <1>3 DEF LeafFree, HoldsLeaf
  <2>2. QED BY <2>1, RotationRuns
<1>4. QED BY <1>1, <1>2, <1>3 DEF CanRun, Holding

\* Whatever joins, rotations, bans, unbans and limit changes are under way, and however
\* their row locks, leaf rows and unique keys are held, one of the requests can run its
\* statement or is the victim PostgreSQL picks: no cycle of waits is longer than the one
\* of a rotation and a ban (rotateDevice, banMembershipByLeaf).
THEOREM NeverAllWait == Spec => []SomeRequestRuns
<1>1. CInv => SomeRequestRuns
  <2> SUFFICES ASSUME CInv, NEW r \in InFlight PROVE \E q \in InFlight : CanRun(q)
    BY DEF SomeRequestRuns
  <2>2. pc[r] \in PC \ {"idle", "done"} /\ r \in Request
    BY DEF CInv, IInv, TypeInv, LocalOK, InFlight
  <2>3. CASE pc[r] \in Holding BY <2>3, HolderRuns
  <2>4. CASE pc[r] = "rotateRow" BY <2>2, <2>4, RotationRuns
  <2>5. CASE pc[r] \in WaitingPC \ {"rotateLeaf"}
    <3>1. Nul(r) \in Nullifier
      BY <2>2, <2>5 DEF CInv, IInv, TypeInv, LocalOK, InputOK, Nul, NulPC, Joining, WaitingPC
    <3>2. CASE rowLock[Nul(r)] = None
      BY <2>5, <3>2 DEF CanRun, RowFree, WaitingPC
    <3>3. CASE rowLock[Nul(r)] # None BY <3>1, <3>3, HolderIsRunning, HolderRuns
    <3>4. QED BY <3>2, <3>3
  <2>6. CASE pc[r] = "rotateLeaf"
    <3>1. CASE RcSettled(Rc(r), r) /\ LeafFree(r, seenLeaf[r]) BY <2>6, <3>1 DEF CanRun
    <3>2. CASE \E q \in Request : pc[q] = "rotateRow" BY <3>2, RotationRuns
    <3>3. QED BY <3>1, <3>2 DEF RcSettled, LeafFree, HoldsLeaf
  <2>7. CASE pc[r] \in {"joinFind", "rotateRead", "rotateFind", "banFind", "limitCheck",
                        "limitWrite"}
    BY <2>7 DEF CanRun
  <2>8. QED BY <2>2, <2>3, <2>4, <2>5, <2>6, <2>7 DEF PC, Holding, WaitingPC
<1>2. QED BY <1>1, ContractInvariance, PTL

\* The steps a request may still take.
StepsLeft(label) ==
    CASE label = "idle" -> 5
      [] label \in {"joinFind", "rotateRead"} -> 4
      [] label \in {"joinCreate", "joinLock", "rotateFind", "banFind"} -> 3
      [] label \in {"joinCheck", "rotateLeaf", "banRow", "banUpsert", "unbanRow",
                    "limitCheck"} -> 2
      [] label \in {"joinInsert", "rotateRow", "prune", "unbanClear", "limitWrite"} -> 1
      [] OTHER -> 0

\* One request is nearer to its answer, the others are where they were.
OneComesNearer ==
    \E r \in Request : /\ StepsLeft(pc'[r]) < StepsLeft(pc[r])
                       /\ \A q \in Request \ {r} : pc'[q] = pc[q]

\* Every step brings the request that takes it nearer to its answer and no other one
\* further from its own: nothing is retried or undone.  As some request can always run
\* (NeverAllWait), requests run out of statements, and not of turns to execute them.
THEOREM StepsRunOut == Spec => [][OneComesNearer]_vars
<1>1. ASSUME IInv, NEW r \in Request, Arrive(r) \/ Statement(r) \/ Abort(r) PROVE OneComesNearer
  <2>a. pc \in [Request -> PC] BY <1>1 DEF IInv, TypeInv, LocalOK
  <2>b. ASSUME NEW label, Goto(r, label) PROVE pc'[r] = label BY <2>a, <2>b DEF Goto
  <2>c. ASSUME Release(r) PROVE pc'[r] = "done" BY <2>a, <2>c DEF Release
  <2>d. ASSUME NEW call, NEW label, Begin(r, call, label) PROVE pc'[r] = label /\ pc[r] = "idle"
    BY <2>a, <2>d DEF Begin
  <2>1. \A q \in Request \ {r} : pc'[q] = pc[q] BY <1>1, OthersKept
  <2>2. CASE Arrive(r)
    <3>1. pc[r] = "idle" /\ pc'[r] \in {"joinFind", "rotateRead", "banFind", "banUpsert",
                                        "unbanRow", "limitCheck"}
      BY <2>2, <2>d DEF Arrive, Join, Rotate, BanLeaf, BanNullifier, Unban, SetLimit
    <3>2. QED BY <2>1, <3>1 DEF StepsLeft, OneComesNearer
  <2>3. CASE r \in InFlight /\ Release(r)
    <3>1. pc'[r] = "done" /\ pc[r] \in PC \ {"idle", "done"} BY <2>3, <2>a, <2>c DEF InFlight
    <3>2. StepsLeft("done") = 0 BY DEF StepsLeft
    <3>3. StepsLeft(pc[r]) \in {1, 2, 3, 4} BY <3>1 DEF StepsLeft, PC
    <3>4. QED BY <2>1, <3>1, <3>2, <3>3 DEF OneComesNearer
  <2>4. CASE \/ pc[r] = "joinFind" /\ pc'[r] \in {"joinCreate", "joinLock"}
             \/ pc[r] \in {"joinCreate", "joinLock"} /\ pc'[r] = "joinCheck"
             \/ pc[r] = "joinCheck" /\ pc'[r] = "joinInsert"
    BY <2>1, <2>4 DEF StepsLeft, OneComesNearer
  <2>5. CASE \/ pc[r] = "rotateRead" /\ pc'[r] = "rotateFind"
             \/ pc[r] = "rotateFind" /\ pc'[r] = "rotateLeaf"
             \/ pc[r] = "rotateLeaf" /\ pc'[r] = "rotateRow"
    BY <2>1, <2>5 DEF StepsLeft, OneComesNearer
  <2>6. CASE \/ pc[r] = "banFind" /\ pc'[r] = "banRow"
             \/ pc[r] \in {"banRow", "banUpsert"} /\ pc'[r] = "prune"
             \/ pc[r] = "unbanRow" /\ pc'[r] = "unbanClear"
             \/ pc[r] = "limitCheck" /\ pc'[r] = "limitWrite"
    BY <2>1, <2>6 DEF StepsLeft, OneComesNearer
  <2>7. CASE Abort(r) BY <2>3, <2>7 DEF Abort, Fail, Finish
  <2>8. CASE DeadlockVictim(r)
    BY <2>3, <2>8 DEF DeadlockVictim, Deadlocked, WaitsFor, InFlight, Fail, Finish
  <2>9. CASE JoinFind(r) \/ JoinCreate(r) \/ JoinLock(r) \/ JoinCheck(r) \/ JoinInsert(r)
    BY <2>3, <2>4, <2>9, <2>b DEF JoinFind, JoinCreate, JoinLock, JoinCheck, JoinInsert, InFlight,
       Fail, Finish
  <2>10. CASE RotateRead(r) \/ RotateFind(r) \/ RotateLeaf(r) \/ RotateRow(r)
    BY <2>3, <2>5, <2>10, <2>b DEF RotateRead, RotateFind, RotateLeaf, RotateRow, InFlight,
       Fail, Finish
  <2>11. CASE BanFind(r) \/ BanRowLock(r) \/ Prune(r) \/ UnbanRow(r) \/ UnbanClear(r)
              \/ LimitCheck(r) \/ LimitWrite(r)
    BY <2>3, <2>6, <2>11, <2>b DEF BanFind, BanRowLock, Prune, UnbanRow, UnbanClear, LimitCheck,
       LimitWrite, InFlight, Fail, Finish
  <2>12. QED BY <1>1, <2>2, <2>7, <2>8, <2>9, <2>10, <2>11 DEF Statement
<1>2. IInv /\ [Next]_vars => [OneComesNearer]_vars BY <1>1 DEF Next, AllDone
<1>3. QED BY <1>2, Invariance, PTL DEF Spec

-----------------------------------------------------------------------------
(* What is left of "a banned user has no leaf" when requests do overlap.     *)

\* A leaf of a banned user is that user's from before the step, or is being inserted.
BanOutlivedOnlyByInsert ==
    \A l \in leaf' : member'[l.owner].status = "BANNED" =>
        \/ pc[l.id] = "joinInsert"
        \/ \E k \in leaf : /\ k.id = l.id /\ k.owner = l.owner
                           /\ member[k.owner].status = "BANNED"

\* A banned user gets into the tree in one way only: a join that read the status before
\* the ban committed inserts its leaf after it (joinRoom).  No ban leaves a leaf behind, and
\* no rotation, unban or refused join gives a banned user one.
THEOREM OnlyJoinsOutliveBans == Spec => [][BanOutlivedOnlyByInsert]_vars
<1>1. ASSUME IInv, NEW r \in Request, Arrive(r) \/ Statement(r) \/ Abort(r)
      PROVE  BanOutlivedOnlyByInsert
  <2>a. member \in [Nullifier -> MemberRow] /\ leaf \in SUBSET LeafRow
    BY <1>1 DEF IInv, TypeInv, TablesOK
  <2>b. ASSUME leaf' \subseteq leaf,
               \A n \in Nullifier : (\E l \in leaf' : l.owner = n) /\ member'[n].status = "BANNED"
                                        => member[n].status = "BANNED"
        PROVE  BanOutlivedOnlyByInsert
    BY <2>a, <2>b DEF BanOutlivedOnlyByInsert
  <2>c. ASSUME Nul(r) \in Nullifier, member' = [member EXCEPT ![Nul(r)] = JoinedRow(r)]
        PROVE  \A n \in Nullifier : member'[n].status = "BANNED" => member[n].status = "BANNED"
    BY <2>a, <2>c DEF JoinedRow
  <2>1. CASE ~Writes(r) BY <1>1, <2>1, <2>b, OnlyWrites DEF tables
  <2>2. CASE JoinCheck(r)
    <3>1. Nul(r) \in Nullifier
      BY <1>1, <2>2 DEF IInv, TypeInv, LocalOK, InputOK, Nul, NulPC, Joining, JoinCheck
    <3>2. QED BY <2>2, <2>b, <2>c, <3>1 DEF JoinCheck, tables
  <2>3. CASE JoinInsert(r)
    <3>1. Nul(r) \in Nullifier /\ pc[r] = "joinInsert"
      BY <1>1, <2>3 DEF IInv, TypeInv, LocalOK, InputOK, Nul, NulPC, Joining, JoinInsert
    <3>2. CASE Fail(r) BY <2>b, <3>2 DEF Fail, tables
    <3>3. CASE /\ leaf' = leaf \union {[id |-> r, owner |-> Nul(r), rc |-> Rc(r)]}
               /\ member' = [member EXCEPT ![Nul(r)] = JoinedRow(r)]
      BY <2>a, <2>c, <3>1, <3>3 DEF BanOutlivedOnlyByInsert
    <3>4. QED BY <2>3, <3>2, <3>3 DEF JoinInsert
  <2>4. CASE RotateRow(r)
    <3>1. Nul(r) \in Nullifier
      BY <1>1, <2>4 DEF IInv, TypeInv, LocalOK, InputOK, Nul, NulPC, RotatingPC, RotateRow
    <3>2. \E k \in leaf : k.id = seenLeaf[r] /\ k.owner = Nul(r)
      BY <1>1, <2>4 DEF IInv, Rotating, RotateRow
    <3>3. \A n \in Nullifier : member'[n].status = member[n].status
      BY <2>a, <2>4, <3>1 DEF RotateRow
    <3>4. \A l \in leaf' : \E k \in leaf : k.id = l.id /\ k.owner = l.owner
      BY <2>4, <3>2 DEF RotateRow
    <3>5. QED BY <2>a, <3>3, <3>4 DEF BanOutlivedOnlyByInsert
  <2>5. CASE Prune(r)
    <3>1. Nul(r) \in Nullifier
      BY <1>1, <2>5 DEF IInv, TypeInv, LocalOK, InputOK, Nul, NulPC, Prune
    <3>2. leaf' = leaf \ LeavesOf(Nul(r))
          /\ \A n \in Nullifier \ {Nul(r)} : member'[n].status = member[n].status
      BY <2>a, <2>5 DEF Prune
    <3>3. QED BY <2>b, <3>1, <3>2 DEF LeavesOf
  <2>6. CASE UnbanClear(r)
    <3>1. leaf' = leaf /\ \A n \in Nullifier : member'[n].status \in {member[n].status, "ACTIVE"}
      BY <2>a, <2>6 DEF UnbanClear
    <3>2. QED BY <2>b, <3>1
  <2>7. CASE LimitWrite(r) BY <2>7, <2>b DEF LimitWrite
  <2>8. QED BY <2>1, <2>2, <2>3, <2>4, <2>5, <2>6, <2>7 DEF Writes
<1>2. IInv /\ [Next]_vars => [BanOutlivedOnlyByInsert]_vars BY <1>1 DEF Next, AllDone
<1>3. QED BY <1>2, Invariance, PTL DEF Spec

=============================================================================
