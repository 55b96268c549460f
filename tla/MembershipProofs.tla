--------------------------- MODULE MembershipProofs ---------------------------
(***************************************************************************)
(* Proofs about Membership for any sets of requests, users and commitments. *)
(*                                                                          *)
(* The argument: a join sits between its lock and its commit with the row    *)
(* lock of its membership in hand (Locked), so no other join of that user    *)
(* can add a leaf and the "no leaf yet" it read is still true when it        *)
(* inserts (NoLeafYet).  A rotation holds its leaf row instead (Rotating),   *)
(* which a ban has to wait for, so it replaces a leaf that is still there.   *)
(***************************************************************************)
EXTENDS Membership, TLAPS

Joining == {"joinFind", "joinCreate", "joinLock", "joinCheck", "joinInsert"}
RotatingPC == {"rotateRead", "rotateFind", "rotateLeaf", "rotateRow"}
NulPC == Joining \union RotatingPC \union
            {"banRow", "banUpsert", "prune", "unbanRow", "unbanClear"}

\* A running request has its input, and the nullifier once it is known.
InputOK(r) ==
    /\ pc[r] \notin {"idle", "done"} => arg[r] \in Call
    /\ pc[r] \in NulPC => arg[r].nul \in Nullifier
    /\ pc[r] \in Joining \union RotatingPC => arg[r].ic \in Commitment
    /\ pc[r] = "prune" /\ arg[r].op = "banLeaf" => arg[r].ic \in Commitment
    /\ pc[r] = "banUpsert" => arg[r].op = "banNullifier"
    /\ pc[r] \in {"banFind", "banRow"} => arg[r].ic \in Commitment
    /\ pc[r] \in {"rotateLeaf", "rotateRow"} => seenLeaf[r] \in Request

Locked(r) == pc[r] \in {"joinCheck", "joinInsert", "prune"} => rowLock[Nul(r)] = r

NoLeafYet(r) == pc[r] = "joinInsert" => \A l \in leaf : l.owner # Nul(r)

\* The leaf a rotation resolved belongs to its membership, and stays until it is
\* written.
Rotating(r) ==
    /\ pc[r] \in {"rotateLeaf", "rotateRow"} =>
          /\ pc[seenLeaf[r]] = "done"
          /\ \A l \in leaf : l.id = seenLeaf[r] => l.owner = Nul(r)
    /\ pc[r] = "rotateRow" => \E l \in leaf : l.id = seenLeaf[r]

\* Leaf ids are unique, and belong to joins that have ended.
LeafMade ==
    /\ \A l \in leaf : pc[l.id] = "done"
    /\ \A l1, l2 \in leaf : l1.id = l2.id => l1 = l2

USE DEF MemberRow, LeafRow, BanRow, Call, Epoch, RateCommitment

(* Types, with the part of a request's input each statement needs.  The     *)
(* tables and the requests' local state are handled apart.                  *)

TablesOK ==
    /\ limit \in Limit
    /\ member \in [Nullifier -> MemberRow]
    /\ leaf \in SUBSET LeafRow
    /\ ban \in SUBSET BanRow
    /\ issued \in SUBSET (Nullifier \X Request)

LocalOK ==
    /\ rowLock \in [Nullifier -> Request \union {None}]
    /\ pc \in [Request -> PC]
    /\ arg \in [Request -> Call \union {None}]
    /\ authorToken \in [Request -> Request \union {None}]
    /\ seenLeaf \in [Request -> Request \union {None}]
    /\ overlap \in BOOLEAN
    /\ \A r \in Request : InputOK(r)

TypeInv == TablesOK /\ LocalOK

\* The inductive invariant.
IInv ==
    /\ TypeInv
    /\ \A r \in Request : Locked(r) /\ NoLeafYet(r) /\ Rotating(r)
    /\ LeafMade
    /\ OneLeaf

LEMMA InitHolds == Init => IInv
<1>1. SUFFICES ASSUME Init PROVE IInv OBVIOUS
<1>2. TablesOK BY <1>1, OpsAssumption, BoundsAssumption DEF Init, TablesOK, NoMember
<1>3. overlap \in BOOLEAN BY <1>1 DEF Init
<1>4. LocalOK
  BY <1>1, <1>3 DEF Init, LocalOK, InputOK, PC, NulPC, Joining, RotatingPC
<1>5. QED
  BY <1>1, <1>2, <1>4 DEF Init, IInv, TypeInv, Locked, NoLeafYet, Rotating, LeafMade, OneLeaf

\* A request that ends keeps the local state well typed.
LEMMA ReleaseLocal ==
  ASSUME LocalOK, NEW r \in Request, Release(r)
  PROVE  LocalOK'
<1> USE DEF Release
<1>1. (rowLock \in [Nullifier -> Request \union {None}])' BY DEF LocalOK
<1>2. (pc \in [Request -> PC])' BY DEF LocalOK, PC
<1>3. (arg \in [Request -> Call \union {None}])' BY DEF LocalOK
<1>4. (authorToken \in [Request -> Request \union {None}])' BY DEF LocalOK
<1>5. (seenLeaf \in [Request -> Request \union {None}])' BY DEF LocalOK
<1>6. ASSUME NEW q \in Request PROVE InputOK(q)'
  <2>1. CASE q = r
    <3>1. pc'[q] = "done" BY <2>1 DEF LocalOK
    <3>2. QED BY <3>1 DEF InputOK, NulPC, Joining, RotatingPC
  <2>2. CASE q # r
    <3>1. pc'[q] = pc[q] /\ arg'[q] = arg[q] /\ seenLeaf'[q] = seenLeaf[q]
      BY <2>2 DEF LocalOK
    <3>2. QED BY <3>1 DEF LocalOK, InputOK, NulPC, Joining, RotatingPC
  <2>3. QED BY <2>1, <2>2
<1>7. (overlap \in BOOLEAN)' BY DEF LocalOK
<1>8. QED BY <1>1, <1>2, <1>3, <1>4, <1>5, <1>6, <1>7 DEF LocalOK

\* A request that goes on to a statement whose input it has keeps it well typed.
LEMMA GotoLocal ==
  ASSUME LocalOK, NEW r \in Request, NEW label \in PC, Goto(r, label),
         (rowLock \in [Nullifier -> Request \union {None}])',
         (authorToken \in [Request -> Request \union {None}])',
         (seenLeaf \in [Request -> Request \union {None}])',
         (arg \in [Request -> Call \union {None}])',
         \A q \in Request \ {r} : arg'[q] = arg[q] /\ seenLeaf'[q] = seenLeaf[q],
         InputOK(r)'
  PROVE  LocalOK'
<1>1. (pc \in [Request -> PC])' BY DEF LocalOK, Goto
<1>2. ASSUME NEW q \in Request \ {r} PROVE InputOK(q)'
  <2>1. pc'[q] = pc[q] /\ arg'[q] = arg[q] /\ seenLeaf'[q] = seenLeaf[q]
    BY DEF LocalOK, Goto
  <2>2. QED BY <2>1 DEF LocalOK, InputOK, NulPC, Joining, RotatingPC
<1>3. (overlap \in BOOLEAN)' BY DEF LocalOK, Goto
<1>4. QED BY <1>1, <1>2, <1>3 DEF LocalOK

LEMMA BeginType ==
  ASSUME TypeInv, NEW r \in Request, NEW call \in Call, NEW label \in PC,
         Begin(r, call, label),
         InputOK(r)'
  PROVE  TypeInv'
<1>1. TablesOK' BY DEF TypeInv, TablesOK, Begin, tables
<1>2. (pc \in [Request -> PC])' /\ (arg \in [Request -> Call \union {None}])'
  BY DEF TypeInv, LocalOK, Begin
<1>3. (rowLock \in [Nullifier -> Request \union {None}])'
      /\ (authorToken \in [Request -> Request \union {None}])'
      /\ (seenLeaf \in [Request -> Request \union {None}])' /\ (overlap \in BOOLEAN)'
  BY DEF TypeInv, LocalOK, Begin
<1>4. ASSUME NEW q \in Request \ {r} PROVE InputOK(q)'
  <2>1. pc'[q] = pc[q] /\ arg'[q] = arg[q] /\ seenLeaf'[q] = seenLeaf[q]
    BY DEF TypeInv, LocalOK, Begin
  <2>2. QED BY <2>1 DEF TypeInv, LocalOK, InputOK, NulPC, Joining, RotatingPC
<1>5. QED BY <1>1, <1>2, <1>3, <1>4 DEF TypeInv, LocalOK

LEMMA ArriveType ==
  ASSUME TypeInv, NEW r \in Request, Arrive(r)
  PROVE  TypeInv'
<1>0. Op \subseteq Ops /\ 0 \in Epoch /\ limit \in Limit
  BY OpsAssumption, BoundsAssumption DEF TypeInv, TablesOK
<1> USE DEF PC, NulPC, Joining, RotatingPC, Ops
<1>a. ASSUME NEW call \in Call, NEW label \in PC, Begin(r, call, label)
      PROVE  pc'[r] = label /\ arg'[r] = call
  BY <1>a DEF Begin, TypeInv, LocalOK
<1>1. CASE Join(r)
  <2>1. PICK n \in Nullifier, c \in Commitment, e \in Epoch :
          Begin(r, [op |-> "join", nul |-> n, ic |-> c, epoch |-> e, lim |-> limit], "joinFind")
    BY <1>1 DEF Join
  <2>2. QED BY <1>0, <1>a, <2>1, BeginType DEF InputOK
<1>2. CASE Rotate(r)
  <2>1. PICK n \in Nullifier, c \in Commitment, e \in Epoch :
          Begin(r, [op |-> "rotate", nul |-> n, ic |-> c, epoch |-> e, lim |-> limit], "rotateRead")
    BY <1>2 DEF Rotate
  <2>2. QED BY <1>0, <1>a, <2>1, BeginType DEF InputOK
<1>3. CASE BanLeaf(r)
  <2>1. PICK c \in Commitment :
          Begin(r, [op |-> "banLeaf", nul |-> None, ic |-> c, epoch |-> 0, lim |-> limit],
                "banFind")
    BY <1>3 DEF BanLeaf
  <2>2. QED BY <1>0, <1>a, <2>1, BeginType DEF InputOK
<1>4. CASE BanNullifier(r)
  <2>1. PICK n \in Nullifier :
          Begin(r, [op |-> "banNullifier", nul |-> n, ic |-> None, epoch |-> 0, lim |-> limit],
                "banUpsert")
    BY <1>4 DEF BanNullifier
  <2>2. QED BY <1>0, <1>a, <2>1, BeginType DEF InputOK
<1>5. CASE Unban(r)
  <2>1. PICK n \in Nullifier :
          Begin(r, [op |-> "unban", nul |-> n, ic |-> None, epoch |-> 0, lim |-> limit], "unbanRow")
    BY <1>5 DEF Unban
  <2>2. QED BY <1>0, <1>a, <2>1, BeginType DEF InputOK
<1>6. CASE SetLimit(r)
  <2>1. PICK l \in Limit \ {limit} :
          Begin(r, [op |-> "setLimit", nul |-> None, ic |-> None, epoch |-> 0, lim |-> l],
                "limitCheck")
    BY <1>6 DEF SetLimit
  <2>2. QED BY <1>0, <1>a, <2>1, BeginType DEF InputOK
<1>7. QED BY <1>1, <1>2, <1>3, <1>4, <1>5, <1>6 DEF Arrive

LEMMA TokenType ==
  ASSUME TypeInv, NEW r \in Request, arg[r] \in Call, Nul(r) \in Nullifier
  PROVE  JoinToken(r) \in Request /\ JoinedRow(r) \in MemberRow
<1>1. member[Nul(r)] \in MemberRow /\ authorToken[r] \in Request \union {None}
  BY DEF TypeInv, TablesOK, LocalOK
<1>2. JoinToken(r) \in Request BY <1>1 DEF JoinToken
<1>3. JoinedRow(r) \in MemberRow BY <1>1, <1>2 DEF JoinedRow
<1>4. QED BY <1>2, <1>3

LEMMA StatementType ==
  ASSUME TypeInv, NEW r \in Request, Statement(r)
  PROVE  TypeInv'
<1> USE DEF PC, NulPC, Joining, RotatingPC
<1>a. /\ TablesOK /\ LocalOK /\ InputOK(r)
      /\ rowLock \in [Nullifier -> Request \union {None}]
      /\ pc \in [Request -> PC]
      /\ arg \in [Request -> Call \union {None}]
      /\ authorToken \in [Request -> Request \union {None}]
      /\ seenLeaf \in [Request -> Request \union {None}]
  BY DEF TypeInv, LocalOK
<1>b. ASSUME UNCHANGED <<tables, issued>> PROVE TablesOK'
  BY <1>a, <1>b DEF TablesOK, tables
<1>c. ASSUME Finish(r), UNCHANGED tables PROVE TypeInv'
  BY <1>a, <1>b, <1>c, ReleaseLocal DEF Finish, TypeInv
<1>d. ASSUME NEW label \in PC, Goto(r, label), UNCHANGED <<tables, arg>>,
             (rowLock \in [Nullifier -> Request \union {None}])',
             (authorToken \in [Request -> Request \union {None}])',
             (seenLeaf \in [Request -> Request \union {None}])',
             \A q \in Request \ {r} : seenLeaf'[q] = seenLeaf[q],
             InputOK(r)'
      PROVE  TypeInv'
  <2>1. LocalOK' BY <1>a, <1>d, GotoLocal
  <2>2. TablesOK' BY <1>b, <1>d DEF Goto
  <2>3. QED BY <2>1, <2>2 DEF TypeInv
<1>e. ASSUME NEW label \in PC, Goto(r, label) PROVE pc'[r] = label
  BY <1>a, <1>e DEF Goto
<1>f. ASSUME NEW n \in Nullifier, LockRow(r, n)
      PROVE  (rowLock \in [Nullifier -> Request \union {None}])'
  BY <1>a, <1>f DEF LockRow
<1>1. CASE JoinFind(r)
  <2>1. arg[r] \in Call /\ Nul(r) \in Nullifier /\ member[Nul(r)] \in MemberRow
    BY <1>a, <1>1 DEF JoinFind, InputOK, Nul, TablesOK
  <2>2. CASE Goto(r, "joinCreate") /\ UNCHANGED <<rowLock, arg, authorToken, seenLeaf>>
    BY <1>a, <1>d, <1>e, <1>1, <2>1, <2>2 DEF JoinFind, InputOK
  <2>3. CASE Goto(r, "joinLock") /\ UNCHANGED <<rowLock, arg, seenLeaf>>
             /\ authorToken' = [authorToken EXCEPT ![r] = member[Nul(r)].token]
    BY <1>a, <1>d, <1>e, <1>1, <2>1, <2>3 DEF JoinFind, InputOK
  <2>4. QED BY <1>1, <1>c, <2>2, <2>3 DEF JoinFind
<1>2. CASE JoinCreate(r)
  <2>1. CASE LockRow(r, Nul(r)) /\ Goto(r, "joinCheck") /\ UNCHANGED <<arg, authorToken, seenLeaf>>
    BY <1>a, <1>d, <1>e, <1>f, <1>2, <2>1 DEF JoinCreate, InputOK, Nul
  <2>2. QED BY <1>2, <1>c, <2>1 DEF JoinCreate
<1>3. CASE JoinLock(r)
  BY <1>a, <1>d, <1>e, <1>f, <1>3 DEF JoinLock, InputOK, Nul
<1>4. CASE JoinCheck(r)
  <2>1. arg[r] \in Call /\ Nul(r) \in Nullifier
    BY <1>a, <1>4 DEF JoinCheck, InputOK, Nul
  <2>2. JoinToken(r) \in Request /\ JoinedRow(r) \in MemberRow BY <2>1, TokenType
  <2>3. CASE Goto(r, "joinInsert")
    BY <1>a, <1>d, <1>e, <1>4, <2>2, <2>3 DEF JoinCheck, InputOK, Goto, Finish, Release, tables
  <2>4. CASE Finish(r) /\ member' = [member EXCEPT ![Nul(r)] = JoinedRow(r)]
             /\ UNCHANGED <<limit, leaf, ban>>
    <3>1. TablesOK' BY <1>a, <2>1, <2>2, <2>4 DEF TablesOK, Finish
    <3>2. LocalOK' BY <1>a, <2>4, ReleaseLocal DEF Finish
    <3>3. QED BY <3>1, <3>2 DEF TypeInv
  <2>5. QED BY <1>4, <2>3, <2>4 DEF JoinCheck
<1>5. CASE JoinInsert(r)
  <2>1. arg[r] \in Call /\ Nul(r) \in Nullifier /\ Rc(r) \in RateCommitment
    BY <1>a, <1>5 DEF JoinInsert, InputOK, Nul, Rc
  <2>2. JoinToken(r) \in Request /\ JoinedRow(r) \in MemberRow BY <2>1, TokenType
  <2>3. CASE Release(r) /\ member' = [member EXCEPT ![Nul(r)] = JoinedRow(r)]
             /\ leaf' = leaf \union {[id |-> r, owner |-> Nul(r), rc |-> Rc(r)]}
             /\ issued' = issued \union {<<Nul(r), JoinToken(r)>>}
             /\ UNCHANGED <<limit, ban>>
    <3>1. TablesOK' BY <1>a, <2>1, <2>2, <2>3 DEF TablesOK
    <3>2. LocalOK' BY <1>a, <2>3, ReleaseLocal
    <3>3. QED BY <3>1, <3>2 DEF TypeInv
  <2>4. QED BY <1>5, <1>c, <2>3 DEF JoinInsert, Fail
<1>6. CASE RotateRead(r)
  <2>1. CASE Goto(r, "rotateFind") /\ UNCHANGED <<rowLock, arg, authorToken, seenLeaf>>
    BY <1>a, <1>d, <1>e, <1>6, <2>1 DEF RotateRead, InputOK
  <2>2. QED BY <1>6, <1>c, <2>1 DEF RotateRead
<1>7. CASE RotateFind(r)
  <2>1. ASSUME NEW old \in LeavesOf(Nul(r)), Goto(r, "rotateLeaf"),
               seenLeaf' = [seenLeaf EXCEPT ![r] = old.id],
               UNCHANGED <<rowLock, arg, authorToken>>
        PROVE  TypeInv'
    <3>1. old.id \in Request BY <1>a DEF LeavesOf, TablesOK
    <3>2. QED BY <1>a, <1>d, <1>e, <1>7, <2>1, <3>1 DEF RotateFind, InputOK
  <2>2. QED BY <1>7, <1>c, <2>1 DEF RotateFind
<1>8. CASE RotateLeaf(r)
  <2>1. CASE Goto(r, "rotateRow") /\ UNCHANGED <<rowLock, arg, authorToken, seenLeaf>>
    BY <1>a, <1>d, <1>e, <1>8, <2>1 DEF RotateLeaf, InputOK
  <2>2. QED BY <1>8, <1>c, <2>1 DEF RotateLeaf
<1>9. CASE RotateRow(r)
  <2>1. arg[r] \in Call /\ Nul(r) \in Nullifier /\ Rc(r) \in RateCommitment
    BY <1>a, <1>9 DEF RotateRow, InputOK, Nul, Rc
  <2>2. seenLeaf[r] \in Request BY <1>a, <1>9 DEF RotateRow, InputOK
  <2>a. [id |-> seenLeaf[r], owner |-> Nul(r), rc |-> Rc(r)] \in LeafRow
    BY <2>1, <2>2 DEF LeafRow
  <2>b. leaf' \in SUBSET LeafRow BY <1>a, <1>9, <2>a DEF TablesOK, RotateRow
  <2>c. arg[r].epoch \in Epoch BY <2>1 DEF Call
  <2>d. member' \in [Nullifier -> MemberRow]
    BY <1>a, <1>9, <2>1, <2>c DEF TablesOK, RotateRow, MemberRow
  <2>3. TablesOK' BY <1>a, <1>9, <2>b, <2>d DEF TablesOK, RotateRow, Finish
  <2>4. LocalOK' BY <1>a, <1>9, ReleaseLocal DEF RotateRow, Finish
  <2>5. QED BY <2>3, <2>4 DEF TypeInv
<1>10. CASE BanFind(r)
  <2>1. ASSUME NEW l \in leaf, arg' = [arg EXCEPT ![r].nul = l.owner], Goto(r, "banRow"),
               UNCHANGED <<rowLock, authorToken, seenLeaf>>
        PROVE  TypeInv'
    <3>1. l.owner \in Nullifier /\ arg[r] \in Call /\ arg[r].ic \in Commitment
      BY <1>a, <1>10 DEF TablesOK, BanFind, InputOK
    <3>2. arg'[r] \in Call /\ arg'[r].nul = l.owner /\ arg'[r].ic = arg[r].ic
      BY <1>a, <2>1, <3>1
    <3>3. \A q \in Request \ {r} : arg'[q] = arg[q] /\ seenLeaf'[q] = seenLeaf[q]
      BY <1>a, <2>1
    <3>4. (arg \in [Request -> Call \union {None}])' BY <1>a, <2>1, <3>2, <3>3
    <3>5. InputOK(r)' BY <1>e, <2>1, <3>1, <3>2 DEF InputOK
    <3>6. LocalOK' BY <1>a, <2>1, <3>3, <3>4, <3>5, GotoLocal
    <3>7. TablesOK' BY <1>b, <1>10, <2>1 DEF BanFind, Goto
    <3>8. QED BY <3>6, <3>7 DEF TypeInv
  <2>2. QED BY <1>10, <1>c, <2>1 DEF BanFind
<1>11. CASE BanRowLock(r)
  <2>1. Nul(r) \in Nullifier /\ arg[r] \in Call
    BY <1>a, <1>11 DEF BanRowLock, InputOK, Nul
  <2>2. arg[r].op = "banLeaf" => arg[r].ic \in Commitment
    BY <1>a, <1>11 DEF BanRowLock, InputOK
  <2>3. Goto(r, "prune") /\ LockRow(r, Nul(r)) /\ UNCHANGED <<tables, arg, authorToken, seenLeaf>>
    BY <1>11 DEF BanRowLock
  <2>4. pc'[r] = "prune" BY <1>e, <2>3
  <2>5. InputOK(r)' BY <2>1, <2>2, <2>3, <2>4 DEF InputOK, Nul
  <2>6. QED BY <1>a, <1>d, <1>f, <2>1, <2>3, <2>5
<1>12. CASE Prune(r)
  <2>1. arg[r] \in Call /\ Nul(r) \in Nullifier
        /\ (arg[r].op = "banLeaf" => Rc(r) \in RateCommitment)
    BY <1>a, <1>12 DEF Prune, InputOK, Nul, Rc
  <2>2. TablesOK'
    <3>1. leaf' \in SUBSET LeafRow /\ limit' \in Limit /\ issued' \in SUBSET (Nullifier \X Request)
      BY <1>a, <1>12 DEF TablesOK, Prune, Finish
    <3>2. member' \in [Nullifier -> MemberRow] BY <1>a, <1>12, <2>1 DEF TablesOK, Prune
    <3>3. [id |-> r, nul |-> Nul(r),
           rc |-> IF arg[r].op = "banLeaf" THEN Rc(r) ELSE None] \in BanRow
      BY <2>1
    <3>4. ban' \in SUBSET BanRow
      <4> HIDE DEF BanRow
      <4> QED BY <1>a, <1>12, <3>3 DEF TablesOK, Prune
    <3>5. QED BY <3>1, <3>2, <3>4 DEF TablesOK
  <2>3. LocalOK' BY <1>a, <1>12, ReleaseLocal DEF Prune, Finish
  <2>4. QED BY <2>2, <2>3 DEF TypeInv
<1>13. CASE UnbanRow(r)
  BY <1>a, <1>d, <1>e, <1>f, <1>13 DEF UnbanRow, InputOK, Nul
<1>14. CASE UnbanClear(r)
  <2>1. TablesOK'
    <3>1. member' \in [Nullifier -> MemberRow]
      <4>0. Nul(r) \in Nullifier BY <1>a, <1>14 DEF UnbanClear, InputOK, Nul
      <4>1. CASE rowLock[Nul(r)] = r
        <5>1. member' = [member EXCEPT ![Nul(r)].status = "ACTIVE"]
          BY <1>14, <4>1 DEF UnbanClear
        <5>2. QED BY <1>a, <4>0, <5>1 DEF TablesOK
      <4>2. CASE rowLock[Nul(r)] # r BY <1>a, <1>14, <4>2 DEF TablesOK, UnbanClear
      <4>3. QED BY <4>1, <4>2
    <3>2. ban' \in SUBSET BanRow
      <4> HIDE DEF BanRow
      <4> QED BY <1>a, <1>14 DEF TablesOK, UnbanClear
    <3>3. QED BY <1>a, <1>14, <3>1, <3>2 DEF TablesOK, UnbanClear, Finish
  <2>2. LocalOK' BY <1>a, <1>14, ReleaseLocal DEF UnbanClear, Finish
  <2>3. QED BY <2>1, <2>2 DEF TypeInv
<1>15. CASE LimitCheck(r)
  <2>1. CASE Goto(r, "limitWrite") /\ UNCHANGED <<rowLock, arg, authorToken, seenLeaf>>
    BY <1>a, <1>d, <1>e, <1>15, <2>1 DEF LimitCheck, InputOK
  <2>2. QED BY <1>15, <1>c, <2>1 DEF LimitCheck
<1>16. CASE LimitWrite(r)
  <2>1. TablesOK' BY <1>a, <1>16 DEF TablesOK, LimitWrite, Finish, InputOK
  <2>2. LocalOK' BY <1>a, <1>16, ReleaseLocal DEF LimitWrite, Finish
  <2>3. QED BY <2>1, <2>2 DEF TypeInv
<1>17. CASE DeadlockVictim(r)
  BY <1>17, <1>c DEF DeadlockVictim, Fail
<1>99. QED
  BY <1>1, <1>2, <1>3, <1>4, <1>5, <1>6, <1>7, <1>8, <1>9, <1>10, <1>11, <1>12, <1>13,
     <1>14, <1>15, <1>16, <1>17 DEF Statement

LEMMA AbortType ==
  ASSUME TypeInv, NEW r \in Request, Abort(r)
  PROVE  TypeInv'
<1>1. LocalOK' BY ReleaseLocal DEF TypeInv, Abort, Fail, Finish
<1>2. TablesOK' BY DEF TypeInv, TablesOK, Abort, Fail, Finish, tables
<1>3. QED BY <1>1, <1>2 DEF TypeInv

-----------------------------------------------------------------------------
(* One leaf per membership.                                                 *)

\* A step of r that leaves the leaves alone disturbs no other request: only r's
\* own part of the invariant has to be shown.
LEMMA Frame ==
  ASSUME IInv, NEW r \in Request, TypeInv',
         UNCHANGED leaf, pc[r] # "done",
         \A q \in Request \ {r} :
            pc'[q] = pc[q] /\ arg'[q] = arg[q] /\ seenLeaf'[q] = seenLeaf[q],
         \A n \in Nullifier : rowLock[n] \in Request \ {r} => rowLock'[n] = rowLock[n],
         Locked(r)', NoLeafYet(r)', Rotating(r)'
  PROVE  IInv'
<1>1. ASSUME NEW q \in Request \ {r} PROVE (Locked(q) /\ NoLeafYet(q) /\ Rotating(q))'
  <2>0. pc'[q] = pc[q] /\ arg'[q] = arg[q] /\ seenLeaf'[q] = seenLeaf[q] /\ leaf' = leaf
    OBVIOUS
  <2>1. Locked(q)'
    BY <2>0 DEF IInv, Locked, Nul, TypeInv, LocalOK, InputOK, NulPC, Joining
  <2>2. NoLeafYet(q)' BY <2>0 DEF IInv, NoLeafYet, Nul
  <2>3. Rotating(q)' BY <2>0 DEF IInv, Rotating, Nul, TypeInv, LocalOK, InputOK
  <2>4. QED BY <2>1, <2>2, <2>3
<1>2. LeafMade' BY DEF IInv, LeafMade, TypeInv, TablesOK
<1>3. OneLeaf' BY DEF IInv, OneLeaf
<1>4. QED BY <1>1, <1>2, <1>3 DEF IInv

\* In particular a request that ends without touching the leaves.
LEMMA EndKeeps ==
  ASSUME IInv, NEW r \in Request, TypeInv', Release(r), UNCHANGED leaf, pc[r] # "done"
  PROVE  IInv'
<1>1. pc'[r] = "done" BY DEF Release, IInv, TypeInv, LocalOK
<1>2. Locked(r)' /\ NoLeafYet(r)' /\ Rotating(r)' BY <1>1 DEF Locked, NoLeafYet, Rotating
<1>3. /\ \A q \in Request \ {r} :
            pc'[q] = pc[q] /\ arg'[q] = arg[q] /\ seenLeaf'[q] = seenLeaf[q]
      /\ \A n \in Nullifier : rowLock[n] \in Request \ {r} => rowLock'[n] = rowLock[n]
  BY DEF Release, IInv, TypeInv, LocalOK
<1>4. QED BY <1>2, <1>3, Frame

\* ... or goes on to its next statement.
LEMMA GotoKeeps ==
  ASSUME IInv, NEW r \in Request, TypeInv', NEW label \in PC, Goto(r, label),
         UNCHANGED leaf, pc[r] # "done",
         \A q \in Request \ {r} : arg'[q] = arg[q] /\ seenLeaf'[q] = seenLeaf[q],
         UNCHANGED rowLock \/ \E n \in Nullifier : LockRow(r, n),
         Locked(r)', NoLeafYet(r)', Rotating(r)'
  PROVE  IInv'
<1>1. \A q \in Request \ {r} : pc'[q] = pc[q] BY DEF Goto, IInv, TypeInv, LocalOK
<1>2. \A n \in Nullifier : rowLock[n] \in Request \ {r} => rowLock'[n] = rowLock[n]
  BY NoneAssumption DEF LockRow, IInv, TypeInv, LocalOK
<1>3. QED BY <1>1, <1>2, Frame

LEMMA ArriveKeeps ==
  ASSUME IInv, NEW r \in Request, Arrive(r)
  PROVE  IInv'
<1>1. TypeInv' BY ArriveType DEF IInv
<1>2. PICK label \in {"joinFind", "rotateRead", "banFind", "banUpsert", "unbanRow",
                      "limitCheck"} : \E call : Begin(r, call, label)
  <2> DEFINE Starts(label) == \E call : Begin(r, call, label)
  <2>1. Starts("joinFind") \/ Starts("rotateRead") \/ Starts("banFind") \/ Starts("banUpsert")
          \/ Starts("unbanRow") \/ Starts("limitCheck")
    <3>1. Join(r) => Starts("joinFind") BY DEF Join
    <3>2. Rotate(r) => Starts("rotateRead") BY DEF Rotate
    <3>3. BanLeaf(r) => Starts("banFind") BY DEF BanLeaf
    <3>4. BanNullifier(r) => Starts("banUpsert") BY DEF BanNullifier
    <3>5. Unban(r) => Starts("unbanRow") BY DEF Unban
    <3>6. SetLimit(r) => Starts("limitCheck") BY DEF SetLimit
    <3>7. QED BY <3>1, <3>2, <3>3, <3>4, <3>5, <3>6 DEF Arrive
  <2>2. QED BY <2>1
<1>3. pc'[r] = label BY <1>2 DEF Begin, IInv, TypeInv, LocalOK
<1>4. Locked(r)' /\ NoLeafYet(r)' /\ Rotating(r)'
  BY <1>3 DEF Locked, NoLeafYet, Rotating
<1>5. \A q \in Request \ {r} : arg'[q] = arg[q] /\ seenLeaf'[q] = seenLeaf[q]
  BY <1>2 DEF Begin, IInv, TypeInv, LocalOK
<1>6. \A q \in Request \ {r} : pc'[q] = pc[q]
  BY <1>2 DEF Begin, IInv, TypeInv, LocalOK
<1>7. UNCHANGED <<leaf, rowLock>> /\ pc[r] # "done" BY <1>2 DEF Begin, tables
<1>8. QED BY <1>1, <1>4, <1>5, <1>6, <1>7, Frame

\* A request that ends having written the leaves owes the invariants about them.
LEMMA WriteKeeps ==
  ASSUME IInv, NEW r \in Request, TypeInv', Release(r),
         \A q \in Request \ {r} : NoLeafYet(q)' /\ Rotating(q)',
         LeafMade', OneLeaf'
  PROVE  IInv'
<1>1. pc'[r] = "done" BY DEF Release, IInv, TypeInv, LocalOK
<1>2. (Locked(r) /\ NoLeafYet(r) /\ Rotating(r))'
  BY <1>1 DEF Locked, NoLeafYet, Rotating
<1>3. ASSUME NEW q \in Request \ {r} PROVE Locked(q)'
  <2>1. pc'[q] = pc[q] /\ arg'[q] = arg[q] BY DEF Release, IInv, TypeInv, LocalOK
  <2>2. QED BY <2>1 DEF Release, IInv, Locked, Nul, TypeInv, LocalOK, InputOK, NulPC, Joining
<1>4. QED BY <1>2, <1>3 DEF IInv

LEMMA InsertKeeps ==
  ASSUME IInv, NEW r \in Request, JoinInsert(r)
  PROVE  IInv'
<1>0. TypeInv' BY StatementType DEF IInv, Statement
<1>a. /\ TypeInv /\ InputOK(r) /\ Locked(r) /\ NoLeafYet(r) /\ LeafMade /\ OneLeaf
      /\ pc[r] = "joinInsert" /\ Nul(r) \in Nullifier
  BY DEF IInv, TypeInv, LocalOK, JoinInsert, InputOK, NulPC, Joining, Nul
<1> DEFINE new == [id |-> r, owner |-> Nul(r), rc |-> Rc(r)]
<1>1. CASE Release(r) /\ leaf' = leaf \union {new}
  <2>0. pc'[r] = "done" BY <1>a, <1>1 DEF Release, TypeInv, LocalOK
  <2>1. ASSUME NEW q \in Request \ {r} PROVE NoLeafYet(q)' /\ Rotating(q)'
    <3>1. pc'[q] = pc[q] /\ arg'[q] = arg[q] /\ seenLeaf'[q] = seenLeaf[q]
      BY <1>1, <1>a DEF Release, TypeInv, LocalOK
    <3>2. NoLeafYet(q) /\ Rotating(q) /\ Locked(q) /\ InputOK(q)
      BY DEF IInv, TypeInv, LocalOK
    <3>3. pc[q] = "joinInsert" => Nul(q) # Nul(r)
      BY <1>a, <3>2 DEF Locked
    <3>4. NoLeafYet(q)' BY <1>1, <3>1, <3>2, <3>3 DEF NoLeafYet, Nul
    <3>5. pc[q] \in {"rotateLeaf", "rotateRow"} => seenLeaf[q] # r
      BY <1>a, <3>2 DEF Rotating
    <3>6. pc[q] \in {"rotateLeaf", "rotateRow"} => pc'[seenLeaf[q]] = "done"
      BY <1>1, <1>a, <3>2, <3>5 DEF Rotating, Release, TypeInv, LocalOK
    <3>7. Rotating(q)' BY <1>1, <3>1, <3>2, <3>5, <3>6 DEF Rotating, Nul
    <3>8. QED BY <3>4, <3>7
  <2>2. LeafMade'
    <3>1. \A l \in leaf : l.id # r BY <1>a DEF LeafMade
    <3>2. \A l \in leaf : pc'[l.id] = "done"
      BY <1>1, <1>a DEF LeafMade, Release, TypeInv, LocalOK, TablesOK
    <3>3. QED BY <1>1, <1>a, <2>0, <3>1, <3>2 DEF LeafMade
  <2>3. OneLeaf' BY <1>1, <1>a DEF OneLeaf, NoLeafYet
  <2>4. QED BY <1>0, <1>1, <2>1, <2>2, <2>3, WriteKeeps
<1>2. QED BY <1>0, <1>a, <1>1, EndKeeps DEF JoinInsert, Fail, Finish, tables

LEMMA ReplaceKeeps ==
  ASSUME IInv, NEW r \in Request, RotateRow(r)
  PROVE  IInv'
<1>0. TypeInv' BY StatementType DEF IInv, Statement
<1>a. /\ TypeInv /\ Rotating(r) /\ LeafMade /\ OneLeaf /\ pc[r] = "rotateRow" /\ Release(r)
  BY DEF IInv, RotateRow, Finish
<1> DEFINE new == [id |-> seenLeaf[r], owner |-> Nul(r), rc |-> Rc(r)]
<1>1. leaf' = {l \in leaf : l.id # seenLeaf[r]} \union {new} BY DEF RotateRow
<1>2. PICK old \in leaf : old.id = seenLeaf[r] BY <1>a DEF Rotating
<1>3. old.owner = Nul(r) BY <1>a, <1>2 DEF Rotating
<1>4. ASSUME NEW q \in Request \ {r} PROVE NoLeafYet(q)' /\ Rotating(q)'
  <2>1. pc'[q] = pc[q] /\ arg'[q] = arg[q] /\ seenLeaf'[q] = seenLeaf[q]
    BY <1>a DEF Release, TypeInv, LocalOK
  <2>2. NoLeafYet(q) /\ Rotating(q) /\ InputOK(q) BY DEF IInv, TypeInv, LocalOK
  <2>3. NoLeafYet(q)'
    <3>1. pc[q] = "joinInsert" => Nul(q) # Nul(r) BY <1>2, <1>3, <2>2 DEF NoLeafYet
    <3>2. QED BY <1>1, <2>1, <2>2, <3>1 DEF NoLeafYet, Nul
  <2>4. pc[q] \in {"rotateLeaf", "rotateRow"} => pc'[seenLeaf[q]] = "done"
    BY <1>a, <2>2 DEF Rotating, Release, TypeInv, LocalOK, InputOK
  <2>a. \A l \in leaf' : \E k \in leaf : l.id = k.id /\ l.owner = k.owner BY <1>1, <1>2, <1>3
  <2>b. ASSUME NEW k \in leaf PROVE \E l \in leaf' : l.id = k.id
    <3>1. new \in leaf' /\ new.id = seenLeaf[r] BY <1>1
    <3>2. k.id # seenLeaf[r] => k \in leaf' BY <1>1
    <3>3. QED BY <3>1, <3>2
  <2>5. Rotating(q)'
    <3>1. pc[q] \in {"rotateLeaf", "rotateRow"} =>
             \A l \in leaf' : l.id = seenLeaf[q] => l.owner = Nul(q)
      BY <2>2, <2>a DEF Rotating
    <3>2. pc[q] = "rotateRow" => \E l \in leaf' : l.id = seenLeaf[q]
      BY <2>2, <2>b DEF Rotating
    <3>3. QED BY <2>1, <2>4, <3>1, <3>2 DEF Rotating, Nul
  <2>6. QED BY <2>3, <2>5
<1>5. LeafMade'
  <2>1. \A l \in leaf : pc'[l.id] = "done"
    BY <1>a DEF LeafMade, Release, TypeInv, LocalOK, TablesOK
  <2>2. pc'[seenLeaf[r]] = "done" BY <1>2, <2>1
  <2>3. QED BY <1>1, <1>a, <2>1, <2>2 DEF LeafMade
<1>6. OneLeaf' BY <1>1, <1>2, <1>3, <1>a DEF OneLeaf
<1>7. QED BY <1>0, <1>a, <1>4, <1>5, <1>6, WriteKeeps

LEMMA PruneKeeps ==
  ASSUME IInv, NEW r \in Request, Prune(r)
  PROVE  IInv'
<1>0. TypeInv' BY StatementType DEF IInv, Statement
<1>a. /\ TypeInv /\ LeafMade /\ OneLeaf /\ Release(r) /\ leaf' = leaf \ LeavesOf(Nul(r))
      /\ \A l \in LeavesOf(Nul(r)), q \in Request : ~HoldsLeaf(q, l.id)
  BY DEF IInv, Prune, Finish
<1>1. leaf' \subseteq leaf BY <1>a
<1>2. ASSUME NEW q \in Request \ {r} PROVE NoLeafYet(q)' /\ Rotating(q)'
  <2>1. pc'[q] = pc[q] /\ arg'[q] = arg[q] /\ seenLeaf'[q] = seenLeaf[q]
    BY <1>a DEF Release, TypeInv, LocalOK
  <2>2. NoLeafYet(q) /\ Rotating(q) /\ InputOK(q) BY DEF IInv, TypeInv, LocalOK
  <2>3. NoLeafYet(q)' BY <1>1, <2>1, <2>2 DEF NoLeafYet, Nul
  <2>4. pc[q] \in {"rotateLeaf", "rotateRow"} => pc'[seenLeaf[q]] = "done"
    BY <1>a, <2>2 DEF Rotating, Release, TypeInv, LocalOK, InputOK
  <2>5. pc[q] = "rotateRow" => \E l \in leaf' : l.id = seenLeaf[q]
    BY <1>a, <2>2 DEF Rotating, HoldsLeaf
  <2>6. Rotating(q)' BY <1>1, <2>1, <2>2, <2>4, <2>5 DEF Rotating, Nul
  <2>7. QED BY <2>3, <2>6
<1>3. LeafMade'
  BY <1>a, <1>1 DEF LeafMade, Release, TypeInv, LocalOK, TablesOK
<1>4. OneLeaf' BY <1>a, <1>1 DEF OneLeaf
<1>5. QED BY <1>0, <1>a, <1>2, <1>3, <1>4, WriteKeeps

LEMMA StatementKeeps ==
  ASSUME IInv, NEW r \in Request, Statement(r)
  PROVE  IInv'
<1>0. TypeInv' BY StatementType DEF IInv
<1>a. /\ TypeInv /\ TablesOK /\ InputOK(r) /\ Locked(r) /\ NoLeafYet(r) /\ Rotating(r)
      /\ LeafMade /\ OneLeaf
      /\ rowLock \in [Nullifier -> Request \union {None}]
      /\ pc \in [Request -> PC]
      /\ seenLeaf \in [Request -> Request \union {None}]
      /\ arg \in [Request -> Call \union {None}]
  BY DEF IInv, TypeInv, LocalOK
<1>b. ASSUME Finish(r), UNCHANGED leaf, pc[r] # "done" PROVE IInv'
  BY <1>0, <1>b, EndKeeps DEF Finish
<1>c. ASSUME NEW label \in PC, Goto(r, label),
             label \notin {"joinCheck", "joinInsert", "prune", "rotateLeaf", "rotateRow"}
      PROVE  Locked(r)' /\ NoLeafYet(r)' /\ Rotating(r)'
  <2>1. pc'[r] = label BY <1>a, <1>c DEF Goto
  <2>2. QED BY <1>c, <2>1 DEF Locked, NoLeafYet, Rotating
<1>d. ASSUME NEW label \in {"joinCheck", "prune"}, Goto(r, label), UNCHANGED arg,
             LockRow(r, Nul(r)), Nul(r) \in Nullifier
      PROVE  Locked(r)' /\ NoLeafYet(r)' /\ Rotating(r)'
  <2>1. pc'[r] = label BY <1>a, <1>d DEF Goto, PC
  <2>2. rowLock'[Nul(r)] = r BY <1>a, <1>d DEF LockRow
  <2>3. QED BY <1>d, <2>1, <2>2 DEF Locked, NoLeafYet, Rotating, Nul
<1> USE DEF PC
<1>1. CASE JoinFind(r)
  <2>1. CASE Goto(r, "joinCreate") /\ UNCHANGED <<rowLock, arg, authorToken, seenLeaf>>
    BY <1>0, <1>c, <1>1, <2>1, GotoKeeps DEF JoinFind, tables
  <2>2. CASE Goto(r, "joinLock") /\ UNCHANGED <<rowLock, arg, seenLeaf>>
    BY <1>0, <1>c, <1>1, <2>2, GotoKeeps DEF JoinFind, tables
  <2>3. QED BY <1>1, <1>b, <2>1, <2>2 DEF JoinFind, tables
<1>2. CASE JoinCreate(r)
  <2>1. Nul(r) \in Nullifier BY <1>a, <1>2 DEF JoinCreate, InputOK, Nul, NulPC, Joining
  <2>2. CASE LockRow(r, Nul(r)) /\ Goto(r, "joinCheck") /\ UNCHANGED <<arg, authorToken, seenLeaf>>
    BY <1>0, <1>d, <1>2, <2>1, <2>2, GotoKeeps DEF JoinCreate, tables
  <2>3. QED BY <1>2, <1>b, <2>2 DEF JoinCreate, tables
<1>3. CASE JoinLock(r)
  <2>1. Nul(r) \in Nullifier BY <1>a, <1>3 DEF JoinLock, InputOK, Nul, NulPC, Joining
  <2>2. QED BY <1>0, <1>d, <1>3, <2>1, GotoKeeps DEF JoinLock, tables
<1>4. CASE JoinCheck(r)
  <2>1. CASE /\ Goto(r, "joinInsert")
             /\ LeavesOf(Nul(r)) = {}
             /\ UNCHANGED <<tables, rowLock, arg, seenLeaf>>
    <3>1. pc'[r] = "joinInsert" BY <1>a, <2>1 DEF Goto
    <3>2. Locked(r)' BY <1>a, <1>4, <2>1, <3>1 DEF Locked, JoinCheck, Nul
    <3>3. NoLeafYet(r)' BY <2>1, <3>1 DEF NoLeafYet, LeavesOf, tables, Nul
    <3>4. Rotating(r)' BY <3>1 DEF Rotating
    <3>5. QED BY <1>0, <1>4, <2>1, <3>2, <3>3, <3>4, GotoKeeps DEF JoinCheck, tables
  <2>2. QED BY <1>4, <1>b, <2>1 DEF JoinCheck
<1>5. CASE JoinInsert(r) BY <1>5, InsertKeeps
<1>6. CASE RotateRead(r)
  <2>1. CASE Goto(r, "rotateFind") /\ UNCHANGED <<rowLock, arg, authorToken, seenLeaf>>
    BY <1>0, <1>c, <1>6, <2>1, GotoKeeps DEF RotateRead, tables
  <2>2. QED BY <1>6, <1>b, <2>1 DEF RotateRead, tables
<1>7. CASE RotateFind(r)
  <2>1. ASSUME NEW old \in LeavesOf(Nul(r)), Goto(r, "rotateLeaf"),
               seenLeaf' = [seenLeaf EXCEPT ![r] = old.id],
               UNCHANGED <<rowLock, arg, authorToken>>
        PROVE  IInv'
    <3>0. leaf' = leaf BY <1>7 DEF RotateFind, tables
    <3>1. pc'[r] = "rotateLeaf" /\ seenLeaf'[r] = old.id BY <1>a, <2>1 DEF Goto
    <3>2. old \in leaf /\ old.owner = Nul(r) /\ old.id \in Request /\ pc[old.id] = "done"
      BY <1>a DEF LeavesOf, TablesOK, LeafMade
    <3>3. pc'[old.id] = "done" BY <1>7, <1>a, <2>1, <3>2 DEF RotateFind, Goto
    <3>4. \A l \in leaf : l.id = old.id => l.owner = Nul(r)
      BY <1>a, <3>2 DEF LeafMade
    <3>5. Locked(r)' /\ NoLeafYet(r)' BY <3>1 DEF Locked, NoLeafYet
    <3>6. Rotating(r)' BY <2>1, <3>0, <3>1, <3>3, <3>4 DEF Rotating, Nul
    <3>7. QED BY <1>0, <1>7, <1>a, <2>1, <3>0, <3>5, <3>6, GotoKeeps DEF RotateFind
  <2>2. QED BY <1>7, <1>b, <2>1 DEF RotateFind, tables
<1>8. CASE RotateLeaf(r)
  <2>1. CASE Goto(r, "rotateRow") /\ (\E l \in leaf : l.id = seenLeaf[r])
             /\ UNCHANGED <<rowLock, arg, authorToken, seenLeaf>>
    <3>1. pc'[r] = "rotateRow" /\ pc[r] = "rotateLeaf" BY <1>a, <1>8, <2>1 DEF Goto, RotateLeaf
    <3>2. Locked(r)' /\ NoLeafYet(r)' BY <3>1 DEF Locked, NoLeafYet
    <3>3. pc'[seenLeaf[r]] = "done"
      BY <1>a, <2>1, <3>1 DEF Rotating, Goto
    <3>4. Rotating(r)' BY <1>a, <1>8, <2>1, <3>1, <3>3 DEF Rotating, RotateLeaf, tables, Nul
    <3>5. QED BY <1>0, <1>8, <2>1, <3>1, <3>2, <3>4, GotoKeeps DEF RotateLeaf, tables
  <2>2. QED BY <1>8, <1>b, <2>1 DEF RotateLeaf, tables
<1>9. CASE RotateRow(r) BY <1>9, ReplaceKeeps
<1>10. CASE BanFind(r)
  <2>1. ASSUME NEW l \in leaf, arg' = [arg EXCEPT ![r].nul = l.owner], Goto(r, "banRow"),
               UNCHANGED <<rowLock, authorToken, seenLeaf>>
        PROVE  IInv'
    <3>1. \A q \in Request \ {r} : arg'[q] = arg[q] /\ seenLeaf'[q] = seenLeaf[q]
      BY <1>a, <2>1
    <3>2. Locked(r)' /\ NoLeafYet(r)' /\ Rotating(r)' BY <1>c, <2>1
    <3>3. QED BY <1>0, <1>10, <2>1, <3>1, <3>2, GotoKeeps DEF BanFind, tables
  <2>2. QED BY <1>10, <1>b, <2>1 DEF BanFind, tables
<1>11. CASE BanRowLock(r)
  <2>1. Nul(r) \in Nullifier BY <1>a, <1>11 DEF BanRowLock, InputOK, Nul, NulPC
  <2>2. Goto(r, "prune") /\ LockRow(r, Nul(r)) /\ UNCHANGED <<tables, arg, authorToken, seenLeaf>>
        /\ pc[r] # "done"
    BY <1>11 DEF BanRowLock
  <2>3. Locked(r)' /\ NoLeafYet(r)' /\ Rotating(r)' BY <1>d, <2>1, <2>2
  <2>4. leaf' = leaf BY <2>2 DEF tables
  <2>5. QED BY <1>0, <2>1, <2>2, <2>3, <2>4, GotoKeeps
<1>12. CASE Prune(r) BY <1>12, PruneKeeps
<1>13. CASE UnbanRow(r)
  <2>1. Nul(r) \in Nullifier BY <1>a, <1>13 DEF UnbanRow, InputOK, Nul, NulPC
  <2>2. QED BY <1>0, <1>c, <1>13, <2>1, GotoKeeps DEF UnbanRow, tables
<1>14. CASE UnbanClear(r) BY <1>14, <1>b DEF UnbanClear
<1>15. CASE LimitCheck(r)
  <2>1. CASE Goto(r, "limitWrite") /\ UNCHANGED <<rowLock, arg, authorToken, seenLeaf>>
    BY <1>0, <1>c, <1>15, <2>1, GotoKeeps DEF LimitCheck, tables
  <2>2. QED BY <1>15, <1>b, <2>1 DEF LimitCheck, tables
<1>16. CASE LimitWrite(r) BY <1>16, <1>b DEF LimitWrite
<1>17. CASE DeadlockVictim(r)
  <2>1. pc[r] # "done" BY <1>17 DEF DeadlockVictim, Deadlocked, WaitsFor
  <2>2. QED BY <1>17, <1>b, <2>1 DEF DeadlockVictim, Fail, tables
<1>99. QED
  BY <1>1, <1>2, <1>3, <1>4, <1>5, <1>6, <1>7, <1>8, <1>9, <1>10, <1>11, <1>12, <1>13,
     <1>14, <1>15, <1>16, <1>17 DEF Statement

LEMMA AbortKeeps ==
  ASSUME IInv, NEW r \in Request, Abort(r)
  PROVE  IInv'
<1>1. TypeInv' BY AbortType DEF IInv
<1>2. QED BY <1>1, EndKeeps DEF Abort, Fail, Finish, InFlight, tables

LEMMA StutterKeeps == IInv /\ UNCHANGED vars => IInv'
<1>1. SUFFICES ASSUME IInv, UNCHANGED vars PROVE IInv' OBVIOUS
<1>0. UNCHANGED limit /\ UNCHANGED member /\ UNCHANGED leaf /\ UNCHANGED ban /\ UNCHANGED rowLock
      /\ UNCHANGED pc /\ UNCHANGED arg /\ UNCHANGED authorToken /\ UNCHANGED seenLeaf
      /\ UNCHANGED issued /\ UNCHANGED overlap
  BY <1>1 DEF vars, tables
<1>2. TypeInv'
  <2>1. TablesOK' BY <1>0, <1>1 DEF IInv, TypeInv, TablesOK
  <2>2. ASSUME NEW q \in Request PROVE InputOK(q)'
    BY <1>0, <1>1 DEF IInv, TypeInv, LocalOK, InputOK
  <2>3. LocalOK' BY <1>0, <1>1, <2>2 DEF IInv, TypeInv, LocalOK
  <2>4. QED BY <2>1, <2>3 DEF TypeInv
<1>3. ASSUME NEW q \in Request PROVE (Locked(q) /\ NoLeafYet(q) /\ Rotating(q))'
  <2>1. Locked(q)' BY <1>0, <1>1 DEF IInv, Locked, Nul
  <2>2. NoLeafYet(q)' BY <1>0, <1>1 DEF IInv, NoLeafYet, Nul
  <2>3. Rotating(q)' BY <1>0, <1>1 DEF IInv, Rotating, Nul
  <2>4. QED BY <2>1, <2>2, <2>3
<1>4. LeafMade' /\ OneLeaf' BY <1>0, <1>1 DEF IInv, LeafMade, OneLeaf
<1>5. QED BY <1>2, <1>3, <1>4 DEF IInv

LEMMA NextKeeps == IInv /\ [Next]_vars => IInv'
  BY ArriveKeeps, StatementKeeps, AbortKeeps, StutterKeeps DEF Next, AllDone

LEMMA Invariance == Spec => []IInv
  BY InitHolds, NextKeeps, PTL DEF Spec

\* The tables and the requests' local state keep their types.
THEOREM TypeCorrect == Spec => []TypeOK
<1>1. IInv => TypeOK BY DEF IInv, TypeInv, TablesOK, LocalOK, TypeOK
<1>2. QED BY <1>1, Invariance, PTL

\* However joins, rotations and bans interleave, no membership holds two leaves
\* (joinRoom's row lock around its device check).
THEOREM OneLeafHolds == Spec => []OneLeaf
<1>1. IInv => OneLeaf BY DEF IInv
<1>2. QED BY <1>1, Invariance, PTL

-----------------------------------------------------------------------------
(* Deleted leaves, Ban rows and author tokens.                              *)

\* The statements that write a table; every other step leaves the tables alone.
Writes(r) ==
    \/ JoinCheck(r) \/ JoinInsert(r) \/ RotateRow(r) \/ Prune(r)
    \/ UnbanClear(r) \/ LimitWrite(r)

LEMMA OnlyWrites ==
  ASSUME NEW r \in Request, Arrive(r) \/ Statement(r) \/ Abort(r), ~Writes(r)
  PROVE  UNCHANGED <<tables, issued>>
<1>1. CASE Arrive(r)
  BY <1>1 DEF Arrive, Join, Rotate, BanLeaf, BanNullifier, Unban, SetLimit, Begin, Goto
<1>2. CASE Statement(r)
  BY <1>2 DEF Statement, Writes, JoinFind, JoinCreate, JoinLock, RotateRead, RotateFind,
              RotateLeaf, BanFind, BanRowLock, UnbanRow, LimitCheck, DeadlockVictim, Fail,
              Finish, Goto
<1>3. CASE Abort(r) BY <1>3 DEF Abort, Fail, Finish
<1>4. QED BY <1>1, <1>2, <1>3

\* A leaf a ban deleted never comes back, whatever a rotation had read before
\* (rotateDevice updates its leaf by id).
THEOREM PrunedLeaves == Spec => PrunedLeafStaysPruned
<1> DEFINE Kept == \A l \in leaf' : (\E k \in leaf : k.id = l.id) \/ pc[l.id] = "joinInsert"
<1>1. ASSUME IInv, NEW r \in Request, Arrive(r) \/ Statement(r) \/ Abort(r) PROVE Kept
  <2>0. ASSUME leaf' \subseteq leaf PROVE Kept BY <2>0
  <2>1. CASE ~Writes(r) BY <1>1, <2>0, <2>1, OnlyWrites DEF tables
  <2>2. CASE JoinCheck(r) BY <2>0, <2>2 DEF JoinCheck, tables
  <2>3. CASE JoinInsert(r) BY <2>3 DEF JoinInsert, Fail, tables
  <2>4. CASE RotateRow(r)
    <3>1. \E k \in leaf : k.id = seenLeaf[r] BY <1>1, <2>4 DEF IInv, Rotating, RotateRow
    <3>2. QED BY <2>4, <3>1 DEF RotateRow
  <2>5. CASE Prune(r) BY <2>0, <2>5 DEF Prune
  <2>6. CASE UnbanClear(r) BY <2>0, <2>6 DEF UnbanClear
  <2>7. CASE LimitWrite(r) BY <2>0, <2>7 DEF LimitWrite
  <2>8. QED BY <2>1, <2>2, <2>3, <2>4, <2>5, <2>6, <2>7 DEF Writes
<1>2. IInv /\ [Next]_vars => [Kept]_vars
  BY <1>1 DEF Next, AllDone
<1>3. QED BY <1>2, Invariance, PTL DEF Spec, PrunedLeafStaysPruned

\* A join never lifts a ban.
LEMMA JoinedStatus ==
  ASSUME TypeInv, NEW r \in Request, arg[r] \in Call, Nul(r) \in Nullifier
  PROVE  member[Nul(r)].status = "BANNED" => JoinedRow(r).status = "BANNED"
BY DEF JoinedRow, TypeInv, TablesOK

\* A Ban row belongs to a banned membership, however bans and unbans of the same
\* member interleave: both write the row and the Ban table in one transaction.
THEOREM BansAreOfBanned == Spec => []BanRowMeansBanned
<1> DEFINE Inv == TypeInv /\ BanRowMeansBanned
<1>1. Init => Inv BY InitHolds DEF Init, IInv, BanRowMeansBanned
<1>2. ASSUME Inv, NEW r \in Request, Arrive(r) \/ Statement(r) \/ Abort(r)
      PROVE  BanRowMeansBanned'
  <2>a. /\ member \in [Nullifier -> MemberRow] /\ \A b \in ban : b.nul \in Nullifier
        /\ \A b \in ban : member[b.nul].status = "BANNED"
        /\ InputOK(r)
    BY <1>2 DEF TypeInv, TablesOK, LocalOK, BanRowMeansBanned
  <2>b. ASSUME UNCHANGED ban,
               \A n \in Nullifier : member[n].status = "BANNED" => member'[n].status = "BANNED"
        PROVE  BanRowMeansBanned'
    BY <2>a, <2>b DEF BanRowMeansBanned
  <2>c. ASSUME pc[r] \in {"joinCheck", "joinInsert"}, UNCHANGED ban,
               member' = [member EXCEPT ![Nul(r)] = JoinedRow(r)]
        PROVE  BanRowMeansBanned'
    <3>1. arg[r] \in Call /\ Nul(r) \in Nullifier
      BY <2>a, <2>c DEF InputOK, Nul, NulPC, Joining
    <3>2. member[Nul(r)].status = "BANNED" => JoinedRow(r).status = "BANNED"
      BY <1>2, <3>1, JoinedStatus
    <3>3. QED BY <2>a, <2>b, <2>c, <3>1, <3>2
  <2>1. CASE ~Writes(r) BY <1>2, <2>b, <2>1, OnlyWrites DEF tables
  <2>2. CASE JoinCheck(r) BY <2>b, <2>c, <2>2 DEF JoinCheck, tables
  <2>3. CASE JoinInsert(r) BY <2>b, <2>c, <2>3 DEF JoinInsert, Fail, tables
  <2>4. CASE RotateRow(r)
    <3>1. Nul(r) \in Nullifier
      BY <2>a, <2>4 DEF RotateRow, InputOK, Nul, NulPC, RotatingPC
    <3>2. QED BY <2>a, <2>b, <2>4, <3>1 DEF RotateRow
  <2>5. CASE Prune(r)
    <3>1. Nul(r) \in Nullifier BY <2>a, <2>5 DEF Prune, InputOK, Nul, NulPC
    <3>2. \A n \in Nullifier : member'[n].status =
             IF n = Nul(r) THEN "BANNED" ELSE member[n].status
      BY <2>a, <2>5, <3>1 DEF Prune
    <3>3. \A b \in ban' : b \in ban \/ b.nul = Nul(r) BY <2>5 DEF Prune
    <3>4. QED BY <2>a, <3>1, <3>2, <3>3 DEF BanRowMeansBanned
  <2>6. CASE UnbanClear(r)
    <3>1. ban' = {b \in ban : b.nul # Nul(r)} BY <2>6 DEF UnbanClear
    <3>2. \A n \in Nullifier : n # Nul(r) => member'[n].status = member[n].status
      BY <2>a, <2>6 DEF UnbanClear
    <3>3. QED BY <2>a, <3>1, <3>2 DEF BanRowMeansBanned
  <2>7. CASE LimitWrite(r) BY <2>b, <2>7 DEF LimitWrite
  <2>8. QED BY <2>1, <2>2, <2>3, <2>4, <2>5, <2>6, <2>7 DEF Writes
<1>3. BanRowMeansBanned /\ UNCHANGED vars => BanRowMeansBanned'
  BY DEF BanRowMeansBanned, vars, tables
<1>4. IInv /\ BanRowMeansBanned /\ [Next]_vars => BanRowMeansBanned'
  BY <1>2, <1>3 DEF Next, AllDone, IInv
<1>5. QED BY <1>1, <1>4, Invariance, PTL DEF Spec

-----------------------------------------------------------------------------
(* The author token.  A token once on the row is never replaced: a join     *)
(* either read it, or holds the row lock and knows there is none.           *)

TokenRead(r) ==
    /\ pc[r] \in {"idle", "joinFind", "joinCreate"} => authorToken[r] = None
    /\ pc[r] \in {"joinLock", "joinCheck"} =>
          authorToken[r] \in {None, member[Nul(r)].token}
    /\ pc[r] = "joinInsert" =>
          /\ authorToken[r] # None
          /\ member[Nul(r)].token \in {None, authorToken[r]}

NoRowNoToken == \A n \in Nullifier : member[n].status = "NONE" => member[n].token = None

TInv ==
    /\ \A r \in Request : TokenRead(r)
    /\ NoRowNoToken
    /\ JoinTokenResolves

\* The token a join commits is the stored one when there is one.
LEMMA TokenKept ==
  ASSUME IInv, TInv, NEW r \in Request, pc[r] \in {"joinCheck", "joinInsert"}
  PROVE  /\ JoinToken(r) \in Request
         /\ member[Nul(r)].token # None => JoinToken(r) = member[Nul(r)].token
         /\ JoinedRow(r).token = JoinToken(r) /\ JoinedRow(r).status # "NONE"
<1>1. arg[r] \in Call /\ Nul(r) \in Nullifier /\ TokenRead(r) /\ TypeInv
  BY DEF IInv, TInv, TypeInv, LocalOK, InputOK, Nul, NulPC, Joining
<1>2. member[Nul(r)] \in MemberRow BY <1>1 DEF TypeInv, TablesOK
<1>3. JoinToken(r) \in Request BY <1>1, TokenType
<1>4. member[Nul(r)].token # None => JoinToken(r) = member[Nul(r)].token
  BY <1>1, <1>2 DEF TInv, NoRowNoToken, TokenRead, JoinToken
<1>5. JoinedRow(r).token = JoinToken(r) /\ JoinedRow(r).status # "NONE"
  BY <1>2 DEF JoinedRow
<1>6. QED BY <1>3, <1>4, <1>5

\* Steps that keep the tokens of the rows disturb nothing but r's own part.
LEMMA TokenFrame ==
  ASSUME IInv, TInv, NEW r \in Request,
         \A q \in Request \ {r} :
            pc'[q] = pc[q] /\ arg'[q] = arg[q] /\ authorToken'[q] = authorToken[q],
         \A n \in Nullifier : member'[n].token = member[n].token,
         \A n \in Nullifier : member'[n].status = "NONE" => member[n].status = "NONE",
         UNCHANGED issued, TokenRead(r)'
  PROVE  TInv'
<1>1. ASSUME NEW q \in Request \ {r} PROVE TokenRead(q)'
  <2>1. pc[q] \in Joining => Nul(q) \in Nullifier
    BY DEF IInv, TypeInv, LocalOK, InputOK, Nul, NulPC
  <2>2. QED BY <2>1 DEF TInv, TokenRead, Nul, Joining
<1>2. NoRowNoToken' BY DEF TInv, NoRowNoToken
<1>3. JoinTokenResolves' BY DEF TInv, JoinTokenResolves, IInv, TypeInv, TablesOK
<1>4. QED BY <1>1, <1>2, <1>3 DEF TInv

\* A join that commits its row may set the token of its own membership only.
LEMMA JoinCommit ==
  ASSUME IInv, TInv, NEW r \in Request, pc[r] \in {"joinCheck", "joinInsert"}, Release(r),
         member' = [member EXCEPT ![Nul(r)] = JoinedRow(r)],
         issued' \subseteq issued \union {<<Nul(r), JoinToken(r)>>}
  PROVE  TInv'
<1> DEFINE n == Nul(r)
<1>0. /\ n \in Nullifier /\ TypeInv /\ Locked(r)
      /\ JoinToken(r) \in Request
      /\ member[n].token # None => JoinToken(r) = member[n].token
      /\ JoinedRow(r).token = JoinToken(r) /\ JoinedRow(r).status # "NONE"
  BY TokenKept DEF IInv, TypeInv, LocalOK, InputOK, Nul, NulPC, Joining
<1>1. \A m \in Nullifier : member'[m] = IF m = n THEN JoinedRow(r) ELSE member[m]
  BY <1>0 DEF TypeInv, TablesOK
<1>2. ASSUME NEW q \in Request PROVE TokenRead(q)'
  <2>1. CASE q = r
    <3>1. pc'[q] = "done" BY <2>1, <1>0 DEF Release, TypeInv, LocalOK
    <3>2. QED BY <3>1 DEF TokenRead
  <2>2. CASE q # r
    <3>1. pc'[q] = pc[q] /\ arg'[q] = arg[q] /\ authorToken'[q] = authorToken[q]
      BY <2>2, <1>0 DEF Release, TypeInv, LocalOK
    <3>2. TokenRead(q) /\ Locked(q) /\ (pc[q] \in Joining => Nul(q) \in Nullifier)
      BY DEF TInv, IInv, TypeInv, LocalOK, InputOK, Nul, NulPC
    <3>3. CASE pc[q] \in {"joinCheck", "joinInsert"}
      <4>1. Nul(q) # n BY <1>0, <2>2, <3>2, <3>3 DEF Locked
      <4>2. QED BY <1>1, <3>1, <3>2, <3>3, <4>1 DEF TokenRead, Nul, Joining
    <3>4. CASE pc[q] = "joinLock"
      <4>1. Nul(q) \in Nullifier /\ authorToken[q] \in {None, member[Nul(q)].token}
        BY <3>2, <3>4 DEF TokenRead, Joining
      <4>2. member[Nul(q)].token # None => member'[Nul(q)].token = member[Nul(q)].token
        BY <1>0, <1>1, <4>1
      <4>3. QED BY <3>1, <3>4, <4>1, <4>2 DEF TokenRead, Nul
    <3>5. CASE pc[q] \notin {"joinLock", "joinCheck", "joinInsert"}
      BY <3>1, <3>2, <3>5 DEF TokenRead
    <3>6. QED BY <3>3, <3>4, <3>5
  <2>3. QED BY <2>1, <2>2
<1>3. NoRowNoToken' BY <1>0, <1>1 DEF TInv, NoRowNoToken
<1>4. JoinTokenResolves'
  <2>1. ASSUME NEW p \in issued PROVE member'[p[1]].token = p[2]
    <3>1. p[1] \in Nullifier /\ p[2] \in Request /\ member[p[1]].token = p[2]
      BY <1>0 DEF TInv, JoinTokenResolves, TypeInv, TablesOK
    <3>2. QED BY <1>0, <1>1, <3>1, NoneAssumption
  <2>2. member'[n].token = JoinToken(r) BY <1>0, <1>1
  <2>3. QED BY <2>1, <2>2 DEF JoinTokenResolves
<1>5. QED BY <1>2, <1>3, <1>4 DEF TInv

LEMMA TokenStep ==
  ASSUME IInv, TInv, NEW r \in Request, Arrive(r) \/ Statement(r) \/ Abort(r)
  PROVE  TInv'
<1>a. /\ pc \in [Request -> PC] /\ arg \in [Request -> Call \union {None}]
      /\ authorToken \in [Request -> Request \union {None}]
      /\ member \in [Nullifier -> MemberRow]
      /\ InputOK(r) /\ TokenRead(r)
  BY DEF IInv, TInv, TypeInv, TablesOK, LocalOK
<1>b. ASSUME Release(r), UNCHANGED issued,
             \A n \in Nullifier : member'[n].token = member[n].token,
             \A n \in Nullifier : member'[n].status = "NONE" => member[n].status = "NONE"
      PROVE  TInv'
  <2>1. pc'[r] = "done" BY <1>a, <1>b DEF Release
  <2>2. TokenRead(r)' BY <2>1 DEF TokenRead
  <2>3. \A q \in Request \ {r} :
           pc'[q] = pc[q] /\ arg'[q] = arg[q] /\ authorToken'[q] = authorToken[q]
    BY <1>a, <1>b DEF Release
  <2>4. QED BY <1>b, <2>2, <2>3, TokenFrame
<1>c. ASSUME Finish(r), UNCHANGED member PROVE TInv' BY <1>b, <1>c DEF Finish
<1>d. ASSUME NEW label, Goto(r, label), UNCHANGED member,
             \A q \in Request \ {r} : arg'[q] = arg[q] /\ authorToken'[q] = authorToken[q],
             TokenRead(r)'
      PROVE  TInv'
  <2>1. \A q \in Request \ {r} : pc'[q] = pc[q] BY <1>a, <1>d DEF Goto
  <2>2. UNCHANGED issued BY <1>d DEF Goto
  <2>3. QED BY <1>d, <2>1, <2>2, TokenFrame
<1>e. ASSUME NEW label, Goto(r, label), UNCHANGED authorToken,
             label \notin {"idle", "joinLock", "joinCheck", "joinInsert"},
             label \in {"joinFind", "joinCreate"} => authorToken[r] = None
      PROVE  TokenRead(r)'
  <2>1. pc'[r] = label BY <1>a, <1>e DEF Goto
  <2>2. QED BY <1>e, <2>1 DEF TokenRead
<1>f. ASSUME NEW label, Goto(r, label) PROVE pc'[r] = label BY <1>a, <1>f DEF Goto
<1>0. CASE Arrive(r)
  <2>0. ASSUME NEW call, NEW label, Begin(r, call, label),
               label \notin {"idle", "joinLock", "joinCheck", "joinInsert"}
        PROVE  TInv'
    <3>1. authorToken[r] = None BY <1>a, <2>0 DEF Begin, TokenRead
    <3>2. pc'[r] = label /\ authorToken'[r] = None BY <1>a, <2>0, <3>1 DEF Begin
    <3>3. TokenRead(r)' BY <2>0, <3>2 DEF TokenRead
    <3>4. \A q \in Request \ {r} :
             pc'[q] = pc[q] /\ arg'[q] = arg[q] /\ authorToken'[q] = authorToken[q]
      BY <1>a, <2>0 DEF Begin
    <3>5. UNCHANGED <<member, issued>> BY <2>0 DEF Begin, tables
    <3>6. QED BY <3>3, <3>4, <3>5, TokenFrame
  <2>1. CASE Join(r) BY <2>0, <2>1 DEF Join
  <2>2. CASE Rotate(r) BY <2>0, <2>2 DEF Rotate
  <2>3. CASE BanLeaf(r) BY <2>0, <2>3 DEF BanLeaf
  <2>4. CASE BanNullifier(r) BY <2>0, <2>4 DEF BanNullifier
  <2>5. CASE Unban(r) BY <2>0, <2>5 DEF Unban
  <2>6. CASE SetLimit(r) BY <2>0, <2>6 DEF SetLimit
  <2>7. QED BY <1>0, <2>1, <2>2, <2>3, <2>4, <2>5, <2>6 DEF Arrive
<1>1. CASE JoinFind(r)
  <2>1. CASE Goto(r, "joinCreate") /\ UNCHANGED <<arg, authorToken>>
    BY <1>a, <1>d, <1>e, <1>1, <2>1 DEF JoinFind, tables, TokenRead
  <2>2. CASE Goto(r, "joinLock") /\ UNCHANGED arg
             /\ authorToken' = [authorToken EXCEPT ![r] = member[Nul(r)].token]
    <3>1. TokenRead(r)'
      BY <1>a, <1>f, <1>1, <2>2 DEF TokenRead, JoinFind, tables, Nul
    <3>2. QED BY <1>a, <1>d, <1>1, <2>2, <3>1 DEF JoinFind, tables
  <2>3. QED BY <1>1, <1>c, <2>1, <2>2 DEF JoinFind, tables
<1>2. CASE JoinCreate(r)
  <2>1. CASE Goto(r, "joinCheck") /\ UNCHANGED <<arg, authorToken>>
    <3>1. authorToken[r] = None BY <1>a, <1>2 DEF JoinCreate, TokenRead
    <3>2. TokenRead(r)' BY <1>f, <2>1, <3>1 DEF TokenRead
    <3>3. QED BY <1>d, <1>2, <2>1, <3>2 DEF JoinCreate, tables
  <2>2. QED BY <1>2, <1>c, <2>1 DEF JoinCreate, tables
<1>3. CASE JoinLock(r)
  <2>1. TokenRead(r)' BY <1>a, <1>f, <1>3 DEF TokenRead, JoinLock, tables, Nul
  <2>2. QED BY <1>d, <1>3, <2>1 DEF JoinLock, tables
<1>4. CASE JoinCheck(r)
  <2>1. CASE Goto(r, "joinInsert") /\ UNCHANGED <<tables, arg>>
             /\ authorToken' = [authorToken EXCEPT ![r] = JoinToken(r)]
    <3>1. JoinToken(r) # None /\ member[Nul(r)].token \in {None, JoinToken(r)}
      BY <1>4, TokenKept, NoneAssumption DEF JoinCheck
    <3>2. authorToken'[r] = JoinToken(r) BY <1>a, <2>1
    <3>3. TokenRead(r)' BY <1>f, <2>1, <3>1, <3>2 DEF TokenRead, tables, Nul
    <3>4. QED BY <1>a, <1>d, <2>1, <3>3 DEF tables
  <2>2. CASE Finish(r) /\ member' = [member EXCEPT ![Nul(r)] = JoinedRow(r)]
    BY <1>4, <2>2, JoinCommit DEF JoinCheck, Finish
  <2>3. QED BY <1>4, <2>1, <2>2 DEF JoinCheck
<1>5. CASE JoinInsert(r)
  BY <1>5, <1>c, JoinCommit DEF JoinInsert, Fail, tables
<1>6. CASE RotateRead(r) BY <1>c, <1>d, <1>e, <1>6 DEF RotateRead, tables
<1>7. CASE RotateFind(r) BY <1>c, <1>d, <1>e, <1>7 DEF RotateFind, tables
<1>8. CASE RotateLeaf(r) BY <1>c, <1>d, <1>e, <1>8 DEF RotateLeaf, tables
<1>9. CASE RotateRow(r)
  <2>1. \A n \in Nullifier : member'[n].token = member[n].token
                            /\ member'[n].status = member[n].status
    BY <1>a, <1>9 DEF RotateRow
  <2>2. QED BY <1>b, <1>9, <2>1 DEF RotateRow, Finish
<1>10. CASE BanFind(r)
  <2>1. ASSUME NEW l \in leaf, arg' = [arg EXCEPT ![r].nul = l.owner], Goto(r, "banRow"),
               UNCHANGED authorToken
        PROVE  TInv'
    BY <1>a, <1>d, <1>e, <1>10, <2>1 DEF BanFind, tables
  <2>2. QED BY <1>10, <1>c, <2>1 DEF BanFind, tables
<1>11. CASE BanRowLock(r) BY <1>d, <1>e, <1>11 DEF BanRowLock, tables
<1>12. CASE Prune(r)
  <2>1. \A n \in Nullifier : member'[n].token = member[n].token
           /\ (member'[n].status = "NONE" => member[n].status = "NONE")
    BY <1>a, <1>12 DEF Prune
  <2>2. QED BY <1>b, <1>12, <2>1 DEF Prune, Finish
<1>13. CASE UnbanRow(r) BY <1>d, <1>e, <1>13 DEF UnbanRow, tables
<1>14. CASE UnbanClear(r)
  <2>1. \A n \in Nullifier : member'[n].token = member[n].token
           /\ (member'[n].status = "NONE" => member[n].status = "NONE")
    BY <1>a, <1>14 DEF UnbanClear
  <2>2. QED BY <1>b, <1>14, <2>1 DEF UnbanClear, Finish
<1>15. CASE LimitCheck(r) BY <1>c, <1>d, <1>e, <1>15 DEF LimitCheck, tables
<1>16. CASE LimitWrite(r) BY <1>c, <1>16 DEF LimitWrite
<1>17. CASE DeadlockVictim(r) BY <1>c, <1>17 DEF DeadlockVictim, Fail, tables
<1>18. CASE Abort(r) BY <1>c, <1>18 DEF Abort, Fail, tables
<1>99. QED BY <1>0, <1>1, <1>2, <1>3, <1>4, <1>5, <1>6, <1>7, <1>8, <1>9, <1>10, <1>11, <1>12,
             <1>13, <1>14, <1>15, <1>16, <1>17, <1>18 DEF Statement

\* The author token a join returned stays the one on the row: concurrent joins on
\* a row without a token converge on one secret (the re-read under the lock).
THEOREM TokensResolve == Spec => []JoinTokenResolves
<1>1. Init => TInv
  BY DEF Init, TInv, TokenRead, NoRowNoToken, JoinTokenResolves, NoMember
<1>2. TInv /\ UNCHANGED vars => TInv'
  BY DEF TInv, TokenRead, NoRowNoToken, JoinTokenResolves, Nul, vars, tables
<1>3. IInv /\ TInv /\ [Next]_vars => TInv'
  BY <1>2, TokenStep DEF Next, AllDone
<1>4. TInv => JoinTokenResolves BY DEF TInv
<1>5. QED BY <1>1, <1>3, <1>4, Invariance, PTL DEF Spec

=============================================================================
