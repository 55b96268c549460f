--------------------------- MODULE RoomConsoleProofs ---------------------------
(***************************************************************************)
(* Proofs about RoomConsole, and the procedures of RoomAdmin under it, for   *)
(* every number of rooms and calls and whatever policy builder it is given:  *)
(* its types, that the log and the answers account for what was done, and    *)
(* that a tab shows what was done in it.                                    *)
(***************************************************************************)
EXTENDS RoomConsole, FiniteSetTheorems, SequenceTheorems, TLAPS

RowField == DOMAIN NoRow
CallField == DOMAIN NoCall

Used(r) == r \in RoomId /\ rooms[r].slug # Blank

\* Ids are given out in order; a row in the table has a slug.
RowsOK ==
    /\ DOMAIN rooms = RoomId
    /\ \A r \in RoomId : DOMAIN rooms[r] = RowField /\ (rooms[r].live => Used(r))
    /\ \E k \in 0..MaxRooms : \A r \in RoomId : Used(r) <=> r <= k

\* The statements of each procedure.
Statements(op) ==
    CASE op \in {"create", "seed"} -> {"start", "insert", "audit", "answered"}
      [] op \in {"update", "delete"} -> {"start", "write", "audit", "answered"}
      [] op = "broadcast" -> {"start", "audit", "publish", "answered"}
      [] op = "ban" -> {"start", "answered"}
      [] OTHER -> {"idle"}

Recorded(c) == [action |-> call[c].op, room |-> call[c].id, call |-> call[c].no] \in log

\* What a call carries, and where it can be.
CallShape(c) ==
    /\ DOMAIN call[c] = CallField
    /\ call[c].op \in {"none", "create", "seed", "update", "delete", "broadcast", "ban"}
    /\ call[c].at \in Statements(call[c].op)
    /\ call[c].answer \in {"none", "ok", "refused", "failed"}
    /\ (call[c].answer # "none") <=> (call[c].at = "answered")
    /\ call[c].no \in 0..calls /\ (call[c].at # "idle" => call[c].no # 0)
    /\ call[c].rev \in Nat
    /\ call[c].rev <= version[IF call[c].op = "ban" THEN "bans" ELSE "rooms"]
    /\ call[c].op = "create" => DOMAIN call[c].set = RowField /\ call[c].set.slug # Blank
    /\ call[c].op = "update" =>
          /\ "live" \notin DOMAIN call[c].set
          /\ "slug" \in DOMAIN call[c].set =>
                Used(call[c].id) /\ call[c].set.slug = rooms[call[c].id].slug

\* What it has done, as the rooms and the log have it.
CallDone(c) ==
    /\ call[c].op = "ban" \/ call[c].at \in {"write", "audit", "publish"} => Used(call[c].id)
    /\ call[c].op = "delete" /\ call[c].at = "audit" => ~rooms[call[c].id].live
    /\ call[c].at = "publish" => Recorded(c)
    /\ call[c].op # "seed" /\ call[c].answer = "ok" => Recorded(c)

\* The slugs of the rooms a call has logged.
MadeBy(no) == {rooms[e.room].slug : e \in {x \in log : x.call = no}}

\* A seed has dealt with the starters before the ones left.
SeedDone(c) ==
    call[c].op = "seed" =>
        /\ call[c].answer # "refused"
        /\ MadeBy(call[c].no) = call[c].created
        /\ call[c].created \intersect call[c].skipped = {}
        /\ \E k \in 0..Len(Starter) :
              /\ call[c].left = SubSeq(Starter, k + 1, Len(Starter))
              /\ call[c].created \union call[c].skipped = {Starter[i] : i \in 1..k}
        /\ call[c].at \in {"insert", "audit"} => call[c].left # <<>>
        /\ call[c].at = "audit" => rooms[call[c].id].slug = Head(call[c].left)
        /\ call[c].answer = "ok" => call[c].left = <<>>

CallsOK ==
    /\ DOMAIN call = Caller /\ calls \in Nat
    /\ DOMAIN version = {"rooms", "bans"} /\ version.rooms \in Nat /\ version.bans \in Nat
    /\ \A c \in Caller : CallShape(c) /\ CallDone(c) /\ SeedDone(c)
    /\ \A c, d \in Caller : c # d /\ call[c].no = call[d].no => call[c].no = 0

LogOK ==
    /\ \A e \in log : /\ Used(e.room) /\ e.call \in 1..calls
                      /\ e.action = "delete" => ~rooms[e.room].live
    /\ notices \subseteq 1..calls
    /\ \A no \in notices : \E e \in log : e.action = "broadcast" /\ e.call = no

AdminInv == RowsOK /\ CallsOK /\ LogOK

ListedRow(list, r) == list[r].live => Used(r) /\ list[r].slug = rooms[r].slug

ListsOK ==
    /\ tab \in Tab /\ DOMAIN view = View /\ DOMAIN own = View
    /\ \A r \in RoomId : ListedRow(shown, r) /\ ListedRow(reading, r)
    /\ \A v \in View :
          /\ DOMAIN view[v] = {"at", "rev", "loaded"}
          /\ view[v].at \in {"asked", "read", "fresh", "error"}
          /\ view[v].rev \in Nat /\ view[v].rev <= version[Source(v)]
          /\ own[v] \in Nat /\ own[v] <= version[Source(v)]
          /\ view[v].at \in {"read", "fresh"} => view[v].rev >= own[v]

DialogOK ==
    /\ DOMAIN dialog = DOMAIN Closed
    /\ dialog.open => tab = "rooms"
    /\ dialog.edit \in RoomId \union {NoRoom}
    /\ dialog.edit # NoRoom => Used(dialog.edit) /\ dialog.slug = rooms[dialog.edit].slug
    /\ dialog.edit = NoRoom /\ dialog.name # Blank => dialog.slug \in Slug
    /\ dialog.parseError => dialog.open /\ dialog.openPolicy

\* A button asks for what it is for.
Asks(c, op) ==
    CASE c = "save" -> tab = "rooms" /\ op \in {"create", "update"}
      [] c = "remove" -> tab = "rooms" /\ op = "delete"
      [] c = "pin" -> tab = "rooms" /\ op = "update"
      [] c = "seed" -> tab = "rooms" /\ op = "seed"
      [] c = "bans" -> tab = "bans" /\ op = "ban"
      [] c = "members" -> tab = "members" /\ op = "ban"
      [] OTHER -> TRUE

ButtonsOK == \A c \in Caller : call[c].at # "idle" => Asks(c, call[c].op)

ConsoleInv == ListsOK /\ DialogOK /\ ButtonsOK

Inv == AdminInv /\ ConsoleInv

-----------------------------------------------------------------------------
(* Records, rows and calls.                                                 *)

LEMMA Fields ==
    /\ CallField = {"op", "id", "set", "at", "answer", "no", "attempt", "left", "created",
                    "skipped", "rev"}
    /\ RowField = {"live", "name", "slug", "encryption", "password", "pinned", "policy"}
    /\ Blank \notin Slug
BY SlugAssumption DEF CallField, RowField, NoCall, Request, NoRow, RoomRow

\* What Goes does to the calls.
LEMMA GoesTo ==
    ASSUME DOMAIN call = Caller, NEW c \in Caller, DOMAIN call[c] = CallField,
           NEW change, Goes(c, change)
    PROVE  /\ DOMAIN call' = Caller
           /\ \A d \in Caller \ {c} : call'[d] = call[d]
           /\ DOMAIN call'[c] = CallField
           /\ \A f \in CallField :
                 call'[c][f] = IF f \in DOMAIN change THEN change[f] ELSE call[c][f]
BY DEF Goes, With

\* What Commits does: the change and the version it read off.
LEMMA CommitsTo ==
    ASSUME DOMAIN call = Caller, NEW c \in Caller, DOMAIN call[c] = CallField,
           DOMAIN version = {"rooms", "bans"}, NEW what \in {"rooms", "bans"},
           NEW change, "rev" \notin DOMAIN change, Commits(c, what, change)
    PROVE  /\ DOMAIN call' = Caller
           /\ \A d \in Caller \ {c} : call'[d] = call[d]
           /\ DOMAIN call'[c] = CallField
           /\ \A f \in CallField :
                 call'[c][f] = IF f = "rev" THEN version[what] + 1
                               ELSE IF f \in DOMAIN change THEN change[f] ELSE call[c][f]
           /\ DOMAIN version' = {"rooms", "bans"}
           /\ \A w \in {"rooms", "bans"} :
                 version'[w] = IF w = what THEN version[w] + 1 ELSE version[w]
<1> DEFINE rev == [rev |-> version[what] + 1]
<1>1. call' = [call EXCEPT ![c] = With(With(@, change), rev)]
      /\ version' = [version EXCEPT ![what] = @ + 1]
  BY DEF Commits
<1>2. DOMAIN rev = {"rev"} /\ rev["rev"] = version[what] + 1
  OBVIOUS
<1> HIDE DEF rev
<1> QED BY <1>1, <1>2 DEF With

LEMMA StatementsAre ==
    /\ \A op \in {"create", "seed"} : Statements(op) = {"start", "insert", "audit", "answered"}
    /\ \A op \in {"update", "delete"} : Statements(op) = {"start", "write", "audit", "answered"}
    /\ Statements("broadcast") = {"start", "audit", "publish", "answered"}
    /\ Statements("ban") = {"start", "answered"} /\ Statements("none") = {"idle"}
BY DEF Statements

-----------------------------------------------------------------------------
(* What the statements do to the rooms: a slug given out stays with its id,  *)
(* and a deleted room stays deleted.                                        *)

RowsKept ==
    \A r \in RoomId : Used(r) =>
        /\ Used(r)' /\ rooms'[r].slug = rooms[r].slug
        /\ ~rooms[r].live => ~rooms'[r].live

\* The next row goes to the first id never given out.
LEMMA Inserted ==
    ASSUME RowsOK, NEW row, DOMAIN row = RowField, row.slug # Blank, NEW id \in RoomId,
           id = 1 + Cardinality({r \in RoomId : rooms[r].slug # Blank}),
           rooms' = [rooms EXCEPT ![id] = row]
    PROVE  RowsOK' /\ RowsKept /\ Used(id)' /\ rooms'[id].slug = row.slug /\ ~Used(id)
<1>1. PICK k \in 0..MaxRooms : \A r \in RoomId : Used(r) <=> r <= k
  BY DEF RowsOK
<1>2. MaxRooms \in Nat
  BY AdminBoundsAssumption
<1>3. {r \in RoomId : rooms[r].slug # Blank} = 1..k
  BY <1>1, <1>2 DEF Used, RoomId
<1>4. Cardinality(1..k) = k
  BY <1>2, FS_Interval
<1>5. id = k + 1
  <2>1. Cardinality({r \in RoomId : rooms[r].slug # Blank}) = k
    BY <1>3, <1>4, Zenon
  <2>2. id = 1 + k
    BY <2>1, Zenon
  <2> QED BY <1>2, <2>2
<1>6. ~Used(id) /\ id \in DOMAIN rooms
  BY <1>1, <1>2, <1>5 DEF RowsOK, RoomId
<1>7. rooms'[id] = row /\ \A r \in RoomId : r # id => rooms'[r] = rooms[r]
  BY <1>6 DEF RowsOK
<1>8. Used(id)' /\ RowsKept
  BY <1>6, <1>7 DEF RowsKept, Used
<1>9. \A r \in RoomId : Used(r)' <=> r <= k + 1
  BY <1>1, <1>2, <1>5, <1>7, <1>8 DEF RoomId, Used
<1>10. k + 1 \in 0..MaxRooms
  BY <1>2, <1>5 DEF RoomId
<1>11. DOMAIN rooms' = RoomId
  BY DEF RowsOK
<1>12. \A r \in RoomId : DOMAIN rooms'[r] = RowField /\ (rooms'[r].live => Used(r)')
  BY <1>7, <1>8 DEF RowsOK, Used
<1> QED BY <1>6, <1>7, <1>8, <1>9, <1>10, <1>11, <1>12 DEF RowsOK

\* A row written over keeps its slug, and is live as it was or no longer.
LEMMA Rewritten ==
    ASSUME RowsOK, NEW id \in RoomId, Used(id), NEW row, DOMAIN row = RowField,
           row.slug = rooms[id].slug, row.live => rooms[id].live,
           rooms' = [rooms EXCEPT ![id] = row]
    PROVE  RowsOK' /\ RowsKept
<1>1. DOMAIN rooms' = RoomId /\ rooms'[id] = row /\ \A r \in RoomId : r # id => rooms'[r] = rooms[r]
  BY DEF RowsOK
<1>2. \A r \in RoomId : rooms'[r].slug = rooms[r].slug /\ (rooms'[r].live => rooms[r].live)
  BY <1>1
<1>3. \A r \in RoomId : Used(r)' <=> Used(r)
  BY <1>2 DEF Used
<1>4. RowsKept
  BY <1>2, <1>3 DEF RowsKept
<1>5. \A r \in RoomId : DOMAIN rooms'[r] = RowField /\ (rooms'[r].live => Used(r)')
  BY <1>1, <1>2, <1>3 DEF RowsOK
<1> QED BY <1>1, <1>3, <1>4, <1>5 DEF RowsOK

LEMMA Untouched == RowsOK /\ UNCHANGED rooms => RowsOK' /\ RowsKept
BY DEF RowsOK, RowsKept, Used

-----------------------------------------------------------------------------
(* A step of one call leaves what the others have done as it is.            *)

CallOK(c) == CallShape(c) /\ CallDone(c) /\ SeedDone(c)

\* What a step of the call c may do to everything else.
Frame(c) ==
    /\ RowsKept
    /\ log \subseteq log' /\ \A e \in log' : e \in log \/ e.call = call[c].no
    /\ log' = log \/ call[c].no # 0
    /\ DOMAIN version' = {"rooms", "bans"}
    /\ \A w \in {"rooms", "bans"} : version'[w] \in Nat /\ version'[w] >= version[w]
    /\ calls' \in Nat /\ calls' >= calls
    /\ DOMAIN call' = Caller /\ \A d \in Caller \ {c} : call'[d] = call[d]

LEMMA MadeKept ==
    ASSUME LogOK, RowsKept, NEW no, log \subseteq log',
           \A e \in log' : e \in log \/ e.call # no
    PROVE  MadeBy(no)' = MadeBy(no)
<1>1. {x \in log : x.call = no}' = {x \in log : x.call = no}
  OBVIOUS
<1>2. \A e \in {x \in log : x.call = no} : rooms'[e.room].slug = rooms[e.room].slug
  BY DEF LogOK, RowsKept, Used
<1> QED BY <1>1, <1>2 DEF MadeBy

LEMMA OthersKept ==
    ASSUME AdminInv, NEW c \in Caller, Frame(c), NEW d \in Caller \ {c}
    PROVE  CallOK(d)'
<1> USE DEF AdminInv
<1>1. call'[d] = call[d] /\ CallOK(d)
  BY DEF Frame, CallsOK, CallOK
<1>2. CallShape(d)'
  <2>1. DOMAIN version = {"rooms", "bans"} /\ version.rooms \in Nat /\ version.bans \in Nat
    BY DEF CallsOK
  <2>2. call[d].rev <= version'[IF call[d].op = "ban" THEN "bans" ELSE "rooms"]
    BY <1>1, <2>1 DEF CallOK, CallShape, Frame
  <2>3. call[d].no \in 0..calls'
    BY <1>1 DEF CallOK, CallShape, Frame, CallsOK
  <2>4. call[d].op = "update" /\ "slug" \in DOMAIN call[d].set =>
            Used(call[d].id)' /\ call[d].set.slug = rooms'[call[d].id].slug
    BY <1>1 DEF CallOK, CallShape, Frame, RowsKept, Used
  <2> QED BY <1>1, <2>2, <2>3, <2>4 DEF CallOK, CallShape, Used
<1>3. CallDone(d)'
  <2>1. Recorded(d) => Recorded(d)'
    BY <1>1 DEF Recorded, Frame
  <2> QED BY <1>1, <2>1 DEF CallOK, CallDone, Frame, RowsKept, Used
<1>4. SeedDone(d)'
  <2>1. SUFFICES ASSUME call[d].op = "seed" PROVE SeedDone(d)'
    BY <1>1 DEF SeedDone
  <2>2. call[d].no # 0 
    BY <1>1, <2>1 DEF CallOK, CallShape, Statements
  <2>3. log' = log \/ call[c].no # call[d].no
    BY <2>2 DEF Frame, CallsOK
  <2>4. \A e \in log' : e \in log \/ e.call # call[d].no
    BY <2>3 DEF Frame
  <2>5. \A no : (\A e \in log' : e \in log \/ e.call # no) =>
            {rooms'[e.room].slug : e \in {x \in log' : x.call = no}} = MadeBy(no)
    BY MadeKept DEF Frame, MadeBy
  <2>6. MadeBy(call[d].no)' = MadeBy(call[d].no)
    BY <1>1, <2>4, <2>5 DEF MadeBy
  <2>7. call[d].at = "audit" => rooms'[call[d].id].slug = rooms[call[d].id].slug
    BY <1>1 DEF CallOK, CallDone, Frame, RowsKept, Used
  <2> QED BY <1>1, <2>1, <2>6, <2>7 DEF CallOK, SeedDone
<1> QED BY <1>2, <1>3, <1>4 DEF CallOK

-----------------------------------------------------------------------------
(* Statements that leave the store alone.                                   *)

\* What a step of the call c does, the call itself included.
Step(c) ==
    /\ RowsOK' /\ LogOK' /\ Frame(c) /\ CallOK(c)'
    /\ call'[c].no = call[c].no /\ call'[c].op = call[c].op /\ calls' = calls
    /\ call[c].at # "idle"

LEMMA QuietFrame ==
    ASSUME AdminInv, NEW c \in Caller, UNCHANGED <<store, calls>>,
           DOMAIN call' = Caller, \A d \in Caller \ {c} : call'[d] = call[d]
    PROVE  RowsOK' /\ LogOK' /\ Frame(c)
<1>1. RowsOK' /\ RowsKept /\ \A r : Used(r)' <=> Used(r)
  BY Untouched DEF AdminInv, store, Used
<1>2. LogOK'
  BY <1>1 DEF AdminInv, LogOK, store
<1>3. Frame(c)
  BY <1>1 DEF Frame, AdminInv, CallsOK, store
<1> QED BY <1>1, <1>2, <1>3

\* A statement that only moves its call along, or answers it without success.
LEMMA QuietStep ==
    ASSUME AdminInv, NEW c \in Caller, UNCHANGED <<store, calls>>,
           DOMAIN call' = Caller, \A d \in Caller \ {c} : call'[d] = call[d],
           DOMAIN call'[c] = CallField,
           \A f \in CallField \ {"at", "answer", "attempt"} : call'[c][f] = call[c][f],
           call'[c].at \in Statements(call[c].op) \ {"idle", "publish"},
           call'[c].answer \in {"none", "refused", "failed"},
           (call'[c].answer # "none") <=> (call'[c].at = "answered"),
           call'[c].at \in {"write", "audit"} => Used(call[c].id),
           call'[c].at = "audit" => call[c].op \notin {"seed", "delete"},
           call[c].at # "idle",
           call[c].op = "seed" =>
              /\ call'[c].answer # "refused"
              /\ call'[c].at = "insert" => call[c].left # <<>>
    PROVE  Step(c)
<1>1. RowsOK' /\ LogOK' /\ Frame(c)
  BY QuietFrame
<1>2. /\ call'[c].op = call[c].op /\ call'[c].id = call[c].id /\ call'[c].set = call[c].set
      /\ call'[c].no = call[c].no /\ call'[c].rev = call[c].rev /\ call'[c].left = call[c].left
      /\ call'[c].created = call[c].created /\ call'[c].skipped = call[c].skipped
  BY Fields
<1>3. CallOK(c)
  BY DEF AdminInv, CallsOK, CallOK
<1>4. rooms' = rooms /\ log' = log /\ version' = version /\ calls' = calls
  BY DEF store
<1>5. CallShape(c)'
  BY <1>2, <1>3, <1>4 DEF CallOK, CallShape, Used
<1>6. CallDone(c)'
  BY <1>2, <1>3, <1>4 DEF CallOK, CallDone, Used
<1>7. MadeBy(call[c].no)' = MadeBy(call[c].no)
  BY <1>2, <1>4 DEF MadeBy
<1>8. SeedDone(c)'
  BY <1>2, <1>3, <1>4, <1>7 DEF CallOK, SeedDone
<1> QED BY <1>1, <1>2, <1>4, <1>5, <1>6, <1>8 DEF Step, CallOK

LEMMA Moved ==
    ASSUME AdminInv, NEW c \in Caller, UNCHANGED <<store, calls>>, NEW at,
           Goes(c, [at |-> at]), call[c].at \notin {"idle", "answered"}, call[c].op # "seed",
           at \in Statements(call[c].op) \ {"idle", "publish", "answered"},
           at \in {"write", "audit"} => Used(call[c].id),
           at = "audit" => call[c].op # "delete"
    PROVE  Step(c)
<1>1. CallOK(c) /\ DOMAIN call = Caller
  BY DEF AdminInv, CallsOK, CallOK
<1>2. /\ DOMAIN call' = Caller /\ \A d \in Caller \ {c} : call'[d] = call[d]
      /\ DOMAIN call'[c] = CallField
      /\ \A f \in CallField \ {"at", "answer", "attempt"} : call'[c][f] = call[c][f]
      /\ call'[c].at = at /\ call'[c].answer = call[c].answer
  BY <1>1, GoesTo, Fields DEF CallOK, CallShape
<1>3. call[c].answer = "none"
  BY <1>1 DEF CallOK, CallShape
<1> QED BY <1>2, <1>3, QuietStep

LEMMA Refused ==
    ASSUME AdminInv, NEW c \in Caller, UNCHANGED <<store, calls>>,
           NEW what \in {"refused", "failed"}, Answer(c, what), call[c].at # "idle",
           call[c].op = "seed" => what # "refused"
    PROVE  Step(c)
<1>1. CallOK(c) /\ DOMAIN call = Caller
  BY DEF AdminInv, CallsOK, CallOK
<1>2. /\ DOMAIN call' = Caller /\ \A d \in Caller \ {c} : call'[d] = call[d]
      /\ DOMAIN call'[c] = CallField
      /\ \A f \in CallField \ {"at", "answer", "attempt"} : call'[c][f] = call[c][f]
      /\ call'[c].at = "answered" /\ call'[c].answer = what
  BY <1>1, GoesTo, Fields DEF CallOK, CallShape, Answer
<1>3. "answered" \in Statements(call[c].op)
  BY <1>1, StatementsAre DEF CallOK, CallShape
<1> QED BY <1>2, <1>3, QuietStep

\* A row in the table has been given its id.
LEMMA KnownUsed == ASSUME RowsOK, NEW id, Known(id) PROVE Used(id)
BY DEF RowsOK, Known

LEMMA CreateStartOK == ASSUME AdminInv, NEW c \in Caller, CreateStart(c) PROVE Step(c)
<1>1. UNCHANGED <<store, calls>> /\ call[c].op = "create" /\ call[c].at = "start"
  BY DEF CreateStart, Running
<1>2. CASE Goes(c, [at |-> "insert"])
  BY <1>1, <1>2, Moved, StatementsAre
<1>3. CASE Answer(c, "refused")
  BY <1>1, <1>3, Refused
<1> QED BY <1>2, <1>3 DEF CreateStart

LEMMA CollideOK == ASSUME AdminInv, NEW c \in Caller, Collide(c) PROVE Step(c)
<1>1. UNCHANGED <<store, calls>> /\ call[c].at = "insert"
  BY DEF Collide
<1>2. CallOK(c) /\ DOMAIN call = Caller
  BY DEF AdminInv, CallsOK, CallOK
<1>3. CASE Goes(c, [attempt |-> call[c].attempt + 1])
  <2>1. /\ DOMAIN call' = Caller /\ \A d \in Caller \ {c} : call'[d] = call[d]
        /\ DOMAIN call'[c] = CallField
        /\ \A f \in CallField \ {"at", "answer", "attempt"} : call'[c][f] = call[c][f]
        /\ call'[c].at = "insert" /\ call'[c].answer = call[c].answer
    BY <1>1, <1>2, <1>3, GoesTo, Fields DEF CallOK, CallShape
  <2>2. call[c].answer = "none" /\ "insert" \in Statements(call[c].op)
        /\ (call[c].op = "seed" => call[c].left # <<>>)
    BY <1>1, <1>2 DEF CallOK, CallShape, SeedDone
  <2> QED BY <1>1, <2>1, <2>2, QuietStep
<1>4. CASE Answer(c, "failed")
  BY <1>1, <1>4, Refused
<1> QED BY <1>3, <1>4 DEF Collide

LEMMA UpdateReadOK == ASSUME AdminInv, NEW c \in Caller, UpdateRead(c) PROVE Step(c)
<1>1. UNCHANGED <<store, calls>> /\ call[c].op = "update" /\ call[c].at = "start"
  BY DEF UpdateRead, Running
<1>2. CASE Known(call[c].id) /\ Goes(c, [at |-> "write"])
  <2>1. Used(call[c].id)
    BY <1>2, KnownUsed DEF AdminInv
  <2> QED BY <1>1, <1>2, <2>1, Moved, StatementsAre
<1>3. CASE Answer(c, "refused")
  BY <1>1, <1>3, Refused
<1> QED BY <1>2, <1>3 DEF UpdateRead

LEMMA UpdateRefusedOK == ASSUME AdminInv, NEW c \in Caller, UpdateRefused(c) PROVE Step(c)
BY Refused DEF UpdateRefused, Running

LEMMA DeleteFindOK == ASSUME AdminInv, NEW c \in Caller, DeleteFind(c) PROVE Step(c)
<1>1. UNCHANGED <<store, calls>> /\ call[c].op = "delete" /\ call[c].at = "start"
  BY DEF DeleteFind, Running
<1>2. CASE Known(call[c].id) /\ Goes(c, [at |-> "write"])
  <2>1. Used(call[c].id)
    BY <1>2, KnownUsed DEF AdminInv
  <2> QED BY <1>1, <1>2, <2>1, Moved, StatementsAre
<1>3. CASE Answer(c, "refused")
  BY <1>1, <1>3, Refused
<1> QED BY <1>2, <1>3 DEF DeleteFind

LEMMA BroadcastFindOK == ASSUME AdminInv, NEW c \in Caller, BroadcastFind(c) PROVE Step(c)
<1>1. UNCHANGED <<store, calls>> /\ call[c].op = "broadcast" /\ call[c].at = "start"
  BY DEF BroadcastFind, Running
<1>2. CASE Known(call[c].id) /\ Goes(c, [at |-> "audit"])
  <2>1. Used(call[c].id)
    BY <1>2, KnownUsed DEF AdminInv
  <2> QED BY <1>1, <1>2, <2>1, Moved, StatementsAre
<1>3. CASE Answer(c, "refused")
  BY <1>1, <1>3, Refused
<1> QED BY <1>2, <1>3 DEF BroadcastFind

LEMMA ThrowOK == ASSUME AdminInv, NEW c \in Caller, Throw(c) PROVE Step(c)
BY Refused DEF Throw

-----------------------------------------------------------------------------
(* The seed's loop.                                                         *)

\* What is left after k starters, and after one more.
LEMMA Remaining ==
    ASSUME NEW k \in 0..Len(Starter), NEW left, left = SubSeq(Starter, k + 1, Len(Starter))
    PROVE  /\ left = <<>> <=> k = Len(Starter)
           /\ left # <<>> =>
                /\ k + 1 \in 0..Len(Starter)
                /\ Tail(left) = SubSeq(Starter, (k + 1) + 1, Len(Starter))
                /\ Head(left) \in Slug \ {Starter[i] : i \in 1..k}
                /\ {Starter[i] : i \in 1..(k + 1)} = {Starter[i] : i \in 1..k} \union {Head(left)}
<1>1. Starter \in Seq(Slug) /\ Len(Starter) \in Nat /\ DOMAIN Starter = 1..Len(Starter)
  BY StarterAssumption, LenProperties
<1>2. /\ left \in Seq(Slug)
      /\ Len(left) = IF k + 1 <= Len(Starter) THEN Len(Starter) - k ELSE 0
      /\ \A i \in 1..Len(left) : left[i] = Starter[k + i]
  <2>1. left = [i \in 1..(Len(Starter) - k) |-> Starter[k + i]]
    BY <1>1, SMT
  <2> QED BY <1>1, <2>1, SMT
<1>3. left = <<>> <=> k = Len(Starter)
  <2> DEFINE n == Len(Starter)
             m == Len(left)
  <2>0. n \in Nat /\ k \in 0..n /\ m = IF k + 1 <= n THEN n - k ELSE 0
    BY <1>1, <1>2, Zenon
  <2>1. Len(left) = 0 <=> k = Len(Starter)
    <3> HIDE DEF n, m
    <3>1. m = 0 <=> k = n
      BY <2>0
    <3> QED BY <3>1 DEF n, m
  <2>2. left = <<>> <=> Len(left) = 0
    BY <1>2, EmptySeq
  <2> QED BY <2>1, <2>2
<1>4. ASSUME left # <<>>
      PROVE  /\ k + 1 \in 0..Len(Starter) /\ Head(left) = Starter[k + 1]
             /\ Tail(left) = SubSeq(Starter, (k + 1) + 1, Len(Starter))
  <2>1. k + 1 \in 0..Len(Starter)
    <3>1. k # Len(Starter)
      BY <1>3, <1>4, Zenon
    <3> DEFINE n == Len(Starter)
    <3>2. n \in Nat /\ k \in 0..n /\ k # n
      BY <1>1, <3>1, Zenon
    <3>3. k + 1 \in 0..n
      <4> HIDE DEF n
      <4> QED BY <3>2
    <3> QED BY <3>3
  <2>2. Head(left) = Starter[k + 1]
    BY <1>1, <1>2, <2>1
  <2>3. Tail(left) = SubSeq(Starter, (k + 1) + 1, Len(Starter))
    BY <1>1, <1>2, <2>1, SMT
  <2> QED BY <2>1, <2>2, <2>3
<1>5. ASSUME left # <<>> PROVE Starter[k + 1] \in Slug \ {Starter[i] : i \in 1..k}
  <2>1. k \in Nat /\ k + 1 \in DOMAIN Starter /\ \A i \in 1..k : i \in DOMAIN Starter /\ i # k + 1
    BY <1>1, <1>4, <1>5
  <2>2. Starter[k + 1] \in Slug
    BY <1>1, <2>1
  <2>3. \A i \in 1..k : Starter[i] # Starter[k + 1]
    BY <2>1, StarterAssumption, Zenon
  <2> QED BY <2>2, <2>3
<1>6. {Starter[i] : i \in 1..(k + 1)} = {Starter[i] : i \in 1..k} \union {Starter[k + 1]}
  BY <1>1
<1> QED BY <1>3, <1>4, <1>5, <1>6

\* A starter that is there is skipped.
LEMMA Skipped ==
    ASSUME AdminInv, NEW c \in Caller, UNCHANGED <<store, calls>>,
           call[c].op = "seed", call[c].at \in {"start", "insert"}, call[c].left # <<>>,
           DOMAIN call' = Caller, \A d \in Caller \ {c} : call'[d] = call[d],
           DOMAIN call'[c] = CallField,
           \A f \in CallField \ {"at", "left", "skipped"} : call'[c][f] = call[c][f],
           call'[c].at = "start", call'[c].left = Tail(call[c].left),
           call'[c].skipped = call[c].skipped \union {Head(call[c].left)}
    PROVE  Step(c)
<1>1. RowsOK' /\ LogOK' /\ Frame(c)
  BY QuietFrame
<1>2. /\ call'[c].op = call[c].op /\ call'[c].id = call[c].id /\ call'[c].set = call[c].set
      /\ call'[c].no = call[c].no /\ call'[c].rev = call[c].rev
      /\ call'[c].created = call[c].created /\ call'[c].answer = call[c].answer
  BY Fields
<1>3. CallOK(c)
  BY DEF AdminInv, CallsOK, CallOK
<1>4. rooms' = rooms /\ log' = log /\ version' = version /\ calls' = calls
  BY DEF store
<1>5. CallShape(c)'
  BY <1>2, <1>3, <1>4, StatementsAre DEF CallOK, CallShape
<1>6. CallDone(c)'
  BY <1>2, <1>3, <1>4 DEF CallOK, CallDone
<1>7. MadeBy(call[c].no)' = MadeBy(call[c].no)
  BY <1>2, <1>4 DEF MadeBy
<1>8. SeedDone(c)'
  <2>1. PICK k \in 0..Len(Starter) :
            /\ call[c].left = SubSeq(Starter, k + 1, Len(Starter))
            /\ call[c].created \union call[c].skipped = {Starter[i] : i \in 1..k}
    BY <1>3 DEF CallOK, SeedDone
  <2>2. /\ k + 1 \in 0..Len(Starter)
        /\ call'[c].left = SubSeq(Starter, (k + 1) + 1, Len(Starter))
        /\ Head(call[c].left) \notin call[c].created
        /\ {Starter[i] : i \in 1..(k + 1)}
              = call[c].created \union call[c].skipped \union {Head(call[c].left)}
    BY <2>1, Remaining
  <2>3. call[c].created \intersect call[c].skipped = {} /\ call[c].answer = "none"
        /\ MadeBy(call[c].no) = call[c].created
    BY <1>3 DEF CallOK, CallShape, SeedDone
  <2>4. call'[c].created \intersect call'[c].skipped = {}
    BY <1>2, <2>2, <2>3
  <2>5. call'[c].created \union call'[c].skipped = {Starter[i] : i \in 1..(k + 1)}
    BY <1>2, <2>2
  <2> QED BY <1>2, <1>7, <2>2, <2>3, <2>4, <2>5 DEF SeedDone
<1> QED BY <1>1, <1>2, <1>4, <1>5, <1>6, <1>8 DEF Step, CallOK

LEMMA SeedFindOK == ASSUME AdminInv, NEW c \in Caller, SeedFind(c) PROVE Step(c)
<1>1. UNCHANGED <<store, calls>> /\ call[c].op = "seed" /\ call[c].at = "start"
  BY DEF SeedFind, Running
<1>2. CallOK(c) /\ DOMAIN call = Caller /\ DOMAIN call[c] = CallField /\ call[c].answer = "none"
  BY <1>1 DEF AdminInv, CallsOK, CallOK, CallShape
<1>3. CASE call[c].left = <<>> /\ Answer(c, "ok")
  <2>1. /\ DOMAIN call' = Caller /\ \A d \in Caller \ {c} : call'[d] = call[d]
        /\ DOMAIN call'[c] = CallField
        /\ \A f \in CallField \ {"at", "answer"} : call'[c][f] = call[c][f]
        /\ call'[c].at = "answered" /\ call'[c].answer = "ok"
    BY <1>2, <1>3, GoesTo, Fields DEF Answer
  <2>2. RowsOK' /\ LogOK' /\ Frame(c)
    BY <1>1, <2>1, QuietFrame
  <2>3. /\ call'[c].op = "seed" /\ call'[c].id = call[c].id /\ call'[c].set = call[c].set
        /\ call'[c].no = call[c].no /\ call'[c].rev = call[c].rev /\ call'[c].left = call[c].left
        /\ call'[c].created = call[c].created /\ call'[c].skipped = call[c].skipped
    BY <1>1, <2>1, Fields
  <2>4. rooms' = rooms /\ log' = log /\ version' = version /\ calls' = calls
    BY <1>1 DEF store
  <2>5. CallShape(c)'
    BY <1>1, <1>2, <2>1, <2>3, <2>4, StatementsAre DEF CallOK, CallShape
  <2>6. CallDone(c)'
    BY <1>1, <2>1, <2>3 DEF CallDone
  <2>7. MadeBy(call[c].no)' = MadeBy(call[c].no)
    BY <2>3, <2>4 DEF MadeBy
  <2>8. SeedDone(c)'
    BY <1>1, <1>2, <1>3, <2>1, <2>3, <2>4, <2>7 DEF CallOK, SeedDone
  <2> QED BY <1>1, <2>2, <2>3, <2>4, <2>5, <2>6, <2>8 DEF Step, CallOK
<1>4. CASE /\ call[c].left # <<>>
           /\ Goes(c, [left |-> Tail(call[c].left),
                       skipped |-> call[c].skipped \union {Head(call[c].left)}])
  <2>1. /\ DOMAIN call' = Caller /\ \A d \in Caller \ {c} : call'[d] = call[d]
        /\ DOMAIN call'[c] = CallField
        /\ \A f \in CallField \ {"at", "left", "skipped"} : call'[c][f] = call[c][f]
        /\ call'[c].at = call[c].at /\ call'[c].left = Tail(call[c].left)
        /\ call'[c].skipped = call[c].skipped \union {Head(call[c].left)}
    <3> DEFINE change == [left |-> Tail(call[c].left),
                          skipped |-> call[c].skipped \union {Head(call[c].left)}]
    <3>1. /\ DOMAIN change = {"left", "skipped"} /\ change["left"] = Tail(call[c].left)
          /\ change["skipped"] = call[c].skipped \union {Head(call[c].left)}
      OBVIOUS
    <3>2. Goes(c, change)
      BY <1>4
    <3> HIDE DEF change
    <3>3. /\ DOMAIN call' = Caller /\ \A d \in Caller \ {c} : call'[d] = call[d]
          /\ DOMAIN call'[c] = CallField
          /\ \A f \in CallField :
                call'[c][f] = IF f \in DOMAIN change THEN change[f] ELSE call[c][f]
      BY <1>2, <3>2, GoesTo
    <3>4. \A f \in CallField \ {"left", "skipped"} : call'[c][f] = call[c][f]
      BY <3>1, <3>3
    <3>5. call'[c]["left"] = change["left"] /\ call'[c]["skipped"] = change["skipped"]
          /\ call'[c]["at"] = call[c]["at"]
      BY <3>1, <3>3, <3>4, Fields
    <3> QED BY <3>1, <3>3, <3>4, <3>5
  <2> QED BY <1>1, <1>4, <2>1, Skipped
<1>5. CASE call[c].left # <<>> /\ Goes(c, [at |-> "insert", attempt |-> 1])
  <2>1. /\ DOMAIN call' = Caller /\ \A d \in Caller \ {c} : call'[d] = call[d]
        /\ DOMAIN call'[c] = CallField
        /\ \A f \in CallField \ {"at", "answer", "attempt"} : call'[c][f] = call[c][f]
        /\ call'[c].at = "insert" /\ call'[c].answer = call[c].answer
    BY <1>2, <1>5, GoesTo, Fields
  <2> QED BY <1>1, <1>2, <1>5, <2>1, QuietStep, StatementsAre
<1> QED BY <1>3, <1>4, <1>5 DEF SeedFind

-----------------------------------------------------------------------------
(* Statements that change the rooms.                                        *)

\* The log and the notices stay true as long as the slugs stay.
LEMMA LogStays ==
    ASSUME LogOK, RowsKept, UNCHANGED <<log, notices, calls>> PROVE LogOK'
BY DEF LogOK, RowsKept, Used

\* A statement of a call on the rooms that leads to its audit row.
LEMMA RoomsWritten ==
    ASSUME AdminInv, NEW c \in Caller, NEW id \in RoomId, RowsOK', RowsKept, UNCHANGED <<log, notices, calls>>,
           call[c].op \in {"create", "seed", "update", "delete"}, call[c].at \notin {"idle", "answered"},
           DOMAIN call' = Caller, \A d \in Caller \ {c} : call'[d] = call[d],
           DOMAIN call'[c] = CallField,
           \A f \in CallField \ {"at", "id", "rev"} : call'[c][f] = call[c][f],
           call'[c].at = "audit", call'[c].rev = version.rooms + 1,
           DOMAIN version' = {"rooms", "bans"},
           version'.rooms = version.rooms + 1, version'.bans = version.bans,
           call'[c].id = id, Used(id)', call[c].op = "update" => id = call[c].id,
           call[c].op = "delete" => ~rooms'[id].live,
           call[c].op = "seed" => /\ call[c].left # <<>>
                                  /\ rooms'[id].slug = Head(call[c].left)
    PROVE  Step(c)
<1>1. /\ call'[c].op = call[c].op /\ call'[c].set = call[c].set /\ call'[c].left = call[c].left
      /\ call'[c].no = call[c].no /\ call'[c].answer = call[c].answer
      /\ call'[c].created = call[c].created /\ call'[c].skipped = call[c].skipped
  BY Fields
<1>2. CallOK(c) /\ version.rooms \in Nat /\ version.bans \in Nat /\ calls \in Nat
  BY DEF AdminInv, CallsOK, CallOK
<1>3. LogOK'
  BY LogStays DEF AdminInv
<1>4. Frame(c)
  BY <1>2 DEF Frame
<1>5. CallShape(c)'
  <2>1. call'[c].at \in Statements(call'[c].op)
    BY <1>1, StatementsAre
  <2>2. call[c].answer = "none"
    BY <1>2 DEF CallOK, CallShape
  <2>3. call'[c].rev <= version'[IF call'[c].op = "ban" THEN "bans" ELSE "rooms"] /\ call'[c].rev \in Nat
    BY <1>1, <1>2
  <2>4. call'[c].op = "update" =>
          /\ "live" \notin DOMAIN call'[c].set
          /\ "slug" \in DOMAIN call'[c].set =>
                rooms'[call'[c].id].slug # Blank /\ call'[c].id \in RoomId /\ call'[c].set.slug = rooms'[call'[c].id].slug
    BY <1>1, <1>2 DEF CallOK, CallShape, RowsKept, Used
  <2> QED BY <1>1, <1>2, <2>1, <2>2, <2>3, <2>4 DEF CallOK, CallShape, Used
<1>6. CallDone(c)'
  <2>1. call[c].answer = "none"
    BY <1>2 DEF CallOK, CallShape
  <2> QED BY <1>1, <2>1 DEF CallDone, Used, Recorded
<1>7. SeedDone(c)'
  <2>1. MadeBy(call[c].no)' = MadeBy(call[c].no)
    <3>1. \A e \in log : rooms'[e.room].slug = rooms[e.room].slug
      BY DEF AdminInv, LogOK, RowsKept, Used
    <3>2. log' = log /\ call'[c].no = call[c].no
      BY <1>1
    <3> QED BY <3>1, <3>2 DEF MadeBy
  <2> QED BY <1>1, <1>2, <2>1 DEF CallOK, SeedDone, CallShape
<1> QED BY <1>1, <1>3, <1>4, <1>5, <1>6, <1>7 DEF Step, CallOK

LEMMA InsertRowOK ==
    ASSUME AdminInv, NEW c \in Caller, call[c].op \in {"create", "seed"}, call[c].at = "insert",
           NEW row, DOMAIN row = RowField, row.slug # Blank, InsertRow(c, row),
           call[c].op = "seed" => call[c].left # <<>> /\ row.slug = Head(call[c].left)
    PROVE  Step(c)
<1>1. CallOK(c) /\ DOMAIN call = Caller /\ DOMAIN call[c] = CallField
      /\ DOMAIN version = {"rooms", "bans"}
  BY DEF AdminInv, CallsOK, CallOK, CallShape
<1>2. PICK id \in RoomId :
        /\ id = 1 + Cardinality({r \in RoomId : rooms[r].slug # Blank})
        /\ rooms' = [rooms EXCEPT ![id] = row]
        /\ Commits(c, "rooms", [at |-> "audit", id |-> id])
  BY DEF InsertRow
<1>3. RowsOK' /\ RowsKept /\ Used(id)' /\ rooms'[id].slug = row.slug
  BY <1>2, Inserted DEF AdminInv
<1>4. /\ DOMAIN call' = Caller /\ \A d \in Caller \ {c} : call'[d] = call[d]
      /\ DOMAIN call'[c] = CallField
      /\ \A f \in CallField \ {"at", "id", "rev"} : call'[c][f] = call[c][f]
      /\ call'[c].at = "audit" /\ call'[c].id = id /\ call'[c].rev = version.rooms + 1
      /\ DOMAIN version' = {"rooms", "bans"}
      /\ version'.rooms = version.rooms + 1 /\ version'.bans = version.bans
  BY <1>1, <1>2, CommitsTo, Fields
<1>5. UNCHANGED <<log, notices, calls>>
  BY DEF InsertRow
<1> QED BY <1>3, <1>4, <1>5, RoomsWritten

LEMMA CreateInsertOK == ASSUME AdminInv, NEW c \in Caller, CreateInsert(c) PROVE Step(c)
<1>1. call[c].op = "create" /\ call[c].at = "insert"
  BY DEF CreateInsert, Running
<1>2. CASE InsertRow(c, call[c].set)
  <2>1. DOMAIN call[c].set = RowField /\ call[c].set.slug # Blank
    BY <1>1 DEF AdminInv, CallsOK, CallShape
  <2> QED BY <1>1, <1>2, <2>1, InsertRowOK
<1>3. CASE Answer(c, "refused") /\ UNCHANGED <<store, calls, events>>
  BY <1>1, <1>3, Refused
<1> QED BY <1>2, <1>3 DEF CreateInsert

LEMMA SeedInsertOK == ASSUME AdminInv, NEW c \in Caller, SeedInsert(c) PROVE Step(c)
<1>1. call[c].op = "seed" /\ call[c].at = "insert"
  BY DEF SeedInsert, Running
<1>2. CallOK(c) /\ DOMAIN call = Caller /\ DOMAIN call[c] = CallField /\ call[c].left # <<>>
  BY <1>1 DEF AdminInv, CallsOK, CallOK, CallShape, SeedDone
<1>3. CASE InsertRow(c, StarterRow(Head(call[c].left)))
  <2> DEFINE row == StarterRow(Head(call[c].left))
  <2>1. PICK k \in 0..Len(Starter) : call[c].left = SubSeq(Starter, k + 1, Len(Starter))
    BY <1>1, <1>2 DEF CallOK, SeedDone
  <2>2. Head(call[c].left) # Blank
    <3>1. Head(call[c].left) \in Slug
      <4> DEFINE left == call[c].left
      <4>1. left = SubSeq(Starter, k + 1, Len(Starter)) /\ left # <<>>
        BY <1>2, <2>1, Zenon
      <4> HIDE DEF left
      <4>2. Head(left) \in Slug
        BY <4>1, Remaining, Zenon
      <4> QED BY <4>2 DEF left
    <3> QED BY <3>1, SlugAssumption
  <2>3. DOMAIN row = RowField /\ row.slug = Head(call[c].left)
    BY Fields DEF StarterRow, RoomRow
  <2> HIDE DEF row
  <2>4. InsertRow(c, row)
    BY <1>3 DEF row
  <2> QED BY <1>1, <1>2, <2>2, <2>3, <2>4, InsertRowOK
<1>4. CASE LostRace(c) /\ UNCHANGED <<store, calls, events>>
  <2> DEFINE change == [at |-> "start", left |-> Tail(call[c].left),
                        skipped |-> call[c].skipped \union {Head(call[c].left)}]
  <2>1. /\ DOMAIN change = {"at", "left", "skipped"} /\ change["left"] = Tail(call[c].left)
        /\ change["at"] = "start"
        /\ change["skipped"] = call[c].skipped \union {Head(call[c].left)}
    OBVIOUS
  <2>2. Goes(c, change)
    BY <1>4 DEF LostRace
  <2> HIDE DEF change
  <2>3. /\ DOMAIN call' = Caller /\ \A d \in Caller \ {c} : call'[d] = call[d]
        /\ DOMAIN call'[c] = CallField
        /\ \A f \in CallField :
              call'[c][f] = IF f \in DOMAIN change THEN change[f] ELSE call[c][f]
    BY <1>2, <2>2, GoesTo
  <2>4. \A f \in CallField \ {"at", "left", "skipped"} : call'[c][f] = call[c][f]
    BY <2>1, <2>3
  <2>5. call'[c]["left"] = change["left"] /\ call'[c]["skipped"] = change["skipped"]
        /\ call'[c]["at"] = change["at"]
    BY <2>1, <2>3, Fields
  <2>6. call'[c].at = "start" /\ call'[c].left = Tail(call[c].left)
        /\ call'[c].skipped = call[c].skipped \union {Head(call[c].left)}
    BY <2>1, <2>5
  <2> QED BY <1>1, <1>2, <1>4, <2>3, <2>4, <2>6, Skipped
<1> QED BY <1>3, <1>4 DEF SeedInsert

LEMMA UpdateWriteOK == ASSUME AdminInv, NEW c \in Caller, UpdateWrite(c) PROVE Step(c)
<1>1. /\ call[c].op = "update" /\ call[c].at = "write" /\ UNCHANGED <<log, notices, calls>>
      /\ CallOK(c) /\ DOMAIN call = Caller /\ DOMAIN call[c] = CallField
      /\ DOMAIN version = {"rooms", "bans"}
  BY DEF AdminInv, CallsOK, CallOK, CallShape, UpdateWrite, Running
<1> DEFINE id == call[c].id
           row == With(rooms[id], call[c].set)
<1>2. CASE Known(id) /\ rooms' = [rooms EXCEPT ![id] = row] /\ Commits(c, "rooms", [at |-> "audit"])
  <2>1. id \in RoomId /\ Used(id) /\ DOMAIN rooms[id] = RowField
    BY <1>2, KnownUsed DEF AdminInv, RowsOK, Known
  <2>2. /\ "live" \notin DOMAIN call[c].set
        /\ "slug" \in DOMAIN call[c].set => call[c].set.slug = rooms[id].slug
    BY <1>1 DEF CallOK, CallShape
  <2>3. DOMAIN row = RowField /\ row.slug = rooms[id].slug /\ row.live = rooms[id].live
    BY <2>1, <2>2, Fields DEF With
  <2> HIDE DEF row
  <2>4. RowsOK' /\ RowsKept
    <3> HIDE DEF id
    <3> QED BY <1>2, <2>1, <2>3, Rewritten DEF AdminInv
  <2>5. /\ DOMAIN call' = Caller /\ \A d \in Caller \ {c} : call'[d] = call[d]
        /\ DOMAIN call'[c] = CallField
        /\ \A f \in CallField \ {"at", "id", "rev"} : call'[c][f] = call[c][f]
        /\ call'[c].at = "audit" /\ call'[c].id = id /\ call'[c].rev = version.rooms + 1
        /\ DOMAIN version' = {"rooms", "bans"}
        /\ version'.rooms = version.rooms + 1 /\ version'.bans = version.bans
    BY <1>1, <1>2, CommitsTo, Fields
  <2>6. \A r \in RoomId : Used(r) => Used(r)'
    BY <2>4 DEF RowsKept
  <2> QED BY <1>1, <2>1, <2>4, <2>5, <2>6, RoomsWritten
<1>3. CASE Answer(c, "failed") /\ UNCHANGED <<rooms, version>>
  BY <1>1, <1>3, Refused DEF store
<1> QED BY <1>2, <1>3 DEF UpdateWrite

LEMMA DeleteRowOK == ASSUME AdminInv, NEW c \in Caller, DeleteRow(c) PROVE Step(c)
<1>1. /\ call[c].op = "delete" /\ call[c].at = "write" /\ UNCHANGED <<log, notices, calls>>
      /\ CallOK(c) /\ DOMAIN call = Caller /\ DOMAIN call[c] = CallField
      /\ DOMAIN version = {"rooms", "bans"}
  BY DEF AdminInv, CallsOK, CallOK, CallShape, DeleteRow, Running
<1> DEFINE id == call[c].id
           row == [rooms[id] EXCEPT !.live = FALSE]
<1>2. CASE /\ Known(id) /\ rooms' = [rooms EXCEPT ![id].live = FALSE]
           /\ Commits(c, "rooms", [at |-> "audit"])
  <2>1. id \in RoomId /\ Used(id) /\ DOMAIN rooms[id] = RowField /\ DOMAIN rooms = RoomId
    BY <1>2, KnownUsed DEF AdminInv, RowsOK, Known
  <2>2. DOMAIN row = RowField /\ row.slug = rooms[id].slug /\ row.live = FALSE
    BY <2>1, Fields
  <2>3. rooms' = [rooms EXCEPT ![id] = row]
    BY <1>2
  <2> HIDE DEF row
  <2>4. RowsOK' /\ RowsKept
    <3> HIDE DEF id
    <3> QED BY <2>1, <2>2, <2>3, Rewritten DEF AdminInv
  <2>5. /\ DOMAIN call' = Caller /\ \A d \in Caller \ {c} : call'[d] = call[d]
        /\ DOMAIN call'[c] = CallField
        /\ \A f \in CallField \ {"at", "id", "rev"} : call'[c][f] = call[c][f]
        /\ call'[c].at = "audit" /\ call'[c].id = id /\ call'[c].rev = version.rooms + 1
        /\ DOMAIN version' = {"rooms", "bans"}
        /\ version'.rooms = version.rooms + 1 /\ version'.bans = version.bans
    BY <1>1, <1>2, CommitsTo, Fields
  <2>6. \A r \in RoomId : Used(r) => Used(r)'
    BY <2>4 DEF RowsKept
  <2>7. ~rooms'[id].live
    BY <2>1, <2>2, <2>3
  <2> QED BY <1>1, <2>1, <2>4, <2>5, <2>6, <2>7, RoomsWritten
<1>3. CASE Answer(c, "failed") /\ UNCHANGED <<rooms, version>>
  BY <1>1, <1>3, Refused DEF store
<1> QED BY <1>2, <1>3 DEF DeleteRow

-----------------------------------------------------------------------------
(* Statements that write the log and the notices.                           *)

LEMMA PublishOK == ASSUME AdminInv, NEW c \in Caller, Publish(c) PROVE Step(c)
<1>1. /\ call[c].op = "broadcast" /\ call[c].at = "publish" /\ UNCHANGED <<rooms, log, version, calls>>
      /\ CallOK(c) /\ DOMAIN call = Caller /\ DOMAIN call[c] = CallField
      /\ notices' = notices \union {call[c].no}
  BY DEF AdminInv, CallsOK, CallOK, CallShape, Publish, Running
<1>2. /\ DOMAIN call' = Caller /\ \A d \in Caller \ {c} : call'[d] = call[d]
      /\ DOMAIN call'[c] = CallField
      /\ \A f \in CallField \ {"at", "answer"} : call'[c][f] = call[c][f]
      /\ call'[c].at = "answered" /\ call'[c].answer = "ok"
  BY <1>1, GoesTo, Fields DEF Answer, Publish
<1>3. /\ call'[c].op = "broadcast" /\ call'[c].id = call[c].id /\ call'[c].no = call[c].no
      /\ call'[c].rev = call[c].rev
  BY <1>1, <1>2, Fields
<1>4. RowsOK' /\ RowsKept
  BY <1>1, Untouched DEF AdminInv
<1>5. Recorded(c) /\ call[c].no \in 1..calls /\ calls \in Nat
  BY <1>1 DEF CallOK, CallDone, CallShape, AdminInv, CallsOK
<1>6. LogOK'
  <2>1. \E e \in log : e.action = "broadcast" /\ e.call = call[c].no
    BY <1>1, <1>5 DEF Recorded
  <2> QED BY <1>1, <1>5, <2>1 DEF LogOK, AdminInv, Used
<1>7. Frame(c)
  BY <1>1, <1>2, <1>4 DEF Frame, AdminInv, CallsOK
<1>8. CallShape(c)'
  BY <1>1, <1>2, <1>3, StatementsAre DEF CallOK, CallShape
<1>9. CallDone(c)'
  BY <1>1, <1>2, <1>3, <1>5 DEF CallDone, Recorded
<1>10. SeedDone(c)'
  BY <1>3 DEF SeedDone
<1> QED BY <1>1, <1>3, <1>4, <1>6, <1>7, <1>8, <1>9, <1>10 DEF Step, CallOK

\* A row of the log, written by the call itself, of a room that is there.
LEMMA Logs ==
    ASSUME AdminInv, NEW c \in Caller, UNCHANGED <<rooms, notices, calls>>,
           call[c].at \notin {"idle", "answered"}, Used(call[c].id),
           call[c].op = "delete" => ~rooms[call[c].id].live,
           log' = log \union {[action |-> call[c].op, room |-> call[c].id, call |-> call[c].no]},
           DOMAIN version' = {"rooms", "bans"},
           \A w \in {"rooms", "bans"} : version'[w] \in Nat /\ version'[w] >= version[w],
           DOMAIN call' = Caller, \A d \in Caller \ {c} : call'[d] = call[d]
    PROVE  /\ RowsOK' /\ LogOK' /\ Frame(c)
           /\ [action |-> call[c].op, room |-> call[c].id, call |-> call[c].no] \in log'
           /\ {rooms'[e.room].slug : e \in {x \in log' : x.call = call[c].no}}
                = MadeBy(call[c].no) \union {rooms[call[c].id].slug}
<1> DEFINE entry == [action |-> call[c].op, room |-> call[c].id, call |-> call[c].no]
<1>1. entry.action = call[c].op /\ entry.room = call[c].id /\ entry.call = call[c].no
      /\ log' = log \union {entry}
  OBVIOUS
<1> HIDE DEF entry
<1>2. RowsOK' /\ RowsKept
  BY Untouched DEF AdminInv
<1>3. call[c].no \in 1..calls /\ calls \in Nat
  BY DEF AdminInv, CallsOK, CallShape
<1>4. LogOK'
  BY <1>1, <1>3 DEF AdminInv, LogOK, Used
<1>5. Frame(c)
  BY <1>1, <1>2, <1>3 DEF Frame
<1>6. entry \in log'
  BY <1>1
<1>7. {rooms'[e.room].slug : e \in {x \in log' : x.call = call[c].no}}
        = MadeBy(call[c].no) \union {rooms[call[c].id].slug}
  BY <1>1 DEF MadeBy
<1> QED BY <1>2, <1>4, <1>5, <1>6, <1>7 DEF entry

LEMMA BanOK == ASSUME AdminInv, NEW c \in Caller, Ban(c) PROVE Step(c)
<1>1. /\ call[c].op = "ban" /\ call[c].at = "start" /\ UNCHANGED <<rooms, notices, calls>>
      /\ CallOK(c) /\ DOMAIN call = Caller /\ DOMAIN call[c] = CallField
      /\ DOMAIN version = {"rooms", "bans"} /\ version.rooms \in Nat /\ version.bans \in Nat
      /\ Used(call[c].id)
  BY DEF AdminInv, CallsOK, CallOK, CallShape, CallDone, Ban, Running
<1>2. log' = log \union {[action |-> call[c].op, room |-> call[c].id, call |-> call[c].no]}
  BY <1>1 DEF Ban
<1>3. /\ DOMAIN call' = Caller /\ \A d \in Caller \ {c} : call'[d] = call[d]
      /\ DOMAIN call'[c] = CallField
      /\ \A f \in CallField \ {"at", "answer", "rev"} : call'[c][f] = call[c][f]
      /\ call'[c].at = "answered" /\ call'[c].answer = "ok" /\ call'[c].rev = version.bans + 1
      /\ DOMAIN version' = {"rooms", "bans"}
      /\ version'.bans = version.bans + 1 /\ version'.rooms = version.rooms
  BY <1>1, CommitsTo, Fields DEF Ban
<1>4. /\ RowsOK' /\ LogOK' /\ Frame(c)
      /\ [action |-> call[c].op, room |-> call[c].id, call |-> call[c].no] \in log'
  BY <1>1, <1>2, <1>3, Logs
<1>5. /\ call'[c].op = "ban" /\ call'[c].id = call[c].id /\ call'[c].no = call[c].no
  BY <1>1, <1>3, Fields
<1>6. CallShape(c)'
  BY <1>1, <1>3, <1>5, StatementsAre DEF CallOK, CallShape
<1>7. CallDone(c)'
  BY <1>1, <1>3, <1>4, <1>5 DEF CallDone, Recorded, Used
<1>8. SeedDone(c)'
  BY <1>5 DEF SeedDone
<1> QED BY <1>1, <1>4, <1>5, <1>6, <1>7, <1>8 DEF Step, CallOK

LEMMA AuditOK == ASSUME AdminInv, NEW c \in Caller, Audit(c) PROVE Step(c)
<1> DEFINE op == call[c].op
<1>1. /\ call[c].at = "audit" /\ UNCHANGED <<rooms, notices, version, calls>>
      /\ CallOK(c) /\ DOMAIN call = Caller /\ DOMAIN call[c] = CallField
      /\ DOMAIN version = {"rooms", "bans"} /\ version.rooms \in Nat /\ version.bans \in Nat
      /\ Used(call[c].id) /\ (op = "delete" => ~rooms[call[c].id].live)
      /\ call[c].answer = "none"
      /\ log' = log \union {[action |-> op, room |-> call[c].id, call |-> call[c].no]}
  BY DEF AdminInv, CallsOK, CallOK, CallShape, CallDone, Audit
<1>2. op \in {"create", "update", "delete", "broadcast", "seed"}
  BY <1>1, StatementsAre DEF CallOK, CallShape
<1>3. ASSUME DOMAIN call' = Caller, \A d \in Caller \ {c} : call'[d] = call[d]
      PROVE  /\ RowsOK' /\ LogOK' /\ Frame(c)
             /\ [action |-> op, room |-> call[c].id, call |-> call[c].no] \in log'
             /\ {rooms'[e.room].slug : e \in {x \in log' : x.call = call[c].no}}
                  = MadeBy(call[c].no) \union {rooms[call[c].id].slug}
  BY <1>1, <1>3, Logs
<1>4. CASE op = "seed"
  <2> DEFINE change == [at |-> "start", left |-> Tail(call[c].left),
                        created |-> call[c].created \union {Head(call[c].left)}]
  <2>1. /\ DOMAIN change = {"at", "left", "created"} /\ change["left"] = Tail(call[c].left)
        /\ change["at"] = "start"
        /\ change["created"] = call[c].created \union {Head(call[c].left)}
    OBVIOUS
  <2>2. Goes(c, change)
    BY <1>4 DEF Audit
  <2> HIDE DEF change
  <2>3. /\ DOMAIN call' = Caller /\ \A d \in Caller \ {c} : call'[d] = call[d]
        /\ DOMAIN call'[c] = CallField
        /\ \A f \in CallField :
              call'[c][f] = IF f \in DOMAIN change THEN change[f] ELSE call[c][f]
    BY <1>1, <2>2, GoesTo
  <2>4. \A f \in CallField \ {"at", "left", "created"} : call'[c][f] = call[c][f]
    BY <2>1, <2>3
  <2>5. call'[c]["left"] = change["left"] /\ call'[c]["created"] = change["created"]
        /\ call'[c]["at"] = change["at"]
    BY <2>1, <2>3, Fields
  <2>6. call'[c].at = "start" /\ call'[c].left = Tail(call[c].left)
        /\ call'[c].created = call[c].created \union {Head(call[c].left)}
    BY <2>1, <2>5
  <2>7. /\ call'[c].op = "seed" /\ call'[c].id = call[c].id /\ call'[c].no = call[c].no
        /\ call'[c].answer = "none" /\ call'[c].rev = call[c].rev /\ call'[c].set = call[c].set
        /\ call'[c].skipped = call[c].skipped
    BY <1>1, <1>4, <2>4, Fields
  <2>8. CallShape(c)'
    BY <1>1, <1>4, <2>3, <2>6, <2>7, StatementsAre DEF CallOK, CallShape
  <2>9. CallDone(c)'
    BY <2>6, <2>7 DEF CallDone
  <2>10. SeedDone(c)'
    <3>1. /\ call[c].left # <<>> /\ rooms[call[c].id].slug = Head(call[c].left)
          /\ MadeBy(call[c].no) = call[c].created
          /\ call[c].created \intersect call[c].skipped = {}
      BY <1>1, <1>4 DEF CallOK, SeedDone
    <3>2. PICK k \in 0..Len(Starter) :
              /\ call[c].left = SubSeq(Starter, k + 1, Len(Starter))
              /\ call[c].created \union call[c].skipped = {Starter[i] : i \in 1..k}
      BY <1>1, <1>4 DEF CallOK, SeedDone
    <3>3. /\ k + 1 \in 0..Len(Starter)
          /\ call'[c].left = SubSeq(Starter, (k + 1) + 1, Len(Starter))
          /\ Head(call[c].left) \notin call[c].skipped
          /\ {Starter[i] : i \in 1..(k + 1)}
                = call[c].created \union call[c].skipped \union {Head(call[c].left)}
      BY <2>6, <3>1, <3>2, Remaining
    <3>4. call'[c].created \intersect call'[c].skipped = {}
      BY <2>6, <2>7, <3>1, <3>3
    <3>5. call'[c].created \union call'[c].skipped = {Starter[i] : i \in 1..(k + 1)}
      BY <2>6, <2>7, <3>3
    <3>6. {rooms'[e.room].slug : e \in {x \in log' : x.call = call'[c].no}} = call'[c].created
      BY <1>3, <2>3, <2>6, <2>7, <3>1
    <3> QED BY <2>6, <2>7, <3>3, <3>4, <3>5, <3>6 DEF SeedDone, MadeBy
  <2> QED BY <1>1, <1>3, <1>4, <2>3, <2>7, <2>8, <2>9, <2>10 DEF Step, CallOK
<1>5. CASE op = "broadcast"
  <2>1. Goes(c, [at |-> "publish"])
    BY <1>5 DEF Audit
  <2>2. /\ DOMAIN call' = Caller /\ \A d \in Caller \ {c} : call'[d] = call[d]
        /\ DOMAIN call'[c] = CallField
        /\ \A f \in CallField \ {"at"} : call'[c][f] = call[c][f]
        /\ call'[c].at = "publish"
    BY <1>1, <2>1, GoesTo, Fields
  <2>3. /\ call'[c].op = "broadcast" /\ call'[c].id = call[c].id /\ call'[c].no = call[c].no
        /\ call'[c].answer = "none" /\ call'[c].rev = call[c].rev
    BY <1>1, <1>5, <2>2, Fields
  <2>4. CallShape(c)'
    BY <1>1, <1>5, <2>2, <2>3, StatementsAre DEF CallOK, CallShape
  <2>5. CallDone(c)'
    BY <1>1, <1>3, <1>5, <2>2, <2>3 DEF CallDone, Recorded, Used
  <2>6. SeedDone(c)'
    BY <2>3 DEF SeedDone
  <2> QED BY <1>1, <1>3, <1>5, <2>2, <2>3, <2>4, <2>5, <2>6 DEF Step, CallOK
<1>6. CASE op \in {"create", "update", "delete"}
  <2>1. Answer(c, "ok")
    BY <1>6 DEF Audit
  <2>2. /\ DOMAIN call' = Caller /\ \A d \in Caller \ {c} : call'[d] = call[d]
        /\ DOMAIN call'[c] = CallField
        /\ \A f \in CallField \ {"at", "answer"} : call'[c][f] = call[c][f]
        /\ call'[c].at = "answered" /\ call'[c].answer = "ok"
    BY <1>1, <2>1, GoesTo, Fields DEF Answer
  <2>3. /\ call'[c].op = op /\ call'[c].id = call[c].id /\ call'[c].no = call[c].no
        /\ call'[c].rev = call[c].rev /\ call'[c].set = call[c].set
    BY <1>1, <1>6, <2>2, Fields
  <2>4. CallShape(c)'
    BY <1>1, <1>6, <2>2, <2>3, StatementsAre DEF CallOK, CallShape, Used
  <2>5. CallDone(c)'
    BY <1>1, <1>3, <1>6, <2>2, <2>3 DEF CallDone, Recorded, Used
  <2>6. SeedDone(c)'
    BY <1>6, <2>3 DEF SeedDone
  <2> QED BY <1>1, <1>3, <2>2, <2>3, <2>4, <2>5, <2>6 DEF Step, CallOK
<1> QED BY <1>2, <1>4, <1>5, <1>6

-----------------------------------------------------------------------------
(* Every step keeps the invariant of the procedures.                        *)

LEMMA AdminKept ==
    ASSUME AdminInv, NEW c \in Caller, RowsOK', LogOK', Frame(c), CallOK(c)',
           call'[c].no \in {call[c].no, 0, calls + 1}
    PROVE  AdminInv'
<1>1. \A d \in Caller : CallOK(d)'
  BY OthersKept
<1>2. ASSUME NEW d \in Caller, NEW e \in Caller, d # e, call'[d].no = call'[e].no
      PROVE  call'[d].no = 0
  <2>1. \A x \in Caller : call[x].no \in 0..calls
    BY DEF AdminInv, CallsOK, CallShape
  <2>2. calls \in Nat /\ \A x, y \in Caller : x # y /\ call[x].no = call[y].no => call[x].no = 0
    BY DEF AdminInv, CallsOK
  <2>3. \A x \in Caller \ {c} : call'[x].no = call[x].no
    BY DEF Frame
  <2>4. \A x \in Caller \ {c} : call'[x].no = call'[c].no => call'[c].no = 0
    <3> SUFFICES ASSUME NEW x \in Caller \ {c}, call'[x].no = call'[c].no PROVE call'[c].no = 0
      OBVIOUS
    <3>1. call[x].no = call'[c].no /\ call[x].no \in 0..calls
      BY <2>1, <2>3
    <3> QED BY <2>2, <3>1
  <2> QED BY <1>2, <2>2, <2>3, <2>4
<1>3. CallsOK'
  BY <1>1, <1>2 DEF Frame, CallsOK, CallOK
<1> QED BY <1>3 DEF AdminInv

LEMMA ServerStepOK == ASSUME AdminInv, NEW c \in Caller, ServerStep(c) PROVE AdminInv' /\ Step(c)
<1>1. Step(c)
  BY CreateStartOK, CreateInsertOK, CollideOK, SeedFindOK, SeedInsertOK, UpdateReadOK,
     UpdateRefusedOK, UpdateWriteOK, DeleteFindOK, DeleteRowOK, BroadcastFindOK, PublishOK,
     BanOK, AuditOK, ThrowOK, Zenon DEF ServerStep
<1> QED BY <1>1, AdminKept DEF Step

\* What a button, or the other operator, asks for.
WellFormed(request) ==
    /\ request.op \in {"create", "seed", "update", "delete", "broadcast", "ban"}
    /\ request = Request(request.op, request.id, request.set)
    /\ request.op = "create" => DOMAIN request.set = RowField /\ request.set.slug # Blank
    /\ request.op = "update" =>
          /\ "live" \notin DOMAIN request.set
          /\ "slug" \in DOMAIN request.set =>
                Used(request.id) /\ request.set.slug = rooms[request.id].slug
    /\ request.op = "ban" => Used(request.id)

LEMMA SendOK ==
    ASSUME AdminInv, NEW c \in Caller, NEW request, WellFormed(request), Send(c, request)
    PROVE  /\ AdminInv' /\ RowsKept
           /\ \A d \in Caller \ {c} : call'[d] = call[d]
           /\ call'[c].op = request.op
<1> DEFINE op == request.op
           id == request.id
           set == request.set
<1>1. /\ op \in {"create", "seed", "update", "delete", "broadcast", "ban"}
      /\ request = Request(op, id, set)
  BY DEF WellFormed
<1>2. /\ UNCHANGED store /\ calls' = calls + 1 /\ calls \in Nat
      /\ DOMAIN call = Caller /\ call' = [call EXCEPT ![c] = [request EXCEPT !.no = calls + 1]]
      /\ DOMAIN version = {"rooms", "bans"} /\ version.rooms \in Nat /\ version.bans \in Nat
  BY DEF Send, AdminInv, CallsOK
<1>3. DOMAIN call' = Caller /\ \A d \in Caller \ {c} : call'[d] = call[d]
  BY <1>2
<1>4. DOMAIN request = CallField /\ request.at = "start" /\ request.answer = "none"
      /\ request.left = (IF op = "seed" THEN Starter ELSE <<>>) /\ request.created = {}
      /\ request.skipped = {} /\ request.rev = 0
  <2>1. LET q == Request(op, id, set)
        IN  /\ DOMAIN q = CallField /\ q.at = "start" /\ q.answer = "none"
            /\ q.left = (IF op = "seed" THEN Starter ELSE <<>>) /\ q.created = {}
            /\ q.skipped = {} /\ q.rev = 0
    BY Fields DEF Request
  <2> QED BY <1>1, <2>1, Zenon
<1>5. /\ DOMAIN call'[c] = CallField /\ call'[c].no = calls + 1
      /\ \A f \in CallField \ {"no"} : call'[c][f] = request[f]
  BY <1>2, <1>4, Fields
<1>6. /\ call'[c].op = op /\ call'[c].id = id /\ call'[c].set = set /\ call'[c].at = "start"
      /\ call'[c].answer = "none" /\ call'[c].created = {} /\ call'[c].skipped = {}
      /\ call'[c].rev = 0 /\ call'[c].left = IF op = "seed" THEN Starter ELSE <<>>
  BY <1>4, <1>5, Fields
<1>7. RowsOK' /\ RowsKept
  BY <1>2, Untouched DEF AdminInv, store
<1>8. rooms' = rooms /\ log' = log /\ notices' = notices /\ version' = version
  BY <1>2 DEF store
<1>9. LogOK'
  BY <1>2, <1>8 DEF AdminInv, LogOK, Used
<1>10. Frame(c)
  BY <1>2, <1>3, <1>7, <1>8 DEF Frame
<1>11. CallShape(c)'
  BY <1>1, <1>2, <1>5, <1>6, <1>8, StatementsAre DEF CallShape, WellFormed, Used
<1>12. CallDone(c)'
  BY <1>6, <1>8 DEF CallDone, WellFormed, Used
<1>13. SeedDone(c)'
  <2>1. {rooms'[e.room].slug : e \in {x \in log' : x.call = calls + 1}} = {}
    BY <1>2, <1>8 DEF AdminInv, LogOK
  <2>2. /\ 0 \in 0..Len(Starter) /\ Starter = SubSeq(Starter, 0 + 1, Len(Starter))
        /\ {} = {Starter[i] : i \in 1..0}
    BY StarterAssumption, LenProperties
  <2> QED BY <1>5, <1>6, <2>1, <2>2 DEF SeedDone, MadeBy
<1> QED BY <1>3, <1>5, <1>6, <1>7, <1>9, <1>10, <1>11, <1>12, <1>13, AdminKept DEF CallOK

LEMMA SettleAdminOK ==
    ASSUME AdminInv, NEW c \in Caller, UNCHANGED <<store, calls>>,
           call' = [call EXCEPT ![c] = NoCall]
    PROVE  AdminInv' /\ RowsKept
<1>1. DOMAIN call = Caller /\ DOMAIN call' = Caller /\ \A d \in Caller \ {c} : call'[d] = call[d]
  BY DEF AdminInv, CallsOK
<1>2. call'[c] = NoCall /\ calls \in Nat /\ version' = version /\ calls' = calls
      /\ version.rooms \in Nat /\ version.bans \in Nat
  BY <1>1 DEF store, AdminInv, CallsOK
<1>3. /\ DOMAIN NoCall = CallField /\ NoCall.op = "none" /\ NoCall.at = "idle"
      /\ NoCall.answer = "none" /\ NoCall.no = 0 /\ NoCall.rev = 0
  BY DEF NoCall, CallField, Request
<1>4. RowsOK' /\ LogOK' /\ Frame(c)
  BY <1>1, QuietFrame
<1>5. CallShape(c)'
  BY <1>2, <1>3, StatementsAre DEF CallShape
<1>6. CallDone(c)' /\ SeedDone(c)'
  BY <1>2, <1>3 DEF CallDone, SeedDone
<1> QED BY <1>2, <1>3, <1>4, <1>5, <1>6, AdminKept DEF CallOK, Frame

-----------------------------------------------------------------------------
(* The console: its lists, its dialog, and which button asked for what.     *)

\* What a step may do to the store without the console looking at it.
LEMMA ConsoleFrame ==
    ASSUME ListsOK, DialogOK, RowsKept, UNCHANGED console,
           \A w \in {"rooms", "bans"} : version[w] \in Nat /\ version'[w] \in Nat /\ version'[w] >= version[w]
    PROVE  ListsOK' /\ DialogOK'
<1>1. tab' = tab /\ view' = view /\ shown' = shown /\ reading' = reading /\ dialog' = dialog /\ own' = own
  BY DEF console
<1>2. View' = View
  BY <1>1 DEF View
<1>3. \A r \in RoomId : ListedRow(shown, r)' /\ ListedRow(reading, r)'
  BY <1>1 DEF ListsOK, ListedRow, RowsKept, Used
<1>4. \A v \in View : Source(v) \in {"rooms", "bans"}
  BY DEF Source
<1>5. \A v \in View : view[v].rev <= version'[Source(v)] /\ own[v] <= version'[Source(v)]
  BY <1>4 DEF ListsOK
<1>6. ListsOK'
  BY <1>1, <1>2, <1>3, <1>5 DEF ListsOK
<1>7. DialogOK'
  BY <1>1 DEF DialogOK, RowsKept, Used, NoRoom
<1> QED BY <1>6, <1>7

LEMMA ServerConsole ==
    ASSUME Inv, NEW c \in Caller, ServerStep(c), UNCHANGED console PROVE Inv'
<1>1. AdminInv' /\ Step(c)
  BY ServerStepOK DEF Inv
<1>2. \A w \in {"rooms", "bans"} : version[w] \in Nat /\ version'[w] \in Nat /\ version'[w] >= version[w]
  BY <1>1 DEF Step, Frame, Inv, AdminInv, CallsOK
<1>3. ListsOK' /\ DialogOK'
  BY <1>1, <1>2, ConsoleFrame DEF Inv, ConsoleInv, Step, Frame
<1>4. ButtonsOK'
  <2>1. \A d \in Caller : \A op : Asks(d, op)' <=> Asks(d, op)
    BY DEF Asks, console
  <2>2. \A d \in Caller : call[d].at # "idle" => Asks(d, call[d].op)
    BY DEF Inv, ConsoleInv, ButtonsOK
  <2>3. \A d \in Caller : call'[d].op = call[d].op /\ (call'[d].at # "idle" => call[d].at # "idle")
    BY <1>1 DEF Step, Frame
  <2> QED BY <2>1, <2>2, <2>3 DEF ButtonsOK
<1> QED BY <1>1, <1>3, <1>4 DEF Inv, ConsoleInv

LEMMA PressOK ==
    ASSUME Inv, NEW c \in Caller, NEW request, WellFormed(request), Asks(c, request.op),
           Presses(c, request)
    PROVE  Inv'
<1>1. /\ AdminInv' /\ RowsKept /\ \A d \in Caller \ {c} : call'[d] = call[d]
      /\ call'[c].op = request.op
  BY SendOK DEF Inv, Presses
<1>2. UNCHANGED console /\ UNCHANGED version
  BY DEF Presses, Send, store
<1>3. ListsOK' /\ DialogOK'
  BY <1>1, <1>2, ConsoleFrame DEF Inv, ConsoleInv, AdminInv, CallsOK
<1>4. ButtonsOK'
  <2>1. \A d \in Caller : \A op : Asks(d, op)' <=> Asks(d, op)
    BY <1>2 DEF Asks, console
  <2>2. \A d \in Caller : call[d].at # "idle" => Asks(d, call[d].op)
    BY DEF Inv, ConsoleInv, ButtonsOK
  <2> QED BY <1>1, <2>1, <2>2 DEF ButtonsOK
<1> QED BY <1>1, <1>3, <1>4 DEF Inv, ConsoleInv

\* The operator and the queries work on what the console keeps.
LEMMA AdminAlone ==
    ASSUME Inv, UNCHANGED <<store, call, calls>>, tab' = tab
    PROVE  /\ AdminInv' /\ ButtonsOK' /\ View' = View
           /\ rooms' = rooms /\ version' = version
           /\ version.rooms \in Nat /\ version.bans \in Nat
<1>1. rooms' = rooms /\ log' = log /\ notices' = notices /\ version' = version
  BY DEF store
<1>2. RowsOK'
  BY <1>1 DEF Inv, AdminInv, RowsOK, Used
<1>3. LogOK'
  BY <1>1 DEF Inv, AdminInv, LogOK, Used
<1>4. CallsOK'
  <2>1. \A c \in Caller : CallShape(c)' <=> CallShape(c)
    BY <1>1 DEF CallShape, Used
  <2>2. \A c \in Caller : CallDone(c)' <=> CallDone(c)
    BY <1>1 DEF CallDone, Recorded, Used
  <2>3. \A no : MadeBy(no)' = MadeBy(no)
    BY <1>1 DEF MadeBy
  <2>4. \A c \in Caller : SeedDone(c)' <=> SeedDone(c)
    BY <1>1, <2>3 DEF SeedDone, MadeBy
  <2> QED BY <1>1, <2>1, <2>2, <2>4 DEF Inv, AdminInv, CallsOK
<1>5. ButtonsOK'
  BY DEF Inv, ConsoleInv, ButtonsOK, Asks
<1>6. View' = View
  BY DEF View
<1> QED BY <1>1, <1>2, <1>3, <1>4, <1>5, <1>6 DEF Inv, AdminInv, CallsOK

\* The lists alone, and the dialog alone.
LEMMA ListsAlone ==
    ASSUME ListsOK, UNCHANGED <<rooms, version, tab, view, shown, reading, own>> PROVE ListsOK'
BY DEF ListsOK, ListedRow, Used, View

LEMMA DialogAlone == ASSUME DialogOK, UNCHANGED <<rooms, tab, dialog>> PROVE DialogOK'
BY DEF DialogOK, Used, NoRoom

LEMMA ListReadOK == ASSUME Inv, NEW v \in View, ListRead(v) PROVE Inv'
<1>1. /\ UNCHANGED <<store, call, calls>> /\ tab' = tab /\ shown' = shown /\ own' = own
      /\ dialog' = dialog
      /\ view' = [view EXCEPT ![v].at = "read", ![v].rev = version[Source(v)]]
      /\ reading' = IF v = "rooms" THEN rooms ELSE reading
  BY DEF ListRead, admin
<1>2. /\ AdminInv' /\ ButtonsOK' /\ View' = View /\ rooms' = rooms /\ version' = version
      /\ version.rooms \in Nat /\ version.bans \in Nat
  BY <1>1, AdminAlone
<1>3. DialogOK'
  BY <1>1, <1>2, DialogAlone DEF Inv, ConsoleInv
<1>4. ListsOK
  BY DEF Inv, ConsoleInv
<1>5. /\ DOMAIN view' = View /\ \A w \in View \ {v} : view'[w] = view[w]
      /\ DOMAIN view'[v] = {"at", "rev", "loaded"}
      /\ view'[v].at = "read" /\ view'[v].rev = version[Source(v)]
  BY <1>1, <1>4 DEF ListsOK
<1>6. \A r \in RoomId : ListedRow(shown, r)' /\ ListedRow(reading, r)'
  BY <1>1, <1>2, <1>4 DEF ListsOK, ListedRow, Used, Inv, AdminInv, RowsOK
<1>7. version[Source(v)] \in Nat
  BY <1>2 DEF Source
<1>8. ListsOK'
  BY <1>1, <1>2, <1>4, <1>5, <1>6, <1>7 DEF ListsOK
<1> QED BY <1>2, <1>3, <1>8 DEF Inv, ConsoleInv

LEMMA ListArriveOK == ASSUME Inv, NEW v \in View, ListArrive(v) PROVE Inv'
<1>1. /\ UNCHANGED <<store, call, calls>> /\ tab' = tab /\ reading' = reading /\ own' = own
      /\ dialog' = dialog /\ view[v].at = "read"
      /\ view' = [view EXCEPT ![v].at = "fresh", ![v].loaded = TRUE]
      /\ shown' = IF v = "rooms" THEN reading ELSE shown
  BY DEF ListArrive, admin
<1>2. /\ AdminInv' /\ ButtonsOK' /\ View' = View /\ rooms' = rooms /\ version' = version
  BY <1>1, AdminAlone
<1>3. DialogOK'
  BY <1>1, <1>2, DialogAlone DEF Inv, ConsoleInv
<1>4. ListsOK
  BY DEF Inv, ConsoleInv
<1>5. /\ DOMAIN view' = View /\ \A w \in View \ {v} : view'[w] = view[w]
      /\ DOMAIN view'[v] = {"at", "rev", "loaded"}
      /\ view'[v].at = "fresh" /\ view'[v].rev = view[v].rev
  BY <1>1, <1>4 DEF ListsOK
<1>6. \A r \in RoomId : ListedRow(shown, r)' /\ ListedRow(reading, r)'
  BY <1>1, <1>2, <1>4 DEF ListsOK, ListedRow, Used
<1>7. ListsOK'
  BY <1>1, <1>2, <1>4, <1>5, <1>6 DEF ListsOK
<1> QED BY <1>2, <1>3, <1>7 DEF Inv, ConsoleInv

\* A failed query, and one that is asked for again.
LEMMA ListAgain ==
    ASSUME Inv, NEW v \in View, NEW at \in {"asked", "error"}, UNCHANGED <<store, call, calls>>,
           view' = [view EXCEPT ![v].at = at], UNCHANGED <<tab, shown, reading, dialog, own>>
    PROVE  Inv'
<1>1. /\ AdminInv' /\ ButtonsOK' /\ View' = View /\ rooms' = rooms /\ version' = version
  BY AdminAlone
<1>2. DialogOK'
  BY <1>1, DialogAlone DEF Inv, ConsoleInv
<1>3. ListsOK
  BY DEF Inv, ConsoleInv
<1>4. /\ DOMAIN view' = View /\ \A w \in View \ {v} : view'[w] = view[w]
      /\ DOMAIN view'[v] = {"at", "rev", "loaded"}
      /\ view'[v].at = at /\ view'[v].rev = view[v].rev
  BY <1>3 DEF ListsOK
<1>5. \A r \in RoomId : ListedRow(shown, r)' /\ ListedRow(reading, r)'
  BY <1>1, <1>3 DEF ListsOK, ListedRow, Used
<1>6. ListsOK'
  BY <1>1, <1>3, <1>4, <1>5 DEF ListsOK
<1> QED BY <1>1, <1>2, <1>6 DEF Inv, ConsoleInv

\* What the operator does in the dialog.
LEMMA DialogStep ==
    ASSUME Inv, UNCHANGED <<store, call, calls>>, UNCHANGED <<tab, view, shown, reading, own>>,
           DialogOK'
    PROVE  Inv'
<1>1. AdminInv' /\ ButtonsOK' /\ rooms' = rooms /\ version' = version
  BY AdminAlone
<1>2. ListsOK'
  BY <1>1, ListsAlone DEF Inv, ConsoleInv
<1> QED BY <1>1, <1>2 DEF Inv, ConsoleInv

LEMMA ClosedFields ==
    /\ DOMAIN Closed = {"open", "edit", "name", "slug", "encryption", "password", "openPolicy",
                        "root", "parseError", "loaded", "toggled", "edited"}
    /\ Closed.open = FALSE /\ Closed.edit = NoRoom /\ Closed.name = Blank
    /\ Closed.parseError = FALSE /\ Closed.openPolicy = TRUE
BY DEF Closed

LEMMA ClosedOK ==
    ASSUME dialog' = Closed \/ dialog' = DefaultForm, dialog' = DefaultForm => tab' = "rooms"
    PROVE  DialogOK'
<1>1. /\ DOMAIN DefaultForm = DOMAIN Closed /\ DefaultForm.edit = NoRoom
      /\ DefaultForm.name = Blank /\ DefaultForm.parseError = FALSE
  BY ClosedFields DEF DefaultForm
<1>2. Closed.open = FALSE
  BY ClosedFields
<1> QED BY <1>1, <1>2, ClosedFields DEF DialogOK

LEMMA OpenEditOK == ASSUME Inv, NEW r \in RoomId, OpenEdit(r) PROVE Inv'
<1>1. /\ UNCHANGED <<store, call, calls>> /\ UNCHANGED <<tab, view, shown, reading, own>>
      /\ tab = "rooms" /\ shown[r].live /\ dialog' = FormOf(r)
  BY DEF OpenEdit, OperatorEvent
<1>2. rooms' = rooms
  BY <1>1 DEF store
<1>3. Used(r) /\ shown[r].slug = rooms[r].slug
  BY <1>1 DEF Inv, ConsoleInv, ListsOK, ListedRow
<1>4. /\ DOMAIN FormOf(r) = DOMAIN Closed /\ FormOf(r).open = TRUE /\ FormOf(r).edit = r
      /\ FormOf(r).slug = shown[r].slug
      /\ FormOf(r).parseError => FormOf(r).openPolicy
  <2> DEFINE row == shown[r]
             tree == IF ReadablePolicy(row.policy) THEN TreeOf(row.policy, NextId(nodeIds)).node
                     ELSE MakeAllOf(nodeIds)
             open == tree.kind = "allOf" /\ tree.children = <<>>
             form == [Closed EXCEPT !.open = TRUE, !.edit = r, !.name = row.name, !.slug = row.slug,
                                    !.encryption = row.encryption, !.root = tree,
                                    !.openPolicy = open, !.loaded = row.policy]
  <2>1. FormOf(r) = [form EXCEPT !.parseError = ~ReadablePolicy(row.policy)]
    BY DEF FormOf, LoadedForm
  <2>2. ~ReadablePolicy(row.policy) => open
    BY DEF MakeAllOf, Node
  <2> HIDE DEF row, tree, open
  <2>3. /\ DOMAIN form = DOMAIN Closed /\ form.open = TRUE /\ form.edit = r
        /\ form.slug = row.slug /\ form.openPolicy = open
    BY ClosedFields
  <2> HIDE DEF form
  <2>4. FormOf(r).parseError = ~ReadablePolicy(row.policy)
    BY <2>1, <2>3, ClosedFields
  <2>5. /\ DOMAIN FormOf(r) = DOMAIN Closed /\ FormOf(r).open = TRUE /\ FormOf(r).edit = r
        /\ FormOf(r).slug = row.slug /\ FormOf(r).openPolicy = open
    BY <2>1, <2>3, ClosedFields
  <2> QED BY <2>2, <2>4, <2>5 DEF row
<1>5. DialogOK'
  BY <1>1, <1>2, <1>3, <1>4 DEF DialogOK, Used, RoomId, NoRoom
<1> QED BY <1>1, <1>5, DialogStep

\* What is typed keeps the room that is edited, its slug and the guard.
LEMMA TypesOK ==
    ASSUME Inv, NEW form, Types(form), DOMAIN form = DOMAIN Closed,
           form.open = dialog.open, form.edit = dialog.edit,
           \/ form.name = dialog.name /\ form.slug = dialog.slug
           \/ dialog.edit = NoRoom /\ form.slug \in Slug
           \/ dialog.edit # NoRoom /\ form.slug = dialog.slug,
           form.parseError => dialog.open /\ form.openPolicy
    PROVE  Inv'
<1>1. /\ UNCHANGED <<store, call, calls>> /\ UNCHANGED <<tab, view, shown, reading, own>>
      /\ dialog' = form
  BY DEF Types, OperatorEvent
<1>2. rooms' = rooms
  BY <1>1 DEF store
<1>3. DialogOK
  BY DEF Inv, ConsoleInv
<1>4. DialogOK'
  BY <1>1, <1>2, <1>3 DEF DialogOK, Used
<1> QED BY <1>1, <1>4, DialogStep

LEMMA RenameOK == ASSUME Inv, NEW name \in Name, Rename(name) PROVE Inv'
<1> DEFINE slug == IF dialog.edit # NoRoom THEN dialog.slug ELSE Slugify[name]
           form == [dialog EXCEPT !.name = name, !.slug = slug]
<1>1. DialogOK /\ Slugify[name] \in Slug
  BY SlugifyAssumption DEF Inv, ConsoleInv
<1>2. DOMAIN dialog = DOMAIN Closed /\ (dialog.parseError => dialog.open /\ dialog.openPolicy)
  BY <1>1 DEF DialogOK
<1>3. \/ dialog.edit = NoRoom /\ slug \in Slug
      \/ dialog.edit # NoRoom /\ slug = dialog.slug
  BY <1>1
<1>4. Types(form)
  BY DEF Rename
<1> HIDE DEF slug
<1>5. /\ DOMAIN form = DOMAIN Closed /\ form.open = dialog.open /\ form.edit = dialog.edit
      /\ form.slug = slug /\ form.parseError = dialog.parseError
      /\ form.openPolicy = dialog.openPolicy
  BY <1>2, ClosedFields
<1> HIDE DEF form
<1> QED BY <1>2, <1>3, <1>4, <1>5, TypesOK

LEMMA TypedOK ==
    ASSUME Inv, \/ \E e \in {"PLAINTEXT", "AES"} : ChooseEncryption(e)
                \/ \E p \in {"", "short", "long"} : TypePassword(p)
                \/ TogglePolicy
    PROVE  Inv'
<1>1. DOMAIN dialog = DOMAIN Closed /\ (dialog.parseError => dialog.open /\ dialog.openPolicy)
  BY DEF Inv, ConsoleInv, DialogOK
<1>2. ASSUME NEW e, ChooseEncryption(e) PROVE Inv'
  <2> DEFINE form == [dialog EXCEPT !.encryption = e]
  <2>1. Types(form)
    BY <1>2 DEF ChooseEncryption
  <2>2. /\ DOMAIN form = DOMAIN Closed /\ form.open = dialog.open /\ form.edit = dialog.edit
        /\ form.name = dialog.name /\ form.slug = dialog.slug
        /\ form.parseError = dialog.parseError /\ form.openPolicy = dialog.openPolicy
    BY <1>1, ClosedFields
  <2> HIDE DEF form
  <2> QED BY <1>1, <2>1, <2>2, TypesOK
<1>3. ASSUME NEW p, TypePassword(p) PROVE Inv'
  <2> DEFINE form == [dialog EXCEPT !.password = p]
  <2>1. Types(form)
    BY <1>3 DEF TypePassword
  <2>2. /\ DOMAIN form = DOMAIN Closed /\ form.open = dialog.open /\ form.edit = dialog.edit
        /\ form.name = dialog.name /\ form.slug = dialog.slug
        /\ form.parseError = dialog.parseError /\ form.openPolicy = dialog.openPolicy
    BY <1>1, ClosedFields
  <2> HIDE DEF form
  <2> QED BY <1>1, <2>1, <2>2, TypesOK
<1>4. ASSUME TogglePolicy PROVE Inv'
  <2> DEFINE guard == dialog.parseError /\ ~dialog.openPolicy
             open == ~dialog.openPolicy
             form == [dialog EXCEPT !.openPolicy = open, !.toggled = TRUE, !.parseError = guard]
  <2>1. Types(form)
    BY <1>4 DEF TogglePolicy
  <2>2. ~guard
    BY <1>1
  <2> HIDE DEF guard, open
  <2>3. /\ DOMAIN form = DOMAIN Closed /\ form.open = dialog.open /\ form.edit = dialog.edit
        /\ form.name = dialog.name /\ form.slug = dialog.slug
        /\ form.parseError = guard
    BY <1>1, ClosedFields
  <2> HIDE DEF form
  <2> QED BY <2>1, <2>2, <2>3, TypesOK
<1> QED BY <1>2, <1>3, <1>4

LEMMA EditPolicyOK == ASSUME Inv, EditPolicy PROVE Inv'
<1>1. PICK tree : dialog' = [dialog EXCEPT !.root = tree, !.edited = TRUE]
  BY DEF EditPolicy
<1>2. UNCHANGED <<store, call, calls>> /\ UNCHANGED <<tab, view, shown, reading, own>>
  BY DEF EditPolicy, OperatorEvent
<1>3. DialogOK /\ rooms' = rooms
  BY <1>2 DEF Inv, ConsoleInv, store
<1>4. /\ DOMAIN dialog' = DOMAIN Closed /\ dialog'.open = dialog.open /\ dialog'.edit = dialog.edit
      /\ dialog'.name = dialog.name /\ dialog'.slug = dialog.slug
      /\ dialog'.parseError = dialog.parseError /\ dialog'.openPolicy = dialog.openPolicy
  BY <1>1, <1>3, ClosedFields DEF DialogOK
<1>5. DialogOK'
  BY <1>2, <1>3, <1>4 DEF DialogOK, Used
<1> QED BY <1>2, <1>5, DialogStep

-----------------------------------------------------------------------------
(* The buttons.                                                             *)

LEMMA WellFormedRequest ==
    ASSUME NEW op \in {"create", "seed", "update", "delete", "broadcast", "ban"}, NEW id, NEW set,
           op = "create" => DOMAIN set = RowField /\ set.slug # Blank,
           op = "update" => /\ "live" \notin DOMAIN set
                            /\ "slug" \in DOMAIN set => Used(id) /\ set.slug = rooms[id].slug,
           op = "ban" => Used(id)
    PROVE  WellFormed(Request(op, id, set)) /\ Request(op, id, set).op = op
<1> DEFINE q == Request(op, id, set)
<1>1. q.op = op /\ q.id = id /\ q.set = set
  BY DEF Request
<1>2. q = Request(q.op, q.id, q.set)
  BY <1>1
<1> HIDE DEF q
<1>3. WellFormed(q) /\ q.op = op
  BY <1>1, <1>2 DEF WellFormed
<1> QED BY <1>3 DEF q

LEMMA Callers ==
    \A c \in {"save", "remove", "seed", "pin", "broadcast", "bans", "members", "other"} : c \in Caller
BY CallerAssumption

LEMMA SubmitOK == ASSUME Inv, Submit PROVE Inv'
<1> DEFINE update == Request("update", dialog.edit, FormFields)
           row == RoomRow(dialog.name, dialog.slug, dialog.encryption, dialog.password, FALSE, FormPolicy)
           create == Request("create", NoRoom, row)
           request == IF dialog.edit # NoRoom THEN update ELSE create
<1>1. /\ dialog.open /\ dialog.name # Blank /\ Send("save", request)
      /\ UNCHANGED console
  BY DEF Submit, console
<1>2. /\ tab = "rooms"
      /\ dialog.edit # NoRoom => Used(dialog.edit) /\ dialog.slug = rooms[dialog.edit].slug
      /\ dialog.edit = NoRoom => dialog.slug \in Slug
  BY <1>1 DEF Inv, ConsoleInv, DialogOK
<1>3. /\ "live" \notin DOMAIN FormFields
      /\ "slug" \in DOMAIN FormFields => FormFields.slug = dialog.slug
  BY DEF FormFields
<1>4. dialog.edit # NoRoom => WellFormed(update) /\ update.op = "update"
  <2> DEFINE fields == FormFields
  <2>1. /\ "live" \notin DOMAIN fields
        /\ "slug" \in DOMAIN fields => fields.slug = dialog.slug
    BY <1>3
  <2> HIDE DEF fields
  <2>2. dialog.edit # NoRoom => LET q == Request("update", dialog.edit, fields)
                                IN  WellFormed(q) /\ q.op = "update"
    BY <1>2, <2>1, WellFormedRequest
  <2> QED BY <2>2 DEF fields
<1>5. dialog.edit = NoRoom => WellFormed(create) /\ create.op = "create"
  <2>1. DOMAIN row = RowField /\ row.slug = dialog.slug
    BY Fields DEF RoomRow
  <2> HIDE DEF row
  <2>2. dialog.edit = NoRoom => row.slug # Blank
    BY <1>2, <2>1, SlugAssumption
  <2> QED BY <2>1, <2>2, WellFormedRequest
<1> HIDE DEF update, create
<1>6. WellFormed(request) /\ request.op \in {"update", "create"}
  BY <1>4, <1>5
<1> HIDE DEF request
<1>7. Asks("save", request.op)
  BY <1>2, <1>6 DEF Asks
<1>8. Presses("save", request)
  BY <1>1 DEF Presses
<1> QED BY <1>6, <1>7, <1>8, Callers, PressOK

LEMMA ButtonsPressOK ==
    ASSUME Inv, \/ Seed \/ Other
                \/ \E r \in RoomId : \/ Delete(r) \/ TogglePin(r) \/ Broadcast(r)
                                     \/ BanFromBans(r) \/ BanFromMembers(r)
    PROVE  Inv'
<1>1. ASSUME Seed PROVE Inv'
  <2>1. WellFormed(Request("seed", NoRoom, <<>>)) /\ Request("seed", NoRoom, <<>>).op = "seed"
    BY WellFormedRequest
  <2>2. Asks("seed", "seed")
    BY <1>1 DEF Seed, Asks
  <2> QED BY <1>1, <2>1, <2>2, Callers, PressOK DEF Seed
<1>2. ASSUME NEW r \in RoomId, Delete(r) PROVE Inv'
  <2>1. WellFormed(Request("delete", r, <<>>)) /\ Request("delete", r, <<>>).op = "delete"
    BY WellFormedRequest
  <2>2. Asks("remove", "delete")
    BY <1>2 DEF Delete, Rooms, Asks
  <2> QED BY <1>2, <2>1, <2>2, Callers, PressOK DEF Delete
<1>3. ASSUME NEW r \in RoomId, TogglePin(r) PROVE Inv'
  <2> DEFINE set == [pinned |-> ~shown[r].pinned]
  <2>1. DOMAIN set = {"pinned"}
    OBVIOUS
  <2>2. Presses("pin", Request("update", r, set)) /\ tab = "rooms"
    BY <1>3 DEF TogglePin, Rooms
  <2> HIDE DEF set
  <2>3. WellFormed(Request("update", r, set)) /\ Request("update", r, set).op = "update"
    BY <2>1, WellFormedRequest
  <2>4. Asks("pin", "update")
    BY <2>2 DEF Asks
  <2> QED BY <2>2, <2>3, <2>4, Callers, PressOK
<1>4. ASSUME NEW r \in RoomId, Broadcast(r) PROVE Inv'
  <2>1. WellFormed(Request("broadcast", r, <<>>)) /\ Request("broadcast", r, <<>>).op = "broadcast"
    BY WellFormedRequest
  <2>2. Asks("broadcast", "broadcast")
    BY DEF Asks
  <2> QED BY <1>4, <2>1, <2>2, Callers, PressOK DEF Broadcast
<1>5. ASSUME NEW r \in RoomId, BanFromBans(r) \/ BanFromMembers(r) PROVE Inv'
  <2>1. Used(r)
    BY <1>5 DEF Inv, ConsoleInv, ListsOK, ListedRow, BanFromBans, BanFromMembers
  <2>2. WellFormed(Request("ban", r, <<>>)) /\ Request("ban", r, <<>>).op = "ban"
    BY <2>1, WellFormedRequest
  <2>3. BanFromBans(r) => Asks("bans", "ban")
    BY DEF BanFromBans, Asks
  <2>4. BanFromMembers(r) => Asks("members", "ban")
    BY DEF BanFromMembers, Asks
  <2> QED BY <1>5, <2>2, <2>3, <2>4, Callers, PressOK DEF BanFromBans, BanFromMembers
<1>6. ASSUME Other PROVE Inv'
  <2>1. PICK request \in OthersCalls : Presses("other", request)
    BY <1>6 DEF Other
  <2>2. /\ request.op \in {"create", "seed", "update", "delete", "broadcast"}
        /\ request = Request(request.op, request.id, request.set)
    BY OthersAssumption
  <2>3. request.op = "create" => DOMAIN request.set = RowField /\ request.set.slug # Blank
    <3> SUFFICES ASSUME request.op = "create"
                 PROVE  DOMAIN request.set = RowField /\ request.set.slug # Blank
      OBVIOUS
    <3>1. PICK slug \in Slug : request.set = [NoRow EXCEPT
              !.live = TRUE, !.slug = slug, !.name = request.set.name,
              !.encryption = request.set.encryption, !.password = request.set.password,
              !.pinned = request.set.pinned, !.policy = request.set.policy]
      BY OthersAssumption
    <3> DEFINE set == request.set
    <3>2. DOMAIN [NoRow EXCEPT
              !.live = TRUE, !.slug = slug, !.name = set.name,
              !.encryption = set.encryption, !.password = set.password,
              !.pinned = set.pinned, !.policy = set.policy] = RowField
      BY Fields DEF RowField
    <3>3. [NoRow EXCEPT
              !.live = TRUE, !.slug = slug, !.name = set.name,
              !.encryption = set.encryption, !.password = set.password,
              !.pinned = set.pinned, !.policy = set.policy].slug = slug
      <4> HIDE DEF set
      <4> QED BY Fields DEF RowField
    <3> QED BY <3>1, <3>2, <3>3, SlugAssumption
  <2>4. request.op = "update" => "live" \notin DOMAIN request.set /\ "slug" \notin DOMAIN request.set
    BY OthersAssumption
  <2>5. WellFormed(request)
    BY <2>2, <2>3, <2>4 DEF WellFormed
  <2>6. Asks("other", request.op)
    BY DEF Asks
  <2> QED BY <2>1, <2>5, <2>6, Callers, PressOK
<1> QED BY <1>1, <1>2, <1>3, <1>4, <1>5, <1>6

-----------------------------------------------------------------------------
(* An answer arrives: the queries that show what was done are asked again.   *)

LEMMA SettleOK == ASSUME Inv, NEW c \in Caller, Settle(c) PROVE Inv'
<1>1. /\ call[c].at = "answered" /\ call' = [call EXCEPT ![c] = NoCall]
      /\ UNCHANGED <<store, calls, tab, shown, reading>>
  BY DEF Settle
<1>2. AdminInv' /\ rooms' = rooms /\ version' = version
  BY <1>1, SettleAdminOK DEF Inv, store
<1>3. ButtonsOK'
  <2>1. \A d \in Caller : call'[d].at # "idle" => call'[d] = call[d]
    BY <1>1 DEF Inv, AdminInv, CallsOK, NoCall, Request
  <2>2. \A d \in Caller : \A op : Asks(d, op)' <=> Asks(d, op)
    BY <1>1 DEF Asks
  <2> QED BY <2>1, <2>2 DEF Inv, ConsoleInv, ButtonsOK
<1>4. DialogOK'
  <2>1. dialog' = dialog \/ dialog' = Closed
    BY DEF Settle
  <2>2. CASE dialog' = dialog
    BY <1>1, <1>2, <2>2, DialogAlone DEF Inv, ConsoleInv
  <2>3. CASE dialog' = Closed
    <3>1. DefaultForm.open = TRUE /\ Closed.open = FALSE
      BY ClosedFields DEF DefaultForm
    <3> QED BY <2>3, <3>1, ClosedOK
  <2> QED BY <2>1, <2>2, <2>3
<1>5. ListsOK /\ View' = View
  BY <1>1 DEF Inv, ConsoleInv, View
<1>6. \A r \in RoomId : ListedRow(shown, r)' /\ ListedRow(reading, r)'
  BY <1>1, <1>2, <1>5 DEF ListsOK, ListedRow, Used
<1>7. CASE call[c].answer = "ok"
  <2>1. /\ view' = Invalidated(Refetched(c))
        /\ own' = [v \in View |-> IF v = tab /\ c \notin {"broadcast", "other"} /\ view[v].loaded
                                  THEN call[c].rev ELSE own[v]]
    BY <1>7 DEF Settle
  <2>2. /\ call[c].rev \in Nat
        /\ call[c].rev <= version[IF call[c].op = "ban" THEN "bans" ELSE "rooms"]
    BY DEF Inv, AdminInv, CallsOK, CallShape
  <2>3. /\ DOMAIN view' = View /\ DOMAIN own' = View
        /\ \A v \in View :
              /\ DOMAIN view'[v] = {"at", "rev", "loaded"}
              /\ view'[v].rev = view[v].rev
              /\ view'[v].at = IF v \in Refetched(c) /\ (view[v].loaded \/ view[v].at = "error")
                               THEN "asked" ELSE view[v].at
    BY <1>5, <2>1 DEF Invalidated, ListsOK
  <2>4. Asks(c, call[c].op)
    BY <1>1 DEF Inv, ConsoleInv, ButtonsOK
  <2>5. c \notin {"broadcast", "other"} =>
            /\ tab \in Refetched(c)
            /\ Source(tab) = IF call[c].op = "ban" THEN "bans" ELSE "rooms"
    BY <2>4, CallerAssumption DEF Asks, Refetched, Source
  <2>6. ASSUME NEW v \in View
        PROVE  /\ view'[v].at \in {"asked", "read", "fresh", "error"}
               /\ view'[v].rev \in Nat /\ view'[v].rev <= version[Source(v)]
               /\ own'[v] \in Nat /\ own'[v] <= version[Source(v)]
               /\ view'[v].at \in {"read", "fresh"} => view'[v].rev >= own'[v]
    <3>1. /\ view[v].at \in {"asked", "read", "fresh", "error"}
          /\ view[v].rev \in Nat /\ view[v].rev <= version[Source(v)]
          /\ own[v] \in Nat /\ own[v] <= version[Source(v)]
          /\ view[v].at \in {"read", "fresh"} => view[v].rev >= own[v]
      BY <1>5 DEF ListsOK
    <3>2. CASE v = tab /\ c \notin {"broadcast", "other"} /\ view[v].loaded
      <4>1. own'[v] = call[c].rev /\ view'[v].at = "asked" /\ view'[v].rev = view[v].rev
        BY <2>1, <2>3, <2>5, <3>2
      <4> QED BY <2>2, <2>5, <3>1, <3>2, <4>1
    <3>3. CASE ~(v = tab /\ c \notin {"broadcast", "other"} /\ view[v].loaded)
      <4>1. own'[v] = own[v] /\ view'[v].rev = view[v].rev /\ view'[v].at \in {"asked", view[v].at}
        BY <2>1, <2>3, <3>3
      <4> QED BY <3>1, <4>1
    <3> QED BY <3>2, <3>3
  <2>7. ListsOK'
    BY <1>1, <1>2, <1>5, <1>6, <2>3, <2>6 DEF ListsOK
  <2> QED BY <1>2, <1>3, <1>4, <2>7 DEF Inv, ConsoleInv
<1>8. CASE call[c].answer # "ok"
  <2>1. view' = view /\ own' = own
    BY <1>8 DEF Settle
  <2>2. ListsOK'
    BY <1>1, <1>2, <2>1, ListsAlone DEF Inv, ConsoleInv
  <2> QED BY <1>2, <1>3, <1>4, <2>2 DEF Inv, ConsoleInv
<1> QED BY <1>7, <1>8

-----------------------------------------------------------------------------
(* The invariant, and what follows from it.                                 *)

LEMMA InitOK == Init => Inv
<1> SUFFICES ASSUME Init PROVE Inv
  OBVIOUS
<1>1. PICK p \in StoredPolicy :
        rooms = [r \in RoomId |-> IF r = 1 THEN RoomRow("tea", "tea", "PLAINTEXT", "", FALSE, p)
                                  ELSE NoRow]
  BY DEF Init
<1>2. /\ log = {} /\ notices = {} /\ calls = 0 /\ version = [rooms |-> 0, bans |-> 0]
      /\ call = [c \in Caller |-> NoCall] /\ tab \in Tab
      /\ view = [v \in View |-> [at |-> "asked", rev |-> 0, loaded |-> FALSE]]
      /\ shown = [r \in RoomId |-> NoRow] /\ reading = shown /\ dialog = Closed
      /\ own = [v \in View |-> 0]
  BY DEF Init, AdminInit
<1>3. /\ DOMAIN NoRow = RowField /\ NoRow.live = FALSE /\ NoRow.slug = Blank
  BY DEF NoRow, RoomRow, RowField
<1>4. LET tea == RoomRow("tea", "tea", "PLAINTEXT", "", FALSE, p)
      IN  DOMAIN tea = RowField /\ tea.slug = "tea"
  BY Fields DEF RoomRow
<1>5. "tea" # Blank
  BY SlugAssumption, SlugifyAssumption
<1>6. \A r \in RoomId : /\ DOMAIN rooms[r] = RowField /\ (rooms[r].live => Used(r))
                        /\ Used(r) <=> r = 1
  BY <1>1, <1>3, <1>4, <1>5 DEF Used
<1>7. RowsOK
  <2>1. MaxRooms \in Nat
    BY AdminBoundsAssumption
  <2>2. \E k \in 0..MaxRooms : \A r \in RoomId : Used(r) <=> r <= k
    <3>1. CASE MaxRooms = 0
      BY <3>1 DEF RoomId
    <3>2. CASE MaxRooms # 0
      <4>1. 1 \in 0..MaxRooms /\ \A r \in RoomId : Used(r) <=> r <= 1
        BY <1>6, <2>1, <3>2 DEF RoomId
      <4> QED BY <4>1
    <3> QED BY <3>1, <3>2
  <2> QED BY <1>1, <1>6, <2>2 DEF RowsOK
<1>8. LogOK
  BY <1>2 DEF LogOK
<1>9. /\ DOMAIN NoCall = CallField /\ NoCall.op = "none" /\ NoCall.at = "idle"
      /\ NoCall.answer = "none" /\ NoCall.no = 0 /\ NoCall.rev = 0
  BY DEF NoCall, CallField, Request
<1>10. CallsOK
  <2>1. \A c \in Caller : call[c] = NoCall
    BY <1>2
  <2>2. version.rooms = 0 /\ version.bans = 0 /\ DOMAIN version = {"rooms", "bans"}
    BY <1>2
  <2>3. \A c \in Caller : CallShape(c)
    BY <1>2, <1>9, <2>1, <2>2, StatementsAre DEF CallShape
  <2>4. \A c \in Caller : CallDone(c) /\ SeedDone(c)
    BY <1>9, <2>1 DEF CallDone, SeedDone
  <2> QED BY <1>2, <1>9, <2>1, <2>2, <2>3, <2>4 DEF CallsOK
<1>11. ListsOK
  <2>1. \A v \in View : Source(v) \in {"rooms", "bans"}
    BY DEF Source
  <2> QED BY <1>2, <1>3, <2>1 DEF ListsOK, ListedRow
<1>12. DialogOK
  BY <1>2, ClosedFields DEF DialogOK
<1>13. ButtonsOK
  BY <1>2, <1>9 DEF ButtonsOK
<1> QED BY <1>7, <1>8, <1>10, <1>11, <1>12, <1>13 DEF Inv, AdminInv, ConsoleInv

LEMMA NextOK == Inv /\ [Next]_vars => Inv'
<1> SUFFICES ASSUME Inv, [Next]_vars PROVE Inv'
  OBVIOUS
<1>1. ASSUME NEW c \in Caller, (ServerStep(c) /\ UNCHANGED console) \/ Settle(c) PROVE Inv'
  BY <1>1, ServerConsole, SettleOK
<1>2. ASSUME NEW v \in View, ListRead(v) \/ ListArrive(v) PROVE Inv'
  BY <1>2, ListReadOK, ListArriveOK
<1>3. ASSUME NEW v \in View, ListFail(v) PROVE Inv'
  <2>1. /\ UNCHANGED <<store, call, calls>> /\ UNCHANGED <<tab, shown, reading, dialog, own>>
        /\ view' = [view EXCEPT ![v].at = "error"]
    BY <1>3 DEF ListFail
  <2> QED BY <2>1, ListAgain
<1>4. ASSUME NEW v \in View, Remount(v) PROVE Inv'
  <2>1. /\ UNCHANGED <<store, call, calls>> /\ UNCHANGED <<tab, shown, reading, dialog, own>>
        /\ view' = [view EXCEPT ![v].at = "asked"]
    BY <1>4 DEF Remount, OperatorEvent
  <2> QED BY <2>1, ListAgain
<1>5. ASSUME OpenCreate \/ Cancel PROVE Inv'
  <2>1. /\ UNCHANGED <<store, call, calls>> /\ UNCHANGED <<tab, view, shown, reading, own>>
        /\ dialog' = Closed \/ (dialog' = DefaultForm /\ tab' = "rooms")
    BY <1>5 DEF OpenCreate, Cancel, OperatorEvent
  <2>2. DefaultForm.open = TRUE /\ Closed.open = FALSE
    BY ClosedFields DEF DefaultForm
  <2>3. DialogOK'
    BY <2>1, <2>2, ClosedOK
  <2> QED BY <2>1, <2>3, DialogStep
<1>6. ASSUME TogglePolicy \/ EditPolicy \/ Submit PROVE Inv'
  BY <1>6, TypedOK, EditPolicyOK, SubmitOK
<1>7. ASSUME Seed \/ Other PROVE Inv'
  BY <1>7, ButtonsPressOK
<1>8. ASSUME NEW r \in RoomId,
             OpenEdit(r) \/ Delete(r) \/ TogglePin(r) \/ Broadcast(r) \/ BanFromBans(r) \/ BanFromMembers(r)
      PROVE  Inv'
  BY <1>8, OpenEditOK, ButtonsPressOK
<1>9. ASSUME NEW name \in Name, Rename(name) PROVE Inv'
  BY <1>9, RenameOK
<1>10. ASSUME \/ \E e \in {"PLAINTEXT", "AES"} : ChooseEncryption(e)
              \/ \E p \in {"", "short", "long"} : TypePassword(p)
       PROVE  Inv'
  BY <1>10, TypedOK
<1>11. CASE UNCHANGED vars
  <2>1. UNCHANGED <<store, call, calls>> /\ UNCHANGED console
    BY <1>11 DEF vars, admin
  <2>2. DialogOK'
    BY <2>1, DialogAlone DEF Inv, ConsoleInv, console, store
  <2> QED BY <2>1, <2>2, DialogStep DEF console
<1> QED BY <1>1, <1>2, <1>3, <1>4, <1>5, <1>6, <1>7, <1>8, <1>9, <1>10, <1>11 DEF Next

LEMMA Invariant == Spec => []Inv
BY InitOK, NextOK, PTL DEF Spec

\* The console's variables, and those of the procedures under it, have their
\* types: no call is anywhere but at a statement of its procedure.
THEOREM TypesHold == Spec => []TypeOK
<1>1. Inv => TypeOK
  <2> SUFFICES ASSUME Inv PROVE TypeOK
    OBVIOUS
  <2>1. \A c \in Caller :
          /\ call[c].at \in {"idle", "start", "insert", "write", "audit", "publish", "answered"}
          /\ call[c].answer \in {"none", "ok", "refused", "failed"}
          /\ (call[c].answer # "none") <=> (call[c].at = "answered")
    BY StatementsAre DEF Inv, AdminInv, CallsOK, CallShape
  <2>2. notices \subseteq 1..calls /\ \A e \in log : e.room \in RoomId /\ e.call \in 1..calls
    BY DEF Inv, AdminInv, LogOK, Used
  <2> QED BY <2>1, <2>2 DEF TypeOK, Inv, ConsoleInv, ListsOK, DialogOK
<1> QED BY <1>1, Invariant, PTL

\* Whatever calls come between its statements and whichever of them throws, what
\* a procedure of admin.router.ts answers and what the audit log says agree
\* with what was done; a seed makes, logs and reports each starter once.
THEOREM AnswersAccountedFor == Spec => []Accounted
<1>1. Inv => Logged
  <2> SUFFICES ASSUME Inv PROVE Logged
    OBVIOUS
  <2>1. \A c \in Caller : call[c].answer = "ok" /\ call[c].op # "seed" =>
          [action |-> call[c].op, room |-> call[c].id, call |-> call[c].no] \in log
    BY DEF Inv, AdminInv, CallsOK, CallDone, Recorded
  <2> QED BY <2>1 DEF Logged, Inv, AdminInv, LogOK, Used
<1>2. Inv => SeedReports
  <2> SUFFICES ASSUME Inv, NEW c \in Caller, call[c].op = "seed"
               PROVE  /\ call[c].answer # "refused"
                      /\ MadeBy(call[c].no) = call[c].created
                      /\ call[c].created \intersect call[c].skipped = {}
                      /\ call[c].answer = "ok" =>
                            call[c].created \union call[c].skipped = ToSet(Starter)
    BY DEF SeedReports, MadeBy
  <2>1. SeedDone(c)
    BY DEF Inv, AdminInv, CallsOK
  <2>2. PICK k \in 0..Len(Starter) :
            /\ call[c].left = SubSeq(Starter, k + 1, Len(Starter))
            /\ call[c].created \union call[c].skipped = {Starter[i] : i \in 1..k}
    BY <2>1 DEF SeedDone
  <2>3. call[c].answer = "ok" => k = Len(Starter)
    BY <2>1, <2>2, Remaining DEF SeedDone
  <2>4. ToSet(Starter) = {Starter[i] : i \in 1..Len(Starter)}
    BY StarterAssumption, LenProperties DEF ToSet
  <2> QED BY <2>1, <2>2, <2>3, <2>4 DEF SeedDone
<1> QED BY <1>1, <1>2, Invariant, PTL DEF Accounted

\* A tab of page.tsx whose query is neither being fetched nor in error shows the
\* last change made in it, for every interleaving of fetches and answers.
THEOREM ChangesShown == Spec => []OwnChangesListed
<1>1. Inv => OwnChangesListed
  BY DEF Inv, ConsoleInv, ListsOK, OwnChangesListed
<1> QED BY <1>1, Invariant, PTL

-----------------------------------------------------------------------------
(* What a save sends for the policy, whatever the builder makes of a tree.   *)

\* The form of a policy that nobody touched: its tree, and the open policy in
\* place of an empty tree.
FromStored(tree) ==
    \E seq : /\ tree = TreeOf(dialog.loaded, seq).node
             /\ dialog.openPolicy = (tree.kind = "allOf" /\ tree.children = <<>>)

\* A policy that could not be read stands under the guard until the operator leaves
\* the open policy; one that could is the dialog's tree until it is edited.
PolicyHeld ==
    dialog.edit # NoRoom /\ ~dialog.toggled =>
        IF ReadablePolicy(dialog.loaded)
        THEN ~dialog.edited => FromStored(dialog.root)
        ELSE dialog.openPolicy /\ dialog.parseError

\* What serializing the tree of a policy gives: the open policy for an empty tree.
RoundTrip(policy, sent) ==
    \E seq : LET tree == TreeOf(policy, seq).node
             IN  sent = IF tree.kind = "allOf" /\ tree.children = <<>> THEN OpenPolicy
                        ELSE PolicyOf(tree)

UntouchedRoundTrips(sent) ==
    ReadablePolicy(dialog.loaded) /\ ~dialog.toggled /\ ~dialog.edited =>
        RoundTrip(dialog.loaded, sent)

LEMMA OpenEditHolds == ASSUME NEW r \in RoomId, OpenEdit(r) PROVE PolicyHeld'
<1> DEFINE p == shown[r].policy
           tree == IF ReadablePolicy(p) THEN TreeOf(p, NextId(nodeIds)).node ELSE MakeAllOf(nodeIds)
<1>1. /\ dialog'.loaded = p /\ dialog'.root = tree
      /\ dialog'.openPolicy = (tree.kind = "allOf" /\ tree.children = <<>>)
      /\ dialog'.parseError = ~ReadablePolicy(p)
  <2>1. dialog' = FormOf(r)
    BY DEF OpenEdit
  <2> HIDE DEF p, tree
  <2> QED BY <2>1, ClosedFields DEF FormOf, LoadedForm, p, tree
<1>2. CASE ReadablePolicy(p)
  <2>1. tree = TreeOf(p, NextId(nodeIds)).node
    BY <1>2
  <2> HIDE DEF p, tree
  <2>2. FromStored(dialog.root)'
    BY <1>1, <2>1 DEF FromStored
  <2> QED BY <1>1, <1>2, <2>2 DEF PolicyHeld
<1>3. CASE ~ReadablePolicy(p)
  <2>1. tree.kind = "allOf" /\ tree.children = <<>>
    BY <1>3 DEF MakeAllOf, Node
  <2> HIDE DEF p, tree
  <2> QED BY <1>1, <1>3, <2>1 DEF PolicyHeld
<1> QED BY <1>2, <1>3

\* What is typed into the other fields of the form.
LEMMA FormHolds ==
    ASSUME DialogOK, PolicyHeld, Types(dialog'), DOMAIN dialog' = DOMAIN Closed,
           \A f \in {"edit", "loaded", "root", "openPolicy", "parseError", "toggled", "edited"} :
              dialog'[f] = dialog[f]
    PROVE  PolicyHeld'
BY DEF PolicyHeld, FromStored

LEMMA PolicyHeldNext == Inv /\ PolicyHeld /\ [Next]_vars => PolicyHeld'
<1> SUFFICES ASSUME Inv, PolicyHeld, [Next]_vars PROVE PolicyHeld'
  OBVIOUS
<1>1. DialogOK /\ DOMAIN dialog = DOMAIN Closed
  BY DEF Inv, ConsoleInv, DialogOK
<1>2. ASSUME dialog' = dialog PROVE PolicyHeld'
  BY <1>2 DEF PolicyHeld, FromStored
<1>3. ASSUME dialog' \in {Closed, DefaultForm} PROVE PolicyHeld'
  BY <1>3, ClosedFields DEF PolicyHeld, DefaultForm
<1>4. ASSUME NEW r \in RoomId, OpenEdit(r) PROVE PolicyHeld'
  BY <1>4, OpenEditHolds
<1>5. ASSUME NEW c \in Caller, Settle(c) PROVE PolicyHeld'
  BY <1>2, <1>3, <1>5 DEF Settle
<1>6. ASSUME \/ \E name \in Name : Rename(name)
             \/ \E e \in {"PLAINTEXT", "AES"} : ChooseEncryption(e)
             \/ \E p \in {"", "short", "long"} : TypePassword(p)
      PROVE  PolicyHeld'
  BY <1>1, <1>6, ClosedFields, FormHolds DEF Rename, ChooseEncryption, TypePassword, Types
<1>7. ASSUME TogglePolicy PROVE PolicyHeld'
  <2>1. dialog'.toggled = TRUE
    BY <1>1, <1>7, ClosedFields DEF TogglePolicy, Types
  <2> QED BY <2>1 DEF PolicyHeld
<1>8. ASSUME EditPolicy PROVE PolicyHeld'
  <2>1. PICK tree : dialog' = [dialog EXCEPT !.root = tree, !.edited = TRUE]
    BY <1>8 DEF EditPolicy
  <2>2. /\ dialog'.edited = TRUE /\ ~dialog.openPolicy
        /\ \A f \in {"edit", "loaded", "toggled", "openPolicy", "parseError"} : dialog'[f] = dialog[f]
    BY <1>1, <1>8, <2>1, ClosedFields DEF EditPolicy
  <2> QED BY <2>2 DEF PolicyHeld
<1>9. CASE UNCHANGED vars
  BY <1>2, <1>9 DEF vars, console
<1>10. ASSUME \/ \E c \in Caller : ServerStep(c) /\ UNCHANGED console
              \/ \E v \in View : ListRead(v) \/ ListArrive(v) \/ ListFail(v) \/ Remount(v)
              \/ Submit \/ Seed \/ Other
              \/ \E r \in RoomId : Delete(r) \/ TogglePin(r) \/ Broadcast(r)
                                   \/ BanFromBans(r) \/ BanFromMembers(r)
       PROVE  PolicyHeld'
  <2>1. dialog' = dialog
    BY <1>10 DEF console, ListRead, ListArrive, ListFail, Remount, Submit, Seed, Other, Delete,
                 TogglePin, Broadcast, BanFromBans, BanFromMembers, Presses
  <2> QED BY <1>2, <2>1
<1>11. ASSUME OpenCreate \/ Cancel PROVE PolicyHeld'
  BY <1>3, <1>11 DEF OpenCreate, Cancel
<1> QED BY <1>4, <1>5, <1>6, <1>7, <1>8, <1>9, <1>10, <1>11 DEF Next

\* What a save of a room asks for.
LEMMA SentPolicy ==
    ASSUME Inv, Submit, dialog.edit # NoRoom
    PROVE  call'["save"].set.policy = FormPolicy
<1> DEFINE request == Request("update", dialog.edit, FormFields)
<1>1. Send("save", request) /\ "save" \in DOMAIN call
  BY Callers DEF Submit, Inv, AdminInv, CallsOK
<1>2. "set" \in DOMAIN request /\ request.set = FormFields
  BY DEF Request
<1>3. FormFields.policy = FormPolicy
  BY DEF FormFields
<1> HIDE DEF request
<1>4. call'["save"] = [request EXCEPT !.no = calls + 1]
  BY <1>1 DEF Send
<1> QED BY <1>2, <1>3, <1>4

\* The dialog of page.tsx never replaces a policy it could not show unless the
\* operator left the open policy, and saves a policy that was not touched as what
\* serializing its tree gives: for any builder, rooms, and steps in between.
THEOREM PolicyOnlyByChoice ==
    Spec => [][Submit /\ dialog.edit # NoRoom =>
                   OpenOnlyByChoice /\ UntouchedRoundTrips(call'["save"].set.policy)]_vars
<1> DEFINE A == Submit /\ dialog.edit # NoRoom =>
                   OpenOnlyByChoice /\ UntouchedRoundTrips(call'["save"].set.policy)
<1>1. Init => PolicyHeld
  BY ClosedFields DEF Init, PolicyHeld
<1>2. Inv /\ PolicyHeld => [A]_vars
  <2> SUFFICES ASSUME Inv, PolicyHeld, Submit, dialog.edit # NoRoom
               PROVE  OpenOnlyByChoice /\ UntouchedRoundTrips(call'["save"].set.policy)
    OBVIOUS
  <2>1. OpenOnlyByChoice
    BY DEF PolicyHeld, Submit, OpenOnlyByChoice
  <2>2. ASSUME ReadablePolicy(dialog.loaded), ~dialog.toggled, ~dialog.edited
        PROVE  RoundTrip(dialog.loaded, FormPolicy)
    <3>1. FromStored(dialog.root)
      BY <2>2 DEF PolicyHeld
    <3> QED BY <3>1 DEF FromStored, RoundTrip, FormPolicy
  <2> QED BY <2>1, <2>2, SentPolicy DEF UntouchedRoundTrips
<1> HIDE DEF A
<1>3. Spec => [][A]_vars
  BY <1>1, <1>2, PolicyHeldNext, Invariant, PTL DEF Spec
<1> QED BY <1>3 DEF A

================================================================================
