------------------------------- MODULE RoomAdmin -------------------------------
(***************************************************************************)
(* The operator's procedures on rooms: create, seedDefaults, update, delete  *)
(* and broadcast.  A call is a list of awaited statements, no two of them in *)
(* one transaction, that any other call can come between; a call that throws *)
(* keeps what it has committed.  A ban is one transaction (Membership models *)
(* it) and is a single step here.                                           *)
(***************************************************************************)
EXTENDS PolicyTree, FiniteSets, SequencesExt

CONSTANTS
    ValidPolicy(_), \* the policy is accepted (PolicyBuilder's Valid)
    Caller,         \* one per call that can be under way at a time
    Name, Slug,     \* room names and slugs
    Starter,        \* the slugs of STARTER_ROOMS, in order
    MaxRooms,       \* bound on rooms ever created
    MaxCalls,       \* bound on calls made
    MaxAttempts,    \* attempts of createRoomRow (5 in the code)
    MaxEvents       \* bound on what goes another way, taken together: statements
                    \* that throw, rlnIdentifiers that collide, and what
                    \* the console adds

ASSUME StarterAssumption ==
    Starter \in Seq(Slug) /\ \A i, j \in DOMAIN Starter : Starter[i] = Starter[j] => i = j
ASSUME SlugAssumption == Blank \notin Slug
ASSUME AdminBoundsAssumption == {MaxRooms, MaxCalls, MaxAttempts, MaxEvents} \subseteq Nat

VARIABLES
    rooms,      \* the Room table: a row per id ever given out
    log,        \* the AuditLog table: what was done, to which room, by which call
    notices,    \* calls whose system message was published
    version,    \* how often the rooms, and the bans, have changed
    call,       \* the calls under way
    calls,      \* how many calls were made
    events      \* how many of those have happened

store == <<rooms, log, notices, version>>
admin == <<store, call, calls, events>>

RoomId == 1..MaxRooms
NoRoom == 0
RoomRow(name, slug, encryption, password, pinned, policy) ==
    [live |-> TRUE, name |-> name, slug |-> slug, encryption |-> encryption,
     password |-> password, pinned |-> pinned, policy |-> policy]
NoRow == [RoomRow(Blank, Blank, "PLAINTEXT", "", FALSE, OpenPolicy) EXCEPT !.live = FALSE]
StarterRow(slug) ==
    RoomRow(slug, slug, "PLAINTEXT", "", slug = Starter[1], OpenPolicy)

\* The fields a call carries, and what it has done so far.
Request(op, id, set) ==
    [op |-> op, id |-> id, set |-> set, at |-> "start", answer |-> "none", no |-> 0,
     attempt |-> 1, left |-> IF op = "seed" THEN Starter ELSE <<>>, created |-> {},
     skipped |-> {}, rev |-> 0]
NoCall == [Request("none", NoRoom, <<>>) EXCEPT !.at = "idle"]

AdminInit ==
    /\ log = {} /\ notices = {} /\ calls = 0 /\ events = 0
    /\ version = [rooms |-> 0, bans |-> 0]
    /\ call = [c \in Caller |-> NoCall]

\* A caller sends its request.
Send(c, request) ==
    /\ call[c].at = "idle"
    /\ calls < MaxCalls
    /\ calls' = calls + 1
    /\ call' = [call EXCEPT ![c] = [request EXCEPT !.no = calls + 1]]
    /\ UNCHANGED <<store, events>>

Running(c, op, at) == call[c].op = op /\ call[c].at = at
Known(id) == id \in RoomId /\ rooms[id].live
SlugTaken(slug, but) == \E r \in RoomId \ {but} : rooms[r].live /\ rooms[r].slug = slug

\* The record with the fields of `change` in place of its own.
With(record, change) ==
    [f \in DOMAIN record |-> IF f \in DOMAIN change THEN change[f] ELSE record[f]]

\* The next statement of the call, having changed the call's own variables.
Goes(c, change) == call' = [call EXCEPT ![c] = With(@, change)]
Answer(c, what) == Goes(c, [at |-> "answered", answer |-> what])

\* A statement that commits a change of the rooms or of the bans.
Commits(c, what, change) ==
    /\ version' = [version EXCEPT ![what] = @ + 1]
    /\ call' = [call EXCEPT ![c] = With(With(@, change), [rev |-> version[what] + 1])]

Event == events < MaxEvents /\ events' = events + 1

\* Any statement throws; what was committed before it stays.
Throw(c) ==
    /\ call[c].at \notin {"idle", "answered"}
    /\ Event
    /\ Answer(c, "failed")
    /\ UNCHANGED <<store, calls>>

-----------------------------------------------------------------------------
(* createRoomRow                                                            *)

\* Nobody has the slug: the row is inserted ...
InsertRow(c, row) ==
    /\ ~SlugTaken(row.slug, NoRoom)
    /\ \E id \in RoomId :
        /\ id = 1 + Cardinality({r \in RoomId : rooms[r].slug # Blank})
        /\ rooms' = [rooms EXCEPT ![id] = row]
        /\ Commits(c, "rooms", [at |-> "audit", id |-> id])
    /\ UNCHANGED <<log, notices, calls, events>>

\* ... or its random rlnIdentifier is another room's, and a fresh one is tried.
Collide(c) ==
    /\ call[c].at = "insert"
    /\ \E r \in RoomId : rooms[r].live
    /\ Event
    /\ IF call[c].attempt < MaxAttempts THEN Goes(c, [attempt |-> call[c].attempt + 1])
       ELSE Answer(c, "failed")
    /\ UNCHANGED <<store, calls>>

\* The floor on the password of an AES room.
LongEnough(password) == password \notin {"", "short"}

CreateStart(c) ==
    /\ Running(c, "create", "start")
    /\ LET row == call[c].set
       IN  IF ValidPolicy(row.policy)
                /\ (row.encryption = "AES" => LongEnough(row.password))
           THEN Goes(c, [at |-> "insert"]) ELSE Answer(c, "refused")
    /\ UNCHANGED <<store, calls, events>>

\* room.create: a taken slug is the caller's error.
CreateInsert(c) ==
    /\ Running(c, "create", "insert")
    /\ \/ InsertRow(c, call[c].set)
       \/ /\ SlugTaken(call[c].set.slug, NoRoom)
          /\ Answer(c, "refused")
          /\ UNCHANGED <<store, calls, events>>

-----------------------------------------------------------------------------
(* seedDefaults                                                             *)

\* The loop's head: no starter is left, this one exists, or it is to be made.
SeedFind(c) ==
    /\ Running(c, "seed", "start")
    /\ LET left == call[c].left
       IN  IF left = <<>> THEN Answer(c, "ok")
           ELSE IF SlugTaken(Head(left), NoRoom)
                THEN Goes(c, [left |-> Tail(left), skipped |-> call[c].skipped \union {Head(left)}])
                ELSE Goes(c, [at |-> "insert", attempt |-> 1])
    /\ UNCHANGED <<store, calls, events>>

\* Mutant: the catch rethrows a taken slug.
LostRaceRethrows(c) == Answer(c, "refused")

\* A create lost to another one counts as skipped.
LostRace(c) ==
    Goes(c, [at |-> "start", left |-> Tail(call[c].left),
             skipped |-> call[c].skipped \union {Head(call[c].left)}])

SeedInsert(c) ==
    /\ Running(c, "seed", "insert")
    /\ LET slug == Head(call[c].left)
       IN  \/ InsertRow(c, StarterRow(slug))
           \/ /\ SlugTaken(slug, NoRoom)
              /\ LostRace(c)
              /\ UNCHANGED <<store, calls, events>>

-----------------------------------------------------------------------------
(* update and delete                                                        *)

\* The row is read, and the request checked against it.
UpdateRead(c) ==
    /\ Running(c, "update", "start")
    /\ LET set == call[c].set
           row == rooms[call[c].id]
           aes == IF "encryption" \in DOMAIN set THEN set.encryption = "AES"
                  ELSE row.encryption = "AES"
           weak == aes /\ "password" \in DOMAIN set /\ ~LongEnough(set.password)
       IN  IF /\ Known(call[c].id)
              /\ ~weak
              /\ ("policy" \in DOMAIN set => ValidPolicy(set.policy))
           THEN Goes(c, [at |-> "write"]) ELSE Answer(c, "refused")
    /\ UNCHANGED <<store, calls, events>>

\* A changed userMessageLimit is refused when the room has a member, by a
\* second read (Membership's LimitCheck); members are not modelled here.
UpdateRefused(c) ==
    /\ Running(c, "update", "write")
    /\ "name" \in DOMAIN call[c].set
    /\ Event
    /\ Answer(c, "refused")
    /\ UNCHANGED <<store, calls>>

\* The fields of the request are written over the row, if it is still there
\* and no other room has the slug.
UpdateWrite(c) ==
    /\ Running(c, "update", "write")
    /\ LET id == call[c].id
           row == With(rooms[id], call[c].set)
       IN  IF Known(id) /\ ~SlugTaken(row.slug, id)
           THEN /\ rooms' = [rooms EXCEPT ![id] = row]
                /\ Commits(c, "rooms", [at |-> "audit"])
           ELSE Answer(c, "failed") /\ UNCHANGED <<rooms, version>>
    /\ UNCHANGED <<log, notices, calls, events>>

DeleteFind(c) ==
    /\ Running(c, "delete", "start")
    /\ IF Known(call[c].id) THEN Goes(c, [at |-> "write"]) ELSE Answer(c, "refused")
    /\ UNCHANGED <<store, calls, events>>

DeleteRow(c) ==
    /\ Running(c, "delete", "write")
    /\ IF Known(call[c].id)
       THEN /\ rooms' = [rooms EXCEPT ![call[c].id].live = FALSE]
            /\ Commits(c, "rooms", [at |-> "audit"])
       ELSE Answer(c, "failed") /\ UNCHANGED <<rooms, version>>
    /\ UNCHANGED <<log, notices, calls, events>>

-----------------------------------------------------------------------------
(* broadcast, the bans, and the audit row that ends a call                  *)

BroadcastFind(c) ==
    /\ Running(c, "broadcast", "start")
    /\ IF Known(call[c].id) THEN Goes(c, [at |-> "audit"]) ELSE Answer(c, "refused")
    /\ UNCHANGED <<store, calls, events>>

Publish(c) ==
    /\ Running(c, "broadcast", "publish")
    /\ notices' = notices \union {call[c].no}
    /\ Answer(c, "ok")
    /\ UNCHANGED <<rooms, log, version, calls, events>>

\* A ban or an unban: the transaction, its audit row included.
Ban(c) ==
    /\ Running(c, "ban", "start")
    /\ log' = log \union {[action |-> "ban", room |-> call[c].id, call |-> call[c].no]}
    /\ Commits(c, "bans", [at |-> "answered", answer |-> "ok"])
    /\ UNCHANGED <<rooms, notices, calls, events>>

\* The audit row of a call, and what it does next.
Audit(c) ==
    /\ call[c].at = "audit"
    /\ log' = log \union {[action |-> call[c].op, room |-> call[c].id, call |-> call[c].no]}
    /\ CASE call[c].op = "seed" ->
                Goes(c, [at |-> "start", left |-> Tail(call[c].left),
                         created |-> call[c].created \union {Head(call[c].left)}])
         [] call[c].op = "broadcast" -> Goes(c, [at |-> "publish"])
         [] OTHER -> Answer(c, "ok")
    /\ UNCHANGED <<rooms, notices, version, calls, events>>

ServerStep(c) ==
    \/ CreateStart(c) \/ CreateInsert(c) \/ Collide(c)
    \/ SeedFind(c) \/ SeedInsert(c)
    \/ UpdateRead(c) \/ UpdateRefused(c) \/ UpdateWrite(c)
    \/ DeleteFind(c) \/ DeleteRow(c)
    \/ BroadcastFind(c) \/ Publish(c)
    \/ Ban(c) \/ Audit(c) \/ Throw(c)
=============================================================================
