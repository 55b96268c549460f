------------------------------ MODULE RoomConsole ------------------------------
(***************************************************************************)
(* The operator console in one browser, over the procedures of RoomAdmin:    *)
(* the cached room list, the dialog that creates or edits a room with its    *)
(* policy builder, the buttons of the rooms tab, and the ban and member      *)
(* tabs.  Each button has a mutation of its own, so they run side by side;   *)
(* another operator's calls come between them.  The operator stays in one    *)
(* tab: the others are unmounted.                                           *)
(*                                                                          *)
(* The policy builder is a parameter: OperatorConsole puts PolicyBuilder in. *)
(***************************************************************************)
EXTENDS RoomAdmin

CONSTANTS
    ReadablePolicy(_),  \* the builder can read the policy (PolicyBuilder's Readable),
    TreeOf(_, _),       \* into a tree (Deserialize),
    PolicyOf(_),        \* and back (Serialize)
    EditsOf(_, _),      \* trees one interaction leads to (Edits)
    IdsOf(_),           \* ids of a tree (Ids)
    Slugify,        \* the slug of each name
    StoredPolicy,   \* policies the first room may have been stored with
    OthersCalls     \* what the other operator may ask for

ASSUME SlugifyAssumption == Slugify \in [Name -> Slug] /\ "tea" \in Slug
ASSUME CallerAssumption ==
    Caller = {"save", "remove", "seed", "pin", "broadcast", "bans", "members", "other"}

\* The other operator bans nobody, and slugs come from names: only a create has one.
ASSUME OthersAssumption ==
    \A request \in OthersCalls :
        /\ request.op \in {"create", "seed", "update", "delete", "broadcast"}
        /\ request = Request(request.op, request.id, request.set)
        /\ request.op = "create" => \E slug \in Slug : request.set = [NoRow EXCEPT
              !.live = TRUE, !.slug = slug, !.name = request.set.name,
              !.encryption = request.set.encryption, !.password = request.set.password,
              !.pinned = request.set.pinned, !.policy = request.set.policy]
        /\ request.op = "update" => DOMAIN request.set \intersect {"live", "slug"} = {}

VARIABLES
    tab,        \* the tab the operator works in
    view,       \* each cached query: its progress, the version it shows
    shown,      \* the rows the room list shows
    reading,    \* the rows the server has read for a room list under way
    dialog,     \* the dialog and its form
    nodeIds,    \* _idSeq of the policy builder
    own         \* history: per query, the newest change made from a tab that shows it

console == <<tab, view, shown, reading, dialog, nodeIds, own>>
vars == <<admin, console>>

Tab == {"rooms", "members", "bans", "broadcast"}
View == {"rooms"} \union ({tab} \ {"broadcast"})    \* every tab lists the rooms
Source(v) == IF v = "rooms" THEN "rooms" ELSE "bans"

Closed == [open |-> FALSE, edit |-> NoRoom, name |-> Blank, slug |-> Blank,
           encryption |-> "PLAINTEXT", password |-> "", openPolicy |-> TRUE,
           root |-> MakeAllOf(0), parseError |-> FALSE, loaded |-> OpenPolicy,
           toggled |-> FALSE, edited |-> FALSE]

Init ==
    /\ AdminInit
    /\ \E p \in StoredPolicy :
        rooms = [r \in RoomId |-> IF r = 1 THEN RoomRow("tea", "tea", "PLAINTEXT", "", FALSE, p)
                                  ELSE NoRow]
    /\ tab \in Tab
    /\ view = [v \in View |-> [at |-> "asked", rev |-> 0, loaded |-> FALSE]]
    /\ shown = [r \in RoomId |-> NoRow]
    /\ reading = shown
    /\ dialog = Closed
    /\ nodeIds = 1
    /\ own = [v \in View |-> 0]

TypeOK ==
    /\ tab \in Tab /\ DOMAIN view = View
    /\ \A c \in Caller :
        /\ call[c].at \in {"idle", "start", "insert", "write", "audit", "publish", "answered"}
        /\ call[c].answer \in {"none", "ok", "refused", "failed"}
        /\ (call[c].answer # "none") <=> (call[c].at = "answered")
    /\ \A e \in log : e.room \in RoomId /\ e.call \in 1..calls
    /\ notices \subseteq 1..calls
    /\ \A v \in View : /\ view[v].at \in {"asked", "read", "fresh", "error"}
                       /\ view[v].rev <= version[Source(v)]
                       /\ own[v] <= version[Source(v)]
    /\ dialog.edit \in RoomId \union {NoRoom}
    /\ dialog.parseError => dialog.open /\ dialog.openPolicy

\* What the operator does in the dialog matters as long as a call may follow.
OperatorEvent == Event /\ calls < MaxCalls /\ UNCHANGED <<store, call, calls>>

-----------------------------------------------------------------------------
(* The cached queries.                                                      *)

\* invalidateQueries: a shown query is fetched again, a fetch under way being
\* dropped; the first fetch of a query that shows nothing yet is not.
Invalidated(vs) ==
    [v \in View |-> IF v \in vs /\ (view[v].loaded \/ view[v].at = "error")
                    THEN [view[v] EXCEPT !.at = "asked"] ELSE view[v]]

\* The server reads the rows ...
ListRead(v) ==
    /\ view[v].at = "asked"
    /\ view' = [view EXCEPT ![v].at = "read", ![v].rev = version[Source(v)]]
    /\ reading' = IF v = "rooms" THEN rooms ELSE reading
    /\ UNCHANGED <<admin, tab, shown, dialog, nodeIds, own>>

\* ... and they reach the browser ...
ListArrive(v) ==
    /\ view[v].at = "read"
    /\ view' = [view EXCEPT ![v].at = "fresh", ![v].loaded = TRUE]
    /\ shown' = IF v = "rooms" THEN reading ELSE shown
    /\ UNCHANGED <<admin, tab, reading, dialog, nodeIds, own>>

\* ... or do not, and the tab says so.
ListFail(v) ==
    /\ view[v].at \in {"asked", "read"}
    /\ Event
    /\ view' = [view EXCEPT ![v].at = "error"]
    /\ UNCHANGED <<store, call, calls, tab, shown, reading, dialog, nodeIds, own>>

\* A query that went stale is fetched when its tab is mounted again.
Remount(v) ==
    /\ view[v].at \in {"fresh", "error"}
    /\ OperatorEvent
    /\ view' = [view EXCEPT ![v].at = "asked"]
    /\ UNCHANGED <<tab, shown, reading, dialog, nodeIds, own>>

-----------------------------------------------------------------------------
(* The room dialog.                                                         *)

\* makeDefaultRoomForm
DefaultForm == [Closed EXCEPT !.open = TRUE, !.root = MakeAllOf(nodeIds)]

\* The form of a room: a policy that cannot be read leaves the open one.  An id
\* goes to the open policy before the stored one is read.
LoadedForm(r) ==
    LET row == shown[r]
        read == TreeOf(row.policy, NextId(nodeIds))
        tree == IF ReadablePolicy(row.policy) THEN read.node ELSE MakeAllOf(nodeIds)
    IN  [Closed EXCEPT !.open = TRUE, !.edit = r, !.name = row.name, !.slug = row.slug,
                       !.encryption = row.encryption, !.root = tree,
                       !.openPolicy = tree.kind = "allOf" /\ tree.children = <<>>, !.loaded = row.policy]

\* Mutant: a failed parse is not remembered.
FormOfUnguarded(r) == LoadedForm(r)

\* roomToFormState: with the guard, where it does not show the stored policy.
FormOf(r) == [LoadedForm(r) EXCEPT !.parseError = ~ReadablePolicy(shown[r].policy)]

OpenCreate ==
    /\ tab = "rooms" /\ ~dialog.open
    /\ OperatorEvent
    /\ dialog' = DefaultForm
    /\ nodeIds' = NextId(nodeIds)
    /\ UNCHANGED <<tab, view, shown, reading, own>>

OpenEdit(r) ==
    /\ tab = "rooms" /\ ~dialog.open
    /\ view["rooms"].loaded
    /\ shown[r].live
    /\ OperatorEvent
    /\ dialog' = FormOf(r)
    /\ nodeIds' = IF ReadablePolicy(shown[r].policy)
                  THEN TreeOf(shown[r].policy, NextId(nodeIds)).seq ELSE NextId(nodeIds)
    /\ UNCHANGED <<tab, view, shown, reading, own>>

Cancel ==
    /\ dialog.open
    /\ OperatorEvent
    /\ dialog' = Closed
    /\ UNCHANGED <<tab, view, shown, reading, nodeIds, own>>

Types(form) ==
    /\ dialog.open
    /\ OperatorEvent
    /\ dialog' = form
    /\ UNCHANGED <<tab, view, shown, reading, nodeIds, own>>

\* nameChangeUpdate: the slug follows the name of a new room only.
Rename(name) ==
    Types([dialog EXCEPT !.name = name,
                         !.slug = IF dialog.edit # NoRoom THEN @ ELSE Slugify[name]])

ChooseEncryption(e) == Types([dialog EXCEPT !.encryption = e])

TypePassword(p) ==
    dialog.encryption = "AES" /\ Types([dialog EXCEPT !.password = p])

\* Mutant: only the flag is flipped.
TogglePolicyKeepsGuard == Types([dialog EXCEPT !.openPolicy = ~@, !.toggled = TRUE])

\* Leaving the open policy lifts the guard.
TogglePolicy ==
    Types([dialog EXCEPT !.openPolicy = ~@, !.toggled = TRUE,
                         !.parseError = @ /\ ~dialog.openPolicy])

EditPolicy ==
    /\ dialog.open /\ ~dialog.openPolicy
    /\ OperatorEvent
    /\ \E tree \in EditsOf(dialog.root, nodeIds) :
        /\ dialog' = [dialog EXCEPT !.root = tree, !.edited = TRUE]
        /\ nodeIds' = IF NextId(nodeIds) \in IdsOf(tree) THEN NextId(nodeIds) ELSE nodeIds
    /\ UNCHANGED <<tab, view, shown, reading, own>>

\* What the form asks for: the open policy or the tree's, and a password if
\* one was typed.
FormPolicy == IF dialog.openPolicy THEN OpenPolicy ELSE PolicyOf(dialog.root)
FormFields ==
    LET form == [name |-> dialog.name, slug |-> dialog.slug, encryption |-> dialog.encryption,
                 password |-> dialog.password, policy |-> FormPolicy]
    IN  [f \in DOMAIN form \ (IF dialog.password = "" THEN {"password"} ELSE {}) |-> form[f]]

\* handleSubmit: refused while the guard stands, or if the tree is not valid.
Submit ==
    /\ dialog.open /\ dialog.name # Blank
    /\ dialog.edit = NoRoom /\ dialog.encryption = "AES" => dialog.password # ""
    /\ ~(dialog.openPolicy /\ dialog.parseError)
    /\ ValidPolicy(FormPolicy)
    /\ Send("save", IF dialog.edit # NoRoom THEN Request("update", dialog.edit, FormFields)
                    ELSE Request("create", NoRoom,
                                 RoomRow(dialog.name, dialog.slug, dialog.encryption,
                                         dialog.password, FALSE, FormPolicy)))
    /\ UNCHANGED <<tab, view, shown, reading, dialog, nodeIds, own>>

-----------------------------------------------------------------------------
(* The other buttons, and what an answer does.                              *)

Presses(c, request) ==
    /\ Send(c, request)
    /\ UNCHANGED console

Rooms(r) == tab = "rooms" /\ ~dialog.open /\ shown[r].live
Delete(r) == Rooms(r) /\ Presses("remove", Request("delete", r, <<>>))
TogglePin(r) == Rooms(r) /\ Presses("pin", Request("update", r, [pinned |-> ~shown[r].pinned]))
Seed == tab = "rooms" /\ ~dialog.open /\ Presses("seed", Request("seed", NoRoom, <<>>))

\* The tab of a chosen room, where members are banned and unbanned.
BanFromBans(r) == tab = "bans" /\ shown[r].live /\ Presses("bans", Request("ban", r, <<>>))
BanFromMembers(r) ==
    tab = "members" /\ shown[r].live /\ Presses("members", Request("ban", r, <<>>))

\* The broadcast tab.
Broadcast(r) == tab = "broadcast" /\ shown[r].live /\ Presses("broadcast", Request("broadcast", r, <<>>))
Other == \E request \in OthersCalls : Presses("other", request)

\* Mutant: every mutation invalidates what the helper does.
RefetchedByHelper(c) == IF c = "other" THEN {} ELSE {"members"}

\* The queries a success invalidates: useAdminMutation the members, and the
\* handlers of the bans tab the bans too.
Refetched(c) ==
    CASE c \in {"save", "remove", "seed", "pin"} -> {"rooms"}
      [] c = "bans" -> {"members", "bans"}
      [] c = "members" -> {"members"}
      [] OTHER -> {}

\* The answer arrives.  A saved dialog closes, whichever one is open by now.
Settle(c) ==
    /\ call[c].at = "answered"
    /\ call' = [call EXCEPT ![c] = NoCall]
    /\ IF call[c].answer = "ok"
       THEN /\ view' = Invalidated(Refetched(c))
            /\ own' = [v \in View |-> IF v = tab /\ c \notin {"broadcast", "other"} /\ view[v].loaded
                                      THEN call[c].rev ELSE own[v]]
            /\ dialog' = IF c = "save" THEN Closed ELSE dialog
       ELSE UNCHANGED <<view, own, dialog>>
    /\ UNCHANGED <<store, calls, events, tab, shown, reading, nodeIds>>

Next ==
    \/ \E c \in Caller : (ServerStep(c) /\ UNCHANGED console) \/ Settle(c)
    \/ \E v \in View : ListRead(v) \/ ListArrive(v) \/ ListFail(v) \/ Remount(v)
    \/ OpenCreate \/ Cancel \/ TogglePolicy \/ EditPolicy \/ Submit \/ Seed \/ Other
    \/ \E r \in RoomId : OpenEdit(r) \/ Delete(r) \/ TogglePin(r) \/ Broadcast(r)
                         \/ BanFromBans(r) \/ BanFromMembers(r)
    \/ \E name \in Name : Rename(name)
    \/ \E e \in {"PLAINTEXT", "AES"} : ChooseEncryption(e)
    \/ \E p \in {"", "short", "long"} : TypePassword(p)

Spec == Init /\ [][Next]_vars

-----------------------------------------------------------------------------
(* What must hold.                                                          *)

\* What the operators did can be read in the audit log: a call that was
\* answered "ok" has its row, a message that was published was logged before,
\* and a row tells of a change that was made, whatever statement of the call threw.
Logged ==
    /\ \A c \in Caller : call[c].answer = "ok" /\ call[c].op # "seed" =>
        [action |-> call[c].op, room |-> call[c].id, call |-> call[c].no] \in log
    /\ \A no \in notices : \E e \in log : e.action = "broadcast" /\ e.call = no
    /\ \A e \in log : /\ rooms[e.room].slug # Blank
                      /\ e.action = "delete" => ~rooms[e.room].live

\* A seed says of every starter room whether it made it, logs those it made and
\* no others, and never fails because another operator made one first.
SeedReports ==
    \A c \in Caller : call[c].op = "seed" =>
        LET made == {rooms[e.room].slug : e \in {x \in log : x.call = call[c].no}}
        IN  /\ call[c].answer # "refused"
            /\ made = call[c].created
            /\ call[c].created \intersect call[c].skipped = {}
            /\ call[c].answer = "ok" => call[c].created \union call[c].skipped = ToSet(Starter)

\* The log and the answers of the admin procedures agree with what was done
\* (admin.router.ts), under every interleaving and failure of the calls.
Accounted == Logged /\ SeedReports

\* A policy the builder cannot read is only replaced after the operator pressed
\* the button that builds another: never because a dialog was opened and saved.
OpenOnlyByChoice == ~ReadablePolicy(dialog.loaded) => dialog.toggled

\* A tab shows what was done in it: a query of page.tsx that is neither being
\* fetched nor in error is as new as the last change the operator made, and
\* had answered, in a tab that shows it.
OwnChangesListed == \A v \in View : view[v].at = "fresh" => view[v].rev >= own[v]
=============================================================================
