------------------------------- MODULE RoomVisit -------------------------------
(***************************************************************************)
(* What a browser does with its identity in one room: it discloses badges,  *)
(* joins, and sends, reserving RLN message ids from a counter that all its   *)
(* tabs and accounts share, without a lock.  Each tab runs one script at a   *)
(* time; the steps of two tabs interleave, and the clock may be set back.    *)
(*                                                                          *)
(* The room's tree is kept as the leaf of each account; whether the server   *)
(* accepts a join is Membership.tla's business.                             *)
(***************************************************************************)
EXTENDS BrowserIdentity

CONSTANTS
    Limit,      \* Room.userMessageLimit
    MaxClock,   \* bound on the clock, in RLN epochs
    MaxSends    \* bound on the sends

ASSUME VisitAssumption == Limit \in Nat \ {0} /\ MaxClock \in Nat /\ MaxSends \in Nat

VARIABLES
    clock,      \* floor(Date.now() / rateLimit) of the browser's clock
    leaf,       \* the server's tree: each account's leaf, by the branch it comes from
    roomToken,  \* sessionStorage: whose per-room id_token each tab has stashed
    record,     \* localStorage: whose join the browser recorded for the room
    counter,    \* localStorage: message ids used in an epoch
    reserving,  \* per tab: the reservation its composer is making
    sending,    \* sends between their reservation and their end
    signed,     \* history: signals that left the browser
    twice,      \* history: a signal left it twice, with another content
    disturbed   \* history: a reservation began in the middle of another tab's, or
                \* in an epoch older than the counter's

visitVars == <<clock, leaf, roomToken, record, counter, reserving, sending, signed, twice, disturbed>>
vars == <<browserVars, visitVars>>

Signal == [b : Branch, epoch : 0..MaxClock, mid : 0..Limit - 1]
Reservation == [b : Branch, epoch : 0..MaxClock, used : 0..Limit - 1, read : BOOLEAN]
Send == [signal : Signal, tab : Tab, here : BOOLEAN]

VisitTypeOK ==
    /\ clock \in 0..MaxClock
    /\ leaf \in [Account -> Branch \union {None}]
    /\ roomToken \in [Tab -> Account \union {None}]
    /\ record \in Account \union {None}
    /\ counter \in [epoch : 0..MaxClock, next : 0..Limit]
    /\ reserving \in [Tab -> Reservation \union {None}]
    /\ sending \subseteq Send
    /\ signed \subseteq Signal
    /\ twice \in BOOLEAN
    /\ disturbed \in BOOLEAN

TypeOK == BrowserTypeOK /\ VisitTypeOK

Init ==
    /\ BrowserInit
    /\ clock = 0
    /\ leaf = [a \in Account |-> None]
    /\ roomToken = [t \in Tab |-> None]
    /\ record = None
    /\ counter = [epoch |-> 0, next |-> 0]
    /\ reserving = [t \in Tab |-> None]
    /\ sending = {}
    /\ signed = {}
    /\ twice = FALSE
    /\ disturbed = FALSE

Joined(t) == identity[t] # None /\ \E a \in Account : leaf[a] = identity[t].b

\* No script of the tab is in the middle of localStorage's reads and writes.
Idle(t) == writing[t] = None /\ reserving[t] = None

\* Time passes, or the clock is set back.
Tick ==
    /\ \/ clock < MaxClock /\ clock' = clock + 1
       \/ clock > 0 /\ clock' = clock - 1
    /\ UNCHANGED <<browserVars, leaf, roomToken, record, counter, reserving, sending, signed,
                   twice, disturbed>>

-----------------------------------------------------------------------------
(* The documents                                                            *)

\* A document goes away with its unfinished sends, wherever they are.
Unload(t) ==
    /\ reserving' = [reserving EXCEPT ![t] = None]
    /\ sending' = {s \in sending : s.tab # t}
    /\ UNCHANGED <<clock, leaf, record, counter, signed, twice, disturbed>>

Document(t) ==
    /\ SignOut(t) \/ \E a \in Account : SignIn(t, a)
    /\ Unload(t)
    /\ UNCHANGED roomToken

\* The disclosure flow of room-auth: away and back, with a fresh token of whichever
\* account answered it at Ministry, or with an error and the token stashed before.
Disclose(t) ==
    /\ t \in view
    /\ \E token \in Account \union {roomToken[t]} : roomToken' = [roomToken EXCEPT ![t] = token]
    /\ Load(t, None)
    /\ Unload(t)
    /\ UNCHANGED account

\* An unmounted composer's sends go on; the next one knows nothing of them.
ComposerGone(t) ==
    /\ sending' = {IF s.tab = t THEN [s EXCEPT !.here = FALSE] ELSE s : s \in sending}
    /\ UNCHANGED <<clock, leaf, roomToken, record, counter, reserving, signed, twice, disturbed>>

LeaveRoom(t) == Leave(t) /\ ComposerGone(t)

\* The room view replaces the composer when its identity is not in the tree.
Unmount(t) ==
    /\ ~Joined(t) /\ \E s \in sending : s.tab = t /\ s.here
    /\ ComposerGone(t)
    /\ UNCHANGED browserVars

-----------------------------------------------------------------------------
(* The join panel                                                           *)

\* The stashed token goes before the session's.
TokenForJoin(t) == IF roomToken[t] # None THEN roomToken[t] ELSE SubOf(session[t])

RecordLocalMembership(a) == record' = a

ClearRoomToken(t) == roomToken' = [roomToken EXCEPT ![t] = None]

\* handleJoin, when the server accepts.  A refused join changes nothing here.
Join(t) ==
    /\ t \in view /\ identity[t] # None /\ ~Joined(t)
    /\ TokenForJoin(t) # None
    /\ leaf' = [leaf EXCEPT ![TokenForJoin(t)] = identity[t].b]
    /\ RecordLocalMembership(TokenForJoin(t))
    /\ ClearRoomToken(t)
    /\ UNCHANGED <<browserVars, clock, counter, reserving, sending, signed, twice, disturbed>>

-----------------------------------------------------------------------------
(* The composer                                                             *)

\* nextMessageId: ids of the epoch that are used; another epoch starts over.
Used(epoch) == IF counter.epoch = epoch THEN counter.next ELSE 0

\* handleSend, first part: the epoch is sampled.
StartSend(t) ==
    /\ t \in view /\ Joined(t)
    /\ ~\E s \in sending : s.tab = t /\ s.here
    /\ Cardinality(sending) + Cardinality(signed) < MaxSends
    /\ reserving' = [reserving EXCEPT ![t] =
           [b |-> identity[t].b, epoch |-> clock, used |-> 0, read |-> FALSE]]
    /\ disturbed' = (disturbed \/ clock < counter.epoch \/ \E u \in Tab : reserving[u] # None)
    /\ UNCHANGED <<browserVars, clock, leaf, roomToken, record, counter, sending, signed, twice>>

\* nextMessageId reads the counter.  An exhausted budget ends the send here.
ReadCounter(t) ==
    /\ reserving[t] # None /\ ~reserving[t].read
    /\ LET used == Used(reserving[t].epoch) IN
       reserving' = [reserving EXCEPT ![t] =
           IF used < Limit THEN [@ EXCEPT !.used = used, !.read = TRUE] ELSE None]
    /\ UNCHANGED <<browserVars, clock, leaf, roomToken, record, counter, sending, signed, twice,
                   disturbed>>

\* Mutant: the reservation that starts an epoch is not counted.
SkipFirst(r) == [epoch |-> r.epoch, next |-> IF counter.epoch = r.epoch THEN r.used + 1 ELSE 0]

\* The counter's value after a reservation
Counted(r) == [epoch |-> r.epoch, next |-> r.used + 1]

\* It writes the counter, whatever another tab wrote since it was read, and the
\* proof is begun; or the storage rejects it, and nothing is sent.
Reserve(t) ==
    /\ reserving[t] # None /\ reserving[t].read
    /\ LET r == reserving[t] IN
       \/ /\ counter' = Counted(r)
          /\ sending' = sending \union
                 {[signal |-> [b |-> r.b, epoch |-> r.epoch, mid |-> r.used],
                   tab |-> t, here |-> TRUE]}
       \/ UNCHANGED <<counter, sending>>
    /\ reserving' = [reserving EXCEPT ![t] = None]
    /\ UNCHANGED <<browserVars, clock, leaf, roomToken, record, signed, twice, disturbed>>

\* The proof is made and the signal leaves the browser, or one of them fails and
\* the id is lost.
EndSend(s) ==
    /\ sending' = sending \ {s}
    /\ \/ /\ signed' = signed \union {s.signal}
          /\ twice' = (twice \/ s.signal \in signed)
       \/ UNCHANGED <<signed, twice>>
    /\ UNCHANGED <<browserVars, clock, leaf, roomToken, record, counter, reserving, disturbed>>

-----------------------------------------------------------------------------

Browser(t) ==
    /\ Settle(t) \/ Visit(t) \/ AskSession(t) \/ SessionArrives(t)
    /\ UNCHANGED visitVars

\* What begins a script of a tab
Event(t) ==
    /\ Idle(t)
    /\ Browser(t) \/ Disclose(t) \/ LeaveRoom(t) \/ Unmount(t) \/ Join(t) \/ StartSend(t)

Next ==
    \/ Tick
    \/ \E a \in Account : NewRoot(a) /\ UNCHANGED visitVars
    \/ \E t \in Tab :
          \/ Event(t)
          \/ Document(t)
          \/ PersistBranch(t) /\ UNCHANGED visitVars
          \/ ReadCounter(t)
          \/ Reserve(t)
    \/ \E s \in sending : EndSend(s)

Spec == Init /\ [][Next]_vars

-----------------------------------------------------------------------------
(* Properties                                                               *)

\* The browser never double-signals, which the room would answer with a ban: in
\* one epoch no identity signs two messages with the same id, from whichever tab,
\* after sign-outs, re-joins, failed proofs and abandoned sends.  The counter has no
\* lock and knows one epoch only, so this is promised as long as no tab began a
\* reservation while another tab was between its epoch and its write, or in an
\* epoch older than the counter's, to which the clock was set back.
NeverDoubleSignals == twice => disturbed

\* What a settled room view signs and joins with was derived from the slot of the
\* account it is signed in as, however session answers and derivations overtook
\* each other.
OwnIdentity ==
    \A t \in view : ~loading[t] /\ identity[t] # None =>
        session[t] # None /\ identity[t].sub = session[t].sub

\* What identity-context.tsx says its ready flag ensures: a settled room view of a
\* signed-in account has the identity of the branch that was adopted for it.
DerivesAdopted ==
    \A t \in view : ~loading[t] /\ session[t] # None => identity[t] = DeriveForRoom(session[t])
=============================================================================
