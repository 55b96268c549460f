---------------------------- MODULE BrowserIdentity ----------------------------
(***************************************************************************)
(* Where a browser's anonymous identity for a room comes from: a sign-in    *)
(* lands with a branch in the URL's fragment, the document captures it, the  *)
(* identity provider adopts it into the account's slot of localStorage once  *)
(* the session is known, and the room view derives its identity from that    *)
(* slot.                                                                    *)
(*                                                                          *)
(* One browser: its tabs share a session cookie and localStorage, which has  *)
(* no lock between tabs: what one reads may have changed before it writes.   *)
(* Each account has one root in Ministry; a re-rooted account gets a new     *)
(* epoch and branch, so a branch is named by its account and epoch.          *)
(***************************************************************************)
EXTENDS Naturals, FiniteSets

CONSTANTS
    Tab, Account,
    MaxEpoch,       \* bound on the re-rootings of an account
    MaxLoads,       \* bound on the sign-ins, sign-outs and reloads
    MaxDerivations, \* bound on the derivations of a tab that have not ended
    None

ASSUME BrowserAssumption ==
    /\ MaxEpoch \in Nat \ {0} /\ MaxLoads \in Nat /\ MaxDerivations \in Nat \ {0}
    /\ None \notin Account

VARIABLES
    anonEpoch,  \* Ministry: the epoch of each account's root
    idToken,    \* Account rows: the minister_anon_epoch of the id_token (0: no row yet)
    cookie,     \* whose login session the browser holds
    stored,     \* localStorage: the branch slot of each account
    captured,   \* per document: the branch captured from the fragment
    writing,    \* per tab: the slot decided on and not yet written
    asked,      \* per document: the session answers under way
    session,    \* useSession().data of each tab (None while loading, or signed out)
    view,       \* tabs that show the room
    jobs,       \* derivations that have not ended
    identity,   \* useRoomIdentity().identity of each tab
    loading,    \* useRoomIdentity().loading of each tab
    loads       \* history: documents loaded so far

account == <<anonEpoch, idToken, cookie>>
roomIdentity == <<jobs, identity, loading>>
browserVars == <<account, stored, captured, writing, asked, session, view, roomIdentity, loads>>

Epoch == 1..MaxEpoch
Branch == Account \X Epoch

\* Identities of the one room, by the slot they were derived from.
Identity == [sub : Account, b : Branch]

\* What the session callback exposes: the token's subject and epoch.
Session == [sub : Account, epoch : Epoch]

Slot == [b : Branch, e : Epoch]
Adoption == [sub : Account, slot : Slot]
Job == [result : Identity \union {None}, live : BOOLEAN]

BrowserTypeOK ==
    /\ anonEpoch \in [Account -> Epoch]
    /\ idToken \in [Account -> 0..MaxEpoch]
    /\ cookie \in Account \union {None}
    /\ cookie # None => idToken[cookie] > 0
    /\ stored \in [Account -> Slot \union {None}]
    /\ captured \in [Tab -> Branch \union {None}]
    /\ writing \in [Tab -> Adoption \union {None}]
    /\ asked \in [Tab -> SUBSET (Session \union {None})]
    /\ session \in [Tab -> Session \union {None}]
    /\ view \subseteq Tab
    /\ jobs \in [Tab -> SUBSET Job]
    /\ identity \in [Tab -> Identity \union {None}]
    /\ loading \in [Tab -> BOOLEAN]
    /\ loads \in 0..MaxLoads
    /\ \A t \in Tab : \A j, k \in jobs[t] : j.live /\ k.live => j = k

BrowserInit ==
    /\ anonEpoch = [a \in Account |-> 1]
    /\ idToken = [a \in Account |-> 0]
    /\ cookie = None
    /\ stored = [a \in Account |-> None]
    /\ captured = [t \in Tab |-> None]
    /\ writing = [t \in Tab |-> None]
    /\ asked = [t \in Tab |-> {}]
    /\ session = [t \in Tab |-> None]
    /\ view = {}
    /\ jobs = [t \in Tab |-> {}]
    /\ identity = [t \in Tab |-> None]
    /\ loading = [t \in Tab |-> TRUE]
    /\ loads = 0

-----------------------------------------------------------------------------
(* lib/minister-anon.ts                                                     *)

\* decideAnonAction: a first branch is adopted, a newer epoch re-keys, anything
\* else keeps what is stored.
Adopts(slot, tokenEpoch) == slot = None \/ tokenEpoch > slot.e

\* adoptMinisterBranch, up to its write: the captured branch is consumed by
\* whichever account the session names first.
AdoptMinisterBranch(t, s) ==
    /\ writing' = IF captured[t] # None /\ Adopts(stored[s.sub], s.epoch)
                  THEN [writing EXCEPT ![t] =
                           [sub |-> s.sub, slot |-> [b |-> captured[t], e |-> s.epoch]]]
                  ELSE writing
    /\ captured' = [captured EXCEPT ![t] = None]

\* The slot is written, whatever another tab wrote since it was read, or the
\* storage rejects it.
PersistBranch(t) ==
    /\ writing[t] # None
    /\ \/ stored' = [stored EXCEPT ![writing[t].sub] = writing[t].slot]
       \/ UNCHANGED stored
    /\ writing' = [writing EXCEPT ![t] = None]
    /\ UNCHANGED <<account, captured, asked, session, view, roomIdentity, loads>>

ReadMinisterBranch(sub) == IF stored[sub] = None THEN None ELSE stored[sub].b

\* deriveForRoom, up to its first await: the slot is read at once.
DeriveForRoom(s) ==
    IF s = None \/ (s # None /\ ReadMinisterBranch(s.sub) = None) THEN None
    ELSE [sub |-> s.sub, b |-> ReadMinisterBranch(s.sub)]

-----------------------------------------------------------------------------
(* lib/identity-context.tsx                                                 *)

\* Mutant: the clean-up does not mark the derivation cancelled.
CancelForgotten(ongoing) == ongoing

\* The clean-up of useRoomIdentity's effect
Cancel(ongoing) == {[j EXCEPT !.live = FALSE] : j \in ongoing}

\* The effect of useRoomIdentity: an earlier derivation is cancelled, and the
\* identity of the room stays what it was until the new one settles.
Derive(t, s) ==
    /\ jobs' = [jobs EXCEPT ![t] = Cancel(@) \union {[result |-> DeriveForRoom(s), live |-> TRUE]}]
    /\ loading' = [loading EXCEPT ![t] = TRUE]
    /\ UNCHANGED identity

\* A derivation ends; a cancelled one is dropped.  One that throws (its library
\* does not load) is never settled: the room keeps loading, with the identity it
\* had.
Settle(t) ==
    /\ \E j \in jobs[t] :
          /\ jobs' = [jobs EXCEPT ![t] = @ \ {j}]
          /\ \/ /\ j.live
                /\ identity' = [identity EXCEPT ![t] = j.result]
                /\ loading' = [loading EXCEPT ![t] = FALSE]
             \/ /\ ~j.live \/ j.result # None
                /\ UNCHANGED <<identity, loading>>
    /\ UNCHANGED <<account, stored, captured, writing, asked, session, view, loads>>

\* A document loads: the module captures the fragment, and the first effects run
\* without a session.  They already set ready, which starts the room's
\* derivation over; nothing sets it back.
Load(t, branch) ==
    /\ loads < MaxLoads
    /\ loads' = loads + 1
    /\ captured' = [captured EXCEPT ![t] = branch]
    /\ writing' = [writing EXCEPT ![t] = None]
    /\ asked' = [asked EXCEPT ![t] = {}]
    /\ session' = [session EXCEPT ![t] = None]
    /\ jobs' = [jobs EXCEPT ![t] = IF t \in view THEN {[result |-> None, live |-> TRUE]} ELSE {}]
    /\ identity' = [identity EXCEPT ![t] = None]
    /\ loading' = [loading EXCEPT ![t] = TRUE]
    /\ UNCHANGED <<stored, view>>

\* The room view mounts by a navigation inside the document.
Visit(t) ==
    /\ t \notin view
    /\ Cardinality(jobs[t]) < MaxDerivations
    /\ view' = view \union {t}
    /\ Derive(t, session[t])
    /\ UNCHANGED <<account, stored, captured, writing, asked, session, loads>>

Leave(t) ==
    /\ t \in view
    /\ view' = view \ {t}
    /\ jobs' = [jobs EXCEPT ![t] = Cancel(@)]
    /\ identity' = [identity EXCEPT ![t] = None]
    /\ loading' = [loading EXCEPT ![t] = TRUE]
    /\ UNCHANGED <<account, stored, captured, writing, asked, session, loads>>

-----------------------------------------------------------------------------
(* Sign-in: Ministry, Auth.js and its session                               *)

NewRoot(a) ==
    /\ anonEpoch[a] < MaxEpoch
    /\ anonEpoch' = [anonEpoch EXCEPT ![a] = @ + 1]
    /\ UNCHANGED <<idToken, cookie, stored, captured, writing, asked, session, view, roomIdentity, loads>>

RefreshMinisterAccountTokens(a) == idToken' = [idToken EXCEPT ![a] = anonEpoch[a]]

\* The callback stores the fresh token, sets the cookie and returns to the page
\* the user came from, with the account's branch or without one.
SignIn(t, a) ==
    /\ cookie \in {None, a}
    /\ RefreshMinisterAccountTokens(a)
    /\ cookie' = a
    /\ Load(t, None) \/ Load(t, <<a, anonEpoch[a]>>)
    /\ UNCHANGED anonEpoch

SignOut(t) ==
    /\ cookie # None
    /\ cookie' = None
    /\ Load(t, None)
    /\ UNCHANGED <<anonEpoch, idToken>>

\* The session provider asks (on load, on focus); the server answers from the
\* cookie and the account's stored token.
AskSession(t) ==
    /\ asked[t] = {}
    /\ asked' = [asked EXCEPT ![t] =
           {IF cookie = None THEN None ELSE [sub |-> cookie, epoch |-> idToken[cookie]]}]
    /\ UNCHANGED <<account, stored, captured, writing, session, view, roomIdentity, loads>>

SubOf(s) == IF s = None THEN None ELSE s.sub

\* The answer is rendered.  React runs the effects of the room view before those
\* of the provider above it: a new subject's identity is derived from the slot
\* as it was before the captured branch is adopted into it.
SessionArrives(t) ==
    /\ \E s \in asked[t] :
          /\ session' = [session EXCEPT ![t] = s]
          /\ IF t \in view /\ SubOf(s) # SubOf(session[t])
             THEN Cardinality(jobs[t]) < MaxDerivations /\ Derive(t, s)
             ELSE UNCHANGED roomIdentity
          /\ IF s # None /\ s # session[t]
             THEN AdoptMinisterBranch(t, s)
             ELSE UNCHANGED <<captured, writing>>
    /\ asked' = [asked EXCEPT ![t] = {}]
    /\ UNCHANGED <<account, stored, view, loads>>
=============================================================================
