-------------------------- MODULE MembershipContract --------------------------
(***************************************************************************)
(* What the membership tables promise the rest of the system, one atomic    *)
(* step per request: a user of the room has a status, at most one key in    *)
(* the tree and an author token that is issued once.                        *)
(*                                                                          *)
(* strict says that requests have run one after the other so far.  Then a   *)
(* banned user gets no key and a key is replaced only under a later epoch.  *)
(* Without it the code keeps everything except those two guards, because it *)
(* reads status and epoch before it locks.                                  *)
(***************************************************************************)
EXTENDS Naturals

CONSTANTS User, Key, Token, MaxEpoch, None

VARIABLES status, key, token, epoch, strict

room == <<status, key, token, epoch, strict>>

Init ==
    /\ status = [u \in User |-> "NONE"]
    /\ key = [u \in User |-> None]
    /\ token = [u \in User |-> None]
    /\ epoch = [u \in User |-> 0]
    /\ strict = TRUE

Unused(k, u) == \A v \in User \ {u} : key[v] # k

\* A first join creates the row, keyed at some epoch, with a token; a later one
\* only issues the token when the row has none.
Enrol(u) ==
    /\ \/ /\ status[u] = "NONE"
          /\ status' = [status EXCEPT ![u] = "ACTIVE"]
          /\ \E e \in 0..MaxEpoch : epoch' = [epoch EXCEPT ![u] = e]
       \/ /\ status[u] # "NONE"
          /\ UNCHANGED <<status, epoch>>
    /\ \/ /\ token[u] = None
          /\ \E t \in Token : /\ \A v \in User : token[v] # t
                              /\ token' = [token EXCEPT ![u] = t]
       \/ token[u] # None /\ UNCHANGED token

\* A join that was refused on the device checks.
Register(u) ==
    /\ strict => status[u] # "BANNED"
    /\ Enrol(u)
    /\ UNCHANGED key

Admit(u) ==
    /\ strict => status[u] # "BANNED"
    /\ key[u] = None
    /\ Enrol(u)
    /\ \E k \in Key : Unused(k, u) /\ key' = [key EXCEPT ![u] = k]

Rekey(u) ==
    /\ key[u] # None
    /\ \E k \in Key : Unused(k, u) /\ key' = [key EXCEPT ![u] = k]
    /\ \E e \in 1..MaxEpoch :
          /\ strict => e > epoch[u] /\ status[u] = "ACTIVE"
          /\ epoch' = [epoch EXCEPT ![u] = e]
    /\ UNCHANGED <<status, token>>

Ban(u) ==
    /\ status' = [status EXCEPT ![u] = "BANNED"]
    /\ key' = [key EXCEPT ![u] = None]
    /\ UNCHANGED <<token, epoch>>

Unban(u) ==
    /\ status[u] # "NONE"
    /\ status' = [status EXCEPT ![u] = "ACTIVE"]
    /\ UNCHANGED <<key, token, epoch>>

\* Two requests overlap, now or never again one after the other.
Overlap ==
    /\ strict
    /\ strict' = FALSE
    /\ UNCHANGED <<status, key, token, epoch>>

Next ==
    \/ Overlap
    \/ /\ UNCHANGED strict
       /\ \E u \in User : Register(u) \/ Admit(u) \/ Rekey(u) \/ Ban(u) \/ Unban(u)

Spec == Init /\ [][Next]_room
=============================================================================
