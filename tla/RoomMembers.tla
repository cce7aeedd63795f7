---------------------------- MODULE RoomMembers -----------------------------
(***************************************************************************)
(* Room membership: Room's member table (core/src/Room.cpp) and the        *)
(* control server that fills it (ControlServer in                          *)
(* desktop/src/ControlChannel.cpp): an accept thread with a bounded list   *)
(* of workers, and one worker thread per connection that serves JOIN,      *)
(* CLIENT_STATE and LEAVE until the peer closes or the server stops.       *)
(*                                                                         *)
(* A device that lost its network joins again on a new connection while    *)
(* the worker of the old one still runs.  The membership token tells the   *)
(* two sessions apart.  Each access to the table is one critical section   *)
(* of the room's mutex; a JOIN that replaces an earlier one and a          *)
(* CLIENT_STATE take two.                                                  *)
(***************************************************************************)
EXTENDS Integers, FiniteSets

CONSTANTS
    Devices,      \* device identifiers
    Connections,  \* connections that peers may open, reused after they end;
                  \* a connection also stands for the address of its peer
    Health,       \* what a CLIENT_STATE line reports
    NoReport,     \* the health of a member that has not reported
    MaxClients,   \* workers the server keeps (32 in the code)
    MaxToken,     \* bound: the last membership token handed out
    None          \* no device, no member, no operation

ASSUME MembersAssumption ==
    /\ MaxClients \in Nat
    /\ MaxToken \in Nat
    /\ NoReport \notin Health
    /\ None \notin Devices

(* struct RoomMember: the key is the device identifier. *)
Member == [token : Nat, address : Connections, health : Health \cup {NoReport}]

(* What a worker carries from the first critical section to the second. *)
JoinOp == [op : {"join"}, device : Devices]
UpdateOp == [op : {"update"}, device : Devices, member : Member]

ASSUME NoneAssumption == None \notin Member /\ None \notin JoinOp \cup UpdateOp

VARIABLES
    members,    \* Room: members_
    nextToken,  \* Room: nextMembershipToken_
    peer,       \* the far end of a connection
    worker,     \* the server's end: none, backlog, serving, ending, inactive
    joined,     \* worker: joinedDeviceId
    token,      \* worker: membershipToken
    pending,    \* worker: between two critical sections of one line
    acceptor,   \* the accept thread: reaping, accepting or ended
    stop        \* the server's stop_ flag

vars == <<members, nextToken, peer, worker, joined, token, pending,
          acceptor, stop>>
tableVars == <<members, nextToken>>
sessionVars == <<joined, token, pending>>
serverVars == <<acceptor, stop>>

TypeOK ==
    /\ members \in [Devices -> Member \cup {None}]
    /\ nextToken \in Nat \ {0}
    /\ peer \in [Connections -> {"absent", "up", "shut"}]
    /\ worker \in [Connections -> {"none", "backlog", "serving", "ending", "inactive"}]
    /\ joined \in [Connections -> Devices \cup {None}]
    /\ token \in [Connections -> Nat]
    /\ pending \in [Connections -> JoinOp \cup UpdateOp \cup {None}]
    /\ acceptor \in {"reap", "accept", "ended"}
    /\ stop \in BOOLEAN

Init ==
    /\ members = [d \in Devices |-> None]
    /\ nextToken = 1
    /\ peer = [c \in Connections |-> "absent"]
    /\ worker = [c \in Connections |-> "none"]
    /\ joined = [c \in Connections |-> None]
    /\ token = [c \in Connections |-> 0]
    /\ pending = [c \in Connections |-> None]
    /\ acceptor = "reap"
    /\ stop = FALSE

-----------------------------------------------------------------------------
(* Peers: they connect and close their end.  A peer that vanishes without  *)
(* a trace is one that never closes.                                       *)

PeerConnects(c) ==
    /\ ~stop
    /\ worker[c] = "none"
    /\ peer' = [peer EXCEPT ![c] = "up"]
    /\ worker' = [worker EXCEPT ![c] = "backlog"]
    /\ UNCHANGED <<tableVars, sessionVars, serverVars>>

PeerCloses(c) ==
    /\ peer[c] = "up"
    /\ peer' = [peer EXCEPT ![c] = "shut"]
    /\ UNCHANGED <<tableVars, worker, sessionVars, serverVars>>

-----------------------------------------------------------------------------
(* Room: the table. *)

(* Fault: the token counter is too narrow and wraps to the value that      *)
(* stands for no token.                                                    *)
JoinNarrowToken(d, a) ==
    /\ members' = [members EXCEPT ![d] =
                     [token |-> nextToken, address |-> a, health |-> NoReport]]
    /\ nextToken' = (nextToken + 1) % 4

(* insert_or_assign under a fresh token. *)
Join(d, a) ==
    /\ members' = [members EXCEPT ![d] =
                     [token |-> nextToken, address |-> a, health |-> NoReport]]
    /\ nextToken' = nextToken + 1

(* Fault: whoever leaves takes the device's entry along. *)
LeaveAnyToken(d, t) ==
    /\ members' = [members EXCEPT ![d] = None]
    /\ UNCHANGED nextToken

(* Only the session that holds the entry's token may remove it. *)
Leave(d, t) ==
    /\ members' = IF members[d] # None /\ members[d].token = t
                  THEN [members EXCEPT ![d] = None]
                  ELSE members
    /\ UNCHANGED nextToken

(* Fault: the entry is overwritten whatever its token. *)
UpdateMemberAnyToken(d, m) ==
    /\ members' = [members EXCEPT ![d] = m]
    /\ UNCHANGED nextToken

UpdateMember(d, m) ==
    /\ members' = IF members[d] # None /\ members[d].token = m.token
                  THEN [members EXCEPT ![d] = m]
                  ELSE members
    /\ UNCHANGED nextToken

-----------------------------------------------------------------------------
(* The accept thread. *)

Clients == {c \in Connections : worker[c] \in {"serving", "ending", "inactive"}}

(* Workers that have ended are joined and erased, then the thread waits    *)
(* for a connection.                                                       *)
Reap ==
    /\ acceptor = "reap"
    /\ ~stop
    /\ acceptor' = "accept"
    /\ worker' = [c \in Connections |->
                    IF worker[c] = "inactive" THEN "none" ELSE worker[c]]
    /\ peer' = [c \in Connections |->
                    IF worker[c] = "inactive" THEN "absent" ELSE peer[c]]
    /\ UNCHANGED <<tableVars, sessionVars, stop>>

HasRoom == Cardinality(Clients) < MaxClients

(* A connection is given a worker, or is closed when the list is full. *)
Accept(c) ==
    /\ acceptor = "accept"
    /\ worker[c] = "backlog"
    /\ acceptor' = "reap"
    /\ worker' = [worker EXCEPT ![c] = IF HasRoom THEN "serving" ELSE "none"]
    /\ peer' = IF HasRoom THEN peer ELSE [peer EXCEPT ![c] = "absent"]
    /\ UNCHANGED <<tableVars, sessionVars, stop>>

(* select timed out *)
AcceptTimesOut ==
    /\ acceptor = "accept"
    /\ acceptor' = "reap"
    /\ UNCHANGED <<tableVars, peer, worker, sessionVars, stop>>

AcceptorEnds ==
    /\ acceptor = "reap"
    /\ stop
    /\ acceptor' = "ended"
    /\ UNCHANGED <<tableVars, peer, worker, sessionVars, stop>>

(* The destructor asks every thread to end. *)
StopServer ==
    /\ ~stop
    /\ stop' = TRUE
    /\ UNCHANGED <<tableVars, peer, worker, sessionVars, acceptor>>

-----------------------------------------------------------------------------
(* The worker of a connection. *)

Idle(c) == worker[c] = "serving" /\ pending[c] = None

(* Fault: a second JOIN does not leave the first membership. *)
ServeJoinWithoutLeaving(c, d) ==
    /\ Idle(c)
    /\ nextToken <= MaxToken
    /\ pending' = [pending EXCEPT ![c] = [op |-> "join", device |-> d]]
    /\ UNCHANGED <<tableVars, peer, worker, joined, token, serverVars>>

(* A line is served when it arrives, even if the peer has closed since.    *)
(* JOIN: a session that had joined leaves first ...                        *)
ServeJoin(c, d) ==
    /\ Idle(c)
    /\ nextToken <= MaxToken
    /\ IF joined[c] # None
       THEN Leave(joined[c], token[c])
       ELSE UNCHANGED tableVars
    /\ pending' = [pending EXCEPT ![c] = [op |-> "join", device |-> d]]
    /\ UNCHANGED <<peer, worker, joined, token, serverVars>>

(* ... and joins in a second critical section. *)
CompleteJoin(c) ==
    /\ pending[c] # None
    /\ pending[c].op = "join"
    /\ Join(pending[c].device, c)
    /\ token' = [token EXCEPT ![c] = nextToken]
    /\ joined' = [joined EXCEPT ![c] = pending[c].device]
    /\ pending' = [pending EXCEPT ![c] = None]
    /\ UNCHANGED <<peer, worker, serverVars>>

(* The lookup in the snapshot: the entry of this session. *)
FindMember(d, t) == members[d] # None /\ members[d].token = t

(* CLIENT_STATE: copy the session's own entry from a snapshot ... *)
ServeClientState(c, h) ==
    /\ Idle(c)
    /\ joined[c] # None
    /\ FindMember(joined[c], token[c])
    /\ pending' = [pending EXCEPT ![c] =
                     [op |-> "update", device |-> joined[c],
                      member |-> [members[joined[c]] EXCEPT !.health = h]]]
    /\ UNCHANGED <<tableVars, peer, worker, joined, token, serverVars>>

(* ... and write the copy back. *)
CompleteClientState(c) ==
    /\ pending[c] # None
    /\ pending[c].op = "update"
    /\ UpdateMember(pending[c].device, pending[c].member)
    /\ pending' = [pending EXCEPT ![c] = None]
    /\ UNCHANGED <<peer, worker, joined, token, serverVars>>

(* Fault: recv's 0 is taken for a timeout. *)
EndLoopWhileOpen(c) ==
    /\ Idle(c)
    /\ peer[c] = "up"
    /\ worker' = [worker EXCEPT ![c] = "ending"]
    /\ UNCHANGED <<tableVars, peer, sessionVars, serverVars>>

(* The loop ends: the server stops, recv returns 0, a reply cannot be      *)
(* sent, or the peer sent LEAVE or a malformed line.                       *)
EndLoop(c) ==
    /\ Idle(c)
    /\ worker' = [worker EXCEPT ![c] = "ending"]
    /\ UNCHANGED <<tableVars, peer, sessionVars, serverVars>>

(* After the loop: leave, close the socket, clear active. *)
EndSession(c) ==
    /\ worker[c] = "ending"
    /\ IF joined[c] # None
       THEN Leave(joined[c], token[c])
       ELSE UNCHANGED tableVars
    /\ joined' = [joined EXCEPT ![c] = None]
    /\ token' = [token EXCEPT ![c] = 0]
    /\ worker' = [worker EXCEPT ![c] = "inactive"]
    /\ UNCHANGED <<peer, pending, serverVars>>

WorkerStep(c) ==
    \/ \E d \in Devices : ServeJoin(c, d)
    \/ CompleteJoin(c)
    \/ \E h \in Health : ServeClientState(c, h)
    \/ CompleteClientState(c)
    \/ EndLoop(c)
    \/ EndSession(c)

PeerStep(c) == PeerConnects(c) \/ PeerCloses(c)

AcceptorStep ==
    \/ Reap
    \/ \E c \in Connections : Accept(c)
    \/ AcceptTimesOut
    \/ AcceptorEnds

Next ==
    \/ \E c \in Connections : WorkerStep(c) \/ PeerStep(c)
    \/ AcceptorStep
    \/ StopServer

Spec == Init /\ [][Next]_vars

(* The loop of a worker ends when its peer has closed or the server stops: *)
(* it may first serve the lines that were on their way, which are finitely *)
(* many, so that the end is not postponed for ever.  No such thing holds   *)
(* for a peer that vanishes: recv times out and the loop goes on.          *)
Ends(c) == (stop \/ peer[c] = "shut") /\ EndLoop(c)

FairSpec ==
    /\ Spec
    /\ \A c \in Connections :
         /\ WF_vars(CompleteJoin(c) \/ CompleteClientState(c) \/ EndSession(c))
         /\ SF_vars(Ends(c))

-----------------------------------------------------------------------------
(* Properties. *)

Owns(c, d) ==
    /\ worker[c] \in {"serving", "ending"}
    /\ joined[c] = d
    /\ members[d] # None
    /\ members[d].token = token[c]

(* No ghost members: every entry of the table, to which the host sends     *)
(* audio, belongs to a worker that is still running, holds the entry's     *)
(* token and has the entry's address at its far end.                       *)
EveryMemberHasASession ==
    \A d \in Devices : members[d] # None =>
        \E c \in Connections : Owns(c, d) /\ members[d].address = c

(* The newest join of a device wins: no running session holds a younger    *)
(* token than the table's entry, and no two sessions hold the same one.    *)
NewestJoinWins ==
    \A c \in Connections :
        /\ joined[c] # None /\ members[joined[c]] # None
             => token[c] <= members[joined[c]].token
        /\ \A e \in Connections :
             joined[c] # None /\ joined[e] # None /\ token[c] = token[e] => c = e

(* A session whose token was superseded is harmless: an entry only ever    *)
(* disappears by the doing of the session that owns it, and only that      *)
(* session changes it under the same token.                                *)
OnlyTheOwnerTouches ==
    [][\A d \in Devices :
         (members[d] # None /\ members'[d] # members[d]) =>
             \/ members'[d] # None /\ members'[d].token > members[d].token
             \/ \E c \in Connections :
                  /\ Owns(c, d)
                  /\ <<pending[c], worker[c]>> # <<pending'[c], worker'[c]>>
    ]_vars

Closed(d) == members[d] # None /\ (stop \/ peer[members[d].address] = "shut")

(* A device whose peer has closed, and any device once the server stops,   *)
(* does not stay in the table: its entry goes, or a new join replaces it.  *)
ClosedSessionsLeave == \A d \in Devices : Closed(d) ~> ~Closed(d)
=============================================================================
