-------------------------- MODULE RoomMembersProofs --------------------------
(***************************************************************************)
(* Room membership is right for any number of devices, connections and     *)
(* tokens.  The properties of RoomMembers are not inductive: that an entry *)
(* has a session says nothing of the sessions that are between two         *)
(* critical sections, and those are the ones that change the table next.   *)
(* Sound adds what such a session may assume.                              *)
(***************************************************************************)
EXTENDS RoomMembers, TLAPS

(* Sessions that are not running carry nothing, and the one that ends is   *)
(* between lines.                                                          *)
SessionsTidy ==
    \A c \in Connections :
        /\ worker[c] \notin {"serving", "ending"} => joined[c] = None
        /\ worker[c] # "serving" => pending[c] = None

(* Tokens of sessions were handed out. *)
TokensIssued ==
    \A c \in Connections : joined[c] # None => token[c] < nextToken

TokensDistinct ==
    \A c, e \in Connections :
        joined[c] # None /\ joined[e] # None /\ token[c] = token[e] => c = e

(* The entry's address names the session that owns it. *)
EntriesOwned ==
    \A d \in Devices : members[d] # None => Owns(members[d].address, d)

EntriesNewest ==
    \A c \in Connections :
        joined[c] # None /\ members[joined[c]] # None
            => token[c] <= members[joined[c]].token

(* A session that is about to join owns no entry. *)
JoinsAfterLeaving ==
    \A c \in Connections :
        (pending[c] # None /\ pending[c].op = "join" /\ joined[c] # None) =>
            ~FindMember(joined[c], token[c])

(* A session that is about to write its report back writes under its own   *)
(* name, token and address.                                                *)
UpdatesItself ==
    \A c \in Connections :
        (pending[c] # None /\ pending[c].op = "update") =>
            /\ joined[c] # None
            /\ pending[c].device = joined[c]
            /\ pending[c].member.token = token[c]
            /\ pending[c].member.address = c

Sound ==
    /\ TypeOK
    /\ SessionsTidy
    /\ TokensIssued
    /\ TokensDistinct
    /\ EntriesOwned
    /\ EntriesNewest
    /\ JoinsAfterLeaving
    /\ UpdatesItself

-----------------------------------------------------------------------------
(* The room's critical sections keep the table well typed. *)
LEMMA LeaveType ==
    ASSUME TypeOK, NEW d, NEW t, Leave(d, t)
    PROVE  /\ members' \in [Devices -> Member \cup {None}]
           /\ nextToken' = nextToken
  BY DEF TypeOK, Leave

(* Room::join writes a member and counts the token. *)
LEMMA JoinType ==
    ASSUME TypeOK, NEW d \in Devices, NEW c \in Connections, Join(d, c)
    PROVE  /\ members' \in [Devices -> Member \cup {None}]
           /\ nextToken' = nextToken + 1
  BY DEF TypeOK, Join, Member

(* Room::updateMember writes a member or nothing. *)
LEMMA UpdateMemberType ==
    ASSUME TypeOK, NEW d \in Devices, NEW m \in Member, UpdateMember(d, m)
    PROVE  /\ members' \in [Devices -> Member \cup {None}]
           /\ nextToken' = nextToken
  BY DEF TypeOK, UpdateMember

(* What a worker keeps between two critical sections is one of two records. *)
LEMMA PendingJoin ==
    ASSUME TypeOK, NEW c \in Connections, pending[c] # None, pending[c].op = "join"
    PROVE  pending[c] \in JoinOp /\ pending[c].device \in Devices
  BY DEF TypeOK, JoinOp, UpdateOp

(* The other record is the copy of a member. *)
LEMMA PendingUpdate ==
    ASSUME TypeOK, NEW c \in Connections, pending[c] # None, pending[c].op = "update"
    PROVE  /\ pending[c] \in UpdateOp
           /\ pending[c].device \in Devices
           /\ pending[c].member \in Member
  BY DEF TypeOK, JoinOp, UpdateOp

-----------------------------------------------------------------------------
(* Every step keeps the table, the tokens and the sessions well typed.     *)
LEMMA TypeStep == TypeOK /\ [Next]_vars => TypeOK'
<1> SUFFICES ASSUME TypeOK, [Next]_vars PROVE TypeOK'
  OBVIOUS
<1> USE MembersAssumption
<1>1. ASSUME NEW c \in Connections, NEW d \in Devices, ServeJoin(c, d) PROVE TypeOK'
  <2>1. members' \in [Devices -> Member \cup {None}] /\ nextToken' = nextToken
    BY <1>1, LeaveType DEF ServeJoin, TypeOK, tableVars
  <2>2. [op |-> "join", device |-> d] \in JoinOp
    BY DEF JoinOp
  <2> QED
    BY <1>1, <2>1, <2>2 DEF TypeOK, ServeJoin, serverVars
<1>2. ASSUME NEW c \in Connections, CompleteJoin(c) PROVE TypeOK'
  <2>1. pending[c].device \in Devices
    BY <1>2, PendingJoin DEF CompleteJoin
  <2>2. members' \in [Devices -> Member \cup {None}] /\ nextToken' = nextToken + 1
    BY <1>2, <2>1, JoinType DEF CompleteJoin
  <2> QED
    BY <1>2, <2>1, <2>2 DEF TypeOK, CompleteJoin, serverVars
<1>3. ASSUME NEW c \in Connections, NEW h \in Health, ServeClientState(c, h) PROVE TypeOK'
  <2>1. joined[c] \in Devices /\ members[joined[c]] \in Member
    BY <1>3 DEF TypeOK, ServeClientState, FindMember
  <2>2. [members[joined[c]] EXCEPT !.health = h] \in Member
    BY <2>1 DEF Member
  <2>3. [op |-> "update", device |-> joined[c],
         member |-> [members[joined[c]] EXCEPT !.health = h]] \in UpdateOp
    BY <2>1, <2>2 DEF UpdateOp
  <2> QED
    BY <1>3, <2>3 DEF TypeOK, ServeClientState, tableVars, serverVars
<1>4. ASSUME NEW c \in Connections, CompleteClientState(c) PROVE TypeOK'
  <2>1. pending[c].device \in Devices /\ pending[c].member \in Member
    BY <1>4, PendingUpdate DEF CompleteClientState
  <2>2. members' \in [Devices -> Member \cup {None}] /\ nextToken' = nextToken
    BY <1>4, <2>1, UpdateMemberType DEF CompleteClientState
  <2> QED
    BY <1>4, <2>2 DEF TypeOK, CompleteClientState, serverVars
<1>5. ASSUME NEW c \in Connections, EndLoop(c) PROVE TypeOK'
  BY <1>5 DEF TypeOK, EndLoop, tableVars, sessionVars, serverVars
<1>6. ASSUME NEW c \in Connections, EndSession(c) PROVE TypeOK'
  <2>1. members' \in [Devices -> Member \cup {None}] /\ nextToken' = nextToken
    BY <1>6, LeaveType DEF EndSession, TypeOK, tableVars
  <2> QED
    BY <1>6, <2>1 DEF TypeOK, EndSession, serverVars
<1>7. ASSUME NEW c \in Connections, PeerStep(c) PROVE TypeOK'
  BY <1>7 DEF TypeOK, PeerStep, PeerConnects, PeerCloses, tableVars, sessionVars, serverVars
<1>8. CASE Reap
  BY <1>8 DEF TypeOK, Reap, tableVars, sessionVars
<1>9. ASSUME NEW c \in Connections, Accept(c) PROVE TypeOK'
  BY <1>9 DEF TypeOK, Accept, tableVars, sessionVars
<1>10. CASE AcceptTimesOut \/ AcceptorEnds \/ StopServer
  BY <1>10 DEF TypeOK, AcceptTimesOut, AcceptorEnds, StopServer, tableVars, sessionVars
<1>11. CASE UNCHANGED vars
  BY <1>11 DEF TypeOK, vars
<1> QED
  BY <1>1, <1>2, <1>3, <1>4, <1>5, <1>6, <1>7, <1>8, <1>9, <1>10, <1>11
     DEF Next, WorkerStep, AcceptorStep

(* The empty room is well typed. *)
LEMMA TypeInit == Init => TypeOK
<1> SUFFICES ASSUME Init PROVE TypeOK
  OBVIOUS
<1>1. /\ members \in [Devices -> Member \cup {None}]
      /\ joined \in [Connections -> Devices \cup {None}]
      /\ pending \in [Connections -> JoinOp \cup UpdateOp \cup {None}]
      /\ stop \in BOOLEAN
  BY Zenon DEF Init
<1>2. /\ nextToken \in Nat \ {0}
      /\ token \in [Connections -> Nat]
  BY DEF Init
<1>3. /\ peer \in [Connections -> {"absent", "up", "shut"}]
      /\ worker \in [Connections -> {"none", "backlog", "serving", "ending", "inactive"}]
      /\ acceptor \in {"reap", "accept", "ended"}
  BY DEF Init
<1> QED
  BY <1>1, <1>2, <1>3 DEF TypeOK

(* The member table, the token counter and every session stay well typed   *)
(* (Room.cpp, ControlChannel.cpp), for any devices and connections.        *)
THEOREM TypeCorrect == Spec => []TypeOK
  BY TypeInit, TypeStep, PTL DEF Spec

-----------------------------------------------------------------------------
(* Leaving removes at most the entry that the session owns, and leaves the *)
(* others alone.                                                           *)
LEMMA LeaveEffect ==
    ASSUME TypeOK, NEW d \in Devices, NEW t, Leave(d, t)
    PROVE  /\ \A x \in Devices : members'[x] \in {members[x], None}
           /\ \A x \in Devices \ {d} : members'[x] = members[x]
           /\ members'[d] # None => members'[d].token # t
           /\ (members[d] # None /\ members[d].token # t) => members'[d] = members[d]
  BY DEF TypeOK, Leave

(* Reporting changes no entry's token and creates no entry. *)
LEMMA UpdateEffect ==
    ASSUME TypeOK, NEW d \in Devices, NEW m \in Member, UpdateMember(d, m)
    PROVE  /\ \A x \in Devices \ {d} : members'[x] = members[x]
           /\ members'[d] = members[d] \/
                 (members[d] # None /\ members[d].token = m.token /\ members'[d] = m)
  BY DEF TypeOK, UpdateMember

(* An empty room without sessions is sound. *)
LEMMA SoundInit == Init => Sound
  BY TypeInit DEF Init, Sound, TypeOK, SessionsTidy, TokensIssued, TokensDistinct,
     EntriesOwned, EntriesNewest, JoinsAfterLeaving, UpdatesItself

(* JOIN, first half: what the session owned is gone. *)
LEMMA ServeJoinSound ==
    ASSUME Sound, TypeOK', NEW c \in Connections, NEW d \in Devices, ServeJoin(c, d)
    PROVE  Sound'
<1> USE MembersAssumption, NoneAssumption
<1>1. /\ worker' = worker /\ joined' = joined /\ token' = token
      /\ nextToken' = nextToken
      /\ \A e \in Connections \ {c} : pending'[e] = pending[e]
      /\ pending'[c] = [op |-> "join", device |-> d]
      /\ worker[c] = "serving"
  BY LeaveType DEF Sound, TypeOK, ServeJoin, Idle, tableVars
<1>2. /\ \A x \in Devices : members'[x] \in {members[x], None}
      /\ \A x \in Devices : x # joined[c] => members'[x] = members[x]
      /\ joined[c] # None /\ members'[joined[c]] # None => members'[joined[c]].token # token[c]
      /\ \A x \in Devices : (x = joined[c] /\ members[x] # None /\ members[x].token # token[c])
            => members'[x] = members[x]
  <2>1. CASE joined[c] = None
    BY <2>1 DEF ServeJoin, tableVars
  <2>2. CASE joined[c] # None
    <3>1. joined[c] \in Devices
      BY <2>2 DEF Sound, TypeOK
    <3>2. Leave(joined[c], token[c])
      BY <2>2 DEF ServeJoin
    <3> QED
      BY <3>1, <3>2, LeaveEffect DEF Sound
  <2> QED
    BY <2>1, <2>2
<1>3. SessionsTidy' /\ TokensIssued' /\ TokensDistinct'
  BY <1>1 DEF Sound, SessionsTidy, TokensIssued, TokensDistinct
<1>4. EntriesOwned'
  BY <1>1, <1>2 DEF Sound, EntriesOwned, Owns
<1>5. EntriesNewest'
  BY <1>1, <1>2 DEF Sound, EntriesNewest, TypeOK
<1>6. JoinsAfterLeaving'
  BY <1>1, <1>2 DEF Sound, JoinsAfterLeaving, FindMember, TypeOK
<1>7. UpdatesItself'
  BY <1>1 DEF Sound, UpdatesItself
<1> QED
  BY <1>3, <1>4, <1>5, <1>6, <1>7 DEF Sound

(* JOIN, second half: the new entry is younger than every token. *)
LEMMA CompleteJoinSound ==
    ASSUME Sound, TypeOK', NEW c \in Connections, CompleteJoin(c)
    PROVE  Sound'
<1> USE MembersAssumption, NoneAssumption
<1> DEFINE d == pending[c].device
<1>1. d \in Devices
  BY PendingJoin DEF Sound, CompleteJoin
<1> HIDE DEF d
<1>2. /\ worker' = worker
      /\ nextToken' = nextToken + 1
      /\ \A e \in Connections \ {c} :
            /\ pending'[e] = pending[e]
            /\ joined'[e] = joined[e]
            /\ token'[e] = token[e]
      /\ pending'[c] = None /\ joined'[c] = d /\ token'[c] = nextToken
      /\ \A x \in Devices \ {d} : members'[x] = members[x]
      /\ members'[d] = [token |-> nextToken, address |-> c, health |-> NoReport]
  BY DEF Sound, TypeOK, CompleteJoin, Join, d
<1>3. worker[c] = "serving" /\ d # None
  BY <1>1 DEF Sound, SessionsTidy, CompleteJoin
<1>4. SessionsTidy'
  BY <1>2, <1>3 DEF Sound, SessionsTidy
<1>5. TokensIssued' /\ TokensDistinct'
  BY <1>2 DEF Sound, TypeOK, TokensIssued, TokensDistinct
<1>6. EntriesOwned'
  <2> SUFFICES ASSUME NEW x \in Devices, members'[x] # None
               PROVE  Owns(members[x].address, x)'
    BY DEF EntriesOwned
  <2>1. CASE x = d
    BY <1>2, <1>3, <2>1 DEF Owns
  <2>2. CASE x # d
    <3>1. members'[x] = members[x] /\ Owns(members[x].address, x)
      BY <1>2, <2>2 DEF Sound, EntriesOwned
    <3>2. members[x].address # c
      BY <3>1 DEF Sound, JoinsAfterLeaving, FindMember, Owns, CompleteJoin
    <3>3. members[x].address \in Connections
      BY <3>1 DEF Sound, TypeOK, Member, Owns
    <3> QED
      BY <1>2, <3>1, <3>2, <3>3 DEF Owns
  <2> QED
    BY <2>1, <2>2
<1>7. EntriesNewest'
  <2> SUFFICES ASSUME NEW e \in Connections, joined'[e] # None, members'[joined'[e]] # None
               PROVE  token'[e] <= members'[joined'[e]].token
    BY DEF EntriesNewest
  <2>1. joined'[e] \in Devices /\ token'[e] <= nextToken /\ nextToken \in Nat
    BY <1>2 DEF Sound, TypeOK, TokensIssued
  <2>2. CASE joined'[e] = d
    BY <1>2, <2>1, <2>2
  <2>3. CASE joined'[e] # d
    BY <1>2, <2>1, <2>3 DEF Sound, EntriesNewest
  <2> QED
    BY <2>2, <2>3
<1>8. JoinsAfterLeaving'
  <2> SUFFICES ASSUME NEW e \in Connections, pending'[e] # None, pending'[e].op = "join",
                      joined'[e] # None
               PROVE  ~FindMember(joined[e], token[e])'
    BY DEF JoinsAfterLeaving
  <2>1. /\ e # c /\ joined'[e] = joined[e] /\ token'[e] = token[e]
        /\ joined[e] \in Devices /\ token[e] < nextToken
        /\ token[e] \in Nat /\ nextToken \in Nat
        /\ ~FindMember(joined[e], token[e])
    BY <1>2 DEF Sound, TypeOK, TokensIssued, JoinsAfterLeaving
  <2> QED
    BY <1>2, <2>1 DEF FindMember
<1>9. UpdatesItself'
  BY <1>2 DEF Sound, UpdatesItself
<1> QED
  BY <1>4, <1>5, <1>6, <1>7, <1>8, <1>9 DEF Sound

(* CLIENT_STATE, first half: a copy of the session's own entry. *)
LEMMA ServeClientStateSound ==
    ASSUME Sound, TypeOK', NEW c \in Connections, NEW h \in Health, ServeClientState(c, h)
    PROVE  Sound'
<1> USE MembersAssumption, NoneAssumption
<1>1. /\ UNCHANGED <<members, nextToken, worker, joined, token>>
      /\ \A e \in Connections \ {c} : pending'[e] = pending[e]
      /\ pending'[c].op = "update"
      /\ pending'[c].device = joined[c]
      /\ pending'[c].member = [members[joined[c]] EXCEPT !.health = h]
      /\ worker[c] = "serving" /\ joined[c] # None
      /\ FindMember(joined[c], token[c])
  BY DEF Sound, TypeOK, ServeClientState, Idle, tableVars
<1>2. joined[c] \in Devices /\ members[joined[c]] \in Member
  BY <1>1 DEF Sound, TypeOK, FindMember
<1>3. members[joined[c]].address = c
  BY <1>1, <1>2 DEF Sound, EntriesOwned, TokensDistinct, Owns, FindMember, Member, TypeOK,
     SessionsTidy
<1>4. /\ pending'[c].member.token = token[c]
      /\ pending'[c].member.address = c
  BY <1>1, <1>2, <1>3 DEF Member, FindMember
<1>5. SessionsTidy' /\ TokensIssued' /\ TokensDistinct'
  BY <1>1 DEF Sound, SessionsTidy, TokensIssued, TokensDistinct
<1>6. EntriesOwned' /\ EntriesNewest'
  BY <1>1 DEF Sound, EntriesOwned, EntriesNewest, Owns
<1>7. JoinsAfterLeaving'
  BY <1>1 DEF Sound, JoinsAfterLeaving, FindMember
<1>8. UpdatesItself'
  BY <1>1, <1>4 DEF Sound, UpdatesItself
<1> QED
  BY <1>5, <1>6, <1>7, <1>8 DEF Sound

(* CLIENT_STATE, second half: the entry keeps its token and address. *)
LEMMA CompleteClientStateSound ==
    ASSUME Sound, TypeOK', NEW c \in Connections, CompleteClientState(c)
    PROVE  Sound'
<1> USE MembersAssumption, NoneAssumption
<1>1. /\ UNCHANGED <<nextToken, worker, joined, token>>
      /\ \A e \in Connections \ {c} : pending'[e] = pending[e]
      /\ pending'[c] = None
  BY DEF Sound, TypeOK, CompleteClientState, UpdateMember
<1>2. /\ pending[c].device = joined[c]
      /\ pending[c].device \in Devices
      /\ pending[c].member \in Member
      /\ pending[c].member.address = c
      /\ pending[c].member.token = token[c]
      /\ worker[c] = "serving"
  BY PendingUpdate DEF Sound, CompleteClientState, UpdatesItself, SessionsTidy, TypeOK
<1>3. \A x \in Devices :
        \/ members'[x] = members[x]
        \/ /\ members[x] # None /\ members'[x] # None
           /\ members'[x].token = members[x].token
           /\ x = joined[c] /\ members'[x].token = token[c] /\ members'[x].address = c
  BY <1>2, UpdateEffect DEF CompleteClientState, Sound
<1>4. SessionsTidy' /\ TokensIssued' /\ TokensDistinct'
  BY <1>1 DEF Sound, SessionsTidy, TokensIssued, TokensDistinct
<1>5. EntriesOwned'
  BY <1>1, <1>2, <1>3 DEF Sound, EntriesOwned, Owns
<1>6. EntriesNewest'
  BY <1>1, <1>3 DEF Sound, EntriesNewest, TypeOK
<1>7. JoinsAfterLeaving'
  BY <1>1, <1>3 DEF Sound, JoinsAfterLeaving, FindMember, TypeOK
<1>8. UpdatesItself'
  BY <1>1 DEF Sound, UpdatesItself
<1> QED
  BY <1>4, <1>5, <1>6, <1>7, <1>8 DEF Sound

(* The end of a session takes the entry it owns along, and no other. *)
LEMMA EndSessionSound ==
    ASSUME Sound, TypeOK', NEW c \in Connections, EndSession(c)
    PROVE  Sound'
<1> USE MembersAssumption, NoneAssumption
<1>1. /\ UNCHANGED <<nextToken, pending>>
      /\ \A e \in Connections \ {c} :
            /\ worker'[e] = worker[e]
            /\ joined'[e] = joined[e]
            /\ token'[e] = token[e]
      /\ joined'[c] = None /\ worker'[c] = "inactive"
      /\ worker[c] = "ending" /\ pending[c] = None
  BY LeaveType DEF Sound, TypeOK, EndSession, SessionsTidy, tableVars
<1>2. /\ \A x \in Devices : members'[x] \in {members[x], None}
      /\ joined[c] # None /\ members'[joined[c]] # None => members'[joined[c]].token # token[c]
  <2>1. CASE joined[c] = None
    BY <2>1 DEF EndSession, tableVars
  <2>2. CASE joined[c] # None
    <3>1. joined[c] \in Devices
      BY <2>2 DEF Sound, TypeOK
    <3>2. Leave(joined[c], token[c])
      BY <2>2 DEF EndSession
    <3> QED
      BY <3>1, <3>2, LeaveEffect DEF Sound
  <2> QED
    BY <2>1, <2>2
<1>3. SessionsTidy' /\ TokensIssued' /\ TokensDistinct'
  BY <1>1 DEF Sound, SessionsTidy, TokensIssued, TokensDistinct
<1>4. EntriesOwned'
  <2> SUFFICES ASSUME NEW x \in Devices, members'[x] # None
               PROVE  Owns(members[x].address, x)'
    BY DEF EntriesOwned
  <2>1. members'[x] = members[x] /\ Owns(members[x].address, x)
    BY <1>2 DEF Sound, EntriesOwned
  <2>2. members[x].address \in Connections
    BY <2>1 DEF Sound, TypeOK, Member, Owns
  <2>3. members[x].address # c
    BY <1>2, <2>1 DEF Owns
  <2> QED
    BY <1>1, <2>1, <2>2, <2>3 DEF Owns
<1>5. EntriesNewest' /\ JoinsAfterLeaving'
  BY <1>1, <1>2 DEF Sound, EntriesNewest, JoinsAfterLeaving, FindMember, TypeOK
<1>6. UpdatesItself'
  BY <1>1 DEF Sound, UpdatesItself
<1> QED
  BY <1>3, <1>4, <1>5, <1>6 DEF Sound

(* The accept thread, the peers and the destructor touch no running        *)
(* session but to end its loop.                                            *)
LEMMA OthersSound ==
    ASSUME Sound, TypeOK', UNCHANGED <<members, nextToken, joined, token, pending>>,
           \A c \in Connections :
              \/ worker'[c] = worker[c]
              \/ worker[c] \notin {"serving", "ending"}
              \/ worker[c] = "serving" /\ worker'[c] = "ending" /\ pending[c] = None
    PROVE  Sound'
<1> USE MembersAssumption, NoneAssumption
<1>1. SessionsTidy'
  BY DEF Sound, SessionsTidy
<1>2. TokensIssued' /\ TokensDistinct' /\ EntriesNewest' /\ JoinsAfterLeaving' /\ UpdatesItself'
  BY DEF Sound, TokensIssued, TokensDistinct, EntriesNewest, JoinsAfterLeaving,
     UpdatesItself, FindMember
<1>3. EntriesOwned'
  <2> SUFFICES ASSUME NEW x \in Devices, members[x] # None
               PROVE  Owns(members[x].address, x)'
    BY DEF EntriesOwned
  <2>1. members[x].address \in Connections /\ Owns(members[x].address, x)
    BY DEF Sound, EntriesOwned, TypeOK, Member
  <2> QED
    BY <2>1 DEF Owns
<1> QED
  BY <1>1, <1>2, <1>3 DEF Sound

(* Every step keeps the invariant: one lemma for each step of a worker. *)
LEMMA SoundStep == Sound /\ [Next]_vars => Sound'
<1> SUFFICES ASSUME Sound, [Next]_vars PROVE Sound'
  OBVIOUS
<1>1. TypeOK'
  BY TypeStep DEF Sound
<1>2. ASSUME NEW c \in Connections, WorkerStep(c) PROVE Sound'
  <2>1. CASE EndLoop(c)
    BY <1>1, <2>1, OthersSound DEF EndLoop, Idle, tableVars, sessionVars, Sound, TypeOK
  <2> QED
    BY <1>1, <1>2, <2>1, ServeJoinSound, CompleteJoinSound, ServeClientStateSound,
       CompleteClientStateSound, EndSessionSound DEF WorkerStep
<1>3. ASSUME NEW c \in Connections, PeerStep(c) PROVE Sound'
  BY <1>1, <1>3, OthersSound
     DEF PeerStep, PeerConnects, PeerCloses, tableVars, sessionVars, Sound, TypeOK
<1>4. CASE AcceptorStep
  BY <1>1, <1>4, OthersSound
     DEF AcceptorStep, Reap, Accept, AcceptTimesOut, AcceptorEnds, tableVars, sessionVars,
         Sound, TypeOK
<1>5. CASE StopServer \/ UNCHANGED vars
  BY <1>1, <1>5, OthersSound DEF StopServer, vars, tableVars, sessionVars
<1> QED
  BY <1>2, <1>3, <1>4, <1>5 DEF Next

-----------------------------------------------------------------------------
(* The invariant holds throughout. *)
LEMMA SoundAlways == Spec => []Sound
  BY SoundInit, SoundStep, PTL DEF Spec

(* No ghost members: every entry of the room's table belongs to a worker   *)
(* of the control server that runs, holds the entry's token and serves the *)
(* entry's address.                                                        *)
THEOREM MembersHaveSessions == Spec => []EveryMemberHasASession
<1>1. Sound => EveryMemberHasASession
  BY DEF Sound, TypeOK, EntriesOwned, EveryMemberHasASession, Member
<1> QED
  BY <1>1, SoundAlways, PTL

(* The newest join of a device wins, and no two sessions hold one token    *)
(* (Room::join), however sessions of the same device overlap.              *)
THEOREM NewestJoinAlwaysWins == Spec => []NewestJoinWins
<1>1. Sound => NewestJoinWins
  BY DEF Sound, TokensDistinct, EntriesNewest, NewestJoinWins
<1> QED
  BY <1>1, SoundAlways, PTL

(* What OnlyTheOwnerTouches allows a step to do to the entry of a device. *)
Allowed(d) ==
    (members[d] # None /\ members'[d] # members[d]) =>
        \/ members'[d] # None /\ members'[d].token > members[d].token
        \/ \E c \in Connections :
             /\ Owns(c, d)
             /\ <<pending[c], worker[c]>> # <<pending'[c], worker'[c]>>

(* Each step that changes an entry is one of the four that may. *)
LEMMA OwnerStep ==
    ASSUME Sound, [Next]_vars, NEW d \in Devices
    PROVE  Allowed(d)
<1> SUFFICES ASSUME members[d] # None, members'[d] # members[d]
             PROVE  Allowed(d)
  BY DEF Allowed
<1> USE MembersAssumption, NoneAssumption
<1>1. ASSUME NEW c \in Connections, NEW x \in Devices, ServeJoin(c, x) PROVE Allowed(d)
  <2>1. joined[c] \in Devices /\ Leave(joined[c], token[c])
    BY <1>1 DEF Sound, TypeOK, ServeJoin, tableVars
  <2>2. d = joined[c] /\ members[d].token = token[c]
    BY <2>1, LeaveEffect DEF Sound
  <2>3. pending'[c] # pending[c] /\ worker[c] = "serving"
    BY <1>1 DEF Sound, TypeOK, ServeJoin, Idle, JoinOp
  <2> QED
    BY <2>2, <2>3 DEF Allowed, Owns
<1>2. ASSUME NEW c \in Connections, CompleteJoin(c) PROVE Allowed(d)
  <2>1. members'[d] = [token |-> nextToken, address |-> c, health |-> NoReport]
    BY <1>2 DEF Sound, TypeOK, CompleteJoin, Join
  <2>2. members[d].token < nextToken /\ members'[d] # None
    BY <2>1 DEF Sound, TypeOK, Member, EntriesOwned, Owns, TokensIssued
  <2>3. members'[d].token = nextToken /\ nextToken \in Nat /\ members[d].token \in Nat
    BY <2>1 DEF Sound, TypeOK, Member
  <2> QED
    BY <2>2, <2>3 DEF Allowed
<1>3. ASSUME NEW c \in Connections, CompleteClientState(c) PROVE Allowed(d)
  <2>1. /\ pending[c].device \in Devices /\ pending[c].member \in Member
        /\ pending[c].device = joined[c] /\ joined[c] # None
        /\ pending[c].member.token = token[c]
        /\ worker[c] = "serving"
    BY <1>3, PendingUpdate DEF Sound, CompleteClientState, UpdatesItself, SessionsTidy, TypeOK
  <2>2. UpdateMember(pending[c].device, pending[c].member)
    BY <1>3 DEF CompleteClientState
  <2>3. d = joined[c] /\ members[d].token = token[c]
    BY <2>1, <2>2, UpdateEffect DEF Sound
  <2>4. pending[c] # None /\ pending'[c] = None
    BY <1>3 DEF CompleteClientState, Sound, TypeOK
  <2> QED
    BY <2>1, <2>3, <2>4 DEF Allowed, Owns
<1>4. ASSUME NEW c \in Connections, EndSession(c) PROVE Allowed(d)
  <2>1. joined[c] \in Devices /\ Leave(joined[c], token[c])
    BY <1>4 DEF Sound, TypeOK, EndSession, tableVars
  <2>2. d = joined[c] /\ members[d].token = token[c]
    BY <2>1, LeaveEffect DEF Sound
  <2>3. worker'[c] # worker[c] /\ worker[c] = "ending"
    BY <1>4 DEF Sound, TypeOK, EndSession
  <2> QED
    BY <2>2, <2>3 DEF Allowed, Owns
<1>5. CASE members' = members
  BY <1>5
<1> QED
  BY <1>1, <1>2, <1>3, <1>4, <1>5
     DEF Next, WorkerStep, PeerStep, AcceptorStep, vars, tableVars, ServeClientState,
         EndLoop, PeerConnects, PeerCloses, Reap, Accept, AcceptTimesOut, AcceptorEnds,
         StopServer

(* A superseded session is harmless: an entry of the table only disappears *)
(* or changes under its token by the doing of the session that owns it     *)
(* (the token checks of Room::leave and Room::updateMember).               *)
THEOREM OnlyTheOwnerEverTouches == Spec => OnlyTheOwnerTouches
<1>1. Sound /\ [Next]_vars =>
        [\A d \in Devices :
           (members[d] # None /\ members'[d] # members[d]) =>
             \/ members'[d] # None /\ members'[d].token > members[d].token
             \/ \E c \in Connections :
                  /\ Owns(c, d)
                  /\ <<pending[c], worker[c]>> # <<pending'[c], worker'[c]>>
        ]_vars
  BY OwnerStep DEF Allowed
<1> QED
  BY <1>1, SoundAlways, PTL DEF Spec, OnlyTheOwnerTouches
=============================================================================
