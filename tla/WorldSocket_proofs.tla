-------------------------- MODULE WorldSocket_proofs ---------------------------
(***************************************************************************)
(* Proofs about WorldSocket, for every set of connections and every bound   *)
(* on the instance keys.                                                    *)
(*                                                                          *)
(* That a network thread never uses a freed session through a socket the    *)
(* session knows rests on facts that hold together: how far the handshake   *)
(* of a connection is (Handshake), which pointers there may be between      *)
(* sockets and sessions (Pointers), that nobody else works on a socket      *)
(* before it is linked (Fresh), who runs OnClose of a socket that is shut   *)
(* (Shut), and how far the world thread is with closing the sockets of the  *)
(* session it is about to free (Closing, Freed).                            *)
(***************************************************************************)
EXTENDS WorldSocket, TLAPS

\* What the phase of the handshake says of queries, reads and the session.
Handshake ==
    \A x \in Sockets :
        /\ status[x] = "unused" =>
              phase[x] = "AwaitAuth" /\ reads[x] = "none" /\ step[x] = "idle" /\ query[x] = {}
        /\ phase[x] = "AwaitAuth" =>
              session[x] = "none" /\ kind[x] = "realm" /\ query[x] \subseteq {"ip"}
        /\ "ip" \in query[x] => reads[x] = "none" /\ step[x] \in {"idle", "onclose"}
        /\ query[x] \cap {"account", "permissions", "continued"} # {} =>
              phase[x] = "Authenticating"
        /\ "account" \in query[x] => session[x] = "none"
        /\ kind[x] = "instance" =>
              session[x] = "none" /\ query[x] \cap {"account", "permissions"} = {}
        /\ session[x] = "pending" =>
              status[x] # "closed" /\ phase[x] \in {"Authenticating", "AwaitEncryptionAck"}
        /\ session[x] \in {"queued", "listed"} => phase[x] = "Encrypted"
        /\ x \in links => kind[x] = "instance" /\ phase[x] = "Encrypted"

\* A socket points to the session it created, or was linked to a session when
\* that was in m_sessions; only such a session has had an instance socket.
Pointers ==
    /\ \A x \in Sockets : \A s \in ptr[x] :
          IF x = s THEN session[s] # "none" /\ status[s] # "closed"
          ELSE session[s] \in {"listed", "freed"}
    /\ \A s \in Sockets : \A x \in inst[s] :
          session[s] \in {"listed", "freed"} /\ kind[x] = "instance"

\* A socket that has not sent its first packet, or will join a session as the
\* instance socket but has not yet done so.
Unlinked(x) ==
    \/ phase[x] = "AwaitAuth"
    \/ /\ kind[x] = "instance"
       /\ phase[x] # "Encrypted" \/ x \in links \/ (wpc = "link" /\ x \in wsocks)

\* No session knows such a socket, and no thread but its own works on it.
Fresh ==
    \A x \in Sockets : Unlinked(x) =>
        /\ ptr[x] = {} /\ \A s \in Sockets : x \notin inst[s] /\ x \notin kicks[s]
        /\ x \notin wcur /\ ~(wpc = "close" /\ x \in wsocks)
        /\ step[x] \in {"idle", "packet", "onclose"}
        /\ status[x] = "shut" => step[x] = "onclose"
        /\ status[x] = "closed" => step[x] = "idle"

\* A thread that has taken _worldSessionLock of its socket, or is about to.
Handling == {"packet", "abort", "kick", "kicked"}

\* The sockets that another network thread has shut in KickPlayer.
Kicked == UNION {kicks[y] : y \in Sockets}

\* A socket that is shut has a thread that will run its OnClose, or one that is
\* stuck; a closed one that was linked too late handles no packet any more.
Shut ==
    /\ \A x \in Sockets : status[x] = "shut" =>
          step[x] \in {"onclose", "stuck"} \/ x \in wcur \/ x \in Kicked
    /\ \A x \in Sockets : \A y \in kicks[x] : step[x] \in {"kick", "kicked", "stuck"}
    /\ \A x \in Sockets : \A s \in ptr[x] : status[x] = "closed" => step[x] \notin Handling
    /\ \A x, y \in wcur : x = y
    /\ wpc # "close" => wcur = {}

\* The session the world thread works on is in m_sessions, and its sockets, once
\* the thread is through with them, are not open any more.
Closing ==
    /\ wpc = "idle" => wsess = {}
    /\ \A s \in wsess : session[s] = "listed"
    /\ wpc = "link" =>
          \A x \in wsocks : kind[x] = "instance" /\ phase[x] = "Encrypted" /\ x \notin links
    /\ wpc = "close" =>
          \A s \in wsess : \A x \in {s} \cup inst[s] : x \in wsocks \/ ~NotClosed(x)

\* A session is freed before a socket it knew has forgotten it only if that socket
\* is shut, and the world thread does not run its OnClose.
Freed ==
    \A s \in Sockets : session[s] = "freed" =>
        \A x \in {s} \cup inst[s] : s \in ptr[x] => ~NotClosed(x) /\ x \notin wcur

Inv == TypeOK /\ Handshake /\ Pointers /\ Fresh /\ Shut /\ Closing /\ Freed

--------------------------------------------------------------------------------
\* KickPlayer shuts a socket of the session x points to.
LEMMA KickIs ==
    ASSUME SessionTypes, NEW x \in Sockets, KickRealm(x) \/ KickInstance(x)
    PROVE  \E socks \in SUBSET Sockets, then \in {"kick", "kicked"} :
              /\ Kick(x, socks, then) /\ step[x] \in {"abort", "kick"}
              /\ step[x] = "kick" => kicks[x] = {}
              /\ \E s \in ptr[x] : socks \subseteq {s} \/ socks \subseteq inst[s]
<1> USE DEF SessionTypes
<1>1. CASE KickRealm(x)
  <2> PICK s \in ptr[x] : Kick(x, {s}, "kick")
    BY <1>1 DEF KickRealm
  <2> QED
    BY <1>1 DEF KickRealm
<1>2. CASE KickInstance(x)
  <2> PICK s \in ptr[x] : Kick(x, inst[s], "kicked") \/ Kick(x, {}, "kicked")
    BY <1>2 DEF KickInstance
  <2>1. s \in Sockets /\ inst[s] \in SUBSET Sockets /\ {} \in SUBSET Sockets
    OBVIOUS
  <2> QED
    BY <1>2, <2>1 DEF KickInstance
<1> QED
  BY <1>1, <1>2

(* Every step preserves the types, one group of variables at a time. *)

\* The fields of a connection.
LEMMA SocketTypesStep == SocketTypes /\ SessionTypes /\ [Next]_vars => SocketTypes'
<1> SUFFICES ASSUME SocketTypes, SessionTypes, [Next]_vars PROVE SocketTypes'
  OBVIOUS
<1> USE DEF SocketTypes, Phases, net, life, wvars
<1>1. ASSUME NEW x \in Sockets, OnClose(x) PROVE SocketTypes'
  BY <1>1 DEF OnClose, Abandon
<1>2. ASSUME NEW x \in Sockets, WriteHandler(x) \/ AuthenticationTimeout(x) \/ Start(x)
      PROVE  SocketTypes'
  BY <1>2 DEF WriteHandler, AuthenticationTimeout, Start, CloseSocket, NotClosed, IsOpen,
    Idle
<1>3. ASSUME NEW x \in Sockets, CheckIpCallback(x) \/ InitializeHandler(x) \/ ReadHandler(x)
      PROVE  SocketTypes'
  BY <1>3 DEF CheckIpCallback, InitializeHandler, ReadHandler, QueryReady,
    DelayedCloseSocket, CloseSocket, Return, AsyncRead, Reads, NotClosed, IsOpen, Idle
<1>4. ASSUME NEW x \in Sockets, HandleOther(x) \/ HandlePing(x) \/ HandleGamePacket(x)
      PROVE  SocketTypes'
  BY <1>4 DEF HandleOther, HandlePing, HandleGamePacket, Ok, Error, CloseSocket, Return,
    AsyncRead, Reads, NotClosed, IsOpen
<1>5. ASSUME NEW x \in Sockets, HandleAuthSession(x) PROVE SocketTypes'
  BY <1>5 DEF HandleAuthSession, MayAuthenticate, WaitingForQuery, Error, CloseSocket,
    Return, NotClosed, IsOpen
<1>6. ASSUME NEW x \in Sockets, HandleAuthContinuedSession(x) PROVE SocketTypes'
  BY <1>6 DEF HandleAuthContinuedSession, MayAuthenticate, DelayedCloseSocket, Error,
    CloseSocket, Return, NotClosed, IsOpen
<1>7. ASSUME NEW x \in Sockets, HandleAuthSessionCallback(x) PROVE SocketTypes'
  BY <1>7 DEF HandleAuthSessionCallback, QueryReady, StillAuthenticating,
    DelayedCloseSocket, Ok, CloseSocket, Return, AsyncRead, Reads, NotClosed, IsOpen, Idle
<1>8. ASSUME NEW x \in Sockets,
             LoadSessionPermissionsCallback(x) \/ HandleAuthContinuedSessionCallback(x)
      PROVE  SocketTypes'
  BY <1>8 DEF LoadSessionPermissionsCallback, HandleAuthContinuedSessionCallback,
    QueryReady, StillAuthenticating, DelayedCloseSocket, Ok, CloseSocket, Return, AsyncRead,
    Reads, NotClosed, IsOpen, Idle
<1>9. ASSUME NEW x \in Sockets, HandleEnterEncryptedModeAck(x) PROVE SocketTypes'
  BY <1>9 DEF HandleEnterEncryptedModeAck, MayAcknowledge, Ok, Error, CloseSocket, Return,
    AsyncRead, Reads, NotClosed, IsOpen
<1>10. ASSUME NEW x \in Sockets, HandleConnectToFailed(x) \/ AbortLogin(x)
      PROVE  SocketTypes'
  BY <1>10 DEF HandleConnectToFailed, AbortLogin, Ok, Return, AsyncRead, Reads, NotClosed,
    IsOpen
<1>11. ASSUME NEW x \in Sockets, KickRealm(x) \/ KickInstance(x) PROVE SocketTypes'
  <2>1. PICK socks \in SUBSET Sockets, then \in {"kick", "kicked"} :
             /\ Kick(x, socks, then) /\ step[x] \in {"abort", "kick"}
             /\ step[x] = "kick" => kicks[x] = {}
             /\ \E s \in ptr[x] : socks \subseteq {s} \/ socks \subseteq inst[s]
    BY <1>11, KickIs
  <2>2. UNCHANGED <<phase, kind, reads>>
    BY <2>1 DEF Kick
  <2>3. /\ status' \in [Sockets -> {"unused", "open", "closing", "shut", "closed"}]
        /\ step' \in [Sockets -> {"idle", "packet", "onclose", "abort", "kick", "kicked", "stuck"}]
        /\ kicks' \in [Sockets -> SUBSET Sockets]
    BY <2>1 DEF Kick
  <2> QED
    BY <2>2, <2>3
<1>20. ASSUME NEW x \in Sockets, KickOnClose(x) PROVE SocketTypes'
  BY <1>20 DEF KickOnClose, Abandon, NotClosed, IsOpen
<1>21. ASSUME NEW x \in Sockets, KickReturn(x) PROVE SocketTypes'
  BY <1>21 DEF KickReturn, Ok, Return, AsyncRead, Reads, NotClosed, IsOpen
<1>12. ASSUME NEW s \in Sockets,
              AddSession_(s) \/ HandlePlayerLoginOpcode(s) \/ HandlePlayerLogin(s)
      PROVE  SocketTypes'
  BY <1>12 DEF AddSession_, HandlePlayerLoginOpcode, HandlePlayerLogin, Listed, IsOpen
<1>13. ASSUME NEW s \in Sockets, LogoutPlayer(s) \/ KickOrDelete(s) PROVE SocketTypes'
  BY <1>13 DEF LogoutPlayer, KickOrDelete, Listed, Working, CloseSockets, SocketsOf
<1>14. ASSUME NEW x \in Sockets, RefuseLink(x) \/ AcceptLink(x) PROVE SocketTypes'
  BY <1>14 DEF RefuseLink, AcceptLink, Listed, Working, CloseSockets, IsOpen
<1>15. ASSUME NEW x \in Sockets, WorldCloseSocket(x) PROVE SocketTypes'
  BY <1>15 DEF WorldCloseSocket, NotClosed, IsOpen
<1>16. CASE LinkSession
  BY <1>16 DEF LinkSession, CloseSockets
<1>17. CASE WorldOnClose
  BY <1>17 DEF WorldOnClose, Abandon
<1>18. CASE EndClose
  BY <1>18 DEF EndClose
<1>19. CASE UNCHANGED vars
  BY <1>19 DEF vars
<1> QED
  BY <1>1, <1>2, <1>3, <1>4, <1>5, <1>6, <1>7, <1>8, <1>9, <1>10, <1>11, <1>12, <1>13,
    <1>14, <1>15, <1>16, <1>17, <1>18, <1>19, <1>20, <1>21 DEF Next, WorldThread,
    NetworkThread, HandlePacket, HandleQuery

\* A handler adds a query only when none is under way.
LEMMA QueryTypesStep == SocketTypes /\ QueryTypes /\ Handshake /\ [Next]_vars => QueryTypes'
<1> SUFFICES ASSUME SocketTypes /\ QueryTypes /\ Handshake, [Next]_vars PROVE QueryTypes'
  OBVIOUS
<1> USE DEF SocketTypes, QueryTypes, Handshake, net, life, wvars
<1>1. ASSUME NEW x \in Sockets, OnClose(x) PROVE QueryTypes'
  BY <1>1 DEF OnClose, Abandon
<1>2. ASSUME NEW x \in Sockets, WriteHandler(x) \/ AuthenticationTimeout(x) \/ Start(x)
      PROVE  QueryTypes'
  BY <1>2 DEF WriteHandler, AuthenticationTimeout, Start, CloseSocket, NotClosed, IsOpen,
    Idle
<1>3. ASSUME NEW x \in Sockets, CheckIpCallback(x) \/ InitializeHandler(x) \/ ReadHandler(x)
      PROVE  QueryTypes'
  BY <1>3 DEF CheckIpCallback, InitializeHandler, ReadHandler, QueryReady,
    DelayedCloseSocket, CloseSocket, Return, AsyncRead, Reads, NotClosed, IsOpen, Idle
<1>4. ASSUME NEW x \in Sockets, HandleOther(x) \/ HandlePing(x) \/ HandleGamePacket(x)
      PROVE  QueryTypes'
  BY <1>4 DEF HandleOther, HandlePing, HandleGamePacket, Ok, Error, CloseSocket, Return,
    AsyncRead, Reads, NotClosed, IsOpen
<1>5. ASSUME NEW x \in Sockets, HandleAuthSession(x) PROVE QueryTypes'
  BY <1>5 DEF HandleAuthSession, MayAuthenticate, WaitingForQuery, Error, CloseSocket,
    Return, NotClosed, IsOpen
<1>6. ASSUME NEW x \in Sockets, HandleAuthContinuedSession(x) PROVE QueryTypes'
  BY <1>6 DEF HandleAuthContinuedSession, MayAuthenticate, DelayedCloseSocket, Error,
    CloseSocket, Return, NotClosed, IsOpen
<1>7. ASSUME NEW x \in Sockets, HandleAuthSessionCallback(x) PROVE QueryTypes'
  BY <1>7 DEF HandleAuthSessionCallback, QueryReady, StillAuthenticating,
    DelayedCloseSocket, Ok, CloseSocket, Return, AsyncRead, Reads, NotClosed, IsOpen, Idle
<1>8. ASSUME NEW x \in Sockets,
             LoadSessionPermissionsCallback(x) \/ HandleAuthContinuedSessionCallback(x)
      PROVE  QueryTypes'
  BY <1>8 DEF LoadSessionPermissionsCallback, HandleAuthContinuedSessionCallback,
    QueryReady, StillAuthenticating, DelayedCloseSocket, Ok, CloseSocket, Return, AsyncRead,
    Reads, NotClosed, IsOpen, Idle
<1>9. ASSUME NEW x \in Sockets, HandleEnterEncryptedModeAck(x) PROVE QueryTypes'
  BY <1>9 DEF HandleEnterEncryptedModeAck, MayAcknowledge, Ok, Error, CloseSocket, Return,
    AsyncRead, Reads, NotClosed, IsOpen
<1>10. ASSUME NEW x \in Sockets, HandleConnectToFailed(x) \/ AbortLogin(x) PROVE QueryTypes'
  BY <1>10 DEF HandleConnectToFailed, AbortLogin, Ok, Return, AsyncRead, Reads, NotClosed,
    IsOpen
<1>11. ASSUME NEW x \in Sockets, KickRealm(x) \/ KickInstance(x) PROVE QueryTypes'
  BY <1>11 DEF KickRealm, KickInstance, Kick, NotClosed, IsOpen
<1>20. ASSUME NEW x \in Sockets, KickOnClose(x) PROVE QueryTypes'
  BY <1>20 DEF KickOnClose, Abandon, NotClosed, IsOpen
<1>21. ASSUME NEW x \in Sockets, KickReturn(x) PROVE QueryTypes'
  BY <1>21 DEF KickReturn, Ok, Return, AsyncRead, Reads, NotClosed, IsOpen
<1>12. ASSUME NEW s \in Sockets,
              AddSession_(s) \/ HandlePlayerLoginOpcode(s) \/ HandlePlayerLogin(s)
      PROVE  QueryTypes'
  BY <1>12 DEF AddSession_, HandlePlayerLoginOpcode, HandlePlayerLogin, Listed, IsOpen
<1>13. ASSUME NEW s \in Sockets, LogoutPlayer(s) \/ KickOrDelete(s) PROVE QueryTypes'
  BY <1>13 DEF LogoutPlayer, KickOrDelete, Listed, Working, CloseSockets, SocketsOf
<1>14. ASSUME NEW x \in Sockets, RefuseLink(x) \/ AcceptLink(x) PROVE QueryTypes'
  BY <1>14 DEF RefuseLink, AcceptLink, Listed, Working, CloseSockets, IsOpen
<1>15. ASSUME NEW x \in Sockets, WorldCloseSocket(x) PROVE QueryTypes'
  BY <1>15 DEF WorldCloseSocket, NotClosed, IsOpen
<1>16. CASE LinkSession
  BY <1>16 DEF LinkSession, CloseSockets
<1>17. CASE WorldOnClose
  BY <1>17 DEF WorldOnClose, Abandon
<1>18. CASE EndClose
  BY <1>18 DEF EndClose
<1>19. CASE UNCHANGED vars
  BY <1>19 DEF vars
<1> QED
  BY <1>1, <1>2, <1>3, <1>4, <1>5, <1>6, <1>7, <1>8, <1>9, <1>10, <1>11, <1>12, <1>13,
    <1>14, <1>15, <1>16, <1>17, <1>18, <1>19, <1>20, <1>21 DEF Next, WorldThread,
    NetworkThread, HandlePacket, HandleQuery

\* The sessions and the pointers to them.
LEMMA SessionTypesStep == SessionTypes /\ WorldTypes /\ [Next]_vars => SessionTypes'
<1> SUFFICES ASSUME SessionTypes /\ WorldTypes, [Next]_vars PROVE SessionTypes'
  OBVIOUS
<1> USE DEF SessionTypes, WorldTypes, net, life, wvars
<1>1. ASSUME NEW x \in Sockets, OnClose(x) PROVE SessionTypes'
  BY <1>1 DEF OnClose, Abandon
<1>2. ASSUME NEW x \in Sockets, WriteHandler(x) \/ AuthenticationTimeout(x) \/ Start(x)
      PROVE  SessionTypes'
  BY <1>2 DEF WriteHandler, AuthenticationTimeout, Start, CloseSocket, NotClosed, IsOpen,
    Idle
<1>3. ASSUME NEW x \in Sockets, CheckIpCallback(x) \/ InitializeHandler(x) \/ ReadHandler(x)
      PROVE  SessionTypes'
  BY <1>3 DEF CheckIpCallback, InitializeHandler, ReadHandler, QueryReady,
    DelayedCloseSocket, CloseSocket, Return, AsyncRead, Reads, NotClosed, IsOpen, Idle
<1>4. ASSUME NEW x \in Sockets, HandleOther(x) \/ HandlePing(x) \/ HandleGamePacket(x)
      PROVE  SessionTypes'
  BY <1>4 DEF HandleOther, HandlePing, HandleGamePacket, Ok, Error, CloseSocket, Return,
    AsyncRead, Reads, NotClosed, IsOpen
<1>5. ASSUME NEW x \in Sockets, HandleAuthSession(x) PROVE SessionTypes'
  BY <1>5 DEF HandleAuthSession, MayAuthenticate, WaitingForQuery, Error, CloseSocket,
    Return, NotClosed, IsOpen
<1>6. ASSUME NEW x \in Sockets, HandleAuthContinuedSession(x) PROVE SessionTypes'
  BY <1>6 DEF HandleAuthContinuedSession, MayAuthenticate, DelayedCloseSocket, Error,
    CloseSocket, Return, NotClosed, IsOpen
<1>7. ASSUME NEW x \in Sockets, HandleAuthSessionCallback(x) PROVE SessionTypes'
  <2>1. UNCHANGED <<key, inst, login, drawn>>
    BY <1>7 DEF HandleAuthSessionCallback
  <2>2. /\ session' = session \/ session' = [session EXCEPT ![x] = "pending"]
        /\ ptr' = ptr \/ ptr' = [ptr EXCEPT ![x] = {x}]
    BY <1>7 DEF HandleAuthSessionCallback
  <2>3. session' \in [Sockets -> {"none", "pending", "queued", "listed", "freed"}]
    BY <2>2
  <2>4. ptr' \in [Sockets -> SUBSET Sockets]
    BY <2>2
  <2> QED
    BY <2>1, <2>3, <2>4
<1>8. ASSUME NEW x \in Sockets,
             LoadSessionPermissionsCallback(x) \/ HandleAuthContinuedSessionCallback(x)
      PROVE  SessionTypes'
  BY <1>8 DEF LoadSessionPermissionsCallback, HandleAuthContinuedSessionCallback,
    QueryReady, StillAuthenticating, DelayedCloseSocket, Ok, CloseSocket, Return, AsyncRead,
    Reads, NotClosed, IsOpen, Idle
<1>9. ASSUME NEW x \in Sockets, HandleEnterEncryptedModeAck(x) PROVE SessionTypes'
  BY <1>9 DEF HandleEnterEncryptedModeAck, MayAcknowledge, Ok, Error, CloseSocket, Return,
    AsyncRead, Reads, NotClosed, IsOpen
<1>10. ASSUME NEW x \in Sockets, HandleConnectToFailed(x) \/ AbortLogin(x)
      PROVE  SessionTypes'
  <2>1. UNCHANGED <<key, ptr, session, inst>>
    BY <1>10 DEF HandleConnectToFailed, AbortLogin
  <2>2. /\ \/ login' = login
           \/ \E s \in ptr[x] : login' = [login EXCEPT ![s] = "none"]
        /\ \/ drawn' = drawn
           \/ \E s \in ptr[x] : drawn[s] < MaxKey /\ drawn' = [drawn EXCEPT ![s] = @ + 1]
    BY <1>10 DEF HandleConnectToFailed, AbortLogin
  <2>3. login' \in [Sockets -> {"none", "loading", "world"}]
    BY <2>2
  <2>4. drawn' \in [Sockets -> 0..MaxKey]
    BY <2>2, MaxKeyAssumption
  <2> QED
    BY <2>1, <2>3, <2>4
<1>11. ASSUME NEW x \in Sockets, KickRealm(x) \/ KickInstance(x) PROVE SessionTypes'
  BY <1>11 DEF KickRealm, KickInstance, Kick, NotClosed, IsOpen
<1>20. ASSUME NEW x \in Sockets, KickOnClose(x) PROVE SessionTypes'
  BY <1>20 DEF KickOnClose, Abandon, NotClosed, IsOpen
<1>21. ASSUME NEW x \in Sockets, KickReturn(x) PROVE SessionTypes'
  BY <1>21 DEF KickReturn, Ok, Return, AsyncRead, Reads, NotClosed, IsOpen
<1>12. ASSUME NEW s \in Sockets,
              AddSession_(s) \/ HandlePlayerLoginOpcode(s) \/ HandlePlayerLogin(s)
      PROVE  SessionTypes'
  <2>1. UNCHANGED <<key, ptr, inst>>
    BY <1>12 DEF AddSession_, HandlePlayerLoginOpcode, HandlePlayerLogin
  <2>2. /\ session' = session \/ session' = [session EXCEPT ![s] = "listed"]
        /\ \/ login' = login
           \/ \E p \in {"none", "loading", "world"} : login' = [login EXCEPT ![s] = p]
    BY <1>12 DEF AddSession_, HandlePlayerLoginOpcode, HandlePlayerLogin
  <2>3. \/ drawn' = drawn
        \/ drawn[s] < MaxKey /\ drawn' = [drawn EXCEPT ![s] = @ + 1]
    BY <1>12 DEF AddSession_, HandlePlayerLoginOpcode, HandlePlayerLogin
  <2>4. session' \in [Sockets -> {"none", "pending", "queued", "listed", "freed"}]
    BY <2>2
  <2>5. login' \in [Sockets -> {"none", "loading", "world"}]
    BY <2>2
  <2>6. drawn' \in [Sockets -> 0..MaxKey]
    BY <2>3, MaxKeyAssumption
  <2> QED
    BY <2>1, <2>4, <2>5, <2>6
<1>13. ASSUME NEW s \in Sockets, LogoutPlayer(s) \/ KickOrDelete(s) PROVE SessionTypes'
  <2>1. /\ UNCHANGED <<key, ptr, session, drawn>>
        /\ login' = login \/ login' = [login EXCEPT ![s] = "none"]
        /\ inst' = inst \/ inst' = [inst EXCEPT ![s] = {}]
    BY <1>13 DEF LogoutPlayer, KickOrDelete
  <2>2. inst' \in [Sockets -> SUBSET Sockets]
    BY <2>1
  <2> QED
    BY <2>1, <2>2
<1>14. ASSUME NEW x \in Sockets, RefuseLink(x) \/ AcceptLink(x) PROVE SessionTypes'
  BY <1>14 DEF RefuseLink, AcceptLink, Listed, Working, CloseSockets, IsOpen
<1>15. ASSUME NEW x \in Sockets, WorldCloseSocket(x) PROVE SessionTypes'
  BY <1>15 DEF WorldCloseSocket, NotClosed, IsOpen
<1>16. CASE LinkSession
  <2> PICK s \in wsess, x \in wsocks :
           ptr' = [ptr EXCEPT ![x] = {s}] /\ inst' = [inst EXCEPT ![s] = {x}]
    BY <1>16 DEF LinkSession
  <2> QED
    BY <1>16 DEF LinkSession
<1>17. CASE WorldOnClose
  BY <1>17 DEF WorldOnClose, Abandon
<1>18. CASE EndClose
  BY <1>18 DEF EndClose
<1>19. CASE UNCHANGED vars
  BY <1>19 DEF vars
<1> QED
  BY <1>1, <1>2, <1>3, <1>4, <1>5, <1>6, <1>7, <1>8, <1>9, <1>10, <1>11, <1>12, <1>13,
    <1>14, <1>15, <1>16, <1>17, <1>18, <1>19, <1>20, <1>21 DEF Next, WorldThread,
    NetworkThread, HandlePacket, HandleQuery

\* The work of the world thread.
LEMMA WorldTypesStep == WorldTypes /\ SessionTypes /\ [Next]_vars => WorldTypes'
<1> SUFFICES ASSUME WorldTypes /\ SessionTypes, [Next]_vars PROVE WorldTypes'
  OBVIOUS
<1> USE DEF WorldTypes, SessionTypes, net, life, wvars
<1>1. ASSUME NEW x \in Sockets, OnClose(x) PROVE WorldTypes'
  BY <1>1 DEF OnClose, Abandon
<1>2. ASSUME NEW x \in Sockets, WriteHandler(x) \/ AuthenticationTimeout(x) \/ Start(x)
      PROVE  WorldTypes'
  BY <1>2 DEF WriteHandler, AuthenticationTimeout, Start, CloseSocket, NotClosed, IsOpen,
    Idle
<1>3. ASSUME NEW x \in Sockets, CheckIpCallback(x) \/ InitializeHandler(x) \/ ReadHandler(x)
      PROVE  WorldTypes'
  BY <1>3 DEF CheckIpCallback, InitializeHandler, ReadHandler, QueryReady,
    DelayedCloseSocket, CloseSocket, Return, AsyncRead, Reads, NotClosed, IsOpen, Idle
<1>4. ASSUME NEW x \in Sockets, HandleOther(x) \/ HandlePing(x) \/ HandleGamePacket(x)
      PROVE  WorldTypes'
  BY <1>4 DEF HandleOther, HandlePing, HandleGamePacket, Ok, Error, CloseSocket, Return,
    AsyncRead, Reads, NotClosed, IsOpen
<1>5. ASSUME NEW x \in Sockets, HandleAuthSession(x) PROVE WorldTypes'
  BY <1>5 DEF HandleAuthSession, MayAuthenticate, WaitingForQuery, Error, CloseSocket,
    Return, NotClosed, IsOpen
<1>6. ASSUME NEW x \in Sockets, HandleAuthContinuedSession(x) PROVE WorldTypes'
  BY <1>6 DEF HandleAuthContinuedSession, MayAuthenticate, DelayedCloseSocket, Error,
    CloseSocket, Return, NotClosed, IsOpen
<1>7. ASSUME NEW x \in Sockets, HandleAuthSessionCallback(x) PROVE WorldTypes'
  BY <1>7 DEF HandleAuthSessionCallback, QueryReady, StillAuthenticating,
    DelayedCloseSocket, Ok, CloseSocket, Return, AsyncRead, Reads, NotClosed, IsOpen, Idle
<1>8. ASSUME NEW x \in Sockets,
             LoadSessionPermissionsCallback(x) \/ HandleAuthContinuedSessionCallback(x)
      PROVE  WorldTypes'
  BY <1>8 DEF LoadSessionPermissionsCallback, HandleAuthContinuedSessionCallback,
    QueryReady, StillAuthenticating, DelayedCloseSocket, Ok, CloseSocket, Return, AsyncRead,
    Reads, NotClosed, IsOpen, Idle
<1>9. ASSUME NEW x \in Sockets, HandleEnterEncryptedModeAck(x) PROVE WorldTypes'
  BY <1>9 DEF HandleEnterEncryptedModeAck, MayAcknowledge, Ok, Error, CloseSocket, Return,
    AsyncRead, Reads, NotClosed, IsOpen
<1>10. ASSUME NEW x \in Sockets, HandleConnectToFailed(x) \/ AbortLogin(x) PROVE WorldTypes'
  BY <1>10 DEF HandleConnectToFailed, AbortLogin, Ok, Return, AsyncRead, Reads, NotClosed,
    IsOpen
<1>11. ASSUME NEW x \in Sockets, KickRealm(x) \/ KickInstance(x) PROVE WorldTypes'
  BY <1>11 DEF KickRealm, KickInstance, Kick, NotClosed, IsOpen
<1>20. ASSUME NEW x \in Sockets, KickOnClose(x) PROVE WorldTypes'
  BY <1>20 DEF KickOnClose, Abandon, NotClosed, IsOpen
<1>21. ASSUME NEW x \in Sockets, KickReturn(x) PROVE WorldTypes'
  BY <1>21 DEF KickReturn, Ok, Return, AsyncRead, Reads, NotClosed, IsOpen
<1>12. ASSUME NEW s \in Sockets,
              AddSession_(s) \/ HandlePlayerLoginOpcode(s) \/ HandlePlayerLogin(s)
      PROVE  WorldTypes'
  BY <1>12 DEF AddSession_, HandlePlayerLoginOpcode, HandlePlayerLogin, Listed, IsOpen
<1>13. ASSUME NEW s \in Sockets, LogoutPlayer(s) \/ KickOrDelete(s) PROVE WorldTypes'
  BY <1>13 DEF LogoutPlayer, KickOrDelete, Listed, Working, CloseSockets, SocketsOf
<1>14. ASSUME NEW x \in Sockets, RefuseLink(x) \/ AcceptLink(x) PROVE WorldTypes'
  <2>1. CASE RefuseLink(x)
    <3>1. links' = links \ {x} /\ (UNCHANGED wvars \/ CloseSockets({}, {x}, FALSE))
      BY <2>1 DEF RefuseLink
    <3>2. CASE UNCHANGED wvars
      BY <3>1, <3>2
    <3>3. CASE CloseSockets({}, {x}, FALSE)
      BY <3>1, <3>3 DEF CloseSockets
    <3> QED BY <3>1, <3>2, <3>3
  <2>2. CASE AcceptLink(x)
    <3>1. /\ links' = links \ {x} /\ wpc' = "link" /\ wsess' = {key[x][1]} /\ wsocks' = {x}
          /\ UNCHANGED <<wcur, wlast>>
      BY <2>2 DEF AcceptLink
    <3>2. key[x][1] \in Sockets
      OBVIOUS
    <3> QED BY <3>1, <3>2
  <2> QED BY <1>14, <2>1, <2>2
<1>15. ASSUME NEW x \in Sockets, WorldCloseSocket(x) PROVE WorldTypes'
  BY <1>15 DEF WorldCloseSocket, NotClosed, IsOpen
<1>16. CASE LinkSession
  <2> PICK s \in wsess, x \in wsocks :
           \/ wpc' = "idle" /\ wsess' = {} /\ wsocks' = {} /\ UNCHANGED <<wcur, wlast>>
           \/ CloseSockets({s}, {s, x}, FALSE)
    BY <1>16 DEF LinkSession
  <2>1. links' = links /\ s \in Sockets /\ x \in Sockets
    BY <1>16 DEF LinkSession
  <2> QED
    BY <2>1 DEF CloseSockets
<1>17. CASE WorldOnClose
  BY <1>17 DEF WorldOnClose, Abandon
<1>18. CASE EndClose
  BY <1>18 DEF EndClose
<1>19. CASE UNCHANGED vars
  BY <1>19 DEF vars
<1> QED
  BY <1>1, <1>2, <1>3, <1>4, <1>5, <1>6, <1>7, <1>8, <1>9, <1>10, <1>11, <1>12, <1>13,
    <1>14, <1>15, <1>16, <1>17, <1>18, <1>19, <1>20, <1>21 DEF Next, WorldThread,
    NetworkThread, HandlePacket, HandleQuery

--------------------------------------------------------------------------------
(* Every step preserves the rest of the invariant. *)

\* A session is pending, queued and listed in this order, with the phases of its
\* socket; KickPlayer runs OnClose of no socket that owns a pending session.
LEMMA HandshakeStep == Inv /\ [Next]_vars => Handshake'
<1> SUFFICES ASSUME Inv, [Next]_vars PROVE Handshake'
  OBVIOUS
<1> USE DEF Inv, TypeOK, SocketTypes, QueryTypes, SessionTypes, WorldTypes, Handshake,
            Pointers, Phases, net, life, wvars
<1>1. ASSUME NEW x \in Sockets, OnClose(x) PROVE Handshake'
  BY <1>1 DEF OnClose, Abandon
<1>2. ASSUME NEW x \in Sockets, WriteHandler(x) \/ AuthenticationTimeout(x) \/ Start(x)
      PROVE  Handshake'
  BY <1>2 DEF WriteHandler, AuthenticationTimeout, Start, CloseSocket, NotClosed, IsOpen,
    Idle
<1>3. ASSUME NEW x \in Sockets, CheckIpCallback(x) \/ InitializeHandler(x) \/ ReadHandler(x)
      PROVE  Handshake'
  BY <1>3 DEF CheckIpCallback, InitializeHandler, ReadHandler, QueryReady,
    DelayedCloseSocket, CloseSocket, Return, AsyncRead, Reads, NotClosed, IsOpen, Idle
<1>4. ASSUME NEW x \in Sockets, HandleOther(x) \/ HandlePing(x) \/ HandleGamePacket(x)
      PROVE  Handshake'
  BY <1>4 DEF HandleOther, HandlePing, HandleGamePacket, Ok, Error, CloseSocket, Return,
    AsyncRead, Reads, NotClosed, IsOpen
<1>5. ASSUME NEW x \in Sockets, HandleAuthSession(x) PROVE Handshake'
  <2>1. CASE MayAuthenticate(x)
    <3>1. query[x] = {} /\ session[x] = "none" /\ kind[x] = "realm" /\ status[x] # "unused"
      BY <1>5, <2>1 DEF HandleAuthSession, MayAuthenticate
    <3>2. /\ phase' = [phase EXCEPT ![x] = "Authenticating"]
          /\ query' = [query EXCEPT ![x] = {"account"}]
          /\ step' = [step EXCEPT ![x] = "idle"]
          /\ UNCHANGED <<status, reads, kind, session, links>>
      BY <1>5, <2>1, <3>1 DEF HandleAuthSession, WaitingForQuery, Return
    <3> QED
      BY <3>1, <3>2
  <2>2. CASE ~MayAuthenticate(x)
    BY <1>5, <2>2 DEF HandleAuthSession, Error, CloseSocket, NotClosed
  <2> QED
    BY <2>1, <2>2
<1>6. ASSUME NEW x \in Sockets, HandleAuthContinuedSession(x) PROVE Handshake'
  <2>1. CASE MayAuthenticate(x)
    <3>1. query[x] = {} /\ session[x] = "none" /\ kind[x] = "realm" /\ status[x] # "unused"
      BY <1>6, <2>1 DEF HandleAuthContinuedSession, MayAuthenticate
    <3>2. /\ phase' = [phase EXCEPT ![x] = "Authenticating"]
          /\ query' = query \/ query' = [query EXCEPT ![x] = {"continued"}]
          /\ kind' = kind \/ kind' = [kind EXCEPT ![x] = "instance"]
          /\ UNCHANGED <<reads, session, links>>
      BY <1>6, <2>1, <3>1 DEF HandleAuthContinuedSession
    <3>3. \/ CloseSocket(x)
          \/ /\ status' = IF IsOpen(x) THEN [status EXCEPT ![x] = "closing"] ELSE status
             /\ step' = [step EXCEPT ![x] = "idle"]
          \/ Return(x)
      BY <1>6, <2>1 DEF HandleAuthContinuedSession, DelayedCloseSocket
    <3> QED
      BY <3>1, <3>2, <3>3 DEF CloseSocket, Return, IsOpen, NotClosed
  <2>2. CASE ~MayAuthenticate(x)
    BY <1>6, <2>2 DEF HandleAuthContinuedSession, Error, CloseSocket, NotClosed
  <2> QED
    BY <2>1, <2>2
<1>7. ASSUME NEW x \in Sockets, HandleAuthSessionCallback(x) PROVE Handshake'
  BY <1>7 DEF HandleAuthSessionCallback, QueryReady, StillAuthenticating,
    DelayedCloseSocket, Ok, CloseSocket, Return, AsyncRead, Reads, NotClosed, IsOpen, Idle
<1>8. ASSUME NEW x \in Sockets,
             LoadSessionPermissionsCallback(x) \/ HandleAuthContinuedSessionCallback(x)
      PROVE  Handshake'
  BY <1>8 DEF LoadSessionPermissionsCallback, HandleAuthContinuedSessionCallback,
    QueryReady, StillAuthenticating, DelayedCloseSocket, Ok, CloseSocket, Return, AsyncRead,
    Reads, NotClosed, IsOpen, Idle
<1>9. ASSUME NEW x \in Sockets, HandleEnterEncryptedModeAck(x) PROVE Handshake'
  BY <1>9 DEF HandleEnterEncryptedModeAck, MayAcknowledge, Ok, Error, CloseSocket, Return,
    AsyncRead, Reads, NotClosed, IsOpen
<1>10. ASSUME NEW x \in Sockets, HandleConnectToFailed(x) \/ AbortLogin(x) PROVE Handshake'
  BY <1>10 DEF HandleConnectToFailed, AbortLogin, Ok, Return, AsyncRead, Reads, NotClosed,
    IsOpen
<1>11. ASSUME NEW x \in Sockets, KickRealm(x) \/ KickInstance(x) PROVE Handshake'
  BY <1>11 DEF KickRealm, KickInstance, Kick, NotClosed, IsOpen
<1>20. ASSUME NEW x \in Sockets, KickOnClose(x) PROVE Handshake'
  BY <1>20 DEF KickOnClose, Abandon, NotClosed, IsOpen
<1>21. ASSUME NEW x \in Sockets, KickReturn(x) PROVE Handshake'
  BY <1>21 DEF KickReturn, Ok, Return, AsyncRead, Reads, NotClosed, IsOpen
<1>12. ASSUME NEW s \in Sockets,
              AddSession_(s) \/ HandlePlayerLoginOpcode(s) \/ HandlePlayerLogin(s)
      PROVE  Handshake'
  BY <1>12 DEF AddSession_, HandlePlayerLoginOpcode, HandlePlayerLogin, Listed, IsOpen
<1>13. ASSUME NEW s \in Sockets, LogoutPlayer(s) \/ KickOrDelete(s) PROVE Handshake'
  BY <1>13 DEF LogoutPlayer, KickOrDelete, Listed, Working, CloseSockets, SocketsOf
<1>14. ASSUME NEW x \in Sockets, RefuseLink(x) \/ AcceptLink(x) PROVE Handshake'
  BY <1>14 DEF RefuseLink, AcceptLink, Listed, Working, CloseSockets, IsOpen
<1>15. ASSUME NEW x \in Sockets, WorldCloseSocket(x) PROVE Handshake'
  BY <1>15 DEF WorldCloseSocket, NotClosed, IsOpen
<1>16. CASE LinkSession
  BY <1>16 DEF LinkSession, CloseSockets
<1>17. CASE WorldOnClose
  BY <1>17 DEF WorldOnClose, Abandon
<1>18. CASE EndClose
  BY <1>18 DEF EndClose, Closing
<1>19. CASE UNCHANGED vars
  BY <1>19 DEF vars
<1> QED
  BY <1>1, <1>2, <1>3, <1>4, <1>5, <1>6, <1>7, <1>8, <1>9, <1>10, <1>11, <1>12, <1>13,
    <1>14, <1>15, <1>16, <1>17, <1>18, <1>19, <1>20, <1>21 DEF Next, WorldThread,
    NetworkThread, HandlePacket, HandleQuery

\* A step that makes no pointer and only moves sessions on keeps the pointers.
LEMMA PointersKept ==
    ASSUME Inv, UNCHANGED <<ptr, inst, kind>>,
           \A y \in Sockets : status'[y] = "closed" => status[y] = "closed",
           \A s \in Sockets : /\ session[s] # "none" => session'[s] # "none"
                              /\ session[s] \in {"listed", "freed"} => session'[s] = session[s]
    PROVE  Pointers'
BY DEF Inv, TypeOK, SessionTypes, Pointers

\* A pointer to a session of another socket is made from m_sessions only.
LEMMA PointersStep == Inv /\ [Next]_vars => Pointers'
<1> SUFFICES ASSUME Inv, [Next]_vars PROVE Pointers'
  OBVIOUS
<1> USE DEF Inv, TypeOK, SessionTypes, SocketTypes, WorldTypes, Handshake, Pointers,
            Closing, net, life, wvars
<1>1. ASSUME NEW x \in Sockets, OnClose(x) PROVE Pointers'
  BY <1>1 DEF OnClose, Abandon, NotClosed
<1>2. ASSUME NEW x \in Sockets, WriteHandler(x) \/ AuthenticationTimeout(x) \/ Start(x)
      PROVE  Pointers'
  BY <1>2 DEF WriteHandler, AuthenticationTimeout, Start, CloseSocket, NotClosed, IsOpen,
    Idle
<1>3. ASSUME NEW x \in Sockets, CheckIpCallback(x) \/ InitializeHandler(x) \/ ReadHandler(x)
      PROVE  Pointers'
  BY <1>3 DEF CheckIpCallback, InitializeHandler, ReadHandler, QueryReady,
    DelayedCloseSocket, CloseSocket, Return, AsyncRead, Reads, NotClosed, IsOpen, Idle
<1>4. ASSUME NEW x \in Sockets, HandleOther(x) \/ HandlePing(x) \/ HandleGamePacket(x)
      PROVE  Pointers'
  BY <1>4 DEF HandleOther, HandlePing, HandleGamePacket, Ok, Error, CloseSocket, Return,
    AsyncRead, Reads, NotClosed, IsOpen
<1>5. ASSUME NEW x \in Sockets, HandleAuthSession(x) PROVE Pointers'
  BY <1>5 DEF HandleAuthSession, MayAuthenticate, WaitingForQuery, Error, CloseSocket,
    Return, NotClosed, IsOpen
<1>6. ASSUME NEW x \in Sockets, HandleAuthContinuedSession(x) PROVE Pointers'
  BY <1>6 DEF HandleAuthContinuedSession, MayAuthenticate, DelayedCloseSocket, Error,
    CloseSocket, Return, NotClosed, IsOpen
<1>7. ASSUME NEW x \in Sockets, HandleAuthSessionCallback(x) PROVE Pointers'
  <2>1. UNCHANGED inst /\ UNCHANGED kind
    BY <1>7 DEF HandleAuthSessionCallback
  <2>2. CASE UNCHANGED <<ptr, session>>
    <3>1. \A y \in Sockets : status'[y] = "closed" => status[y] = "closed"
      BY <1>7 DEF HandleAuthSessionCallback, DelayedCloseSocket, Ok, CloseSocket, Return
    <3> QED
      BY <2>1, <2>2, <3>1
  <2>3. CASE /\ "account" \in query[x] /\ StillAuthenticating(x)
             /\ session' = [session EXCEPT ![x] = "pending"] /\ ptr' = [ptr EXCEPT ![x] = {x}]
             /\ Ok(x)
    <3>1. session[x] = "none" /\ status' = status /\ status[x] = "open"
      BY <2>3 DEF StillAuthenticating, Ok, Return, IsOpen
    <3> QED
      BY <2>1, <2>3, <3>1
  <2> QED
    BY <1>7, <2>2, <2>3 DEF HandleAuthSessionCallback, QueryReady
<1>8. ASSUME NEW x \in Sockets,
             LoadSessionPermissionsCallback(x) \/ HandleAuthContinuedSessionCallback(x)
      PROVE  Pointers'
  BY <1>8 DEF LoadSessionPermissionsCallback, HandleAuthContinuedSessionCallback,
    QueryReady, StillAuthenticating, DelayedCloseSocket, Ok, CloseSocket, Return, AsyncRead,
    Reads, NotClosed, IsOpen, Idle
<1>9. ASSUME NEW x \in Sockets, HandleEnterEncryptedModeAck(x) PROVE Pointers'
  <2>1. UNCHANGED <<ptr, inst, kind>>
    BY <1>9 DEF HandleEnterEncryptedModeAck
  <2>2. \A y \in Sockets : status'[y] = "closed" => status[y] = "closed"
    BY <1>9 DEF HandleEnterEncryptedModeAck, Ok, Error, CloseSocket, Return
  <2>3. \/ session' = session
        \/ session[x] = "pending" /\ session' = [session EXCEPT ![x] = "queued"]
    BY <1>9 DEF HandleEnterEncryptedModeAck, MayAcknowledge
  <2>4. \A s \in Sockets : /\ session[s] # "none" => session'[s] # "none"
                           /\ session[s] \in {"listed", "freed"} => session'[s] = session[s]
    BY <2>3
  <2> HIDE DEF Inv, Pointers
  <2> QED
    BY <2>1, <2>2, <2>4, PointersKept
<1>10. ASSUME NEW x \in Sockets, HandleConnectToFailed(x) \/ AbortLogin(x) PROVE Pointers'
  BY <1>10 DEF HandleConnectToFailed, AbortLogin, Ok, Return, AsyncRead, Reads, NotClosed,
    IsOpen
<1>11. ASSUME NEW x \in Sockets, KickRealm(x) \/ KickInstance(x) PROVE Pointers'
  BY <1>11 DEF KickRealm, KickInstance, Kick, NotClosed, IsOpen
<1>20. ASSUME NEW x \in Sockets, KickOnClose(x) PROVE Pointers'
  BY <1>20 DEF KickOnClose, Abandon, NotClosed, IsOpen
<1>21. ASSUME NEW x \in Sockets, KickReturn(x) PROVE Pointers'
  BY <1>21 DEF KickReturn, Ok, Return, AsyncRead, Reads, NotClosed, IsOpen
<1>12. ASSUME NEW s \in Sockets,
              AddSession_(s) \/ HandlePlayerLoginOpcode(s) \/ HandlePlayerLogin(s)
      PROVE  Pointers'
  <2>1. UNCHANGED <<ptr, inst, kind, status>>
    BY <1>12 DEF AddSession_, HandlePlayerLoginOpcode, HandlePlayerLogin
  <2>2. \/ session' = session
        \/ session[s] = "queued" /\ session' = [session EXCEPT ![s] = "listed"]
    BY <1>12 DEF AddSession_, HandlePlayerLoginOpcode, HandlePlayerLogin
  <2>4. \A r \in Sockets : /\ session[r] # "none" => session'[r] # "none"
                           /\ session[r] \in {"listed", "freed"} => session'[r] = session[r]
    BY <2>2
  <2> HIDE DEF Inv, Pointers
  <2> QED
    BY <2>1, <2>4, PointersKept
<1>13. ASSUME NEW s \in Sockets, LogoutPlayer(s) \/ KickOrDelete(s) PROVE Pointers'
  BY <1>13 DEF LogoutPlayer, KickOrDelete, Listed, Working, CloseSockets, SocketsOf,
    NotClosed
<1>14. ASSUME NEW x \in Sockets, RefuseLink(x) \/ AcceptLink(x) PROVE Pointers'
  BY <1>14 DEF RefuseLink, AcceptLink, Listed, Working, CloseSockets, IsOpen, NotClosed
<1>15. ASSUME NEW x \in Sockets, WorldCloseSocket(x) PROVE Pointers'
  BY <1>15 DEF WorldCloseSocket, NotClosed, IsOpen
<1>16. CASE LinkSession
  BY <1>16 DEF LinkSession, CloseSockets, NotClosed
<1>17. CASE WorldOnClose
  BY <1>17 DEF WorldOnClose, Abandon, NotClosed
<1>18. CASE EndClose
  BY <1>18 DEF EndClose, NotClosed
<1>19. CASE UNCHANGED vars
  BY <1>19 DEF vars, NotClosed
<1> QED
  BY <1>1, <1>2, <1>3, <1>4, <1>5, <1>6, <1>7, <1>8, <1>9, <1>10, <1>11, <1>12, <1>13,
    <1>14, <1>15, <1>16, <1>17, <1>18, <1>19, <1>20, <1>21 DEF Next, WorldThread,
    NetworkThread, HandlePacket, HandleQuery

\* Nobody but its own thread and the world thread comes by an unlinked socket.
LEMMA FreshStep == Inv /\ [Next]_vars => Fresh'
<1> SUFFICES ASSUME Inv, [Next]_vars PROVE Fresh'
  OBVIOUS
<1> USE DEF Inv, TypeOK, SocketTypes, SessionTypes, WorldTypes, Handshake, Pointers, Fresh,
            Unlinked, Closing, net, life, wvars
<1>1. ASSUME NEW x \in Sockets, OnClose(x) PROVE Fresh'
  BY <1>1 DEF OnClose, Abandon
<1>2. ASSUME NEW x \in Sockets, WriteHandler(x) \/ AuthenticationTimeout(x) \/ Start(x)
      PROVE  Fresh'
  BY <1>2 DEF WriteHandler, AuthenticationTimeout, Start, CloseSocket, NotClosed, IsOpen,
    Idle
<1>3. ASSUME NEW x \in Sockets, CheckIpCallback(x) \/ InitializeHandler(x) \/ ReadHandler(x)
      PROVE  Fresh'
  BY <1>3 DEF CheckIpCallback, InitializeHandler, ReadHandler, QueryReady,
    DelayedCloseSocket, CloseSocket, Return, AsyncRead, Reads, NotClosed, IsOpen, Idle
<1>4. ASSUME NEW x \in Sockets, HandleOther(x) \/ HandlePing(x) \/ HandleGamePacket(x)
      PROVE  Fresh'
  BY <1>4 DEF HandleOther, HandlePing, HandleGamePacket, Ok, Error, CloseSocket, Return,
    AsyncRead, Reads, NotClosed, IsOpen
<1>5. ASSUME NEW x \in Sockets, HandleAuthSession(x) PROVE Fresh'
  BY <1>5 DEF HandleAuthSession, MayAuthenticate, WaitingForQuery, Error, CloseSocket,
    Return, NotClosed, IsOpen
<1>6. ASSUME NEW x \in Sockets, HandleAuthContinuedSession(x) PROVE Fresh'
  BY <1>6 DEF HandleAuthContinuedSession, MayAuthenticate, DelayedCloseSocket, Error,
    CloseSocket, Return, NotClosed, IsOpen
<1>7. ASSUME NEW x \in Sockets, HandleAuthSessionCallback(x) PROVE Fresh'
  BY <1>7 DEF HandleAuthSessionCallback, QueryReady, StillAuthenticating,
    DelayedCloseSocket, Ok, CloseSocket, Return, AsyncRead, Reads, NotClosed, IsOpen, Idle
<1>8. ASSUME NEW x \in Sockets,
             LoadSessionPermissionsCallback(x) \/ HandleAuthContinuedSessionCallback(x)
      PROVE  Fresh'
  BY <1>8 DEF LoadSessionPermissionsCallback, HandleAuthContinuedSessionCallback,
    QueryReady, StillAuthenticating, DelayedCloseSocket, Ok, CloseSocket, Return, AsyncRead,
    Reads, NotClosed, IsOpen, Idle
<1>9. ASSUME NEW x \in Sockets, HandleEnterEncryptedModeAck(x) PROVE Fresh'
  BY <1>9 DEF HandleEnterEncryptedModeAck, MayAcknowledge, Ok, Error, CloseSocket, Return,
    AsyncRead, Reads, NotClosed, IsOpen
<1>10. ASSUME NEW x \in Sockets, HandleConnectToFailed(x) \/ AbortLogin(x) PROVE Fresh'
  BY <1>10 DEF HandleConnectToFailed, AbortLogin, Ok, Return, AsyncRead, Reads, NotClosed,
    IsOpen
<1>11. ASSUME NEW x \in Sockets, KickRealm(x) \/ KickInstance(x) PROVE Fresh'
  <2>1. PICK socks \in SUBSET Sockets, then \in {"kick", "kicked"} :
             /\ Kick(x, socks, then) /\ step[x] \in {"abort", "kick"}
             /\ step[x] = "kick" => kicks[x] = {}
             /\ \E s \in ptr[x] : socks \subseteq {s} \/ socks \subseteq inst[s]
    BY <1>11, KickIs
  <2>2. \A y \in socks : ~Unlinked(y)
    BY <2>1
  <2>3. ptr[x] # {}
    BY <2>1
  <2>4. \A y \in Sockets : y \notin socks => status'[y] = status[y]
    BY <2>1 DEF Kick
  <2>5. \A y \in Sockets : y # x => step'[y] = step[y] /\ kicks'[y] = kicks[y]
    BY <2>1 DEF Kick
  <2>6. kicks'[x] \subseteq socks
    BY <2>1 DEF Kick
  <2> HIDE DEF Unlinked
  <2>7. UNCHANGED <<phase, kind, links, wvars, ptr, inst>>
    BY <2>1 DEF Kick
  <2>8. \A y \in Sockets : Unlinked(y)' = Unlinked(y)
    BY <2>7 DEF Unlinked
  <2> SUFFICES ASSUME NEW y \in Sockets, Unlinked(y)
               PROVE  /\ ptr'[y] = {}
                      /\ \A s \in Sockets : y \notin inst'[s] /\ y \notin kicks'[s]
                      /\ y \notin wcur' /\ ~(wpc' = "close" /\ y \in wsocks')
                      /\ step'[y] \in {"idle", "packet", "onclose"}
                      /\ status'[y] = "shut" => step'[y] = "onclose"
                      /\ status'[y] = "closed" => step'[y] = "idle"
    BY <2>8
  <2>9. y \notin socks /\ y # x
    BY <2>2, <2>3
  <2>10. /\ status'[y] = status[y] /\ step'[y] = step[y]
         /\ \A s \in Sockets : y \notin kicks'[s]
    BY <2>4, <2>5, <2>6, <2>9
  <2> QED
    BY <2>7, <2>10
<1>20. ASSUME NEW x \in Sockets, KickOnClose(x) PROVE Fresh'
  BY <1>20 DEF KickOnClose, Abandon, NotClosed, IsOpen
<1>21. ASSUME NEW x \in Sockets, KickReturn(x) PROVE Fresh'
  BY <1>21 DEF KickReturn, Ok, Return, AsyncRead, Reads, NotClosed, IsOpen
<1>12. ASSUME NEW s \in Sockets,
              AddSession_(s) \/ HandlePlayerLoginOpcode(s) \/ HandlePlayerLogin(s)
      PROVE  Fresh'
  BY <1>12 DEF AddSession_, HandlePlayerLoginOpcode, HandlePlayerLogin, Listed, IsOpen
<1>13. ASSUME NEW s \in Sockets, LogoutPlayer(s) \/ KickOrDelete(s) PROVE Fresh'
  <2> HIDE DEF Unlinked
  <2>0. inst' = inst \/ inst' = [inst EXCEPT ![s] = {}]
    BY <1>13 DEF LogoutPlayer, KickOrDelete
  <2>1. /\ session[s] = "listed" /\ wpc = "idle" /\ wpc' = "close" /\ wcur' = {}
        /\ wsocks' \subseteq {s} \cup inst[s]
        /\ UNCHANGED <<net, ptr, links>>
    BY <1>13 DEF LogoutPlayer, KickOrDelete, Listed, Working, CloseSockets, SocketsOf
  <2>4. \A r \in Sockets : inst'[r] \subseteq inst[r]
    BY <2>0
  <2>2. ~Unlinked(s) /\ \A x \in inst[s] : ~Unlinked(x)
    BY <2>1 DEF Unlinked
  <2>3. \A x \in Sockets : Unlinked(x)' => Unlinked(x)
    BY <2>1 DEF Unlinked
  <2> QED
    BY <2>1, <2>2, <2>3, <2>4
<1>14. ASSUME NEW x \in Sockets, RefuseLink(x) \/ AcceptLink(x) PROVE Fresh'
  BY <1>14 DEF RefuseLink, AcceptLink, Listed, Working, CloseSockets, IsOpen
<1>15. ASSUME NEW x \in Sockets, WorldCloseSocket(x) PROVE Fresh'
  BY <1>15 DEF WorldCloseSocket, NotClosed, IsOpen
<1>16. CASE LinkSession
  BY <1>16 DEF LinkSession, CloseSockets
<1>17. CASE WorldOnClose
  BY <1>17 DEF WorldOnClose, Abandon
<1>18. CASE EndClose
  BY <1>18 DEF EndClose
<1>19. CASE UNCHANGED vars
  BY <1>19 DEF vars
<1> QED
  BY <1>1, <1>2, <1>3, <1>4, <1>5, <1>6, <1>7, <1>8, <1>9, <1>10, <1>11, <1>12, <1>13,
    <1>14, <1>15, <1>16, <1>17, <1>18, <1>19, <1>20, <1>21 DEF Next, WorldThread,
    NetworkThread, HandlePacket, HandleQuery

\* Whoever exchanges _closed runs OnClose.
LEMMA ShutStep == Inv /\ [Next]_vars => Shut'
<1> SUFFICES ASSUME Inv, [Next]_vars PROVE Shut'
  OBVIOUS
<1> USE DEF Inv, TypeOK, SocketTypes, SessionTypes, WorldTypes, Shut, Handling, net, life,
            wvars
<1>0. UNCHANGED kicks => Kicked' = Kicked
  BY DEF Kicked
<1>1. ASSUME NEW x \in Sockets, OnClose(x) PROVE Shut'
  BY <1>0, <1>1 DEF OnClose, Abandon
<1> DEFINE Own(x) ==
             /\ UNCHANGED <<kicks, wvars>>
             /\ \A y \in Sockets \ {x} : UNCHANGED <<status[y], step[y], ptr[y]>>
             /\ step[x] \notin {"kick", "kicked", "stuck"}
             /\ status'[x] = "shut" =>
                   \/ step'[x] = "onclose"
                   \/ status[x] = "shut" /\ step[x] \notin {"onclose", "stuck"}
             /\ status'[x] = "closed" => step'[x] \notin Handling
<1>2. ASSUME NEW x \in Sockets, WriteHandler(x) \/ AuthenticationTimeout(x) \/ Start(x)
      PROVE  Own(x)
  BY <1>2 DEF WriteHandler, AuthenticationTimeout, Start, CloseSocket, NotClosed, IsOpen,
    Idle, Handshake
<1>3. ASSUME NEW x \in Sockets, CheckIpCallback(x) \/ InitializeHandler(x) \/ ReadHandler(x)
      PROVE  Own(x)
  BY <1>3 DEF CheckIpCallback, InitializeHandler, ReadHandler, QueryReady,
    DelayedCloseSocket, CloseSocket, Return, AsyncRead, Reads, NotClosed, IsOpen, Idle
<1>4. ASSUME NEW x \in Sockets, HandleOther(x) \/ HandlePing(x) \/ HandleGamePacket(x)
      PROVE  Own(x)
  BY <1>4 DEF HandleOther, HandlePing, HandleGamePacket, Ok, Error, CloseSocket, Return,
    AsyncRead, Reads, NotClosed, IsOpen
<1>5. ASSUME NEW x \in Sockets, HandleAuthSession(x) PROVE Own(x)
  BY <1>5 DEF HandleAuthSession, MayAuthenticate, WaitingForQuery, Error, CloseSocket,
    Return, NotClosed, IsOpen
<1>6. ASSUME NEW x \in Sockets, HandleAuthContinuedSession(x) PROVE Own(x)
  BY <1>6 DEF HandleAuthContinuedSession, MayAuthenticate, DelayedCloseSocket, Error,
    CloseSocket, Return, NotClosed, IsOpen
<1>7. ASSUME NEW x \in Sockets, HandleAuthSessionCallback(x) PROVE Own(x)
  BY <1>7 DEF HandleAuthSessionCallback, QueryReady, StillAuthenticating,
    DelayedCloseSocket, Ok, CloseSocket, Return, AsyncRead, Reads, NotClosed, IsOpen, Idle
<1>8. ASSUME NEW x \in Sockets,
             LoadSessionPermissionsCallback(x) \/ HandleAuthContinuedSessionCallback(x)
      PROVE  Own(x)
  BY <1>8 DEF LoadSessionPermissionsCallback, HandleAuthContinuedSessionCallback,
    QueryReady, StillAuthenticating, DelayedCloseSocket, Ok, CloseSocket, Return, AsyncRead,
    Reads, NotClosed, IsOpen, Idle
<1>9. ASSUME NEW x \in Sockets, HandleEnterEncryptedModeAck(x) PROVE Own(x)
  BY <1>9 DEF HandleEnterEncryptedModeAck, MayAcknowledge, Ok, Error, CloseSocket, Return,
    AsyncRead, Reads, NotClosed, IsOpen
<1>10. ASSUME NEW x \in Sockets, HandleConnectToFailed(x) \/ AbortLogin(x) PROVE Own(x)
  BY <1>10 DEF HandleConnectToFailed, AbortLogin, Ok, Return, AsyncRead, Reads, NotClosed,
    IsOpen
<1>11. ASSUME NEW x \in Sockets, KickRealm(x) \/ KickInstance(x) PROVE Shut'
  <2>1. PICK socks \in SUBSET Sockets, then \in {"kick", "kicked"} :
             /\ Kick(x, socks, then) /\ step[x] \in {"abort", "kick"}
             /\ step[x] = "kick" => kicks[x] = {}
             /\ \E s \in ptr[x] : socks \subseteq {s} \/ socks \subseteq inst[s]
    BY <1>11, KickIs
  <2>2. \A y \in kicks[x] : step[x] \in {"kick", "stuck"}
    BY <2>1
  <2>3. kicks[x] = {}
    BY <2>1, <2>2
  <2> DEFINE open == {y \in socks : NotClosed(y)}
  <2>4. /\ status' = [y \in Sockets |-> IF y \in open THEN "shut" ELSE status[y]]
        /\ step' = [step EXCEPT ![x] = IF x \in open THEN "stuck" ELSE then]
        /\ kicks' = [kicks EXCEPT ![x] = open \ {x}]
        /\ UNCHANGED <<life, wvars>>
    BY <2>1 DEF Kick
  <2> HIDE DEF open
  <2>5. \A y \in Sockets : y \in Kicked \/ (y \in open /\ y # x) => y \in Kicked'
    BY <2>3, <2>4 DEF Kicked
  <2>6. step'[x] \in {"kick", "kicked", "stuck"}
    BY <2>4
  <2> QED
    BY <2>1, <2>3, <2>4, <2>5, <2>6
<1>20. ASSUME NEW x \in Sockets, KickOnClose(x) PROVE Shut'
  BY <1>20 DEF KickOnClose, Kicked, Abandon, NotClosed, IsOpen
<1>21. ASSUME NEW x \in Sockets, KickReturn(x) PROVE Shut'
  BY <1>0, <1>21 DEF KickReturn, Ok, Return, AsyncRead, Reads, NotClosed, IsOpen
<1>12. ASSUME NEW s \in Sockets,
              AddSession_(s) \/ HandlePlayerLoginOpcode(s) \/ HandlePlayerLogin(s)
      PROVE  Shut'
  BY <1>0, <1>12 DEF AddSession_, HandlePlayerLoginOpcode, HandlePlayerLogin, Listed, IsOpen
<1>13. ASSUME NEW s \in Sockets, LogoutPlayer(s) \/ KickOrDelete(s) PROVE Shut'
  BY <1>0, <1>13 DEF LogoutPlayer, KickOrDelete, Listed, Working, CloseSockets, SocketsOf
<1>14. ASSUME NEW x \in Sockets, RefuseLink(x) \/ AcceptLink(x) PROVE Shut'
  BY <1>0, <1>14 DEF RefuseLink, AcceptLink, Listed, Working, CloseSockets, IsOpen
<1>15. ASSUME NEW x \in Sockets, WorldCloseSocket(x) PROVE Shut'
  BY <1>0, <1>15 DEF WorldCloseSocket, NotClosed, IsOpen
<1>16. CASE LinkSession
  BY <1>0, <1>16 DEF LinkSession, CloseSockets, Closing, Fresh, Unlinked
<1>17. CASE WorldOnClose
  BY <1>0, <1>17 DEF WorldOnClose, Abandon
<1>18. CASE EndClose
  BY <1>0, <1>18 DEF EndClose
<1>19. CASE UNCHANGED vars
  BY <1>0, <1>19 DEF vars
<1>22. ASSUME NEW x \in Sockets, Own(x) PROVE Shut'
  BY <1>0, <1>22
<1> QED
  BY <1>1, <1>2, <1>3, <1>4, <1>5, <1>6, <1>7, <1>8, <1>9, <1>10, <1>11, <1>12, <1>13,
    <1>14, <1>15, <1>16, <1>17, <1>18, <1>19, <1>20, <1>21, <1>22 DEF Next, WorldThread,
    NetworkThread, HandlePacket, HandleQuery

\* No step of a network thread undoes what the world thread has closed.
LEMMA ClosingStep == Inv /\ [Next]_vars => Closing'
<1> SUFFICES ASSUME Inv, [Next]_vars PROVE Closing'
  OBVIOUS
<1> USE DEF Inv, TypeOK, SocketTypes, SessionTypes, WorldTypes, Handshake, Closing,
            Fresh, Unlinked, Pointers, NotClosed, net, life, wvars
<1>1. ASSUME NEW x \in Sockets, OnClose(x) PROVE Closing'
  BY <1>1 DEF OnClose, Abandon
<1>2. ASSUME NEW x \in Sockets, WriteHandler(x) \/ AuthenticationTimeout(x) \/ Start(x)
      PROVE  Closing'
  BY <1>2 DEF WriteHandler, AuthenticationTimeout, Start, CloseSocket, NotClosed, IsOpen,
    Idle
<1>3. ASSUME NEW x \in Sockets, CheckIpCallback(x) \/ InitializeHandler(x) \/ ReadHandler(x)
      PROVE  Closing'
  BY <1>3 DEF CheckIpCallback, InitializeHandler, ReadHandler, QueryReady,
    DelayedCloseSocket, CloseSocket, Return, AsyncRead, Reads, NotClosed, IsOpen, Idle
<1>4. ASSUME NEW x \in Sockets, HandleOther(x) \/ HandlePing(x) \/ HandleGamePacket(x)
      PROVE  Closing'
  BY <1>4 DEF HandleOther, HandlePing, HandleGamePacket, Ok, Error, CloseSocket, Return,
    AsyncRead, Reads, NotClosed, IsOpen
<1>5. ASSUME NEW x \in Sockets, HandleAuthSession(x) PROVE Closing'
  BY <1>5 DEF HandleAuthSession, MayAuthenticate, WaitingForQuery, Error, CloseSocket,
    Return, NotClosed, IsOpen
<1>6. ASSUME NEW x \in Sockets, HandleAuthContinuedSession(x) PROVE Closing'
  BY <1>6 DEF HandleAuthContinuedSession, MayAuthenticate, DelayedCloseSocket, Error,
    CloseSocket, Return, NotClosed, IsOpen
<1>7. ASSUME NEW x \in Sockets, HandleAuthSessionCallback(x) PROVE Closing'
  BY <1>7 DEF HandleAuthSessionCallback, QueryReady, StillAuthenticating,
    DelayedCloseSocket, Ok, CloseSocket, Return, AsyncRead, Reads, NotClosed, IsOpen, Idle
<1>8. ASSUME NEW x \in Sockets,
             LoadSessionPermissionsCallback(x) \/ HandleAuthContinuedSessionCallback(x)
      PROVE  Closing'
  BY <1>8 DEF LoadSessionPermissionsCallback, HandleAuthContinuedSessionCallback,
    QueryReady, StillAuthenticating, DelayedCloseSocket, Ok, CloseSocket, Return, AsyncRead,
    Reads, NotClosed, IsOpen, Idle
<1>9. ASSUME NEW x \in Sockets, HandleEnterEncryptedModeAck(x) PROVE Closing'
  BY <1>9 DEF HandleEnterEncryptedModeAck, MayAcknowledge, Ok, Error, CloseSocket, Return,
    AsyncRead, Reads, NotClosed, IsOpen
<1>10. ASSUME NEW x \in Sockets, HandleConnectToFailed(x) \/ AbortLogin(x) PROVE Closing'
  BY <1>10 DEF HandleConnectToFailed, AbortLogin, Ok, Return, AsyncRead, Reads, NotClosed,
    IsOpen
<1>11. ASSUME NEW x \in Sockets, KickRealm(x) \/ KickInstance(x) PROVE Closing'
  BY <1>11 DEF KickRealm, KickInstance, Kick, NotClosed, IsOpen
<1>20. ASSUME NEW x \in Sockets, KickOnClose(x) PROVE Closing'
  BY <1>20 DEF KickOnClose, Abandon, NotClosed, IsOpen
<1>21. ASSUME NEW x \in Sockets, KickReturn(x) PROVE Closing'
  BY <1>21 DEF KickReturn, Ok, Return, AsyncRead, Reads, NotClosed, IsOpen
<1>12. ASSUME NEW s \in Sockets,
              AddSession_(s) \/ HandlePlayerLoginOpcode(s) \/ HandlePlayerLogin(s)
      PROVE  Closing'
  BY <1>12 DEF AddSession_, HandlePlayerLoginOpcode, HandlePlayerLogin, Listed, IsOpen
<1>13. ASSUME NEW s \in Sockets, LogoutPlayer(s) \/ KickOrDelete(s) PROVE Closing'
  BY <1>13 DEF LogoutPlayer, KickOrDelete, Listed, Working, CloseSockets, SocketsOf
<1>14. ASSUME NEW x \in Sockets, RefuseLink(x) \/ AcceptLink(x) PROVE Closing'
  BY <1>14 DEF RefuseLink, AcceptLink, Listed, Working, CloseSockets, IsOpen
<1>15. ASSUME NEW x \in Sockets, WorldCloseSocket(x) PROVE Closing'
  BY <1>15 DEF WorldCloseSocket, NotClosed, IsOpen
<1>16. CASE LinkSession
  BY <1>16 DEF LinkSession, CloseSockets
<1>17. CASE WorldOnClose
  BY <1>17 DEF WorldOnClose, Abandon
<1>18. CASE EndClose
  BY <1>18 DEF EndClose
<1>19. CASE UNCHANGED vars
  BY <1>19 DEF vars, NotClosed
<1> QED
  BY <1>1, <1>2, <1>3, <1>4, <1>5, <1>6, <1>7, <1>8, <1>9, <1>10, <1>11, <1>12, <1>13,
    <1>14, <1>15, <1>16, <1>17, <1>18, <1>19, <1>20, <1>21 DEF Next, WorldThread,
    NetworkThread, HandlePacket, HandleQuery

\* The session is freed when its realm socket has been through WorldCloseSocket.
LEMMA FreedStep == Inv /\ [Next]_vars => Freed'
<1> SUFFICES ASSUME Inv, [Next]_vars PROVE Freed'
  OBVIOUS
<1> USE DEF Inv, TypeOK, SocketTypes, SessionTypes, WorldTypes, Handshake, Pointers, Shut,
            Fresh, Unlinked, Freed, Closing, net, life, wvars
<1>1. ASSUME NEW x \in Sockets, OnClose(x) PROVE Freed'
  BY <1>1 DEF OnClose, Abandon, NotClosed
<1>2. ASSUME NEW x \in Sockets, WriteHandler(x) \/ AuthenticationTimeout(x) \/ Start(x)
      PROVE  Freed'
  BY <1>2 DEF WriteHandler, AuthenticationTimeout, Start, CloseSocket, NotClosed, IsOpen,
    Idle
<1>3. ASSUME NEW x \in Sockets, CheckIpCallback(x) \/ InitializeHandler(x) \/ ReadHandler(x)
      PROVE  Freed'
  BY <1>3 DEF CheckIpCallback, InitializeHandler, ReadHandler, QueryReady,
    DelayedCloseSocket, CloseSocket, Return, AsyncRead, Reads, NotClosed, IsOpen, Idle
<1>4. ASSUME NEW x \in Sockets, HandleOther(x) \/ HandlePing(x) \/ HandleGamePacket(x)
      PROVE  Freed'
  BY <1>4 DEF HandleOther, HandlePing, HandleGamePacket, Ok, Error, CloseSocket, Return,
    AsyncRead, Reads, NotClosed, IsOpen
<1>5. ASSUME NEW x \in Sockets, HandleAuthSession(x) PROVE Freed'
  BY <1>5 DEF HandleAuthSession, MayAuthenticate, WaitingForQuery, Error, CloseSocket,
    Return, NotClosed, IsOpen
<1>6. ASSUME NEW x \in Sockets, HandleAuthContinuedSession(x) PROVE Freed'
  BY <1>6 DEF HandleAuthContinuedSession, MayAuthenticate, DelayedCloseSocket, Error,
    CloseSocket, Return, NotClosed, IsOpen
<1>7. ASSUME NEW x \in Sockets, HandleAuthSessionCallback(x) PROVE Freed'
  <2>1. UNCHANGED <<inst, wcur>>
    BY <1>7 DEF HandleAuthSessionCallback
  <2>2. \A y \in Sockets : NotClosed(y)' => NotClosed(y)
    BY <1>7 DEF HandleAuthSessionCallback, DelayedCloseSocket, Ok, CloseSocket, Return,
      NotClosed, IsOpen
  <2>3. CASE UNCHANGED <<ptr, session>>
    BY <2>1, <2>2, <2>3
  <2>4. CASE session' = [session EXCEPT ![x] = "pending"] /\ ptr' = [ptr EXCEPT ![x] = {x}]
    BY <2>1, <2>2, <2>4
  <2> QED
    BY <1>7, <2>3, <2>4 DEF HandleAuthSessionCallback
<1>8. ASSUME NEW x \in Sockets,
             LoadSessionPermissionsCallback(x) \/ HandleAuthContinuedSessionCallback(x)
      PROVE  Freed'
  BY <1>8 DEF LoadSessionPermissionsCallback, HandleAuthContinuedSessionCallback,
    QueryReady, StillAuthenticating, DelayedCloseSocket, Ok, CloseSocket, Return, AsyncRead,
    Reads, NotClosed, IsOpen, Idle
<1>9. ASSUME NEW x \in Sockets, HandleEnterEncryptedModeAck(x) PROVE Freed'
  BY <1>9 DEF HandleEnterEncryptedModeAck, MayAcknowledge, Ok, Error, CloseSocket, Return,
    AsyncRead, Reads, NotClosed, IsOpen
<1>10. ASSUME NEW x \in Sockets, HandleConnectToFailed(x) \/ AbortLogin(x) PROVE Freed'
  BY <1>10 DEF HandleConnectToFailed, AbortLogin, Ok, Return, AsyncRead, Reads, NotClosed,
    IsOpen
<1>11. ASSUME NEW x \in Sockets, KickRealm(x) \/ KickInstance(x) PROVE Freed'
  BY <1>11 DEF KickRealm, KickInstance, Kick, NotClosed, IsOpen
<1>20. ASSUME NEW x \in Sockets, KickOnClose(x) PROVE Freed'
  BY <1>20 DEF KickOnClose, Abandon, NotClosed, IsOpen
<1>21. ASSUME NEW x \in Sockets, KickReturn(x) PROVE Freed'
  BY <1>21 DEF KickReturn, Ok, Return, AsyncRead, Reads, NotClosed, IsOpen
<1>12. ASSUME NEW s \in Sockets,
              AddSession_(s) \/ HandlePlayerLoginOpcode(s) \/ HandlePlayerLogin(s)
      PROVE  Freed'
  BY <1>12 DEF AddSession_, HandlePlayerLoginOpcode, HandlePlayerLogin, Listed, IsOpen,
    NotClosed
<1>13. ASSUME NEW s \in Sockets, LogoutPlayer(s) \/ KickOrDelete(s) PROVE Freed'
  BY <1>13 DEF LogoutPlayer, KickOrDelete, Listed, Working, CloseSockets, SocketsOf,
    NotClosed
<1>14. ASSUME NEW x \in Sockets, RefuseLink(x) \/ AcceptLink(x) PROVE Freed'
  BY <1>14 DEF RefuseLink, AcceptLink, Listed, Working, CloseSockets, IsOpen, NotClosed
<1>15. ASSUME NEW x \in Sockets, WorldCloseSocket(x) PROVE Freed'
  BY <1>15 DEF WorldCloseSocket, NotClosed, IsOpen
<1>16. CASE LinkSession
  BY <1>16 DEF LinkSession, CloseSockets, NotClosed
<1>17. CASE WorldOnClose
  BY <1>17 DEF WorldOnClose, Abandon, NotClosed
<1>18. CASE EndClose
  BY <1>18 DEF EndClose, NotClosed
<1>19. CASE UNCHANGED vars
  BY <1>19 DEF vars, NotClosed
<1> QED
  BY <1>1, <1>2, <1>3, <1>4, <1>5, <1>6, <1>7, <1>8, <1>9, <1>10, <1>11, <1>12, <1>13,
    <1>14, <1>15, <1>16, <1>17, <1>18, <1>19, <1>20, <1>21 DEF Next, WorldThread,
    NetworkThread, HandlePacket, HandleQuery

--------------------------------------------------------------------------------
\* The initial state satisfies the invariant.
LEMMA InvInit == Init => Inv
<1> SUFFICES ASSUME Init PROVE Inv
  OBVIOUS
<1>1. SocketTypes /\ QueryTypes /\ WorldTypes
  BY DEF Init, SocketTypes, QueryTypes, WorldTypes, Phases
<1>2. SessionTypes
  BY MaxKeyAssumption DEF Init, SessionTypes
<1>3. Handshake
  BY DEF Init, Handshake
<1>4. Pointers /\ Fresh
  BY DEF Init, Pointers, Fresh
<1>5. Shut /\ Closing /\ Freed
  BY DEF Init, Shut, Closing, Freed
<1> QED
  BY <1>1, <1>2, <1>3, <1>4, <1>5 DEF Inv, TypeOK

\* Every step preserves it.
LEMMA InvStep == Inv /\ [Next]_vars => Inv'
<1> SUFFICES ASSUME Inv, [Next]_vars PROVE Inv'
  OBVIOUS
<1>1. TypeOK'
  BY SocketTypesStep, QueryTypesStep, SessionTypesStep, WorldTypesStep DEF Inv, TypeOK
<1> QED
  BY <1>1, HandshakeStep, PointersStep, FreshStep, ShutStep, ClosingStep, FreedStep DEF Inv

\* Every reachable state satisfies it.
LEMMA Invariance == Spec => []Inv
  BY InvInit, InvStep, PTL DEF Spec

\* The connections, sessions and pointers keep their shape, and a connection
\* never has two queries under way: HandleAuthSession and its callbacks start one
\* only when the previous one has been answered.
THEOREM TypeCorrect == Spec => []TypeOK
<1>1. Inv => TypeOK
  BY DEF Inv
<1> QED
  BY <1>1, Invariance, PTL

\* A session always has an owner: its socket, which deletes it, until the
\* acknowledgement, and World afterwards (HandleEnterEncryptedModeAck, OnClose).
THEOREM SessionsOwned == Spec => []PendingSessionOwned
<1>1. Inv => PendingSessionOwned
  BY DEF Inv, Handshake, PendingSessionOwned
<1> QED
  BY <1>1, Invariance, PTL

\* A network thread that handles a packet uses a session that exists, with the
\* realm socket of that session and with the instance socket it knew last, although
\* the world thread frees sessions without waiting for network threads
\* (~WorldSession, CloseSocket, OnClose). The exception is a socket that another
\* network thread has shut in KickPlayer and whose OnClose it has not yet run.
THEOREM NoUseAfterFree == Spec => []KnownSocketsSafe
<1>1. Inv => KnownSocketsSafe
  <2> SUFFICES ASSUME Inv, NEW x \in Sockets, NEW s \in ptr[x], x = s \/ x \in inst[s],
                      IsOpen(x) \/ step[x] \in Handling,
                      \A y \in Sockets : x \notin kicks[y]
               PROVE  session[s] \in {"pending", "queued", "listed"}
    BY DEF KnownSocketsSafe, Handling
  <2>1. s \in Sockets /\ session[s] \in {"none", "pending", "queued", "listed", "freed"}
    BY DEF Inv, TypeOK, SessionTypes
  <2>2. session[s] # "none"
    BY <2>1 DEF Inv, Pointers
  <2>3. ASSUME session[s] = "freed" PROVE FALSE
    <3>1. ~NotClosed(x) /\ x \notin wcur
      BY <2>1, <2>3 DEF Inv, Freed
    <3>2. step[x] \in Handling /\ status[x] \in {"unused", "shut", "closed"}
      BY <3>1 DEF Inv, TypeOK, SocketTypes, NotClosed, IsOpen
    <3>3. status[x] # "unused"
      BY <3>2 DEF Inv, Handshake, Handling
    <3>4. status[x] # "closed"
      BY <3>2 DEF Inv, Shut
    <3> QED
      BY <3>1, <3>2, <3>3, <3>4 DEF Inv, Shut, Kicked, Handling
  <2> QED
    BY <2>1, <2>2, <2>3
<1> QED
  BY <1>1, Invariance, PTL

\* A socket is handed to World at most once, as the session it created or as an
\* instance socket: the acknowledgement takes it out of the handshake, no packet and
\* no late answer brings it back, and its session has one life only
\* (HandleEnterEncryptedModeAck, ReadDataHandler, the callbacks, OnClose).
THEOREM HandedOverOnce == Spec => ConsumedOnce
<1> DEFINE Consumed(x) ==
             /\ phase[x] = "Encrypted" => phase'[x] = "Encrypted" /\ ~HandedOver(x)
             /\ HandedOver(x) => phase'[x] = "Encrypted"
             /\ session'[x] = session[x] \/ <<session[x], session'[x]>> \in SessionMoves
           Other(x) == phase'[x] = phase[x] /\ links' \subseteq links
<1>1. ASSUME Inv, Next, NEW x \in Sockets PROVE Consumed(x)
  <2> USE <1>1 DEF Inv, TypeOK, SocketTypes, SessionTypes, HandedOver, SessionMoves, life,
                   net
  <2>1. ASSUME NEW y \in Sockets,
               \/ OnClose(y) \/ KickOnClose(y)
               \/ WriteHandler(y) \/ AuthenticationTimeout(y) \/ Start(y)
               \/ InitializeHandler(y) \/ ReadHandler(y) \/ CheckIpCallback(y)
               \/ HandleOther(y) \/ HandlePing(y) \/ HandleGamePacket(y)
               \/ HandleConnectToFailed(y) \/ AbortLogin(y)
               \/ KickRealm(y) \/ KickInstance(y) \/ KickReturn(y)
        PROVE  Consumed(x)
    <3>1. Other(x) /\ (session' = session \/ \E z \in Sockets : session' = Abandon(z))
      BY <2>1 DEF OnClose, KickOnClose, WriteHandler, AuthenticationTimeout, Start,
        InitializeHandler, ReadHandler, CheckIpCallback, HandleOther, HandlePing,
        HandleGamePacket, HandleConnectToFailed, AbortLogin, KickRealm, KickInstance,
        KickReturn, Kick
    <3> QED
      BY <3>1 DEF Abandon
  <2>2. ASSUME NEW y \in Sockets, HandleAuthSession(y) \/ HandleAuthContinuedSession(y)
        PROVE  Consumed(x)
    <3>1. /\ session' = session /\ links' = links
          /\ \/ phase' = phase
             \/ /\ phase[y] = "AwaitAuth"
                /\ \E q \in Phases : phase' = [phase EXCEPT ![y] = q]
      BY <2>2 DEF HandleAuthSession, HandleAuthContinuedSession, MayAuthenticate, Phases
    <3> QED
      BY <3>1
  <2>3. ASSUME NEW y \in Sockets,
               \/ HandleAuthSessionCallback(y) \/ LoadSessionPermissionsCallback(y)
               \/ HandleAuthContinuedSessionCallback(y)
        PROVE  Consumed(x)
    <3>1. /\ links' = links
          /\ \/ phase' = phase
             \/ /\ phase[y] = "Authenticating"
                /\ phase' = [phase EXCEPT ![y] = "AwaitEncryptionAck"]
          /\ \/ session' = session
             \/ "account" \in query[y] /\ session' = [session EXCEPT ![y] = "pending"]
      BY <2>3 DEF HandleAuthSessionCallback, LoadSessionPermissionsCallback,
        HandleAuthContinuedSessionCallback, QueryReady, StillAuthenticating
    <3>2. "account" \in query[y] => session[y] = "none"
      BY DEF Handshake
    <3> QED
      BY <3>1, <3>2
  <2>4. ASSUME NEW y \in Sockets, HandleEnterEncryptedModeAck(y) PROVE Consumed(x)
    <3>1. CASE MayAcknowledge(y)
      <4>1. /\ phase[y] = "AwaitEncryptionAck" /\ phase' = [phase EXCEPT ![y] = "Encrypted"]
            /\ \/ /\ session[y] = "pending" /\ session' = [session EXCEPT ![y] = "queued"]
                  /\ links' = links
               \/ session' = session /\ links' = links \cup {y}
        BY <2>4, <3>1 DEF HandleEnterEncryptedModeAck, MayAcknowledge
      <4> QED
        BY <4>1
    <3>2. CASE ~MayAcknowledge(y)
      BY <2>4, <3>2 DEF HandleEnterEncryptedModeAck
    <3> QED
      BY <3>1, <3>2
  <2>5. ASSUME WorldThread PROVE Consumed(x)
    <3>1. Other(x)
      BY <2>5 DEF WorldThread, AddSession_, HandlePlayerLoginOpcode, HandlePlayerLogin,
        LogoutPlayer, KickOrDelete, RefuseLink, AcceptLink, WorldCloseSocket, LinkSession,
        WorldOnClose, EndClose
    <3>2. \/ session' = session
          \/ \E s \in Sockets :
                \/ session[s] = "queued" /\ session' = [session EXCEPT ![s] = "listed"]
                \/ session' = Abandon(s)
          \/ session' = [s \in Sockets |-> IF s \in (IF wlast THEN wsess ELSE {}) THEN "freed"
                                            ELSE session[s]]
      BY <2>5 DEF WorldThread, AddSession_, HandlePlayerLoginOpcode, HandlePlayerLogin,
        LogoutPlayer, KickOrDelete, RefuseLink, AcceptLink, WorldCloseSocket, LinkSession,
        WorldOnClose, EndClose, WorldTypes
    <3>3. x \in wsess => session[x] = "listed"
      BY DEF Closing
    <3> QED
      BY <3>1, <3>2, <3>3 DEF Abandon
  <2> QED
    BY <1>1, <2>1, <2>2, <2>3, <2>4, <2>5 DEF Next, NetworkThread, HandlePacket, HandleQuery
<1>2. Inv /\ [Next]_vars => [\A x \in Sockets : Consumed(x)]_vars
  BY <1>1
<1> QED
  BY <1>2, Invariance, PTL DEF Spec, ConsumedOnce
================================================================================
