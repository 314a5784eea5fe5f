------------------------------ MODULE WorldSocket ------------------------------
(***************************************************************************)
(* The client connections of the world server: the handshake state machine *)
(* of WorldSocket, driven by its network thread, and the life of the        *)
(* WorldSession a realm connection creates and an instance connection       *)
(* joins, which ends on the world thread. A session is named by the socket  *)
(* that creates it. Pointers are sets: {} is nullptr, {s} points to s.      *)
(***************************************************************************)
EXTENDS Integers

CONSTANTS
    Sockets,    \* connections a client may open; each is used once
    MaxKey      \* bound: instance keys a session may draw

ASSUME MaxKeyAssumption == MaxKey \in Nat

VARIABLES
    status,     \* Socket::_closed, _closing; "shut": _closed set, OnClose to come
    phase,      \* _authPhase
    kind,       \* _type
    reads,      \* the outstanding asynchronous read
    query,      \* queries of _queryProcessor that have not been handled
    step,       \* where the network thread is with this socket
    kicks,      \* the socket whose OnClose this one's thread runs in KickPlayer
    key,        \* the key of CMSG_AUTH_CONTINUED_SESSION: a session and a serial
    ptr,        \* _worldSession
    session,    \* the life of the session this socket created
    inst,       \* m_Socket[CONNECTION_TYPE_INSTANCE] of a session, or what it last was
    login,      \* m_playerLoading and _player of a session
    drawn,      \* serial of the last _instanceConnectKey of a session
    links,      \* World::_linkSocketQueue
    wpc,        \* where the world thread is
    wsess,      \* the session it is working on
    wsocks,     \* the sockets it has still to close
    wcur,       \* the socket whose OnClose it runs next
    wlast       \* it deletes wsess when they are closed

net   == <<status, phase, kind, reads, query, step, kicks, key>>
life  == <<ptr, session, inst, login, drawn>>
wvars == <<wpc, wsess, wsocks, wcur, wlast>>
vars  == <<net, life, links, wvars>>

Phases == {"AwaitAuth", "Authenticating", "AwaitEncryptionAck", "Encrypted"}

Init ==
    /\ status = [x \in Sockets |-> "unused"]
    /\ phase = [x \in Sockets |-> "AwaitAuth"]
    /\ kind = [x \in Sockets |-> "realm"]
    /\ reads = [x \in Sockets |-> "none"]
    /\ query = [x \in Sockets |-> {}]
    /\ step = [x \in Sockets |-> "idle"]
    /\ kicks = [x \in Sockets |-> {}]
    /\ key = [x \in Sockets |-> <<x, 0>>]
    /\ ptr = [x \in Sockets |-> {}]
    /\ session = [x \in Sockets |-> "none"]
    /\ inst = [x \in Sockets |-> {}]
    /\ login = [x \in Sockets |-> "none"]
    /\ drawn = [x \in Sockets |-> 0]
    /\ links = {}
    /\ wpc = "idle" /\ wsess = {} /\ wsocks = {} /\ wcur = {} /\ wlast = FALSE

-----------------------------------------------------------------------------
(* Socket<T>: opening, closing, reading. *)

IsOpen(x) == status[x] = "open"
NotClosed(x) == status[x] \in {"open", "closing"}

\* The network thread calls CloseSocket: _closed is exchanged, OnClose follows.
CloseSocket(x) ==
    /\ status' = IF NotClosed(x) THEN [status EXCEPT ![x] = "shut"] ELSE status
    /\ step' = [step EXCEPT ![x] = IF NotClosed(x) THEN "onclose" ELSE "idle"]

\* DelayedCloseSocket: at once when nothing is left to write.
DelayedCloseSocket(x) ==
    \/ CloseSocket(x)
    \/ /\ status' = IF IsOpen(x) THEN [status EXCEPT ![x] = "closing"] ELSE status
       /\ step' = [step EXCEPT ![x] = "idle"]

\* The handler returns without closing.
Return(x) ==
    /\ step' = [step EXCEPT ![x] = "idle"]
    /\ UNCHANGED status

\* AsyncRead does nothing unless the socket is open.
Reads(x) == IF IsOpen(x) THEN "packet" ELSE "none"
AsyncRead(x) == reads' = [reads EXCEPT ![x] = Reads(x)]

\* Mutant: a session whose handshake did not end is forgotten, not deleted.
MutAbandon(x) == session

\* The session _pendingWorldSession owns is deleted with it.
Abandon(x) == IF session[x] = "pending" THEN [session EXCEPT ![x] = "freed"] ELSE session

\* Nobody else holds _worldSessionLock of this socket.
Unlocked(x) == step[x] \notin {"abort", "kick", "kicked", "stuck"}

\* WorldSocket::OnClose, on the network thread.
OnClose(x) ==
    /\ step[x] = "onclose"
    /\ step' = [step EXCEPT ![x] = "idle"]
    /\ status' = [status EXCEPT ![x] = "closed"]
    /\ ptr' = [ptr EXCEPT ![x] = {}]
    /\ session' = Abandon(x)
    /\ UNCHANGED <<phase, kind, reads, query, kicks, key, inst, login, drawn, links, wvars>>

\* The network thread is free to run a handler or Update of this socket.
Idle(x) == step[x] = "idle"

\* A write fails, or the last one ends while the socket waits to close.
WriteHandler(x) ==
    /\ Idle(x)
    /\ NotClosed(x)
    /\ CloseSocket(x)
    /\ UNCHANGED <<phase, kind, reads, query, kicks, key, life, links, wvars>>

\* Mutant: only a client that has not begun to authenticate is timed out.
MutIsAuthenticationTimedOut(x) == phase[x] = "AwaitAuth"

\* IsAuthenticationTimedOut once the deadline has passed.
IsAuthenticationTimedOut(x) == phase[x] # "Encrypted"

\* Update closes a connection that is not authenticated when its time is up.
AuthenticationTimeout(x) ==
    /\ Idle(x)
    /\ IsOpen(x)
    /\ IsAuthenticationTimedOut(x)
    /\ CloseSocket(x)
    /\ UNCHANGED <<phase, kind, reads, query, kicks, key, life, links, wvars>>

-----------------------------------------------------------------------------
(* The handshake. *)

\* The acceptor hands the connection over: WorldSocket::Start.
Start(x) ==
    /\ status[x] = "unused"
    /\ status' = [status EXCEPT ![x] = "open"]
    /\ query' = [query EXCEPT ![x] = {"ip"}]
    /\ UNCHANGED <<phase, kind, reads, step, kicks, key, life, links, wvars>>

\* Update runs the callback of a query unless the socket is closed.
QueryReady(x, q) ==
    /\ Idle(x)
    /\ NotClosed(x)
    /\ q \in query[x]

CheckIpCallback(x) ==
    /\ QueryReady(x, "ip")
    /\ query' = [query EXCEPT ![x] = {}]
    /\ \/ DelayedCloseSocket(x) /\ UNCHANGED reads
       \/ Return(x) /\ reads' = [reads EXCEPT ![x] = IF IsOpen(x) THEN "hello" ELSE "none"]
    /\ UNCHANGED <<phase, kind, kicks, key, life, links, wvars>>

\* The client's greeting: incomplete, wrong, or followed by the challenge.
InitializeHandler(x) ==
    /\ Idle(x)
    /\ reads[x] = "hello"
    /\ \/ Return(x) /\ reads' = [reads EXCEPT ![x] = IF IsOpen(x) THEN "hello" ELSE "none"]
       \/ CloseSocket(x) /\ reads' = [reads EXCEPT ![x] = "none"]
       \/ Return(x) /\ AsyncRead(x)
    /\ UNCHANGED <<phase, kind, query, kicks, key, life, links, wvars>>

\* A read completes: with an error, on a socket no longer open, or with a packet.
ReadHandler(x) ==
    /\ Idle(x)
    /\ reads[x] = "packet"
    /\ reads' = [reads EXCEPT ![x] = "none"]
    /\ \/ CloseSocket(x)
       \/ ~IsOpen(x) /\ Return(x)
       \/ IsOpen(x) /\ step' = [step EXCEPT ![x] = "packet"] /\ UNCHANGED status
    /\ UNCHANGED <<phase, kind, query, kicks, key, life, links, wvars>>

\* ReadDataHandler returned Ok, Error or WaitingForQuery.
Ok(x) == Return(x) /\ AsyncRead(x)
Error(x) == CloseSocket(x) /\ UNCHANGED reads
WaitingForQuery(x) == Return(x) /\ UNCHANGED reads

\* Malformed packets, wrong opcodes and failed decryption; packets without effect.
HandleOther(x) ==
    /\ step[x] = "packet"
    /\ Error(x) \/ Ok(x)
    /\ UNCHANGED <<phase, kind, query, kicks, key, life, links, wvars>>

\* Mutant: only a client whose answer is outstanding is refused.
MutMayAuthenticate(x) == phase[x] # "Authenticating"

\* A connection authenticates once.
MayAuthenticate(x) == phase[x] = "AwaitAuth"

\* CMSG_AUTH_SESSION.
HandleAuthSession(x) ==
    /\ step[x] = "packet"
    /\ IF MayAuthenticate(x)
       THEN /\ phase' = [phase EXCEPT ![x] = "Authenticating"]
            /\ query' = [query EXCEPT ![x] = @ \cup {"account"}]
            /\ WaitingForQuery(x)
       ELSE Error(x) /\ UNCHANGED <<phase, query>>
    /\ UNCHANGED <<kind, kicks, key, life, links, wvars>>

\* CMSG_AUTH_CONTINUED_SESSION with a key the client was sent, or with one of
\* another connection type.
HandleAuthContinuedSession(x) ==
    /\ step[x] = "packet"
    /\ \/ /\ ~MayAuthenticate(x)
          /\ Error(x)
          /\ UNCHANGED <<phase, kind, query, key>>
       \/ /\ MayAuthenticate(x)
          /\ phase' = [phase EXCEPT ![x] = "Authenticating"]
          /\ UNCHANGED reads
          /\ \/ DelayedCloseSocket(x) /\ UNCHANGED <<kind, query, key>>
             \/ /\ kind' = [kind EXCEPT ![x] = "instance"]
                /\ query' = [query EXCEPT ![x] = @ \cup {"continued"}]
                /\ \E s \in Sockets, n \in 1..MaxKey :
                      n <= drawn[s] /\ key' = [key EXCEPT ![x] = <<s, n>>]
                /\ Return(x)
    /\ UNCHANGED <<kicks, life, links, wvars>>

\* The guard the callbacks begin with.
StillAuthenticating(x) == IsOpen(x) /\ phase[x] = "Authenticating"

\* The account query is answered: the account is refused or gets a session.
HandleAuthSessionCallback(x) ==
    /\ QueryReady(x, "account")
    /\ \/ /\ ~StillAuthenticating(x)
          /\ Return(x)
          /\ query' = [query EXCEPT ![x] = {}]
          /\ UNCHANGED <<reads, ptr, session>>
       \/ /\ StillAuthenticating(x)
          /\ DelayedCloseSocket(x)
          /\ query' = [query EXCEPT ![x] = {}]
          /\ UNCHANGED <<reads, ptr, session>>
       \/ /\ StillAuthenticating(x)
          /\ session' = [session EXCEPT ![x] = "pending"]
          /\ ptr' = [ptr EXCEPT ![x] = {x}]
          /\ query' = [query EXCEPT ![x] = {"permissions"}]
          /\ Ok(x)
    /\ UNCHANGED <<phase, kind, kicks, key, inst, login, drawn, links, wvars>>

LoadSessionPermissionsCallback(x) ==
    /\ QueryReady(x, "permissions")
    /\ query' = [query EXCEPT ![x] = {}]
    /\ phase' = IF StillAuthenticating(x) /\ session[x] = "pending"
                THEN [phase EXCEPT ![x] = "AwaitEncryptionAck"] ELSE phase
    /\ Return(x)
    /\ UNCHANGED <<kind, reads, kicks, key, life, links, wvars>>

\* The continued-session query is answered: refused, or the keys are derived.
HandleAuthContinuedSessionCallback(x) ==
    /\ QueryReady(x, "continued")
    /\ query' = [query EXCEPT ![x] = {}]
    /\ \/ ~StillAuthenticating(x) /\ Return(x) /\ UNCHANGED <<phase, reads>>
       \/ StillAuthenticating(x) /\ DelayedCloseSocket(x) /\ UNCHANGED <<phase, reads>>
       \/ /\ StillAuthenticating(x)
          /\ phase' = [phase EXCEPT ![x] = "AwaitEncryptionAck"]
          /\ Ok(x)
    /\ UNCHANGED <<kind, kicks, key, life, links, wvars>>

\* The condition HandleEnterEncryptedModeAck checks under _worldSessionLock.
MayAcknowledge(x) ==
    /\ phase[x] = "AwaitEncryptionAck"
    /\ kind[x] = "realm" => session[x] = "pending" /\ ptr[x] = {x}

\* CMSG_ENTER_ENCRYPTED_MODE_ACK: the session, or the instance socket, is handed
\* to World.
HandleEnterEncryptedModeAck(x) ==
    /\ step[x] = "packet"
    /\ IF MayAcknowledge(x)
       THEN /\ phase' = [phase EXCEPT ![x] = "Encrypted"]
            /\ IF kind[x] = "realm"
               THEN session' = [session EXCEPT ![x] = "queued"] /\ UNCHANGED links
               ELSE links' = links \cup {x} /\ UNCHANGED session
            /\ Ok(x)
       ELSE Error(x) /\ UNCHANGED <<phase, session, links>>
    /\ UNCHANGED <<kind, query, kicks, key, ptr, inst, login, drawn, wvars>>

-----------------------------------------------------------------------------
(* Packets of an authenticated client. *)

\* CMSG_PING and CMSG_KEEP_ALIVE use the session whatever the phase; a client
\* that pings too fast is cut.
HandlePing(x) ==
    /\ step[x] = "packet"
    /\ \/ ptr[x] # {} /\ Ok(x)
       \/ Error(x)
    /\ UNCHANGED <<phase, kind, query, kicks, key, life, links, wvars>>

\* Any other opcode is queued to the session.
HandleGamePacket(x) ==
    /\ step[x] = "packet"
    /\ IF ptr[x] # {} /\ phase[x] = "Encrypted" THEN Ok(x) ELSE Error(x)
    /\ UNCHANGED <<phase, kind, query, kicks, key, life, links, wvars>>

\* CMSG_CONNECT_TO_FAILED: the client is sent a new key, or its login is aborted
\* after the fifth attempt; _worldSessionLock is held from here to AbortLogin.
HandleConnectToFailed(x) ==
    /\ step[x] = "packet"
    /\ \/ /\ \A s \in ptr[x] : login[s] # "loading"
          /\ Ok(x) /\ UNCHANGED drawn
       \/ \E s \in ptr[x] :
             /\ login[s] = "loading" /\ drawn[s] < MaxKey
             /\ drawn' = [drawn EXCEPT ![s] = @ + 1]
             /\ Ok(x)
       \/ /\ \E s \in ptr[x] : login[s] = "loading"
          /\ step' = [step EXCEPT ![x] = "abort"]
          /\ UNCHANGED <<status, reads, drawn>>
    /\ UNCHANGED <<phase, kind, query, kicks, key, ptr, session, inst, login, links, wvars>>

\* WorldSession::AbortLogin on the network thread.
AbortLogin(x) ==
    /\ step[x] = "abort"
    /\ \E s \in ptr[x] :
          /\ login[s] = "loading"
          /\ login' = [login EXCEPT ![s] = "none"]
    /\ Ok(x)
    /\ UNCHANGED <<phase, kind, query, kicks, key, ptr, session, inst, drawn, links, wvars>>

\* CloseSocket of a socket of the session, called by KickPlayer: the exchange.
\* OnClose of x itself would wait for the lock its own thread holds.
Kick(x, socks, then) ==
    LET open == {y \in socks : NotClosed(y)} IN
        /\ status' = [y \in Sockets |-> IF y \in open THEN "shut" ELSE status[y]]
        /\ step' = [step EXCEPT ![x] = IF x \in open THEN "stuck" ELSE then]
        /\ kicks' = [kicks EXCEPT ![x] = open \ {x}]
        /\ UNCHANGED <<phase, kind, reads, query, key, life, links, wvars>>

\* AbortLogin finds that the world thread has ended the login and calls
\* KickPlayer, which closes the realm socket first.
KickRealm(x) ==
    /\ step[x] = "abort"
    /\ \E s \in ptr[x] : login[s] # "loading" /\ Kick(x, {s}, "kick")

\* OnClose of the socket KickPlayer has shut, under its own _worldSessionLock.
KickOnClose(x) ==
    /\ \E y \in kicks[x] :
          /\ Unlocked(y)
          /\ kicks' = [kicks EXCEPT ![x] = @ \ {y}]
          /\ status' = [status EXCEPT ![y] = "closed"]
          /\ ptr' = [ptr EXCEPT ![y] = {}]
          /\ session' = Abandon(y)
    /\ UNCHANGED <<phase, kind, reads, query, step, key, inst, login, drawn, links, wvars>>

\* Then the instance socket the session has by now; the destructor of a session
\* that is gone has reset it.
KickInstance(x) ==
    /\ step[x] = "kick" /\ kicks[x] = {}
    /\ \E s \in ptr[x] :
          \/ Kick(x, inst[s], "kicked")
          \/ session[s] = "freed" /\ Kick(x, {}, "kicked")

\* KickPlayer sets forceExit; HandleConnectToFailed returns and unlocks.
KickReturn(x) ==
    /\ step[x] = "kicked" /\ kicks[x] = {}
    /\ Ok(x)
    /\ UNCHANGED <<phase, kind, query, kicks, key, life, links, wvars>>

-----------------------------------------------------------------------------
(* The world thread. *)

Listed(s) == session[s] = "listed"

\* UpdateSessions takes a published session.
AddSession_(s) ==
    /\ wpc = "idle"
    /\ session[s] = "queued"
    /\ session' = [session EXCEPT ![s] = "listed"]
    /\ UNCHANGED <<net, ptr, inst, login, drawn, links, wvars>>

\* HandlePlayerLoginOpcode: SendConnectToInstance draws a new key.
HandlePlayerLoginOpcode(s) ==
    /\ wpc = "idle"
    /\ Listed(s) /\ IsOpen(s)
    /\ login[s] = "none"
    /\ drawn[s] < MaxKey
    /\ login' = [login EXCEPT ![s] = "loading"]
    /\ drawn' = [drawn EXCEPT ![s] = @ + 1]
    /\ UNCHANGED <<net, ptr, session, inst, links, wvars>>

\* HandlePlayerLogin: the character enters the world if both sockets are there.
HandlePlayerLogin(s) ==
    /\ wpc = "idle"
    /\ Listed(s)
    /\ login[s] = "loading"
    /\ inst[s] # {}
    /\ login' \in {[login EXCEPT ![s] = p] :
          p \in {"none"} \cup (IF \A x \in {s} \cup inst[s] : IsOpen(x) THEN {"world"} ELSE {})}
    /\ UNCHANGED <<net, ptr, session, inst, drawn, links, wvars>>

\* The world thread sets out to close the sockets of a session.
CloseSockets(s, socks, then) ==
    /\ wpc' = "close"
    /\ wsess' = s
    /\ wsocks' = socks
    /\ wlast' = then
    /\ wcur' = {}

Working == wpc # "idle"

\* A socket of _linkSocketQueue whose connection is gone or whose key is stale.
RefuseLink(x) ==
    /\ ~Working
    /\ x \in links
    /\ links' = links \ {x}
    /\ LET s == key[x][1]
           bad == ~Listed(s) \/ key[x][2] # drawn[s]
       IN \/ ~IsOpen(x) /\ UNCHANGED <<status, wvars>>
          \/ IsOpen(x) /\ bad /\ status' = [status EXCEPT ![x] = "closing"] /\ UNCHANGED wvars
          \/ IsOpen(x) /\ bad /\ CloseSockets({}, {x}, FALSE) /\ UNCHANGED status
    /\ UNCHANGED <<phase, kind, reads, query, step, kicks, key, life>>

\* ProcessLinkInstanceSocket saw the socket open and found its session.
AcceptLink(x) ==
    /\ ~Working
    /\ x \in links
    /\ IsOpen(x)
    /\ Listed(key[x][1]) /\ key[x][2] = drawn[key[x][1]]
    /\ links' = links \ {x}
    /\ wpc' = "link" /\ wsess' = {key[x][1]} /\ wsocks' = {x}
    /\ UNCHANGED <<net, life, wcur, wlast>>

\* SetWorldSession, AddInstanceConnection and HandleContinuePlayerLogin, which
\* kicks a session that is not logging in.
LinkSession ==
    /\ wpc = "link"
    /\ \E s \in wsess, x \in wsocks :
        /\ Unlocked(x)
        /\ ptr' = [ptr EXCEPT ![x] = {s}]
        /\ inst' = [inst EXCEPT ![s] = {x}]
        /\ IF login[s] = "loading"
           THEN wpc' = "idle" /\ wsess' = {} /\ wsocks' = {} /\ UNCHANGED <<wcur, wlast>>
           ELSE CloseSockets({s}, {s, x}, FALSE)
    /\ UNCHANGED <<net, session, login, drawn, links>>

\* LogoutPlayer closes the instance socket.
LogoutPlayer(s) ==
    /\ ~Working
    /\ Listed(s)
    /\ login[s] = "world"
    /\ login' = [login EXCEPT ![s] = "none"]
    /\ inst' = [inst EXCEPT ![s] = {}]
    /\ CloseSockets({}, inst[s], FALSE)
    /\ UNCHANGED <<net, ptr, session, drawn, links>>

\* Mutant: only the instance socket is closed before the session is deleted.
MutSocketsOf(s) == inst[s]

SocketsOf(s) == {s} \cup inst[s]

\* KickPlayer closes the sockets; the destructor does, and frees the session.
KickOrDelete(s) ==
    /\ ~Working
    /\ Listed(s)
    /\ \E last \in BOOLEAN : CloseSockets({s}, SocketsOf(s), last)
    /\ UNCHANGED <<net, life, links>>

\* CloseSocket on the world thread, the realm socket first: the exchange.
WorldCloseSocket(x) ==
    /\ wpc = "close"
    /\ wcur = {}
    /\ x \in wsocks
    /\ x \in wsess \/ wsess \cap wsocks = {}
    /\ wsocks' = wsocks \ {x}
    /\ IF NotClosed(x)
       THEN status' = [status EXCEPT ![x] = "shut"] /\ wcur' = {x}
       ELSE UNCHANGED <<status, wcur>>
    /\ UNCHANGED <<phase, kind, reads, query, step, kicks, key, life, links, wpc, wsess, wlast>>

\* OnClose on the world thread, under _worldSessionLock.
WorldOnClose ==
    /\ wcur # {}
    /\ wcur' = {}
    /\ \E x \in wcur :
        /\ Unlocked(x)
        /\ status' = [status EXCEPT ![x] = "closed"]
        /\ ptr' = [ptr EXCEPT ![x] = {}]
        /\ session' = Abandon(x)
    /\ UNCHANGED <<phase, kind, reads, query, step, kicks, key, inst, login, drawn, links,
                   wpc, wsess, wsocks, wlast>>

\* The sockets are closed; a session that goes is freed.
EndClose ==
    /\ wpc = "close" /\ wcur = {} /\ wsocks = {}
    /\ wpc' = "idle" /\ wsess' = {} /\ wlast' = FALSE
    /\ LET gone == IF wlast THEN wsess ELSE {} IN
        /\ session' = [s \in Sockets |-> IF s \in gone THEN "freed" ELSE session[s]]
        /\ login' = [s \in Sockets |-> IF s \in gone THEN "none" ELSE login[s]]
    /\ UNCHANGED <<net, ptr, inst, drawn, links, wsocks, wcur>>

-----------------------------------------------------------------------------
HandlePacket(x) ==
    \/ HandleOther(x) \/ HandleAuthSession(x) \/ HandleAuthContinuedSession(x)
    \/ HandleEnterEncryptedModeAck(x) \/ HandlePing(x) \/ HandleGamePacket(x)
    \/ HandleConnectToFailed(x) \/ AbortLogin(x)
    \/ KickRealm(x) \/ KickOnClose(x) \/ KickInstance(x) \/ KickReturn(x)

HandleQuery(x) ==
    \/ CheckIpCallback(x) \/ HandleAuthSessionCallback(x)
    \/ LoadSessionPermissionsCallback(x) \/ HandleAuthContinuedSessionCallback(x)

NetworkThread(x) ==
    \/ OnClose(x) \/ WriteHandler(x) \/ AuthenticationTimeout(x) \/ Start(x)
    \/ InitializeHandler(x) \/ ReadHandler(x)
    \/ HandlePacket(x) \/ HandleQuery(x)

WorldThread ==
    \/ \E s \in Sockets :
          \/ AddSession_(s) \/ HandlePlayerLoginOpcode(s) \/ HandlePlayerLogin(s)
          \/ LogoutPlayer(s) \/ KickOrDelete(s)
          \/ RefuseLink(s) \/ AcceptLink(s) \/ WorldCloseSocket(s)
    \/ LinkSession \/ WorldOnClose \/ EndClose

Next == WorldThread \/ \E x \in Sockets : NetworkThread(x)

\* The network thread finishes the handlers it has begun, and its one-millisecond
\* timer comes between two reads, so a deadline that has passed is acted upon. A
\* socket that waits to close gets its last bytes into the kernel's buffer.
Fairness ==
    \A x \in Sockets :
        /\ WF_vars(OnClose(x))
        /\ WF_vars(HandlePacket(x))
        /\ WF_vars(status[x] = "closing" /\ WriteHandler(x))
        /\ SF_vars(AuthenticationTimeout(x))

Spec == Init /\ [][Next]_vars /\ Fairness

-----------------------------------------------------------------------------
SocketTypes ==
    /\ status \in [Sockets -> {"unused", "open", "closing", "shut", "closed"}]
    /\ phase \in [Sockets -> Phases]
    /\ kind \in [Sockets -> {"realm", "instance"}]
    /\ reads \in [Sockets -> {"none", "hello", "packet"}]
    /\ step \in [Sockets -> {"idle", "packet", "onclose", "abort", "kick", "kicked", "stuck"}]
    /\ kicks \in [Sockets -> SUBSET Sockets]

QueryTypes ==
    /\ query \in [Sockets -> SUBSET {"ip", "account", "permissions", "continued"}]
    /\ \A x \in Sockets : \A q, r \in query[x] : q = r

SessionTypes ==
    /\ key \in [Sockets -> Sockets \X (0..MaxKey)]
    /\ ptr \in [Sockets -> SUBSET Sockets]
    /\ session \in [Sockets -> {"none", "pending", "queued", "listed", "freed"}]
    /\ inst \in [Sockets -> SUBSET Sockets]
    /\ login \in [Sockets -> {"none", "loading", "world"}]
    /\ drawn \in [Sockets -> 0..MaxKey]

WorldTypes ==
    /\ links \subseteq Sockets
    /\ wpc \in {"idle", "link", "close"}
    /\ wsess \subseteq Sockets /\ wsocks \subseteq Sockets /\ wcur \subseteq Sockets
    /\ wlast \in BOOLEAN

\* The shape of the connections, of the sessions and of the world thread's work;
\* a connection never has two queries on their way.
TypeOK == SocketTypes /\ QueryTypes /\ SessionTypes /\ WorldTypes

\* A session exists only while somebody owns it: before the acknowledgement its
\* socket does, which deletes it if the connection goes first, whatever query is
\* outstanding; afterwards World does, and the handshake is over.
PendingSessionOwned ==
    \A x \in Sockets :
        /\ session[x] = "pending" =>
              /\ status[x] # "closed"
              /\ phase[x] \in {"Authenticating", "AwaitEncryptionAck"}
        /\ session[x] \in {"queued", "listed"} =>
              phase[x] = "Encrypted" /\ "permissions" \notin query[x]

\* A network thread that handles a packet, or will when one comes, does so with
\* a session that exists, in all the steps for which it holds _worldSessionLock:
\* with its realm socket, and with the instance socket the session knew last. The
\* world thread waits for that lock before it frees the session, unless another
\* thread has shut the socket in KickPlayer and not yet run its OnClose.
KnownSocketsSafe ==
    \A x \in Sockets : \A s \in ptr[x] :
        /\ x = s \/ x \in inst[s]
        /\ IsOpen(x) \/ step[x] \in {"packet", "abort", "kick", "kicked"}
        /\ \A y \in Sockets : x \notin kicks[y]
        => session[s] \in {"pending", "queued", "listed"}

\* x is handed to World: the session it created, or itself as an instance socket.
HandedOver(x) == (session'[x] = "queued" /\ session[x] # "queued") \/ x \in links' \ links

\* What a step may make of a session.
SessionMoves == {<<"none", "pending">>, <<"pending", "queued">>, <<"pending", "freed">>,
                 <<"queued", "listed">>, <<"listed", "freed">>}

\* "consume exactly once, before publishing": a socket that is authenticated
\* never begins a handshake again, is never handed to World a second time, and no
\* late answer or acknowledgement revives or replaces its session, although the
\* guards of three packets and three callbacks share the work.
ConsumedOnce ==
    [][\A x \in Sockets :
        /\ phase[x] = "Encrypted" => phase'[x] = "Encrypted" /\ ~HandedOver(x)
        /\ HandedOver(x) => phase'[x] = "Encrypted"
        /\ session'[x] = session[x] \/ <<session[x], session'[x]>> \in SessionMoves]_vars

\* A connection is either authenticated or closed in the end: no order of
\* packets, answers and closings leaves it half-open past its deadline.
HandshakeEnds ==
    \A x \in Sockets :
        IsOpen(x) ~> (phase[x] = "Encrypted" \/ status[x] = "closed")

\* ~WorldSession: "If have unclosed socket, close it". No socket that is still
\* open refers to a session that is gone.
NoSocketOutlivesSession ==
    \A x \in Sockets : \A s \in ptr[x] : IsOpen(x) => session[s] # "freed"

\* "accessing WorldSession is not threadsafe, only do it when holding
\* _worldSessionLock": with the lock, the session of a realm socket is there.
LockGuardsSession ==
    \A x \in Sockets : \A s \in ptr[x] : x = s /\ step[x] = "packet" => session[s] # "freed"

\* OnClose: "WorldSession destruction can close sockets again; never do it under
\* _worldSessionLock." No thread waits for the lock it holds.
NoSelfDeadlock == \A x \in Sockets : step[x] # "stuck"
================================================================================
