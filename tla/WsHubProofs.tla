---------------------------- MODULE WsHubProofs ----------------------------
(***************************************************************************)
(* Proofs about WsHub: for any connections and tabs, any number of         *)
(* mishaps and either value of Timely, the invariants of the runs hold.    *)
(***************************************************************************)
EXTENDS WsHub, TLAPS

USE TabsAssumption, NoConnAssumption, LimitsAssumption

(* A handler that has not replied has put no token into authCh: the set    *)
(* is that of the connection, not of an earlier one of the same identity.  *)
Unauthenticated ==
  \A c \in Conns :
    pc[c] \in {"auth", "refused", "record", "register", "setUser", "reply"} => c \notin authed

(* The entry of the hub belongs to a handler that will still remove it,    *)
(* and the key to one that will still delete it.                           *)
HubHasHandler == \A c \in Conns : hub = c => pc[c] \in {"setUser", "reply", "serving", "drop"}

KeyHasHandler ==
  key = NoConn \/ \E c \in Conns : pc[c] \in {"reply", "serving", "drop", "forget"}

(* wsRef holds a socket of its own tab, and none when the tab is not live. *)
OwnSocket ==
  \A t \in Tabs :
    /\ tab[t].ref # NoConn => TabOf[tab[t].ref] = t
    /\ ~tab[t].live => tab[t].ref = NoConn

ServerInv == Unauthenticated /\ HubHasHandler /\ KeyHasHandler /\ OpenIsReachable

TabInv == OwnSocket /\ NeverStranded

-----------------------------------------------------------------------------
(* Closing moves sockets between open and noticing and loses none.         *)
LEMMA CloseKeeps ==
  ASSUME NEW S, Close(S)
  PROVE  /\ open' \subseteq open
         /\ open' \cup noticing' = open \cup noticing
         /\ \A c : c \in open /\ c \notin S => c \in open'
         /\ \A c : c \in open' => c \notin S
  BY DEF Close

(* A connection attempt changes the server only by a new handler, and the  *)
(* tab only by its socket.                                                 *)
LEMMA ConnectStep ==
  ASSUME NEW t \in Tabs, NEW s \in TabState, TypeOK, Connect(t, s)
  PROVE  \/ /\ ~s.live \/ s.ref # NoConn
            /\ tab' = [tab EXCEPT ![t] = s]
            /\ UNCHANGED <<open, server, noticing, mishaps>>
         \/ \E c \in Conns, r \in TabState :
              /\ s.live /\ s.ref = NoConn
              /\ TabOf[c] = t /\ pc[c] = "done" /\ c \notin open
              /\ tab' = [tab EXCEPT ![t] = r]
              /\ r.live /\ r.ref = c
              /\ UNCHANGED <<hub, key, closer>>
              /\ mishaps' \in Nat
              /\ \/ /\ open' = open \cup {c} /\ watched' = watched \cup {c}
                    /\ authed' = authed \ {c} /\ pc' = [pc EXCEPT ![c] = "auth"]
                    /\ noticing' = noticing
                 \/ /\ noticing' = noticing \cup {c}
                    /\ UNCHANGED <<open, pc, authed, watched>>
<1>1. CASE ~s.live \/ s.ref # NoConn
  BY <1>1 DEF Connect
<1>2. CASE s.live /\ s.ref = NoConn
  <2>1. PICK c \in Conns :
          /\ TabOf[c] = t /\ Over(c)
          /\ \/ /\ open' = open \cup {c} /\ watched' = watched \cup {c}
                /\ authed' = authed \ {c} /\ At(c, "auth")
                /\ tab' = [tab EXCEPT ![t] =
                     [s EXCEPT !.ref = c, !.attempts = 0, !.failed = FALSE]]
                /\ UNCHANGED <<hub, key, closer, noticing, mishaps>>
             \/ /\ Mishap
                /\ noticing' = noticing \cup {c}
                /\ tab' = [tab EXCEPT ![t] = [s EXCEPT !.ref = c]]
                /\ UNCHANGED <<open, server>>
    BY <1>2 DEF Connect
  <2>2. pc[c] = "done" /\ c \notin open
    BY <2>1 DEF Over
  <2>3. CASE /\ open' = open \cup {c} /\ watched' = watched \cup {c}
             /\ authed' = authed \ {c} /\ At(c, "auth")
             /\ tab' = [tab EXCEPT ![t] =
                  [s EXCEPT !.ref = c, !.attempts = 0, !.failed = FALSE]]
             /\ UNCHANGED <<hub, key, closer, noticing, mishaps>>
    <3> DEFINE r == [s EXCEPT !.ref = c, !.attempts = 0, !.failed = FALSE]
    <3>1. r \in TabState /\ r.live /\ r.ref = c
      BY <1>2 DEF TabState
    <3>2. mishaps' \in Nat
      BY <2>3 DEF TypeOK
    <3> QED BY <1>2, <2>1, <2>2, <2>3, <3>1, <3>2 DEF At
  <2>4. CASE /\ Mishap
             /\ noticing' = noticing \cup {c}
             /\ tab' = [tab EXCEPT ![t] = [s EXCEPT !.ref = c]]
             /\ UNCHANGED <<open, server>>
    <3> DEFINE r == [s EXCEPT !.ref = c]
    <3>1. r \in TabState /\ r.live /\ r.ref = c
      BY <1>2 DEF TabState
    <3>2. mishaps' \in Nat
      BY <2>4 DEF TypeOK, Mishap
    <3> QED BY <1>2, <2>1, <2>2, <2>4, <3>1, <3>2 DEF server
  <2> QED BY <2>1, <2>3, <2>4
<1> QED BY <1>1, <1>2

-----------------------------------------------------------------------------
(* Types *)

(* Init is well typed. *)
LEMMA TypeInit == Init => TypeOK
BY DEF Init, TypeOK, Points, TabState

(* What a step does to one tab is a TabState again. *)
LEMMA TabTypes ==
  ASSUME NEW s \in TabState
  PROVE  /\ [s EXCEPT !.connected = TRUE] \in TabState
         /\ [s EXCEPT !.connected = FALSE, !.ref = NoConn] \in TabState
         /\ s.timers > 0 => [s EXCEPT !.timers = @ - 1] \in TabState
         /\ [s EXCEPT !.attempts = @ + 1, !.timers = @ + 1] \in TabState
         /\ [s EXCEPT !.failed = TRUE] \in TabState
         /\ [s EXCEPT !.live = TRUE, !.failed = FALSE] \in TabState
         /\ [s EXCEPT !.refreshing = @ + 1] \in TabState
         /\ s.refreshing > 0 =>
              [s EXCEPT !.refreshing = @ - 1, !.attempts = 0] \in TabState
<1> USE DEF TabState
<1>1. [s EXCEPT !.connected = TRUE] \in TabState
  OBVIOUS
<1>2. [s EXCEPT !.connected = FALSE, !.ref = NoConn] \in TabState
  OBVIOUS
<1>3. s.timers > 0 => [s EXCEPT !.timers = @ - 1] \in TabState
  OBVIOUS
<1>4. [s EXCEPT !.attempts = @ + 1, !.timers = @ + 1] \in TabState
  <2>1. \A n, m \in Nat : [s EXCEPT !.attempts = n, !.timers = m] \in TabState
    OBVIOUS
  <2>2. s.attempts + 1 \in Nat /\ s.timers + 1 \in Nat
    OBVIOUS
  <2> HIDE DEF TabState
  <2> QED BY <2>1, <2>2
<1>5. [s EXCEPT !.failed = TRUE] \in TabState
  OBVIOUS
<1>6. [s EXCEPT !.live = TRUE, !.failed = FALSE] \in TabState
  OBVIOUS
<1>7. [s EXCEPT !.refreshing = @ + 1] \in TabState
  OBVIOUS
<1>8. s.refreshing > 0 => [s EXCEPT !.refreshing = @ - 1, !.attempts = 0] \in TabState
  <2>1. \A n \in Nat : [s EXCEPT !.refreshing = n, !.attempts = 0] \in TabState
    OBVIOUS
  <2>2. s.refreshing > 0 => s.refreshing - 1 \in Nat
    OBVIOUS
  <2> HIDE DEF TabState
  <2> QED BY <2>1, <2>2
<1> HIDE DEF TabState
<1> QED BY <1>1, <1>2, <1>3, <1>4, <1>5, <1>6, <1>7, <1>8

LEMMA CloseType ==
  ASSUME TypeOK, NEW S, Close(S)
  PROVE  open' \subseteq Conns /\ noticing' \subseteq Conns
BY DEF TypeOK, Close

LEMMA DisconnectType ==
  ASSUME TypeOK, NEW t \in Tabs, Disconnect(t)
  PROVE  tab' \in [Tabs -> TabState] /\ open' \subseteq Conns /\ noticing' \subseteq Conns
<1>1. PICK n \in {tab[t].timers, tab[t].timers - 1} \cap Nat :
        /\ tab' = [tab EXCEPT ![t] = [@ EXCEPT
             !.live = FALSE, !.connected = FALSE, !.ref = NoConn, !.attempts = 0, !.timers = n]]
        /\ Close({tab[t].ref})
  BY DEF Disconnect
<1> DEFINE r == [tab[t] EXCEPT
      !.live = FALSE, !.connected = FALSE, !.ref = NoConn, !.attempts = 0, !.timers = n]
<1>2. tab[t] \in TabState /\ n \in Nat
  BY DEF TypeOK
<1>3. r \in TabState
  BY <1>2 DEF TabState
<1>4. tab' = [tab EXCEPT ![t] = r]
  BY <1>1
<1> HIDE DEF r
<1> QED BY <1>1, <1>3, <1>4, CloseType DEF TypeOK

LEMMA ConnectType ==
  ASSUME TypeOK, NEW t \in Tabs, NEW s \in TabState, Connect(t, s)
  PROVE  TypeOK'
<1>1. CASE /\ tab' = [tab EXCEPT ![t] = s]
           /\ UNCHANGED <<open, server, noticing, mishaps>>
  BY <1>1 DEF TypeOK, server
<1>2. CASE \E c \in Conns, r \in TabState :
             /\ tab' = [tab EXCEPT ![t] = r]
             /\ UNCHANGED <<hub, key, closer>>
             /\ mishaps' \in Nat
             /\ \/ /\ open' = open \cup {c} /\ watched' = watched \cup {c}
                   /\ authed' = authed \ {c} /\ pc' = [pc EXCEPT ![c] = "auth"]
                   /\ noticing' = noticing
                \/ /\ noticing' = noticing \cup {c}
                   /\ UNCHANGED <<open, pc, authed, watched>>
  BY <1>2 DEF TypeOK, Points
<1> QED BY <1>1, <1>2, ConnectStep

LEMMA HandlerType ==
  ASSUME TypeOK, NEW c \in Conns, HandlerStep(c) \/ RecordFails(c)
  PROVE  TypeOK'
<1> USE DEF TypeOK, Points, At
<1>1. CASE Authenticate(c)
  BY <1>1 DEF Authenticate
<1>2. CASE RecordConnection(c)
  BY <1>2 DEF RecordConnection
<1>3. CASE RecordFails(c)
  BY <1>3 DEF RecordFails, Mishap
<1>4. CASE Register(c)
  BY <1>4, CloseType DEF Register
<1>5. CASE SetUser(c)
  BY <1>5 DEF SetUser
<1>6. CASE Reply(c)
  <2> DEFINE r == [tab[TabOf[c]] EXCEPT !.connected = TRUE]
  <2>1. r \in TabState
    BY TabTypes
  <2>2. tab' = (IF c \in open THEN [tab EXCEPT ![TabOf[c]] = r] ELSE tab)
    BY <1>6 DEF Reply
  <2> HIDE DEF r
  <2> QED BY <1>6, <2>1, <2>2 DEF Reply
<1>7. CASE ReadError(c)
  BY <1>7 DEF ReadError
<1>8. CASE Drop(c)
  BY <1>8, CloseType DEF Drop, HubDisconnect
<1>9. CASE Forget(c)
  BY <1>9 DEF Forget
<1> QED BY <1>1, <1>2, <1>3, <1>4, <1>5, <1>6, <1>7, <1>8, <1>9 DEF HandlerStep

LEMMA OnCloseType ==
  ASSUME TypeOK, NEW c \in Conns, OnClose(c)
  PROVE  TypeOK'
<1> DEFINE s == [tab[TabOf[c]] EXCEPT !.connected = FALSE, !.ref = NoConn]
           r == IF ~s.live THEN s
                ELSE IF s.attempts >= MaxAttempts THEN [s EXCEPT !.failed = TRUE]
                ELSE [s EXCEPT !.attempts = @ + 1, !.timers = @ + 1]
<1>1. tab' = [tab EXCEPT ![TabOf[c]] = r]
  BY DEF OnClose
<1>2. s \in TabState
  BY TabTypes DEF TypeOK
<1>3. r \in TabState
  <2> HIDE DEF s
  <2> QED BY <1>2, TabTypes
<1> HIDE DEF r
<1> QED BY <1>1, <1>3 DEF OnClose, TypeOK, server

(* A step of the specification keeps the types. *)
LEMMA TypeNext == TypeOK /\ [Next]_vars => TypeOK'
<1> SUFFICES ASSUME TypeOK, [Next]_vars PROVE TypeOK'
  OBVIOUS
<1>1. ASSUME NEW c \in Conns, HandlerStep(c) \/ RecordFails(c) PROVE TypeOK'
  BY <1>1, HandlerType
<1>2. ASSUME NEW c \in Conns, Watchdog(c) PROVE TypeOK'
  BY <1>2, CloseType DEF Watchdog, TypeOK
<1>3. ASSUME NEW c \in Conns, OnClose(c) PROVE TypeOK'
  BY <1>3, OnCloseType
<1>4. ASSUME NEW t \in Tabs, Retry(t) PROVE TypeOK'
  <2>1. tab[t] \in TabState /\ tab[t].timers > 0
    BY <1>4 DEF Retry, TypeOK
  <2> QED BY <1>4, <2>1, TabTypes, ConnectType DEF Retry
<1>5. ASSUME NEW t \in Tabs, RefreshDone(t) PROVE TypeOK'
  <2> DEFINE r == [tab[t] EXCEPT !.refreshing = @ - 1, !.attempts = 0]
  <2>1. tab[t] \in TabState /\ tab[t].refreshing > 0
    BY <1>5 DEF RefreshDone, TypeOK
  <2>2. r \in TabState
    BY <2>1, TabTypes
  <2>3. tab' = [tab EXCEPT ![t] = r]
    BY <1>5 DEF RefreshDone
  <2> HIDE DEF r
  <2> QED BY <1>5, <2>2, <2>3, CloseType DEF RefreshDone, TypeOK, server
<1>6. CASE CloserDelKey
  BY <1>6 DEF CloserDelKey, TypeOK
<1>7. ASSUME NEW c \in Conns, Refuse(c) PROVE TypeOK'
  <2>1. pc' \in [Conns -> Points] /\ mishaps' \in Nat
    BY <1>7 DEF Refuse, At, Mishap, Points, TypeOK
  <2>2. CASE /\ tab' = [tab EXCEPT ![TabOf[c]].refreshing = @ + 1]
             /\ UNCHANGED <<open, noticing>>
    <3> DEFINE r == [tab[TabOf[c]] EXCEPT !.refreshing = @ + 1]
    <3>1. r \in TabState
      BY TabTypes DEF TypeOK
    <3>2. tab' = [tab EXCEPT ![TabOf[c]] = r]
      BY <2>2
    <3> HIDE DEF r
    <3> QED BY <1>7, <2>1, <2>2, <3>1, <3>2 DEF Refuse, TypeOK
  <2>3. CASE Disconnect(TabOf[c])
    BY <1>7, <2>1, <2>3, DisconnectType DEF Refuse, TypeOK
  <2>4. CASE UNCHANGED <<open, noticing, tab>>
    BY <1>7, <2>1, <2>4 DEF Refuse, TypeOK
  <2> QED BY <1>7, <2>2, <2>3, <2>4 DEF Refuse
<1>8. ASSUME NEW c \in Conns, Lose(c) PROVE TypeOK'
  BY <1>8, CloseType DEF Lose, Mishap, TypeOK, server
<1>9. ASSUME NEW t \in Tabs, Login(t) PROVE TypeOK'
  <2>1. tab[t] \in TabState
    BY DEF TypeOK
  <2> QED BY <1>9, <2>1, TabTypes, ConnectType DEF Login
<1>10. ASSUME NEW t \in Tabs, Logout(t) PROVE TypeOK'
  BY <1>10, DisconnectType DEF Logout, Mishap, TypeOK, server
<1>11. CASE CloserDisconnect
  BY <1>11, CloseType DEF CloserDisconnect, HubDisconnect, Mishap, TypeOK
<1>12. CASE UNCHANGED vars
  BY <1>12 DEF vars, server, TypeOK
<1> QED
  BY <1>1, <1>2, <1>3, <1>4, <1>5, <1>6, <1>7, <1>8, <1>9, <1>10, <1>11, <1>12
     DEF Next, Environment

(* No variable ever leaves its type. *)
THEOREM TypeCorrect == Spec => []TypeOK
BY TypeInit, TypeNext, PTL DEF Spec

-----------------------------------------------------------------------------
(* The server: hub, key and handlers *)

(* Nothing is connected at first. *)
LEMMA ServerInit == Init => ServerInv
BY DEF Init, ServerInv, Unauthenticated, HubHasHandler, KeyHasHandler, OpenIsReachable,
       Registered

(* Sockets that close, and nothing else, hurt no part of it. *)
LEMMA ServerClosing ==
  ASSUME ServerInv, open' \subseteq open, UNCHANGED <<pc, authed, hub, key>>
  PROVE  ServerInv'
BY DEF ServerInv, Unauthenticated, HubHasHandler, KeyHasHandler, OpenIsReachable, Registered

LEMMA ServerConnect ==
  ASSUME TypeOK, ServerInv, NEW t \in Tabs, NEW s \in TabState, Connect(t, s)
  PROVE  ServerInv'
<1>1. CASE UNCHANGED <<open, pc, authed, hub, key>>
  BY <1>1, ServerClosing
<1>2. CASE \E c \in Conns : /\ pc[c] = "done"
                            /\ open' = open \cup {c} /\ authed' = authed \ {c}
                            /\ pc' = [pc EXCEPT ![c] = "auth"]
                            /\ UNCHANGED <<hub, key>>
  BY <1>2 DEF TypeOK, ServerInv, Unauthenticated, HubHasHandler, KeyHasHandler,
              OpenIsReachable, Registered
<1> QED BY <1>1, <1>2, ConnectStep DEF server

(* The handler's own steps: Register and Drop close what is in the hub,    *)
(* and every registered open connection is what is in the hub.             *)
LEMMA ServerHandler ==
  ASSUME TypeOK, ServerInv, NEW c \in Conns, HandlerStep(c) \/ RecordFails(c)
  PROVE  ServerInv'
<1> USE DEF TypeOK, At, ServerInv, Unauthenticated, HubHasHandler, KeyHasHandler,
            OpenIsReachable, Registered
<1>1. CASE Authenticate(c)
  BY <1>1 DEF Authenticate
<1>2. CASE RecordConnection(c)
  BY <1>2 DEF RecordConnection
<1>3. CASE RecordFails(c)
  BY <1>3 DEF RecordFails
<1>4. CASE Register(c)
  BY <1>4, CloseKeeps DEF Register
<1>5. CASE SetUser(c)
  BY <1>5 DEF SetUser
<1>6. CASE Reply(c)
  BY <1>6 DEF Reply
<1>7. CASE ReadError(c)
  BY <1>7 DEF ReadError
<1>8. CASE Drop(c)
  BY <1>8, CloseKeeps DEF Drop, HubDisconnect
<1>9. CASE Forget(c)
  BY <1>9 DEF Forget
<1> QED BY <1>1, <1>2, <1>3, <1>4, <1>5, <1>6, <1>7, <1>8, <1>9 DEF HandlerStep

(* A step of the specification keeps ServerInv. *)
LEMMA ServerNext == TypeOK /\ ServerInv /\ [Next]_vars => ServerInv'
<1> SUFFICES ASSUME TypeOK, ServerInv, [Next]_vars PROVE ServerInv'
  OBVIOUS
<1>1. ASSUME NEW c \in Conns, HandlerStep(c) \/ RecordFails(c) PROVE ServerInv'
  BY <1>1, ServerHandler
<1>2. ASSUME NEW c \in Conns, Watchdog(c) PROVE ServerInv'
  BY <1>2, CloseKeeps, ServerClosing DEF Watchdog
<1>3. ASSUME NEW c \in Conns, OnClose(c) PROVE ServerInv'
  BY <1>3, ServerClosing DEF OnClose, server
<1>4. ASSUME NEW t \in Tabs, Retry(t) PROVE ServerInv'
  <2>1. [tab[t] EXCEPT !.timers = @ - 1] \in TabState
    BY <1>4, TabTypes DEF Retry, TypeOK
  <2> QED BY <1>4, <2>1, ServerConnect DEF Retry
<1>5. ASSUME NEW t \in Tabs, RefreshDone(t) PROVE ServerInv'
  BY <1>5, CloseKeeps, ServerClosing DEF RefreshDone, server
<1>6. CASE CloserDelKey
  BY <1>6 DEF CloserDelKey, ServerInv, Unauthenticated, HubHasHandler, KeyHasHandler,
              OpenIsReachable, Registered
<1>7. ASSUME NEW c \in Conns, Refuse(c) PROVE ServerInv'
  <2>1. open' \subseteq open
    BY <1>7, CloseKeeps DEF Refuse, Disconnect
  <2> QED BY <1>7, <2>1 DEF Refuse, At, TypeOK, ServerInv, Unauthenticated, HubHasHandler,
                            KeyHasHandler, OpenIsReachable, Registered
<1>8. ASSUME NEW c \in Conns, Lose(c) PROVE ServerInv'
  BY <1>8, CloseKeeps, ServerClosing DEF Lose, server
<1>9. ASSUME NEW t \in Tabs, Login(t) PROVE ServerInv'
  <2>1. [tab[t] EXCEPT !.live = TRUE, !.failed = FALSE] \in TabState
    BY TabTypes DEF TypeOK
  <2> QED BY <1>9, <2>1, ServerConnect DEF Login
<1>10. ASSUME NEW t \in Tabs, Logout(t) PROVE ServerInv'
  BY <1>10, CloseKeeps, ServerClosing DEF Logout, Disconnect, server
<1>11. CASE CloserDisconnect
  BY <1>11, CloseKeeps DEF CloserDisconnect, HubDisconnect, TypeOK, ServerInv,
       Unauthenticated, HubHasHandler, KeyHasHandler, OpenIsReachable, Registered
<1>12. CASE UNCHANGED vars
  BY <1>12, ServerClosing DEF vars, server
<1> QED
  BY <1>1, <1>2, <1>3, <1>4, <1>5, <1>6, <1>7, <1>8, <1>9, <1>10, <1>11, <1>12
     DEF Next, Environment

(* The hub has every connection of the user that was registered and is     *)
(* open, whatever the other handlers of the user are doing.                *)
THEOREM Reachable == Spec => []OpenIsReachable
<1>1. ServerInv => OpenIsReachable
  BY DEF ServerInv
<1> QED BY <1>1, TypeInit, TypeNext, ServerInit, ServerNext, PTL DEF Spec

(* Neither the hub's entry nor the key is left when the handlers are gone. *)
THEOREM NothingLeft == Spec => []NothingOutlivesHandlers
<1>1. ServerInv => NothingOutlivesHandlers
  BY DEF ServerInv, HubHasHandler, KeyHasHandler, NothingOutlivesHandlers
<1> QED BY <1>1, TypeInit, TypeNext, ServerInit, ServerNext, PTL DEF Spec

-----------------------------------------------------------------------------
(* The browser: every live tab has a socket or a way to get one *)

Served(s, sockets) ==
  s.live => \/ s.ref \in sockets
            \/ s.ref = NoConn /\ (s.timers > 0 \/ s.failed)

Owned(s, t) ==
  /\ s.ref # NoConn => TabOf[s.ref] = t
  /\ ~s.live => s.ref = NoConn

(* TabInv says of each tab that it is owned and served. *)
LEMMA TabInvIs ==
  TabInv <=> \A t \in Tabs : Owned(tab[t], t) /\ Served(tab[t], open \cup noticing)
BY DEF TabInv, OwnSocket, NeverStranded, Owned, Served

(* A step that changes one tab, and closes sockets or opens one.           *)
LEMMA OneTabStep ==
  ASSUME TypeOK, TabInv, NEW t \in Tabs, NEW r,
         tab' = [tab EXCEPT ![t] = r],
         open \cup noticing \subseteq open' \cup noticing',
         Owned(r, t), Served(r, open' \cup noticing')
  PROVE  TabInv'
<1>1. \A u \in Tabs : tab'[u] = IF u = t THEN r ELSE tab[u]
  BY DEF TypeOK
<1>2. \A u \in Tabs : Owned(tab'[u], u) /\ Served(tab'[u], open' \cup noticing')
  BY <1>1, TabInvIs DEF Owned, Served
<1> QED BY <1>2 DEF TabInv, OwnSocket, NeverStranded, Owned, Served

LEMMA NoTabStep ==
  ASSUME TabInv, tab' = tab, open \cup noticing \subseteq open' \cup noticing'
  PROVE  TabInv'
BY DEF TabInv, OwnSocket, NeverStranded

LEMMA TabInit == Init => TabInv
BY DEF Init, TabInv, OwnSocket, NeverStranded

(* Whatever asked for it: a connection attempt in a tab with no socket     *)
(* gives it one, open or about to be noticed as closed.                    *)
LEMMA TabConnect ==
  ASSUME TypeOK, TabInv, NEW t \in Tabs, NEW s \in TabState, Connect(t, s),
         Owned(s, t), s.live /\ s.ref # NoConn => s.ref \in open \cup noticing
  PROVE  TabInv'
<1>1. CASE /\ ~s.live \/ s.ref # NoConn
           /\ tab' = [tab EXCEPT ![t] = s]
           /\ UNCHANGED <<open, noticing>>
  BY <1>1, OneTabStep DEF Served
<1>2. CASE \E c \in Conns, r \in TabState :
             /\ TabOf[c] = t
             /\ tab' = [tab EXCEPT ![t] = r]
             /\ r.live /\ r.ref = c
             /\ \/ open' = open \cup {c} /\ noticing' = noticing
                \/ noticing' = noticing \cup {c} /\ open' = open
  <2>1. PICK c \in Conns, r \in TabState :
             /\ TabOf[c] = t
             /\ tab' = [tab EXCEPT ![t] = r]
             /\ r.live /\ r.ref = c
             /\ \/ open' = open \cup {c} /\ noticing' = noticing
                \/ noticing' = noticing \cup {c} /\ open' = open
    BY <1>2
  <2>2. Owned(r, t) /\ Served(r, open' \cup noticing')
    BY <2>1 DEF Owned, Served
  <2> QED BY <2>1, <2>2, OneTabStep
<1> QED BY <1>1, <1>2, ConnectStep

LEMMA TabDisconnect ==
  ASSUME TypeOK, TabInv, NEW t \in Tabs, Disconnect(t)
  PROVE  TabInv'
<1>1. PICK n \in {tab[t].timers, tab[t].timers - 1} \cap Nat :
        /\ tab' = [tab EXCEPT ![t] = [@ EXCEPT
             !.live = FALSE, !.connected = FALSE, !.ref = NoConn, !.attempts = 0, !.timers = n]]
        /\ Close({tab[t].ref})
  BY DEF Disconnect
<1> DEFINE r == [tab[t] EXCEPT
      !.live = FALSE, !.connected = FALSE, !.ref = NoConn, !.attempts = 0, !.timers = n]
<1>2. r.live = FALSE /\ r.ref = NoConn
  BY DEF TypeOK, TabState
<1>3. Owned(r, t) /\ Served(r, open' \cup noticing')
  BY <1>2 DEF Owned, Served
<1>4. tab' = [tab EXCEPT ![t] = r]
  BY <1>1
<1> HIDE DEF r
<1> QED BY <1>1, <1>3, <1>4, CloseKeeps, OneTabStep

(* The tab of the socket retries or gives up; no other tab holds it.       *)
LEMMA TabOnClose ==
  ASSUME TypeOK, TabInv, NEW c \in Conns, OnClose(c)
  PROVE  TabInv'
<1> DEFINE t == TabOf[c]
           s == [tab[t] EXCEPT !.connected = FALSE, !.ref = NoConn]
           r == IF ~s.live THEN s
                ELSE IF s.attempts >= MaxAttempts THEN [s EXCEPT !.failed = TRUE]
                ELSE [s EXCEPT !.attempts = @ + 1, !.timers = @ + 1]
<1>1. tab' = [tab EXCEPT ![t] = r] /\ noticing' = noticing \ {c} /\ open' = open
  BY DEF OnClose
<1>2. s \in TabState /\ s.ref = NoConn
  <2>1. tab[t] \in TabState
    BY DEF TypeOK
  <2>2. s.ref = NoConn
    BY <2>1 DEF TabState
  <2> QED BY <2>1, <2>2, TabTypes
<1>3. r.ref = NoConn /\ (r.live => r.timers > 0 \/ r.failed)
  <2> HIDE DEF s
  <2> QED BY <1>2 DEF TabState
<1>4. \A u \in Tabs : tab'[u] = IF u = t THEN r ELSE tab[u]
  BY <1>1 DEF TypeOK
<1> HIDE DEF r
<1>5. \A u \in Tabs : Owned(tab'[u], u) /\ Served(tab'[u], open' \cup noticing')
  <2> TAKE u \in Tabs
  <2>1. CASE u = t
    BY <1>3, <1>4, <2>1 DEF Owned, Served
  <2>2. CASE u # t
    <3>1. Owned(tab[u], u) /\ Served(tab[u], open \cup noticing)
      BY TabInvIs
    <3>2. tab[u].ref # c
      BY <2>2, <3>1 DEF Owned
    <3> QED BY <1>1, <1>4, <2>2, <3>1, <3>2 DEF Owned, Served
  <2> QED BY <2>1, <2>2
<1> QED BY <1>5 DEF TabInv, OwnSocket, NeverStranded, Owned, Served

(* A step of the specification keeps TabInv. *)
LEMMA TabNext == TypeOK /\ TabInv /\ [Next]_vars => TabInv'
<1> SUFFICES ASSUME TypeOK, TabInv, [Next]_vars PROVE TabInv'
  OBVIOUS
<1>0. \A t \in Tabs :
        tab[t] \in TabState /\ Owned(tab[t], t) /\ Served(tab[t], open \cup noticing)
  BY TabInvIs DEF TypeOK
<1>1. ASSUME NEW c \in Conns, HandlerStep(c) \/ RecordFails(c) PROVE TabInv'
  <2>1. open \cup noticing \subseteq open' \cup noticing'
    BY <1>1, CloseKeeps
       DEF HandlerStep, RecordFails, Authenticate, RecordConnection, Register, SetUser, Reply,
           ReadError, Drop, Forget, HubDisconnect
  <2>2. CASE tab' = tab
    BY <2>1, <2>2, NoTabStep
  <2>3. CASE Reply(c) /\ c \in open
    <3> DEFINE t == TabOf[c]
               r == [tab[t] EXCEPT !.connected = TRUE]
    <3>1. /\ r.ref = tab[t].ref /\ r.live = tab[t].live
          /\ r.timers = tab[t].timers /\ r.failed = tab[t].failed
      BY <1>0 DEF TabState
    <3>2. tab' = [tab EXCEPT ![t] = r] /\ open' = open /\ noticing' = noticing
      BY <2>3 DEF Reply
    <3> HIDE DEF r
    <3>3. Owned(r, t) /\ Served(r, open' \cup noticing')
      BY <1>0, <3>1, <3>2 DEF Owned, Served
    <3> QED BY <2>1, <3>2, <3>3, OneTabStep
  <2> QED
    BY <1>1, <2>2, <2>3
       DEF HandlerStep, RecordFails, Authenticate, RecordConnection, Register, SetUser, Reply,
           ReadError, Drop, Forget
<1>2. ASSUME NEW c \in Conns, Watchdog(c) PROVE TabInv'
  BY <1>2, CloseKeeps, NoTabStep DEF Watchdog
<1>3. ASSUME NEW c \in Conns, OnClose(c) PROVE TabInv'
  BY <1>3, TabOnClose
<1>4. ASSUME NEW t \in Tabs, Retry(t) PROVE TabInv'
  <2> DEFINE s == [tab[t] EXCEPT !.timers = @ - 1]
  <2>1. s \in TabState
    BY <1>0, <1>4, TabTypes DEF Retry
  <2>2. s.ref = tab[t].ref /\ s.live = tab[t].live
    BY <1>0 DEF TabState
  <2>3. Connect(t, s)
    BY <1>4 DEF Retry
  <2> HIDE DEF s
  <2>4. Owned(s, t) /\ (s.live /\ s.ref # NoConn => s.ref \in open \cup noticing)
    BY <1>0, <2>2 DEF Owned, Served
  <2> QED BY <2>1, <2>3, <2>4, TabConnect
<1>5. ASSUME NEW t \in Tabs, RefreshDone(t) PROVE TabInv'
  <2> DEFINE r == [tab[t] EXCEPT !.refreshing = @ - 1, !.attempts = 0]
  <2>1. /\ r.ref = tab[t].ref /\ r.live = tab[t].live
        /\ r.timers = tab[t].timers /\ r.failed = tab[t].failed
    BY <1>0 DEF TabState
  <2>2. tab' = [tab EXCEPT ![t] = r] /\ open' \cup noticing' = open \cup noticing
    BY <1>5, CloseKeeps DEF RefreshDone
  <2> HIDE DEF r
  <2>3. Owned(r, t) /\ Served(r, open' \cup noticing')
    BY <1>0, <2>1, <2>2 DEF Owned, Served
  <2> QED BY <2>2, <2>3, OneTabStep
<1>6. CASE CloserDelKey
  BY <1>6, NoTabStep DEF CloserDelKey
<1>7. ASSUME NEW c \in Conns, Refuse(c) PROVE TabInv'
  <2>1. CASE /\ tab' = [tab EXCEPT ![TabOf[c]].refreshing = @ + 1]
             /\ UNCHANGED <<open, noticing>>
    <3> DEFINE t == TabOf[c]
               r == [tab[t] EXCEPT !.refreshing = @ + 1]
    <3>1. /\ r.ref = tab[t].ref /\ r.live = tab[t].live
          /\ r.timers = tab[t].timers /\ r.failed = tab[t].failed
      BY <1>0 DEF TabState
    <3>2. tab' = [tab EXCEPT ![t] = r]
      BY <2>1
    <3> HIDE DEF r
    <3>3. Owned(r, t) /\ Served(r, open' \cup noticing')
      BY <1>0, <2>1, <3>1, <3>2 DEF Owned, Served
    <3> QED BY <2>1, <3>2, <3>3, OneTabStep
  <2>2. CASE Disconnect(TabOf[c])
    BY <2>2, TabDisconnect
  <2>3. CASE UNCHANGED <<open, noticing, tab>>
    BY <2>3, NoTabStep
  <2> QED BY <1>7, <2>1, <2>2, <2>3 DEF Refuse
<1>8. ASSUME NEW c \in Conns, Lose(c) PROVE TabInv'
  BY <1>8, CloseKeeps, NoTabStep DEF Lose
<1>9. ASSUME NEW t \in Tabs, Login(t) PROVE TabInv'
  <2> DEFINE s == [tab[t] EXCEPT !.live = TRUE, !.failed = FALSE]
  <2>1. s \in TabState
    BY <1>0, TabTypes
  <2>2. s.ref = NoConn /\ s.live
    BY <1>0, <1>9 DEF Login, Owned, TabState
  <2>3. Connect(t, s)
    BY <1>9 DEF Login
  <2> HIDE DEF s
  <2> QED BY <2>1, <2>2, <2>3, TabConnect DEF Owned
<1>10. ASSUME NEW t \in Tabs, Logout(t) PROVE TabInv'
  BY <1>10, TabDisconnect DEF Logout
<1>11. CASE CloserDisconnect
  BY <1>11, CloseKeeps, NoTabStep DEF CloserDisconnect, HubDisconnect
<1>12. CASE UNCHANGED vars
  BY <1>12, NoTabStep DEF vars
<1> QED
  BY <1>1, <1>2, <1>3, <1>4, <1>5, <1>6, <1>7, <1>8, <1>9, <1>10, <1>11, <1>12
     DEF Next, Environment

(* A tab that should be connected always has a socket that will tell it    *)
(* when it closes, a retry to come, or has told the user it failed.        *)
THEOREM NotStranded == Spec => []NeverStranded
<1>1. TabInv => NeverStranded
  BY DEF TabInv
<1> QED BY <1>1, TypeInit, TypeNext, TabInit, TabNext, PTL DEF Spec

=============================================================================
