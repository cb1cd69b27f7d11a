------------------------------- MODULE WsHub -------------------------------
(***************************************************************************)
(* The WebSocket connections of one user: the tabs of the browser          *)
(* (useWebSocket.tsx), one handler per connection (websocket/handler.go),  *)
(* the hub with at most one connection of the user (websocket/hub.go), the *)
(* key ws:user in Redis, and SessionStore.DeleteUser, called by a logout,  *)
(* a deletion, a reused refresh token or the auto-logout.                  *)
(*                                                                         *)
(* A handler is cut at each call to the database, the hub and Redis; a     *)
(* socket that one side closes is closed for both, and the browser runs    *)
(* its onclose some time later.  A connection that is over for everybody   *)
(* is forgotten and its identity used again.                               *)
(***************************************************************************)
EXTENDS Integers

CONSTANTS
  Conns, Tabs,
  TabOf,          \* TabOf[c]: the tab whose connections c can be
  NoConn,         \* nil: no entry in the hub, no key, no socket in wsRef
  MaxAttempts,    \* reconnections in a row before RECONNECT_FAILED
  MaxMishaps,     \* bound: how often the environment interferes
  Timely          \* whether a delay of a second or more outlasts all reactions

ASSUME TabsAssumption == \A c \in Conns : TabOf[c] \in Tabs
ASSUME NoConnAssumption == NoConn \notin Conns
ASSUME LimitsAssumption ==
  MaxAttempts \in Nat /\ MaxMishaps \in Nat /\ Timely \in BOOLEAN

VARIABLES
  open,       \* the sockets that are open
  pc,         \* where the handler of each connection is; "done": there is none
  authed,     \* the handlers that have put a token into authCh
  watched,    \* the connections whose five-second watchdog has not fired
  hub, key,   \* Hub.clients and ws:user: a connection or NoConn
  closer,     \* where SessionStore.DeleteUser is
  noticing,   \* closed sockets whose onclose the browser has not run
  tab,        \* the refs and the state of useWebSocket in each tab
  mishaps

server == <<pc, authed, watched, hub, key, closer>>
vars == <<open, server, noticing, tab, mishaps>>

-----------------------------------------------------------------------------
Close(S) ==
  /\ open' = open \ S
  /\ noticing' = noticing \cup (open \cap S)

At(c, l) == pc' = [pc EXCEPT ![c] = l]

Mishap == mishaps < MaxMishaps /\ mishaps' = mishaps + 1

(* Mutant: the connection is taken out of the hub and left open. *)
HubDisconnectOpen == hub' = NoConn /\ UNCHANGED <<open, noticing>>

(* Hub.Disconnect: whichever connection of the user is in the hub *)
HubDisconnect == Close({hub}) /\ hub' = NoConn

-----------------------------------------------------------------------------
(* The handler of a connection *)

(* AUTH was sent when the socket opened, and can be read after it closed. *)
Authenticate(c) ==
  /\ pc[c] = "auth"
  /\ At(c, "record")
  /\ UNCHANGED <<open, authed, watched, hub, key, closer, noticing, tab, mishaps>>

RecordConnection(c) ==
  /\ pc[c] = "record"
  /\ At(c, "register")
  /\ UNCHANGED <<open, authed, watched, hub, key, closer, noticing, tab, mishaps>>

(* userID is set already, so the handler goes on as if authenticated. *)
RecordFails(c) ==
  /\ pc[c] = "record" /\ Mishap
  /\ At(c, "serving")
  /\ UNCHANGED <<open, authed, watched, hub, key, closer, noticing, tab>>

(* Mutant: the replaced connection is not closed. *)
RegisterBeside(c) ==
  /\ pc[c] = "register"
  /\ hub' = c
  /\ At(c, "setUser")
  /\ UNCHANGED <<open, noticing, authed, watched, key, closer, tab, mishaps>>

Register(c) ==
  /\ pc[c] = "register"
  /\ Close({hub}) /\ hub' = c
  /\ At(c, "setUser")
  /\ UNCHANGED <<authed, watched, key, closer, tab, mishaps>>

SetUser(c) ==
  /\ pc[c] = "setUser"
  /\ key' = c
  /\ At(c, "reply")
  /\ UNCHANGED <<open, authed, watched, hub, closer, noticing, tab, mishaps>>

(* The token for the watchdog, and AUTH_OK *)
Reply(c) ==
  /\ pc[c] = "reply"
  /\ authed' = authed \cup {c}
  /\ At(c, "serving")
  /\ tab' = IF c \in open THEN [tab EXCEPT ![TabOf[c]].connected = TRUE] ELSE tab
  /\ UNCHANGED <<open, watched, hub, key, closer, noticing, mishaps>>

(* ReadMessage fails; without a userID there is nothing to disconnect. *)
ReadError(c) ==
  /\ pc[c] \in {"auth", "refused", "serving"} /\ c \notin open
  /\ At(c, IF pc[c] = "serving" THEN "drop" ELSE "done")
  /\ UNCHANGED <<open, authed, watched, hub, key, closer, noticing, tab, mishaps>>

(* onDisconnect; the connection log it closes is the handler's own row. *)
Drop(c) ==
  /\ pc[c] = "drop"
  /\ HubDisconnect
  /\ At(c, "forget")
  /\ UNCHANGED <<authed, watched, key, closer, tab, mishaps>>

(* Mutant: the key stays. *)
ForgetNothing(c) ==
  /\ pc[c] = "forget"
  /\ At(c, "done")
  /\ UNCHANGED <<open, authed, watched, hub, key, closer, noticing, tab, mishaps>>

Forget(c) ==
  /\ pc[c] = "forget"
  /\ key' = NoConn
  /\ At(c, "done")
  /\ UNCHANGED <<open, authed, watched, hub, closer, noticing, tab, mishaps>>

(* The handler waits for a message. *)
Idle(c) == pc[c] \in {"refused", "serving", "done"}

(* Mutant: the watchdog never closes. *)
WatchdogIdle(c) ==
  /\ c \in watched /\ (Timely => Idle(c))
  /\ watched' = watched \ {c}
  /\ UNCHANGED <<open, noticing, pc, authed, hub, key, closer, tab, mishaps>>

Watchdog(c) ==
  /\ c \in watched /\ (Timely => Idle(c))
  /\ watched' = watched \ {c}
  /\ Close(IF c \in authed THEN {} ELSE {c})
  /\ UNCHANGED <<pc, authed, hub, key, closer, tab, mishaps>>

-----------------------------------------------------------------------------
(* SessionStore.DeleteUser *)

CloserDisconnect ==
  /\ closer = "idle" /\ Mishap
  /\ HubDisconnect
  /\ closer' = "delKey"
  /\ UNCHANGED <<pc, authed, watched, key, tab>>

CloserDelKey ==
  /\ closer = "delKey"
  /\ key' = NoConn /\ closer' = "idle"
  /\ UNCHANGED <<open, pc, authed, watched, hub, noticing, tab, mishaps>>

-----------------------------------------------------------------------------
(* The browser *)

Over(c) == pc[c] = "done" /\ c \notin open \cup noticing \cup watched

(* Mutant: connect() does not look at wsRef. *)
ConnectAgain(t, s) ==
  IF ~s.live
  THEN tab' = [tab EXCEPT ![t] = s]
       /\ UNCHANGED <<open, server, noticing, mishaps>>
  ELSE \E c \in Conns :
         /\ TabOf[c] = t /\ Over(c)
         /\ \/ /\ open' = open \cup {c} /\ watched' = watched \cup {c}
               /\ authed' = authed \ {c} /\ At(c, "auth")
               /\ tab' = [tab EXCEPT ![t] =
                    [s EXCEPT !.ref = c, !.attempts = 0, !.failed = FALSE]]
               /\ UNCHANGED <<hub, key, closer, noticing, mishaps>>
            \/ /\ Mishap
               /\ noticing' = noticing \cup {c}
               /\ tab' = [tab EXCEPT ![t] = [s EXCEPT !.ref = c]]
               /\ UNCHANGED <<open, server>>

(* connect() in a tab whose refs are s: the socket opens, and the server's *)
(* handler starts; or the server cannot be reached, and onclose follows.   *)
Connect(t, s) ==
  IF ~s.live \/ s.ref # NoConn
  THEN tab' = [tab EXCEPT ![t] = s]
       /\ UNCHANGED <<open, server, noticing, mishaps>>
  ELSE \E c \in Conns :
         /\ TabOf[c] = t /\ Over(c)
         /\ \/ /\ open' = open \cup {c} /\ watched' = watched \cup {c}
               /\ authed' = authed \ {c} /\ At(c, "auth")
               /\ tab' = [tab EXCEPT ![t] =
                    [s EXCEPT !.ref = c, !.attempts = 0, !.failed = FALSE]]
               /\ UNCHANGED <<hub, key, closer, noticing, mishaps>>
            \/ /\ Mishap
               /\ noticing' = noticing \cup {c}
               /\ tab' = [tab EXCEPT ![t] = [s EXCEPT !.ref = c]]
               /\ UNCHANGED <<open, server>>

(* Mutant: a timer that has fired is counted as cleared. *)
DisconnectFired(t) ==
  /\ tab' = [tab EXCEPT ![t] = [@ EXCEPT
       !.live = FALSE, !.connected = FALSE, !.ref = NoConn, !.attempts = 0, !.timers = @ - 1]]
  /\ Close({tab[t].ref})

(* disconnect(): the latest timer is cleared, if it has not fired. *)
Disconnect(t) ==
  \E n \in {tab[t].timers, tab[t].timers - 1} \cap Nat :
    /\ tab' = [tab EXCEPT ![t] = [@ EXCEPT
         !.live = FALSE, !.connected = FALSE, !.ref = NoConn, !.attempts = 0, !.timers = n]]
    /\ Close({tab[t].ref})

(* Mutant: a close the tab did not ask for is not retried. *)
OnCloseQuiet(c) ==
  /\ c \in noticing
  /\ noticing' = noticing \ {c}
  /\ tab' = [tab EXCEPT ![TabOf[c]] = [@ EXCEPT !.connected = FALSE, !.ref = NoConn]]
  /\ UNCHANGED <<open, server, mishaps>>

(* onclose, of whichever socket: wsRef is cleared all the same. *)
OnClose(c) ==
  /\ c \in noticing
  /\ noticing' = noticing \ {c}
  /\ LET s == [tab[TabOf[c]] EXCEPT !.connected = FALSE, !.ref = NoConn]
     IN  tab' = [tab EXCEPT ![TabOf[c]] =
           IF ~s.live THEN s
           ELSE IF s.attempts >= MaxAttempts THEN [s EXCEPT !.failed = TRUE]
           ELSE [s EXCEPT !.attempts = @ + 1, !.timers = @ + 1]]
  /\ UNCHANGED <<open, server, mishaps>>

(* No close is on its way, and no handler at work. *)
Calm ==
  /\ noticing = {} /\ closer = "idle"
  /\ \A c \in Conns : Idle(c) /\ (pc[c] # "done" => c \in open)

Retry(t) ==
  /\ tab[t].timers > 0 /\ (Timely => Calm)
  /\ Connect(t, [tab[t] EXCEPT !.timers = @ - 1])

Login(t) ==
  /\ ~tab[t].live
  /\ Connect(t, [tab[t] EXCEPT !.live = TRUE, !.failed = FALSE])

Logout(t) ==
  /\ tab[t].live /\ Mishap
  /\ Disconnect(t)
  /\ UNCHANGED server

(* Authenticate refuses.  On token_expired the tab refreshes its tokens    *)
(* first; on unauthorized it disconnects and the user is logged out; any   *)
(* other error it only shows.                                              *)
Refuse(c) ==
  /\ pc[c] = "auth" /\ c \in open /\ Mishap
  /\ At(c, "refused")
  /\ \/ /\ tab' = [tab EXCEPT ![TabOf[c]].refreshing = @ + 1]
        /\ UNCHANGED <<open, noticing>>
     \/ Disconnect(TabOf[c])
     \/ UNCHANGED <<open, noticing, tab>>
  /\ UNCHANGED <<authed, watched, hub, key, closer>>

(* handleWsError after its await: it closes the socket wsRef has by now. *)
RefreshDone(t) ==
  /\ tab[t].refreshing > 0
  /\ tab' = [tab EXCEPT ![t] = [tab[t] EXCEPT !.refreshing = @ - 1, !.attempts = 0]]
  /\ Close({tab[t].ref})
  /\ UNCHANGED <<server, mishaps>>

(* The network loses a connection. *)
Lose(c) ==
  /\ c \in open /\ Mishap
  /\ Close({c})
  /\ UNCHANGED <<server, tab>>

Init ==
  /\ open = {} /\ authed = {} /\ watched = {} /\ noticing = {}
  /\ pc = [c \in Conns |-> "done"]
  /\ hub = NoConn /\ key = NoConn /\ closer = "idle" /\ mishaps = 0
  /\ tab = [t \in Tabs |-> [ref |-> NoConn, live |-> FALSE, connected |-> FALSE,
                            failed |-> FALSE, timers |-> 0, attempts |-> 0,
                            refreshing |-> 0]]

HandlerStep(c) ==
  \/ Authenticate(c)
  \/ RecordConnection(c)
  \/ Register(c)
  \/ SetUser(c)
  \/ Reply(c)
  \/ ReadError(c)
  \/ Drop(c)
  \/ Forget(c)

Environment ==
  \/ \E c \in Conns : RecordFails(c) \/ Refuse(c) \/ Lose(c)
  \/ \E t \in Tabs : Login(t) \/ Logout(t)
  \/ CloserDisconnect

Next ==
  \/ \E c \in Conns : HandlerStep(c) \/ Watchdog(c) \/ OnClose(c)
  \/ \E t \in Tabs : Retry(t) \/ RefreshDone(t)
  \/ CloserDelKey
  \/ Environment

Spec == Init /\ [][Next]_vars

(* Handlers go on, timers fire, the browser runs its callbacks.  Nobody    *)
(* has to log in, and nothing has to go wrong.                             *)
FairSpec ==
  /\ Spec
  /\ \A c \in Conns :
       WF_vars(HandlerStep(c)) /\ WF_vars(Watchdog(c)) /\ WF_vars(OnClose(c))
  /\ \A t \in Tabs : WF_vars(Retry(t)) /\ WF_vars(RefreshDone(t))
  /\ WF_vars(CloserDelKey)

-----------------------------------------------------------------------------
(* Properties *)

Points == {"auth", "refused", "record", "register", "setUser", "reply", "serving",
           "drop", "forget", "done"}

TabState == [ref : Conns \cup {NoConn}, live : BOOLEAN, connected : BOOLEAN,
             failed : BOOLEAN, timers : Nat, attempts : Nat, refreshing : Nat]

(* Every variable stays in its type. *)
TypeOK ==
  /\ open \subseteq Conns /\ authed \subseteq Conns /\ watched \subseteq Conns
  /\ noticing \subseteq Conns
  /\ pc \in [Conns -> Points]
  /\ hub \in Conns \cup {NoConn} /\ key \in Conns \cup {NoConn}
  /\ closer \in {"idle", "delKey"}
  /\ tab \in [Tabs -> TabState]
  /\ mishaps \in Nat

(* In the hub since Register *)
Registered(c) ==
  \/ pc[c] \in {"setUser", "reply"}
  \/ pc[c] = "serving" /\ c \in authed

(* The hub delivers to the connection the user has: one that was           *)
(* registered and is still open is the one in the hub, whatever other      *)
(* handlers of the user were closing meanwhile (hub.go:33-51).             *)
OpenIsReachable == \A c \in Conns : Registered(c) /\ c \in open => hub = c

(* The hub never keeps a connection whose handler has returned, and the    *)
(* key is gone when no handler is left: nothing of a session outlives it.  *)
NothingOutlivesHandlers ==
  /\ \A c \in Conns : hub = c => pc[c] # "done"
  /\ (\A c \in Conns : pc[c] = "done") => key = NoConn

(* A tab that should be connected has a socket whose onclose will come, or *)
(* a retry scheduled, or has told the user that reconnecting failed.       *)
NeverStranded ==
  \A t \in Tabs : tab[t].live =>
    \/ tab[t].ref \in open \cup noticing
    \/ tab[t].ref = NoConn /\ (tab[t].timers > 0 \/ tab[t].failed)

(* A connection is authenticated or closed in the end: the five seconds of *)
(* handler.go:59-66, also when RecordConnection has failed.                *)
AuthenticatedOrClosed ==
  \A c \in Conns : pc[c] # "done" ~> (c \in authed \/ pc[c] = "done")

(* After the last mishap the user's only tab that is logged in ends up     *)
(* connected, with its socket in the hub, or has given up, also when an    *)
(* old socket of it closed late beside a new one (useWebSocket.tsx:119-    *)
(* 136).  (Two tabs close each other's sockets for ever.)                  *)
Settled(t) ==
  \/ tab[t].connected /\ tab[t].ref = hub /\ hub \in open
  \/ tab[t].failed /\ tab[t].ref = NoConn
Alone(t) == \A u \in Tabs : tab[u].live <=> u = t
Settles == <>[](\A t \in Tabs : Alone(t) => Settled(t))

=============================================================================
