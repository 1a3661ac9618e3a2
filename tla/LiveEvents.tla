----------------------------- MODULE LiveEvents -----------------------------
(***************************************************************************)
(* Live events: a transaction that changes something a dashboard shows ends *)
(* with pg_notify (events.py); one listener task in the API takes the       *)
(* notifications from PostgreSQL and sends each to every open WebSocket     *)
(* (live.py); live_events (main.py) admits a socket and serves it.  The     *)
(* tasks share one event loop and the list of connections, and every await  *)
(* lets another run.  PostgreSQL keeps a notification only for sessions     *)
(* that listen when its transaction commits.                                *)
(***************************************************************************)
EXTENDS Accounts, Sequences, Functions

CONSTANTS
    Client,          \* browsers; each has at most one socket at a time
    None,
    MaxEvents,       \* bound: transactions with an event
    MaxFaults        \* bound: peers lost or stalled, sessions broken, restarts

ASSUME LiveAssumption == MaxEvents \in Nat /\ MaxFaults \in Nat

VARIABLES
    committed,       \* events committed so far: 1..committed, in commit order
    listener,        \* the task listen_for_events
    connections,     \* LiveConnectionManager._connections
    socket,          \* socket[c]: the state of c's socket and its endpoint
    received,        \* received[c]: the events that reached c
    owed,            \* observer: events notified while c was served
    faults

liveVars == <<listener, connections, socket, received, owed>>
vars == <<accountVars, committed, liveVars, faults>>

Down == [pc |-> "down", inbox |-> <<>>, event |-> None, todo |-> <<>>, stale |-> {}]
Listening == [Down EXCEPT !.pc = "listening"]

\* LiveConnectionManager.disconnect for every socket of a set: the list without
\* them, in the same order.
Without(list, sockets) ==
    LET kept == {i \in DOMAIN list : list[i] \notin sockets}
        Place(i) == Cardinality({k \in kept : k <= i})
    IN  [n \in 1..Cardinality(kept) |-> list[CHOOSE i \in kept : Place(i) = n]]

LiveInit ==
    /\ AccountsInit
    /\ committed = 0
    /\ listener = Down
    /\ connections = <<>>
    /\ socket = [c \in Client |-> "none"]
    /\ received = [c \in Client |-> <<>>]
    /\ owed = [c \in Client |-> {}]
    /\ faults = 0

\* A transaction with notify_after_commit commits.  (One whose event is longer
\* than 7000 bytes raises ValueError instead and stores nothing.)
Commit ==
    LET e == committed + 1
        heard == listener.pc \in {"listening", "sending"}
    IN  /\ committed < MaxEvents
        /\ committed' = e
        /\ listener' = IF heard THEN [listener EXCEPT !.inbox = Append(@, e)] ELSE listener
        /\ owed' = [c \in Client |->
                        IF heard /\ socket[c] = "open" THEN owed[c] \cup {e} ELSE owed[c]]
        /\ UNCHANGED <<accountVars, connections, socket, received, faults>>

-----------------------------------------------------------------------------
\* listen_for_events: AsyncConnection.connect and LISTEN.
Listen ==
    /\ listener.pc = "down"
    /\ listener' = Listening
    /\ UNCHANGED <<accountVars, committed, connections, socket, received, owed, faults>>

\* The session ends; notifications it has not delivered go with it.
Interrupted(pc) ==
    /\ listener' = [Down EXCEPT !.pc = pc]
    /\ owed' = [c \in Client |-> {}]

\* notifies(timeout=5) ends: the session is closed and opened again at once.
NotifiesEnds ==
    /\ listener.pc = "listening"
    /\ Interrupted("down")
    /\ UNCHANGED <<accountVars, committed, connections, socket, received, faults>>

\* The session or the attempt to open it fails: except Exception.
SessionFails ==
    /\ listener.pc \in {"down", "listening"}
    /\ faults < MaxFaults
    /\ faults' = faults + 1
    /\ Interrupted("backoff")
    /\ UNCHANGED <<accountVars, committed, connections, socket, received>>

\* wait_for(stop_event.wait(), timeout=delay_s)
BackoffEnds ==
    /\ listener.pc = "backoff"
    /\ listener' = Down
    /\ UNCHANGED <<accountVars, committed, connections, socket, received, owed, faults>>

\* async for notification: broadcast begins over tuple(self._connections).
TakeNotification ==
    /\ listener.pc = "listening"
    /\ listener.inbox # <<>>
    /\ listener' = [pc |-> "sending", inbox |-> Tail(listener.inbox),
                    event |-> Head(listener.inbox), todo |-> connections, stale |-> {}]
    /\ UNCHANGED <<accountVars, committed, connections, socket, received, owed, faults>>

\* broadcast: send_json to the next socket succeeds, or fills a buffer of a peer
\* that is gone.
SendEvent ==
    LET c == Head(listener.todo)
    IN  /\ listener.pc = "sending"
        /\ listener.todo # <<>>
        /\ socket[c] \in {"hello", "open", "gone", "closed"}
        /\ listener' = [listener EXCEPT !.todo = Tail(@)]
        /\ received' = IF socket[c] \in {"hello", "open"}
                       THEN [received EXCEPT ![c] = Append(@, listener.event)] ELSE received
        /\ owed' = [owed EXCEPT ![c] = @ \ {listener.event}]
        /\ UNCHANGED <<accountVars, committed, connections, socket, faults>>

\* Mutant: the socket is taken from the list that broadcast walks over, which
\* then passes over the next one.
SendToLeakedSkips ==
    LET c == Head(listener.todo)
    IN  /\ listener.pc = "sending"
        /\ listener.todo # <<>>
        /\ socket[c] = "leaked"
        /\ listener' = [listener EXCEPT !.todo = IF Len(@) > 1 THEN Tail(Tail(@)) ELSE <<>>]
        /\ connections' = Without(connections, {c})
        /\ socket' = [socket EXCEPT ![c] = "none"]
        /\ UNCHANGED <<accountVars, committed, received, owed, faults>>

\* broadcast: RuntimeError from a socket whose endpoint has ended; it is noted.
\* (Its first send may meet the closed transport instead, which is SendRaises.)
SendToLeaked ==
    LET c == Head(listener.todo)
    IN  /\ listener.pc = "sending"
        /\ listener.todo # <<>>
        /\ socket[c] = "leaked"
        /\ listener' = [listener EXCEPT !.todo = Tail(@), !.stale = @ \cup {c}]
        /\ UNCHANGED <<accountVars, committed, connections, socket, received, owed, faults>>

\* Mutant: only RuntimeError ends the broadcast alone; the task ends.
SendRaisesEndsTask ==
    LET c == Head(listener.todo)
    IN  /\ listener.pc = "sending"
        /\ listener.todo # <<>>
        /\ socket[c] \in {"gone", "closed", "leaked"}
        /\ Interrupted("ended")
        /\ UNCHANGED <<accountVars, committed, connections, socket, received, faults>>

\* broadcast: WebSocketDisconnect from a peer that is gone or a transport that is
\* closed, which is no RuntimeError: it leaves broadcast, and the session is given
\* up.
SendRaises ==
    LET c == Head(listener.todo)
    IN  /\ listener.pc = "sending"
        /\ listener.todo # <<>>
        /\ socket[c] \in {"gone", "closed", "leaked"}
        /\ Interrupted("backoff")
        /\ UNCHANGED <<accountVars, committed, connections, socket, received, faults>>

\* Mutant: the stale sockets are only counted.
EndBroadcastKeeps ==
    /\ listener.pc = "sending"
    /\ listener.todo = <<>>
    /\ socket' = [c \in Client |-> IF c \in listener.stale THEN "none" ELSE socket[c]]
    /\ listener' = [Listening EXCEPT !.inbox = listener.inbox]
    /\ UNCHANGED <<accountVars, committed, connections, received, owed, faults>>

\* broadcast: the stale sockets are taken from the list.
EndBroadcast ==
    /\ listener.pc = "sending"
    /\ listener.todo = <<>>
    /\ connections' = Without(connections, listener.stale)
    /\ socket' = [c \in Client |-> IF c \in listener.stale THEN "none" ELSE socket[c]]
    /\ listener' = [Listening EXCEPT !.inbox = listener.inbox]
    /\ UNCHANGED <<accountVars, committed, received, owed, faults>>

-----------------------------------------------------------------------------
\* websocket_origin_is_allowed: a browser sends an origin, other clients none.
OriginIsAllowed(origin) == origin \in {None, "dashboard"}

\* bearer_subprotocol_token, or else the cookie, which needs an origin.
Credential(sentAs, origin) == sentAs = "bearer" \/ (sentAs = "cookie" /\ origin = "dashboard")

\* live_events: the checks of the handshake.
Admitted(t, sentAs, origin) ==
    OriginIsAllowed(origin) /\ Credential(sentAs, origin) /\ CurrentUser(t)

\* live_events: admitted, accepted and appended to the list.
OpenSocket(c, t, sentAs, origin) ==
    /\ socket[c] = "none"
    /\ Admitted(t, sentAs, origin)
    /\ socket' = [socket EXCEPT ![c] = "hello"]
    /\ connections' = Append(connections, c)
    /\ UNCHANGED <<accountVars, committed, listener, received, owed, faults>>

\* live_events: the first message is sent, the receive loop begins.
SayHello(c) ==
    /\ socket[c] = "hello"
    /\ socket' = [socket EXCEPT ![c] = "open"]
    /\ UNCHANGED <<accountVars, committed, listener, connections, received, owed, faults>>

\* The peer goes, or stops reading; before the receive loop an exception ends the
\* endpoint and the socket stays in the list, as it does when receive_text meets
\* a message that is no text.
PeerFails(c, how) ==
    /\ faults < MaxFaults
    /\ \/ socket[c] = "hello" /\ how = "leaked"
       \/ socket[c] = "open" /\ how \in {"gone", "stalled", "leaked"}
    /\ faults' = faults + 1
    /\ socket' = [socket EXCEPT ![c] = how]
    /\ owed' = [owed EXCEPT ![c] = {}]
    /\ UNCHANGED <<accountVars, committed, listener, connections, received>>

\* A peer that does not read is given up by the WebSocket ping (external).
PingTimeout(c) ==
    /\ socket[c] = "stalled"
    /\ socket' = [socket EXCEPT ![c] = "gone"]
    /\ UNCHANGED <<accountVars, committed, listener, connections, received, owed, faults>>

\* live_events: except WebSocketDisconnect, disconnect(websocket).  A broadcast
\* under way still has the socket.
EndpointEnds(c) ==
    /\ socket[c] = "gone"
    /\ connections' = Without(connections, {c})
    /\ socket' = [socket EXCEPT ![c] = "closed"]
    /\ UNCHANGED <<accountVars, committed, listener, received, owed, faults>>

\* The browser may try again (web/lib/use-live-socket.ts).
MayReopen(c) ==
    /\ socket[c] = "closed"
    /\ c \notin Range(listener.todo)
    /\ socket' = [socket EXCEPT ![c] = "none"]
    /\ UNCHANGED <<accountVars, committed, listener, connections, received, owed, faults>>

\* The API is stopped (lifespan) and started.
RestartApi ==
    /\ faults < MaxFaults
    /\ faults' = faults + 1
    /\ listener' = Down
    /\ connections' = <<>>
    /\ socket' = [c \in Client |-> "none"]
    /\ owed' = [c \in Client |-> {}]
    /\ UNCHANGED <<accountVars, committed, received>>

Accounting ==
    /\ \/ \E u \in User : Login(u) \/ SetActive(u, FALSE)
       \/ Minute
    /\ UNCHANGED <<committed, liveVars, faults>>

ListenerStep ==
    \/ Listen \/ BackoffEnds \/ TakeNotification
    \/ SendEvent \/ SendToLeaked \/ SendRaises \/ EndBroadcast

LiveNext ==
    \/ Commit \/ NotifiesEnds \/ SessionFails \/ ListenerStep
    \/ \E c \in Client :
          \/ \E t \in tokens, sentAs \in {"bearer", "cookie"},
                origin \in {None, "dashboard", "other"} : OpenSocket(c, t, sentAs, origin)
          \/ SayHello(c)
          \/ \E how \in {"gone", "stalled", "leaked"} : PeerFails(c, how)
          \/ PingTimeout(c) \/ EndpointEnds(c) \/ MayReopen(c)
    \/ RestartApi \/ Accounting

\* The event loop runs the listener, and stalled peers are found out.
LiveSpec == /\ LiveInit /\ [][LiveNext]_vars
        /\ WF_vars(ListenerStep)
        /\ \A c \in Client : WF_vars(PingTimeout(c)) /\ WF_vars(EndpointEnds(c))

-----------------------------------------------------------------------------
ListenerState ==
    [pc : {"down", "backoff", "listening", "sending"}, inbox : Seq(1..MaxEvents),
     event : (1..MaxEvents) \cup {None}, todo : Seq(Client), stale : SUBSET Client]

LiveTypeOK ==
    /\ AccountsTypeOK
    /\ committed \in 0..MaxEvents
    /\ listener \in ListenerState
    /\ connections \in Seq(Client)
    /\ socket \in [Client -> {"none", "hello", "open", "stalled", "gone", "closed", "leaked"}]
    /\ received \in [Client -> Seq(1..MaxEvents)]
    /\ owed \in [Client -> SUBSET (1..MaxEvents)]
    /\ faults \in 0..MaxFaults

\* A browser sees the events in the order of their commits and none twice, over
\* reconnections of its socket and of the listener (listen_for_events).
InCommitOrder ==
    \A c \in Client, i, j \in 1..MaxEvents :
        i < j /\ j <= Len(received[c]) => received[c][i] < received[c][j]

\* The list has every served socket once and, besides those that are leaving or
\* whose endpoint ended without disconnect, no other; only a broadcast may still
\* hold one that left (LiveConnectionManager).
ListMatchesSockets ==
    \A c \in Client :
        Cardinality({i \in DOMAIN connections : connections[i] = c})
            = IF socket[c] \in {"none", "closed"} THEN 0 ELSE 1

\* When the listener waits with nothing to read, every open socket has received
\* each event that was committed while it was open and the session stood: one
\* bad socket costs the others nothing as long as it raises RuntimeError
\* (broadcast).  A session that ends takes with it what it had not delivered.
NothingOwed ==
    listener.pc = "listening" /\ listener.inbox = <<>> => \A c \in Client : owed[c] = {}

\* Whatever fails, the listener listens again (listen_for_events).
ListenerReturns == []<>(listener.pc = "listening")

\* Sockets, endpoints and the list of connections agree at every await of every
\* task (LiveConnectionManager, live_events).
LiveInv == LiveTypeOK /\ ListMatchesSockets

\* What a dashboard gets of the events: all that its socket and the listener's
\* session stood for, in the order of their commits, none of them twice
\* (listen_for_events, broadcast).
EventsArrive == InCommitOrder /\ NothingOwed

-----------------------------------------------------------------------------
(* The parts of the inductive invariant                                     *)

\* A list without repetition of exactly the sockets that are served or leaving;
\* what broadcast walks over is without repetition too, and holds nothing outside
\* a broadcast; a socket it noted stays as it was (live_events leaves a socket
\* whose endpoint has ended alone).
ConnectionInv ==
    /\ IsInjective(connections)
    /\ Range(connections) = {c \in Client : socket[c] \notin {"none", "closed"}}
    /\ IsInjective(listener.todo)
    /\ \A c \in listener.stale : socket[c] = "leaked"
    /\ listener.pc # "sending" => listener.todo = <<>> /\ listener.stale = {}
    /\ listener.pc \in {"down", "backoff"} => listener.inbox = <<>>

\* The events on their way to c when the listener's state is task.
Ahead(task, c) ==
    Range(task.inbox) \cup {e \in {task.event} : task.pc = "sending" /\ c \in Range(task.todo)}

Increasing(list) == \A i, j \in DOMAIN list : i < j => list[i] < list[j]

\* Events are committed, wait and arrive in one order: what reached c is older
\* than what is on its way, and what c is owed is on its way.
OrderOfEvents ==
    /\ Increasing(listener.inbox)
    /\ \A e \in Range(listener.inbox) : e <= committed
    /\ listener.pc = "sending" =>
          /\ listener.event \in 1..committed
          /\ \A e \in Range(listener.inbox) : listener.event < e
    /\ \A c \in Client :
          /\ Increasing(received[c])
          /\ \A d \in Range(received[c]) : d <= committed /\ \A e \in Ahead(listener, c) : d < e
          /\ owed[c] \subseteq Ahead(listener, c)
          /\ owed[c] # {} => socket[c] = "open"

DeliveryInv == LiveTypeOK /\ ConnectionInv /\ OrderOfEvents
=============================================================================
