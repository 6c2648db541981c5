------------------------------ MODULE PeerLinks ------------------------------
(***************************************************************************)
(* The connections a node keeps with one peer.                             *)
(*                                                                         *)
(* For every configuration of the peer there is a PeerConn whose loop      *)
(* dials, publishes the connection, waits for it to close and dials again, *)
(* until it is stopped.  The peer dials us too, and what arrives on any    *)
(* connection, whoever dialed it, registers that connection as a way back  *)
(* to the peer.  UpdateTopology replaces PeerConns under a lock and stops  *)
(* the old ones, and tells the other components, after releasing it.       *)
(*                                                                         *)
(* Connections are numbered in the order they are made.                    *)
(***************************************************************************)
EXTENDS Integers, Sequences, FiniteSetsExt

CONSTANTS
    None,
    Links,        \* PeerConns, one per configuration: 1 .. K, 1 being the first
    Conns,        \* connections, 1 .. N (a bound)
    DialBack,     \* whether the peer dials us
    ReturnTraffic, \* whether the peer uses a connection we dialed
    MaxLosses     \* connections lost to the network (a bound)

VARIABLES
    loop,         \* loop[l]: where the connectLoop of l is
    conn,         \* conn[l]: quicConn
    dialed,       \* dialed[l]: the connection dial has made and not yet published
    cancelled,    \* the PeerConns whose context is cancelled
    attempted,    \* the PeerConns whose firstAttempt is closed
    open,         \* the open connections
    made,         \* connections made so far
    theirs,       \* the connections the peer dialed
    watched,      \* those of them that forgetInboundConn has yet to be called for
    streams,      \* connections with a stream whose handler has yet to identify the peer
    inbound,      \* inboundConns[peer]
    current,      \* peers[peer], a PeerConn or None
    configured,   \* the peer is in the configuration
    registered,   \* heartbeat, replicator and the hooks know the peer
    stops,        \* PeerConns UpdateTopology or Stop has yet to stop
    stopped,      \* PeerConns whose Stop has returned
    todo,         \* registrations UpdateTopology has yet to make, in order
    down,         \* the manager is stopped
    losses

vars == <<loop, conn, dialed, cancelled, attempted, open, made, theirs, watched, streams,
          inbound, current, configured, registered, stops, stopped, todo, down, losses>>
links == <<loop, conn, dialed, attempted>>
net == <<open, made, theirs, watched, losses>>
topology == <<current, configured, registered, stops, stopped, todo, down>>

(* Start, with the peer in the configuration.                              *)
Init ==
    /\ loop = [l \in Links |-> IF l = 1 THEN "idle" ELSE "new"]
    /\ conn = [l \in Links |-> None] /\ dialed = [l \in Links |-> None]
    /\ cancelled = {} /\ attempted = {}
    /\ open = {} /\ made = 0 /\ theirs = {} /\ watched = {} /\ streams = {} /\ inbound = None
    /\ current = 1 /\ configured = TRUE /\ registered = TRUE
    /\ stops = {} /\ stopped = {} /\ todo = <<>> /\ down = FALSE /\ losses = 0

----------------------------------------------------------------------------
(* connectLoop: the context is checked, and the peer dialed.               *)
Dial(l) ==
    /\ loop[l] = "idle"
    /\ loop' = [loop EXCEPT ![l] = IF l \in cancelled THEN "done" ELSE "dialing"]
    /\ attempted' = IF l \in cancelled THEN attempted \union {l} ELSE attempted
    /\ UNCHANGED <<conn, dialed, cancelled, net, streams, inbound, topology>>

(* A failed dial is an attempt too; then the backoff, or the end.          *)
DialFails(l) ==
    /\ loop[l] = "dialing"
    /\ loop' = [loop EXCEPT ![l] = IF l \in cancelled THEN "done" ELSE "idle"]
    /\ attempted' = attempted \union {l}
    /\ UNCHANGED <<conn, dialed, cancelled, net, streams, inbound, topology>>

DialSucceeds(l) ==
    /\ loop[l] = "dialing" /\ made + 1 \in Conns
    /\ made' = made + 1 /\ open' = open \union {made + 1}
    /\ dialed' = [dialed EXCEPT ![l] = made + 1]
    /\ loop' = [loop EXCEPT ![l] = "dialed"]
    /\ UNCHANGED <<conn, attempted, cancelled, theirs, watched, losses, streams, inbound, topology>>

(* Mutant: cancellation is checked first, then the connection published. *)
PublishLate(l) ==
    /\ \/ /\ loop[l] = "dialed"
          /\ open' = IF l \in cancelled THEN open \ {dialed[l]} ELSE open
          /\ loop' = [loop EXCEPT ![l] = "published"]
          /\ UNCHANGED conn
       \/ /\ loop[l] = "published"
          /\ conn' = [conn EXCEPT ![l] = dialed[l]]
          /\ loop' = [loop EXCEPT ![l] = "ready"]
          /\ UNCHANGED open
    /\ UNCHANGED <<dialed, attempted, cancelled, made, theirs, watched, losses, streams, inbound, topology>>

(* dial: "Publish first, then check cancellation".                         *)
Publish(l) ==
    /\ \/ /\ loop[l] = "dialed"
          /\ conn' = [conn EXCEPT ![l] = dialed[l]]
          /\ loop' = [loop EXCEPT ![l] = "published"]
          /\ UNCHANGED open
       \/ /\ loop[l] = "published"
          /\ open' = IF l \in cancelled THEN open \ {conn[l]} ELSE open
          /\ loop' = [loop EXCEPT ![l] = "ready"]
          /\ UNCHANGED conn
    /\ UNCHANGED <<dialed, attempted, cancelled, made, theirs, watched, losses, streams, inbound, topology>>

(* The loop hands the connection to the acceptors (onConnected), reports   *)
(* the attempt and waits.                                                  *)
Ready(l) ==
    /\ loop[l] = "ready"
    /\ loop' = [loop EXCEPT ![l] = "waiting"] /\ attempted' = attempted \union {l}
    /\ UNCHANGED <<conn, dialed, cancelled, net, streams, inbound, topology>>

(* The connection has closed: it is withdrawn, and the loop starts again   *)
(* or ends.                                                                *)
Closed(l) ==
    /\ loop[l] = "waiting" /\ dialed[l] \notin open
    /\ conn' = [conn EXCEPT ![l] = None] /\ dialed' = [dialed EXCEPT ![l] = None]
    /\ loop' = [loop EXCEPT ![l] = IF l \in cancelled THEN "done" ELSE "idle"]
    /\ UNCHANGED <<attempted, cancelled, net, streams, inbound, topology>>

----------------------------------------------------------------------------
(* PeerConn.Stop: the context is cancelled, then what is published closed. *)
StopLink(l) ==
    /\ l \in stops
    /\ \/ l \notin cancelled /\ cancelled' = cancelled \union {l} /\ UNCHANGED <<open, stops, stopped>>
       \/ /\ l \in cancelled /\ cancelled' = cancelled
          /\ open' = open \ {conn[l]}
          /\ stops' = stops \ {l} /\ stopped' = stopped \union {l}
    /\ UNCHANGED <<links, made, theirs, watched, losses, streams, inbound,
                   current, configured, registered, todo, down>>

NextLink == Max({0} \union {l \in Links : loop[l] # "new"}) + 1
Settled == stops = {} /\ todo = <<>>

(* UpdateTopology under the lock: the PeerConn is dropped, replaced or     *)
(* made, and started; callers follow one another.                          *)
UpdateTopology(to) ==
    /\ Settled /\ ~down
    /\ to \in {"removed", "changed"} => configured
    /\ to = "added" => ~configured
    /\ to # "removed" => NextLink \in Links
    /\ stops' = IF current = None THEN {} ELSE {current}
    /\ current' = IF to = "removed" THEN None ELSE NextLink
    /\ loop' = IF to = "removed" THEN loop ELSE [loop EXCEPT ![NextLink] = "idle"]
    /\ configured' = (to # "removed")
    /\ todo' = CASE to = "removed" -> <<FALSE>> [] to = "added" -> <<TRUE>> [] to = "changed" -> <<FALSE, TRUE>>
    /\ UNCHANGED <<conn, dialed, attempted, cancelled, net, streams, inbound, registered, stopped, down>>

(* registerPeer and unregisterPeer, after the stops.                       *)
Register ==
    /\ stops = {} /\ todo # <<>>
    /\ registered' = todo[1]
    /\ todo' = IF Len(todo) = 1 THEN <<>> ELSE <<todo[2]>>
    /\ UNCHANGED <<links, cancelled, net, streams, inbound, current, configured, stops, stopped, down>>

(* Stop: every context ends with the manager's, the PeerConns are          *)
(* detached and stopped, and onPeerRemoved is called.                      *)
StopManager ==
    /\ Settled /\ ~down
    /\ down' = TRUE
    /\ cancelled' = {l \in Links : loop[l] # "new"}
    /\ stops' = IF current = None THEN {} ELSE {current}
    /\ current' = None /\ configured' = FALSE
    /\ todo' = IF current = None THEN <<>> ELSE <<FALSE>>
    /\ UNCHANGED <<links, net, streams, inbound, registered, stopped>>

----------------------------------------------------------------------------
(* acceptLoop: the peer dials us.                                          *)
Accept ==
    /\ DialBack /\ ~down /\ made + 1 \in Conns
    /\ made' = made + 1 /\ open' = open \union {made + 1} /\ theirs' = theirs \union {made + 1}
    /\ watched' = watched \union {made + 1}
    /\ UNCHANGED <<links, cancelled, streams, inbound, topology, losses>>

(* A connection is lost, or closed by the peer.                            *)
Lose(c) ==
    /\ c \in open /\ losses < MaxLosses
    /\ open' = open \ {c} /\ losses' = losses + 1
    /\ UNCHANGED <<links, cancelled, made, theirs, watched, streams, inbound, topology>>

Served(c) == c \in theirs \/ \E l \in Links : loop[l] = "waiting" /\ dialed[l] = c

(* AcceptUniStreams: a stream of the peer is handed to a handler ...       *)
Stream(c) ==
    /\ c \in open \ streams /\ Served(c) /\ inbound # c
    /\ c \in theirs \/ ReturnTraffic
    /\ streams' = streams \union {c}
    /\ UNCHANGED <<links, cancelled, net, inbound, topology>>

(* Mutant: the first connection registered stays. *)
RegisterInboundConnOnce(c) ==
    /\ c \in streams
    /\ streams' = streams \ {c} /\ inbound' = IF inbound = None THEN c ELSE inbound
    /\ UNCHANGED <<links, cancelled, net, topology>>

(* ... which reads the sender and registers the connection; the connection *)
(* may close in between.                                                   *)
RegisterInboundConn(c) ==
    /\ c \in streams
    /\ streams' = streams \ {c} /\ inbound' = c
    /\ UNCHANGED <<links, cancelled, net, topology>>

(* forgetInboundConn, once an accepted connection has closed.              *)
ForgetInboundConn(c) ==
    /\ c \in watched \ open
    /\ watched' = watched \ {c} /\ inbound' = IF inbound = c THEN None ELSE inbound
    /\ UNCHANGED <<links, cancelled, open, made, theirs, losses, streams, topology>>

Next ==
    \/ \E l \in Links :
        \/ Dial(l) \/ DialFails(l) \/ DialSucceeds(l) \/ Publish(l) \/ Ready(l) \/ Closed(l)
        \/ StopLink(l)
    \/ \E to \in {"removed", "changed", "added"} : UpdateTopology(to)
    \/ Register \/ StopManager \/ Accept
    \/ \E c \in Conns : Lose(c) \/ Stream(c) \/ RegisterInboundConn(c) \/ ForgetInboundConn(c)

(* Goroutines run on, and a peer that can be dialed answers in the end.    *)
Fairness ==
    /\ \A l \in Links :
        /\ WF_vars(Dial(l)) /\ SF_vars(DialSucceeds(l)) /\ WF_vars(DialFails(l))
        /\ WF_vars(Publish(l)) /\ WF_vars(Ready(l)) /\ WF_vars(Closed(l))
        /\ WF_vars(StopLink(l))
    /\ WF_vars(Register)
    /\ \A c \in Conns :
        WF_vars(Stream(c)) /\ WF_vars(RegisterInboundConn(c)) /\ WF_vars(ForgetInboundConn(c))

Spec == Init /\ [][Next]_vars /\ Fairness

----------------------------------------------------------------------------
(* A published connection is the one dialed, by a loop that runs.          *)
TypeOK ==
    \A l \in Links :
        /\ conn[l] \in {None, dialed[l]}
        /\ loop[l] \in {"new", "idle", "dialing", "done"} => conn[l] = None

(* "either Stop or this path closes the connection" (dial): once Stop has  *)
(* returned, a loop that waits for its connection waits for a closed one.  *)
StopLeaksNothing ==
    \A l \in stopped : loop[l] = "waiting" => dialed[l] \notin open

(* Between updates the other components know the peer exactly when the     *)
(* configuration has it: a changed peer is not left unregistered.          *)
RegisteredAsConfigured == Settled => registered = configured

(* A configured peer is connected in the end, however often the connection *)
(* is lost or the peer's configuration changed (connectLoop).              *)
Reconnects == <>[](configured) => <>[](\E l \in Links : l = current /\ conn[l] \in open)

(* As long as the peer keeps a connection to us and uses it, the way back  *)
(* to the peer is again and again an open one, whatever handlers of older  *)
(* connections still do (registerInboundConn).                             *)
WayBackIsLive ==
    \A c \in Conns : <>[](open \intersect theirs = {c}) => []<>(inbound \in open)
==============================================================================
