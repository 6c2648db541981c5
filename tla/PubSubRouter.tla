---------------------------- MODULE PubSubRouter ----------------------------
(***************************************************************************)
(* Cluster routing of pub/sub: subscribing nodes announce their channels   *)
(* and patterns to one other node, whose router keeps a table of them and  *)
(* sends it the messages published there.                                  *)
(*                                                                         *)
(* An announcement is a one-way packet on a stream of its own: it is lost  *)
(* without a connection, and two of them may overtake each other.          *)
(***************************************************************************)
EXTENDS Integers, Sequences, SequencesExt, FiniteSets

CONSTANTS
    Subscribers,         \* the nodes that subscribe
    Channels, Patterns,  \* names
    Matches,             \* MatchGlob: the pairs of a channel and a pattern
    InOrder,             \* streams arrive in the order they were opened
    MaxSubscribes,       \* bound on the subscriptions a node makes
    MaxPublishes,
    LinkFirst,           \* the connection is there before the peer is added
    Unsubscribes,        \* "never", "settled": not while a peer is being added, or "any"
    MayDrop, MayLeave

VARIABLES
    subs,      \* subs[n]: the names with local subscribers
    made,      \* made[n]: subscriptions made (the bound)
    call,      \* call[n]: the broker's announcement that is not sent yet, or none
    conf,      \* conf[n]: the router's node is a peer in n's PeerManager
    adding,    \* adding[n]: OnPeerAdded, "no", "called", or "sending" what todo[n] holds
    todo,
    up,        \* up[n]: a connection over which n can send
    net,       \* net[n]: announcements of n under way
    lost,      \* lost[n]: an announcement of n was lost for want of a connection
    known,     \* known[n]: n is a peer of the router's node
    table,     \* table[n]: the names peers holds for n; no entry when empty
    messages   \* the messages published: channel, targets still to reach, deliveries

vars == <<subs, made, call, conf, adding, todo, up, net, lost, known, table, messages>>

Names == Channels \union Patterns
Announcement == [name : Names, unsub : BOOLEAN]

Init ==
    /\ subs = [n \in Subscribers |-> {}] /\ made = [n \in Subscribers |-> 0]
    /\ call = [n \in Subscribers |-> <<>>]
    /\ conf = [n \in Subscribers |-> FALSE] /\ adding = [n \in Subscribers |-> "no"]
    /\ todo = [n \in Subscribers |-> {}]
    /\ up = [n \in Subscribers |-> LinkFirst] /\ net = [n \in Subscribers |-> <<>>]
    /\ lost = [n \in Subscribers |-> FALSE]
    /\ known = [n \in Subscribers |-> TRUE] /\ table = [n \in Subscribers |-> {}]
    /\ messages = <<>>

----------------------------------------------------------------------------
(* SendOneWay: without a connection the packet is lost.                    *)
Send(n, a) ==
    /\ net' = [net EXCEPT ![n] = IF up[n] THEN Append(@, a) ELSE @]
    /\ lost' = [lost EXCEPT ![n] = @ \/ ~up[n]]

(* The broker adds a first local subscriber, and then announces it.        *)
Subscribe(n, name) ==
    /\ made[n] < MaxSubscribes /\ call[n] = <<>> /\ name \notin subs[n]
    /\ subs' = [subs EXCEPT ![n] = @ \union {name}] /\ made' = [made EXCEPT ![n] = @ + 1]
    /\ call' = [call EXCEPT ![n] = <<[name |-> name, unsub |-> FALSE]>>]
    /\ UNCHANGED <<conf, adding, todo, up, net, lost, known, table, messages>>

Unsubscribe(n, name) ==
    /\ (Unsubscribes = "any" \/ (Unsubscribes = "settled" /\ adding[n] = "done"))
    /\ call[n] = <<>> /\ name \in subs[n]
    /\ subs' = [subs EXCEPT ![n] = @ \ {name}]
    /\ call' = [call EXCEPT ![n] = <<[name |-> name, unsub |-> TRUE]>>]
    /\ UNCHANGED <<made, conf, adding, todo, up, net, lost, known, table, messages>>

(* AnnounceSub, AnnounceUnsub: to the peers there are now.                 *)
Announce(n) ==
    /\ call[n] # <<>>
    /\ IF conf[n] THEN Send(n, Head(call[n])) ELSE UNCHANGED <<net, lost>>
    /\ call' = [call EXCEPT ![n] = <<>>]
    /\ UNCHANGED <<subs, made, conf, adding, todo, up, known, table, messages>>

(* UpdateTopology: the peer is in the table before its hook is called.     *)
AddPeer(n) ==
    /\ ~conf[n] /\ adding[n] = "no"
    /\ conf' = [conf EXCEPT ![n] = TRUE] /\ adding' = [adding EXCEPT ![n] = "called"]
    /\ UNCHANGED <<subs, made, call, todo, up, net, lost, known, table, messages>>

(* Mutant: the patterns are forgotten. *)
OnPeerAddedChannels(n) ==
    /\ adding[n] = "called"
    /\ todo' = [todo EXCEPT ![n] = subs[n] \intersect Channels]
    /\ adding' = [adding EXCEPT ![n] = "sending"]
    /\ UNCHANGED <<subs, made, call, conf, up, net, lost, known, table, messages>>

(* OnPeerAdded takes a snapshot of the broker's names ...                  *)
OnPeerAdded(n) ==
    /\ adding[n] = "called"
    /\ todo' = [todo EXCEPT ![n] = subs[n]] /\ adding' = [adding EXCEPT ![n] = "sending"]
    /\ UNCHANGED <<subs, made, call, conf, up, net, lost, known, table, messages>>

(* ... and announces them one by one.                                      *)
SendAnnounce(n) ==
    /\ adding[n] = "sending"
    /\ \/ \E name \in todo[n] :
            /\ Send(n, [name |-> name, unsub |-> FALSE])
            /\ todo' = [todo EXCEPT ![n] = @ \ {name}] /\ UNCHANGED adding
       \/ /\ todo[n] = {} /\ adding' = [adding EXCEPT ![n] = "done"]
          /\ UNCHANGED <<net, lost, todo>>
    /\ UNCHANGED <<subs, made, call, conf, up, known, table, messages>>

Connect(n) ==
    /\ ~up[n] /\ conf[n] /\ up' = [up EXCEPT ![n] = TRUE]
    /\ UNCHANGED <<subs, made, call, conf, adding, todo, net, lost, known, table, messages>>

(* The connection breaks, with what is under way.                          *)
Drop(n) ==
    /\ MayDrop /\ up[n]
    /\ up' = [up EXCEPT ![n] = FALSE] /\ net' = [net EXCEPT ![n] = <<>>]
    /\ lost' = [lost EXCEPT ![n] = @ \/ net[n] # <<>>]
    /\ UNCHANGED <<subs, made, call, conf, adding, todo, known, table, messages>>

----------------------------------------------------------------------------
(* Mutant: an entry without channels is dropped, patterns or not. *)
HandledDropsEarly(n, a) ==
    LET names == IF a.unsub THEN table[n] \ {a.name} ELSE table[n] \union {a.name} IN
    IF a.unsub /\ names \intersect Channels = {} THEN {} ELSE names

(* HandleEphemeralSubscribe: a set per peer, without an entry when empty.  *)
Handled(n, a) ==
    IF a.unsub THEN table[n] \ {a.name} ELSE table[n] \union {a.name}

Receive(n) ==
    \E i \in IF InOrder THEN {1} \intersect DOMAIN net[n] ELSE DOMAIN net[n] :
        /\ table' = [table EXCEPT ![n] = Handled(n, net[n][i])]
        /\ net' = [net EXCEPT ![n] = RemoveAt(@, i)]
        /\ UNCHANGED <<subs, made, call, conf, adding, todo, up, lost, known, messages>>

(* The node leaves and the router's node is told: OnPeerRemoved.           *)
OnPeerRemoved(n) ==
    /\ MayLeave /\ known[n]
    /\ known' = [known EXCEPT ![n] = FALSE] /\ table' = [table EXCEPT ![n] = {}]
    /\ UNCHANGED <<subs, made, call, conf, adding, todo, up, net, lost, messages>>

(* targetsFor: how often a peer is listed, for its channel or else for the *)
(* first pattern that matches.                                             *)
TargetsFor(channel) ==
    [n \in Subscribers |->
        IF \E name \in table[n] : name = channel \/ <<channel, name>> \in Matches THEN 1 ELSE 0]

(* RouteMessage; a target without a connection back misses it.             *)
RouteMessage(channel) ==
    /\ Len(messages) < MaxPublishes
    /\ messages' = Append(messages, [channel |-> channel, sent |-> TargetsFor(channel)])
    /\ UNCHANGED <<subs, made, call, conf, adding, todo, up, net, lost, known, table>>

Next ==
    \/ \E n \in Subscribers :
        \/ \E name \in Names : Subscribe(n, name) \/ Unsubscribe(n, name)
        \/ Announce(n) \/ AddPeer(n) \/ OnPeerAdded(n) \/ SendAnnounce(n)
        \/ Connect(n) \/ Drop(n) \/ Receive(n) \/ OnPeerRemoved(n)
    \/ \E channel \in Channels : RouteMessage(channel)

(* The broker announces, the topology is installed, streams arrive.        *)
Spec ==
    /\ Init /\ [][Next]_vars
    /\ \A n \in Subscribers :
        WF_vars(Announce(n)) /\ WF_vars(AddPeer(n)) /\ WF_vars(OnPeerAdded(n))
        /\ WF_vars(SendAnnounce(n)) /\ WF_vars(Connect(n)) /\ WF_vars(Receive(n))

----------------------------------------------------------------------------
(* Types; the router's table holds names that were announced.              *)
TypeOK ==
    /\ \A n \in Subscribers :
        /\ subs[n] \union table[n] \union todo[n] \subseteq Names
        /\ Range(net[n]) \union Range(call[n]) \subseteq Announcement
        /\ adding[n] \in {"no", "called", "sending", "done"}
        /\ adding[n] = "no" => net[n] = <<>>
        /\ adding[n] # "sending" => todo[n] = {}

(* Nothing that concerns n is under way and nothing was lost.              *)
Quiet(n) == net[n] = <<>> /\ call[n] = <<>> /\ adding[n] = "done" /\ known[n] /\ ~lost[n]

(* "every channel a remote peer is interested in" (ClusterChannels):       *)
(* whenever nothing is under way the table says what the broker holds.     *)
TableIsTrue == \A n \in Subscribers : Quiet(n) => table[n] = subs[n]

(* A subscription made before, while or after the peer is added is in the  *)
(* table in the end, unless an announcement was lost: the snapshot of      *)
(* OnPeerAdded and the peers AnnounceSub reads leave no gap.               *)
SubscriptionLearned ==
    \A n \in Subscribers, name \in Names :
        name \in subs[n] ~> (name \in table[n] \/ name \notin subs[n] \/ lost[n] \/ ~known[n])

(***************************************************************************)
(* A node subscribed to a message by its channel and by several patterns   *)
(* is sent it once (targetsFor).                                           *)
(***************************************************************************)
SentOnce == \A i \in DOMAIN messages : \A n \in Subscribers : messages[i].sent[n] \leq 1
=============================================================================
