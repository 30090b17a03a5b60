---------------------------- MODULE LiveUpdates ----------------------------
(***************************************************************************)
(* Telling others about changes: GraphQL subscriptions on one websocket    *)
(* (api/graphql_subscription_consumer.py, the event streams of             *)
(* api/graphql.py), batched notifications (api/notification_batching.py)   *)
(* and remote invalidation (api/remote_invalidation.py and its client).    *)
(*                                                                         *)
(* Item 1 is subscribed to and read by the remote side; item 2, of another *)
(* manager, is one of its dependencies.  A message is a wake-up: receivers *)
(* read the items again, so what a stream has sent is the versions it read *)
(* last.  One operation id is in use on the websocket.                     *)
(***************************************************************************)
EXTENDS Naturals, Sequences, FiniteSets

CONSTANTS
    ItemStreams,     \* streams of on<Manager>Change, each opened at most once
    ClassStreams,    \* streams of on<Manager>ClassChange
    RemoteStreams,   \* connections of a RemoteInvalidationClient
    ChannelCapacity, \* messages a channel holds before the layer drops one
    MaxCommits,      \* bound
    MaxLiveFaults    \* bound: failing sends, joins and leaves, broken connections

VARIABLES
    version,   \* item -> committed version
    members,   \* group -> streams whose channel is in it
    stream,    \* stream -> where it is, what it saw
    handler,   \* the websocket consumer: idle, or the stream it opens or waits for
    active,    \* active_subscriptions[operation_id]
    publisher, \* the changing process: open batch, its targets and the sends to do
    commits, liveFaults

liveVars == <<version, members, stream, handler, active, publisher, commits, liveFaults>>

Items == {1, 2}
Subscriptions == ItemStreams \cup ClassStreams
Streams == Subscriptions \cup RemoteStreams
NoStream == "none"

ASSUME LiveAssumption ==
    /\ ItemStreams \cap ClassStreams = {} /\ Subscriptions \cap RemoteStreams = {}
    /\ NoStream \notin Streams

Groups == ({"item", "class", "refresh", "remote"} \X Items)

\* Mutant: only the subscribed manager's refresh group is joined.
GroupsWithoutDependencyRefresh(s) ==
    CASE s \in ItemStreams -> {<<"item", 1>>, <<"refresh", 1>>, <<"item", 2>>}
      [] s \in ClassStreams -> {<<"class", 1>>, <<"refresh", 1>>}
      [] OTHER -> {<<"remote", 1>>}

\* The groups of a stream: subscribe joins those of the item, of its dependencies
\* (resolve_subscription_dependencies) and of their bulk refreshes.
GroupsOf(s) ==
    CASE s \in ItemStreams -> {<<"item", 1>>, <<"refresh", 1>>} \cup {<<"item", 2>>, <<"refresh", 2>>}
      [] s \in ClassStreams -> {<<"class", 1>>, <<"refresh", 1>>}
      [] OTHER -> {<<"remote", 1>>}

\* What a reader of s has to learn about.
Concerns(s) == IF s \in ItemStreams THEN Items ELSE {1}

\* early: an item changed after it was read and before all groups were joined;
\* lost: the layer dropped or failed to send a message;
\* left: groups whose leaving failed or whose joining was interrupted.
NewStream == [pc |-> "new", joined |-> {}, channel |-> 0, seen |-> [i \in Items |-> 0], early |-> FALSE, lost |-> FALSE, left |-> {}]

\* Groups are joined, left and sent to one after the other.
NextGroup(G) == CHOOSE g \in G : TRUE

At_(s, pc) == stream[s].pc = pc
FaultHappens == liveFaults < MaxLiveFaults /\ liveFaults' = liveFaults + 1

-----------------------------------------------------------------------------
(* Changes and what they publish *)

\* _publish_remote_invalidation has one group per resource, in a batch or not.
_publish_remote_invalidation(i) == {<<"remote", i>>}

\* emit on commit: _publish_data_change and _publish_remote_invalidation queue a
\* refresh in an open batch, once per target, or send to their groups.
_publish_data_change(i) ==
    publisher' = IF publisher.bulk
                 THEN [publisher EXCEPT !.targets = @ \cup {<<"refresh", i>>} \cup _publish_remote_invalidation(i)]
                 ELSE [publisher EXCEPT !.sends = {<<"item", i>>, <<"class", i>>} \cup _publish_remote_invalidation(i)]

_handle_data_change(i) ==
    /\ publisher.sends = {} /\ commits < MaxCommits
    /\ commits' = commits + 1
    /\ version' = [version EXCEPT ![i] = @ + 1]
    /\ stream' = [s \in Streams |->
                     IF stream[s].pc \in {"read", "join"} /\ i \in Concerns(s) THEN [stream[s] EXCEPT !.early = TRUE] ELSE stream[s]]
    /\ _publish_data_change(i)
    /\ UNCHANGED <<members, handler, active, liveFaults>>

\* bulk_data_change_notifications: on leaving it the batch takes no more and is flushed.
bulk_data_change_notifications ==
    /\ publisher.sends = {}
    /\ publisher' = [bulk |-> ~publisher.bulk, targets |-> {}, sends |-> publisher.targets]
    /\ UNCHANGED <<version, members, stream, handler, active, commits, liveFaults>>

\* group_send: every channel of the group gets the message unless it is full; a
\* send that fails is logged and the next group is tried.
group_send(g) ==
    /\ publisher.sends # {} /\ g = NextGroup(publisher.sends)
    /\ publisher' = [publisher EXCEPT !.sends = @ \ {g}]
    /\ \/ /\ stream' = [s \in Streams |->
                  IF s \notin members[g] THEN stream[s]
                  ELSE IF stream[s].channel < ChannelCapacity THEN [stream[s] EXCEPT !.channel = @ + 1]
                  ELSE [stream[s] EXCEPT !.lost = TRUE]]
          /\ UNCHANGED liveFaults
       \/ /\ FaultHappens
          /\ stream' = [s \in Streams |-> IF s \in members[g] THEN [stream[s] EXCEPT !.lost = TRUE] ELSE stream[s]]
    /\ UNCHANGED <<version, members, handler, active, commits>>

-----------------------------------------------------------------------------
(* A stream: read, join, wait for messages, leave *)

Sets(s, r) == stream' = [stream EXCEPT ![s] = r]

\* Mutant: the operation id's running stream is left alone.
OpenBeside(s) ==
    /\ handler = s /\ At_(s, "read")
    /\ Sets(s, [stream[s] EXCEPT !.pc = "join"])
    /\ handler' = NoStream /\ active' = s
    /\ UNCHANGED <<version, members, publisher, commits, liveFaults>>

\* _handle_subscribe awaits the resolver: an item stream reads the item and its
\* dependencies, in a thread, before anything is joined; it may fail.
_handle_subscribe(s) ==
    /\ handler = NoStream /\ At_(s, "new")
    /\ \/ Sets(s, [NewStream EXCEPT !.pc = "read", !.seen = version]) /\ handler' = s /\ UNCHANGED liveFaults
       \/ FaultHappens /\ UNCHANGED <<stream, handler>>
    /\ UNCHANGED <<version, members, active, publisher, commits>>

\* The stream running under the operation id is stopped first.
StartStream(s) ==
    /\ handler = s /\ At_(s, "read") /\ active = NoStream
    /\ Sets(s, [stream[s] EXCEPT !.pc = "join"])
    /\ handler' = NoStream /\ active' = s
    /\ UNCHANGED <<version, members, publisher, commits, liveFaults>>

\* Cancelling a task: the listener ends and the groups in joined are left; a
\* group that was just being joined is not among them.
Stop(s) ==
    /\ stream[s].pc \in {"join", "wait"}
    /\ \E g \in {{}} \cup (IF At_(s, "join") THEN {{NextGroup(GroupsOf(s) \ stream[s].joined)}} ELSE {}) :
         /\ Sets(s, [stream[s] EXCEPT !.pc = "leave", !.channel = 0, !.left = @ \cup g])
         /\ members' = [x \in Groups |-> IF x \in g THEN members[x] \cup {s} ELSE members[x]]

\* _stop_subscription: by complete, by a subscribe with the same id, by disconnect.
_stop_subscription(s) ==
    /\ active = s /\ Stop(s)
    /\ UNCHANGED <<version, handler, active, publisher, commits, liveFaults>>

\* _join_subscription_groups, and the consumer of remote_invalidation.
_join_subscription_groups(s) ==
    /\ At_(s, "join")
    /\ LET g == NextGroup(GroupsOf(s) \ stream[s].joined) IN
         \/ /\ members' = [members EXCEPT ![g] = @ \cup {s}]
            /\ LET joined == stream[s].joined \cup {g}
               IN  Sets(s, [stream[s] EXCEPT !.joined = joined, !.pc = IF joined = GroupsOf(s) THEN "wait" ELSE "join"])
            /\ UNCHANGED liveFaults
         \/ FaultHappens /\ Sets(s, [stream[s] EXCEPT !.pc = "leave"]) /\ UNCHANGED members
    /\ UNCHANGED <<version, handler, active, publisher, commits>>

\* channel_listener and event_stream: the item is read again and sent.
event_stream(s) ==
    /\ At_(s, "wait") /\ stream[s].channel > 0
    /\ Sets(s, [stream[s] EXCEPT !.channel = @ - 1, !.seen = version])
    /\ UNCHANGED <<version, members, handler, active, publisher, commits, liveFaults>>

\* Hydration or permission check of a class stream raises: _stream_subscription
\* reports the error and cleans up.
StreamFails(s) ==
    /\ s \in ClassStreams /\ At_(s, "wait") /\ stream[s].channel > 0 /\ FaultHappens
    /\ Sets(s, [stream[s] EXCEPT !.pc = "leave", !.channel = 0])
    /\ UNCHANGED <<version, members, handler, active, publisher, commits>>

\* Mutant: the first group that cannot be left ends the cleanup.
LeaveUntilError(s) ==
    /\ At_(s, "leave")
    /\ IF stream[s].joined = {} THEN Sets(s, [NewStream EXCEPT !.pc = "off", !.left = stream[s].left]) /\ active' = (IF active = s THEN NoStream ELSE active)
                                     /\ UNCHANGED <<members, liveFaults>>
       ELSE LET g == NextGroup(stream[s].joined) IN
              \/ /\ members' = [members EXCEPT ![g] = @ \ {s}]
                 /\ Sets(s, [stream[s] EXCEPT !.joined = @ \ {g}]) /\ UNCHANGED <<active, liveFaults>>
              \/ FaultHappens /\ Sets(s, [stream[s] EXCEPT !.joined = {}, !.left = @ \cup {g}]) /\ UNCHANGED <<members, active>>
    /\ UNCHANGED <<version, handler, publisher, commits>>

\* _cleanup_subscription_resources: every group in joined is left, errors are
\* collected; then the operation completes and active_subscriptions forgets it.
_cleanup_subscription_resources(s) ==
    /\ At_(s, "leave")
    /\ IF stream[s].joined = {} THEN Sets(s, [NewStream EXCEPT !.pc = "off", !.left = stream[s].left]) /\ active' = (IF active = s THEN NoStream ELSE active)
                                     /\ UNCHANGED <<members, liveFaults>>
       ELSE LET g == NextGroup(stream[s].joined) IN
              \/ /\ members' = [members EXCEPT ![g] = @ \ {s}]
                 /\ Sets(s, [stream[s] EXCEPT !.joined = @ \ {g}]) /\ UNCHANGED <<active, liveFaults>>
              \/ FaultHappens /\ Sets(s, [stream[s] EXCEPT !.joined = @ \ {g}, !.left = @ \cup {g}]) /\ UNCHANGED <<members, active>>
    /\ UNCHANGED <<version, handler, publisher, commits>>

\* RemoteInvalidationClient._listen_url: connects, and the consumer at the other
\* end joins the group.  The remote query is cached before or after that.
_listen_url(s) ==
    /\ At_(s, "new")
    /\ Sets(s, [NewStream EXCEPT !.pc = "join", !.seen = version])
    /\ UNCHANGED <<version, members, handler, active, publisher, commits, liveFaults>>

\* The connection breaks: the client reconnects after a delay, what is sent
\* meanwhile is not repeated.
ConnectionLost(s) ==
    /\ FaultHappens /\ Stop(s)
    /\ UNCHANGED <<version, handler, active, publisher, commits>>

-----------------------------------------------------------------------------
LiveInit ==
    /\ version = [i \in Items |-> 0]
    /\ members = [g \in Groups |-> {}]
    /\ stream = [s \in Streams |-> NewStream]
    /\ handler = NoStream /\ active = NoStream
    /\ publisher = [bulk |-> FALSE, targets |-> {}, sends |-> {}]
    /\ commits = 0 /\ liveFaults = 0

LiveNext ==
    \/ \E i \in Items : _handle_data_change(i)
    \/ bulk_data_change_notifications
    \/ \E g \in Groups : group_send(g)
    \/ \E s \in Subscriptions : _handle_subscribe(s) \/ StartStream(s) \/ _stop_subscription(s)
    \/ \E s \in Streams : _join_subscription_groups(s) \/ event_stream(s) \/ _cleanup_subscription_resources(s)
    \/ \E s \in ClassStreams : StreamFails(s)
    \/ \E s \in RemoteStreams : _listen_url(s) \/ ConnectionLost(s)

LiveSpec == LiveInit /\ [][LiveNext]_liveVars

-----------------------------------------------------------------------------
(* Properties *)

\* A stream that has nothing left to receive has shown the latest versions of all
\* it depends on, for single changes and for bulk changes, unless a change fell
\* between the first read and the joining of the groups or a message was dropped.
StreamsCatchUp ==
    (publisher.sends = {} /\ ~publisher.bulk) =>
        \A s \in Streams :
            (At_(s, "wait") /\ stream[s].channel = 0 /\ ~stream[s].early /\ ~stream[s].lost)
                => \A i \in Concerns(s) : stream[s].seen[i] = version[i]

\* A stream that ended, however and wherever it was cancelled, is in no group but
\* those whose leaving failed or whose joining was interrupted.
NothingLeftBehind == \A s \in Streams, g \in Groups : (At_(s, "off") /\ s \in members[g]) => g \in stream[s].left

\* One operation id never has two streams at work.
OneStreamPerOperation == \A s \in Subscriptions : stream[s].pc \in {"join", "wait", "leave"} => active = s

\* LiveUpdates: a stream at rest has seen the last change, a closed one is in
\* no group, and an operation has one stream (api/graphql_subscriptions.py).
LiveSound == StreamsCatchUp /\ NothingLeftBehind /\ OneStreamPerOperation
=============================================================================
