----------------------------- MODULE Streaming -----------------------------
(***************************************************************************)
(* One worker process of the streaming server, streaming/index.js, between *)
(* Redis and its clients.                                                  *)
(*                                                                         *)
(* A client opens a stream; the process adds a listener for the stream's   *)
(* channel, and subscribes to the channel at Redis when the listener is    *)
(* its first.  What Redis publishes is handed to every listener, which     *)
(* sends it on at once or, an update on a public stream, after it asked    *)
(* the database.  For a personal stream a heartbeat keeps a key in Redis   *)
(* that tells Rails that somebody is watching.                             *)
(*                                                                         *)
(* The process is single threaded: an action is one callback.  In between  *)
(* are what callbacks wait for: commands on their way to Redis (pipe),     *)
(* messages on their way back (inbox), queries (asking), events of         *)
(* sockets and timers.                                                     *)
(***************************************************************************)
EXTENDS Naturals, Sequences, FiniteSets

CONSTANTS
  Conns,         \* connections; each is opened at most once
  StreamOf,      \* Conns -> the stream it asks for
  Http,          \* those that use server-sent events, the others WebSockets
  Anonymous,     \* those without an access token
  Statuses,
  Traffic,       \* bound: what may be published
  MaxCrashes     \* bound: how often the process dies and is started again

Streams == {"user", "user:notification", "public", "direct", "list"}

Personal == {"timeline", "timeline:direct", "timeline:list"}
Channels == Personal \cup {"timeline:public"}

Events == {"update", "delete", "notification"}

\* The `subscribed` key lives three intervals of the heartbeat
LIFETIME == 3

ASSUME ConnsAssumption ==
  /\ StreamOf \in [Conns -> Streams]
  /\ Http \subseteq Conns
  /\ Anonymous \subseteq {c \in Conns : StreamOf[c] = "public"}
  /\ MaxCrashes \in Nat

VARIABLES
  phase,       \* what the server has made of a connection
  socket,      \* its socket
  present,     \* clients that are still at the other end
  isAlive,     \* WebSockets that answered the last ping
  subs,        \* channel -> listeners, one per connection
  beating,     \* connections whose heartbeat timer runs
  pipe,        \* commands to Redis, in order
  subscribed,  \* channels Redis forwards to this process
  inbox,       \* messages from Redis, in order
  asking,      \* updates whose filter query is under way
  sent,        \* connection -> what was sent to it
  lifetime,    \* channel -> intervals its `subscribed` key has left
  log,         \* everything published, in order
  crashes

clients == <<phase, socket, present, isAlive>>
redis   == <<pipe, subscribed, inbox, log>>
vars == <<clients, subs, beating, redis, asking, sent, lifetime, crashes>>

-----------------------------------------------------------------------------
ChannelOf(c) ==
  IF StreamOf[c] \in {"user", "user:notification"} THEN "timeline"
  ELSE IF StreamOf[c] = "direct" THEN "timeline:direct"
  ELSE IF StreamOf[c] = "list" THEN "timeline:list"
  ELSE "timeline:public"

NeedsFiltering(c)   == StreamOf[c] \in {"public", "direct"}
NotificationOnly(c) == StreamOf[c] = "user:notification"
HasHeartbeat(c)     == StreamOf[c] \in {"user", "direct", "list"}

\* Streams that start only when a query has been answered: that of the access
\* token over HTTP, that of a list's owner
Deferred(c) == StreamOf[c] = "list" \/ c \in Http \ Anonymous

Command(k, ch) == [cmd |-> k, channel |-> ch]

Message(e, ch, s) == [event |-> e, channel |-> ch, status |-> s]

Commands == [cmd : {"subscribe", "unsubscribe"}, channel : Channels]

Messages == [event : Events, channel : Channels, status : Statuses]

Published == {log[i] : i \in DOMAIN log}

\* Somebody at the other end of a stream with a heartbeat on ch
Watched(ch) ==
  \E c \in Conns : ChannelOf(c) = ch /\ HasHeartbeat(c) /\ socket[c] = "open"

-----------------------------------------------------------------------------
(* Opening and closing streams *)

\* subscribe
Subscribe(c) ==
  /\ subs' = [subs EXCEPT ![ChannelOf(c)] = @ \cup {c}]
  /\ pipe' = IF subs[ChannelOf(c)] = {}
             THEN Append(pipe, Command("subscribe", ChannelOf(c))) ELSE pipe

\* Variant: forgets a channel whose last listener has gone
UnsubscribeForgetting(c) ==
  LET ch == ChannelOf(c) IN
  IF subs[ch] \subseteq {c}
  THEN /\ subs' = [x \in Channels \ {ch} |-> subs[x]]
       /\ pipe' = Append(pipe, Command("unsubscribe", ch))
  ELSE subs' = [subs EXCEPT ![ch] = @ \ {c}] /\ UNCHANGED pipe

\* Variant: unsubscribes whoever is left
UnsubscribeAlways(c) ==
  /\ subs' = [subs EXCEPT ![ChannelOf(c)] = @ \ {c}]
  /\ pipe' = Append(pipe, Command("unsubscribe", ChannelOf(c)))

\* unsubscribe, which may be called a second time
Unsubscribe(c) ==
  /\ subs' = [subs EXCEPT ![ChannelOf(c)] = @ \ {c}]
  /\ pipe' = IF subs[ChannelOf(c)] \subseteq {c}
             THEN Append(pipe, Command("unsubscribe", ChannelOf(c))) ELSE pipe

\* Variant: one heartbeat per channel
StartFirstHeartbeat(c) ==
  IF HasHeartbeat(c)
  THEN /\ beating' = IF subs[ChannelOf(c)] = {} THEN beating \cup {c} ELSE beating
       /\ lifetime' = [lifetime EXCEPT ![ChannelOf(c)] = LIFETIME]
  ELSE UNCHANGED <<beating, lifetime>>

\* subscriptionHeartbeat
StartHeartbeat(c) ==
  IF HasHeartbeat(c)
  THEN /\ beating' = beating \cup {c}
       /\ lifetime' = [lifetime EXCEPT ![ChannelOf(c)] = LIFETIME]
  ELSE UNCHANGED <<beating, lifetime>>

\* Variant: the timer goes on
EndWithTimer(c) == Unsubscribe(c) /\ UNCHANGED beating

\* Variant: a stream without a heartbeat has no close handler at all
EndWithHeartbeat(c) ==
  IF HasHeartbeat(c)
  THEN Unsubscribe(c) /\ beating' = beating \ {c}
  ELSE UNCHANGED <<subs, pipe, beating>>

\* What the handlers of streamWsEnd and streamHttpEnd do
EndStream(c) ==
  /\ Unsubscribe(c)
  /\ beating' = beating \ {c}

StreamFrom(c) ==
  /\ StartHeartbeat(c)
  /\ Subscribe(c)
  /\ phase' = [phase EXCEPT ![c] = "streaming"]

\* A request or WebSocket connection arrives
Connect(c) ==
  /\ phase[c] = "none"
  /\ socket' = [socket EXCEPT ![c] = "open"]
  /\ present' = present \cup {c}
  /\ isAlive' = isAlive \cup {c}
  /\ IF Deferred(c)
     THEN /\ phase' = [phase EXCEPT ![c] = "authorizing"]
          /\ UNCHANGED <<subs, pipe, beating, lifetime>>
     ELSE StreamFrom(c)
  /\ UNCHANGED <<subscribed, inbox, log, asking, sent, crashes>>

\* authorizeListAccess, accountFromToken: the stream starts, whatever has
\* become of the socket
Authorize(c) ==
  /\ phase[c] = "authorizing"
  /\ StreamFrom(c)
  /\ UNCHANGED <<socket, present, isAlive, subscribed, inbox, log, asking, sent,
                 crashes>>

Refuse(c) ==
  /\ phase[c] = "authorizing"
  /\ phase' = [phase EXCEPT ![c] = "ended"]
  /\ socket' = [socket EXCEPT ![c] = IF @ = "open" THEN "closing" ELSE @]
  /\ UNCHANGED <<present, isAlive, subs, beating, redis, asking, sent, lifetime,
                 crashes>>

\* The client hangs up
Leave(c) ==
  /\ socket[c] = "open" /\ c \in present
  /\ present' = present \ {c}
  /\ socket' = [socket EXCEPT ![c] = "closing"]
  /\ UNCHANGED <<phase, isAlive, subs, beating, redis, asking, sent, lifetime,
                 crashes>>

\* The client is gone and its socket does not know
Vanish(c) ==
  /\ socket[c] = "open" /\ c \in present
  /\ present' = present \ {c}
  /\ UNCHANGED <<phase, socket, isAlive, subs, beating, redis, asking, sent,
                 lifetime, crashes>>

\* The 'error' event of a WebSocket; 'close' is still to come
SocketError(c) ==
  /\ socket[c] = "open" /\ c \notin Http
  /\ phase[c] = "streaming"
  /\ EndStream(c)
  /\ socket' = [socket EXCEPT ![c] = "closing"]
  /\ UNCHANGED <<phase, present, isAlive, subscribed, inbox, log, asking, sent,
                 lifetime, crashes>>

\* The 'close' event: the handlers run that are attached by now
SocketClose(c) ==
  /\ socket[c] = "closing"
  /\ socket' = [socket EXCEPT ![c] = "closed"]
  /\ IF phase[c] = "streaming"
     THEN /\ EndStream(c)
          /\ phase' = [phase EXCEPT ![c] = "ended"]
     ELSE UNCHANGED <<phase, subs, pipe, beating>>
  /\ UNCHANGED <<present, isAlive, subscribed, inbox, log, asking, sent, lifetime,
                 crashes>>

WebSockets == {c \in Conns \ Http : socket[c] = "open"}

\* Variant: who answered once is never asked again
SweepTrusting ==
  /\ socket' = [c \in Conns |->
       IF c \in WebSockets \ isAlive THEN "closing" ELSE socket[c]]
  /\ UNCHANGED <<phase, present, isAlive, subs, beating, redis, asking, sent,
                 lifetime, crashes>>

\* The ping timer goes through all WebSockets
Sweep ==
  /\ socket' = [c \in Conns |->
       IF c \in WebSockets \ isAlive THEN "closing" ELSE socket[c]]
  /\ isAlive' = isAlive \ WebSockets
  /\ UNCHANGED <<phase, present, subs, beating, redis, asking, sent, lifetime,
                 crashes>>

Pong(c) ==
  /\ c \in WebSockets \cap present
  /\ isAlive' = isAlive \cup {c}
  /\ UNCHANGED <<phase, socket, present, subs, beating, redis, asking, sent,
                 lifetime, crashes>>

\* Over HTTP it is the write of a thump that fails for a client that is gone
Thump(c) ==
  /\ c \in Http \ present /\ socket[c] = "open"
  /\ socket' = [socket EXCEPT ![c] = "closing"]
  /\ UNCHANGED <<phase, present, isAlive, subs, beating, redis, asking, sent,
                 lifetime, crashes>>

\* An interval of the heartbeat: every timer that runs has fired
Beat ==
  /\ lifetime' = [ch \in Channels |->
       IF \E c \in beating : ChannelOf(c) = ch THEN LIFETIME
       ELSE IF lifetime[ch] = 0 THEN 0 ELSE lifetime[ch] - 1]
  /\ UNCHANGED <<clients, subs, beating, redis, asking, sent, crashes>>

-----------------------------------------------------------------------------
(* Messages *)

\* Rails publishes: an update goes to a personal channel only while its
\* `subscribed` key exists, and not once the deletion is published
Publish(m) ==
  /\ m \in Traffic
  /\ m \notin Published
  /\ m.event = "update" =>
       /\ m.channel \in Personal => lifetime[m.channel] > 0
       /\ Message("delete", m.channel, m.status) \notin Published
  /\ log' = Append(log, m)
  /\ inbox' = IF m.channel \in subscribed THEN Append(inbox, m) ELSE inbox
  /\ UNCHANGED <<clients, subs, beating, pipe, subscribed, asking, sent,
                 lifetime, crashes>>

\* Redis carries out a command
Execute ==
  /\ pipe # <<>>
  /\ pipe' = Tail(pipe)
  /\ subscribed' = IF Head(pipe).cmd = "subscribe"
                   THEN subscribed \cup {Head(pipe).channel}
                   ELSE subscribed \ {Head(pipe).channel}
  /\ UNCHANGED <<clients, subs, beating, inbox, log, asking, sent, lifetime,
                 crashes>>

\* Written to an open socket only
Transmit(C, m) ==
  sent' = [c \in Conns |-> IF c \in C /\ socket[c] = "open"
                          THEN Append(sent[c], m) ELSE sent[c]]

\* Is the listener one for messages of this kind?
Wants(c, m) == NotificationOnly(c) => m.event = "notification"

\* Variant: updates are looked up on every stream
MustAskAlways(c, m) == m.event = "update"

\* Does the listener ask the database first?
MustAsk(c, m) == NeedsFiltering(c) /\ m.event = "update" /\ c \notin Anonymous

\* The 'message' event: every listener is called; one that has to ask may drop
\* the status at once for its language
Receive ==
  /\ inbox # <<>>
  /\ LET m == Head(inbox)
         callbacks == {c \in subs[m.channel] : Wants(c, m)}
         askers == {c \in callbacks : MustAsk(c, m)}
     IN  /\ Transmit(callbacks \ askers, m)
         /\ \E others \in SUBSET askers :
              asking' = asking \cup {[conn |-> c, message |-> m] : c \in others}
  /\ inbox' = Tail(inbox)
  /\ UNCHANGED <<clients, subs, beating, pipe, subscribed, log, lifetime, crashes>>

\* The filter's query is answered: shown, or hidden by a block or a mute, or
\* dropped because the query failed
Answer(q) ==
  /\ q \in asking
  /\ asking' = asking \ {q}
  /\ Transmit({q.conn}, q.message) \/ UNCHANGED sent
  /\ UNCHANGED <<clients, subs, beating, redis, lifetime, crashes>>

\* The process exits, on an uncaught exception say, and another is started:
\* the sockets and all it kept in memory are gone, the key in Redis is not
Crash ==
  /\ crashes < MaxCrashes
  /\ crashes' = crashes + 1
  /\ phase' = [c \in Conns |-> IF phase[c] = "none" THEN "none" ELSE "ended"]
  /\ socket' = [c \in Conns |-> IF socket[c] = "none" THEN "none" ELSE "closed"]
  /\ subs' = [ch \in Channels |-> {}]
  /\ beating' = {} /\ asking' = {}
  /\ pipe' = <<>> /\ subscribed' = {} /\ inbox' = <<>>
  /\ UNCHANGED <<present, isAlive, log, sent, lifetime>>

-----------------------------------------------------------------------------
Init ==
  /\ phase = [c \in Conns |-> "none"] /\ socket = [c \in Conns |-> "none"]
  /\ present = {} /\ isAlive = {}
  /\ subs = [ch \in Channels |-> {}]
  /\ beating = {} /\ asking = {}
  /\ pipe = <<>> /\ subscribed = {} /\ inbox = <<>> /\ log = <<>>
  /\ sent = [c \in Conns |-> <<>>]
  /\ lifetime = [ch \in Channels |-> 0]
  /\ crashes = 0

Server(c) == Authorize(c) \/ Refuse(c) \/ SocketClose(c) \/ Thump(c)

Client(c) == Connect(c) \/ Leave(c) \/ Vanish(c) \/ SocketError(c) \/ Pong(c)

Next ==
  \/ \E c \in Conns : Server(c) \/ Client(c)
  \/ \E m \in Messages : Publish(m)
  \/ \E q \in asking : Answer(q)
  \/ Execute \/ Receive \/ Sweep \/ Beat \/ Crash

Spec == Init /\ [][Next]_vars

\* Timers fire, sockets that are closing close, Redis and the process go
\* through what is queued; queries need not be answered
FairSpec ==
  /\ Spec
  /\ WF_vars(Sweep) /\ WF_vars(Beat) /\ WF_vars(Execute) /\ WF_vars(Receive)
  /\ \A c \in Conns : WF_vars(SocketClose(c)) /\ WF_vars(Thump(c))

-----------------------------------------------------------------------------
(* Properties *)

Phases  == {"none", "authorizing", "streaming", "ended"}
Sockets == {"none", "open", "closing", "closed"}

TypeOK ==
  /\ phase \in [Conns -> Phases] /\ socket \in [Conns -> Sockets]
  /\ present \subseteq Conns /\ isAlive \subseteq Conns
  /\ subs \in [Channels -> SUBSET Conns]
  /\ beating \subseteq Conns
  /\ pipe \in Seq(Commands)
  /\ subscribed \subseteq Channels
  /\ inbox \in Seq(Messages) /\ log \in Seq(Messages)
  /\ asking \subseteq [conn : Conns, message : Messages]
  /\ sent \in [Conns -> Seq(Messages)]
  /\ lifetime \in [Channels -> 0..LIFETIME]
  /\ crashes \in Nat

\* What Redis will forward when it has carried out what is in the pipe
Settled(ch) ==
  LET about == {i \in DOMAIN pipe : pipe[i].channel = ch}
  IN  IF about = {} THEN ch \in subscribed
      ELSE \E i \in about : /\ \A j \in about : j <= i
                            /\ pipe[i].cmd = "subscribe"

\* However streams come, fail and go, and commands lag behind: a channel with
\* listeners ends up subscribed to, one without does not (subscribe and
\* unsubscribe, the second possibly twice for one listener).
SubscriptionFollows ==
  \A ch \in Channels : Settled(ch) <=> subs[ch] # {}

\* "Setup stream end for WebSockets": a listener or a heartbeat belongs to a
\* socket whose end is still to come, so none is left behind.
NothingLeftBehind ==
  \A c \in Conns :
    c \in beating \/ (\E ch \in Channels : c \in subs[ch]) =>
      socket[c] \in {"open", "closing"}

\* A stream whose listener does not ask, personal or without a token, shows
\* events in the order they were published and none twice, be there other
\* listeners or restarts.
InOrder ==
  \A c \in Conns : ~NeedsFiltering(c) \/ c \in Anonymous =>
    \A j \in DOMAIN sent[c] : \A i \in 1..(j - 1) :
      \E b \in DOMAIN log : \E a \in 1..(b - 1) :
        log[a] = sent[c][i] /\ log[b] = sent[c][j]

\* "Only messages that may require filtering are statuses, since
\* notifications are already personalized and deletes do not matter": a
\* client that was told of a deletion is not shown the status afterwards.
DeletedStaysDeleted ==
  \A c \in Conns : \A j \in DOMAIN sent[c] : \A i \in 1..(j - 1) :
    ~ /\ sent[c][i].event = "delete" /\ sent[c][j].event = "update"
      /\ sent[c][i].status = sent[c][j].status

\* While a personal stream is open Rails is told so: the key neither expires
\* nor goes with another stream of the same channel.
ToldWhileWatched ==
  \A c \in Conns :
    phase[c] = "streaming" /\ socket[c] = "open" /\ HasHeartbeat(c) =>
      lifetime[ChannelOf(c)] > 0

\* When nobody watches, Rails is told so in the end and stops pushing.
ToldWhenUnwatched ==
  \A ch \in Personal :
    (lifetime[ch] > 0 /\ ~Watched(ch)) ~> (lifetime[ch] = 0 \/ Watched(ch))

\* A client that vanished without a word is found out and its listener goes.
VanishedReaped ==
  \A c \in Conns :
    (c \in subs[ChannelOf(c)] /\ c \notin present) ~> c \notin subs[ChannelOf(c)]
=============================================================================
