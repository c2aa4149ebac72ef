-------------------------- MODULE StreamingProofs --------------------------
(***************************************************************************)
(* Theorems about the streaming server, for any number of connections,     *)
(* streams, messages and restarts.                                         *)
(***************************************************************************)
EXTENDS Streaming, SequenceTheorems, TLAPS

LEMMA ChannelType == \A c \in Conns : ChannelOf(c) \in Channels
BY ConnsAssumption DEF ChannelOf, Channels, Personal, Streams

LEMMA CommandType ==
  \A ch \in Channels :
    /\ Command("subscribe", ch) \in Commands
    /\ Command("unsubscribe", ch) \in Commands
BY DEF Command, Commands

-----------------------------------------------------------------------------
(* Type correctness *)

LEMMA SubscribeType ==
  ASSUME TypeOK, NEW c \in Conns, Subscribe(c)
  PROVE  subs' \in [Channels -> SUBSET Conns] /\ pipe' \in Seq(Commands)
<1>1. Append(pipe, Command("subscribe", ChannelOf(c))) \in Seq(Commands)
  BY ChannelType, CommandType, AppendProperties DEF TypeOK
<1> QED BY <1>1, ChannelType DEF TypeOK, Subscribe

LEMMA UnsubscribeType ==
  ASSUME TypeOK, NEW c \in Conns, Unsubscribe(c)
  PROVE  subs' \in [Channels -> SUBSET Conns] /\ pipe' \in Seq(Commands)
<1>1. Append(pipe, Command("unsubscribe", ChannelOf(c))) \in Seq(Commands)
  BY ChannelType, CommandType, AppendProperties DEF TypeOK
<1> QED BY <1>1, ChannelType DEF TypeOK, Unsubscribe

LEMMA StreamFromType ==
  ASSUME TypeOK, NEW c \in Conns, StreamFrom(c)
  PROVE  /\ subs' \in [Channels -> SUBSET Conns] /\ pipe' \in Seq(Commands)
         /\ beating' \subseteq Conns /\ lifetime' \in [Channels -> 0..LIFETIME]
         /\ phase' \in [Conns -> Phases]
<1>1. beating' \subseteq Conns /\ lifetime' \in [Channels -> 0..LIFETIME]
  <2>1. CASE HasHeartbeat(c)
    <3>1. /\ beating' = beating \cup {c}
          /\ lifetime' = [lifetime EXCEPT ![ChannelOf(c)] = LIFETIME]
      BY <2>1 DEF StreamFrom, StartHeartbeat
    <3>2. LIFETIME \in 0..LIFETIME
      BY DEF LIFETIME
    <3> QED BY <3>1, <3>2 DEF TypeOK
  <2>2. CASE ~HasHeartbeat(c)
    BY <2>2 DEF TypeOK, StreamFrom, StartHeartbeat
  <2> QED BY <2>1, <2>2
<1>2. phase' \in [Conns -> Phases]
  BY DEF TypeOK, StreamFrom, Phases
<1> QED BY <1>1, <1>2, SubscribeType DEF StreamFrom

LEMMA TransmitType ==
  ASSUME TypeOK, NEW C, NEW m \in Messages, Transmit(C, m)
  PROVE  sent' \in [Conns -> Seq(Messages)]
BY DEF TypeOK, Transmit

LEMMA ClientType ==
  ASSUME TypeOK, NEW c \in Conns, Client(c)
  PROVE  TypeOK'
<1> USE DEF redis
<1>1. CASE Connect(c)
  <2>1. socket' \in [Conns -> Sockets]
    BY <1>1 DEF TypeOK, Connect, Sockets
  <2>2. phase' \in [Conns -> Phases]
    BY <1>1, StreamFromType DEF TypeOK, Connect, Phases
  <2>3. /\ subs' \in [Channels -> SUBSET Conns] /\ pipe' \in Seq(Commands)
        /\ beating' \subseteq Conns /\ lifetime' \in [Channels -> 0..LIFETIME]
    BY <1>1, StreamFromType DEF TypeOK, Connect
  <2> QED BY <1>1, <2>1, <2>2, <2>3 DEF TypeOK, Connect
<1>2. CASE Leave(c)
  BY <1>2 DEF TypeOK, Leave, Sockets
<1>3. CASE Vanish(c)
  BY <1>3 DEF TypeOK, Vanish
<1>4. CASE SocketError(c)
  BY <1>4, UnsubscribeType DEF TypeOK, SocketError, EndStream, Sockets
<1>5. CASE Pong(c)
  BY <1>5 DEF TypeOK, Pong
<1> QED BY <1>1, <1>2, <1>3, <1>4, <1>5 DEF Client

LEMMA ServerType ==
  ASSUME TypeOK, NEW c \in Conns, Server(c)
  PROVE  TypeOK'
<1> USE DEF redis
<1>1. CASE Authorize(c)
  BY <1>1, StreamFromType DEF TypeOK, Authorize
<1>2. CASE Refuse(c)
  BY <1>2 DEF TypeOK, Refuse, Phases, Sockets
<1>3. CASE SocketClose(c)
  <2>1. socket' \in [Conns -> Sockets] /\ phase' \in [Conns -> Phases]
    BY <1>3 DEF TypeOK, SocketClose, Sockets, Phases
  <2>2. subs' \in [Channels -> SUBSET Conns] /\ pipe' \in Seq(Commands) /\ beating' \subseteq Conns
    BY <1>3, UnsubscribeType DEF TypeOK, SocketClose, EndStream
  <2> QED BY <1>3, <2>1, <2>2 DEF TypeOK, SocketClose
<1>4. CASE Thump(c)
  BY <1>4 DEF TypeOK, Thump, Sockets
<1> QED BY <1>1, <1>2, <1>3, <1>4 DEF Server

LEMMA TypeStep ==
  ASSUME TypeOK, [Next]_vars
  PROVE  TypeOK'
<1> USE DEF clients, redis
<1>1. ASSUME NEW m \in Messages, Publish(m) PROVE TypeOK'
  BY <1>1 DEF TypeOK, Publish
<1>2. ASSUME NEW q \in asking, Answer(q) PROVE TypeOK'
  <2>1. q.message \in Messages
    BY DEF TypeOK
  <2>2. sent' \in [Conns -> Seq(Messages)]
    BY <1>2, <2>1, TransmitType DEF TypeOK, Answer
  <2> QED BY <1>2, <2>2 DEF TypeOK, Answer
<1>3. CASE Execute
  <2>1. Head(pipe) \in Commands /\ Tail(pipe) \in Seq(Commands)
    BY <1>3, HeadTailProperties DEF TypeOK, Execute
  <2> QED BY <1>3, <2>1 DEF TypeOK, Execute, Commands
<1>4. CASE Receive
  <2>1. Head(inbox) \in Messages /\ Tail(inbox) \in Seq(Messages)
    BY <1>4 DEF TypeOK, Receive
  <2>2. sent' \in [Conns -> Seq(Messages)]
    BY <1>4, <2>1, TransmitType DEF Receive
  <2>3. subs[Head(inbox).channel] \subseteq Conns
    BY <2>1 DEF TypeOK, Messages
  <2>4. asking' \subseteq [conn : Conns, message : Messages]
    BY <1>4, <2>1, <2>3 DEF TypeOK, Receive
  <2> QED BY <1>4, <2>1, <2>2, <2>4 DEF TypeOK, Receive
<1>5. CASE Sweep
  BY <1>5 DEF TypeOK, Sweep, Sockets
<1>6. CASE Beat
  BY <1>6 DEF TypeOK, Beat, LIFETIME
<1>7. CASE Crash
  BY <1>7 DEF TypeOK, Crash, Phases, Sockets
<1>8. CASE UNCHANGED vars
  BY <1>8 DEF TypeOK, vars
<1> QED
  BY <1>1, <1>2, <1>3, <1>4, <1>5, <1>6, <1>7, <1>8, ClientType, ServerType DEF Next

\* Every reachable state of the process has the declared types.
THEOREM TypeCorrect == Spec => []TypeOK
<1>1. Init => TypeOK
  BY DEF Init, TypeOK, Phases, Sockets, LIFETIME
<1>2. TypeOK /\ [Next]_vars => TypeOK'
  BY TypeStep
<1> QED BY <1>1, <1>2, PTL DEF Spec

-----------------------------------------------------------------------------
(* The subscriptions at Redis follow the listeners.  Settled looks at the  *)
(* last command about a channel, so that appending one decides it and      *)
(* carrying one out changes nothing.                                       *)

LEMMA AppendSettled ==
  ASSUME TypeOK, NEW ch \in Channels, NEW k \in {"subscribe", "unsubscribe"},
         pipe' = Append(pipe, Command(k, ch)), subscribed' = subscribed
  PROVE  /\ Settled(ch)' <=> k = "subscribe"
         /\ \A x \in Channels \ {ch} : Settled(x)' <=> Settled(x)
<1> DEFINE n == Len(pipe) + 1
<1>1. /\ pipe \in Seq(Commands) /\ Command(k, ch) \in Commands
      /\ Len(pipe) \in Nat
  BY CommandType, LenProperties DEF TypeOK
<1>2. /\ pipe' \in Seq(Commands) /\ Len(pipe') = n
      /\ \A i \in 1..Len(pipe) : pipe'[i] = pipe[i]
      /\ pipe'[n] = Command(k, ch)
  BY <1>1, AppendProperties
<1>3. /\ DOMAIN pipe = 1..Len(pipe) /\ DOMAIN pipe' = 1..n
      /\ n \in Nat
  BY <1>1, <1>2, LenProperties
<1>4. pipe'[n].channel = ch /\ pipe'[n].cmd = k
  BY <1>2 DEF Command
<1> HIDE DEF n
<1>5. Settled(ch)' <=> k = "subscribe"
  BY <1>3, <1>4 DEF Settled
<1>6. ASSUME NEW x \in Channels \ {ch}
      PROVE  Settled(x)' <=> Settled(x)
  <2>1. \A i : i \in DOMAIN pipe' /\ pipe'[i].channel = x <=>
               i \in DOMAIN pipe /\ pipe[i].channel = x
    BY <1>1, <1>2, <1>3, <1>4, <1>6 DEF n
  <2>2. \A i \in DOMAIN pipe : pipe'[i] = pipe[i]
    BY <1>2, <1>3
  <2> QED BY <2>1, <2>2 DEF Settled
<1> QED BY <1>5, <1>6

LEMMA ExecuteSettled ==
  ASSUME TypeOK, Execute, NEW ch \in Channels
  PROVE  Settled(ch)' <=> Settled(ch)
<1>1. /\ pipe \in Seq(Commands) /\ pipe # <<>> /\ pipe' = Tail(pipe)
      /\ subscribed' = IF Head(pipe).cmd = "subscribe"
                       THEN subscribed \cup {Head(pipe).channel}
                       ELSE subscribed \ {Head(pipe).channel}
  BY DEF TypeOK, Execute
<1>2. /\ pipe' \in Seq(Commands) /\ Len(pipe') = Len(pipe) - 1
      /\ \A i \in 1..Len(pipe') : pipe'[i] = pipe[i + 1]
  BY <1>1, HeadTailProperties
<1>3. /\ Len(pipe) \in Nat /\ Len(pipe') \in Nat
      /\ DOMAIN pipe = 1..Len(pipe) /\ DOMAIN pipe' = 1..Len(pipe')
  BY <1>1, <1>2, LenProperties
<1>4. Head(pipe) = pipe[1] /\ 1 \in DOMAIN pipe
  BY <1>1, <1>2, <1>3, EmptySeq
\* Indices move by one
<1>5. ASSUME NEW i \in Nat
      PROVE  i \in DOMAIN pipe' <=> i + 1 \in DOMAIN pipe /\ i # 0
  BY <1>2, <1>3
<1>6. \A i \in DOMAIN pipe' : pipe'[i] = pipe[i + 1]
  BY <1>2, <1>3
<1>7. CASE \E i \in DOMAIN pipe' : pipe'[i].channel = ch
  <2>1. PICK k \in DOMAIN pipe' : pipe'[k].channel = ch
    BY <1>7
  <2>2. k \in Nat /\ k + 1 \in DOMAIN pipe /\ pipe[k + 1].channel = ch
    BY <1>3, <1>5, <1>6, <2>1
  <2>3. ASSUME NEW i \in DOMAIN pipe', pipe'[i].channel = ch,
               \A j \in DOMAIN pipe' : pipe'[j].channel = ch => j <= i,
               pipe'[i].cmd = "subscribe"
        PROVE  /\ i + 1 \in DOMAIN pipe /\ pipe[i + 1].channel = ch
               /\ \A j \in DOMAIN pipe : pipe[j].channel = ch => j <= i + 1
               /\ pipe[i + 1].cmd = "subscribe"
    <3>1. i \in Nat /\ i + 1 \in DOMAIN pipe /\ pipe[i + 1] = pipe'[i]
      BY <1>3, <1>5, <1>6
    <3>2. ASSUME NEW j \in DOMAIN pipe, pipe[j].channel = ch, j # 1
          PROVE  j <= i + 1
      <4>1. j - 1 \in DOMAIN pipe' /\ pipe'[j - 1] = pipe[j]
        BY <1>2, <1>3, <3>2
      <4> QED BY <1>3, <2>3, <3>2, <4>1
    <3> QED BY <1>3, <2>3, <3>1, <3>2
  <2>4. ASSUME NEW i \in DOMAIN pipe, pipe[i].channel = ch,
               \A j \in DOMAIN pipe : pipe[j].channel = ch => j <= i,
               pipe[i].cmd = "subscribe"
        PROVE  /\ i - 1 \in DOMAIN pipe' /\ pipe'[i - 1].channel = ch
               /\ \A j \in DOMAIN pipe' : pipe'[j].channel = ch => j <= i - 1
               /\ pipe'[i - 1].cmd = "subscribe"
    <3>1. i \in Nat /\ k + 1 <= i
      BY <1>3, <2>2, <2>4
    <3>2. i - 1 \in DOMAIN pipe' /\ pipe'[i - 1] = pipe[i]
      BY <1>2, <1>3, <2>1, <3>1
    <3>3. ASSUME NEW j \in DOMAIN pipe', pipe'[j].channel = ch
          PROVE  j <= i - 1
      <4>1. j \in Nat /\ j + 1 \in DOMAIN pipe /\ pipe[j + 1] = pipe'[j]
        BY <1>3, <1>5, <1>6
      <4> QED BY <2>4, <3>1, <3>3, <4>1
    <3> QED BY <2>4, <3>2, <3>3
  <2>5. /\ {i \in DOMAIN pipe : pipe[i].channel = ch} # {}
        /\ {i \in DOMAIN pipe' : pipe'[i].channel = ch} # {}
    BY <2>1, <2>2
  <2> QED BY <2>3, <2>4, <2>5 DEF Settled
<1>8. CASE ~\E i \in DOMAIN pipe' : pipe'[i].channel = ch
  <2>1. \A i \in DOMAIN pipe : pipe[i].channel = ch => i = 1
    <3> SUFFICES ASSUME NEW i \in DOMAIN pipe, i # 1 PROVE pipe[i].channel # ch
      OBVIOUS
    <3>1. i - 1 \in DOMAIN pipe' /\ pipe'[i - 1] = pipe[i]
      BY <1>2, <1>3
    <3> QED BY <1>8, <3>1
  <2>2. Settled(ch)' <=> ch \in subscribed'
    BY <1>8 DEF Settled
  <2>3. CASE pipe[1].channel = ch
    <3>1. Settled(ch) <=> pipe[1].cmd = "subscribe"
      BY <1>3, <1>4, <2>1, <2>3 DEF Settled
    <3> QED BY <1>1, <1>4, <2>2, <2>3, <3>1
  <2>4. CASE pipe[1].channel # ch
    <3>1. Settled(ch) <=> ch \in subscribed
      BY <2>1, <2>4 DEF Settled
    <3> QED BY <1>1, <1>4, <2>2, <2>4, <3>1
  <2> QED BY <2>3, <2>4
<1> QED BY <1>7, <1>8

LEMMA SubscribeFollows ==
  ASSUME TypeOK, SubscriptionFollows, NEW c \in Conns, subscribed' = subscribed,
         Subscribe(c) \/ Unsubscribe(c)
  PROVE  SubscriptionFollows'
<1> DEFINE ch == ChannelOf(c)
<1>1. ch \in Channels
  BY ChannelType
<1> HIDE DEF ch
<1>2. subs \in [Channels -> SUBSET Conns]
  BY DEF TypeOK
<1>3. CASE Subscribe(c)
  <2>1. subs'[ch] # {} /\ \A x \in Channels \ {ch} : subs'[x] = subs[x]
    BY <1>1, <1>2, <1>3 DEF Subscribe, ch
  <2>2. CASE subs[ch] = {}
    <3>1. pipe' = Append(pipe, Command("subscribe", ch))
      BY <1>3, <2>2 DEF Subscribe, ch
    <3> QED BY <1>1, <2>1, <3>1, AppendSettled DEF SubscriptionFollows
  <2>3. CASE subs[ch] # {}
    <3>1. pipe' = pipe
      BY <1>3, <2>3 DEF Subscribe, ch
    <3> QED BY <1>1, <2>1, <2>3, <3>1 DEF SubscriptionFollows, Settled
  <2> QED BY <2>2, <2>3
<1>4. CASE Unsubscribe(c)
  <2>1. /\ subs'[ch] = subs[ch] \ {c}
        /\ \A x \in Channels \ {ch} : subs'[x] = subs[x]
    BY <1>1, <1>2, <1>4 DEF Unsubscribe, ch
  <2>2. CASE subs[ch] \subseteq {c}
    <3>1. pipe' = Append(pipe, Command("unsubscribe", ch))
      BY <1>4, <2>2 DEF Unsubscribe, ch
    <3>2. subs'[ch] = {}
      BY <2>1, <2>2
    <3> QED BY <1>1, <2>1, <3>1, <3>2, AppendSettled DEF SubscriptionFollows
  <2>3. CASE ~(subs[ch] \subseteq {c})
    <3>1. pipe' = pipe
      BY <1>4, <2>3 DEF Unsubscribe, ch
    <3>2. subs[ch] # {} /\ subs'[ch] # {}
      BY <2>1, <2>3
    <3> QED BY <1>1, <2>1, <3>1, <3>2 DEF SubscriptionFollows, Settled
  <2> QED BY <2>2, <2>3
<1> QED BY <1>3, <1>4

LEMMA FollowsStep ==
  ASSUME TypeOK, SubscriptionFollows, [Next]_vars
  PROVE  SubscriptionFollows'
<1>1. ASSUME NEW c \in Conns, Connect(c) \/ Authorize(c) PROVE SubscriptionFollows'
  <2>1. subscribed' = subscribed
    BY <1>1 DEF Connect, Authorize
  <2>2. Subscribe(c) \/ UNCHANGED <<subs, pipe>>
    BY <1>1 DEF Connect, Authorize, StreamFrom
  <2> QED BY <2>1, <2>2, SubscribeFollows DEF SubscriptionFollows, Settled
<1>2. ASSUME NEW c \in Conns, SocketError(c) \/ SocketClose(c)
      PROVE  SubscriptionFollows'
  <2>1. subscribed' = subscribed
    BY <1>2 DEF SocketError, SocketClose
  <2>2. Unsubscribe(c) \/ UNCHANGED <<subs, pipe>>
    BY <1>2 DEF SocketError, SocketClose, EndStream
  <2> QED BY <2>1, <2>2, SubscribeFollows DEF SubscriptionFollows, Settled
<1>3. CASE Execute
  <2>1. subs' = subs
    BY <1>3 DEF Execute
  <2> QED BY <1>3, <2>1, ExecuteSettled DEF SubscriptionFollows
<1>4. CASE Crash
  <2>1. pipe' = <<>> /\ subscribed' = {} /\ subs' = [ch \in Channels |-> {}]
    BY <1>4 DEF Crash
  <2> QED BY <2>1 DEF SubscriptionFollows, Settled
<1>5. ASSUME \/ \E c \in Conns :
                   \/ Refuse(c) \/ Thump(c) \/ Leave(c) \/ Vanish(c) \/ Pong(c)
             \/ \E m \in Messages : Publish(m)
             \/ \E q \in asking : Answer(q)
             \/ Receive \/ Sweep \/ Beat \/ UNCHANGED vars
      PROVE  SubscriptionFollows'
  <2>1. UNCHANGED <<pipe, subscribed, subs>>
    BY <1>5 DEF Refuse, Thump, Leave, Vanish, Pong, Publish, Answer, Receive, Sweep,
                Beat, vars, redis
  <2> QED BY <2>1 DEF SubscriptionFollows, Settled
<1> QED BY <1>1, <1>2, <1>3, <1>4, <1>5 DEF Next, Client, Server

\* Whatever becomes of the streams, Redis is or will be asked to forward just
\* the channels that have listeners.
THEOREM Followed == Spec => []SubscriptionFollows
<1>1. Init => SubscriptionFollows
  BY DEF Init, SubscriptionFollows, Settled
<1>2. TypeOK /\ SubscriptionFollows /\ [Next]_vars => SubscriptionFollows'
  BY FollowsStep
<1> QED BY <1>1, <1>2, TypeCorrect, PTL DEF Spec

-----------------------------------------------------------------------------
(* Heartbeats *)

Beating ==
  \A c \in Conns :
    phase[c] = "streaming" /\ socket[c] = "open" /\ HasHeartbeat(c) =>
      c \in beating /\ lifetime[ChannelOf(c)] > 0

LEMMA BeatingStart ==
  ASSUME TypeOK, Beating, NEW c \in Conns, StreamFrom(c),
         \A d \in Conns \ {c} : socket'[d] = socket[d]
  PROVE  Beating'
<1>1. \A d \in Conns \ {c} : phase'[d] = phase[d]
  BY DEF TypeOK, StreamFrom
<1>2. /\ beating \subseteq beating'
      /\ \A d \in Conns : lifetime[ChannelOf(d)] > 0 => lifetime'[ChannelOf(d)] > 0
      /\ HasHeartbeat(c) => c \in beating' /\ lifetime'[ChannelOf(c)] > 0
  <2>1. CASE HasHeartbeat(c)
    <3>1. /\ beating' = beating \cup {c}
          /\ lifetime' = [lifetime EXCEPT ![ChannelOf(c)] = LIFETIME]
      BY <2>1 DEF StreamFrom, StartHeartbeat
    <3> QED BY <3>1, ChannelType DEF TypeOK, LIFETIME
  <2>2. CASE ~HasHeartbeat(c)
    BY <2>2 DEF StreamFrom, StartHeartbeat
  <2> QED BY <2>1, <2>2
<1> QED BY <1>1, <1>2 DEF Beating

LEMMA BeatingStep ==
  ASSUME TypeOK, Beating, [Next]_vars
  PROVE  Beating'
<1>1. ASSUME NEW c \in Conns, Connect(c) PROVE Beating'
  <2>1. \A d \in Conns \ {c} : socket'[d] = socket[d]
    BY <1>1 DEF TypeOK, Connect
  <2>2. CASE Deferred(c)
    <3>1. /\ phase' = [phase EXCEPT ![c] = "authorizing"]
          /\ UNCHANGED <<beating, lifetime>>
      BY <1>1, <2>2 DEF Connect
    <3> QED BY <2>1, <3>1 DEF TypeOK, Beating
  <2>3. CASE ~Deferred(c)
    BY <1>1, <2>1, <2>3, BeatingStart DEF Connect
  <2> QED BY <2>2, <2>3
<1>2. ASSUME NEW c \in Conns, Authorize(c) PROVE Beating'
  BY <1>2, BeatingStart DEF Authorize
\* What ends a stream, or the process, leaves its socket not open
<1>3. ASSUME NEW c \in Conns,
             Refuse(c) \/ SocketClose(c) \/ Thump(c) \/ Leave(c) \/ SocketError(c)
      PROVE  Beating'
  <2>1. /\ socket'[c] # "open"
        /\ \A d \in Conns \ {c} : socket'[d] = socket[d] /\ phase'[d] = phase[d]
        /\ beating \ {c} \subseteq beating'
        /\ lifetime' = lifetime
    BY <1>3
       DEF TypeOK, Refuse, SocketClose, Thump, Leave, SocketError, EndStream, redis
  <2> QED BY <2>1 DEF Beating
<1>4. CASE Beat
  <2>1. \A c \in beating : lifetime'[ChannelOf(c)] = LIFETIME
    BY <1>4, ChannelType DEF TypeOK, Beat
  <2>2. UNCHANGED <<phase, socket, beating>>
    BY <1>4 DEF Beat, clients
  <2> QED BY <2>1, <2>2 DEF Beating, LIFETIME
<1>5. CASE Crash
  BY <1>5 DEF Crash, Beating
<1>6. CASE Sweep
  <2>1. \A c \in Conns : socket'[c] = "open" => socket[c] = "open"
    BY <1>6 DEF Sweep
  <2> QED BY <1>6, <2>1 DEF Sweep, Beating
<1>7. ASSUME \/ \E c \in Conns : Vanish(c) \/ Pong(c)
             \/ \E m \in Messages : Publish(m)
             \/ \E q \in asking : Answer(q)
             \/ Execute \/ Receive \/ UNCHANGED vars
      PROVE  Beating'
  <2>1. UNCHANGED <<phase, socket, beating, lifetime>>
    BY <1>7 DEF Vanish, Pong, Publish, Answer, Execute, Receive, clients, vars
  <2> QED BY <2>1 DEF Beating
<1> QED BY <1>1, <1>2, <1>3, <1>4, <1>5, <1>6, <1>7 DEF Next, Client, Server

\* As long as a personal stream is open, its heartbeat runs and Rails finds
\* the key that makes it push, whichever other streams of the channel end.
THEOREM Told == Spec => []ToldWhileWatched
<1>1. Init => Beating
  BY DEF Init, Beating
<1>2. TypeOK /\ Beating /\ [Next]_vars => Beating'
  BY BeatingStep
<1>3. Beating => ToldWhileWatched
  BY DEF Beating, ToldWhileWatched
<1> QED BY <1>1, <1>2, <1>3, TypeCorrect, PTL DEF Spec

-----------------------------------------------------------------------------
(* Nothing is left behind by streams that start in the callback in which   *)
(* their connection arrives.                                               *)

NoneDeferred == \A c \in Conns : ~Deferred(c)

Attached ==
  \A c \in Conns :
    /\ phase[c] # "authorizing"
    /\ c \in beating \/ (\E ch \in Channels : c \in subs[ch]) =>
         phase[c] = "streaming" /\ socket[c] \in {"open", "closing"}
    /\ \A ch \in Channels : c \in subs[ch] => ch = ChannelOf(c)

LEMMA AttachedStep ==
  ASSUME TypeOK, NoneDeferred, Attached, [Next]_vars
  PROVE  Attached'
<1>0. subs \in [Channels -> SUBSET Conns] /\ \A c \in Conns : ChannelOf(c) \in Channels
  BY ChannelType DEF TypeOK
<1>1. ASSUME NEW c \in Conns, Connect(c) PROVE Attached'
  <2>1. /\ phase'[c] = "streaming" /\ socket'[c] = "open"
        /\ \A d \in Conns \ {c} : socket'[d] = socket[d] /\ phase'[d] = phase[d]
        /\ beating' \subseteq beating \cup {c}
        /\ \A ch \in Channels :
             subs'[ch] = subs[ch] \cup IF ch = ChannelOf(c) THEN {c} ELSE {}
    BY <1>0, <1>1
       DEF TypeOK, NoneDeferred, Connect, StreamFrom, Subscribe, StartHeartbeat
  <2> QED BY <2>1 DEF Attached
<1>2. ASSUME NEW c \in Conns, Authorize(c) \/ Refuse(c) PROVE Attached'
  BY <1>2 DEF Attached, Authorize, Refuse
<1>3. ASSUME NEW c \in Conns, SocketError(c) \/ (SocketClose(c) /\ phase[c] = "streaming")
      PROVE  Attached'
  <2>1. /\ c \notin beating' /\ beating' \subseteq beating
        /\ \A ch \in Channels :
             subs'[ch] = subs[ch] \ IF ch = ChannelOf(c) THEN {c} ELSE {}
        /\ \A d \in Conns \ {c} : socket'[d] = socket[d] /\ phase'[d] = phase[d]
        /\ phase'[c] # "authorizing"
    BY <1>0, <1>3 DEF TypeOK, SocketError, SocketClose, EndStream, Unsubscribe
  <2> QED BY <2>1 DEF Attached
<1>4. ASSUME NEW c \in Conns,
             \/ SocketClose(c) /\ phase[c] # "streaming"
             \/ Thump(c) \/ Leave(c)
      PROVE  Attached'
  <2>1. /\ \A d \in Conns \ {c} : socket'[d] = socket[d]
        /\ UNCHANGED <<phase, subs, beating>>
        /\ socket'[c] = "closing" \/ phase[c] # "streaming"
    BY <1>4 DEF TypeOK, SocketClose, Thump, Leave
  <2> QED BY <2>1 DEF Attached
<1>5. CASE Sweep
  <2>1. /\ \A c \in Conns : socket'[c] = socket[c] \/ socket'[c] = "closing"
        /\ UNCHANGED <<phase, subs, beating>>
    BY <1>5 DEF Sweep
  <2> QED BY <2>1 DEF Attached
<1>6. CASE Crash
  BY <1>6 DEF Crash, Attached
<1>7. ASSUME \/ \E c \in Conns : Vanish(c) \/ Pong(c)
             \/ \E m \in Messages : Publish(m)
             \/ \E q \in asking : Answer(q)
             \/ Execute \/ Receive \/ Beat \/ UNCHANGED vars
      PROVE  Attached'
  <2>1. UNCHANGED <<phase, socket, subs, beating>>
    BY <1>7 DEF Vanish, Pong, Publish, Answer, Execute, Receive, Beat, clients, vars
  <2> QED BY <2>1 DEF Attached
<1> QED BY <1>1, <1>2, <1>3, <1>4, <1>5, <1>6, <1>7 DEF Next, Client, Server

\* If no stream waits for a query before it starts, no listener and no
\* heartbeat outlives its socket.
THEOREM LeftBehindByNone ==
  ASSUME NoneDeferred
  PROVE  Spec => []NothingLeftBehind
<1>1. Init => Attached
  BY DEF Init, Attached
<1>2. TypeOK /\ Attached /\ [Next]_vars => Attached'
  BY AttachedStep
<1>3. Attached => NothingLeftBehind
  BY DEF Attached, NothingLeftBehind
<1> QED BY <1>1, <1>2, <1>3, TypeCorrect, PTL DEF Spec

-----------------------------------------------------------------------------
(* What is sent on at once is sent in the order of publication: what was    *)
(* sent is older than what is in the inbox, and that is in order.           *)

InTurn(c) == ~ NeedsFiltering(c) \/ c \in Anonymous

Logged(x) == \E a \in DOMAIN log : log[a] = x

Before(x, y) == \E b \in DOMAIN log : \E a \in 1..(b - 1) : log[a] = x /\ log[b] = y

InboxOrdered ==
  \A j \in DOMAIN inbox : Logged(inbox[j]) /\ \A i \in 1..(j - 1) : Before(inbox[i], inbox[j])

SentOrdered == \A c \in Conns : InTurn(c) =>
  \A j \in DOMAIN sent[c] :
    /\ Logged(sent[c][j])
    /\ \A i \in 1..(j - 1) : Before(sent[c][i], sent[c][j])
    /\ \A i \in DOMAIN inbox : Before(sent[c][j], inbox[i])

\* Only a stream that may have to ask waits for an answer
NoneAsks == \A q \in asking : ~ InTurn(q.conn)

Ordered == InboxOrdered /\ SentOrdered /\ NoneAsks

LEMMA PublishOrdered ==
  ASSUME TypeOK, Ordered, NEW m \in Messages, Publish(m)
  PROVE  Ordered'
<1>1. log \in Seq(Messages) /\ inbox \in Seq(Messages) /\ sent \in [Conns -> Seq(Messages)]
  BY DEF TypeOK
<1> DEFINE n == Len(log) + 1
<1>2. /\ n \in Nat /\ n >= 1 /\ DOMAIN log = 1..(n - 1) /\ DOMAIN log' = 1..n
      /\ log'[n] = m /\ \A a \in 1..(n - 1) : log'[a] = log[a]
  BY <1>1, AppendProperties, LenProperties DEF Publish
<1> HIDE DEF n
<1>3. \A x : Logged(x) => Logged(x)' /\ Before(x, m)'
  BY <1>2 DEF Logged, Before
<1>4. \A x, y : Before(x, y) => Before(x, y)'
  BY <1>2 DEF Before
<1>5. Logged(m)'
  BY <1>2 DEF Logged
<1>6. \A i \in DOMAIN inbox' :
        \/ i \in DOMAIN inbox /\ inbox'[i] = inbox[i]
        \/ inbox'[i] = m /\ \A j \in 1..(i - 1) : j \in DOMAIN inbox /\ inbox'[j] = inbox[j]
  <2>1. CASE inbox' = inbox
    BY <2>1
  <2>2. CASE inbox' = Append(inbox, m)
    BY <1>1, <2>2, AppendProperties, LenProperties
  <2> QED BY <2>1, <2>2 DEF Publish
<1>7. \A i \in DOMAIN inbox : \A j \in 1..(i - 1) : j \in DOMAIN inbox /\ inbox'[j] = inbox[j]
  <2>1. CASE inbox' = inbox
    BY <1>1, <2>1, LenProperties
  <2>2. CASE inbox' = Append(inbox, m)
    BY <1>1, <2>2, AppendProperties, LenProperties
  <2> QED BY <2>1, <2>2 DEF Publish
<1>8. InboxOrdered'
  BY <1>3, <1>4, <1>5, <1>6, <1>7 DEF Ordered, InboxOrdered
<1>9. UNCHANGED <<sent, asking>>
  BY DEF Publish
<1>10. SentOrdered'
  BY <1>3, <1>4, <1>6, <1>9 DEF Ordered, SentOrdered, InTurn
<1>11. NoneAsks'
  BY <1>9 DEF Ordered, NoneAsks, InTurn
<1> QED BY <1>8, <1>10, <1>11 DEF Ordered

LEMMA ReceiveOrdered ==
  ASSUME TypeOK, Ordered, Receive
  PROVE  Ordered'
<1> DEFINE m == Head(inbox)
<1>1. /\ inbox \in Seq(Messages) /\ inbox # <<>> /\ inbox' = Tail(inbox)
      /\ sent \in [Conns -> Seq(Messages)] /\ UNCHANGED log
  BY DEF TypeOK, Receive
<1>2. m \in Messages /\ m = inbox[1] /\ 1 \in DOMAIN inbox
  BY <1>1, HeadTailProperties, LenProperties, EmptySeq
<1>3. \A i \in DOMAIN inbox' : i + 1 \in DOMAIN inbox /\ 1 \in 1..i /\ i \in Nat /\ inbox'[i] = inbox[i + 1]
  BY <1>1, HeadTailProperties, LenProperties
<1>4. \A x, y : (Logged(x)' <=> Logged(x)) /\ (Before(x, y)' <=> Before(x, y))
  BY <1>1 DEF Logged, Before
<1>5. InboxOrdered'
  <2> SUFFICES ASSUME NEW j \in DOMAIN inbox'
               PROVE  Logged(inbox'[j]) /\ \A i \in 1..(j - 1) : Before(inbox'[i], inbox'[j])
    BY <1>4 DEF InboxOrdered
  <2>1. /\ j \in Nat /\ j + 1 \in DOMAIN inbox /\ inbox'[j] = inbox[j + 1]
        /\ \A i \in 1..(j - 1) : i \in DOMAIN inbox' /\ inbox'[i] = inbox[i + 1] /\ i + 1 \in 1..j
    BY <1>1, <1>3, HeadTailProperties, LenProperties
  <2> QED BY <2>1 DEF Ordered, InboxOrdered
<1>6. \A i \in DOMAIN inbox' : Before(m, inbox'[i])
  BY <1>2, <1>3 DEF Ordered, InboxOrdered
<1>7. Logged(m)
  BY <1>2 DEF Ordered, InboxOrdered
<1>8. SentOrdered'
  <2> SUFFICES ASSUME NEW c \in Conns, InTurn(c), NEW j \in DOMAIN sent'[c]
               PROVE  /\ Logged(sent'[c][j])
                      /\ \A i \in 1..(j - 1) : Before(sent'[c][i], sent'[c][j])
                      /\ \A i \in DOMAIN inbox' : Before(sent'[c][j], inbox'[i])
    BY <1>4 DEF SentOrdered, InTurn
  <2>1. \A x \in DOMAIN sent[c] : /\ Logged(sent[c][x]) /\ Before(sent[c][x], m)
                                  /\ \A i \in 1..(x - 1) : Before(sent[c][i], sent[c][x])
                                  /\ \A i \in DOMAIN inbox' : Before(sent[c][x], inbox'[i])
    BY <1>2, <1>3 DEF Ordered, SentOrdered
  <2>2. sent[c] \in Seq(Messages)
    BY <1>1
  <2>3. CASE sent'[c] = sent[c]
    BY <2>1, <2>3
  <2>4. CASE sent'[c] = Append(sent[c], m)
    <3>1. \/ j \in DOMAIN sent[c] /\ sent'[c][j] = sent[c][j]
             /\ \A i \in 1..(j - 1) : sent'[c][i] = sent[c][i]
          \/ sent'[c][j] = m /\ \A i \in 1..(j - 1) : i \in DOMAIN sent[c] /\ sent'[c][i] = sent[c][i]
      BY <1>2, <2>2, <2>4, AppendProperties, LenProperties
    <3> QED BY <1>6, <1>7, <2>1, <3>1
  <2>5. sent'[c] = sent[c] \/ sent'[c] = Append(sent[c], m)
    BY DEF Receive, Transmit
  <2> QED BY <2>3, <2>4, <2>5
<1>9. NoneAsks'
  <2>1. \A q \in asking' : q \in asking \/ MustAsk(q.conn, m)
    BY DEF Receive
  <2> QED BY <2>1 DEF Ordered, NoneAsks, InTurn, MustAsk
<1> QED BY <1>5, <1>8, <1>9 DEF Ordered

LEMMA OrderedStep == TypeOK /\ Ordered /\ [Next]_vars => Ordered'
<1> SUFFICES ASSUME TypeOK, Ordered, [Next]_vars PROVE Ordered'
  OBVIOUS
<1>1. ASSUME NEW q \in asking, Answer(q) PROVE Ordered'
  <2>1. UNCHANGED <<inbox, log>> /\ asking' = asking \ {q} /\ ~ InTurn(q.conn)
    BY <1>1 DEF Answer, redis, Ordered, NoneAsks
  <2>2. \A c \in Conns : InTurn(c) => sent'[c] = sent[c]
    BY <1>1, <2>1 DEF Answer, Transmit, TypeOK
  <2> QED BY <2>1, <2>2 DEF Ordered, InboxOrdered, SentOrdered, NoneAsks, InTurn, Logged, Before
<1>2. CASE Crash
  BY <1>2 DEF Crash, Ordered, InboxOrdered, SentOrdered, NoneAsks, InTurn, Logged, Before
<1>3. ASSUME \/ \E c \in Conns : Server(c) \/ Client(c)
             \/ Execute \/ Sweep \/ Beat \/ UNCHANGED vars
      PROVE  Ordered'
  <2>1. UNCHANGED <<inbox, log, sent, asking>>
    BY <1>3 DEF Server, Client, Authorize, Refuse, SocketClose, Thump, Connect, Leave, Vanish, SocketError,
                Pong, Execute, Sweep, Beat, redis, vars
  <2> QED BY <2>1 DEF Ordered, InboxOrdered, SentOrdered, NoneAsks, InTurn, Logged, Before
<1> QED BY <1>1, <1>2, <1>3, PublishOrdered, ReceiveOrdered DEF Next

\* Personal streams and those without a token show events in the order of
\* publication and none twice, for any number of connections, messages and
\* restarts (streamFrom and the `message` event of the Redis client).
THEOREM ShownInOrder == Spec => []InOrder
<1>1. Init => Ordered
  BY DEF Init, Ordered, InboxOrdered, SentOrdered, NoneAsks
<1>2. Ordered => InOrder
  BY DEF Ordered, SentOrdered, InTurn, Before, InOrder
<1> QED BY <1>1, <1>2, OrderedStep, TypeCorrect, PTL DEF Spec
=============================================================================
