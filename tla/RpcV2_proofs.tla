---------------------------- MODULE RpcV2_proofs ----------------------------
(***************************************************************************)
(* Proofs about sonnet-rpc-v2 but for its transport: the registry's cache, *)
(* the server, its framing, the connection pools and the breaker, each for *)
(* all values of its constants.                                            *)
(***************************************************************************)
EXTENDS MCRpcV2, FiniteSetTheorems, SequenceTheorems, NaturalsInduction, WellFoundedInduction,
        TLAPS

-----------------------------------------------------------------------------
\* The registry's cache of instances (RpcDirectory).

Event == [addr : Addrs, put : BOOLEAN]

DirTypeOK ==
  /\ etcd \in SUBSET Addrs
  /\ feed \in Seq(Event)
  /\ cache \in (SUBSET Addrs) \cup {None}
  /\ watch \in {"off", "starting", "on", "lost"}
  /\ event \in Event \cup {None}
  /\ missed \in BOOLEAN

\* There is a cache once a watcher was started, and events only while its watch
\* is set up.
WatchKept ==
  /\ watch # "off" => cache # None
  /\ watch # "on" => feed = <<>> /\ event = None

\* What becomes of an address once everything under way is applied is what etcd
\* says of it: the last change of it in the feed decides, else the event in hand,
\* else the cache.
Tracks ==
  (watch # "off" /\ ~missed) =>
    \A a \in Addrs :
      /\ \A i \in DOMAIN feed :
           (feed[i].addr = a /\ \A j \in DOMAIN feed : j > i => feed[j].addr # a)
             => (feed[i].put = TRUE <=> a \in etcd)
      /\ (\A i \in DOMAIN feed : feed[i].addr # a) =>
           IF event # None /\ event.addr = a THEN event.put = TRUE <=> a \in etcd
                                             ELSE a \in cache <=> a \in etcd

DirInv == DirTypeOK /\ WatchKept /\ Tracks

\* A registry that starts.
LEMMA DirInit == Directory!Init => DirInv
<1> SUFFICES ASSUME Directory!Init PROVE DirInv
  OBVIOUS
<1>1. DirTypeOK
  <2>1. feed \in Seq(Event)
    BY DEF Directory!Init
  <2>2. cache \in (SUBSET Addrs) \cup {None} /\ event \in Event \cup {None} /\ etcd \in SUBSET Addrs
    BY DEF Directory!Init
  <2>3. watch = "off" /\ missed = FALSE
    BY DEF Directory!Init
  <2> QED
    BY <2>1, <2>2, <2>3 DEF DirTypeOK
<1>2. WatchKept /\ Tracks
  BY DEF Directory!Init, WatchKept, Tracks
<1> QED
  BY <1>1, <1>2 DEF DirInv

\* A change in etcd reaches the feed, or is missed (registry.go:97-156).
LEMMA ChangeKeeps ==
  ASSUME DirInv, NEW a \in Addrs, NEW put \in BOOLEAN, Directory!Change(a, put)
  PROVE  DirInv'
<1> DEFINE e == [addr |-> a, put |-> put]
<1>1. /\ etcd' = IF put THEN etcd \cup {a} ELSE etcd \ {a}
      /\ feed' = IF watch = "on" THEN Append(feed, e) ELSE feed
      /\ missed' = (missed \/ (cache # None /\ watch # "on"))
      /\ UNCHANGED <<cache, watch, event>>
  BY DEF Directory!Change
<1>2. e \in Event /\ e.addr = a /\ e.put = put
  BY DEF Event
<1>3. feed \in Seq(Event)
  BY DEF DirInv, DirTypeOK
<1> HIDE DEF e
<1>4. DirTypeOK'
  BY <1>1, <1>2 DEF DirInv, DirTypeOK
<1>5. WatchKept'
  BY <1>1 DEF DirInv, WatchKept
<1>6. Tracks'
  <2> SUFFICES ASSUME watch # "off", ~missed', NEW b \in Addrs
               PROVE  /\ \A i \in DOMAIN feed' :
                           (feed'[i].addr = b /\ \A j \in DOMAIN feed' : j > i => feed'[j].addr # b)
                             => (feed'[i].put = TRUE <=> b \in etcd')
                      /\ (\A i \in DOMAIN feed' : feed'[i].addr # b) =>
                           IF event # None /\ event.addr = b THEN event.put = TRUE <=> b \in etcd'
                                                             ELSE b \in cache <=> b \in etcd'
    BY <1>1 DEF Tracks
  <2>1. watch = "on" /\ ~missed /\ feed' = Append(feed, e)
    BY <1>1 DEF DirInv, WatchKept
  <2>2. /\ Len(feed') = Len(feed) + 1 /\ feed'[Len(feed) + 1] = e
        /\ Len(feed) \in Nat /\ DOMAIN feed = 1 .. Len(feed)
        /\ DOMAIN feed' = 1 .. Len(feed) + 1
        /\ \A i \in DOMAIN feed : feed'[i] = feed[i]
    BY <2>1, <1>3
  <2>3. b # a => (b \in etcd' <=> b \in etcd)
    BY <1>1
  <2>4. a \in etcd' <=> put = TRUE
    BY <1>1
  <2>5. /\ \A i \in DOMAIN feed :
             (feed[i].addr = b /\ \A j \in DOMAIN feed : j > i => feed[j].addr # b)
               => (feed[i].put = TRUE <=> b \in etcd)
        /\ (\A i \in DOMAIN feed : feed[i].addr # b) =>
             IF event # None /\ event.addr = b THEN event.put = TRUE <=> b \in etcd
                                               ELSE b \in cache <=> b \in etcd
    BY <2>1 DEF DirInv, Tracks
  <2>6. CASE b = a
    <3>1. ASSUME NEW i \in DOMAIN feed', feed'[i].addr = b,
                 \A j \in DOMAIN feed' : j > i => feed'[j].addr # b
          PROVE  feed'[i].put = TRUE <=> b \in etcd'
      <4>1. i = Len(feed) + 1
        BY <3>1, <2>2, <2>6, <1>2
      <4> QED
        BY <4>1, <2>2, <2>4, <2>6, <1>2
    <3>2. ~(\A i \in DOMAIN feed' : feed'[i].addr # b)
      BY <2>2, <2>6, <1>2
    <3> QED
      BY <3>1, <3>2
  <2>7. CASE b # a
    <3>1. ASSUME NEW i \in DOMAIN feed', feed'[i].addr = b,
                 \A j \in DOMAIN feed' : j > i => feed'[j].addr # b
          PROVE  feed'[i].put = TRUE <=> b \in etcd'
      <4>1. i \in DOMAIN feed
        BY <3>1, <2>2, <2>7, <1>2
      <4>2. feed[i].addr = b /\ \A j \in DOMAIN feed : j > i => feed[j].addr # b
        BY <4>1, <3>1, <2>2
      <4> QED
        BY <4>1, <4>2, <2>2, <2>3, <2>5, <2>7
    <3>2. ASSUME \A i \in DOMAIN feed' : feed'[i].addr # b
          PROVE  \A i \in DOMAIN feed : feed[i].addr # b
      BY <3>2, <2>2
    <3> QED
      BY <3>1, <3>2, <2>3, <2>5, <2>7
  <2> QED
    BY <2>6, <2>7
<1> QED
  BY <1>4, <1>5, <1>6 DEF DirInv

\* The watcher takes the next event of the feed (registry.go:118-156).
LEMMA TakeKeeps ==
  ASSUME DirInv, Directory!TakeEvent
  PROVE  DirInv'
<1>1. /\ watch = "on" /\ event = None /\ feed # <<>>
      /\ event' = Head(feed) /\ feed' = Tail(feed)
      /\ UNCHANGED <<etcd, missed, cache, watch>>
  BY DEF Directory!TakeEvent
<1>2. feed \in Seq(Event)
  BY DEF DirInv, DirTypeOK
<1>3. /\ event' = feed[1] /\ event' \in Event /\ feed' \in Seq(Event)
      /\ Len(feed) \in Nat \ {0} /\ DOMAIN feed = 1 .. Len(feed)
      /\ DOMAIN feed' = 1 .. Len(feed) - 1
      /\ \A i \in DOMAIN feed' : feed'[i] = feed[i + 1]
  BY <1>1, <1>2
<1>4. event' # None
  BY <1>3, V2Assumption DEF Event
<1>5. DirTypeOK' /\ WatchKept'
  BY <1>1, <1>3 DEF DirInv, DirTypeOK, WatchKept
<1>6. Tracks'
  <2> SUFFICES ASSUME ~missed, NEW b \in Addrs
               PROVE  /\ \A i \in DOMAIN feed' :
                           (feed'[i].addr = b /\ \A j \in DOMAIN feed' : j > i => feed'[j].addr # b)
                             => (feed'[i].put = TRUE <=> b \in etcd)
                      /\ (\A i \in DOMAIN feed' : feed'[i].addr # b) =>
                           IF event'.addr = b THEN event'.put = TRUE <=> b \in etcd
                                              ELSE b \in cache <=> b \in etcd
    BY <1>1, <1>4 DEF Tracks
  <2>1. /\ \A i \in DOMAIN feed :
             (feed[i].addr = b /\ \A j \in DOMAIN feed : j > i => feed[j].addr # b)
               => (feed[i].put = TRUE <=> b \in etcd)
        /\ (\A i \in DOMAIN feed : feed[i].addr # b) => (b \in cache <=> b \in etcd)
    BY <1>1 DEF DirInv, Tracks
  <2>2. ASSUME NEW i \in DOMAIN feed', feed'[i].addr = b,
               \A j \in DOMAIN feed' : j > i => feed'[j].addr # b
        PROVE  feed'[i].put = TRUE <=> b \in etcd
    <3>1. i + 1 \in DOMAIN feed /\ feed[i + 1].addr = b /\ feed'[i] = feed[i + 1]
      BY <2>2, <1>3
    <3>2. ASSUME NEW j \in DOMAIN feed, j > i + 1 PROVE feed[j].addr # b
      <4>1. j - 1 \in DOMAIN feed' /\ j - 1 > i /\ feed'[j - 1] = feed[j]
        BY <3>2, <2>2, <1>3
      <4> QED
        BY <4>1, <2>2
    <3> QED
      BY <3>1, <3>2, <2>1
  <2>3. ASSUME \A i \in DOMAIN feed' : feed'[i].addr # b
        PROVE  IF event'.addr = b THEN event'.put = TRUE <=> b \in etcd
                                  ELSE b \in cache <=> b \in etcd
    <3>1. ASSUME NEW j \in DOMAIN feed, j > 1 PROVE feed[j].addr # b
      <4>1. j - 1 \in DOMAIN feed' /\ feed'[j - 1] = feed[j]
        BY <3>1, <1>3
      <4> QED
        BY <4>1, <2>3
    <3>2. 1 \in DOMAIN feed /\ \A j \in DOMAIN feed : j > 1 \/ j = 1
      BY <1>3
    <3> QED
      BY <3>1, <3>2, <2>1, <1>3
  <2> QED
    BY <2>2, <2>3
<1> QED
  BY <1>5, <1>6 DEF DirInv

\* The invariant of the registry's cache is inductive.
THEOREM DirInvAlways == Directory!Spec => []DirInv
<1>1. DirInv /\ [Directory!Next]_(Directory!vars) => DirInv'
  <2> SUFFICES ASSUME DirInv, [Directory!Next]_(Directory!vars) PROVE DirInv'
    OBVIOUS
  <2> USE V2Assumption
  <2>1. CASE UNCHANGED <<etcd, feed, cache, watch, event, missed>>
    BY <2>1 DEF DirInv, DirTypeOK, WatchKept, Tracks
  <2>2. ASSUME NEW a \in Addrs, Directory!Register(a) \/ Directory!Expire(a) PROVE DirInv'
    BY <2>2, ChangeKeeps DEF Directory!Register, Directory!Expire
  <2>3. ASSUME NEW f \in Finders, Directory!Discover(f) PROVE DirInv'
    BY <2>3, <2>1 DEF Directory!Discover, Directory!directory
  <2>4. ASSUME NEW f \in Finders, Directory!InitService(f) PROVE DirInv'
    <3>1. CASE UNCHANGED <<cache, watch>>
      BY <2>4, <3>1, <2>1 DEF Directory!InitService, Directory!directory
    <3>2. CASE cache = None /\ cache' = etcd /\ watch' = "starting"
      <4>1. watch = "off" /\ feed = <<>> /\ event = None
        BY <3>2 DEF DirInv, DirTypeOK, WatchKept
      <4> QED
        BY <2>4, <3>2, <4>1
           DEF Directory!InitService, Directory!directory, DirInv, DirTypeOK, WatchKept, Tracks
    <3> QED
      BY <2>4, <3>1, <3>2 DEF Directory!InitService
  <2>5. CASE Directory!StartWatch
    BY <2>5 DEF Directory!StartWatch, Directory!directory, DirInv, DirTypeOK, WatchKept, Tracks
  <2>6. CASE Directory!BreakWatch
    <3>1. /\ watch = "on" /\ event = None /\ watch' = "lost" /\ feed' = <<>>
          /\ missed' = (missed \/ feed # <<>>) /\ UNCHANGED <<etcd, cache, event>>
      BY <2>6 DEF Directory!BreakWatch
    <3>2. DirTypeOK' /\ WatchKept'
      BY <3>1 DEF DirInv, DirTypeOK, WatchKept
    <3>3. ~missed' => feed = <<>> /\ ~missed
      BY <3>1
    <3>4. Tracks'
      BY <3>1, <3>3 DEF DirInv, Tracks
    <3> QED
      BY <3>2, <3>4 DEF DirInv
  <2>7. CASE Directory!TakeEvent
    BY <2>7, TakeKeeps
  <2>8. CASE Directory!ApplyEvent
    <3>1. event \in Event /\ event' = None /\ UNCHANGED <<etcd, feed, missed, watch>>
          /\ cache' = IF event.put THEN cache \cup {event.addr} ELSE cache \ {event.addr}
      BY <2>8 DEF Directory!ApplyEvent, Directory!directory, DirInv, DirTypeOK
    <3>2. event # None /\ event.put \in BOOLEAN /\ event.addr \in Addrs /\ watch = "on"
          /\ cache \in SUBSET Addrs /\ cache' \in SUBSET Addrs
      BY <3>1, <2>8 DEF Directory!ApplyEvent, DirInv, DirTypeOK, WatchKept, Event
    <3>3. \A a \in Addrs : a \in cache' <=>
            IF event.addr = a THEN event.put = TRUE ELSE a \in cache
      BY <3>1, <3>2
    <3>4. DirTypeOK' /\ WatchKept'
      BY <3>1, <3>2 DEF DirInv, DirTypeOK, WatchKept
    <3>5. Tracks'
      BY <3>1, <3>2, <3>3 DEF DirInv, Tracks
    <3> QED
      BY <3>4, <3>5 DEF DirInv
  <2> QED
    BY <2>1, <2>2, <2>3, <2>4, <2>5, <2>6, <2>7, <2>8
       DEF Directory!Next, Directory!Finder, Directory!vars
<1> QED
  BY <1>1, DirInit, PTL DEF Directory!Spec

\* The cache of instances is what etcd holds whenever nothing is under way, unless
\* a change fell into a moment without a watch (registry.go:97-156).
THEOREM CacheTracksEtcdAlways == Directory!Spec => []CacheTracksEtcd
<1>1. DirInv => CacheTracksEtcd
  <2> SUFFICES ASSUME DirInv, watch = "on", feed = <<>>, event = None, ~missed
               PROVE  cache = etcd
    BY DEF CacheTracksEtcd, Directory!CacheTracksEtcd
  <2>1. cache \in SUBSET Addrs /\ etcd \in SUBSET Addrs
    BY DEF DirInv, DirTypeOK, WatchKept
  <2>2. \A a \in Addrs : a \in cache <=> a \in etcd
    BY DEF DirInv, Tracks
  <2> QED
    BY <2>1, <2>2
<1> QED
  BY <1>1, DirInvAlways, PTL

-----------------------------------------------------------------------------
\* The server and its framing (RpcServerV2).

ConnStates == {"none", "accepted", "serving", "left", "gone"}
Unit == [msg : Msgs, unit : Nat]

ServerTypeOK ==
  /\ crashed \in BOOLEAN
  /\ served \in [Conns -> ConnStates]
  /\ up \in SUBSET Conns /\ tracked \in SUBSET Conns
  /\ closes \in SUBSET Conns /\ late \in SUBSET Conns
  /\ downs \in [pc : {"idle", "closing", "over"}, n : Nat]
  /\ written \in [Msgs -> Nat]
  /\ writeMu \in [Conns -> Msgs \cup {None}]
  /\ pipe \in [Conns -> Seq(Unit)] /\ buffer \in [Conns -> Seq(Unit)]
  /\ msg \in [Conns -> Msgs \cup {None}]
  /\ replies \in [Conns -> Seq([id : Msgs, limited : BOOLEAN])]

\* A connection that is open was accepted and not left; the map holds it from
\* then on; while Shutdown iterates it has yet to close it, or it came too late
\* (server.go:86-134).
ShutdownKept ==
  /\ \A c \in up : served[c] \in {"accepted", "serving"}
  /\ \A c \in up : served[c] = "serving" => c \in tracked
  /\ downs.pc # "idle" => \A c \in up : c \in late \/ served[c] = "accepted" \/ c \in closes
  /\ downs.pc = "over" => closes = {}

\* What is on its way to the server or in its buffer, in order.
Stream(c) == buffer[c] \o pipe[c]

\* A sequence of units of messages of c is cut nowhere: it starts with a first
\* unit, each unit is followed by the next one of its message, or by the first one
\* of another message, and no unit comes twice.
Uncut(c, s) ==
  /\ \A i \in DOMAIN s : /\ s[i].unit \in 1 .. Size[s[i].msg] /\ Over[s[i].msg] = c
                         /\ s[i].unit <= written[s[i].msg]
  /\ s # <<>> => s[1].unit = 1
  /\ \A i \in DOMAIN s : i + 1 \in DOMAIN s =>
       IF s[i].unit = Size[s[i].msg] THEN s[i + 1].unit = 1
       ELSE s[i + 1].msg = s[i].msg /\ s[i + 1].unit = s[i].unit + 1
  /\ \A i, j \in DOMAIN s : (s[i].msg = s[j].msg /\ s[i].unit = s[j].unit) => i = j

\* The sender that holds writeMu is the only one that has written a part of its
\* message, and the last unit of the stream is its latest; without a holder the
\* stream ends with the last unit of a message (tcp_connection.go:19-45).
SenderKept ==
  /\ \A m \in Msgs : /\ written[m] <= Size[m]
                     /\ (0 < written[m] /\ written[m] < Size[m]) => writeMu[Over[m]] = m
  /\ \A c \in Conns :
       /\ writeMu[c] # None =>
            /\ Over[writeMu[c]] = c
            /\ 0 < written[writeMu[c]] /\ written[writeMu[c]] < Size[writeMu[c]]
            /\ Stream(c) # <<>>
            /\ Stream(c)[Len(Stream(c))] = [msg |-> writeMu[c], unit |-> written[writeMu[c]]]
       /\ (writeMu[c] = None /\ Stream(c) # <<>>) =>
            Stream(c)[Len(Stream(c))].unit = Size[Stream(c)[Len(Stream(c))].msg]

InStream(c, m) == \E i \in DOMAIN Stream(c) : Stream(c)[i].msg = m
InReplies(c, m) == \E i \in DOMAIN replies[c] : replies[c][i].id = m

\* A message that was written is in one place: in the stream, in hand or answered.
PlacesKept ==
  \A c \in Conns :
    /\ Uncut(c, Stream(c))
    /\ c \notin garbled
    /\ \A m \in Msgs : InReplies(c, m) => ~InStream(c, m) /\ msg[c] # m /\ Over[m] = c /\ written[m] > 0
    /\ \A m \in Msgs : msg[c] = m => ~InStream(c, m) /\ Over[m] = c /\ written[m] > 0
    /\ \A i, j \in DOMAIN replies[c] : replies[c][i].id = replies[c][j].id => i = j
    /\ (c \in up /\ ~crashed) =>
         \A m \in Msgs : (Over[m] = c /\ written[m] > 0) => InReplies(c, m) \/ InStream(c, m) \/ msg[c] = m
    /\ served[c] = "none" => \A m \in Msgs : Over[m] = c => written[m] = 0

ServerInv == ServerTypeOK /\ ShutdownKept /\ SenderKept /\ PlacesKept

\* Elements of a sequence.
LEMMA ElementOf ==
  ASSUME NEW X, NEW s \in Seq(X)
  PROVE  Len(s) \in Nat /\ DOMAIN s = 1 .. Len(s) /\ \A i \in 1 .. Len(s) : s[i] \in X
OBVIOUS

\* Elements of a concatenation.
LEMMA ConcatAt ==
  ASSUME NEW X, NEW s \in Seq(X), NEW t \in Seq(X)
  PROVE  /\ s \o t \in Seq(X) /\ Len(s \o t) = Len(s) + Len(t)
         /\ DOMAIN (s \o t) = 1 .. Len(s) + Len(t)
         /\ \A i \in 1 .. Len(s) + Len(t) : (s \o t)[i] = IF i <= Len(s) THEN s[i] ELSE t[i - Len(s)]
OBVIOUS

\* What is left of a sequence without its first n elements.
LEMMA SuffixOf ==
  ASSUME NEW X, NEW q \in Seq(X), NEW n \in 0 .. Len(q)
  PROVE  LET rest == SubSeq(q, n + 1, Len(q)) IN
         /\ rest \in Seq(X) /\ Len(rest) = Len(q) - n
         /\ \A i \in 1 .. Len(rest) : rest[i] = q[i + n]
<1>1. Len(q) \in Nat /\ n \in Nat /\ n <= Len(q)
  OBVIOUS
<1>2. \A i \in n + 1 .. Len(q) : q[i] \in X
  OBVIOUS
<1> QED
  BY <1>1, <1>2

\* The first n elements of a sequence.
LEMMA PrefixOf ==
  ASSUME NEW X, NEW q \in Seq(X), NEW n \in 0 .. Len(q)
  PROVE  LET first == SubSeq(q, 1, n) IN
         /\ first \in Seq(X) /\ Len(first) = n
         /\ \A i \in 1 .. n : first[i] = q[i]
<1>1. Len(q) \in Nat /\ n \in Nat /\ n <= Len(q)
  OBVIOUS
<1>2. \A i \in 1 .. n : q[i] \in X
  OBVIOUS
<1> QED
  BY <1>1, <1>2

\* The stream of a connection is a sequence of units.
LEMMA StreamType ==
  ASSUME ServerTypeOK, NEW c \in Conns
  PROVE  /\ Stream(c) \in Seq(Unit)
         /\ Len(Stream(c)) = Len(buffer[c]) + Len(pipe[c]) /\ Len(Stream(c)) \in Nat
         /\ DOMAIN Stream(c) = 1 .. Len(Stream(c))
         /\ \A i \in 1 .. Len(Stream(c)) :
              /\ Stream(c)[i] = IF i <= Len(buffer[c]) THEN buffer[c][i] ELSE pipe[c][i - Len(buffer[c])]
              /\ Stream(c)[i] \in Unit
<1>1. buffer[c] \in Seq(Unit) /\ pipe[c] \in Seq(Unit)
  BY DEF ServerTypeOK
<1>2. Len(buffer[c]) \in Nat /\ Len(pipe[c]) \in Nat
  BY <1>1
<1>3. /\ Stream(c) \in Seq(Unit)
      /\ Len(Stream(c)) = Len(buffer[c]) + Len(pipe[c])
      /\ DOMAIN Stream(c) = 1 .. Len(buffer[c]) + Len(pipe[c])
      /\ \A i \in 1 .. Len(buffer[c]) + Len(pipe[c]) :
           Stream(c)[i] = IF i <= Len(buffer[c]) THEN buffer[c][i] ELSE pipe[c][i - Len(buffer[c])]
  BY <1>1, ConcatAt, ZenonT(40) DEF Stream
<1> HIDE DEF Stream
<1>4. /\ Len(Stream(c)) \in Nat /\ DOMAIN Stream(c) = 1 .. Len(Stream(c))
      /\ \A i \in 1 .. Len(Stream(c)) : Stream(c)[i] \in Unit
  BY <1>3, ElementOf
<1>5. ASSUME NEW i \in 1 .. Len(Stream(c))
      PROVE  Stream(c)[i] = IF i <= Len(buffer[c]) THEN buffer[c][i] ELSE pipe[c][i - Len(buffer[c])]
  BY <1>2, <1>3
<1> QED
  BY <1>3, <1>4, <1>5

\* A server that starts.
LEMMA ServerInit == Server!Init => ServerInv
<1> SUFFICES ASSUME Server!Init PROVE ServerInv
  OBVIOUS
<1> USE V2Assumption DEF Server!Init
<1>1. ServerTypeOK
  <2>1. pipe \in [Conns -> Seq(Unit)] /\ buffer \in [Conns -> Seq(Unit)]
        /\ replies \in [Conns -> Seq([id : Msgs, limited : BOOLEAN])]
    OBVIOUS
  <2>2. /\ served \in [Conns -> ConnStates] /\ written \in [Msgs -> Nat]
        /\ writeMu \in [Conns -> Msgs \cup {None}] /\ msg \in [Conns -> Msgs \cup {None}]
    BY DEF ConnStates
  <2>3. crashed = FALSE /\ up = {} /\ tracked = {} /\ closes = {} /\ late = {}
        /\ downs \in [pc : {"idle", "closing", "over"}, n : Nat]
    OBVIOUS
  <2> QED
    BY <2>1, <2>2, <2>3 DEF ServerTypeOK
<1>2. ShutdownKept
  BY DEF ShutdownKept
<1>3. ASSUME NEW c \in Conns PROVE Stream(c) = <<>>
  BY DEF Stream
<1>4. SenderKept
  BY <1>3 DEF SenderKept
<1>5. PlacesKept
  BY <1>3 DEF PlacesKept, Uncut, InStream, InReplies
<1> QED
  BY <1>1, <1>2, <1>4, <1>5 DEF ServerInv

\* Steps that leave the wire alone: no connection is open after them that was not,
\* unless nothing has been written to it, and none is unmade.
LEMMA OffWire ==
  ASSUME ServerInv, UNCHANGED <<written, writeMu, pipe, buffer, msg, garbled, replies>>,
         ServerTypeOK', ShutdownKept',
         \A c \in Conns : (c \in up' /\ ~crashed') => (c \in up /\ ~crashed) \/ served[c] = "none",
         \A c \in Conns : served'[c] = "none" => served[c] = "none"
  PROVE  ServerInv'
<1>1. \A c \in Conns : Stream(c)' = Stream(c)
  BY DEF Stream
<1>2. SenderKept'
  BY <1>1 DEF ServerInv, SenderKept
<1>3. ASSUME NEW c \in Conns
      PROVE  /\ Uncut(c, Stream(c))' <=> Uncut(c, Stream(c))
             /\ \A m : (InStream(c, m)' <=> InStream(c, m)) /\ (InReplies(c, m)' <=> InReplies(c, m))
  BY <1>1 DEF Uncut, InStream, InReplies
<1>4. PlacesKept'
  BY <1>3 DEF ServerInv, PlacesKept
<1> QED
  BY <1>2, <1>4 DEF ServerInv

\* Accept, Track, Untrack, a peer that closes, and the ends of the server and its
\* connections (server.go:86-134).
LEMMA LifeKeepsServer ==
  ASSUME ServerInv,
         \/ \E c \in Conns : Server!Accept(c) \/ Server!Track(c) \/ Server!PeerCloses(c)
                             \/ Server!ReadFails(c) \/ Server!Untrack(c)
         \/ Server!Refill \/ Server!Close \/ Server!Shutdown \/ Server!ShutdownCloses
  PROVE  ServerInv'
<1> USE DEF ServerInv, Server!lifeVars, Server!wireVars, Server!limitVars
<1>1. ASSUME NEW c \in Conns, Server!Accept(c) PROVE ServerInv'
  <2> USE <1>1 DEF Server!Accept
  <2>1. ServerTypeOK'
    BY DEF ServerTypeOK, ConnStates
  <2>2. ShutdownKept'
    BY DEF ShutdownKept, ServerTypeOK
  <2> QED
    BY <2>1, <2>2, OffWire DEF ServerTypeOK
<1>2. ASSUME NEW c \in Conns, Server!Track(c) PROVE ServerInv'
  <2> USE <1>2 DEF Server!Track, Server!Touches
  <2>1. ServerTypeOK'
    BY DEF ServerTypeOK, ConnStates
  <2>2. ShutdownKept'
    BY DEF ShutdownKept, ServerTypeOK
  <2> QED
    BY <2>1, <2>2, OffWire DEF ServerTypeOK
<1>3. ASSUME NEW c \in Conns, Server!PeerCloses(c) PROVE ServerInv'
  <2> USE <1>3 DEF Server!PeerCloses
  <2>1. ServerTypeOK' /\ ShutdownKept'
    BY DEF ServerTypeOK, ShutdownKept
  <2> QED
    BY <2>1, OffWire
<1>4. ASSUME NEW c \in Conns, Server!ReadFails(c) PROVE ServerInv'
  <2> USE <1>4 DEF Server!ReadFails, Server!Leaves, Server!Serving
  <2>1. ServerTypeOK' /\ ShutdownKept'
    BY DEF ServerTypeOK, ShutdownKept, ConnStates
  <2> QED
    BY <2>1, OffWire DEF ServerTypeOK
<1>5. ASSUME NEW c \in Conns, Server!Untrack(c) PROVE ServerInv'
  <2> USE <1>5 DEF Server!Untrack, Server!Touches
  <2>1. ServerTypeOK'
    BY DEF ServerTypeOK, ConnStates
  <2>2. ShutdownKept'
    BY DEF ShutdownKept, ServerTypeOK
  <2> QED
    BY <2>1, <2>2, OffWire DEF ServerTypeOK
<1>6. CASE Server!Refill \/ Server!Close
  <2> USE <1>6 DEF Server!Refill, Server!Close
  <2>1. ServerTypeOK' /\ ShutdownKept'
    BY DEF ServerTypeOK, ShutdownKept
  <2> QED
    BY <2>1, OffWire
<1>7. CASE Server!Shutdown
  <2> USE <1>7 DEF Server!Shutdown
  <2>1. ServerTypeOK'
    <3>1. CASE crashed' = TRUE /\ UNCHANGED <<downs, closes>>
      BY <3>1 DEF ServerTypeOK
    <3>2. CASE /\ UNCHANGED crashed /\ closes' = tracked
               /\ downs' = [pc |-> "closing", n |-> downs.n + 1]
      <4>1. downs.n + 1 \in Nat
        BY DEF ServerTypeOK
      <4>2. downs' \in [pc : {"idle", "closing", "over"}, n : Nat]
        BY <3>2, <4>1
      <4> QED
        BY <3>2, <4>2 DEF ServerTypeOK
    <3> QED
      BY <3>1, <3>2
  <2>2. ShutdownKept'
    BY DEF ShutdownKept, ServerTypeOK
  <2> QED
    BY <2>1, <2>2, OffWire
<1>8. CASE Server!ShutdownCloses
  <2> USE <1>8 DEF Server!ShutdownCloses
  <2>1. ServerTypeOK'
    BY DEF ServerTypeOK
  <2>2. ShutdownKept'
    BY DEF ShutdownKept, ServerTypeOK
  <2> QED
    BY <2>1, <2>2, OffWire
<1> QED
  BY <1>1, <1>2, <1>3, <1>4, <1>5, <1>6, <1>7, <1>8

\* Bytes that arrive go from the pipe to the buffer: the stream stays
\* (tcp_connection.go:47-110).
LEMMA ReceiveStream ==
  ASSUME ServerInv, NEW c \in Conns, Server!Receive(c)
  PROVE  /\ buffer' \in [Conns -> Seq(Unit)] /\ pipe' \in [Conns -> Seq(Unit)]
         /\ \A d \in Conns : Stream(d)' = Stream(d)
<1>1. buffer \in [Conns -> Seq(Unit)] /\ pipe \in [Conns -> Seq(Unit)]
  BY DEF ServerInv, ServerTypeOK
<1>2. PICK n \in 1 .. Len(pipe[c]) :
        /\ buffer' = [buffer EXCEPT ![c] = @ \o SubSeq(pipe[c], 1, n)]
        /\ pipe' = [pipe EXCEPT ![c] = SubSeq(@, n + 1, Len(@))]
  BY DEF Server!Receive
<1> DEFINE b == buffer[c]  p == pipe[c]  first == SubSeq(p, 1, n)  rest == SubSeq(p, n + 1, Len(p))
<1>3. b \in Seq(Unit) /\ p \in Seq(Unit) /\ n \in 0 .. Len(p) /\ Len(p) \in Nat /\ Len(b) \in Nat
      /\ n \in Nat
  BY <1>1
<1>4. first \in Seq(Unit) /\ Len(first) = n /\ \A i \in 1 .. n : first[i] = p[i]
  BY <1>3, PrefixOf
<1>5. rest \in Seq(Unit) /\ Len(rest) = Len(p) - n /\ \A i \in 1 .. Len(rest) : rest[i] = p[i + n]
  BY <1>3, SuffixOf
<1>6. buffer'[c] = b \o first /\ pipe'[c] = rest /\ buffer' \in [Conns -> Seq(Unit)]
      /\ pipe' \in [Conns -> Seq(Unit)]
      /\ \A d \in Conns : d # c => buffer'[d] = buffer[d] /\ pipe'[d] = pipe[d]
  BY <1>1, <1>2, <1>4, <1>5
<1> HIDE DEF b, p, first, rest
<1>7. /\ b \o first \in Seq(Unit) /\ Len(b \o first) = Len(b) + n
      /\ \A i \in 1 .. Len(b) + n : (b \o first)[i] = IF i <= Len(b) THEN b[i] ELSE first[i - Len(b)]
  BY <1>3, <1>4, ConcatAt
<1>8. /\ b \o p \in Seq(Unit) /\ Len(b \o p) = Len(b) + Len(p)
      /\ \A i \in 1 .. Len(b) + Len(p) : (b \o p)[i] = IF i <= Len(b) THEN b[i] ELSE p[i - Len(b)]
  BY <1>3, ConcatAt
<1> DEFINE front == b \o first
<1> HIDE DEF front
<1>9. /\ front \o rest \in Seq(Unit) /\ Len(front \o rest) = Len(front) + Len(rest)
      /\ \A i \in 1 .. Len(front) + Len(rest) :
           (front \o rest)[i] = IF i <= Len(front) THEN front[i] ELSE rest[i - Len(front)]
  BY <1>5, <1>7, ConcatAt DEF front
<1>10. Len(front) = Len(b) + n /\ Len(front) + Len(rest) = Len(b) + Len(p)
  BY <1>3, <1>5, <1>7 DEF front
<1>11. ASSUME NEW i \in 1 .. Len(front \o rest) PROVE (front \o rest)[i] = (b \o p)[i]
  <2>1. i \in 1 .. Len(b) + Len(p) /\ i \in 1 .. Len(front) + Len(rest)
    BY <1>9, <1>10
  <2>2. CASE i <= Len(b)
    <3>1. i \in 1 .. Len(b) + n
      BY <2>1, <2>2, <1>3
    <3> QED
      BY <2>1, <2>2, <3>1, <1>7, <1>8, <1>9, <1>10, <1>3 DEF front
  <2>3. CASE i > Len(b) /\ i <= Len(b) + n
    <3>1. i \in 1 .. Len(b) + n /\ i - Len(b) \in 1 .. n
      BY <2>1, <2>3, <1>3
    <3>2. (front \o rest)[i] = front[i] /\ front[i] = first[i - Len(b)]
      BY <2>1, <2>3, <3>1, <1>3, <1>7, <1>9, <1>10 DEF front
    <3> QED
      BY <2>1, <2>3, <3>1, <3>2, <1>3, <1>4, <1>8
  <2>4. CASE i > Len(b) + n
    <3>1. i - Len(front) \in 1 .. Len(rest) /\ i - Len(front) + n = i - Len(b)
      BY <2>1, <2>4, <1>3, <1>5, <1>10
    <3>2. (front \o rest)[i] = rest[i - Len(front)]
      BY <2>1, <2>4, <1>3, <1>9, <1>10
    <3>3. rest[i - Len(front)] = p[i - Len(b)]
      BY <3>1, <1>5
    <3> QED
      BY <2>1, <2>4, <3>2, <3>3, <1>3, <1>8
  <2> QED
    BY <2>1, <2>2, <2>3, <2>4, <1>3, SMTT(30)
<1>12. front \o rest = b \o p
  BY <1>8, <1>9, <1>10, <1>11, SeqEqual
<1>13. ASSUME NEW d \in Conns PROVE Stream(d)' = Stream(d)
  <2>1. CASE d = c
    BY <2>1, <1>6, <1>12 DEF Stream, front, b, p
  <2>2. CASE d # c
    BY <2>2, <1>6 DEF Stream
  <2> QED
    BY <2>1, <2>2
<1> QED
  BY <1>6, <1>13

\* A read that gives some of what has arrived.
LEMMA ReceiveKeeps ==
  ASSUME ServerInv, NEW c \in Conns, Server!Receive(c)
  PROVE  ServerInv'
<1>1. /\ buffer' \in [Conns -> Seq(Unit)] /\ pipe' \in [Conns -> Seq(Unit)]
      /\ \A d \in Conns : Stream(d)' = Stream(d)
  BY ReceiveStream
<1>2. UNCHANGED <<crashed, served, up, tracked, closes, late, downs, written, writeMu, msg, garbled, replies>>
  BY DEF Server!Receive, Server!lifeVars
<1>3. ServerTypeOK' /\ ShutdownKept'
  BY <1>1, <1>2 DEF ServerInv, ServerTypeOK, ShutdownKept
<1>4. SenderKept'
  BY <1>1, <1>2 DEF ServerInv, SenderKept
<1>5. ASSUME NEW d \in Conns
      PROVE  /\ Uncut(d, Stream(d))' <=> Uncut(d, Stream(d))
             /\ \A m : (InStream(d, m)' <=> InStream(d, m)) /\ (InReplies(d, m)' <=> InReplies(d, m))
  BY <1>1, <1>2 DEF Uncut, InStream, InReplies
<1>6. PlacesKept'
  BY <1>2, <1>5 DEF ServerInv, PlacesKept
<1> QED
  BY <1>3, <1>4, <1>6 DEF ServerInv

\* A whole message at the head of the stream: its units are the first ones, so the
\* packet decodes (protocol/codec, tcp_connection.go:62-110).
LEMMA Decodes ==
  ASSUME ServerInv, NEW c \in Conns, Server!Whole(c)
  PROVE  LET m == buffer[c][1].msg IN
         /\ m \in Msgs /\ Size[m] \in 1 .. Len(buffer[c]) /\ Len(buffer[c]) <= Len(Stream(c))
         /\ \A k \in 1 .. Size[m] : Stream(c)[k] = [msg |-> m, unit |-> k]
         /\ Server!Decode(c, m)
<1> DEFINE s == Stream(c)  b == buffer[c]  m == b[1].msg
           R == OpToRel(<, Nat)
           Wrong == {k \in Nat : k \in 1 .. Size[m] /\ s[k] # [msg |-> m, unit |-> k]}
<1>1. /\ b \in Seq(Unit) /\ b # <<>> /\ Len(b) >= Size[m] /\ Len(b) \in Nat \ {0}
  <2>1. b \in Seq(Unit)
    BY DEF ServerInv, ServerTypeOK
  <2>2. b # <<>> /\ Len(b) >= Size[m]
    BY DEF Server!Whole
  <2> QED
    BY <2>1, <2>2
<1>2. /\ s \in Seq(Unit) /\ Len(s) \in Nat /\ DOMAIN s = 1 .. Len(s) /\ Len(b) <= Len(s)
      /\ \A i \in 1 .. Len(b) : s[i] = b[i]
      /\ \A i \in 1 .. Len(s) : s[i] \in Unit
  <2>1. Len(pipe[c]) \in Nat
    BY DEF ServerInv, ServerTypeOK
  <2>2. /\ s \in Seq(Unit) /\ Len(s) = Len(b) + Len(pipe[c]) /\ Len(s) \in Nat
        /\ DOMAIN s = 1 .. Len(s)
        /\ \A i \in 1 .. Len(s) :
             /\ s[i] = IF i <= Len(b) THEN b[i] ELSE pipe[c][i - Len(b)]
             /\ s[i] \in Unit
    BY StreamType DEF ServerInv
  <2> HIDE DEF s, b, m
  <2>3. Len(b) <= Len(s)
    BY <1>1, <2>1, <2>2
  <2>4. \A i \in 1 .. Len(b) : s[i] = b[i]
    BY <1>1, <2>2, <2>3
  <2> QED
    BY <2>2, <2>3, <2>4
<1>3. s[1] = b[1] /\ s[1] \in Unit /\ 1 \in DOMAIN s /\ s # <<>>
  BY <1>1, <1>2
<1>4. m \in Msgs /\ Size[m] \in Nat \ {0}
  BY <1>3, V2Assumption DEF Unit
<1>5. Uncut(c, s)
  BY DEF ServerInv, PlacesKept
<1>6. s[1].msg = m /\ s[1].unit = 1
  BY <1>3, <1>5 DEF Uncut
<1>7. \A x, y \in Nat : y < x => <<y, x>> \in R
  BY DEF OpToRel
<1>8. IsWellFoundedOn(R, Nat)
  BY NatLessThanWellFounded
<1> HIDE DEF R, s, b, m
<1>9. ASSUME Wrong # {} PROVE FALSE
  <2>1. PICK k \in Wrong : \A y \in Wrong : ~(<<y, k>> \in R)
    BY <1>9, <1>8, WFMin
  <2>2. k \in Nat /\ k \in 1 .. Size[m] /\ s[k] # [msg |-> m, unit |-> k]
    OBVIOUS
  <2>3. k \in 1 .. Len(s)
    BY <2>2, <1>1, <1>2, <1>4
  <2>4. s[k] \in Unit
    BY <2>3, <1>2
  <2>5. CASE k = 1
    BY <2>2, <2>4, <2>5, <1>6 DEF Unit
  <2>6. CASE k # 1
    <3>1. k - 1 \in Nat /\ k - 1 \in 1 .. Size[m] /\ k - 1 < k
      BY <2>2, <2>6, <1>4
    <3>2. k - 1 \notin Wrong
      BY <3>1, <2>1, <2>2, <1>7
    <3>3. s[k - 1] = [msg |-> m, unit |-> k - 1]
      BY <3>1, <3>2
    <3>4. k - 1 \in DOMAIN s /\ (k - 1) + 1 \in DOMAIN s /\ (k - 1) + 1 = k
      BY <2>3, <3>1, <1>2
    <3>5. s[k - 1].msg = m /\ s[k - 1].unit = k - 1 /\ k - 1 # Size[m]
      BY <3>3, <2>2, <1>4
    <3>6. s[k].msg = m /\ s[k].unit = k
      BY <3>1, <3>4, <3>5, <1>5 DEF Uncut
    <3> QED
      BY <3>6, <2>2, <2>4 DEF Unit
  <2> QED
    BY <2>5, <2>6
<1>10. \A k \in 1 .. Size[m] : s[k] = [msg |-> m, unit |-> k]
  <2> SUFFICES ASSUME NEW k \in 1 .. Size[m] PROVE s[k] = [msg |-> m, unit |-> k]
    OBVIOUS
  <2>1. k \in Nat
    BY <1>4
  <2> QED
    BY <2>1, <1>9
<1>11. SubSeq(b, 1, Size[m]) = Server!Units(m)
  <2>1. Size[m] \in 0 .. Len(b)
    BY <1>1, <1>4
  <2>2. LET first == SubSeq(b, 1, Size[m]) IN
        first \in Seq(Unit) /\ Len(first) = Size[m] /\ \A i \in 1 .. Size[m] : first[i] = b[i]
    BY <1>1, <2>1, PrefixOf
  <2>3. Server!Units(m) \in Seq(Unit) /\ Len(Server!Units(m)) = Size[m]
        /\ \A i \in 1 .. Size[m] : Server!Units(m)[i] = [msg |-> m, unit |-> i]
    <3>1. \A i \in 1 .. Size[m] : [msg |-> m, unit |-> i] \in Unit
      BY <1>4 DEF Unit
    <3> DEFINE u == [i \in 1 .. Size[m] |-> [msg |-> m, unit |-> i]]
    <3>2. u \in [1 .. Size[m] -> Unit]
      BY <3>1
    <3>3. u \in Seq(Unit) /\ Len(u) = Size[m]
      <4> HIDE DEF u
      <4> QED
        BY <3>2, <1>4
    <3> QED
      BY <3>3 DEF Server!Units
  <2>4. ASSUME NEW i \in 1 .. Size[m] PROVE SubSeq(b, 1, Size[m])[i] = Server!Units(m)[i]
    <3>1. i \in 1 .. Len(b)
      BY <1>1, <1>4
    <3> QED
      BY <3>1, <2>2, <2>3, <1>2, <1>10
  <2> QED
    BY <2>2, <2>3, <2>4, SeqEqual
<1>12. Server!Decode(c, m)
  BY <1>11 DEF Server!Decode, b
<1>13. Size[m] \in 1 .. Len(b)
  BY <1>1, <1>4
<1> QED
  BY <1>2, <1>4, <1>10, <1>12, <1>13 DEF s, b, m

\* Taking a whole message out of the buffer: what is left of the stream.
LEMMA TakenStream ==
  ASSUME ServerInv, NEW c \in Conns, Server!Whole(c),
         buffer' = [buffer EXCEPT ![c] = SubSeq(buffer[c], Size[buffer[c][1].msg] + 1, Len(buffer[c]))],
         UNCHANGED pipe
  PROVE  LET n == Size[buffer[c][1].msg] IN
         /\ buffer' \in [Conns -> Seq(Unit)]
         /\ \A d \in Conns : d # c => Stream(d)' = Stream(d)
         /\ Stream(c)' \in Seq(Unit) /\ Len(Stream(c)') = Len(Stream(c)) - n
         /\ DOMAIN Stream(c)' = 1 .. Len(Stream(c)) - n
         /\ \A i \in 1 .. Len(Stream(c)) - n : Stream(c)'[i] = Stream(c)[i + n]
<1> DEFINE b == buffer[c]  p == pipe[c]  n == Size[buffer[c][1].msg]  rest == SubSeq(b, n + 1, Len(b))
<1>1. buffer \in [Conns -> Seq(Unit)] /\ pipe \in [Conns -> Seq(Unit)]
  BY DEF ServerInv, ServerTypeOK
<1>2. b \in Seq(Unit) /\ p \in Seq(Unit) /\ Len(b) \in Nat /\ Len(p) \in Nat
  BY <1>1
<1>3. n \in 1 .. Len(b)
  BY Decodes
<1>4. n \in 0 .. Len(b) /\ n \in Nat
  BY <1>2, <1>3
<1>5. rest \in Seq(Unit) /\ Len(rest) = Len(b) - n /\ \A i \in 1 .. Len(rest) : rest[i] = b[i + n]
  BY <1>2, <1>4, SuffixOf
<1>6. buffer' = [buffer EXCEPT ![c] = rest]
  OBVIOUS
<1> HIDE DEF rest
<1>7. buffer'[c] = rest /\ buffer' \in [Conns -> Seq(Unit)]
      /\ \A d \in Conns : d # c => buffer'[d] = buffer[d]
  BY <1>1, <1>5, <1>6
<1>8. Stream(c)' = rest \o p /\ Stream(c) = b \o p
  BY <1>7 DEF Stream
<1>9. \A d \in Conns : d # c => Stream(d)' = Stream(d)
  BY <1>7 DEF Stream
<1> HIDE DEF b, p, n
<1>10. /\ rest \o p \in Seq(Unit) /\ Len(rest \o p) = Len(rest) + Len(p)
       /\ DOMAIN (rest \o p) = 1 .. Len(rest) + Len(p)
       /\ \A i \in 1 .. Len(rest) + Len(p) :
            (rest \o p)[i] = IF i <= Len(rest) THEN rest[i] ELSE p[i - Len(rest)]
  BY <1>2, <1>5, ConcatAt
<1>11. /\ Len(b \o p) = Len(b) + Len(p)
       /\ \A i \in 1 .. Len(b) + Len(p) : (b \o p)[i] = IF i <= Len(b) THEN b[i] ELSE p[i - Len(b)]
  BY <1>2, ConcatAt
<1>12. Len(rest) + Len(p) = Len(b \o p) - n
  BY <1>2, <1>4, <1>5, <1>11
<1>13. ASSUME NEW i \in 1 .. Len(b \o p) - n PROVE (rest \o p)[i] = (b \o p)[i + n]
  <2>1. i \in Nat /\ i >= 1 /\ i <= Len(rest) + Len(p) /\ i + n <= Len(b) + Len(p)
        /\ i \in 1 .. Len(rest) + Len(p) /\ i + n \in 1 .. Len(b) + Len(p)
    BY <1>2, <1>4, <1>5, <1>11, <1>12
  <2>2. CASE i <= Len(rest)
    <3>1. i \in 1 .. Len(rest) /\ i + n <= Len(b)
      BY <2>1, <2>2, <1>2, <1>4, <1>5
    <3> QED
      BY <3>1, <2>1, <2>2, <1>5, <1>10, <1>11
  <2>3. CASE ~(i <= Len(rest))
    <3>1. ~(i + n <= Len(b)) /\ i - Len(rest) = (i + n) - Len(b)
      BY <2>1, <2>3, <1>2, <1>4, <1>5
    <3>2. (rest \o p)[i] = p[i - Len(rest)]
      <4>1. i \in 1 .. Len(rest) + Len(p)
        BY <2>1
      <4> QED
        BY <4>1, <2>3, <1>10
    <3>3. (b \o p)[i + n] = p[(i + n) - Len(b)]
      <4>1. PICK j \in 1 .. Len(b) + Len(p) : j = i + n
        BY <2>1
      <4>2. ~(j <= Len(b))
        BY <3>1, <4>1
      <4>3. (b \o p)[j] = IF j <= Len(b) THEN b[j] ELSE p[j - Len(b)]
        BY <1>11
      <4>4. (b \o p)[j] = p[j - Len(b)]
        BY <4>2, <4>3
      <4> QED
        BY <4>1, <4>4
    <3> QED
      BY <3>1, <3>2, <3>3
  <2> QED
    BY <2>2, <2>3
<1>14. /\ Stream(c)' \in Seq(Unit) /\ Len(Stream(c)') = Len(Stream(c)) - n
       /\ DOMAIN Stream(c)' = 1 .. Len(Stream(c)) - n
       /\ \A i \in 1 .. Len(Stream(c)) - n : Stream(c)'[i] = Stream(c)[i + n]
  BY <1>8, <1>10, <1>12, <1>13
<1> QED
  BY <1>7, <1>9, <1>14 DEF n

\* The first message of the buffer of c, m, is taken out of it.
Taken(c, m) ==
  /\ Server!Whole(c) /\ m = buffer[c][1].msg
  /\ buffer' = [buffer EXCEPT ![c] = SubSeq(buffer[c], Size[m] + 1, Len(buffer[c]))]
  /\ UNCHANGED <<pipe, written, writeMu>>

\* The message that was taken is nowhere in the rest of the stream, which is as
\* sound as before.
LEMMA TakenKeeps ==
  ASSUME ServerInv, NEW c \in Conns, NEW m \in Msgs, Taken(c, m)
  PROVE  /\ buffer' \in [Conns -> Seq(Unit)]
         /\ SenderKept'
         /\ \A d \in Conns : Uncut(d, Stream(d))'
         /\ \A d \in Conns : \A q \in Msgs : (d # c \/ q # m) => (InStream(d, q)' <=> InStream(d, q))
         /\ InStream(c, m) /\ ~InStream(c, m)'
         /\ Over[m] = c /\ written[m] > 0
<1> DEFINE s == Stream(c)  n == Size[m]
<1> USE DEF Taken
<1>20. PICK t : t = Stream(c)'
  OBVIOUS
<1>1. /\ buffer' \in [Conns -> Seq(Unit)]
      /\ \A d \in Conns : d # c => Stream(d)' = Stream(d)
      /\ t \in Seq(Unit) /\ Len(t) = Len(s) - n
      /\ DOMAIN t = 1 .. Len(s) - n
      /\ \A i \in 1 .. Len(s) - n : t[i] = s[i + n]
  BY <1>20, TakenStream
<1>2. /\ n \in Nat \ {0} /\ n <= Len(s) /\ Len(s) \in Nat /\ DOMAIN s = 1 .. Len(s)
      /\ \A k \in 1 .. n : s[k] = [msg |-> m, unit |-> k]
      /\ \A i \in 1 .. Len(s) : s[i] \in Unit
  <2>1. /\ n \in 1 .. Len(buffer[c]) /\ Len(buffer[c]) <= Len(s)
        /\ \A k \in 1 .. n : s[k] = [msg |-> m, unit |-> k]
    BY Decodes
  <2>4. buffer[c] \in Seq(Unit)
    BY DEF ServerInv, ServerTypeOK
  <2>5. Len(buffer[c]) \in Nat
    BY <2>4
  <2>2. Len(s) \in Nat /\ DOMAIN s = 1 .. Len(s) /\ \A i \in 1 .. Len(s) : s[i] \in Unit
    BY StreamType DEF ServerInv
  <2>3. n \in Nat \ {0}
    BY V2Assumption
  <2> HIDE DEF s, n
  <2> QED
    BY <2>1, <2>2, <2>3, <2>5
<1>3. Uncut(c, s)
  BY DEF ServerInv, PlacesKept
<1> HIDE DEF s, n
<1>4. \A i \in DOMAIN t : i \in Nat /\ i + n \in DOMAIN s /\ t[i] = s[i + n]
  BY <1>1, <1>2
<1>21. ASSUME NEW k \in 1 .. n PROVE k \in DOMAIN s /\ s[k].msg = m /\ s[k].unit = k
  <2>1. k \in DOMAIN s
    BY <1>2
  <2>2. s[k] = [msg |-> m, unit |-> k]
    BY <1>2
  <2> QED
    BY <2>1, <2>2
<1>5. 1 \in DOMAIN s /\ s[1].msg = m /\ s[1].unit = 1 /\ n \in DOMAIN s /\ s[n].msg = m /\ s[n].unit = n
  <2>1. 1 \in 1 .. n /\ n \in 1 .. n
    BY <1>2
  <2> QED
    BY <2>1, <1>21
<1>6. Over[m] = c /\ written[m] > 0
  <2>1. Over[m] = c /\ 1 <= written[m]
    BY <1>5, <1>3 DEF Uncut
  <2>2. written[m] \in Nat
    BY DEF ServerInv, ServerTypeOK
  <2> QED
    BY <2>1, <2>2
<1>7. InStream(c, m)
  BY <1>5 DEF InStream, s
<1>8. ASSUME NEW i \in DOMAIN t PROVE t[i].msg # m
  <2> SUFFICES ASSUME t[i].msg = m PROVE FALSE
    OBVIOUS
  <2> DEFINE u == s[i + n].unit
  <2>1. i \in Nat /\ i >= 1 /\ i + n \in DOMAIN s /\ s[i + n].msg = m
    BY <1>1, <1>2, <1>4
  <2>2. u \in 1 .. n
    BY <2>1, <1>3 DEF Uncut, n
  <2>3. u \in DOMAIN s /\ s[u].msg = m /\ s[u].unit = u
    BY <2>2, <1>21
  <2>4. u = i + n
    BY <2>1, <2>3, <1>3 DEF Uncut
  <2> QED
    BY <2>1, <2>2, <2>4, <1>2
<1>9. ~InStream(c, m)'
  BY <1>8, <1>20 DEF InStream
<1>10. ASSUME NEW d \in Conns, NEW q \in Msgs, d # c \/ q # m
       PROVE  InStream(d, q)' <=> InStream(d, q)
  <2>1. CASE d # c
    BY <2>1, <1>1 DEF InStream
  <2>2. CASE d = c /\ q # m
    <3>1. ASSUME NEW i \in DOMAIN s, s[i].msg = q
          PROVE  i - n \in DOMAIN t /\ t[i - n].msg = q
      <4>1. ~(i \in 1 .. n)
        BY <3>1, <2>2, <1>21
      <4>2. i - n \in DOMAIN t /\ (i - n) + n = i
        BY <4>1, <1>1, <1>2
      <4> QED
        BY <4>2, <3>1, <1>4
    <3>2. (\E i \in DOMAIN s : s[i].msg = q) <=> (\E i \in DOMAIN t : t[i].msg = q)
      BY <3>1, <1>4
    <3> QED
      BY <3>2, <2>2, <1>20 DEF InStream, s
  <2> QED
    BY <2>1, <2>2, <1>10
<1>11. Uncut(c, t)'
  <2>1. \A i \in DOMAIN t : /\ t[i].unit \in 1 .. Size[t[i].msg] /\ Over[t[i].msg] = c
                            /\ t[i].unit <= written[t[i].msg]
    BY <1>3, <1>4 DEF Uncut
  <2>2. t # <<>> => t[1].unit = 1
    <3> SUFFICES ASSUME t # <<>> PROVE t[1].unit = 1
      OBVIOUS
    <3>1. Len(t) \in Nat \ {0}
      BY <1>1
    <3>2. n \in DOMAIN s /\ n + 1 \in DOMAIN s /\ t[1] = s[n + 1]
      BY <3>1, <1>1, <1>2
    <3> QED
      BY <3>2, <1>3, <1>5 DEF Uncut, n
  <2>3. \A i \in DOMAIN t : i + 1 \in DOMAIN t =>
          IF t[i].unit = Size[t[i].msg] THEN t[i + 1].unit = 1
          ELSE t[i + 1].msg = t[i].msg /\ t[i + 1].unit = t[i].unit + 1
    <3> SUFFICES ASSUME NEW i \in DOMAIN t, i + 1 \in DOMAIN t
                 PROVE  IF t[i].unit = Size[t[i].msg] THEN t[i + 1].unit = 1
                        ELSE t[i + 1].msg = t[i].msg /\ t[i + 1].unit = t[i].unit + 1
      OBVIOUS
    <3>1. i + n \in DOMAIN s /\ (i + n) + 1 \in DOMAIN s /\ t[i] = s[i + n] /\ t[i + 1] = s[(i + n) + 1]
      <4>1. (i + 1) + n = (i + n) + 1
        BY <1>2, <1>4
      <4> QED
        BY <4>1, <1>4
    <3> QED
      BY <3>1, <1>3 DEF Uncut
  <2>4. \A i, j \in DOMAIN t : (t[i].msg = t[j].msg /\ t[i].unit = t[j].unit) => i = j
    <3> SUFFICES ASSUME NEW i \in DOMAIN t, NEW j \in DOMAIN t, t[i].msg = t[j].msg, t[i].unit = t[j].unit
                 PROVE  i = j
      OBVIOUS
    <3>1. i + n = j + n
      BY <1>3, <1>4 DEF Uncut
    <3> QED
      BY <3>1, <1>2, <1>4
  <2> QED
    BY <2>1, <2>2, <2>3, <2>4 DEF Uncut
<1>12. ASSUME NEW d \in Conns PROVE Uncut(d, Stream(d))'
  <2>1. CASE d = c
    BY <2>1, <1>11, <1>20 DEF Uncut
  <2>2. CASE d # c
    BY <2>2, <1>1 DEF ServerInv, PlacesKept, Uncut
  <2> QED
    BY <2>1, <2>2
<1>13. SenderKept'
  <2>1. Len(t) > 0 => t[Len(t)] = s[Len(s)] /\ s # <<>>
    BY <1>1, <1>2
  <2>2. writeMu[c] # None => Len(t) > 0
    <3> SUFFICES ASSUME writeMu[c] # None, ~(Len(t) > 0) PROVE FALSE
      OBVIOUS
    <3>1. Len(s) = n
      BY <1>1, <1>2
    <3>2. s[Len(s)] = [msg |-> writeMu[c], unit |-> written[writeMu[c]]]
          /\ written[writeMu[c]] < Size[writeMu[c]]
      BY DEF ServerInv, SenderKept, s
    <3>3. writeMu[c] = m /\ written[writeMu[c]] = n
      BY <3>1, <3>2, <1>5
    <3> QED
      BY <3>2, <3>3, <1>2 DEF n
  <2>3. t # <<>> => Len(t) > 0
    BY <1>1
  <2>4. writeMu[c] # None => t # <<>> /\ t[Len(t)] = [msg |-> writeMu[c], unit |-> written[writeMu[c]]]
    BY <2>1, <2>2, <1>1 DEF ServerInv, SenderKept, s
  <2>5. (writeMu[c] = None /\ t # <<>>) => t[Len(t)].unit = Size[t[Len(t)].msg]
    <3>1. (writeMu[c] = None /\ s # <<>>) => s[Len(s)].unit = Size[s[Len(s)].msg]
      BY DEF ServerInv, SenderKept, s
    <3> QED
      BY <3>1, <2>1, <2>3
  <2>6. ASSUME NEW d \in Conns, writeMu[d] # None
        PROVE  /\ Over[writeMu[d]] = d
               /\ 0 < written[writeMu[d]] /\ written[writeMu[d]] < Size[writeMu[d]]
               /\ Stream(d)' # <<>>
               /\ Stream(d)'[Len(Stream(d)')] = [msg |-> writeMu[d], unit |-> written[writeMu[d]]]
    <3>1. CASE d = c
      BY <3>1, <2>6, <2>4, <1>20 DEF ServerInv, SenderKept
    <3>2. CASE d # c
      BY <3>2, <2>6, <1>1 DEF ServerInv, SenderKept
    <3> QED
      BY <3>1, <3>2
  <2>7. ASSUME NEW d \in Conns, writeMu[d] = None, Stream(d)' # <<>>
        PROVE  Stream(d)'[Len(Stream(d)')].unit = Size[Stream(d)'[Len(Stream(d)')].msg]
    <3>1. CASE d = c
      BY <3>1, <2>7, <2>5, <1>20
    <3>2. CASE d # c
      <4>1. Stream(d)' = Stream(d)
        BY <3>2, <1>1
      <4>2. (writeMu[d] = None /\ Stream(d) # <<>>) =>
              Stream(d)[Len(Stream(d))].unit = Size[Stream(d)[Len(Stream(d))].msg]
        BY DEF ServerInv, SenderKept
      <4> QED
        BY <4>1, <4>2, <2>7
    <3> QED
      BY <3>1, <3>2
  <2> QED
    BY <2>6, <2>7 DEF ServerInv, SenderKept
<1> QED
  BY <1>1, <1>6, <1>7, <1>9, <1>10, <1>12, <1>13
\* What an answer changes: on an open connection the message is answered too.
LEMMA ReplyMade ==
  ASSUME ServerTypeOK, NEW c \in Conns, NEW m \in Msgs, NEW l \in BOOLEAN, Server!Reply(c, m, l),
         \A i, j \in DOMAIN replies[c] : replies[c][i].id = replies[c][j].id => i = j,
         ~InReplies(c, m)
  PROVE  /\ replies' \in [Conns -> Seq([id : Msgs, limited : BOOLEAN])]
         /\ \A d \in Conns : \A q \in Msgs :
              (d # c \/ q # m) => (InReplies(d, q)' <=> InReplies(d, q))
         /\ c \in up => InReplies(c, m)'
         /\ \A d \in Conns : d # c => replies'[d] = replies[d]
         /\ \A i, j \in DOMAIN replies'[c] : replies'[c][i].id = replies'[c][j].id => i = j
<1> DEFINE r == replies[c]  e == [id |-> m, limited |-> l]
<1>1. CASE c \notin up
  <2>1. replies' = replies
    BY <1>1 DEF Server!Reply
  <2> QED
    BY <1>1, <2>1 DEF ServerTypeOK, InReplies
<1>2. CASE c \in up
  <2>1. replies' = [replies EXCEPT ![c] = Append(r, e)]
    BY <1>2 DEF Server!Reply
  <2>2. replies \in [Conns -> Seq([id : Msgs, limited : BOOLEAN])] /\ r \in Seq([id : Msgs, limited : BOOLEAN])
        /\ e \in [id : Msgs, limited : BOOLEAN]
    BY DEF ServerTypeOK
  <2>3. e.id = m
    OBVIOUS
  <2>9. \A i \in DOMAIN r : r[i].id # m
    BY DEF InReplies
  <2>10. \A i, j \in DOMAIN r : r[i].id = r[j].id => i = j
    OBVIOUS
  <2>4. \A d \in Conns : \A q : InReplies(d, q) <=> \E i \in DOMAIN replies[d] : replies[d][i].id = q
    BY DEF InReplies
  <2>5. \A d \in Conns : \A q : InReplies(d, q)' <=> \E i \in DOMAIN replies'[d] : replies'[d][i].id = q
    BY DEF InReplies
  <2> HIDE DEF e
  <2> DEFINE t == Append(r, e)
  <2>15. t \in Seq([id : Msgs, limited : BOOLEAN])
    BY <2>2
  <2>16. replies' = [replies EXCEPT ![c] = t]
    BY <2>1
  <2>6. /\ replies'[c] = t /\ \A d \in Conns : d # c => replies'[d] = replies[d]
        /\ replies' \in [Conns -> Seq([id : Msgs, limited : BOOLEAN])]
    <3> HIDE DEF t
    <3> QED
      BY <2>2, <2>15, <2>16
  <2> HIDE DEF r
  <2>7. /\ Len(r) \in Nat /\ DOMAIN r = 1 .. Len(r) /\ DOMAIN t = 1 .. Len(r) + 1
        /\ t[Len(r) + 1] = e /\ \A i \in DOMAIN r : t[i] = r[i]
    BY <2>2
  <2> HIDE DEF t
  <2>8. DOMAIN t = DOMAIN r \cup {Len(r) + 1} /\ Len(r) + 1 \notin DOMAIN r
    BY <2>7
  <2>11. \A i, j \in DOMAIN t : t[i].id = t[j].id => i = j
    BY <2>3, <2>7, <2>8, <2>9, <2>10
  <2>12. ASSUME NEW q PROVE (\E i \in DOMAIN t : t[i].id = q) <=> (q = m \/ \E i \in DOMAIN r : r[i].id = q)
    BY <2>3, <2>7, <2>8
  <2>13. \A q : InReplies(c, q)' <=> (q = m \/ InReplies(c, q))
    <3> SUFFICES ASSUME NEW q PROVE InReplies(c, q)' <=> (q = m \/ InReplies(c, q))
      OBVIOUS
    <3>1. InReplies(c, q)' <=> \E i \in DOMAIN t : t[i].id = q
      BY <2>5, <2>6
    <3>2. InReplies(c, q) <=> \E i \in DOMAIN r : r[i].id = q
      BY <2>4 DEF r
    <3> QED
      BY <3>1, <3>2, <2>12
  <2>14. \A d \in Conns : d # c => \A q : InReplies(d, q)' <=> InReplies(d, q)
    BY <2>4, <2>5, <2>6
  <2> QED
    BY <2>6, <2>11, <2>13, <2>14
<1> QED
  BY <1>1, <1>2

\* The next packet of the buffer: it decodes, and is in hand or answered now
\* (tcp_connection.go:47-110, handler.go:40-52).
LEMMA ReadPacketKeeps ==
  ASSUME ServerInv, NEW c \in Conns, Server!ReadPacket(c)
  PROVE  ServerInv'
<1> USE DEF ServerInv, Server!lifeVars
<1>1. Server!Serving(c) /\ Server!Whole(c)
  BY DEF Server!ReadPacket
<1>2. buffer[c][1].msg \in Msgs /\ Server!Decode(c, buffer[c][1].msg)
  BY <1>1, Decodes
<1>3. PICK m \in Msgs : m = buffer[c][1].msg
  BY <1>2
<1>4. /\ buffer' = [buffer EXCEPT ![c] = SubSeq(buffer[c], Size[m] + 1, Len(buffer[c]))]
      /\ UNCHANGED <<served, up, garbled, crashed, tracked, closes, late, downs, written, writeMu, pipe>>
      /\ \/ msg' = [msg EXCEPT ![c] = m] /\ UNCHANGED replies
         \/ Server!Reply(c, m, TRUE) /\ UNCHANGED msg
  BY <1>2, <1>3 DEF Server!ReadPacket
<1>5. /\ buffer' \in [Conns -> Seq(Unit)]
      /\ SenderKept'
      /\ \A d \in Conns : Uncut(d, Stream(d))'
      /\ \A d \in Conns : \A q \in Msgs : (d # c \/ q # m) => (InStream(d, q)' <=> InStream(d, q))
      /\ InStream(c, m) /\ ~InStream(c, m)'
      /\ Over[m] = c /\ written[m] > 0
  <2>1. Taken(c, m)
    BY <1>1, <1>3, <1>4 DEF Taken
  <2> HIDE DEF ServerInv
  <2> QED
    BY <2>1, TakenKeeps
<1>6. msg[c] = None /\ m # None /\ served[c] = "serving"
  BY <1>1, V2Assumption DEF Server!Serving
<1>7. ~InReplies(c, m)
  BY <1>5 DEF PlacesKept
<1>8. ShutdownKept'
  BY <1>4 DEF ShutdownKept
<1>9. CASE msg' = [msg EXCEPT ![c] = m] /\ UNCHANGED replies
  <2>1. ServerTypeOK'
    BY <1>4, <1>5, <1>9 DEF ServerTypeOK
  <2>2. msg'[c] = m /\ \A d \in Conns : d # c => msg'[d] = msg[d]
    BY <1>9 DEF ServerTypeOK
  <2>3. \A d, q : InReplies(d, q)' <=> InReplies(d, q)
    BY <1>9 DEF InReplies
  <2>4. ASSUME NEW d \in Conns
        PROVE  /\ \A q \in Msgs : InReplies(d, q) =>
                    ~InStream(d, q)' /\ msg'[d] # q /\ Over[q] = d /\ written[q] > 0
               /\ \A q \in Msgs : msg'[d] = q => ~InStream(d, q)' /\ Over[q] = d /\ written[q] > 0
               /\ (d \in up /\ ~crashed) =>
                    \A q \in Msgs : (Over[q] = d /\ written[q] > 0) =>
                       InReplies(d, q) \/ InStream(d, q)' \/ msg'[d] = q
    <3>3. /\ \A q \in Msgs : InReplies(d, q) => ~InStream(d, q) /\ msg[d] # q /\ Over[q] = d /\ written[q] > 0
          /\ \A q \in Msgs : msg[d] = q => ~InStream(d, q) /\ Over[q] = d /\ written[q] > 0
          /\ \A i, j \in DOMAIN replies[d] : replies[d][i].id = replies[d][j].id => i = j
          /\ (d \in up /\ ~crashed) =>
               \A q \in Msgs : (Over[q] = d /\ written[q] > 0) => InReplies(d, q) \/ InStream(d, q) \/ msg[d] = q
      BY DEF PlacesKept
    <3> HIDE DEF ServerInv
    <3>1. CASE d = c
      BY <3>1, <3>3, <2>2, <1>5, <1>6, <1>7, V2Assumption
    <3>2. CASE d # c
      BY <3>2, <3>3, <2>2, <1>5
    <3> QED
      BY <3>1, <3>2
  <2>5. PlacesKept'
    BY <2>3, <2>4, <1>4, <1>5, <1>9 DEF PlacesKept
  <2> QED
    BY <2>1, <2>5, <1>5, <1>8
<1>10. CASE Server!Reply(c, m, TRUE) /\ UNCHANGED msg
  <2>1. \A i, j \in DOMAIN replies[c] : replies[c][i].id = replies[c][j].id => i = j
    BY DEF PlacesKept
  <2>2. /\ replies' \in [Conns -> Seq([id : Msgs, limited : BOOLEAN])]
        /\ \A d \in Conns : \A q \in Msgs : (d # c \/ q # m) => (InReplies(d, q)' <=> InReplies(d, q))
        /\ c \in up => InReplies(c, m)'
        /\ \A d \in Conns : d # c => replies'[d] = replies[d]
        /\ \A i, j \in DOMAIN replies'[c] : replies'[c][i].id = replies'[c][j].id => i = j
    BY <2>1, <1>7, <1>10, ReplyMade
  <2>3. ServerTypeOK'
    BY <2>2, <1>4, <1>5, <1>10 DEF ServerTypeOK
  <2>4. ASSUME NEW d \in Conns
        PROVE  /\ \A q \in Msgs : InReplies(d, q)' =>
                    ~InStream(d, q)' /\ msg[d] # q /\ Over[q] = d /\ written[q] > 0
               /\ \A q \in Msgs : msg[d] = q => ~InStream(d, q)' /\ Over[q] = d /\ written[q] > 0
               /\ (d \in up /\ ~crashed) =>
                    \A q \in Msgs : (Over[q] = d /\ written[q] > 0) =>
                       InReplies(d, q)' \/ InStream(d, q)' \/ msg[d] = q
               /\ \A i, j \in DOMAIN replies'[d] : replies'[d][i].id = replies'[d][j].id => i = j
    <3>3. /\ \A q \in Msgs : InReplies(d, q) => ~InStream(d, q) /\ msg[d] # q /\ Over[q] = d /\ written[q] > 0
          /\ \A q \in Msgs : msg[d] = q => ~InStream(d, q) /\ Over[q] = d /\ written[q] > 0
          /\ \A i, j \in DOMAIN replies[d] : replies[d][i].id = replies[d][j].id => i = j
          /\ (d \in up /\ ~crashed) =>
               \A q \in Msgs : (Over[q] = d /\ written[q] > 0) => InReplies(d, q) \/ InStream(d, q) \/ msg[d] = q
      BY DEF PlacesKept
    <3> HIDE DEF ServerInv
    <3>1. CASE d = c
      BY <3>1, <3>3, <2>2, <1>5, <1>6, <1>7
    <3>2. CASE d # c
      BY <3>2, <3>3, <2>2, <1>5
    <3> QED
      BY <3>1, <3>2
  <2>5. PlacesKept'
    BY <2>4, <1>4, <1>5, <1>10 DEF PlacesKept
  <2> QED
    BY <2>3, <2>5, <1>5, <1>8
<1> QED
  BY <1>4, <1>9, <1>10

\* The message in hand is answered, or takes the process down (handler.go:54-69).
LEMMA ProcessKeeps ==
  ASSUME ServerInv, NEW c \in Conns, Server!Process(c)
  PROVE  ServerInv'
<1> USE DEF ServerInv, Server!lifeVars
<1>1. msg[c] # None /\ msg[c] \in Msgs
  BY DEF ServerTypeOK, Server!Process
<1>2. PICK m \in Msgs : m = msg[c]
  BY <1>1
<1>3. /\ msg' = [msg EXCEPT ![c] = None]
      /\ UNCHANGED <<served, up, garbled, tracked, closes, late, downs, written, writeMu, pipe, buffer>>
      /\ \/ Server!Reply(c, m, FALSE) /\ UNCHANGED crashed
         \/ crashed' = TRUE /\ UNCHANGED replies
  BY <1>2 DEF Server!Process
<1>4. \A d \in Conns : Stream(d)' = Stream(d)
  BY <1>3 DEF Stream
<1>5. SenderKept' /\ ShutdownKept'
  BY <1>3, <1>4 DEF SenderKept, ShutdownKept
<1>6. \A d \in Conns : /\ Uncut(d, Stream(d))'
                       /\ \A q : InStream(d, q)' <=> InStream(d, q)
  BY <1>3, <1>4 DEF Uncut, InStream, PlacesKept
<1>7. msg'[c] = None /\ \A d \in Conns : d # c => msg'[d] = msg[d]
  BY <1>3 DEF ServerTypeOK
<1>8. ~InReplies(c, m) /\ ~InStream(c, m) /\ Over[m] = c /\ written[m] > 0 /\ m # None
  BY <1>2, V2Assumption DEF PlacesKept
<1>9. CASE Server!Reply(c, m, FALSE) /\ UNCHANGED crashed
  <2>1. \A i, j \in DOMAIN replies[c] : replies[c][i].id = replies[c][j].id => i = j
    BY DEF PlacesKept
  <2>2. /\ replies' \in [Conns -> Seq([id : Msgs, limited : BOOLEAN])]
        /\ \A d \in Conns : \A q \in Msgs : (d # c \/ q # m) => (InReplies(d, q)' <=> InReplies(d, q))
        /\ c \in up => InReplies(c, m)'
        /\ \A d \in Conns : d # c => replies'[d] = replies[d]
        /\ \A i, j \in DOMAIN replies'[c] : replies'[c][i].id = replies'[c][j].id => i = j
    BY <2>1, <1>8, <1>9, ReplyMade
  <2>3. ServerTypeOK'
    BY <2>2, <1>3, <1>9 DEF ServerTypeOK
  <2>4. ASSUME NEW d \in Conns
        PROVE  /\ \A q \in Msgs : InReplies(d, q)' =>
                    ~InStream(d, q) /\ msg'[d] # q /\ Over[q] = d /\ written[q] > 0
               /\ \A q \in Msgs : msg'[d] = q => ~InStream(d, q) /\ Over[q] = d /\ written[q] > 0
               /\ (d \in up /\ ~crashed) =>
                    \A q \in Msgs : (Over[q] = d /\ written[q] > 0) =>
                       InReplies(d, q)' \/ InStream(d, q) \/ msg'[d] = q
               /\ \A i, j \in DOMAIN replies'[d] : replies'[d][i].id = replies'[d][j].id => i = j
    <3>3. /\ \A q \in Msgs : InReplies(d, q) => ~InStream(d, q) /\ msg[d] # q /\ Over[q] = d /\ written[q] > 0
          /\ \A q \in Msgs : msg[d] = q => ~InStream(d, q) /\ Over[q] = d /\ written[q] > 0
          /\ \A i, j \in DOMAIN replies[d] : replies[d][i].id = replies[d][j].id => i = j
          /\ (d \in up /\ ~crashed) =>
               \A q \in Msgs : (Over[q] = d /\ written[q] > 0) => InReplies(d, q) \/ InStream(d, q) \/ msg[d] = q
      BY DEF PlacesKept
    <3> HIDE DEF ServerInv
    <3>1. CASE d = c
      BY <3>1, <3>3, <2>2, <1>2, <1>7, <1>8, V2Assumption
    <3>2. CASE d # c
      BY <3>2, <3>3, <2>2, <1>7
    <3> QED
      BY <3>1, <3>2
  <2>5. PlacesKept'
    BY <2>4, <1>3, <1>6, <1>9 DEF PlacesKept
  <2> QED
    BY <2>3, <2>5, <1>5
<1>10. CASE crashed' = TRUE /\ UNCHANGED replies
  <2>1. ServerTypeOK'
    BY <1>3, <1>10 DEF ServerTypeOK
  <2>2. \A d, q : InReplies(d, q)' <=> InReplies(d, q)
    BY <1>10 DEF InReplies
  <2>3. ASSUME NEW d \in Conns
        PROVE  /\ \A q \in Msgs : InReplies(d, q) =>
                    ~InStream(d, q) /\ msg'[d] # q /\ Over[q] = d /\ written[q] > 0
               /\ \A q \in Msgs : msg'[d] = q => ~InStream(d, q) /\ Over[q] = d /\ written[q] > 0
    <3>3. /\ \A q \in Msgs : InReplies(d, q) => ~InStream(d, q) /\ msg[d] # q /\ Over[q] = d /\ written[q] > 0
          /\ \A q \in Msgs : msg[d] = q => ~InStream(d, q) /\ Over[q] = d /\ written[q] > 0
          /\ \A i, j \in DOMAIN replies[d] : replies[d][i].id = replies[d][j].id => i = j
          /\ (d \in up /\ ~crashed) =>
               \A q \in Msgs : (Over[q] = d /\ written[q] > 0) => InReplies(d, q) \/ InStream(d, q) \/ msg[d] = q
      BY DEF PlacesKept
    <3> HIDE DEF ServerInv
    <3>1. CASE d = c
      BY <3>1, <3>3, <1>7, V2Assumption
    <3>2. CASE d # c
      BY <3>2, <3>3, <1>7
    <3> QED
      BY <3>1, <3>2
  <2>4. PlacesKept'
    BY <2>2, <2>3, <1>3, <1>6, <1>10 DEF PlacesKept
  <2> QED
    BY <2>1, <2>4, <1>5
<1> QED
  BY <1>3, <1>9, <1>10
\* The units of m up to the n-th are put on the wire.
Puts(c, m, n) ==
  /\ pipe' = [pipe EXCEPT ![c] = pipe[c] \o SubSeq(Server!Units(m), written[m] + 1, n)]
  /\ UNCHANGED buffer

\* The units of a message.
LEMMA UnitsOf ==
  ASSUME NEW m \in Msgs, NEW w \in Nat, NEW n \in w + 1 .. Size[m]
  PROVE  LET u == SubSeq(Server!Units(m), w + 1, n) IN
         /\ u \in Seq(Unit) /\ Len(u) = n - w
         /\ \A k \in 1 .. n - w : u[k] = [msg |-> m, unit |-> w + k]
<1> DEFINE a == Server!Units(m)
<1>1. Size[m] \in Nat /\ n \in Nat /\ w < n /\ n <= Size[m]
  BY V2Assumption
<1>2. \A i \in 1 .. Size[m] : [msg |-> m, unit |-> i] \in Unit
  BY <1>1 DEF Unit
<1>3. a = [i \in 1 .. Size[m] |-> [msg |-> m, unit |-> i]]
  BY DEF Server!Units
<1> HIDE DEF a
<1>4. a \in [1 .. Size[m] -> Unit] /\ \A i \in 1 .. Size[m] : a[i] = [msg |-> m, unit |-> i]
  BY <1>2, <1>3
<1>5. a \in Seq(Unit) /\ Len(a) = Size[m]
  BY <1>1, <1>4
<1>6. \A i \in w + 1 .. n : a[i] \in Unit
  BY <1>1, <1>4
<1>7. SubSeq(a, w + 1, n) \in Seq(Unit) /\ Len(SubSeq(a, w + 1, n)) = n - w
      /\ \A k \in 1 .. n - w : SubSeq(a, w + 1, n)[k] = a[w + k]
  <2>1. PICK c : c = SubSeq(a, w + 1, n)
    OBVIOUS
  <2>2. /\ c \in Seq(Unit) /\ Len(c) = (IF w + 1 <= n THEN (n - (w + 1)) + 1 ELSE 0)
        /\ \A k \in 1 .. (n - (w + 1)) + 1 : c[k] = a[((w + 1) + k) - 1]
    BY <1>1, <1>6, <2>1, SubSeqProperties
  <2>3. Len(c) = n - w
    BY <1>1, <2>2
  <2>4. ASSUME NEW k \in 1 .. n - w PROVE c[k] = a[w + k]
    <3>1. k \in 1 .. (n - (w + 1)) + 1 /\ ((w + 1) + k) - 1 = w + k
      BY <1>1
    <3> QED
      BY <2>2, <3>1
  <2> QED
    BY <2>1, <2>2, <2>3, <2>4
<1>8. \A k \in 1 .. n - w : w + k \in 1 .. Size[m]
  BY <1>1
<1> QED
  BY <1>4, <1>7, <1>8 DEF a

\* Writing: what is behind the stream as it was.
LEMMA WrittenStream ==
  ASSUME ServerTypeOK, NEW c \in Conns, NEW m \in Msgs, NEW n \in written[m] + 1 .. Size[m], Puts(c, m, n)
  PROVE  LET w == written[m] IN
         /\ pipe' \in [Conns -> Seq(Unit)]
         /\ \A d \in Conns : d # c => Stream(d)' = Stream(d)
         /\ Stream(c)' \in Seq(Unit) /\ Len(Stream(c)') = Len(Stream(c)) + (n - w)
         /\ \A i \in 1 .. Len(Stream(c)) : Stream(c)'[i] = Stream(c)[i]
         /\ \A k \in 1 .. n - w : Stream(c)'[Len(Stream(c)) + k] = [msg |-> m, unit |-> w + k]
<1> DEFINE b == buffer[c]  p == pipe[c]  w == written[m]  u == SubSeq(Server!Units(m), w + 1, n)
<1>1. buffer \in [Conns -> Seq(Unit)] /\ pipe \in [Conns -> Seq(Unit)] /\ w \in Nat
  BY DEF ServerTypeOK
<1>2. b \in Seq(Unit) /\ p \in Seq(Unit) /\ Len(b) \in Nat /\ Len(p) \in Nat
  BY <1>1
<1>3. u \in Seq(Unit) /\ Len(u) = n - w /\ \A k \in 1 .. n - w : u[k] = [msg |-> m, unit |-> w + k]
  BY <1>1, UnitsOf
<1>4. n \in Nat /\ n - w \in Nat
  BY <1>1, V2Assumption
<1>5. pipe' = [pipe EXCEPT ![c] = p \o u] /\ buffer' = buffer
  BY DEF Puts
<1> HIDE DEF u
<1>6. p \o u \in Seq(Unit)
  BY <1>2, <1>3
<1>7. /\ pipe'[c] = p \o u /\ pipe' \in [Conns -> Seq(Unit)]
      /\ \A d \in Conns : d # c => pipe'[d] = pipe[d]
  BY <1>1, <1>5, <1>6
<1>8. Stream(c)' = b \o (p \o u) /\ Stream(c) = b \o p
  BY <1>5, <1>7 DEF Stream
<1>9. \A d \in Conns : d # c => Stream(d)' = Stream(d)
  BY <1>5, <1>7 DEF Stream
<1> HIDE DEF b, p, w
<1>10. b \o (p \o u) = (b \o p) \o u
  BY <1>2, <1>3
<1>11. b \o p \in Seq(Unit)
  BY <1>2
<1>12. PICK s \in Seq(Unit) : s = b \o p
  BY <1>11
<1>13. /\ s \o u \in Seq(Unit) /\ Len(s \o u) = Len(s) + Len(u) /\ Len(s) \in Nat
       /\ \A i \in 1 .. Len(s) + Len(u) : (s \o u)[i] = IF i <= Len(s) THEN s[i] ELSE u[i - Len(s)]
  BY <1>3, ConcatAt
<1>14. \A i \in 1 .. Len(s) : (s \o u)[i] = s[i]
  <2> SUFFICES ASSUME NEW i \in 1 .. Len(s) PROVE (s \o u)[i] = s[i]
    OBVIOUS
  <2>1. i \in 1 .. Len(s) + Len(u) /\ i <= Len(s)
    BY <1>3, <1>4, <1>13
  <2> QED
    BY <2>1, <1>13
<1>15. \A k \in 1 .. n - w : (s \o u)[Len(s) + k] = [msg |-> m, unit |-> w + k]
  <2> SUFFICES ASSUME NEW k \in 1 .. n - w PROVE (s \o u)[Len(s) + k] = [msg |-> m, unit |-> w + k]
    OBVIOUS
  <2>1. PICK j \in 1 .. Len(s) + Len(u) : j = Len(s) + k
    BY <1>3, <1>4, <1>13
  <2>2. ~(j <= Len(s)) /\ j - Len(s) = k
    BY <2>1, <1>4, <1>13
  <2>3. (s \o u)[j] = IF j <= Len(s) THEN s[j] ELSE u[j - Len(s)]
    BY <1>13
  <2> QED
    BY <2>1, <2>2, <2>3, <1>3
<1>16. Stream(c)' = s \o u /\ Stream(c) = s
  BY <1>8, <1>10, <1>12
<1> QED
  BY <1>3, <1>7, <1>9, <1>13, <1>14, <1>15, <1>16 DEF w
\* A write, whole or partial, under the mutex of the connection: its units follow
\* the ones of their message (tcp_connection.go:19-45).
LEMMA WriteKeeps ==
  ASSUME ServerInv, NEW m \in Msgs, Server!Write(m)
  PROVE  ServerInv'
<1> USE DEF ServerInv, Server!lifeVars
<1>1. PICK c \in Conns : c = Over[m]
  BY V2Assumption
<1>2. PICK w \in Nat : w = written[m]
  BY DEF ServerTypeOK
<1>3. PICK n \in w + 1 .. Size[m] :
        /\ pipe' = [pipe EXCEPT ![c] = pipe[c] \o SubSeq(Server!Units(m), w + 1, n)]
        /\ written' = [written EXCEPT ![m] = n]
        /\ writeMu' = [writeMu EXCEPT ![c] = IF n = Size[m] THEN None ELSE m]
  BY <1>1, <1>2 DEF Server!Write
<1>4. /\ c \in up /\ w < Size[m] /\ writeMu[c] \in {None, m}
      /\ UNCHANGED <<crashed, served, up, tracked, closes, late, downs, buffer, msg, garbled, replies>>
  BY <1>1, <1>2 DEF Server!Write
<1>5. Size[m] \in Nat /\ n \in Nat /\ w < n /\ n <= Size[m] /\ m # None
  BY <1>2, V2Assumption
<1>6. Puts(c, m, n)
  BY <1>2, <1>3, <1>4 DEF Puts
<1>7. PICK s : s = Stream(c)
  OBVIOUS
<1>8. PICK t : t = Stream(c)'
  OBVIOUS
<1>9. /\ pipe' \in [Conns -> Seq(Unit)]
      /\ \A d \in Conns : d # c => Stream(d)' = Stream(d)
      /\ t \in Seq(Unit) /\ Len(t) = Len(s) + (n - w)
      /\ \A i \in 1 .. Len(s) : t[i] = s[i]
      /\ \A k \in 1 .. n - w : t[Len(s) + k] = [msg |-> m, unit |-> w + k]
  <2>1. n \in written[m] + 1 .. Size[m]
    BY <1>2
  <2> QED
    BY <2>1, <1>2, <1>6, <1>7, <1>8, WrittenStream
<1>10. s \in Seq(Unit) /\ Len(s) \in Nat /\ DOMAIN s = 1 .. Len(s)
  BY <1>7, StreamType
<1>11. DOMAIN t = 1 .. Len(t) /\ Len(t) \in Nat
  BY <1>9
<1>12. Uncut(c, s)
  BY <1>7 DEF PlacesKept
<1>13. /\ written' \in [Msgs -> Nat] /\ written'[m] = n
       /\ \A q \in Msgs : q # m => written'[q] = written[q]
       /\ \A q \in Msgs : written[q] \in Nat /\ written[q] <= written'[q]
  BY <1>2, <1>3, <1>5 DEF ServerTypeOK
<1>14. /\ writeMu' \in [Conns -> Msgs \cup {None}]
       /\ writeMu'[c] = IF n = Size[m] THEN None ELSE m
       /\ \A d \in Conns : d # c => writeMu'[d] = writeMu[d]
  BY <1>3 DEF ServerTypeOK
<1>15. writeMu[c] = m => 0 < w /\ s # <<>> /\ s[Len(s)] = [msg |-> m, unit |-> w]
  BY <1>2, <1>5, <1>7 DEF SenderKept
<1>16. writeMu[c] = None => w = 0 /\ (s # <<>> => s[Len(s)].unit = Size[s[Len(s)].msg])
  <2>1. (0 < written[m] /\ written[m] < Size[m]) => writeMu[Over[m]] = m
    BY DEF SenderKept
  <2>2. (writeMu[c] = None /\ Stream(c) # <<>>) =>
          Stream(c)[Len(Stream(c))].unit = Size[Stream(c)[Len(Stream(c))].msg]
    BY DEF SenderKept
  <2>3. writeMu[c] = None => w = 0
    <3>1. (0 < w /\ w < Size[m]) => writeMu[c] = m
      BY <2>1, <1>1, <1>2
    <3> QED
      BY <3>1, <1>4, <1>5
  <2> QED
    BY <2>2, <2>3, <1>7
<1>17. ~InReplies(c, m) /\ msg[c] # m
  <2>1. CASE w = 0
    BY <2>1, <1>2 DEF PlacesKept
  <2>2. CASE w # 0
    <3>1. s # <<>> /\ s[Len(s)].msg = m
      BY <2>2, <1>4, <1>15, <1>16
    <3>2. Len(s) \in DOMAIN s
      BY <3>1, <1>10
    <3>3. InStream(c, m)
      BY <3>1, <3>2, <1>7 DEF InStream
    <3> QED
      BY <3>3 DEF PlacesKept
  <2> QED
    BY <2>1, <2>2
<1>18. served[c] # "none"
  BY <1>4 DEF ShutdownKept
\* Each unit of the new stream is an old one, in its place, or a new one.
<1>19. ASSUME NEW i \in DOMAIN t
       PROVE  /\ i \in Nat
              /\ i <= Len(s) => i \in DOMAIN s /\ t[i] = s[i]
              /\ ~(i <= Len(s)) => /\ i - Len(s) \in 1 .. n - w
                                   /\ t[i].msg = m /\ t[i].unit = w + (i - Len(s))
  <2>1. i \in Nat /\ i >= 1 /\ i <= Len(s) + (n - w)
    BY <1>5, <1>9, <1>10, <1>11
  <2>2. CASE i <= Len(s)
    BY <2>1, <2>2, <1>9, <1>10
  <2>3. CASE ~(i <= Len(s))
    <3>1. PICK k \in 1 .. n - w : k = i - Len(s)
      BY <2>1, <2>3, <1>5, <1>10
    <3>2. Len(s) + k = i
      BY <2>1, <3>1, <1>10
    <3>3. t[i] = [msg |-> m, unit |-> w + k]
      BY <3>2, <1>9
    <3> QED
      BY <2>1, <2>3, <3>1, <3>3
  <2> QED
    BY <2>2, <2>3
<1>20. Uncut(c, t)'
  <2>1. ASSUME NEW i \in DOMAIN t
        PROVE  /\ t[i].unit \in 1 .. Size[t[i].msg] /\ Over[t[i].msg] = c
               /\ t[i].unit <= written'[t[i].msg]
    <3>1. CASE i <= Len(s)
      <4>1. i \in DOMAIN s /\ t[i] = s[i]
        BY <3>1, <1>19
      <4>2. s[i] \in Unit
        BY <4>1, <1>10
      <4>3. s[i].msg \in Msgs /\ s[i].unit \in Nat
        BY <4>2 DEF Unit
      <4>4. /\ s[i].unit \in 1 .. Size[s[i].msg] /\ Over[s[i].msg] = c
            /\ s[i].unit <= written[s[i].msg]
        BY <4>1, <1>12 DEF Uncut
      <4>5. written[s[i].msg] \in Nat /\ written'[s[i].msg] \in Nat /\ written[s[i].msg] <= written'[s[i].msg]
        BY <4>3, <1>13
      <4> QED
        BY <4>1, <4>3, <4>4, <4>5
    <3>2. CASE ~(i <= Len(s))
      <4>1. PICK k \in 1 .. n - w : t[i].msg = m /\ t[i].unit = w + k
        BY <3>2, <1>19
      <4>2. w + k \in 1 .. Size[m] /\ w + k <= n
        BY <1>5
      <4> QED
        BY <4>1, <4>2, <1>1, <1>13
    <3> QED
      BY <3>1, <3>2
  <2>2. t # <<>> => t[1].unit = 1
    <3>1. 1 \in DOMAIN t
      BY <1>5, <1>9, <1>10, <1>11
    <3>2. CASE s = <<>>
      <4>1. Len(s) = 0 /\ w = 0
        BY <3>2, <1>4, <1>15, <1>16
      <4> QED
        BY <3>1, <4>1, <1>19
    <3>3. CASE s # <<>>
      <4>1. 1 <= Len(s) /\ s[1].unit = 1
        BY <3>3, <1>10, <1>12 DEF Uncut
      <4> QED
        BY <3>1, <4>1, <1>19
    <3> QED
      BY <3>2, <3>3
  <2>3. ASSUME NEW i \in DOMAIN t, i + 1 \in DOMAIN t
        PROVE  IF t[i].unit = Size[t[i].msg] THEN t[i + 1].unit = 1
               ELSE t[i + 1].msg = t[i].msg /\ t[i + 1].unit = t[i].unit + 1
    <3>0. i \in Nat /\ i >= 1
      BY <1>11
    <3>1. CASE i + 1 <= Len(s)
      <4>1. i \in DOMAIN s /\ t[i] = s[i] /\ i + 1 \in DOMAIN s /\ t[i + 1] = s[i + 1]
        BY <3>0, <3>1, <2>3, <1>10, <1>19
      <4> QED
        BY <4>1, <1>12 DEF Uncut
    <3>2. CASE i = Len(s)
      <4>1. i \in DOMAIN s /\ t[i] = s[i] /\ s # <<>>
        BY <3>0, <3>2, <1>10, <1>19
      <4>2. t[i + 1].msg = m /\ t[i + 1].unit = w + 1
        <5>1. ~(i + 1 <= Len(s)) /\ (i + 1) - Len(s) = 1
          BY <3>0, <3>2, <1>10
        <5> QED
          BY <5>1, <2>3, <1>19
      <4>3. CASE writeMu[c] = m
        <5>1. t[i].msg = m /\ t[i].unit = w
          BY <4>1, <4>3, <3>2, <1>15
        <5>2. ~(w = Size[m])
          BY <1>4, <1>5
        <5> QED
          BY <4>2, <5>1, <5>2
      <4>4. CASE writeMu[c] = None
        <5>1. t[i].unit = Size[t[i].msg] /\ w = 0
          BY <4>1, <4>4, <3>2, <1>16
        <5> QED
          BY <4>2, <5>1
      <4> QED
        BY <4>3, <4>4, <1>4
    <3>3. CASE ~(i <= Len(s))
      <4>1. PICK k \in 1 .. n - w : k = i - Len(s)
        BY <3>3, <1>19
      <4>2. ~(i + 1 <= Len(s)) /\ (i + 1) - Len(s) = k + 1 /\ k + 1 \in 1 .. n - w
        <5>1. ~(i + 1 <= Len(s)) /\ (i + 1) - Len(s) = k + 1
          BY <3>0, <3>3, <4>1, <1>10
        <5> QED
          BY <5>1, <2>3, <1>19
      <4>3. t[i].msg = m /\ t[i].unit = w + k /\ t[i + 1].msg = m /\ t[i + 1].unit = w + (k + 1)
        BY <4>1, <4>2, <3>3, <2>3, <1>19
      <4>4. ~(w + k = Size[m]) /\ w + (k + 1) = (w + k) + 1
        BY <4>2, <1>5
      <4> QED
        BY <4>3, <4>4
    <3> QED
      BY <3>0, <3>1, <3>2, <3>3, <1>10
  <2>4. ASSUME NEW i \in DOMAIN t, NEW j \in DOMAIN t, t[i].msg = t[j].msg, t[i].unit = t[j].unit
        PROVE  i = j
    <3>1. ASSUME NEW a \in DOMAIN t, NEW b \in DOMAIN t, t[a].msg = t[b].msg, t[a].unit = t[b].unit,
                 a <= Len(s), ~(b <= Len(s))
          PROVE  FALSE
      <4>1. a \in DOMAIN s /\ s[a].msg = m
        BY <3>1, <1>19
      <4>2. s[a].unit <= w
        BY <4>1, <1>2, <1>12 DEF Uncut
      <4>3. PICK k \in 1 .. n - w : t[b].unit = w + k
        BY <3>1, <1>19
      <4>4. s[a].unit = w + k
        BY <4>3, <3>1, <1>19
      <4> QED
        BY <4>2, <4>4, <1>5
    <3>2. CASE i <= Len(s) /\ j <= Len(s)
      <4>1. i \in DOMAIN s /\ j \in DOMAIN s /\ s[i].msg = s[j].msg /\ s[i].unit = s[j].unit
        BY <3>2, <2>4, <1>19
      <4> QED
        BY <4>1, <1>12 DEF Uncut
    <3>3. CASE ~(i <= Len(s)) /\ ~(j <= Len(s))
      <4>1. i \in Nat /\ j \in Nat /\ w + (i - Len(s)) = w + (j - Len(s))
        BY <3>3, <2>4, <1>19
      <4> QED
        BY <4>1, <1>10
    <3> QED
      BY <3>1, <3>2, <3>3, <2>4
  <2> QED
    BY <2>1, <2>2, <2>3, <2>4 DEF Uncut
<1>21. ASSUME NEW d \in Conns, d # c PROVE Uncut(d, Stream(d))'
  <2>1. PICK z : z = Stream(d)
    OBVIOUS
  <2>2. Uncut(d, z) /\ Stream(d)' = z
    BY <2>1, <1>9, <1>21 DEF PlacesKept
  <2>3. z \in Seq(Unit) /\ DOMAIN z = 1 .. Len(z) /\ \A i \in DOMAIN z : z[i].msg \in Msgs /\ z[i].unit \in Nat
    BY <2>1, StreamType DEF Unit
  <2>4. ASSUME NEW i \in DOMAIN z PROVE z[i].unit <= written'[z[i].msg]
    <3>1. z[i].msg \in Msgs /\ z[i].unit \in Nat /\ z[i].unit <= written[z[i].msg]
      BY <2>2, <2>3 DEF Uncut
    <3>2. written[z[i].msg] \in Nat /\ written'[z[i].msg] \in Nat /\ written[z[i].msg] <= written'[z[i].msg]
      BY <3>1, <1>13
    <3> QED
      BY <3>1, <3>2
  <2>5. Uncut(d, z)'
    BY <2>2, <2>4 DEF Uncut
  <2> QED
    BY <2>2, <2>5 DEF Uncut
<1>22. \A d \in Conns : Uncut(d, Stream(d))'
  <2>1. Uncut(c, Stream(c))'
    BY <1>8, <1>20 DEF Uncut
  <2> QED
    BY <2>1, <1>21
<1>23. t # <<>> /\ Len(t) \in DOMAIN t /\ t[Len(t)].msg = m /\ t[Len(t)].unit = n /\ t[Len(t)] \in Unit
  <2>1. Len(t) > Len(s) /\ Len(t) \in DOMAIN t /\ Len(t) - Len(s) = n - w
    BY <1>5, <1>9, <1>10, <1>11
  <2>2. t # <<>> /\ t[Len(t)] \in Unit
    BY <2>1, <1>9, <1>11
  <2>3. ~(Len(t) <= Len(s)) /\ w + (n - w) = n
    BY <2>1, <1>5, <1>10, <1>11
  <2> QED
    BY <2>1, <2>2, <2>3, <1>19
<1>24. SenderKept'
  <2>1. ASSUME NEW q \in Msgs
        PROVE  /\ written'[q] <= Size[q]
               /\ (0 < written'[q] /\ written'[q] < Size[q]) => writeMu'[Over[q]] = q
    <3>1. CASE q = m
      BY <3>1, <1>1, <1>5, <1>13, <1>14
    <3>2. CASE q # m
      <4>1. /\ written[q] <= Size[q] /\ written'[q] = written[q]
            /\ (0 < written[q] /\ written[q] < Size[q]) => writeMu[Over[q]] = q
        BY <3>2, <1>13 DEF SenderKept
      <4>2. Over[q] \in Conns /\ q # None
        BY V2Assumption
      <4> QED
        BY <4>1, <4>2, <3>2, <1>4, <1>14
    <3> QED
      BY <3>1, <3>2
  <2>2. ASSUME NEW d \in Conns, writeMu'[d] # None
        PROVE  /\ Over[writeMu'[d]] = d
               /\ 0 < written'[writeMu'[d]] /\ written'[writeMu'[d]] < Size[writeMu'[d]]
               /\ Stream(d)' # <<>>
               /\ Stream(d)'[Len(Stream(d)')] = [msg |-> writeMu'[d], unit |-> written'[writeMu'[d]]]
    <3>1. CASE d = c
      <4>1. writeMu'[c] = m /\ n < Size[m]
        BY <3>1, <2>2, <1>5, <1>14
      <4>2. t[Len(t)] = [msg |-> m, unit |-> n]
        BY <1>23 DEF Unit
      <4> QED
        BY <4>1, <4>2, <3>1, <1>1, <1>5, <1>8, <1>13, <1>23
    <3>2. CASE d # c
      <4>1. PICK q \in Msgs : writeMu[d] = q /\ writeMu'[d] = q
        BY <3>2, <2>2, <1>14 DEF ServerTypeOK
      <4>2. /\ Over[q] = d /\ 0 < written[q] /\ written[q] < Size[q]
            /\ Stream(d) # <<>> /\ Stream(d)[Len(Stream(d))] = [msg |-> q, unit |-> written[q]]
        <5>1. writeMu[d] # None =>
                /\ Over[writeMu[d]] = d
                /\ 0 < written[writeMu[d]] /\ written[writeMu[d]] < Size[writeMu[d]]
                /\ Stream(d) # <<>>
                /\ Stream(d)[Len(Stream(d))] = [msg |-> writeMu[d], unit |-> written[writeMu[d]]]
          BY DEF SenderKept
        <5>2. q # None
          BY V2Assumption
        <5> QED
          BY <5>1, <5>2, <4>1
      <4>3. q # m /\ written'[q] = written[q] /\ Stream(d)' = Stream(d)
        BY <4>2, <3>2, <1>1, <1>9, <1>13
      <4> QED
        BY <4>1, <4>2, <4>3
    <3> QED
      BY <3>1, <3>2
  <2>3. ASSUME NEW d \in Conns, writeMu'[d] = None, Stream(d)' # <<>>
        PROVE  Stream(d)'[Len(Stream(d)')].unit = Size[Stream(d)'[Len(Stream(d)')].msg]
    <3>1. CASE d = c
      <4>1. n = Size[m]
        BY <3>1, <2>3, <1>5, <1>14
      <4> QED
        BY <4>1, <3>1, <1>8, <1>23
    <3>2. CASE d # c
      <4>1. Stream(d)' = Stream(d) /\ writeMu[d] = None
        BY <3>2, <2>3, <1>9, <1>14
      <4>2. (writeMu[d] = None /\ Stream(d) # <<>>) =>
              Stream(d)[Len(Stream(d))].unit = Size[Stream(d)[Len(Stream(d))].msg]
        BY DEF SenderKept
      <4> QED
        BY <4>1, <4>2, <2>3
    <3> QED
      BY <3>1, <3>2
  <2> QED
    BY <2>1, <2>2, <2>3 DEF SenderKept
<1>25. ServerTypeOK' /\ ShutdownKept'
  BY <1>4, <1>9, <1>13, <1>14 DEF ServerTypeOK, ShutdownKept
<1>26. InStream(c, m)'
  BY <1>8, <1>23 DEF InStream
<1>27. ASSUME NEW d \in Conns, NEW q \in Msgs, d # c \/ q # m
       PROVE  InStream(d, q)' <=> InStream(d, q)
  <2>1. CASE d # c
    BY <2>1, <1>9 DEF InStream
  <2>2. CASE d = c /\ q # m
    <3>1. ASSUME NEW i \in DOMAIN s PROVE i \in DOMAIN t /\ t[i] = s[i]
      BY <1>5, <1>9, <1>10, <1>11
    <3>2. (\E i \in DOMAIN s : s[i].msg = q) <=> (\E i \in DOMAIN t : t[i].msg = q)
      BY <3>1, <2>2, <1>19
    <3> QED
      BY <3>2, <2>2, <1>7, <1>8 DEF InStream
  <2> QED
    BY <2>1, <2>2, <1>27
<1>28. \A d, q : InReplies(d, q)' <=> InReplies(d, q)
  BY <1>4 DEF InReplies
<1>29. ASSUME NEW d \in Conns
       PROVE  /\ \A q \in Msgs : InReplies(d, q) =>
                   ~InStream(d, q)' /\ msg[d] # q /\ Over[q] = d /\ written'[q] > 0
              /\ \A q \in Msgs : msg[d] = q => ~InStream(d, q)' /\ Over[q] = d /\ written'[q] > 0
              /\ \A i, j \in DOMAIN replies[d] : replies[d][i].id = replies[d][j].id => i = j
              /\ (d \in up /\ ~crashed) =>
                   \A q \in Msgs : (Over[q] = d /\ written'[q] > 0) =>
                      InReplies(d, q) \/ InStream(d, q)' \/ msg[d] = q
              /\ served[d] = "none" => \A q \in Msgs : Over[q] = d => written'[q] = 0
  <2>1. /\ \A q \in Msgs : InReplies(d, q) => ~InStream(d, q) /\ msg[d] # q /\ Over[q] = d /\ written[q] > 0
        /\ \A q \in Msgs : msg[d] = q => ~InStream(d, q) /\ Over[q] = d /\ written[q] > 0
        /\ \A i, j \in DOMAIN replies[d] : replies[d][i].id = replies[d][j].id => i = j
        /\ (d \in up /\ ~crashed) =>
             \A q \in Msgs : (Over[q] = d /\ written[q] > 0) => InReplies(d, q) \/ InStream(d, q) \/ msg[d] = q
        /\ served[d] = "none" => \A q \in Msgs : Over[q] = d => written[q] = 0
    BY DEF PlacesKept
  <2> HIDE DEF ServerInv
  <2>2. CASE d = c
    BY <2>1, <2>2, <1>13, <1>17, <1>18, <1>26, <1>27
  <2>3. CASE d # c
    <3>1. \A q \in Msgs : Over[q] = d => written'[q] = written[q]
      BY <2>3, <1>1, <1>13
    <3> QED
      BY <3>1, <2>1, <2>3, <1>27
  <2> QED
    BY <2>2, <2>3
<1>30. PlacesKept'
  BY <1>4, <1>22, <1>28, <1>29 DEF PlacesKept
<1> QED
  BY <1>24, <1>25, <1>30

-----------------------------------------------------------------------------
\* The framing, the buckets of messages and Shutdown's bookkeeping are kept by the
\* server, its connections and their senders.
THEOREM ServerInvAlways == Server!Spec => []ServerInv
<1>1. ServerInv /\ [Server!Next]_Server!vars => ServerInv'
  <2> SUFFICES ASSUME ServerInv, [Server!Next]_Server!vars PROVE ServerInv'
    OBVIOUS
  <2>1. ASSUME NEW m \in Msgs, Server!Write(m) PROVE ServerInv'
    BY <2>1, WriteKeeps
  <2>2. ASSUME NEW c \in Conns, Server!Receive(c) PROVE ServerInv'
    BY <2>2, ReceiveKeeps
  <2>3. ASSUME NEW c \in Conns, Server!ReadPacket(c) PROVE ServerInv'
    BY <2>3, ReadPacketKeeps
  <2>4. ASSUME NEW c \in Conns, Server!Process(c) PROVE ServerInv'
    BY <2>4, ProcessKeeps
  <2>5. CASE \/ \E c \in Conns : Server!Accept(c) \/ Server!Track(c) \/ Server!PeerCloses(c)
                                 \/ Server!ReadFails(c) \/ Server!Untrack(c)
             \/ Server!Refill \/ Server!Close \/ Server!Shutdown \/ Server!ShutdownCloses
    BY <2>5, LifeKeepsServer
  <2>6. CASE UNCHANGED Server!vars
    <3>1. UNCHANGED <<served, up, garbled, crashed, tracked, closes, late, downs, written, writeMu, pipe, buffer,
                      msg, replies>>
      BY <2>6 DEF Server!vars, Server!lifeVars, Server!wireVars
    <3>2. ServerTypeOK' /\ ShutdownKept'
      BY <3>1 DEF ServerInv, ServerTypeOK, ShutdownKept
    <3> QED
      BY <3>1, <3>2, OffWire
  <2> QED
    BY <2>1, <2>2, <2>3, <2>4, <2>5, <2>6 DEF Server!Next, Server!Handle
<1> QED
  BY <1>1, ServerInit, PTL DEF Server!Spec

\* A connection open when Shutdown is over was accepted too late for it
\* (server.go:86-134).
THEOREM ShutdownLeavesLateAlways == Server!Spec => []ShutdownLeavesLate
<1>1. ServerInv => ShutdownLeavesLate
  BY DEF ServerInv, ShutdownKept, ShutdownLeavesLate, Server!ShutdownLeavesLate
<1> QED
  BY <1>1, ServerInvAlways, PTL

\* Every request is taken out of the stream once and answered at most once, however
\* its units were cut on the way (tcp_connection.go:19-110, handler.go:33-69).
THEOREM OneAnswerEachAlways == Server!Spec => []OneAnswerEach
<1>1. ServerInv => OneAnswerEach
  <2> SUFFICES ASSUME ServerInv, NEW c \in Conns
               PROVE  /\ c \notin garbled
                      /\ Server!Cardinality(Server!Answered(c)) = Len(Server!ReplyIds(c))
                      /\ Server!Answered(c) \cap (Server!Behind(c) \cup {msg[c]}) = {}
                      /\ (c \in up /\ ~crashed) =>
                           \A m \in Msgs : (Over[m] = c /\ written[m] > 0) =>
                              m \in Server!Answered(c) \cup Server!Behind(c) \cup {msg[c]}
    BY Zenon DEF OneAnswerEach, Server!OneAnswerEach
  <2> DEFINE r == replies[c]  ids == Server!ReplyIds(c)
  <2>1. r \in Seq([id : Msgs, limited : BOOLEAN]) /\ buffer[c] \in Seq(Unit) /\ pipe[c] \in Seq(Unit)
    BY DEF ServerInv, ServerTypeOK
  <2>2. /\ Len(r) \in Nat /\ DOMAIN r = 1 .. Len(r) /\ \A i \in DOMAIN r : r[i].id \in Msgs
    <3>1. /\ Len(r) \in Nat /\ DOMAIN r = 1 .. Len(r)
          /\ \A i \in 1 .. Len(r) : r[i] \in [id : Msgs, limited : BOOLEAN]
      BY <2>1, ElementOf
    <3> HIDE DEF r
    <3> QED
      BY <3>1
  <2>3. ids \in [1 .. Len(r) -> Msgs] /\ \A i \in 1 .. Len(r) : ids[i] = r[i].id
    BY <2>2 DEF Server!ReplyIds
  <2>4. DOMAIN ids = 1 .. Len(r) /\ Len(ids) = Len(r)
    <3> HIDE DEF ids
    <3>1. ids \in Seq(Msgs)
      BY <2>2, <2>3
    <3> QED
      BY <3>1, <2>2, <2>3
  <2>5. \A m \in Msgs : m \in Server!Answered(c) <=> InReplies(c, m)
    BY <2>2, <2>3, <2>4 DEF Server!Answered, InReplies
  <2>6. Server!Answered(c) \subseteq Msgs
    BY <2>3, <2>4 DEF Server!Answered
  <2>7. \A m \in Msgs : m \in Server!Behind(c) <=> InStream(c, m)
    <3> SUFFICES ASSUME NEW m \in Msgs PROVE m \in Server!Behind(c) <=> InStream(c, m)
      OBVIOUS
    <3>1. /\ Len(Stream(c)) = Len(buffer[c]) + Len(pipe[c]) /\ DOMAIN Stream(c) = 1 .. Len(Stream(c))
          /\ \A i \in 1 .. Len(Stream(c)) :
               Stream(c)[i] = IF i <= Len(buffer[c]) THEN buffer[c][i] ELSE pipe[c][i - Len(buffer[c])]
      BY StreamType DEF ServerInv
    <3> DEFINE b == buffer[c]  p == pipe[c]
    <3>2. Len(b) \in Nat /\ Len(p) \in Nat /\ DOMAIN b = 1 .. Len(b) /\ DOMAIN p = 1 .. Len(p)
      BY <2>1
    <3>3. PICK s : s = Stream(c)
      OBVIOUS
    <3>4. /\ Len(s) = Len(b) + Len(p) /\ DOMAIN s = 1 .. Len(s)
          /\ \A i \in 1 .. Len(s) : s[i] = IF i <= Len(b) THEN b[i] ELSE p[i - Len(b)]
      BY <3>1, <3>3
    <3>5. m \in Server!Behind(c) <=> (\E i \in DOMAIN b : b[i].msg = m) \/ (\E i \in DOMAIN p : p[i].msg = m)
      BY DEF Server!Behind
    <3>6. InStream(c, m) <=> \E i \in DOMAIN s : s[i].msg = m
      BY <3>3 DEF InStream
    <3> HIDE DEF b, p
    <3>7. ASSUME NEW i \in DOMAIN b PROVE i \in DOMAIN s /\ s[i] = b[i]
      BY <3>2, <3>4
    <3>8. ASSUME NEW i \in DOMAIN p PROVE \E j \in DOMAIN s : s[j] = p[i]
      <4>1. PICK j \in DOMAIN s : j = i + Len(b)
        BY <3>2, <3>4
      <4>2. j - Len(b) = i /\ ~(j <= Len(b))
        BY <4>1, <3>2
      <4>3. s[j] = IF j <= Len(b) THEN b[j] ELSE p[j - Len(b)]
        BY <3>4
      <4> QED
        BY <4>2, <4>3
    <3>9. ASSUME NEW i \in DOMAIN s PROVE (\E j \in DOMAIN b : s[i] = b[j]) \/ (\E j \in DOMAIN p : s[i] = p[j])
      <4>1. i \in Nat /\ i >= 1 /\ i <= Len(b) + Len(p)
        BY <3>2, <3>4
      <4>2. CASE i <= Len(b)
        BY <4>1, <4>2, <3>2, <3>4
      <4>3. CASE ~(i <= Len(b))
        <5>1. i - Len(b) \in DOMAIN p
          BY <4>1, <4>3, <3>2
        <5>2. s[i] = p[i - Len(b)]
          BY <4>3, <3>4
        <5> QED
          BY <5>1, <5>2
      <4> QED
        BY <4>2, <4>3
    <3> QED
      BY <3>5, <3>6, <3>7, <3>8, <3>9
  <2>8. Server!Cardinality(Server!Answered(c)) = Len(ids)
    <3> DEFINE A == Server!Answered(c)  D == 1 .. Len(r)
    <3>1. A = {ids[i] : i \in D}
      BY <2>4 DEF Server!Answered
    <3>2. \A i, j \in D : ids[i] = ids[j] => i = j
      BY <2>2, <2>3 DEF ServerInv, PlacesKept
    <3> HIDE DEF ids, r, A
    <3>3. ids \in [D -> A] /\ \A y \in A : \E i \in D : ids[i] = y
      BY <2>3, <3>1
    <3>4. IsFiniteSet(D) /\ Cardinality(D) = Len(r)
      <4>1. 1 \in Int /\ Len(r) \in Int
        BY <2>2
      <4>2. IsFiniteSet(1 .. Len(r))
            /\ Cardinality(1 .. Len(r)) = IF 1 > Len(r) THEN 0 ELSE Len(r) - 1 + 1
        BY <4>1, FS_Interval
      <4>3. (IF 1 > Len(r) THEN 0 ELSE Len(r) - 1 + 1) = Len(r)
        BY <2>2
      <4> QED
        BY <4>2, <4>3
    <3>5. ids \in Bijection(D, A)
      <4>1. ids \in Injection(D, A)
        BY <3>2, <3>3 DEF Injection, IsInjective
      <4>2. ids \in Surjection(D, A)
        BY <3>3 DEF Surjection
      <4> QED
        BY <4>1, <4>2 DEF Bijection
    <3>6. Cardinality(A) = Len(r)
      BY <3>4, <3>5, FS_Bijection DEF ExistsBijection
    <3>7. Server!Cardinality(A) = Cardinality(A)
      BY DEF Server!Cardinality, Cardinality
    <3> QED
      BY <3>6, <3>7, <2>4 DEF A
  <2>9. ASSUME NEW m \in Msgs
        PROVE  /\ InReplies(c, m) => ~InStream(c, m) /\ msg[c] # m
               /\ (c \in up /\ ~crashed /\ Over[m] = c /\ written[m] > 0) =>
                     InReplies(c, m) \/ InStream(c, m) \/ msg[c] = m
    BY DEF ServerInv, PlacesKept
  <2>10. c \notin garbled
    BY DEF ServerInv, PlacesKept
  <2> HIDE DEF ids
  <2> QED
    BY <2>5, <2>6, <2>7, <2>8, <2>9, <2>10 DEF ids
<1> QED
  BY <1>1, ServerInvAlways, PTL

-----------------------------------------------------------------------------
\* The client's circuit breaker (CircuitBreaker) and connection pools (RpcPool).

\* A window that holds failures only is over any threshold of at most 1.
LEMMA AllFailures ==
  ASSUME NEW n \in Nat PROVE TooManyFailures(n, n)
<1>1. ASSUME NEW a \in Nat, NEW b \in Nat, a <= b PROVE n * b >= a * n
  <2>1. PICK d \in Nat : b = a + d
    <3>1. b - a \in Nat /\ b = a + (b - a)
      BY <1>1
    <3> QED
      BY <3>1
  <2>2. n * b = a * n + n * d
    BY <2>1
  <2>3. n * d \in Nat /\ a * n \in Nat
    BY <2>1
  <2> QED
    BY <2>2, <2>3
<1> QED
  BY <1>1, BreakerAssumption DEF TooManyFailures

\* What toOpen and toClosed establish.
LEMMA Entered ==
  ASSUME NEW s \in {"Closed", "Open"}, EnterState(s) PROVE BreakerInv'
<1>1. halfOpenProbe' \in BOOLEAN /\ ~halfOpenProbe'
  BY Zenon DEF EnterState
<1>2. /\ state' = s /\ age' = 0 /\ failureCount' = 0 /\ successCount' = 0
      /\ streak' = 0 /\ probes' = 0
  BY DEF EnterState
<1> QED
  BY <1>1, <1>2, BreakerAssumption DEF BreakerInv, BreakerTypeOK, AtMostTwoProbes, Window

\* Recording a failure keeps the window accounting: below the window size the
\* failure is counted, a full window opens the breaker, or it is reset, which
\* takes a success that is older than the streak.
LEMMA FailureInv ==
  ASSUME BreakerInv, RecordFailure PROVE BreakerInv'
<1> USE BreakerAssumption DEF BreakerInv, BreakerTypeOK, AtMostTwoProbes, Window
<1>1. CASE state = "Closed"
  <2> DEFINE failures == failureCount + 1
             total == failures + successCount
  <2>1. failures \in Nat /\ total \in Nat
    OBVIOUS
  <2>2. CASE total < WindowSize
    BY <1>1, <2>2 DEF RecordFailure
  <2>3. CASE total >= WindowSize /\ TooManyFailures(failures, total)
    <3>1. EnterState("Open")
      BY <1>1, <2>3 DEF RecordFailure
    <3> QED
      BY <3>1, Entered
  <2>4. CASE total >= WindowSize /\ ~TooManyFailures(failures, total)
    <3>1. successCount > 0
      <4>1. TooManyFailures(failures, failures)
        BY <2>1, AllFailures
      <4>2. successCount = 0 => total = failures
        OBVIOUS
      <4> QED
        BY <4>1, <4>2, <2>4
    <3>2. /\ failureCount' = 0 /\ successCount' = 0 /\ streak' = streak + 1
          /\ UNCHANGED <<state, halfOpenProbe, age, probes>>
      BY <1>1, <2>4 DEF RecordFailure
    <3>3. streak + 1 <= WindowSize
      BY <1>1, <3>1
    <3> QED
      BY <1>1, <3>2, <3>3
  <2> QED
    BY <2>1, <2>2, <2>3, <2>4
<1>2. CASE state = "HalfOpen"
  <2>1. EnterState("Open")
    BY <1>2 DEF RecordFailure
  <2> QED
    BY <2>1, Entered
<1>3. CASE state = "Open"
  BY <1>3 DEF RecordFailure, breakerVars
<1> QED
  BY <1>1, <1>2, <1>3

\* The invariant holds initially and every method of the breaker preserves it.
LEMMA BreakerInductive ==
  /\ BreakerInit => BreakerInv
  /\ BreakerInv /\ [BreakerNext]_breakerVars => BreakerInv'
<1> USE BreakerAssumption DEF BreakerInv, BreakerTypeOK, AtMostTwoProbes, Window
<1>1. BreakerInit => BreakerInv
  <2>1. BreakerInit => halfOpenProbe \in BOOLEAN /\ ~halfOpenProbe
    BY Zenon DEF BreakerInit
  <2>2. BreakerInit => /\ state = "Closed" /\ failureCount = 0 /\ successCount = 0
                       /\ age = 0 /\ streak = 0 /\ probes = 0
    BY DEF BreakerInit
  <2> QED
    BY <2>1, <2>2
<1>2. ASSUME BreakerInv, [BreakerNext]_breakerVars PROVE BreakerInv'
  <2>1. CASE Admit
    <3>1. CASE state = "Closed"
      BY <1>2, <2>1, <3>1 DEF Admit
    <3>2. CASE state = "Open"
      <4>1. halfOpenProbe' \in BOOLEAN /\ ~halfOpenProbe'
        BY <2>1, <3>2, Zenon DEF Admit
      <4>2. /\ state' = "HalfOpen" /\ probes' = 1
            /\ UNCHANGED <<failureCount, successCount, age, streak>>
        BY <2>1, <3>2 DEF Admit
      <4> QED
        BY <1>2, <4>1, <4>2
    <3>3. CASE state = "HalfOpen"
      <4>1. halfOpenProbe' \in BOOLEAN /\ halfOpenProbe'
        BY <2>1, <3>3, Zenon DEF Admit
      <4>2. /\ ~halfOpenProbe /\ state' = "HalfOpen" /\ probes' = probes + 1
            /\ UNCHANGED <<failureCount, successCount, age, streak>>
        BY <2>1, <3>3 DEF Admit
      <4> QED
        BY <1>2, <3>3, <4>1, <4>2
    <3> QED
      BY <1>2, <3>1, <3>2, <3>3
  <2>2. CASE RecordSuccess
    <3>1. CASE state = "HalfOpen"
      <4>1. EnterState("Closed")
        BY <2>2, <3>1 DEF RecordSuccess
      <4> QED
        BY <4>1, Entered
    <3>2. CASE state # "HalfOpen"
      BY <1>2, <2>2, <3>2 DEF RecordSuccess, breakerVars
    <3> QED
      BY <3>1, <3>2
  <2>3. CASE RecordFailure
    BY <1>2, <2>3, FailureInv
  <2>4. CASE Tick
    BY <1>2, <2>4 DEF Tick
  <2>5. CASE UNCHANGED breakerVars
    BY <1>2, <2>5 DEF breakerVars
  <2> QED
    BY <1>2, <2>1, <2>2, <2>3, <2>4, <2>5 DEF BreakerNext
<1> QED
  BY <1>1, <1>2

\* The breaker's state is well typed and its window accounting is exact.
THEOREM BreakerSafe == BreakerSpec => []BreakerInv
  BY BreakerInductive, PTL DEF BreakerSpec

\* A closed breaker never lets two windows of consecutive failures pass.
THEOREM OpensInTimeAlways == BreakerSpec => []OpensInTime
<1>1. BreakerInv => OpensInTime
  BY BreakerAssumption DEF BreakerInv, BreakerTypeOK, Window, OpensInTime
<1> QED
  BY <1>1, BreakerSafe, PTL

\* A half-open breaker admits at most two requests before it is decided.
THEOREM TwoProbesAlways == BreakerSpec => []AtMostTwoProbes
<1>1. BreakerInv => AtMostTwoProbes
  BY DEF BreakerInv
<1> QED
  BY <1>1, BreakerSafe, PTL
-----------------------------------------------------------------------------
\* The connection pools (RpcPool).

ConnSeq == UNION {[1 .. n -> Ids] : n \in 0 .. MaxActive}

PoolTypeOK ==
  /\ pools \in [Addrs -> Pool \cup {None}]
  /\ conn \in [Ids -> {"none", "live", "dead"}]
  /\ home \in [Ids -> Addrs \cup {None}]
  /\ todo \in SUBSET Addrs

\* No connection is twice in a list.
Distinct(s) == \A j, k \in DOMAIN s : s[j] = s[k] => j = k

\* A pool lists connections that it made, each once; one that was made and lives is
\* in the list of its pool; a closed pool has none that lives.
PoolKept ==
  /\ \A a \in todo : pools[a] # None
  /\ \A a \in Addrs : pools[a] # None =>
       /\ Distinct(pools[a].conns)
       /\ \A k \in DOMAIN pools[a].conns : home[pools[a].conns[k]] = a
       /\ pools[a].closed => \A i \in Ids : home[i] = a => conn[i] = "dead"
  /\ \A i \in Ids :
       /\ conn[i] = "none" <=> home[i] = None
       /\ conn[i] = "live" => /\ pools[home[i]] # None
                              /\ \E k \in DOMAIN pools[home[i]].conns : pools[home[i]].conns[k] = i

PoolInv == PoolTypeOK /\ PoolKept

\* A list without its i-th element.
LEMMA Removed ==
  ASSUME NEW X, NEW s \in Seq(X), NEW i \in 1 .. Len(s)
  PROVE  /\ Remove(s, i) \in Seq(X) /\ Len(Remove(s, i)) = Len(s) - 1
         /\ \A j \in 1 .. Len(s) - 1 : Remove(s, i)[j] = IF j < i THEN s[j] ELSE s[j + 1]
<1> DEFINE a == SubSeq(s, 1, i - 1)  b == SubSeq(s, i + 1, Len(s))
<1>1. Len(s) \in Nat /\ i \in Nat /\ 1 <= i /\ i <= Len(s)
  OBVIOUS
<1>2. a \in Seq(X) /\ Len(a) = i - 1 /\ \A j \in 1 .. i - 1 : a[j] = s[j]
  <2>1. \A j \in 1 .. i - 1 : s[j] \in X
    BY <1>1
  <2> QED
    BY <1>1, <2>1
<1>3. b \in Seq(X) /\ Len(b) = Len(s) - i /\ \A j \in 1 .. Len(s) - i : b[j] = s[i + j]
  <2>1. \A j \in i + 1 .. Len(s) : s[j] \in X
    BY <1>1
  <2> QED
    BY <1>1, <2>1
<1>4. Remove(s, i) = a \o b
  BY DEF Remove
<1> HIDE DEF a, b
<1>5. /\ a \o b \in Seq(X) /\ Len(a \o b) = Len(a) + Len(b)
      /\ \A j \in 1 .. Len(a) + Len(b) : (a \o b)[j] = IF j <= Len(a) THEN a[j] ELSE b[j - Len(a)]
  <2>1. a \in Seq(X) /\ b \in Seq(X)
    BY <1>2, <1>3
  <2> QED
    BY <2>1
<1>6. Len(a) + Len(b) = Len(s) - 1
  BY <1>1, <1>2, <1>3
<1>7. ASSUME NEW j \in 1 .. Len(s) - 1 PROVE (a \o b)[j] = IF j < i THEN s[j] ELSE s[j + 1]
  <2>1. j \in Nat /\ j \in 1 .. Len(a) + Len(b)
    BY <1>6, <1>1
  <2>2. CASE j < i
    <3>1. j <= Len(a) /\ j \in 1 .. i - 1
      BY <2>1, <2>2, <1>1, <1>2
    <3> QED
      BY <2>1, <2>2, <3>1, <1>2, <1>5
  <2>3. CASE ~(j < i)
    <3>1. ~(j <= Len(a))
      BY <2>1, <2>3, <1>1, <1>2
    <3>2. PICK k \in 1 .. Len(s) - i : k = j - Len(a) /\ i + k = j + 1
      <4>1. j - Len(a) \in 1 .. Len(s) - i /\ i + (j - Len(a)) = j + 1
        BY <2>1, <2>3, <1>1, <1>2
      <4> QED
        BY <4>1
    <3>3. (a \o b)[j] = b[k]
      BY <2>1, <3>1, <3>2, <1>5
    <3> QED
      BY <2>3, <3>2, <3>3, <1>3
  <2> QED
    BY <2>2, <2>3
<1> QED
  BY <1>4, <1>5, <1>6, <1>7

\* What the loop of Acquire keeps, of a pool p that is full: its list is shorter by
\* dead connections only, by one at least unless a connection was found.
ScanKept(p, s, n) ==
  /\ s \in [conns : Seq(Ids), found : Ids \cup {None}, next : 0 .. MaxActive - 1]
  /\ Len(s.conns) <= MaxActive /\ Distinct(s.conns)
  /\ \A k \in DOMAIN s.conns : \E j \in DOMAIN p.conns : s.conns[k] = p.conns[j]
  /\ \A j \in DOMAIN p.conns : conn[p.conns[j]] = "live" =>
       \E k \in DOMAIN s.conns : s.conns[k] = p.conns[j]
  /\ (s.found = None /\ n > 0) => Len(s.conns) < MaxActive

ScanStart(p) == [conns |-> p.conns, found |-> None, next |-> p.next]

\* An iteration keeps it (tcp_connection_pool.go:51-65).
LEMMA ScanStepKeeps ==
  ASSUME NEW p, p.conns \in Seq(Ids), Len(p.conns) = MaxActive, p.next \in Nat, PoolTypeOK,
         NEW n \in Nat, n > 0, NEW s, ScanKept(p, s, n - 1), n = 1 => s = ScanStart(p)
  PROVE  ScanKept(p, ScanStep(p, s, n), n)
<1> DEFINE len == Len(s.conns)  at == ((p.next + n - 1) % len) + 1
<1>1. /\ s \in [conns : Seq(Ids), found : Ids \cup {None}, next : 0 .. MaxActive - 1]
      /\ s.conns \in Seq(Ids) /\ len \in Nat /\ MaxActive \in Nat \ {0} /\ len <= MaxActive
      /\ DOMAIN s.conns = 1 .. len
  BY PoolAssumption DEF ScanKept
<1>2. CASE s.found # None \/ n - 1 >= len
  <2>1. ScanStep(p, s, n) = s
    BY <1>2 DEF ScanStep
  <2>2. (s.found = None /\ n > 0) => Len(s.conns) < MaxActive
    <3>1. CASE n = 1
      <4>1. s.found = None /\ Len(s.conns) = MaxActive
        BY <3>1 DEF ScanStart
      <4> QED
        BY <1>1, <1>2, <3>1, <4>1
    <3>2. CASE n # 1
      BY <3>2 DEF ScanKept
    <3> QED
      BY <3>1, <3>2
  <2> QED
    BY <2>1, <2>2 DEF ScanKept
<1>3. CASE ~(s.found # None \/ n - 1 >= len)
  <2>1. s.found = None /\ n - 1 < len /\ len > 0
    BY <1>1, <1>3
  <2>2. at \in 1 .. len /\ at % len \in 0 .. MaxActive - 1
    <3>1. p.next + n - 1 \in Nat
      OBVIOUS
    <3>2. (p.next + n - 1) % len \in 0 .. len - 1
      BY <1>1, <2>1, <3>1
    <3>3. at \in 1 .. len
      BY <1>1, <2>1, <3>2
    <3> HIDE DEF at
    <3>4. at % len \in 0 .. len - 1
      BY <1>1, <2>1, <3>3
    <3> QED
      BY <1>1, <3>3, <3>4
  <2>3. CASE conn[s.conns[at]] = "live"
    <3> DEFINE r == [s EXCEPT !.found = s.conns[at], !.next = at % len]
    <3>1. ScanStep(p, s, n) = r
      BY <1>3, <2>3 DEF ScanStep
    <3> HIDE DEF at, len
    <3>2. s.conns[at] \in Ids /\ s.conns[at] # None
      BY <1>1, <2>2, PoolAssumption DEF len
    <3>3. r \in [conns : Seq(Ids), found : Ids \cup {None}, next : 0 .. MaxActive - 1]
          /\ r.conns = s.conns /\ r.found # None
      BY <1>1, <2>2, <3>2
    <3> HIDE DEF r
    <3> QED
      BY <3>1, <3>3 DEF ScanKept
  <2>4. CASE conn[s.conns[at]] # "live"
    <3> DEFINE c == Remove(s.conns, at)  r == [s EXCEPT !.conns = c]
    <3>1. ScanStep(p, s, n) = r
      BY <1>3, <2>4 DEF ScanStep
    <3>2. /\ c \in Seq(Ids) /\ Len(c) = len - 1
          /\ \A j \in 1 .. len - 1 : c[j] = IF j < at THEN s.conns[j] ELSE s.conns[j + 1]
      BY <1>1, <2>2, Removed
    <3> HIDE DEF at, len, c
    <3>3. r \in [conns : Seq(Ids), found : Ids \cup {None}, next : 0 .. MaxActive - 1]
          /\ r.conns = c /\ r.found = s.found
      BY <1>1, <3>2
    <3>4. DOMAIN c = 1 .. len - 1
      BY <1>1, <2>1, <3>2
    <3>5. Distinct(c)
      <4> SUFFICES ASSUME NEW j \in 1 .. len - 1, NEW k \in 1 .. len - 1, c[j] = c[k] PROVE j = k
        BY <3>4 DEF Distinct
      <4>1. PICK jj \in 1 .. len : c[j] = s.conns[jj] /\ jj = IF j < at THEN j ELSE j + 1
        BY <1>1, <2>1, <2>2, <3>2
      <4>2. PICK kk \in 1 .. len : c[k] = s.conns[kk] /\ kk = IF k < at THEN k ELSE k + 1
        BY <1>1, <2>1, <2>2, <3>2
      <4>3. jj = kk
        BY <4>1, <4>2, <1>1, ZenonT(40) DEF ScanKept, Distinct
      <4> QED
        BY <4>1, <4>2, <4>3, <1>1, <2>2
    <3>6. ASSUME NEW j \in DOMAIN c PROVE \E k \in DOMAIN s.conns : c[j] = s.conns[k]
      <4>1. j \in DOMAIN s.conns /\ (~(j < at) => j + 1 \in DOMAIN s.conns)
        BY <1>1, <2>1, <2>2, <3>4
      <4> QED
        BY <4>1, <3>2, <3>4
    <3>7. ASSUME NEW k \in DOMAIN s.conns, k # at PROVE \E j \in DOMAIN c : c[j] = s.conns[k]
      <4>0. k \in Nat /\ at \in Nat /\ k >= 1 /\ k <= len
        BY <1>1, <2>2
      <4>1. CASE k < at
        <5>1. k \in DOMAIN c /\ c[k] = s.conns[k]
          BY <4>0, <4>1, <1>1, <2>2, <3>2, <3>4
        <5> QED
          BY <5>1
      <4>2. CASE k > at
        <5>1. PICK j \in 1 .. len - 1 : j = k - 1
          BY <4>0, <4>2, <1>1, <2>2
        <5>2. ~(j < at) /\ j + 1 = k
          BY <4>0, <4>2, <5>1, <1>1
        <5> QED
          BY <5>2, <3>2, <3>4
      <4> QED
        BY <4>0, <4>1, <4>2, <3>7
    <3>8. ASSUME NEW j \in DOMAIN p.conns, conn[p.conns[j]] = "live"
          PROVE  \E k \in DOMAIN c : c[k] = p.conns[j]
      <4>1. PICK k \in DOMAIN s.conns : s.conns[k] = p.conns[j]
        BY <3>8 DEF ScanKept
      <4>2. k # at
        BY <4>1, <3>8, <2>4
      <4> QED
        BY <4>1, <4>2, <3>7
    <3>9. \A k \in DOMAIN c : \E j \in DOMAIN p.conns : c[k] = p.conns[j]
      BY <3>6 DEF ScanKept
    <3>10. Len(c) < MaxActive
      BY <1>1, <3>2, <2>1
    <3> HIDE DEF r
    <3> QED
      BY <3>1, <3>2, <3>3, <3>5, <3>8, <3>9, <3>10, <1>1 DEF ScanKept
  <2> QED
    BY <2>3, <2>4
<1> QED
  BY <1>2, <1>3

ScanTable(p, k, f) == f = [n \in 0 .. k |-> IF n = 0 THEN ScanStart(p) ELSE ScanStep(p, f[n - 1], n)]

\* The iterations of the loop make up a table, whatever their number.
LEMMA ScanTableExists ==
  ASSUME NEW p, NEW k \in Nat
  PROVE  \E f : ScanTable(p, k, f)
<1> DEFINE Bad == {n \in Nat : ~\E f : ScanTable(p, n, f)}
           R == OpToRel(<, Nat)
<1>1. \A x, y \in Nat : y < x => <<y, x>> \in R
  BY DEF OpToRel
<1>2. IsWellFoundedOn(R, Nat)
  BY NatLessThanWellFounded
<1> HIDE DEF R
<1>3. ASSUME Bad # {} PROVE FALSE
  <2>1. PICK m \in Bad : \A y \in Bad : ~(<<y, m>> \in R)
    BY <1>2, <1>3, WFMin
  <2>2. m \in Nat /\ ~\E f : ScanTable(p, m, f)
    OBVIOUS
  <2>3. CASE m = 0
    <3> DEFINE f == [n \in 0 .. 0 |-> ScanStart(p)]
    <3>1. \A n \in 0 .. 0 : n = 0
      OBVIOUS
    <3>2. [n \in 0 .. 0 |-> IF n = 0 THEN ScanStart(p) ELSE ScanStep(p, f[n - 1], n)] = f
      BY <3>1
    <3>3. ScanTable(p, 0, f)
      BY <3>2, Zenon DEF ScanTable
    <3> QED
      BY <2>2, <2>3, <3>3
  <2>4. CASE m # 0
    <3>1. m - 1 \in Nat /\ m - 1 < m
      BY <2>2, <2>4
    <3>2. PICK g : ScanTable(p, m - 1, g)
      <4>1. m - 1 \notin Bad
        BY <2>1, <2>2, <3>1, <1>1
      <4> QED
        BY <3>1, <4>1
    <3> DEFINE f == [n \in 0 .. m |-> IF n = m THEN ScanStep(p, g[m - 1], m) ELSE g[n]]
               h == [n \in 0 .. m |-> IF n = 0 THEN ScanStart(p) ELSE ScanStep(p, f[n - 1], n)]
    <3>3. \A n \in 0 .. m - 1 : g[n] = IF n = 0 THEN ScanStart(p) ELSE ScanStep(p, g[n - 1], n)
      BY <3>2 DEF ScanTable
    <3>4. ASSUME NEW n \in 0 .. m PROVE f[n] = IF n = 0 THEN ScanStart(p) ELSE ScanStep(p, f[n - 1], n)
      <4>1. CASE n = m
        <5>1. m \in 0 .. m /\ m - 1 \in 0 .. m /\ m - 1 # m
          BY <3>1
        <5>2. f[m - 1] = g[m - 1] /\ f[m] = ScanStep(p, g[m - 1], m)
          BY <5>1
        <5> HIDE DEF f
        <5> QED
          BY <4>1, <5>2, <2>4
      <4>2. CASE n = 0
        <5>1. 0 \in 0 .. m /\ 0 # m /\ 0 \in 0 .. m - 1
          BY <3>1, <2>4
        <5>2. f[0] = g[0] /\ g[0] = ScanStart(p)
          BY <5>1, <3>3
        <5> HIDE DEF f
        <5> QED
          BY <4>2, <5>2
      <4>3. CASE n # m /\ n # 0
        <5>1. n \in 0 .. m /\ n \in 0 .. m - 1 /\ n - 1 \in 0 .. m /\ n - 1 # m
          BY <4>3, <2>2
        <5>2. f[n] = g[n] /\ f[n - 1] = g[n - 1]
          BY <4>3, <5>1
        <5>3. g[n] = IF n = 0 THEN ScanStart(p) ELSE ScanStep(p, g[n - 1], n)
          BY <3>3, <5>1
        <5> HIDE DEF f
        <5> QED
          BY <5>2, <5>3
      <4> QED
        BY <4>1, <4>2, <4>3
    <3>5. f = h
      <4>1. DOMAIN f = 0 .. m /\ DOMAIN h = 0 .. m /\ \A n \in 0 .. m : f[n] = h[n]
        BY <3>4
      <4>2. f = [n \in 0 .. m |-> f[n]] /\ h = [n \in 0 .. m |-> h[n]]
        OBVIOUS
      <4> HIDE DEF f, h
      <4> QED
        BY <4>1, <4>2
    <3>6. ScanTable(p, m, f)
      BY <3>5, Zenon DEF ScanTable
    <3> QED
      BY <2>2, <3>6
  <2> QED
    BY <2>3, <2>4
<1> QED
  BY <1>3

\* The loop keeps it (tcp_connection_pool.go:50-65).
LEMMA ScanKeeps ==
  ASSUME NEW p, p.conns \in Seq(Ids), Len(p.conns) = MaxActive, p.next \in 0 .. MaxActive - 1,
         Distinct(p.conns), PoolTypeOK
  PROVE  ScanKept(p, Scan(p, Len(p.conns)), Len(p.conns))
<1> DEFINE k == Len(p.conns)
           S == CHOOSE f : ScanTable(p, k, f)
           Bad == {n \in Nat : n \in 0 .. k /\ ~ScanKept(p, S[n], n)}
           R == OpToRel(<, Nat)
<1>1. k \in Nat /\ k > 0 /\ MaxActive \in Nat
  BY PoolAssumption
<1>2. ScanTable(p, k, S)
  BY <1>1, ScanTableExists
<1>3. Scan(p, k) = S[k]
  BY DEF Scan, ScanTable, ScanStart
<1> HIDE DEF S
<1>4. S[0] = ScanStart(p) /\ \A n \in 1 .. k : S[n] = ScanStep(p, S[n - 1], n)
  BY <1>1, <1>2 DEF ScanTable
<1>5. \A x, y \in Nat : y < x => <<y, x>> \in R
  BY DEF OpToRel
<1>6. IsWellFoundedOn(R, Nat)
  BY NatLessThanWellFounded
<1> HIDE DEF R, k
<1>7. ScanKept(p, S[0], 0)
  <2>1. ScanStart(p) \in [conns : Seq(Ids), found : Ids \cup {None}, next : 0 .. MaxActive - 1]
    BY DEF ScanStart
  <2>2. ScanStart(p).conns = p.conns
    BY DEF ScanStart
  <2> QED
    BY <2>1, <2>2, <1>1, <1>4 DEF ScanKept, k
<1>8. ASSUME Bad # {} PROVE FALSE
  <2>1. PICK m \in Bad : \A y \in Bad : ~(<<y, m>> \in R)
    BY <1>6, <1>8, WFMin
  <2>2. m \in Nat /\ m \in 0 .. k /\ ~ScanKept(p, S[m], m)
    OBVIOUS
  <2>3. m # 0
    BY <2>2, <1>7
  <2>4. m - 1 \in Nat /\ m - 1 < m /\ m - 1 \in 0 .. k /\ m \in 1 .. k
    BY <1>1, <2>2, <2>3
  <2>5. ScanKept(p, S[m - 1], m - 1)
    BY <2>1, <2>2, <2>4, <1>5
  <2>6. m = 1 => S[m - 1] = ScanStart(p)
    BY <1>4
  <2>7. ScanKept(p, ScanStep(p, S[m - 1], m), m)
    <3>1. p.next \in Nat /\ m > 0
      BY <1>1, <2>2, <2>3
    <3>2. PICK s : s = S[m - 1]
      OBVIOUS
    <3> QED
      BY <3>1, <3>2, <2>2, <2>5, <2>6, ScanStepKeeps
  <2> QED
    BY <2>2, <2>4, <2>7, <1>4
<1>9. k \notin Bad /\ k \in 0 .. k
  BY <1>1, <1>8
<1> QED
  BY <1>1, <1>3, <1>9 DEF k

\* A list of connections fits into a pool if it is not too long.
LEMMA ConnSeqIs ==
  /\ \A s : s \in ConnSeq <=> s \in Seq(Ids) /\ Len(s) <= MaxActive
  /\ Pool = [conns : ConnSeq, next : 0 .. MaxActive - 1, closed : BOOLEAN]
<1>1. MaxActive \in Nat
  BY PoolAssumption
<1>2. ASSUME NEW s, s \in ConnSeq PROVE s \in Seq(Ids) /\ Len(s) <= MaxActive
  <2>1. PICK n \in 0 .. MaxActive : s \in [1 .. n -> Ids]
    BY <1>2 DEF ConnSeq
  <2>2. n \in Nat /\ n <= MaxActive
    BY <1>1
  <2>3. s \in Seq(Ids) /\ Len(s) = n
    BY <2>1, <2>2
  <2> QED
    BY <2>2, <2>3
<1>3. ASSUME NEW s, s \in Seq(Ids), Len(s) <= MaxActive PROVE s \in ConnSeq
  <2>1. Len(s) \in 0 .. MaxActive /\ s \in [1 .. Len(s) -> Ids]
    BY <1>1, <1>3
  <2> QED
    BY <2>1 DEF ConnSeq
<1>4. Pool = [conns : ConnSeq, next : 0 .. MaxActive - 1, closed : BOOLEAN]
  BY DEF Pool, ConnSeq
<1> QED
  BY <1>2, <1>3, <1>4

\* The pool of an address.
LEMMA PoolOf ==
  ASSUME PoolInv, NEW a \in Addrs, pools[a] # None
  PROVE  /\ pools[a] \in Pool /\ pools[a].conns \in Seq(Ids) /\ Len(pools[a].conns) <= MaxActive
         /\ Len(pools[a].conns) \in Nat /\ DOMAIN pools[a].conns = 1 .. Len(pools[a].conns)
         /\ pools[a].next \in 0 .. MaxActive - 1 /\ pools[a].closed \in BOOLEAN
<1>1. pools[a] \in Pool
  BY DEF PoolInv, PoolTypeOK
<1>2. pools[a].conns \in ConnSeq /\ pools[a].next \in 0 .. MaxActive - 1 /\ pools[a].closed \in BOOLEAN
  BY <1>1, ConnSeqIs
<1>3. pools[a].conns \in Seq(Ids) /\ Len(pools[a].conns) <= MaxActive
  BY <1>2, ConnSeqIs
<1> QED
  BY <1>1, <1>2, <1>3

\* A pool that gets a list of its connections, with all that live among them, and
\* perhaps a new one at its end.
LEMMA ListKeeps ==
  ASSUME PoolInv, NEW a \in Addrs, pools[a] # None, ~pools[a].closed,
         NEW cs \in Seq(Ids), Len(cs) <= MaxActive, Distinct(cs), NEW nx \in 0 .. MaxActive - 1,
         \A k \in DOMAIN cs : home[cs[k]] = a,
         \A i \in Ids : (conn[i] = "live" /\ home[i] = a) => \E k \in DOMAIN cs : cs[k] = i,
         pools' = [pools EXCEPT ![a] = [pools[a] EXCEPT !.conns = cs, !.next = nx]],
         UNCHANGED <<conn, home, todo>>
  PROVE  PoolInv'
<1> DEFINE r == [pools[a] EXCEPT !.conns = cs, !.next = nx]
<1>1. pools[a] \in Pool /\ pools[a].closed \in BOOLEAN
  BY PoolOf
<1>2. cs \in ConnSeq
  BY ConnSeqIs
<1>3. r \in Pool /\ r.conns = cs /\ r.closed = pools[a].closed
  BY <1>1, <1>2, ConnSeqIs
<1>4. r # None
  BY <1>3, PoolAssumption
<1>5. pools' = [pools EXCEPT ![a] = r]
  OBVIOUS
<1> HIDE DEF r
<1>6. /\ pools' \in [Addrs -> Pool \cup {None}] /\ pools'[a] = r
      /\ \A b \in Addrs : b # a => pools'[b] = pools[b]
  BY <1>3, <1>5 DEF PoolInv, PoolTypeOK
<1>7. PoolTypeOK'
  BY <1>6 DEF PoolInv, PoolTypeOK
<1>8. \A b \in todo' : pools'[b] # None
  BY <1>4, <1>6 DEF PoolInv, PoolTypeOK, PoolKept
<1>9. ASSUME NEW b \in Addrs, pools'[b] # None
      PROVE  /\ Distinct(pools'[b].conns)
             /\ \A k \in DOMAIN pools'[b].conns : home'[pools'[b].conns[k]] = b
             /\ pools'[b].closed => \A i \in Ids : home'[i] = b => conn'[i] = "dead"
  <2>1. CASE b = a
    BY <2>1, <1>3, <1>6
  <2>2. CASE b # a
    BY <2>2, <1>6, <1>9 DEF PoolInv, PoolKept
  <2> QED
    BY <2>1, <2>2
<1>10. ASSUME NEW i \in Ids
       PROVE  /\ conn'[i] = "none" <=> home'[i] = None
              /\ conn'[i] = "live" => /\ pools'[home'[i]] # None
                                      /\ \E k \in DOMAIN pools'[home'[i]].conns : pools'[home'[i]].conns[k] = i
  <2>1. conn'[i] = "none" <=> home'[i] = None
    BY DEF PoolInv, PoolKept
  <2>2. CASE conn[i] = "live"
    <3>1. home[i] \in Addrs
      BY <2>2 DEF PoolInv, PoolTypeOK, PoolKept
    <3>2. CASE home[i] = a
      BY <2>1, <2>2, <3>2, <1>3, <1>4, <1>6
    <3>3. CASE home[i] # a
      BY <2>1, <2>2, <3>1, <3>3, <1>6 DEF PoolInv, PoolKept
    <3> QED
      BY <3>2, <3>3
  <2> QED
    BY <2>1, <2>2
<1>11. PoolKept'
  BY <1>8, <1>9, <1>10 DEF PoolKept, Distinct
<1> QED
  BY <1>7, <1>11 DEF PoolInv

\* A connection is made, or not (tcp_connection_pool.go:41-48, 67-75).
LEMMA ConnectKeeps ==
  ASSUME PoolInv, NEW a \in Addrs, pools[a] # None, ~pools[a].closed,
         NEW cs \in Seq(Ids), Len(cs) < MaxActive, Distinct(cs), NEW nx \in 0 .. MaxActive - 1,
         \A k \in DOMAIN cs : home[cs[k]] = a,
         \A i \in Ids : (conn[i] = "live" /\ home[i] = a) => \E k \in DOMAIN cs : cs[k] = i,
         Connect(a, cs, nx), UNCHANGED todo
  PROVE  PoolInv'
<1>0. Len(cs) \in Nat /\ DOMAIN cs = 1 .. Len(cs) /\ MaxActive \in Nat
  BY PoolAssumption
<1>1. CASE /\ pools' = [pools EXCEPT ![a] = [pools[a] EXCEPT !.conns = cs, !.next = nx]]
           /\ UNCHANGED <<conn, home>>
  <2>1. Len(cs) <= MaxActive
    BY <1>0
  <2>2. pools' = [pools EXCEPT ![a] = [pools[a] EXCEPT !.conns = cs, !.next = nx]]
    BY <1>1
  <2> QED
    BY <1>1, <2>1, <2>2, ListKeeps
<1>2. ASSUME NEW i \in Ids, conn[i] = "none", conn' = [conn EXCEPT ![i] = "live"],
             home' = [home EXCEPT ![i] = a],
             pools' = [pools EXCEPT ![a] = [pools[a] EXCEPT !.conns = Append(cs, i), !.next = nx]]
      PROVE  PoolInv'
  <2> DEFINE t == Append(cs, i)  r == [pools[a] EXCEPT !.conns = t, !.next = nx]
  <2>1. pools[a] \in Pool /\ pools[a].closed \in BOOLEAN
    BY PoolOf
  <2>2. /\ t \in Seq(Ids) /\ Len(t) = Len(cs) + 1 /\ DOMAIN t = 1 .. Len(cs) + 1
        /\ t[Len(cs) + 1] = i /\ \A k \in DOMAIN cs : t[k] = cs[k]
    <3>1. cs \in Seq(Ids)
      BY <1>0
    <3>2. /\ t \in Seq(Ids) /\ Len(t) = Len(cs) + 1 /\ t[Len(cs) + 1] = i
          /\ \A k \in 1 .. Len(cs) : t[k] = cs[k]
      BY <3>1, AppendProperties
    <3> HIDE DEF t
    <3>3. DOMAIN t = 1 .. Len(t) /\ DOMAIN cs = 1 .. Len(cs)
      BY <3>1, <3>2, LenProperties
    <3> QED
      BY <3>2, <3>3
  <2> HIDE DEF t
  <2>3. t \in ConnSeq
    <3>1. Len(t) <= MaxActive
      BY <2>2, <1>0
    <3> QED
      BY <2>2, <3>1, ConnSeqIs
  <2>4. r \in Pool /\ r.conns = t /\ r.closed = pools[a].closed
    BY <2>1, <2>3, ConnSeqIs
  <2>5. r # None
    BY <2>4, PoolAssumption
  <2>6. pools' = [pools EXCEPT ![a] = r]
    BY <1>2 DEF t
  <2> HIDE DEF r
  <2>7. /\ pools' \in [Addrs -> Pool \cup {None}] /\ pools'[a] = r
        /\ \A b \in Addrs : b # a => pools'[b] = pools[b]
    BY <2>4, <2>6 DEF PoolInv, PoolTypeOK
  <2>8. /\ conn' \in [Ids -> {"none", "live", "dead"}] /\ conn'[i] = "live"
        /\ home' \in [Ids -> Addrs \cup {None}] /\ home'[i] = a
        /\ \A j \in Ids : j # i => conn'[j] = conn[j] /\ home'[j] = home[j]
    BY <1>2 DEF PoolInv, PoolTypeOK
  <2>9. PoolTypeOK'
    BY <2>7, <2>8 DEF PoolInv, PoolTypeOK
  <2>10. home[i] = None /\ a # None
    BY <1>2, PoolAssumption DEF PoolInv, PoolKept
  <2>11. DOMAIN t = DOMAIN cs \cup {Len(cs) + 1} /\ \A k \in DOMAIN cs : cs[k] \in Ids /\ cs[k] # i
    BY <2>2, <2>10, <1>0
  <2>12. Distinct(t)
    BY <2>2, <2>11 DEF Distinct
  <2>13. \A k \in DOMAIN t : home'[t[k]] = a
    BY <2>2, <2>8, <2>11
  <2>14. \A j \in Ids : (conn'[j] = "live" /\ home'[j] = a) => \E k \in DOMAIN t : t[k] = j
    BY <2>2, <2>8, <2>11, SMTT(30)
  <2>15. \A b \in todo' : pools'[b] # None
    BY <2>5, <2>7 DEF PoolInv, PoolTypeOK, PoolKept
  <2>16. ASSUME NEW b \in Addrs, pools'[b] # None
         PROVE  /\ Distinct(pools'[b].conns)
                /\ \A k \in DOMAIN pools'[b].conns : home'[pools'[b].conns[k]] = b
                /\ pools'[b].closed => \A j \in Ids : home'[j] = b => conn'[j] = "dead"
    <3>1. CASE b = a
      BY <3>1, <2>4, <2>7, <2>12, <2>13
    <3>2. CASE b # a
      <4>1. /\ pools[b] # None /\ Distinct(pools[b].conns)
            /\ \A k \in DOMAIN pools[b].conns : home[pools[b].conns[k]] = b
            /\ pools[b].closed => \A j \in Ids : home[j] = b => conn[j] = "dead"
        BY <3>2, <2>7, <2>16 DEF PoolInv, PoolKept
      <4>2. \A k \in DOMAIN pools[b].conns : pools[b].conns[k] \in Ids
        BY <4>1, PoolOf
      <4>3. b # None
        BY PoolAssumption
      <4> QED
        BY <3>2, <4>1, <4>2, <4>3, <2>7, <2>8, <2>10
    <3> QED
      BY <3>1, <3>2
  <2>17. ASSUME NEW j \in Ids
         PROVE  /\ conn'[j] = "none" <=> home'[j] = None
                /\ conn'[j] = "live" => /\ pools'[home'[j]] # None
                                        /\ \E k \in DOMAIN pools'[home'[j]].conns : pools'[home'[j]].conns[k] = j
    <3>1. conn'[j] = "none" <=> home'[j] = None
      <4>1. CASE j = i
        BY <4>1, <2>8, <2>10
      <4>2. CASE j # i
        BY <4>2, <2>8 DEF PoolInv, PoolKept
      <4> QED
        BY <4>1, <4>2
    <3>2. CASE conn'[j] = "live"
      <4>1. CASE home'[j] = a
        BY <3>1, <3>2, <4>1, <2>4, <2>5, <2>7, <2>14
      <4>2. CASE home'[j] # a
        <5>1. j # i /\ conn[j] = "live" /\ home[j] = home'[j] /\ home[j] \in Addrs
          BY <3>1, <3>2, <4>2, <2>8 DEF PoolInv, PoolTypeOK, PoolKept
        <5>2. pools[home[j]] # None /\ \E k \in DOMAIN pools[home[j]].conns : pools[home[j]].conns[k] = j
          BY <5>1 DEF PoolInv, PoolKept
        <5> QED
          BY <3>1, <4>2, <5>1, <5>2, <2>7
      <4> QED
        BY <4>1, <4>2
    <3> QED
      BY <3>1, <3>2
  <2>18. PoolKept'
    BY <2>15, <2>16, <2>17 DEF PoolKept, Distinct
  <2> QED
    BY <2>9, <2>18 DEF PoolInv
<1> QED
  BY <1>1, <1>2 DEF Connect

\* Acquire, with its loop over the list that it shortens (tcp_connection_pool.go:32-75).
LEMMA AcquireKeeps ==
  ASSUME PoolInv, NEW a \in Addrs, Acquire(a)
  PROVE  PoolInv'
<1> DEFINE p == pools[a]
<1>1. p # None /\ ~p.closed /\ UNCHANGED todo
  BY DEF Acquire
<1>2. /\ p.conns \in Seq(Ids) /\ Len(p.conns) <= MaxActive /\ Len(p.conns) \in Nat
      /\ DOMAIN p.conns = 1 .. Len(p.conns) /\ p.next \in 0 .. MaxActive - 1
  BY <1>1, PoolOf
<1>3. MaxActive \in Nat \ {0}
  BY PoolAssumption
<1>4. /\ Distinct(p.conns) /\ \A k \in DOMAIN p.conns : home[p.conns[k]] = a
      /\ \A i \in Ids : (conn[i] = "live" /\ home[i] = a) => \E k \in DOMAIN p.conns : p.conns[k] = i
  BY <1>1 DEF PoolInv, PoolKept
<1>5. CASE Len(p.conns) < MaxActive
  <2>1. Connect(a, p.conns, p.next)
    BY <1>5 DEF Acquire
  <2> QED
    BY <2>1, <1>1, <1>2, <1>4, <1>5, ConnectKeeps
<1>6. CASE ~(Len(p.conns) < MaxActive)
  <2> DEFINE s == Scan(p, Len(p.conns))
  <2>1. Len(p.conns) = MaxActive
    BY <1>2, <1>3, <1>6
  <2>2. ScanKept(p, s, Len(p.conns))
    BY <1>2, <1>4, <2>1, ScanKeeps DEF PoolInv
  <2>3. IF s.found # None
        THEN /\ pools' = [pools EXCEPT ![a] = [pools[a] EXCEPT !.conns = s.conns, !.next = s.next]]
             /\ UNCHANGED <<conn, home>>
        ELSE Connect(a, s.conns, s.next)
    BY <1>6 DEF Acquire
  <2> HIDE DEF s
  <2>4. /\ s.conns \in Seq(Ids) /\ Len(s.conns) <= MaxActive /\ Distinct(s.conns)
        /\ s.next \in 0 .. MaxActive - 1
        /\ s.found = None => Len(s.conns) < MaxActive
    BY <2>1, <2>2, <1>3 DEF ScanKept
  <2>5. \A k \in DOMAIN s.conns : home[s.conns[k]] = a
    BY <2>2, <1>4 DEF ScanKept
  <2>6. \A i \in Ids : (conn[i] = "live" /\ home[i] = a) => \E k \in DOMAIN s.conns : s.conns[k] = i
    BY <2>2, <1>4 DEF ScanKept
  <2>7. CASE s.found # None
    <3>1. /\ pools' = [pools EXCEPT ![a] = [pools[a] EXCEPT !.conns = s.conns, !.next = s.next]]
          /\ UNCHANGED <<conn, home>>
      BY <2>3, <2>7
    <3>2. PICK cs \in Seq(Ids) : cs = s.conns
      BY <2>4
    <3>3. PICK nx \in 0 .. MaxActive - 1 : nx = s.next
      BY <2>4
    <3> QED
      BY <3>1, <3>2, <3>3, <1>1, <2>4, <2>5, <2>6, ListKeeps
  <2>8. CASE s.found = None
    <3>1. Connect(a, s.conns, s.next)
      BY <2>3, <2>8
    <3> QED
      BY <3>1, <1>1, <2>4, <2>5, <2>6, <2>8, ConnectKeeps
  <2> QED
    BY <2>7, <2>8
<1> QED
  BY <1>5, <1>6

\* A pool that is stored, a connection that breaks (client.go:111-119).
LEMMA StoreKeeps ==
  ASSUME PoolInv, (\E a \in Addrs : GetPool(a)) \/ (\E i \in Ids : Break(i))
  PROVE  PoolInv'
<1>1. ASSUME NEW a \in Addrs, GetPool(a) PROVE PoolInv'
  <2>1. /\ pools[a] = None /\ pools' = [pools EXCEPT ![a] = NewPool] /\ UNCHANGED <<conn, home>>
        /\ todo' = todo \/ todo' = todo \cup {a}
    BY <1>1 DEF GetPool
  <2>2. NewPool \in Pool /\ NewPool.conns = <<>> /\ NewPool.closed = FALSE
    <3>1. <<>> \in Seq(Ids) /\ Len(<<>>) <= MaxActive /\ 0 \in 0 .. MaxActive - 1
      BY PoolAssumption
    <3>2. <<>> \in ConnSeq
      BY <3>1, ConnSeqIs
    <3> QED
      BY <3>1, <3>2, ConnSeqIs DEF NewPool
  <2>3. NewPool # None
    BY <2>2, PoolAssumption
  <2>4. /\ pools' \in [Addrs -> Pool \cup {None}] /\ pools'[a] = NewPool
        /\ \A b \in Addrs : b # a => pools'[b] = pools[b]
    BY <2>1, <2>2 DEF PoolInv, PoolTypeOK
  <2>5. PoolTypeOK'
    BY <2>1, <2>4 DEF PoolInv, PoolTypeOK
  <2>6. \A b \in todo' : pools'[b] # None
    BY <2>1, <2>3, <2>4 DEF PoolInv, PoolTypeOK, PoolKept
  <2>7. ASSUME NEW b \in Addrs, pools'[b] # None
        PROVE  /\ Distinct(pools'[b].conns)
               /\ \A k \in DOMAIN pools'[b].conns : home'[pools'[b].conns[k]] = b
               /\ pools'[b].closed => \A i \in Ids : home'[i] = b => conn'[i] = "dead"
    <3>1. CASE b = a
      BY <3>1, <2>2, <2>4 DEF Distinct
    <3>2. CASE b # a
      BY <3>2, <2>1, <2>4, <2>7 DEF PoolInv, PoolKept
    <3> QED
      BY <3>1, <3>2
  <2>8. ASSUME NEW i \in Ids
        PROVE  /\ conn'[i] = "none" <=> home'[i] = None
               /\ conn'[i] = "live" => /\ pools'[home'[i]] # None
                                       /\ \E k \in DOMAIN pools'[home'[i]].conns : pools'[home'[i]].conns[k] = i
    <3>1. conn[i] = "live" => home[i] # a /\ home[i] \in Addrs
      BY <2>1 DEF PoolInv, PoolTypeOK, PoolKept
    <3> QED
      BY <3>1, <2>1, <2>4 DEF PoolInv, PoolKept
  <2>9. PoolKept'
    BY <2>6, <2>7, <2>8 DEF PoolKept, Distinct
  <2> QED
    BY <2>5, <2>9 DEF PoolInv
<1>2. ASSUME NEW i \in Ids, Break(i) PROVE PoolInv'
  <2>1. /\ UNCHANGED <<pools, home, todo>> /\ conn[i] = "live" /\ conn' \in [Ids -> {"none", "live", "dead"}]
        /\ conn'[i] = "dead" /\ \A j \in Ids : j # i => conn'[j] = conn[j]
    BY <1>2 DEF Break, PoolInv, PoolTypeOK
  <2>2. PoolTypeOK'
    BY <2>1 DEF PoolInv, PoolTypeOK
  <2>3. PoolKept'
    BY <2>1 DEF PoolInv, PoolKept, Distinct
  <2> QED
    BY <2>2, <2>3 DEF PoolInv
<1> QED
  BY <1>1, <1>2

\* Client.Close and the pools it meets (client.go:140-146, tcp_connection_pool.go:77-89).
LEMMA CloseKeeps ==
  ASSUME PoolInv, Close \/ CloseReturns \/ \E a \in Addrs : ClosePool(a)
  PROVE  PoolInv'
<1>1. CASE Close \/ CloseReturns
  <2>1. UNCHANGED <<pools, conn, home>> /\ todo' \in SUBSET Addrs /\ \A a \in todo' : pools[a] # None
    BY <1>1 DEF Close, CloseReturns, PoolInv, PoolTypeOK, PoolKept
  <2> QED
    BY <2>1 DEF PoolInv, PoolTypeOK, PoolKept, Distinct
<1>2. ASSUME NEW a \in Addrs, ClosePool(a) PROVE PoolInv'
  <2> DEFINE r == [pools[a] EXCEPT !.closed = TRUE]
             listed(i) == \E k \in DOMAIN pools[a].conns : pools[a].conns[k] = i
  <2>1. /\ pools[a] # None /\ pools' = [pools EXCEPT ![a] = r] /\ home' = home
        /\ todo' = todo \ {a} /\ conn' = [i \in Ids |-> IF listed(i) THEN "dead" ELSE conn[i]]
    BY <1>2 DEF ClosePool, PoolInv, PoolKept
  <2>2. pools[a] \in Pool
    BY <2>1, PoolOf
  <2>3. r \in Pool /\ r.conns = pools[a].conns
    BY <2>2, ConnSeqIs
  <2>4. r # None
    BY <2>3, PoolAssumption
  <2> HIDE DEF r
  <2>5. /\ pools' \in [Addrs -> Pool \cup {None}] /\ pools'[a] = r
        /\ \A b \in Addrs : b # a => pools'[b] = pools[b]
    BY <2>1, <2>3 DEF PoolInv, PoolTypeOK
  <2>6. /\ conn' \in [Ids -> {"none", "live", "dead"}]
        /\ \A i \in Ids : (listed(i) => conn'[i] = "dead") /\ (~listed(i) => conn'[i] = conn[i])
    BY <2>1 DEF PoolInv, PoolTypeOK
  <2>7. \A i \in Ids : listed(i) => home[i] = a
    BY <2>1 DEF PoolInv, PoolKept
  <2>8. \A i \in Ids : home[i] = a => conn'[i] = "dead"
    <3> SUFFICES ASSUME NEW i \in Ids, home[i] = a PROVE conn'[i] = "dead"
      OBVIOUS
    <3>1. conn[i] # "none"
      BY PoolAssumption DEF PoolInv, PoolKept
    <3>2. conn[i] = "live" => listed(i)
      BY DEF PoolInv, PoolKept
    <3>3. conn[i] \in {"none", "live", "dead"}
      BY DEF PoolInv, PoolTypeOK
    <3> HIDE DEF listed
    <3> QED
      BY <3>1, <3>2, <3>3, <2>6
  <2> HIDE DEF listed
  <2>9. PoolTypeOK'
    BY <2>1, <2>5, <2>6 DEF PoolInv, PoolTypeOK
  <2>10. \A b \in todo' : pools'[b] # None
    BY <2>1, <2>4, <2>5 DEF PoolInv, PoolTypeOK, PoolKept
  <2>11. \A i \in Ids : home[i] # a => conn'[i] = conn[i]
    BY <2>6, <2>7
  <2>12. ASSUME NEW b \in Addrs, pools'[b] # None
         PROVE  /\ Distinct(pools'[b].conns)
                /\ \A k \in DOMAIN pools'[b].conns : home'[pools'[b].conns[k]] = b
                /\ pools'[b].closed => \A i \in Ids : home'[i] = b => conn'[i] = "dead"
    <3>1. CASE b = a
      <4>1. Distinct(pools[a].conns) /\ \A k \in DOMAIN pools[a].conns : home[pools[a].conns[k]] = a
        BY <2>1 DEF PoolInv, PoolKept
      <4> QED
        BY <3>1, <4>1, <2>1, <2>3, <2>5, <2>8
    <3>2. CASE b # a
      <4>1. pools[b] # None /\ pools'[b] = pools[b]
        BY <3>2, <2>5, <2>12
      <4>2. /\ Distinct(pools[b].conns)
            /\ \A k \in DOMAIN pools[b].conns : home[pools[b].conns[k]] = b
            /\ pools[b].closed => \A i \in Ids : home[i] = b => conn[i] = "dead"
        BY <4>1 DEF PoolInv, PoolKept
      <4> QED
        BY <3>2, <4>1, <4>2, <2>1, <2>11
    <3> QED
      BY <3>1, <3>2
  <2>13. ASSUME NEW i \in Ids
         PROVE  /\ conn'[i] = "none" <=> home'[i] = None
                /\ conn'[i] = "live" => /\ pools'[home'[i]] # None
                                        /\ \E k \in DOMAIN pools'[home'[i]].conns : pools'[home'[i]].conns[k] = i
    <3>1. CASE home[i] = a
      <4>1. conn'[i] = "dead" /\ home'[i] = a /\ a # None
        BY <3>1, <2>1, <2>8, PoolAssumption
      <4> QED
        BY <4>1
    <3>2. CASE home[i] # a
      <4>1. conn'[i] = conn[i] /\ home'[i] = home[i]
        BY <3>2, <2>1, <2>11
      <4>2. conn[i] = "none" <=> home[i] = None
        BY DEF PoolInv, PoolKept
      <4>3. conn[i] = "live" => /\ home[i] \in Addrs /\ pools[home[i]] # None
                                /\ \E k \in DOMAIN pools[home[i]].conns : pools[home[i]].conns[k] = i
        BY DEF PoolInv, PoolTypeOK, PoolKept
      <4> QED
        BY <4>1, <4>2, <4>3, <3>2, <2>5
    <3> QED
      BY <3>1, <3>2
  <2>14. PoolKept'
    BY <2>10, <2>12, <2>13 DEF PoolKept, Distinct
  <2> QED
    BY <2>9, <2>14 DEF PoolInv
<1> QED
  BY <1>1, <1>2

\* Getting, filling, breaking and closing pools in any order, a pool lists what it
\* made and still lives, each connection once.
THEOREM PoolInvAlways == Spec => []PoolInv
<1>1. Init => PoolInv
  <2> SUFFICES ASSUME Init PROVE PoolInv
    OBVIOUS
  <2>1. PoolTypeOK
    BY DEF Init, PoolTypeOK
  <2>2. PoolKept
    BY DEF Init, PoolKept
  <2> QED
    BY <2>1, <2>2 DEF PoolInv
<1>2. PoolInv /\ [Next]_vars => PoolInv'
  <2> SUFFICES ASSUME PoolInv, [Next]_vars PROVE PoolInv'
    OBVIOUS
  <2>1. ASSUME NEW a \in Addrs, Acquire(a) PROVE PoolInv'
    BY <2>1, AcquireKeeps
  <2>2. CASE (\E a \in Addrs : GetPool(a)) \/ (\E i \in Ids : Break(i))
    BY <2>2, StoreKeeps
  <2>3. CASE Close \/ CloseReturns \/ \E a \in Addrs : ClosePool(a)
    BY <2>3, CloseKeeps
  <2>4. CASE UNCHANGED vars
    BY <2>4 DEF vars, PoolInv, PoolTypeOK, PoolKept, Distinct
  <2> QED
    BY <2>1, <2>2, <2>3, <2>4 DEF Next
<1> QED
  BY <1>1, <1>2, PTL DEF Spec

\* A pool never holds more than maxActive connections, and knows the living ones it
\* made, so that none outlives Close (tcp_connection_pool.go:32-89).
THEOREM PoolKeepsTrackAlways == Spec => []PoolKeepsTrack
<1>1. PoolInv => PoolKeepsTrack
  <2> SUFFICES ASSUME PoolInv PROVE PoolKeepsTrack
    OBVIOUS
  <2>1. ASSUME NEW a \in Addrs, pools[a] # None
        PROVE  /\ Len(pools[a].conns) <= MaxActive
               /\ pools[a].closed => \A i \in Ids : home[i] = a => conn[i] = "dead"
    BY <2>1, PoolOf DEF PoolInv, PoolKept
  <2>2. ASSUME NEW i \in Ids, conn[i] = "live" PROVE Cardinality(Listed(home[i], i)) = 1
    <3>1. PICK a \in Addrs : a = home[i]
      BY <2>2 DEF PoolInv, PoolTypeOK, PoolKept
    <3>2. PICK k \in DOMAIN pools[a].conns : pools[a].conns[k] = i
      BY <2>2, <3>1 DEF PoolInv, PoolKept
    <3>3. \A j \in DOMAIN pools[a].conns : pools[a].conns[j] = i => j = k
      BY <2>2, <3>1, <3>2 DEF PoolInv, PoolKept, Distinct
    <3>4. Listed(home[i], i) = {k}
      BY <3>1, <3>2, <3>3 DEF Listed
    <3> QED
      BY <3>4, FS_Singleton
  <2> QED
    BY <2>1, <2>2 DEF PoolKeepsTrack
<1> QED
  BY <1>1, PoolInvAlways, PTL
=============================================================================
