--------------------------- MODULE ListenerProofs ---------------------------
(***************************************************************************)
(* Proofs about Listener, for any clients, channels and pools, any number  *)
(* of failures before a task gives up, any bounds, and whatever the server *)
(* rejects and whenever connections break.                                 *)
(***************************************************************************)
EXTENDS Listener, FiniteSetTheorems, TLAPS

-----------------------------------------------------------------------------
(* One listener                                                            *)

\* A pool without a connection has no subscription and no command on its way.
Unconnected(p) ==
  stage[p] \notin Connected =>
    sent[p] = NoCmd /\ subs[p] = {} /\ wire[p] = <<>> /\ todo[p] = {}

OneTask == \A p \in Pools : p # current => stage[p] \in {"none", "gone"}

\* What is said on the wire: notifications, and the reply to a command.
OnlyNotes(w) == \A i \in 1 .. Len(w) : w[i] \in Note

OneReply(w) ==
  \E k \in 1 .. Len(w) :
    /\ w[k] \in {Ready, Rejected}
    /\ \A j \in 1 .. Len(w) : j # k => w[j] \in Note

Rejects(w) == \E i \in 1 .. Len(w) : w[i] = Rejected

Replies(p) ==
  /\ stage[p] \in {"restoring", "listening"} => sent[p] = NoCmd /\ OnlyNotes(wire[p])
  /\ stage[p] \in Draining /\ sent[p] # NoCmd => OnlyNotes(wire[p])
  /\ stage[p] \in Draining /\ sent[p] = NoCmd => OneReply(wire[p])

\* The last command queued for a channel says whether it is referenced.
LastWords(q, referenced) ==
  \A i \in 1 .. Len(q) :
    (\A j \in 1 .. Len(q) : i < j => q[j].channel # q[i].channel)
      => (q[i].op = "listen" <=> q[i].channel \in referenced)

\* What the server is subscribed to once it has run what is before the queue.
Told(p) ==
  (IF sent[p] = NoCmd THEN subs[p]
   ELSE IF sent[p].op = "listen" THEN subs[p] \cup {sent[p].channel}
   ELSE subs[p] \ {sent[p].channel}) \cup todo[p]

\* Channels no queued command is about are as they will be.
Unspoken(q, told, referenced) ==
  \A ch \in Channels :
    (\A i \in 1 .. Len(q) : q[i].channel # ch) => (ch \in told <=> ch \in referenced)

PoolInv(p) ==
  /\ Unconnected(p)
  /\ stage[p] = "gone" => queue[p] = <<>>
  /\ stage[p] \in Restored => todo[p] = {}
  /\ Replies(p)
  /\ LastWords(queue[p], Referenced(p))
  /\ stage[p] \in Connected /\ ~Rejects(wire[p])
       => Unspoken(queue[p], Told(p), Referenced(p))

ListenerInv ==
  /\ TypeOK
  /\ OneTask
  /\ \A p \in Pools : PoolInv(p)

-----------------------------------------------------------------------------
(* Queues of commands and of replies                                       *)

\* A command that tells the change of a channel is its new last word.
LEMMA NewWord ==
  ASSUME NEW q \in Seq(Cmd), NEW cmd \in Cmd,
         NEW before, NEW after, NEW told,
         LastWords(q, before),
         cmd.op = "listen" <=> cmd.channel \in after,
         \A ch \in Channels : ch # cmd.channel => (ch \in after <=> ch \in before)
  PROVE  /\ LastWords(Append(q, cmd), after)
         /\ Unspoken(q, told, before) => Unspoken(Append(q, cmd), told, after)
<1> DEFINE r == Append(q, cmd)
<1>1. /\ Len(r) = Len(q) + 1 /\ Len(q) \in Nat
      /\ \A i \in 1 .. Len(q) : r[i] = q[i] /\ q[i] \in Cmd
      /\ r[Len(q) + 1] = cmd
  OBVIOUS
<1>2. \A c \in Cmd : c.channel \in Channels
  BY DEF Cmd
<1> HIDE DEF r
<1>3. LastWords(r, after)
  <2> SUFFICES ASSUME NEW i \in 1 .. Len(r),
                      \A j \in 1 .. Len(r) : i < j => r[j].channel # r[i].channel
               PROVE  r[i].op = "listen" <=> r[i].channel \in after
    BY DEF LastWords
  <2>1. CASE i = Len(q) + 1
    BY <1>1, <2>1
  <2>2. CASE i \in 1 .. Len(q)
    <3>1. r[i] = q[i] /\ q[i].channel \in Channels
      BY <1>1, <1>2, <2>2
    <3>2. Len(q) + 1 \in 1 .. Len(r) /\ i < Len(q) + 1
      BY <1>1, <2>2
    <3>3. q[i].channel # cmd.channel
      BY <1>1, <3>1, <3>2
    <3>4. \A j \in 1 .. Len(q) : i < j => q[j].channel # q[i].channel
      BY <1>1, <2>2
    <3>5. q[i].op = "listen" <=> q[i].channel \in before
      BY <2>2, <3>4 DEF LastWords
    <3> QED  BY <3>1, <3>3, <3>5
  <2> QED  BY <1>1, <2>1, <2>2
<1>4. ASSUME Unspoken(q, told, before)
      PROVE  Unspoken(r, told, after)
  <2> SUFFICES ASSUME NEW ch \in Channels, \A i \in 1 .. Len(r) : r[i].channel # ch
               PROVE  ch \in told <=> ch \in after
    BY DEF Unspoken
  <2>1. ch # cmd.channel
    BY <1>1
  <2>2. \A i \in 1 .. Len(q) : q[i].channel # ch
    BY <1>1
  <2> QED  BY <1>4, <2>1, <2>2 DEF Unspoken
<1> QED  BY <1>3, <1>4 DEF r

\* The command at the head of the queue is run.
LEMMA FirstWord ==
  ASSUME NEW q \in Seq(Cmd), q # <<>>, NEW referenced, NEW subscribed,
         LastWords(q, referenced), Unspoken(q, subscribed, referenced)
  PROVE  /\ LastWords(Tail(q), referenced)
         /\ Unspoken(Tail(q),
              IF Head(q).op = "listen" THEN subscribed \cup {Head(q).channel}
              ELSE subscribed \ {Head(q).channel}, referenced)
<1> DEFINE r == Tail(q)
           told == IF Head(q).op = "listen" THEN subscribed \cup {Head(q).channel}
                   ELSE subscribed \ {Head(q).channel}
<1>1. /\ Len(q) \in Nat \ {0} /\ Len(r) = Len(q) - 1
      /\ \A i \in 1 .. Len(r) : r[i] = q[i + 1]
      /\ Head(q) = q[1]
  OBVIOUS
<1>2. \A j \in 2 .. Len(q) : j - 1 \in 1 .. Len(r) /\ r[j - 1] = q[j]
  BY <1>1
<1> HIDE DEF r
<1>3. LastWords(r, referenced)
  <2> SUFFICES ASSUME NEW i \in 1 .. Len(r),
                      \A j \in 1 .. Len(r) : i < j => r[j].channel # r[i].channel
               PROVE  r[i].op = "listen" <=> r[i].channel \in referenced
    BY DEF LastWords
  <2>1. i + 1 \in 1 .. Len(q) /\ r[i] = q[i + 1]
    BY <1>1
  <2>2. ASSUME NEW j \in 1 .. Len(q), i + 1 < j
        PROVE  q[j].channel # q[i + 1].channel
    <3>1. j \in 2 .. Len(q) /\ i < j - 1
      BY <2>1, <2>2, <1>1
    <3> QED  BY <1>2, <2>1, <3>1
  <2> QED  BY <2>1, <2>2 DEF LastWords
<1>4. Unspoken(r, told, referenced)
  <2> SUFFICES ASSUME NEW ch \in Channels, \A i \in 1 .. Len(r) : r[i].channel # ch
               PROVE  ch \in told <=> ch \in referenced
    BY DEF Unspoken
  <2>1. \A j \in 2 .. Len(q) : q[j].channel # ch
    BY <1>2
  <2>2. CASE q[1].channel = ch
    <3>1. 1 \in 1 .. Len(q) /\ \A j \in 1 .. Len(q) : 1 < j => j \in 2 .. Len(q)
      BY <1>1
    <3>2. q[1].op = "listen" <=> ch \in referenced
      BY <2>1, <2>2, <3>1 DEF LastWords
    <3> QED  BY <1>1, <2>2, <3>2
  <2>3. CASE q[1].channel # ch
    <3>1. \A j \in 1 .. Len(q) : j = 1 \/ j \in 2 .. Len(q)
      BY <1>1
    <3>2. \A j \in 1 .. Len(q) : q[j].channel # ch
      BY <2>1, <2>3, <3>1
    <3>3. ch \in subscribed <=> ch \in referenced
      BY <3>2 DEF Unspoken
    <3> QED  BY <1>1, <2>3, <3>3
  <2> QED  BY <2>2, <2>3
<1> QED  BY <1>3, <1>4 DEF r

WireMessage == Note \cup {Ready, Rejected}

LEMMA ReplyIsNoNote == Ready \notin Note /\ Rejected \notin Note /\ Ready # Rejected
  BY DEF Ready, Rejected, Note

LEMMA WireGrows ==
  ASSUME NEW w \in Seq(WireMessage), NEW m \in WireMessage
  PROVE  /\ m \in Note /\ OnlyNotes(w) => OnlyNotes(Append(w, m))
         /\ m \in Note /\ OneReply(w) => OneReply(Append(w, m))
         /\ m \in {Ready, Rejected} /\ OnlyNotes(w) => OneReply(Append(w, m))
         /\ Rejects(w) => Rejects(Append(w, m))
         /\ m = Rejected => Rejects(Append(w, m))
<1> DEFINE v == Append(w, m)
<1>1. /\ Len(v) = Len(w) + 1 /\ Len(w) \in Nat
      /\ \A i \in 1 .. Len(w) : v[i] = w[i]
      /\ v[Len(w) + 1] = m
  OBVIOUS
<1>2. /\ \A i \in 1 .. Len(v) : i \in 1 .. Len(w) \/ i = Len(w) + 1
      /\ Len(w) + 1 \in 1 .. Len(v)
      /\ \A i \in 1 .. Len(w) : i \in 1 .. Len(v) /\ i # Len(w) + 1
  BY <1>1
<1> HIDE DEF v
<1>3. m \in Note /\ OnlyNotes(w) => OnlyNotes(v)
  BY <1>1, <1>2 DEF OnlyNotes
<1>4. m \in Note /\ OneReply(w) => OneReply(v)
  BY <1>1, <1>2 DEF OneReply
<1>5. m \in {Ready, Rejected} /\ OnlyNotes(w) => OneReply(v)
  BY <1>1, <1>2 DEF OnlyNotes, OneReply
<1>6. Rejects(w) => Rejects(v)
  BY <1>1, <1>2 DEF Rejects
<1>7. m = Rejected => Rejects(v)
  BY <1>1, <1>2 DEF Rejects
<1> QED  BY <1>3, <1>4, <1>5, <1>6, <1>7 DEF v

LEMMA WireShrinks ==
  ASSUME NEW w \in Seq(WireMessage), w # <<>>
  PROVE  /\ OnlyNotes(w) => OnlyNotes(Tail(w)) /\ Head(w) \in Note
         /\ OneReply(w) /\ Head(w) \in Note => OneReply(Tail(w))
         /\ OneReply(w) /\ Head(w) \notin Note => OnlyNotes(Tail(w))
         /\ Head(w) # Rejected /\ Rejects(w) => Rejects(Tail(w))
<1> DEFINE v == Tail(w)
<1>1. /\ Len(w) \in Nat \ {0} /\ Len(v) = Len(w) - 1
      /\ \A i \in 1 .. Len(v) : v[i] = w[i + 1]
      /\ Head(w) = w[1]
  OBVIOUS
<1>2. /\ \A i \in 1 .. Len(v) : i + 1 \in 1 .. Len(w) /\ i + 1 # 1
      /\ \A i \in 1 .. Len(w) : i = 1 \/ (i - 1 \in 1 .. Len(v) /\ v[i - 1] = w[i])
      /\ \A i, j \in 1 .. Len(v) : i # j => i + 1 # j + 1
      /\ 1 \in 1 .. Len(w)
  BY <1>1
<1> HIDE DEF v
<1>3. OnlyNotes(w) => OnlyNotes(v) /\ Head(w) \in Note
  BY <1>1, <1>2 DEF OnlyNotes
<1>4. ASSUME OneReply(w)
      PROVE  /\ Head(w) \in Note => OneReply(v)
             /\ Head(w) \notin Note => OnlyNotes(v)
  <2>1. PICK k \in 1 .. Len(w) :
          /\ w[k] \in {Ready, Rejected}
          /\ \A j \in 1 .. Len(w) : j # k => w[j] \in Note
    BY <1>4 DEF OneReply
  <2>2. CASE k = 1
    BY <1>1, <1>2, <2>1, <2>2, ReplyIsNoNote DEF OnlyNotes
  <2>3. CASE k # 1
    <3>1. k - 1 \in 1 .. Len(v) /\ v[k - 1] = w[k]
      BY <1>2, <2>3
    <3>2. \A j \in 1 .. Len(v) : j # k - 1 => v[j] \in Note
      BY <1>1, <1>2, <2>1, <2>3
    <3>3. OneReply(v)
      BY <2>1, <3>1, <3>2 DEF OneReply
    <3> QED  BY <1>1, <1>2, <2>1, <2>3, <3>3
  <2> QED  BY <2>2, <2>3
<1>5. Head(w) # Rejected /\ Rejects(w) => Rejects(v)
  BY <1>1, <1>2 DEF Rejects
<1> QED  BY <1>3, <1>4, <1>5 DEF v

-----------------------------------------------------------------------------
(* Steps                                                                   *)

LEMMA ListenerInit == Init => ListenerInv
<1> SUFFICES ASSUME Init PROVE ListenerInv
  OBVIOUS
<1>1. TypeOK
  BY DEF Init, TypeOK, Stage
<1>2. OneTask
  BY DEF Init, OneTask
<1>3. ASSUME NEW p \in Pools
      PROVE  PoolInv(p)
  BY DEF Init, PoolInv, Unconnected, Connected, Restored, Draining, Replies, LastWords
<1> QED  BY <1>1, <1>2, <1>3 DEF ListenerInv

\* A step that changes one pool.
Elsewhere(p) ==
  \A q \in Pools \ {p} :
    /\ refs'[q] = refs[q] /\ queue'[q] = queue[q] /\ stage'[q] = stage[q]
    /\ todo'[q] = todo[q] /\ sent'[q] = sent[q] /\ subs'[q] = subs[q]
    /\ wire'[q] = wire[q]

LEMMA OnePoolKeeps ==
  ASSUME ListenerInv, NEW p \in Pools, Elsewhere(p), TypeOK', OneTask', PoolInv(p)'
  PROVE  ListenerInv'
<1>1. ASSUME NEW q \in Pools \ {p}
      PROVE  PoolInv(q)'
  <2>1. PoolInv(q)
    BY DEF ListenerInv
  <2> QED  BY <2>1 DEF Elsewhere, PoolInv, Unconnected, Replies, Referenced, Told
<1> QED  BY <1>1 DEF ListenerInv

\* So is every other pool when the channels of functions are changed at p.
LEMMA TaskKept ==
  ASSUME ListenerInv, NEW p \in Pools, UNCHANGED current,
         Elsewhere(p), stage[p] \notin {"none", "gone"}
  PROVE  OneTask'
  BY DEF ListenerInv, OneTask, Elsewhere

LEMMA SubscribeKeeps ==
  ASSUME ListenerInv, NEW c \in Clients, Subscribe(c)  PROVE ListenerInv'
<1>1. CASE /\ HasTask(current)
           /\ at' = [at EXCEPT ![c] = current]
           /\ UNCHANGED <<current, stage, failures>>
  <2>1. TypeOK'
    BY <1>1 DEF ListenerInv, TypeOK, Subscribe, HasTask, serverVars
  <2>2. \A p \in Pools : PoolInv(p)'
    BY <1>1 DEF ListenerInv, Subscribe, serverVars, PoolInv, Unconnected, Replies, Referenced, Told
  <2> QED  BY <1>1, <2>1, <2>2 DEF ListenerInv, OneTask
<1>2. CASE ~HasTask(current) /\ ~UNCHANGED stage
  <2>1. PICK p \in Pools :
          /\ current' = p
          /\ at' = [at EXCEPT ![c] = p]
          /\ stage' = [stage EXCEPT ![p] = "start"]
          /\ failures' = [failures EXCEPT ![p] = 0]
    BY <1>2 DEF Subscribe
  <2>2. TypeOK'
    BY <2>1 DEF ListenerInv, TypeOK, Subscribe, serverVars, Stage
  <2>3. \A q \in Pools : stage[q] \in {"none", "gone"}
    BY <1>2 DEF ListenerInv, OneTask, HasTask
  <2>4. OneTask'
    BY <2>1, <2>3 DEF ListenerInv, OneTask, TypeOK
  <2>5. PoolInv(p)'
    <3>1. PoolInv(p) /\ stage[p] \notin Connected /\ stage'[p] = "start"
      BY <2>1, <2>3 DEF ListenerInv, TypeOK, Connected, Restored
    <3> QED  BY <3>1 DEF Subscribe, serverVars, PoolInv, Unconnected, Replies, Referenced, Told,
                Connected, Restored, Draining
  <2>6. Elsewhere(p)
    BY <2>1 DEF ListenerInv, TypeOK, Subscribe, serverVars, Elsewhere
  <2> QED  BY <2>2, <2>4, <2>5, <2>6, OnePoolKeeps
<1>3. CASE ~HasTask(current) /\ UNCHANGED stage
  <2>1. PICK p \in Pools : stage' = [stage EXCEPT ![p] = "start"]
    BY <1>3 DEF Subscribe
  <2>2. stage[p] = "start"
    BY <1>3, <2>1 DEF ListenerInv, TypeOK
  <2> QED  BY <1>3, <2>2 DEF ListenerInv, OneTask, HasTask
<1> QED  BY <1>1, <1>2, <1>3 DEF Subscribe

\* What a reference gained or given up does to the queue of a pool.
LEMMA ReferenceKeeps ==
  ASSUME ListenerInv, NEW p \in Pools, NEW ch \in Channels,
         AddRef(p, ch) \/ RemoveRef(p, ch),
         UNCHANGED <<current, taskVars, serverVars, noteVars>>,
         at' = at, channels' \in [Clients -> SUBSET Channels]
  PROVE  ListenerInv'
<1>1. refs[p] \in [Channels -> Nat] /\ queue[p] \in Seq(Cmd)
  BY DEF ListenerInv, TypeOK
<1>2. PoolInv(p)
  BY DEF ListenerInv
<1>3. CASE UNCHANGED refs /\ UNCHANGED queue
  <2>1. TypeOK'
    BY <1>3 DEF ListenerInv, TypeOK, taskVars, serverVars, noteVars
  <2>2. \A q \in Pools : PoolInv(q)'
    BY <1>3 DEF ListenerInv, PoolInv, Unconnected, Replies, Referenced, Told,
                taskVars, serverVars
  <2> QED  BY <2>1, <2>2 DEF ListenerInv, OneTask, taskVars
<1>4. ASSUME NEW n \in Nat, NEW cmd \in Cmd,
             cmd.channel = ch,
             cmd.op = "listen" <=> n > 0,
             refs' = [refs EXCEPT ![p][ch] = n],
             IF refs[p][ch] > 0 <=> n > 0 THEN queue' = queue ELSE Send(p, cmd)
      PROVE  ListenerInv'
  <2>1. refs'[p] = [refs[p] EXCEPT ![ch] = n]
    BY <1>4 DEF ListenerInv, TypeOK
  <2>2. refs' \in [Pools -> [Channels -> Nat]]
    BY <1>4 DEF ListenerInv, TypeOK
  <2>3. /\ \A d \in Channels : d # ch => (d \in Referenced(p)' <=> d \in Referenced(p))
        /\ ch \in Referenced(p)' <=> n > 0
        /\ ch \in Referenced(p) <=> refs[p][ch] > 0
        /\ Referenced(p)' \subseteq Channels /\ Referenced(p) \subseteq Channels
    BY <1>1, <2>1 DEF Referenced
  <2>4. CASE queue' = queue /\ (refs[p][ch] > 0 <=> n > 0)
    <3>1. Referenced(p)' = Referenced(p)
      BY <2>3, <2>4
    <3>2. PoolInv(p)'
      BY <1>2, <2>4, <3>1 DEF PoolInv, Unconnected, Replies, Told, taskVars, serverVars
    <3>3. TypeOK'
      BY <2>2, <2>4 DEF ListenerInv, TypeOK, taskVars, serverVars, noteVars
    <3>4. Elsewhere(p)
      BY <1>4, <2>4 DEF Elsewhere, ListenerInv, TypeOK, taskVars, serverVars
    <3> QED  BY <3>2, <3>3, <3>4, OnePoolKeeps DEF ListenerInv, OneTask, taskVars
  <2>5. CASE queue' = queue /\ stage[p] = "gone"
    <3>1. PoolInv(p)'
      BY <1>2, <2>5 DEF PoolInv, Unconnected, Replies, LastWords, taskVars, serverVars,
                        Connected, Restored, Draining
    <3>2. TypeOK'
      BY <2>2, <2>5 DEF ListenerInv, TypeOK, taskVars, serverVars, noteVars
    <3>3. Elsewhere(p)
      BY <1>4, <2>5 DEF Elsewhere, ListenerInv, TypeOK, taskVars, serverVars
    <3> QED  BY <3>1, <3>2, <3>3, OnePoolKeeps DEF ListenerInv, OneTask, taskVars
  <2>6. CASE queue' = [queue EXCEPT ![p] = Append(@, cmd)] /\ stage[p] # "gone"
    <3>1. queue'[p] = Append(queue[p], cmd)
      BY <2>6 DEF ListenerInv, TypeOK
    <3>2. queue' \in [Pools -> Seq(Cmd)]
      BY <1>1, <2>6 DEF ListenerInv, TypeOK
    <3>3. /\ LastWords(queue'[p], Referenced(p)')
          /\ Unspoken(queue[p], Told(p), Referenced(p))
               => Unspoken(queue'[p], Told(p), Referenced(p)')
      <4>1. LastWords(queue[p], Referenced(p))
        BY <1>2 DEF PoolInv
      <4> DEFINE q == queue[p]
                 before == Referenced(p)
                 after == Referenced(p)'
                 told == Told(p)
      <4>2. \A d \in Channels : d # cmd.channel => (d \in after <=> d \in before)
        BY <1>4, <2>3
      <4>3. cmd.op = "listen" <=> cmd.channel \in after
        BY <1>4, <2>3
      <4>4. q \in Seq(Cmd) /\ cmd \in Cmd
        BY <1>1, <1>4
      <4>5. LastWords(q, before)
        BY <4>1
      <4> HIDE DEF q, before, after, told
      <4>6. /\ LastWords(Append(q, cmd), after)
            /\ Unspoken(q, told, before) => Unspoken(Append(q, cmd), told, after)
        BY <4>2, <4>3, <4>4, <4>5, NewWord
      <4> QED  BY <3>1, <4>6 DEF q, before, after, told
    <3>4. Told(p)' = Told(p)
      BY DEF Told, taskVars, serverVars
    <3>5. PoolInv(p)'
      BY <1>2, <2>6, <3>3, <3>4 DEF PoolInv, Unconnected, Replies, taskVars, serverVars
    <3>6. TypeOK'
      BY <2>2, <3>2 DEF ListenerInv, TypeOK, taskVars, serverVars, noteVars
    <3>7. Elsewhere(p)
      BY <1>4, <2>6 DEF Elsewhere, ListenerInv, TypeOK, taskVars, serverVars
    <3> QED  BY <3>5, <3>6, <3>7, OnePoolKeeps DEF ListenerInv, OneTask, taskVars
  <2> QED  BY <1>4, <2>4, <2>5, <2>6 DEF Send, Closed
<1>5. CASE AddRef(p, ch)
  <2>1. refs[p][ch] + 1 \in Nat /\ Listens(ch) \in Cmd /\ Listens(ch).op = "listen"
          /\ Listens(ch).channel = ch
    BY <1>1 DEF Listens, Cmd
  <2>2. refs' = [refs EXCEPT ![p][ch] = refs[p][ch] + 1]
    BY <1>5 DEF AddRef
  <2>3. IF refs[p][ch] > 0 <=> refs[p][ch] + 1 > 0 THEN queue' = queue ELSE Send(p, Listens(ch))
    BY <1>1, <1>5 DEF AddRef
  <2>4. Listens(ch).op = "listen" <=> refs[p][ch] + 1 > 0
    BY <1>1, <2>1
  <2> HIDE DEF Listens
  <2> QED  BY <1>4, <2>1, <2>2, <2>3, <2>4
<1>6. CASE RemoveRef(p, ch) /\ refs[p][ch] # 0
  <2>1. refs[p][ch] - 1 \in Nat /\ Unlistens(ch) \in Cmd /\ Unlistens(ch).op # "listen"
          /\ Unlistens(ch).channel = ch /\ Listens(ch) \in Cmd /\ Listens(ch).op = "listen"
          /\ Listens(ch).channel = ch
    BY <1>1, <1>6 DEF Listens, Unlistens, Cmd
  <2>2. refs' = [refs EXCEPT ![p][ch] = refs[p][ch] - 1]
    BY <1>6 DEF RemoveRef
  <2>3. IF refs[p][ch] > 0 <=> refs[p][ch] - 1 > 0 THEN queue' = queue ELSE Send(p, Unlistens(ch))
    BY <1>1, <1>6 DEF RemoveRef
  <2>4. CASE refs[p][ch] - 1 > 0
    <3>1. queue' = queue
      BY <1>1, <2>3, <2>4
    <3>2. IF refs[p][ch] > 0 <=> refs[p][ch] - 1 > 0 THEN queue' = queue
          ELSE Send(p, Listens(ch))
      BY <1>1, <2>4, <3>1
    <3> QED  BY <1>4, <2>1, <2>2, <2>4, <3>2
  <2>5. CASE ~(refs[p][ch] - 1 > 0)
    BY <1>4, <2>1, <2>2, <2>3, <2>5
  <2> QED  BY <2>4, <2>5
<1>7. CASE RemoveRef(p, ch) /\ refs[p][ch] = 0
  BY <1>3, <1>7 DEF RemoveRef
<1> QED  BY <1>5, <1>6, <1>7

LEMMA ClientKeeps ==
  ASSUME ListenerInv, NEW c \in Clients, ClientStep(c)  PROVE ListenerInv'
<1>1. ASSUME NEW ch \in Channels, Listen(c, ch) \/ Unlisten(c, ch)
      PROVE  ListenerInv'
  <2>1. at[c] \in Pools
    BY <1>1 DEF Listen, Unlisten, ListenerInv, TypeOK
  <2>2. channels' \in [Clients -> SUBSET Channels]
    <3>1. channels \in [Clients -> SUBSET Channels]
      BY DEF ListenerInv, TypeOK
    <3>2. PICK cs \in SUBSET Channels : channels' = [channels EXCEPT ![c] = cs]
      <4>1. CASE Listen(c, ch)
        BY <3>1, <4>1 DEF Listen
      <4>2. CASE Unlisten(c, ch)
        BY <3>1, <4>2 DEF Unlisten
      <4> QED  BY <1>1, <4>1, <4>2
    <3> QED  BY <3>1, <3>2
  <2>3. AddRef(at[c], ch) \/ RemoveRef(at[c], ch)
    BY <1>1 DEF Listen, Unlisten
  <2>4. UNCHANGED <<current, taskVars, serverVars, noteVars>> /\ at' = at
    BY <1>1 DEF Listen, Unlisten
  <2>5. PICK p \in Pools : p = at[c]
    BY <2>1
  <2>6. AddRef(p, ch) \/ RemoveRef(p, ch)
    BY <2>3, <2>5 DEF AddRef, RemoveRef, Send, Closed
  <2> QED  BY <2>2, <2>4, <2>6, ReferenceKeeps
<1>2. ASSUME UNCHANGED <<current, refs, queue, taskVars, serverVars>>, TypeOK'
      PROVE  ListenerInv'
  BY <1>2 DEF ListenerInv, OneTask, PoolInv, Unconnected, Replies, Referenced, Told,
              taskVars, serverVars
<1>3. CASE Leave(c)
  <2>1. TypeOK'
    BY <1>3 DEF Leave, ListenerInv, TypeOK, taskVars, serverVars, noteVars
  <2> QED  BY <1>2, <1>3, <2>1 DEF Leave
<1>4. CASE Recv(c)
  <2>1. inbox' \in [Clients -> Seq(Channels)]
    BY <1>4 DEF Recv, ListenerInv, TypeOK
  <2>2. heard' \in [Clients -> SUBSET Channels]
    BY <1>4 DEF Recv, ListenerInv, TypeOK
  <2>3. TypeOK'
    BY <1>4, <2>1, <2>2 DEF Recv, ListenerInv, TypeOK, clientVars, taskVars, serverVars
  <2> QED  BY <1>2, <1>4, <2>3 DEF Recv
<1> QED  BY <1>1, <1>3, <1>4, SubscribeKeeps DEF ClientStep

\* A task that fails leaves its commands to the next attempt, or ends with them.
LEMMA FailedKeeps ==
  ASSUME ListenerInv, NEW p \in Pools, stage[p] \notin {"none", "gone"},
         NEW count \in Nat, NEW lasted \in BOOLEAN, Failed(p, count, lasted)
  PROVE  ListenerInv'
<1>1. PoolInv(p) /\ TypeOK
  BY DEF ListenerInv
<1>2. PICK n \in Nat : failures' = [failures EXCEPT ![p] = n]
  BY DEF Failed
<1>3. PICK s \in {"start", "gone"}, q \in {queue[p], <<>>} :
        /\ stage' = [stage EXCEPT ![p] = s]
        /\ queue' = [queue EXCEPT ![p] = q]
        /\ s = "gone" => q = <<>>
  <2>1. queue = [queue EXCEPT ![p] = queue[p]]
    BY <1>1 DEF TypeOK
  <2> QED  BY <2>1 DEF Failed
<1>4. /\ todo' = [todo EXCEPT ![p] = {}]
      /\ sent' = [sent EXCEPT ![p] = NoCmd]
      /\ subs' = [subs EXCEPT ![p] = {}]
      /\ wire' = [wire EXCEPT ![p] = <<>>]
      /\ UNCHANGED <<current, clientVars, refs, noteVars>>
  BY DEF Failed
<1>5. TypeOK'
  <2>1. q \in Seq(Cmd)
    <3>1. queue[p] \in Seq(Cmd) /\ <<>> \in Seq(Cmd)
      BY <1>1 DEF TypeOK
    <3> QED  BY <3>1
  <2>2. stage' \in [Pools -> Stage] /\ queue' \in [Pools -> Seq(Cmd)]
    BY <1>1, <1>3, <2>1 DEF TypeOK, Stage
  <2>3. /\ sent' \in [Pools -> Cmd \cup {NoCmd}]
        /\ wire' \in [Pools -> Seq(Note \cup {Ready, Rejected})]
        /\ todo' \in [Pools -> SUBSET Channels] /\ subs' \in [Pools -> SUBSET Channels]
    BY <1>1, <1>4 DEF TypeOK
  <2> QED  BY <1>1, <1>2, <1>4, <2>2, <2>3 DEF TypeOK, clientVars, noteVars
<1>6. Elsewhere(p)
  BY <1>1, <1>3, <1>4 DEF Elsewhere, TypeOK
<1>7. PoolInv(p)'
  <2>1. /\ stage'[p] = s /\ queue'[p] = q /\ todo'[p] = {} /\ sent'[p] = NoCmd
        /\ subs'[p] = {} /\ wire'[p] = <<>> /\ refs'[p] = refs[p]
    BY <1>1, <1>3, <1>4 DEF TypeOK
  <2>2. LastWords(queue[p], Referenced(p)) /\ LastWords(<<>>, Referenced(p))
    BY <1>1 DEF PoolInv, LastWords
  <2>3. LastWords(queue'[p], Referenced(p)')
    BY <2>1, <2>2 DEF Referenced
  <2> QED  BY <1>3, <2>1, <2>3
           DEF PoolInv, Unconnected, Replies, Connected, Restored, Draining
<1> QED  BY <1>4, <1>5, <1>6, <1>7, OnePoolKeeps, TaskKept

\* A step of a task that only moves on, with the commands it may have sent.
LEMMA AttemptKeeps ==
  ASSUME ListenerInv, NEW p \in Pools,
         Attempt(p) \/ ConnectFail(p) \/ DrainError(p) \/ Break(p)
  PROVE  ListenerInv'
<1>1. failures[p] \in Nat /\ failures[p] + 1 \in Nat /\ stage[p] \in Stage
  BY DEF ListenerInv, TypeOK
<1>2. ASSUME NEW lasted \in BOOLEAN, Failed(p, failures[p], lasted),
             stage[p] \notin {"none", "gone"}
      PROVE  ListenerInv'
  <2>1. PICK n \in Nat : n = failures[p]
    BY <1>1
  <2>2. Failed(p, n, lasted)
    BY <1>2, <2>1 DEF Failed
  <2> QED  BY <1>2, <2>2, FailedKeeps
<1>3. CASE DrainError(p) \/ Break(p) \/ ConnectFail(p)
  <2>1. stage[p] \notin {"none", "gone"}
    BY <1>3 DEF DrainError, Break, ConnectFail, Draining, Connected, Restored
  <2>2. PICK lasted \in BOOLEAN : Failed(p, failures[p], lasted)
    BY <1>3, ListenerAssumption DEF DrainError, Break, ConnectFail
  <2> QED  BY <1>2, <2>1, <2>2
<1>4. CASE stage[p] = "start" /\ Failed(p, failures[p] + 1, FALSE)
  <2>1. PICK n \in Nat : n = failures[p] + 1
    BY <1>1
  <2>2. Failed(p, n, FALSE)
    BY <1>4, <2>1 DEF Failed
  <2> QED  BY <1>4, <2>2, FailedKeeps
<1>5. CASE /\ stage[p] = "start"
           /\ failures' = [failures EXCEPT ![p] = @ + 1]
           /\ stage' = [stage EXCEPT ![p] = "connecting"]
           /\ UNCHANGED <<current, clientVars, refs, queue, todo, serverVars, noteVars>>
  <2>1. TypeOK'
    BY <1>1, <1>5 DEF ListenerInv, TypeOK, Stage, clientVars, serverVars, noteVars
  <2>2. Elsewhere(p)
    BY <1>5 DEF Elsewhere, ListenerInv, TypeOK, serverVars
  <2>3. PoolInv(p) /\ stage'[p] = "connecting"
    BY <1>5 DEF ListenerInv, TypeOK
  <2>4. PoolInv(p)'
    BY <1>5, <2>3 DEF PoolInv, Unconnected, Replies, Referenced, serverVars,
                      Connected, Restored, Draining
  <2> QED  BY <1>5, <2>1, <2>2, <2>4, OnePoolKeeps, TaskKept
<1> QED  BY <1>3, <1>4, <1>5 DEF Attempt

LEMMA ConnectOkKeeps ==
  ASSUME ListenerInv, NEW p \in Pools, ConnectOk(p)  PROVE ListenerInv'
<1>1. PoolInv(p) /\ TypeOK
  BY DEF ListenerInv
<1>2. Referenced(p) \subseteq Channels
  BY DEF Referenced
<1>3. TypeOK'
  BY <1>1, <1>2 DEF TypeOK, ConnectOk, Stage, Connected, Restored,
                    clientVars, serverVars, noteVars
<1>4. Elsewhere(p)
  BY <1>1 DEF Elsewhere, TypeOK, ConnectOk, serverVars
<1>5. /\ stage'[p] = IF Referenced(p) = {} THEN "listening" ELSE "restoring"
      /\ todo'[p] = Referenced(p) /\ subs'[p] = {} /\ sent'[p] = NoCmd
      /\ wire'[p] = <<>> /\ queue'[p] = queue[p] /\ Referenced(p)' = Referenced(p)
  BY <1>1 DEF PoolInv, Unconnected, TypeOK, ConnectOk, Connected, Restored,
              serverVars, Referenced
<1>6. PoolInv(p)'
  <2>1. Told(p)' = Referenced(p)
    BY <1>5 DEF Told
  <2>2. Unspoken(queue'[p], Told(p)', Referenced(p)')
    BY <1>5, <2>1 DEF Unspoken
  <2>3. LastWords(queue'[p], Referenced(p)')
    BY <1>1, <1>5 DEF PoolInv
  <2>4. OnlyNotes(wire'[p])
    BY <1>5 DEF OnlyNotes
  <2> QED  BY <1>5, <2>2, <2>3, <2>4
           DEF PoolInv, Unconnected, Replies, Connected, Restored, Draining
<1> QED  BY <1>3, <1>4, <1>6, OnePoolKeeps, TaskKept DEF ConnectOk

LEMMA RestoreKeeps ==
  ASSUME ListenerInv, NEW p \in Pools, Restore(p)  PROVE ListenerInv'
<1>1. PoolInv(p) /\ TypeOK
  BY DEF ListenerInv
<1>2. PICK ch \in todo[p] : /\ todo' = [todo EXCEPT ![p] = @ \ {ch}]
                            /\ sent' = [sent EXCEPT ![p] = Listens(ch)]
  BY DEF Restore
<1>3. ch \in Channels /\ Listens(ch) \in Cmd
  BY <1>1, <1>2 DEF TypeOK, Listens, Cmd
<1>4. TypeOK'
  BY <1>1, <1>2, <1>3 DEF TypeOK, Restore, Stage, Connected, clientVars, noteVars
<1>5. Elsewhere(p)
  BY <1>1, <1>2 DEF Elsewhere, TypeOK, Restore
<1>6. /\ stage[p] = "restoring" /\ sent[p] = NoCmd
      /\ stage'[p] = "awaiting" /\ todo'[p] = todo[p] \ {ch} /\ subs'[p] = subs[p]
      /\ sent'[p] = Listens(ch) /\ wire'[p] = wire[p] /\ queue'[p] = queue[p]
      /\ Referenced(p)' = Referenced(p)
  BY <1>1, <1>2 DEF PoolInv, Replies, TypeOK, Restore, Referenced
<1>7. Listens(ch) # NoCmd /\ Listens(ch).op = "listen" /\ Listens(ch).channel = ch
  BY DEF Listens, NoCmd
<1>8. Told(p)' = Told(p)
  BY <1>2, <1>6, <1>7 DEF Told
<1> QED  BY <1>1, <1>4, <1>5, <1>6, <1>7, <1>8, OnePoolKeeps, TaskKept
         DEF Restore, PoolInv, Unconnected, Replies, Connected, Restored, Draining

LEMMA TakeCommandKeeps ==
  ASSUME ListenerInv, NEW p \in Pools, TakeCommand(p)  PROVE ListenerInv'
<1>1. PoolInv(p) /\ TypeOK
  BY DEF ListenerInv
<1> DEFINE q == queue[p]
<1>2. q \in Seq(Cmd) /\ q # <<>> /\ Head(q) \in Cmd /\ Tail(q) \in Seq(Cmd)
  BY <1>1 DEF TypeOK, TakeCommand
<1>3. TypeOK'
  BY <1>1, <1>2 DEF TypeOK, TakeCommand, Stage, Connected, Restored, clientVars, noteVars
<1>4. Elsewhere(p)
  BY <1>1 DEF Elsewhere, TypeOK, TakeCommand
<1>5. /\ stage[p] = "listening" /\ sent[p] = NoCmd /\ todo[p] = {} /\ OnlyNotes(wire[p])
      /\ stage'[p] = "draining" /\ todo'[p] = {} /\ subs'[p] = subs[p]
      /\ sent'[p] = Head(q) /\ wire'[p] = wire[p] /\ queue'[p] = Tail(q)
      /\ Referenced(p)' = Referenced(p)
  BY <1>1 DEF PoolInv, Replies, TypeOK, TakeCommand, Referenced, Restored
<1>6. Head(q) # NoCmd
  BY <1>2 DEF Cmd, NoCmd
<1>7. ~Rejects(wire[p])
  BY <1>5, ReplyIsNoNote DEF Rejects, OnlyNotes
<1>8. LastWords(q, Referenced(p)) /\ Unspoken(q, subs[p], Referenced(p))
  BY <1>1, <1>5, <1>7 DEF PoolInv, Told, Connected, Restored
<1>9. Told(p)' = IF Head(q).op = "listen" THEN subs[p] \cup {Head(q).channel}
                 ELSE subs[p] \ {Head(q).channel}
  BY <1>5, <1>6 DEF Told
<1>10. /\ LastWords(queue'[p], Referenced(p)')
       /\ Unspoken(queue'[p], Told(p)', Referenced(p)')
  BY <1>2, <1>5, <1>8, <1>9, FirstWord
<1> HIDE DEF q
<1> QED  BY <1>3, <1>4, <1>5, <1>6, <1>10, OnePoolKeeps, TaskKept
         DEF TakeCommand, PoolInv, Unconnected, Replies, Connected, Restored, Draining

LEMMA RelayKeeps ==
  ASSUME ListenerInv, NEW p \in Pools, Relay(p)  PROVE ListenerInv'
<1>1. PoolInv(p) /\ TypeOK
  BY DEF ListenerInv
<1>2. wire[p] \in Seq(WireMessage) /\ wire[p] # <<>> /\ Tail(wire[p]) \in Seq(WireMessage)
        /\ Head(wire[p]) \in WireMessage
  BY <1>1 DEF TypeOK, Relay, WireMessage
<1>3. Head(wire[p]) \in Note /\ Head(wire[p]).channel \in Channels
  BY <1>2 DEF Relay, WireMessage, Ready, Rejected, Note
<1>4. inbox' \in [Clients -> Seq(Channels)] /\ lagged' \in [Clients -> BOOLEAN]
  <2>1. \A c \in Clients : inbox[c] \in Seq(Channels) /\ lagged[c] \in BOOLEAN
    BY <1>1 DEF TypeOK
  <2>2. ASSUME NEW ch \in Channels, Broadcast(p, ch)
        PROVE  /\ inbox' \in [Clients -> Seq(Channels)]
               /\ lagged' \in [Clients -> BOOLEAN]
    <3>1. \A c \in Clients : Len(inbox[c]) >= Capacity => inbox[c] # <<>>
      BY <2>1, ListenerAssumption
    <3>2. \A c \in Clients :
            inbox[c] # <<>> => Append(Tail(inbox[c]), ch) \in Seq(Channels)
      BY <2>1
    <3>3. \A c \in Clients : Append(inbox[c], ch) \in Seq(Channels)
      BY <2>1
    <3>4. inbox' \in [Clients -> Seq(Channels)]
      BY <2>1, <2>2, <3>1, <3>2, <3>3 DEF Broadcast
    <3>5. lagged' \in [Clients -> BOOLEAN]
      BY <2>2 DEF Broadcast
    <3> QED  BY <3>4, <3>5
  <2>3. PICK ch \in Channels : ch = Head(wire[p]).channel
    BY <1>3
  <2>4. Broadcast(p, ch)
    BY <2>3 DEF Relay, Broadcast
  <2> QED  BY <2>2, <2>4
<1>5. TypeOK'
  BY <1>1, <1>2, <1>4 DEF TypeOK, Relay, WireMessage, clientVars, taskVars
<1>6. Elsewhere(p)
  BY <1>1 DEF Elsewhere, TypeOK, Relay, taskVars
<1>7. /\ wire'[p] = Tail(wire[p]) /\ stage'[p] = stage[p] /\ sent'[p] = sent[p]
      /\ subs'[p] = subs[p] /\ todo'[p] = todo[p] /\ queue'[p] = queue[p]
      /\ Referenced(p)' = Referenced(p) /\ Told(p)' = Told(p)
      /\ stage[p] \in Connected
  BY <1>1 DEF TypeOK, Relay, taskVars, Referenced, Told, Draining, Connected, Restored
<1>8. /\ OnlyNotes(wire[p]) => OnlyNotes(wire'[p])
      /\ OneReply(wire[p]) => OneReply(wire'[p])
      /\ Rejects(wire[p]) => Rejects(wire'[p])
  BY <1>2, <1>3, <1>7, WireShrinks, ReplyIsNoNote
<1> QED  BY <1>1, <1>5, <1>6, <1>7, <1>8, OnePoolKeeps, TaskKept
         DEF Relay, PoolInv, Unconnected, Replies, Connected, Restored, Draining

LEMMA DrainedKeeps ==
  ASSUME ListenerInv, NEW p \in Pools, Drained(p)  PROVE ListenerInv'
<1>1. PoolInv(p) /\ TypeOK
  BY DEF ListenerInv
<1>2. wire[p] \in Seq(WireMessage) /\ wire[p] # <<>> /\ Tail(wire[p]) \in Seq(WireMessage)
        /\ Head(wire[p]) = Ready
  BY <1>1 DEF TypeOK, Drained, WireMessage
<1>3. TypeOK'
  BY <1>1, <1>2 DEF TypeOK, Drained, WireMessage, Stage, Connected, Restored,
                    clientVars, noteVars
<1>4. Elsewhere(p)
  BY <1>1 DEF Elsewhere, TypeOK, Drained
<1>5. /\ stage[p] \in Draining
      /\ stage'[p] = IF todo[p] = {} THEN "listening" ELSE "restoring"
      /\ wire'[p] = Tail(wire[p]) /\ sent'[p] = sent[p] /\ subs'[p] = subs[p]
      /\ todo'[p] = todo[p] /\ queue'[p] = queue[p]
      /\ Referenced(p)' = Referenced(p) /\ Told(p)' = Told(p)
  BY <1>1 DEF TypeOK, Drained, Referenced, Told
<1>6. ~OnlyNotes(wire[p])
  BY <1>2, WireShrinks, ReplyIsNoNote
<1>7. sent[p] = NoCmd /\ OneReply(wire[p])
  BY <1>1, <1>5, <1>6 DEF PoolInv, Replies
<1>8. OnlyNotes(wire'[p]) /\ (Rejects(wire[p]) => Rejects(wire'[p]))
  BY <1>2, <1>5, <1>7, WireShrinks, ReplyIsNoNote
<1> QED  BY <1>1, <1>3, <1>4, <1>5, <1>7, <1>8, OnePoolKeeps, TaskKept
         DEF Drained, PoolInv, Unconnected, Replies, Connected, Restored, Draining

LEMMA ServerKeeps ==
  ASSUME ListenerInv, NEW p \in Pools, Serve(p) \/ \E ch \in Channels : Notify(p, ch)
  PROVE  ListenerInv'
<1>1. PoolInv(p) /\ TypeOK /\ wire[p] \in Seq(WireMessage)
  BY DEF ListenerInv, TypeOK, WireMessage
<1>2. PICK m \in WireMessage : wire' = [wire EXCEPT ![p] = Append(@, m)]
  BY DEF Serve, Notify, WireMessage, Note
<1>3. wire'[p] = Append(wire[p], m) /\ Append(wire[p], m) \in Seq(WireMessage)
  BY <1>1, <1>2 DEF TypeOK
<1>4. wire' \in [Pools -> Seq(Note \cup {Ready, Rejected})]
  BY <1>1, <1>2, <1>3 DEF TypeOK, WireMessage
<1>5. CASE Serve(p)
  <2>1. PICK s \in {subs[p], subs[p] \cup {sent[p].channel}, subs[p] \ {sent[p].channel}} :
          subs' = [subs EXCEPT ![p] = s]
    <3>1. subs = [subs EXCEPT ![p] = subs[p]]
      BY <1>1 DEF TypeOK
    <3> QED  BY <1>5, <3>1 DEF Serve
  <2>2. sent[p] \in Cmd /\ sent[p] # NoCmd /\ sent[p].channel \in Channels
    BY <1>1, <1>5 DEF TypeOK, Serve, Cmd
  <2>3. sent' = [sent EXCEPT ![p] = NoCmd]
          /\ UNCHANGED <<current, clientVars, refs, queue, taskVars, noteVars>>
    BY <1>5 DEF Serve
  <2>4. s \subseteq Channels
    BY <1>1, <2>1, <2>2 DEF TypeOK
  <2>5. TypeOK'
    BY <1>1, <1>4, <2>1, <2>3, <2>4 DEF TypeOK, clientVars, taskVars, noteVars
  <2>6. Elsewhere(p)
    BY <1>1, <1>2, <2>1, <2>3 DEF Elsewhere, TypeOK, taskVars
  <2>7. /\ stage'[p] = stage[p] /\ sent'[p] = NoCmd /\ subs'[p] = s
        /\ todo'[p] = todo[p] /\ queue'[p] = queue[p] /\ Referenced(p)' = Referenced(p)
    BY <1>1, <2>1, <2>3 DEF TypeOK, taskVars, Referenced
  <2>8. stage[p] \in Draining /\ stage[p] \in Connected /\ OnlyNotes(wire[p])
    BY <1>1, <2>2 DEF PoolInv, Unconnected, Replies, Draining, Connected, Restored
  <2>9. m \in {Ready, Rejected} /\ (m = Ready => Told(p)' = Told(p))
    <3>1. \/ /\ subs'[p] = IF sent[p].op = "listen" THEN subs[p] \cup {sent[p].channel}
                           ELSE subs[p] \ {sent[p].channel}
             /\ wire'[p] = Append(wire[p], Ready)
          \/ wire'[p] = Append(wire[p], Rejected)
      BY <1>1, <1>5 DEF Serve, TypeOK
    <3>2. \A v \in WireMessage : Append(wire[p], m) = Append(wire[p], v) => m = v
      BY <1>1
    <3>3. Ready \in WireMessage /\ Rejected \in WireMessage
      BY DEF WireMessage
    <3>4. CASE m = Rejected
      BY <3>4, ReplyIsNoNote
    <3>5. CASE m # Rejected
      <4>1. /\ m = Ready
            /\ subs'[p] = IF sent[p].op = "listen" THEN subs[p] \cup {sent[p].channel}
                          ELSE subs[p] \ {sent[p].channel}
        BY <1>3, <3>1, <3>2, <3>3, <3>5
      <4> QED  BY <2>2, <2>7, <4>1 DEF Told
    <3> QED  BY <3>4, <3>5
  <2>10. OneReply(wire'[p])
    BY <1>1, <1>3, <2>8, <2>9, WireGrows
  <2>11. ~Rejects(wire'[p]) => m = Ready /\ ~Rejects(wire[p])
    BY <1>1, <1>3, <2>9, WireGrows
  <2>12. PoolInv(p)'
    BY <1>1, <2>7, <2>8, <2>9, <2>10, <2>11
       DEF PoolInv, Unconnected, Replies, Connected, Restored, Draining
  <2>13. stage[p] \notin {"none", "gone"}
    BY <2>8 DEF Draining
  <2> QED  BY <2>3, <2>5, <2>6, <2>12, <2>13, OnePoolKeeps, TaskKept
<1>6. ASSUME NEW ch \in Channels, Notify(p, ch)
      PROVE  ListenerInv'
  <2>1. UNCHANGED <<current, clientVars, refs, queue, taskVars, sent, subs, inbox, lagged>>
    BY <1>6 DEF Notify
  <2>2. heard' \in [Clients -> SUBSET Channels]
    BY <1>1, <1>6 DEF Notify, TypeOK
  <2>3. TypeOK'
    BY <1>1, <1>4, <2>1, <2>2 DEF TypeOK, clientVars, taskVars
  <2>4. Elsewhere(p)
    BY <1>1, <1>2, <2>1 DEF Elsewhere, TypeOK, taskVars
  <2>5. stage[p] \in Connected
    BY <1>1, <1>6 DEF PoolInv, Unconnected, Notify
  <2>6. m \in Note
    <3>1. PICK v \in Note : wire'[p] = Append(wire[p], v)
      BY <1>1, <1>6 DEF Notify, TypeOK, Note
    <3>2. v \in WireMessage /\ Append(wire[p], m) = Append(wire[p], v)
      BY <1>3, <3>1 DEF WireMessage
    <3>3. m = v
      BY <1>1, <3>2
    <3> QED  BY <3>3
  <2>7. /\ OnlyNotes(wire[p]) => OnlyNotes(wire'[p])
        /\ OneReply(wire[p]) => OneReply(wire'[p])
        /\ Rejects(wire[p]) => Rejects(wire'[p])
    BY <1>1, <1>3, <2>6, WireGrows
  <2>8. PoolInv(p)'
    BY <1>1, <2>1, <2>5, <2>7 DEF PoolInv, Unconnected, Replies, Referenced, Told, taskVars,
       Connected, Restored, Draining
  <2>9. stage[p] \notin {"none", "gone"}
    BY <2>5 DEF Connected, Restored
  <2> QED  BY <2>1, <2>3, <2>4, <2>8, <2>9, OnePoolKeeps, TaskKept
<1> QED  BY <1>5, <1>6

LEMMA ListenerStep ==
  ASSUME ListenerInv, [Next]_vars  PROVE ListenerInv'
<1>1. ASSUME UNCHANGED vars
      PROVE  ListenerInv'
  BY <1>1 DEF vars, clientVars, taskVars, serverVars, noteVars, ListenerInv, TypeOK, OneTask,
              PoolInv, Unconnected, Replies, Referenced, Told
<1>2. ASSUME NEW p \in Pools, TaskStep(p)
      PROVE  ListenerInv'
  BY <1>2, AttemptKeeps, ConnectOkKeeps, RestoreKeeps, TakeCommandKeeps, RelayKeeps,
     DrainedKeeps DEF TaskStep
<1> QED  BY <1>1, <1>2, ClientKeeps, AttemptKeeps, ServerKeeps DEF Next

LEMMA ListenerHolds == Spec => []ListenerInv
<1> QED  BY ListenerInit, ListenerStep, PTL DEF Spec

\* There is one listener connection per (database, user), whatever fails.
THEOREM OneListenerHolds == Spec => []OneListener
<1>1. ListenerInv => OneListener
  BY DEF ListenerInv, OneTask, OneListener, PoolInv, Unconnected, Connected, Restored
<1> QED  BY <1>1, ListenerHolds, PTL

\* Whatever failed and whenever the connection was restored, once the queue is
\* worked off the server is subscribed to exactly the referenced channels.
THEOREM SettledHolds == Spec => []SettledMatches
<1>1. ListenerInv => SettledMatches
  <2> SUFFICES ASSUME ListenerInv, NEW p \in Pools,
                      stage[p] = "listening", queue[p] = <<>>
               PROVE  subs[p] = Referenced(p)
    BY DEF SettledMatches
  <2>1. PoolInv(p)
    BY DEF ListenerInv
  <2>2. sent[p] = NoCmd /\ todo[p] = {} /\ OnlyNotes(wire[p])
    BY <2>1 DEF PoolInv, Replies, Restored
  <2>3. ~Rejects(wire[p])
    BY <2>2, ReplyIsNoNote DEF Rejects, OnlyNotes
  <2>4. Unspoken(<<>>, subs[p], Referenced(p))
    BY <2>1, <2>2, <2>3 DEF PoolInv, Told, Connected, Restored
  <2>5. subs[p] \subseteq Channels /\ Referenced(p) \subseteq Channels
    BY DEF ListenerInv, TypeOK, Referenced
  <2>6. Len(<<>>) = 0
    OBVIOUS
  <2>7. \A ch \in Channels : ch \in subs[p] <=> ch \in Referenced(p)
    BY <2>4, <2>6 DEF Unspoken
  <2> QED  BY <2>5, <2>7
<1> QED  BY <1>1, ListenerHolds, PTL

-----------------------------------------------------------------------------
(* Reference counts                                                        *)

Users(p, ch) == {c \in Clients : at[c] = p /\ ch \in channels[c]}

\* A client without a pool listens to nothing.
RefsInv ==
  /\ TypeOK
  /\ \A c \in Clients : at[c] = NoPool => channels[c] = {}
  /\ RefsMatchClients

LEMMA UsersCounted ==
  ASSUME IsFiniteSet(Clients), NEW S \in SUBSET Clients, NEW c \in Clients
  PROVE  /\ Cardinality(S) \in Nat
         /\ c \notin S => Cardinality(S \cup {c}) = Cardinality(S) + 1
         /\ c \in S => Cardinality(S \ {c}) = Cardinality(S) - 1 /\ Cardinality(S) > 0
<1>1. IsFiniteSet(S)
  BY FS_Subset
<1>2. Cardinality(S) \in Nat
  BY <1>1, FS_CardinalityType
<1>3. c \notin S => Cardinality(S \cup {c}) = Cardinality(S) + 1
  BY <1>1, FS_AddElement
<1>4. c \in S => Cardinality(S \ {c}) = Cardinality(S) - 1
  BY <1>1, FS_RemoveElement
<1>5. c \in S => Cardinality(S) # 0
  BY <1>1, FS_EmptySet
<1> QED  BY <1>2, <1>3, <1>4, <1>5

LEMMA RefsStep ==
  ASSUME IsFiniteSet(Clients), RefsInv, TypeOK', [Next]_vars
  PROVE  RefsInv'
<1> USE DEF RefsMatchClients
<1>1. ASSUME NEW c \in Clients, NEW ch \in Channels, Listen(c, ch)
      PROVE  RefsInv'
  <2>1. PICK p \in Pools : p = at[c]
    BY <1>1 DEF Listen, RefsInv, TypeOK
  <2>2. /\ channels' = [channels EXCEPT ![c] = @ \cup {ch}] /\ at' = at
        /\ refs' = [refs EXCEPT ![p][ch] = @ + 1] /\ ch \notin channels[c]
    BY <1>1, <2>1 DEF Listen, AddRef
  <2>3. ASSUME NEW q \in Pools, NEW d \in Channels
        PROVE  refs'[q][d] = Cardinality(Users(q, d)')
    <3>1. refs[q][d] = Cardinality(Users(q, d)) /\ Users(q, d) \subseteq Clients
      BY DEF RefsInv, Users
    <3>2. CASE q = p /\ d = ch
      <4>1. Users(q, d)' = Users(q, d) \cup {c} /\ c \notin Users(q, d)
        BY <2>1, <2>2, <3>2 DEF Users, RefsInv, TypeOK
      <4>2. refs'[q][d] = refs[q][d] + 1
        BY <2>2, <3>2 DEF RefsInv, TypeOK
      <4> QED  BY <3>1, <4>1, <4>2, UsersCounted
    <3>3. CASE ~(q = p /\ d = ch)
      <4>1. Users(q, d)' = Users(q, d)
        BY <2>1, <2>2, <3>3 DEF Users, RefsInv, TypeOK
      <4>2. refs'[q][d] = refs[q][d]
        BY <2>2, <3>3 DEF RefsInv, TypeOK
      <4> QED  BY <3>1, <4>1, <4>2
    <3> QED  BY <3>2, <3>3
  <2>4. \A d \in Clients : at'[d] = NoPool => channels'[d] = {}
    BY <1>1, <2>2 DEF Listen, RefsInv, TypeOK
  <2> QED  BY <2>3, <2>4 DEF RefsInv, Users
<1>2. ASSUME NEW c \in Clients, NEW ch \in Channels, Unlisten(c, ch)
      PROVE  RefsInv'
  <2>1. PICK p \in Pools : p = at[c]
    BY <1>2 DEF Unlisten, RefsInv, TypeOK
  <2>2. c \in Users(p, ch) /\ Users(p, ch) \subseteq Clients
    BY <1>2, <2>1 DEF Unlisten, Users
  <2>3. refs[p][ch] # 0
    <3>1. refs[p][ch] = Cardinality(Users(p, ch))
      BY DEF RefsInv, Users
    <3>2. Cardinality(Users(p, ch)) > 0
      BY <2>2, UsersCounted
    <3> QED  BY <3>1, <3>2
  <2>4. /\ channels' = [channels EXCEPT ![c] = @ \ {ch}] /\ at' = at
        /\ refs' = [refs EXCEPT ![p][ch] = @ - 1]
    BY <1>2, <2>1, <2>3 DEF Unlisten, RemoveRef
  <2>5. ASSUME NEW q \in Pools, NEW d \in Channels
        PROVE  refs'[q][d] = Cardinality(Users(q, d)')
    <3>1. refs[q][d] = Cardinality(Users(q, d)) /\ Users(q, d) \subseteq Clients
      BY DEF RefsInv, Users
    <3>2. CASE q = p /\ d = ch
      <4>1. Users(q, d)' = Users(q, d) \ {c}
        BY <2>1, <2>4, <3>2 DEF Users, RefsInv, TypeOK
      <4>2. refs'[q][d] = refs[q][d] - 1
        BY <2>4, <3>2 DEF RefsInv, TypeOK
      <4> QED  BY <2>2, <3>1, <3>2, <4>1, <4>2, UsersCounted
    <3>3. CASE ~(q = p /\ d = ch)
      <4>1. Users(q, d)' = Users(q, d)
        BY <2>1, <2>4, <3>3 DEF Users, RefsInv, TypeOK
      <4>2. refs'[q][d] = refs[q][d]
        BY <2>4, <3>3 DEF RefsInv, TypeOK
      <4> QED  BY <3>1, <4>1, <4>2
    <3> QED  BY <3>2, <3>3
  <2>6. \A d \in Clients : at'[d] = NoPool => channels'[d] = {}
    BY <2>4 DEF RefsInv, TypeOK
  <2> QED  BY <2>5, <2>6 DEF RefsInv, Users
<1>3. ASSUME NEW c \in Clients, Subscribe(c) \/ Leave(c)
      PROVE  RefsInv'
  <2>1. channels[c] = {} /\ UNCHANGED <<channels, refs>>
    BY <1>3 DEF Subscribe, Leave, RefsInv
  <2>2. \A d \in Clients \ {c} : at'[d] = at[d]
    BY <1>3 DEF Subscribe, Leave, RefsInv, TypeOK
  <2>3. \A q \in Pools, d \in Channels : Users(q, d)' = Users(q, d)
    BY <2>1, <2>2 DEF Users
  <2> QED  BY <2>1, <2>2, <2>3 DEF RefsInv, Users
<1>4. ASSUME UNCHANGED <<at, channels, refs>>
      PROVE  RefsInv'
  BY <1>4 DEF RefsInv
<1>5. ASSUME NEW p \in Pools, TaskStep(p) \/ Break(p) \/ Serve(p)
      PROVE  UNCHANGED <<at, channels, refs>>
  BY <1>5 DEF TaskStep, Attempt, ConnectOk, ConnectFail, Restore, TakeCommand, Relay,
              Drained, DrainError, Break, Serve, Failed, clientVars
<1>6. ASSUME NEW p \in Pools, NEW ch \in Channels, Notify(p, ch)
      PROVE  UNCHANGED <<at, channels, refs>>
  BY <1>6 DEF Notify, clientVars
<1>7. ASSUME NEW c \in Clients, Recv(c)
      PROVE  UNCHANGED <<at, channels, refs>>
  BY <1>7 DEF Recv, clientVars
<1>8. ASSUME UNCHANGED vars
      PROVE  UNCHANGED <<at, channels, refs>>
  BY <1>8 DEF vars, clientVars
<1> QED  BY <1>1, <1>2, <1>3, <1>4, <1>5, <1>6, <1>7, <1>8 DEF Next, ClientStep

\* A channel's count is the number of clients that listen to it, so a channel is
\* given up when, and only when, the last of them is gone.
THEOREM CountsHold ==
  ASSUME IsFiniteSet(Clients)  PROVE Spec => []RefsMatchClients
<1>1. Init => RefsInv
  <2> SUFFICES ASSUME Init PROVE RefsInv
    OBVIOUS
  <2>1. TypeOK
    BY ListenerInit DEF ListenerInv
  <2>2. \A p \in Pools, ch \in Channels :
          {c \in Clients : at[c] = p /\ ch \in channels[c]} = {}
    BY DEF Init
  <2>3. Cardinality({}) = 0
    BY FS_EmptySet
  <2> QED  BY <2>1, <2>2, <2>3 DEF Init, RefsInv, RefsMatchClients
<1>2. RefsInv /\ TypeOK' /\ [Next]_vars => RefsInv'
  BY RefsStep
<1>3. ListenerInv => TypeOK
  BY DEF ListenerInv
<1>4. RefsInv => RefsMatchClients
  BY DEF RefsInv
<1> QED  BY <1>1, <1>2, <1>3, <1>4, ListenerHolds, PTL DEF Spec
=============================================================================
