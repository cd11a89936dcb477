--------------------------- MODULE Dlmcontrol_proofs ---------------------------
(***************************************************************************)
(* NotForgotten for every set of filesystems and nodes and every number of *)
(* failures, as long as no node comes back or fails again while messages   *)
(* about it are under way ("again").                                       *)
(*                                                                         *)
(* Requests and results are matched by name and node alone.  What keeps an *)
(* old answer from completing a new notification is that a message about a *)
(* node is only under way while the node is down (Odd) and in the life it  *)
(* was sent in, so that an answer of success is about the failure that was *)
(* asked about last (Current).                                             *)
(***************************************************************************)
EXTENDS Dlmcontrol, SequenceTheorems, TLAPS

\* The messages on the socket.
Message ==
    [type : {"register", "unregister"}, name : Names, node : {AnyNode}, status : {0}]
        \cup [type : {"notified"}, name : Names, node : Nodes, status : {0, 1}]

\* Every variable has its type.
TypeOK ==
    /\ register_list \subseteq Names
    /\ df_notifications \in [Names -> SUBSET Nodes]
    /\ requests \in Seq(Message) /\ results \in Seq(Message)
    /\ life \in [Nodes -> Nat] /\ seen \in [Nodes -> Nat]
    /\ asked \in [Names -> [Nodes -> Nat]] /\ noted \in [Names -> [Nodes -> Nat]]
    /\ daemon \in {"up", "down"} /\ mounts \in Nat

\* dlm_controld is at most one change of a node behind.
Behind == \A n \in Nodes : seen[n] <= life[n] /\ life[n] <= seen[n] + 1

\* What was asked about is a failure, up to the node's present life, and nothing
\* has been asked for a filesystem that is not registered.
Asked ==
    \A f \in Names, n \in Nodes :
        /\ asked[f][n] <= life[n] /\ (asked[f][n] = 0 \/ asked[f][n] % 2 = 1)
        /\ noted[f][n] <= seen[n]
        /\ f \notin register_list => asked[f][n] = 0

\* A message about a node is under way only while the node is down.
Odd == \A m \in Range(requests) \cup Range(results) :
          m.type = "notified" => life[m.node] % 2 = 1

\* A request carries no status; an answer of success is about the present life.
Current ==
    /\ \A m \in Range(requests) : m.status = 0
    /\ \A m \in Range(results) :
          m.type = "notified" /\ m.status = 0 => noted[m.name][m.node] = life[m.node]

\* NotForgotten for one filesystem and node, in terms of the messages on the socket.
Told(f, n) ==
    \/ noted[f][n] >= asked[f][n]
    \/ /\ n \in df_notifications[f]
       /\ \/ Msg("notified", f, n, 0) \in Range(requests)
          \/ Msg("notified", f, n, 1) \in Range(results)

Remembered == \A f \in register_list, n \in Nodes : Told(f, n)

IInv == TypeOK /\ Behind /\ Asked /\ Odd /\ Current /\ Remembered

-----------------------------------------------------------------------------
(* Queues.                                                                 *)

\* A message is added to a queue.
LEMMA Sent ==
    ASSUME NEW q \in Seq(Message), NEW m \in Message
    PROVE  Append(q, m) \in Seq(Message) /\ Range(Append(q, m)) = Range(q) \cup {m}
<1>1. /\ Append(q, m) \in Seq(Message) /\ Len(Append(q, m)) = Len(q) + 1 /\ Len(q) \in Nat
      /\ \A i \in 1..Len(q) : Append(q, m)[i] = q[i]
      /\ Append(q, m)[Len(q) + 1] = m
  BY AppendProperties, LenProperties
<1>2. Range(Append(q, m)) = {Append(q, m)[i] : i \in 1..(Len(q) + 1)}
      /\ Range(q) = {q[i] : i \in 1..Len(q)}
  BY Zenon, <1>1, RangeEquality
<1> QED BY <1>1, <1>2

\* The first message is taken from a queue.
LEMMA Received ==
    ASSUME NEW q \in Seq(Message), q # <<>>
    PROVE  /\ Head(q) \in Message /\ Tail(q) \in Seq(Message)
           /\ Range(q) = {Head(q)} \cup Range(Tail(q))
<1>1. /\ Head(q) \in Message /\ Tail(q) \in Seq(Message) /\ Len(Tail(q)) = Len(q) - 1
      /\ \A i \in 1..Len(Tail(q)) : Tail(q)[i] = q[i + 1]
  BY Zenon, HeadTailProperties
<1>2. Len(q) \in Nat \ {0} /\ Head(q) = q[1]
  BY EmptySeq, LenProperties
<1>3. Range(Tail(q)) = {Tail(q)[i] : i \in 1..(Len(q) - 1)}
      /\ Range(q) = {q[i] : i \in 1..Len(q)}
  BY Zenon, <1>1, RangeEquality
<1>4. ASSUME NEW i \in 1..Len(q) PROVE q[i] = Head(q) \/ q[i] \in Range(Tail(q))
  <2>1. CASE i = 1
    BY Zenon, <1>2, <2>1
  <2>2. CASE i # 1
    <3>1. i - 1 \in 1..(Len(q) - 1) /\ (i - 1) + 1 = i
      BY <1>2, <2>2
    <3> QED BY Zenon, <1>1, <1>3, <3>1
  <2> QED BY Zenon, <2>1, <2>2
<1>5. ASSUME NEW i \in 1..(Len(q) - 1) PROVE Tail(q)[i] \in Range(q)
  <2>1. i + 1 \in 1..Len(q)
    BY <1>2
  <2> QED BY Zenon, <1>1, <1>3, <2>1
<1>6. Head(q) \in Range(q)
  BY <1>2, <1>3
<1> QED BY Zenon, <1>1, <1>3, <1>4, <1>5, <1>6

-----------------------------------------------------------------------------
(* The actions.                                                            *)

\* The messages that the handlers send are messages.
LEMMA Messages ==
    ASSUME NEW f \in Names
    PROVE  /\ Msg("register", f, AnyNode, 0) \in Message
           /\ Msg("unregister", f, AnyNode, 0) \in Message
           /\ \A n \in Nodes, st \in {0, 1} : Msg("notified", f, n, st) \in Message
  BY Zenon DEF Msg, Message

\* A filesystem that is registered starts with nothing asked.
LEMMA RegisterStep ==
    ASSUME IInv, NEW f \in Names, dlmcontrol_register(f)
    PROVE  IInv'
<1> DEFINE m == Msg("register", f, AnyNode, 0)
<1> USE DEF IInv, dlmcontrol_register
<1>1. requests' \in Seq(Message) /\ Range(requests') = Range(requests) \cup {m}
      /\ m.type = "register" /\ m.status = 0
  BY Zenon, Messages, Sent DEF TypeOK, Msg
<1>2. TypeOK'
  BY <1>1, ConstAssumption DEF TypeOK
<1>3. Behind' /\ Asked'
  BY Zenon DEF Behind, Asked
<1>4. Odd' /\ Current'
  BY Zenon, <1>1 DEF Odd, Current
<1>5. Remembered'
  <2> SUFFICES ASSUME NEW g \in register_list', NEW n \in Nodes PROVE Told(g, n)'
    BY Zenon DEF Remembered
  <2>1. CASE g = f
    BY <2>1 DEF Asked, TypeOK, Told
  <2>2. CASE g # f
    BY Zenon, <1>1, <2>2 DEF TypeOK, Told, Remembered
  <2> QED BY Zenon, <2>1, <2>2
<1> QED BY Zenon, <1>2, <1>3, <1>4, <1>5

\* Nothing is asked any more for a filesystem that is unregistered.
LEMMA UnregisterStep ==
    ASSUME IInv, NEW f \in Names, dlmcontrol_unregister(f)
    PROVE  IInv'
<1> DEFINE m == Msg("unregister", f, AnyNode, 0)
<1> USE DEF IInv, dlmcontrol_unregister
<1>1. requests' \in Seq(Message) /\ Range(requests') = Range(requests) \cup {m}
      /\ m.type = "unregister" /\ m.status = 0
  BY Zenon, Messages, Sent DEF TypeOK, Msg
<1>2. TypeOK'
  BY Zenon, <1>1 DEF TypeOK, NoFailure
<1>3. Behind' /\ Asked'
  BY DEF Behind, Asked, TypeOK, NoFailure
<1>4. Odd' /\ Current'
  BY Zenon, <1>1 DEF Odd, Current
<1>5. Remembered'
  BY Zenon, <1>1 DEF TypeOK, Told, Remembered
<1> QED BY Zenon, <1>2, <1>3, <1>4, <1>5

\* The request that dlmcontrol_node_down() sends is about the node's present life.
LEMMA NodeDownStep ==
    ASSUME IInv, NEW f \in Names, NEW n \in Nodes, dlmcontrol_node_down(f, n)
    PROVE  IInv'
<1> DEFINE m == Msg("notified", f, n, 0)
<1> USE DEF IInv, dlmcontrol_node_down, notify
<1>1. requests' \in Seq(Message) /\ Range(requests') = Range(requests) \cup {m}
      /\ m.node = n /\ m.status = 0
  BY Zenon, Messages, Sent DEF TypeOK, Msg
<1>2. TypeOK'
  BY Zenon, <1>1 DEF TypeOK
<1>3. Behind' /\ Asked'
  <2>1. life[n] \in Nat /\ life[n] <= life[n]
    BY SMT DEF TypeOK
  <2>2. \A g \in Names, k \in Nodes :
            asked'[g][k] = IF g = f /\ k = n THEN life[n] ELSE asked[g][k]
    BY Zenon DEF TypeOK
  <2>3. Behind'
    BY Zenon DEF Behind
  <2>4. ASSUME NEW g \in Names, NEW k \in Nodes
        PROVE  /\ asked'[g][k] <= life'[k] /\ (asked'[g][k] = 0 \/ asked'[g][k] % 2 = 1)
               /\ noted'[g][k] <= seen'[k]
               /\ g \notin register_list' => asked'[g][k] = 0
    <3>1. CASE g = f /\ k = n
      <4>1. asked'[f][n] = life[n]
        BY Zenon DEF TypeOK
      <4>2. life[n] % 2 = 1 /\ life' = life /\ f \in register_list'
        BY Zenon
      <4>3. noted'[f][n] <= seen'[n]
        BY Zenon DEF Asked
      <4> QED BY Zenon, <2>1, <3>1, <4>1, <4>2, <4>3
    <3>2. CASE ~(g = f /\ k = n)
      <4>1. asked'[g][k] = asked[g][k]
        BY Zenon, <2>2, <3>2
      <4> QED BY Zenon, <4>1 DEF Asked
    <3> QED BY Zenon, <3>1, <3>2
  <2> QED BY Zenon, <2>3, <2>4 DEF Asked
<1>4. Odd' /\ Current'
  BY Zenon, <1>1 DEF Odd, Current
<1>5. Remembered'
  BY Zenon, <1>1 DEF TypeOK, Told, Remembered
<1> QED BY Zenon, <1>2, <1>3, <1>4, <1>5

\* A result is read.  One of success is about the present life, so nothing is
\* forgotten when the notification is completed; after any other the request is
\* sent again.
LEMMA ResultStep ==
    ASSUME IInv, process_dlmcontrol
    PROVE  IInv'
<1> DEFINE m == Head(results)
           for == m.name \in register_list /\ m.type = "notified" /\ m.node \in df_notifications[m.name]
           r == Msg("notified", m.name, m.node, 0)
<1>1. /\ m \in Message /\ results' \in Seq(Message)
      /\ Range(results) = {m} \cup Range(results')
      /\ UNCHANGED <<register_list, life, seen, asked, noted, daemon, mounts>>
  BY Zenon, Received DEF IInv, TypeOK, process_dlmcontrol
<1>2. m.type = "notified" => m.node \in Nodes /\ m.status \in {0, 1}
  BY Zenon, <1>1 DEF Message
<1>3. m.name \in Names
  BY Zenon, <1>1 DEF Message
<1>4. CASE ~for
  <2>1. UNCHANGED <<df_notifications, requests>>
    BY Zenon, <1>4 DEF process_dlmcontrol, notify_result
  <2>2. TypeOK' /\ Behind' /\ Asked'
    BY Zenon, <1>1, <2>1 DEF IInv, TypeOK, Behind, Asked
  <2>3. Odd' /\ Current'
    BY Zenon, <1>1, <2>1 DEF IInv, Odd, Current
  <2>4. Remembered'
    <3> SUFFICES ASSUME NEW f \in register_list, NEW n \in Nodes, Told(f, n) PROVE Told(f, n)'
      BY Zenon, <1>1 DEF IInv, Remembered
    <3>1. CASE Msg("notified", f, n, 1) = m
      <4>1. f = m.name /\ n = m.node /\ m.type = "notified"
        BY <3>1 DEF Msg
      <4> QED BY Zenon, <1>1, <1>4, <2>1, <3>1, <4>1 DEF Told
    <3>2. CASE Msg("notified", f, n, 1) # m
      BY Zenon, <1>1, <2>1, <3>2 DEF Told
    <3> QED BY Zenon, <3>1, <3>2
  <2> QED BY Zenon, <2>2, <2>3, <2>4 DEF IInv
<1>5. CASE for /\ m.status = 0
  <2>1. df_notifications' = [df_notifications EXCEPT ![m.name] = @ \ {m.node}] /\ UNCHANGED requests
    BY Zenon, <1>5 DEF process_dlmcontrol, notify_result
  <2>2. TypeOK' /\ Behind' /\ Asked'
    BY Zenon, <1>1, <1>3, <2>1 DEF IInv, TypeOK, Behind, Asked
  <2>3. Odd' /\ Current'
    BY Zenon, <1>1, <2>1 DEF IInv, Odd, Current
  <2>4. noted[m.name][m.node] >= asked[m.name][m.node]
    BY Zenon, <1>1, <1>2, <1>3, <1>5 DEF IInv, TypeOK, Current, Asked
  <2>5. Remembered'
    <3> SUFFICES ASSUME NEW f \in register_list, NEW n \in Nodes, Told(f, n) PROVE Told(f, n)'
      BY Zenon, <1>1 DEF IInv, Remembered
    <3>1. Msg("notified", f, n, 1) # m
      BY <1>5 DEF Msg
    <3>2. CASE f = m.name /\ n = m.node
      BY Zenon, <1>1, <2>4, <3>2 DEF Told
    <3>3. CASE ~(f = m.name /\ n = m.node)
      BY Zenon, <1>1, <2>1, <3>1, <3>3 DEF Told, IInv, TypeOK
    <3> QED BY Zenon, <3>2, <3>3
  <2> QED BY Zenon, <2>2, <2>3, <2>5 DEF IInv
<1>6. CASE for /\ m.status # 0
  <2>1. df_notifications' = [df_notifications EXCEPT ![m.name] = @ \cup {m.node}]
        /\ requests' = Append(requests, r)
    BY Zenon, <1>6 DEF process_dlmcontrol, notify_result, notify
  <2>2. r \in Message /\ r.node = m.node /\ r.status = 0 /\ r.type = "notified"
    BY Zenon, <1>2, <1>3, <1>6, Messages DEF Msg
  <2>3. requests' \in Seq(Message) /\ Range(requests') = Range(requests) \cup {r}
    BY Zenon, <2>1, <2>2, Sent DEF IInv, TypeOK
  <2>4. TypeOK' /\ Behind' /\ Asked'
    BY Zenon, <1>1, <1>2, <1>3, <1>6, <2>1, <2>3 DEF IInv, TypeOK, Behind, Asked
  <2>5. Odd' /\ Current'
    <3>1. life[m.node] % 2 = 1
      BY Zenon, <1>1, <1>6 DEF IInv, Odd
    <3> HIDE DEF r
    <3> QED BY Zenon, <1>1, <2>2, <2>3, <3>1 DEF IInv, Odd, Current
  <2>6. Remembered'
    <3> SUFFICES ASSUME NEW f \in register_list, NEW n \in Nodes, Told(f, n) PROVE Told(f, n)'
      BY Zenon, <1>1 DEF IInv, Remembered
    <3>1. CASE f = m.name /\ n = m.node
      BY Zenon, <1>1, <1>6, <2>1, <2>3, <3>1 DEF Told, IInv, TypeOK
    <3>2. CASE ~(f = m.name /\ n = m.node)
      <4>1. Msg("notified", f, n, 1) # m
        BY <3>2 DEF Msg
      <4> QED BY Zenon, <1>1, <2>1, <2>3, <4>1 DEF Told, IInv, TypeOK
    <3> QED BY Zenon, <3>1, <3>2
  <2> QED BY Zenon, <2>4, <2>5, <2>6 DEF IInv
<1> QED BY Zenon, <1>4, <1>5, <1>6

\* The connection breaks: nothing is registered any more.
LEMMA DeadStep ==
    ASSUME IInv, dead_dlmcontrol
    PROVE  IInv'
<1> USE DEF IInv, dead_dlmcontrol
<1>1. TypeOK' /\ Behind' /\ Asked'
  BY EmptySeq DEF TypeOK, Behind, Asked, NoFailure
<1>2. Odd' /\ Current' /\ Remembered'
  BY DEF Odd, Current, Remembered, Range
<1> QED BY Zenon, <1>1, <1>2

\* dlm_controld takes note of a failure when it has seen the life that the
\* request is about.
LEMMA AnswerStep ==
    ASSUME IInv, dlm_controld
    PROVE  IInv'
<1> DEFINE m == Head(requests)
           down == seen[m.node] % 2 = 1
           a == [m EXCEPT !.status = IF down THEN 0 ELSE 1]
<1>1. /\ m \in Message /\ requests' \in Seq(Message)
      /\ Range(requests) = {m} \cup Range(requests')
      /\ UNCHANGED <<register_list, df_notifications, life, seen, asked, daemon, mounts>>
  BY Zenon, Received DEF IInv, TypeOK, dlm_controld
<1>2. CASE m.type # "notified"
  <2>1. m.type \in {"register", "unregister"}
    BY Zenon, <1>1, <1>2 DEF Message
  <2>2. noted' = noted /\ (results' = Append(results, m) \/ results' = results)
    BY Zenon, <2>1 DEF dlm_controld
  <2>3. results' \in Seq(Message) /\ Range(results') \subseteq Range(results) \cup {m}
        /\ Range(results) \subseteq Range(results')
    <3> HIDE DEF m
    <3>1. results \in Seq(Message)
      BY Zenon DEF IInv, TypeOK
    <3>2. Append(results, m) \in Seq(Message) /\ Range(Append(results, m)) = Range(results) \cup {m}
      BY Zenon, <1>1, <3>1, Sent
    <3> QED BY Zenon, <2>2, <3>1, <3>2
  <2>4. TypeOK' /\ Behind' /\ Asked'
    BY Zenon, <1>1, <2>2, <2>3 DEF IInv, TypeOK, Behind, Asked
  <2>5. Odd' /\ Current'
    BY Zenon, <1>1, <1>2, <2>2, <2>3 DEF IInv, Odd, Current
  <2>6. Remembered'
    <3>1. \A f, n : Msg("notified", f, n, 0) # m
      BY <1>2 DEF Msg
    <3> QED BY Zenon, <1>1, <2>2, <2>3, <3>1 DEF IInv, Remembered, Told
  <2> QED BY Zenon, <2>4, <2>5, <2>6 DEF IInv
<1>3. CASE m.type = "notified"
  <2>1. m.name \in Names /\ m.node \in Nodes /\ m = Msg("notified", m.name, m.node, 0)
    <3>1. m.status = 0
      BY Zenon, <1>1 DEF IInv, Current
    <3> QED BY Zenon, <1>1, <1>3, <3>1 DEF Message, Msg
  <2>2. a = Msg("notified", m.name, m.node, IF down THEN 0 ELSE 1)
    BY <2>1 DEF Msg
  <2>3. results' = Append(results, a)
        /\ noted' = IF down THEN [noted EXCEPT ![m.name][m.node] = seen[m.node]] ELSE noted
    BY Zenon, <1>3 DEF dlm_controld
  <2>4. results' \in Seq(Message) /\ Range(results') = Range(results) \cup {a}
    BY Zenon, <2>1, <2>2, <2>3, Messages, Sent DEF IInv, TypeOK
  <2>5. down => seen[m.node] = life[m.node]
    <3>1. life[m.node] % 2 = 1
      BY Zenon, <1>1, <1>3 DEF IInv, Odd
    <3>2. /\ seen[m.node] \in Nat /\ life[m.node] \in Nat
          /\ seen[m.node] <= life[m.node] /\ life[m.node] <= seen[m.node] + 1
      BY Zenon, <2>1 DEF IInv, TypeOK, Behind
    <3>3. \A s, k \in Nat : s % 2 = 1 /\ k % 2 = 1 /\ s <= k /\ k <= s + 1 => s = k
      OBVIOUS
    <3> HIDE DEF m
    <3> QED BY Zenon, <3>1, <3>2, <3>3
  <2>6. TypeOK' /\ Behind' /\ Asked'
    <3> HIDE DEF m, a, down
    <3>1. noted' \in [Names -> [Nodes -> Nat]]
      BY Zenon, <2>1, <2>3 DEF IInv, TypeOK
    <3>2. \A f \in Names, n \in Nodes : noted'[f][n] <= seen[n]
      <4> TAKE f \in Names, n \in Nodes
      <4>1. seen[n] \in Nat /\ seen[n] <= seen[n]
        BY SMT DEF IInv, TypeOK
      <4>2. noted'[f][n] \in {noted[f][n], seen[n]}
        BY Zenon, <2>1, <2>3 DEF IInv, TypeOK
      <4> QED BY Zenon, <4>1, <4>2 DEF IInv, Asked
    <3> QED BY Zenon, <1>1, <2>4, <3>1, <3>2 DEF IInv, TypeOK, Behind, Asked
  <2>7. a.node = m.node /\ a.name = m.name /\ a.type = "notified" /\ (a.status = 0 <=> down)
    BY <2>2 DEF Msg
  <2>8. noted'[m.name][m.node] = IF down THEN life[m.node] ELSE noted[m.name][m.node]
    BY Zenon, <2>1, <2>3, <2>5 DEF IInv, TypeOK
  <2>9. ASSUME NEW f \in Names, NEW n \in Nodes, ~(f = m.name /\ n = m.node)
        PROVE  noted'[f][n] = noted[f][n]
    BY Zenon, <2>1, <2>3, <2>9 DEF IInv, TypeOK
  <2>10. Odd'
    <3> HIDE DEF a
    <3> QED BY Zenon, <1>1, <1>3, <2>4, <2>7 DEF IInv, Odd
  <2>11. Current'
    <3> HIDE DEF a, down
    <3>1. ASSUME NEW k \in Range(results), k.type = "notified", k.status = 0
          PROVE  noted'[k.name][k.node] = life[k.node]
      <4>1. k.name \in Names /\ k.node \in Nodes /\ noted[k.name][k.node] = life[k.node]
        <5>1. Range(results) \in SUBSET Message
          BY Zenon, RangeOfSeq DEF IInv, TypeOK
        <5>2. k.name \in Names /\ k.node \in Nodes
          BY Zenon, <3>1, <5>1 DEF Message
        <5> QED BY Zenon, <3>1, <5>2 DEF IInv, Current
      <4> QED BY Zenon, <2>8, <2>9, <4>1
    <3>2. a.status = 0 => noted'[a.name][a.node] = life[a.node]
      BY <2>7, <2>8
    <3> QED BY Zenon, <1>1, <2>4, <3>1, <3>2 DEF IInv, Current
  <2>12. Remembered'
    <3> SUFFICES ASSUME NEW f \in register_list, NEW n \in Nodes, Told(f, n) PROVE Told(f, n)'
      BY Zenon, <1>1 DEF IInv, Remembered
    <3>1. f \in Names /\ asked[f][n] <= life[n]
      BY Zenon DEF IInv, TypeOK, Asked
    <3>2. CASE f = m.name /\ n = m.node /\ down
      BY Zenon, <1>1, <2>8, <3>1, <3>2 DEF Told, IInv, TypeOK
    <3>3. CASE f = m.name /\ n = m.node /\ ~down
      BY Zenon, <1>1, <2>2, <2>4, <2>8, <3>3 DEF Told
    <3>4. CASE ~(f = m.name /\ n = m.node)
      <4>1. Msg("notified", f, n, 0) # m
        BY <3>4 DEF Msg
      <4> HIDE DEF a
      <4> QED BY Zenon, <1>1, <2>4, <2>9, <3>1, <3>4, <4>1 DEF Told
    <3> QED BY Zenon, <3>2, <3>3, <3>4
  <2> QED BY Zenon, <2>6, <2>10, <2>11, <2>12 DEF IInv
<1> QED BY Zenon, <1>2, <1>3

\* dlm_controld sees a change.
LEMMA SeesStep ==
    ASSUME IInv, NEW n \in Nodes, dlm_sees(n)
    PROVE  IInv'
<1> USE DEF IInv, dlm_sees
<1>1. TypeOK' /\ Behind' /\ Asked'
  BY DEF TypeOK, Behind, Asked
<1>2. Odd' /\ Current' /\ Remembered'
  BY Zenon DEF Odd, Current, Remembered, Told
<1> QED BY Zenon, <1>1, <1>2

\* A node fails or comes back when no message about it is under way.
LEMMA ChangeStep ==
    ASSUME IInv, "again" \notin Faults, NEW n \in Nodes, node_changes(n)
    PROVE  IInv'
<1>1. /\ life' = [life EXCEPT ![n] = @ + 1] /\ seen[n] = life[n]
      /\ UNCHANGED <<register_list, df_notifications, requests, results, seen, asked, noted,
                     daemon, mounts>>
  BY Zenon DEF node_changes
<1>2. \A m \in Range(requests) \cup Range(results) : m.type = "notified" => m.node # n
  <2>1. ~UnderWay(requests \o results, n)
    BY Zenon DEF node_changes
  <2>2. Range(requests \o results) = Range(requests) \cup Range(results)
    BY RangeConcatenation DEF IInv, TypeOK
  <2> QED BY Zenon, <2>1, <2>2 DEF UnderWay, Range
<1>3. \A m \in Range(requests) \cup Range(results) :
         m.type = "notified" => m.node \in Nodes /\ life'[m.node] = life[m.node]
  <2>1. Range(requests) \subseteq Message /\ Range(results) \subseteq Message
    BY Zenon, RangeOfSeq DEF IInv, TypeOK
  <2>2. \A m \in Message : m.type = "notified" => m.node \in Nodes
    BY Zenon DEF Message
  <2> QED BY Zenon, <1>1, <1>2, <2>1, <2>2 DEF IInv, TypeOK
<1>4. TypeOK' /\ Behind' /\ Asked'
  BY <1>1 DEF IInv, TypeOK, Behind, Asked
<1>5. Odd' /\ Current'
  BY Zenon, <1>1, <1>3 DEF IInv, Odd, Current
<1>6. Remembered'
  BY Zenon, <1>1 DEF IInv, Remembered, Told
<1> QED BY Zenon, <1>4, <1>5, <1>6 DEF IInv

-----------------------------------------------------------------------------
(* The theorems.                                                           *)

\* The invariant holds at first.
LEMMA InitOK == Init => IInv
<1> SUFFICES ASSUME Init PROVE IInv
  BY Zenon
<1>1. TypeOK /\ Behind /\ Asked
  BY EmptySeq DEF Init, TypeOK, Behind, Asked, NoFailure
<1>2. Odd /\ Current /\ Remembered
  BY DEF Init, Odd, Current, Remembered, Range
<1> QED BY Zenon, <1>1, <1>2 DEF IInv

\* "This goes on until dlm_controld sees the node go down": whatever the
\* filesystems and nodes and however often these fail and return, a failure that
\* dlmcontrol_node_down() was told of is noted by dlm_controld or will be asked
\* about again, unless a node changes while messages about it are under way.
THEOREM NeverForgotten ==
    ASSUME "again" \notin Faults
    PROVE  Spec => []NotForgotten
<1>1. IInv /\ [Next]_vars => IInv'
  <2> SUFFICES ASSUME IInv, [Next]_vars PROVE IInv'
    BY Zenon
  <2>1. CASE UNCHANGED vars
    BY Zenon, <2>1 DEF vars, IInv, TypeOK, Behind, Asked, Odd, Current, Remembered, Told
  <2>2. CASE Next
    BY Zenon, <2>2, RegisterStep, UnregisterStep, NodeDownStep, ResultStep, DeadStep, AnswerStep,
       SeesStep, ChangeStep DEF Next
  <2> QED BY Zenon, <2>1, <2>2
<1>2. IInv => NotForgotten
  BY Zenon DEF IInv, Remembered, Told, NotForgotten, Range
<1> QED BY <1>1, <1>2, InitOK, PTL DEF Spec

=============================================================================
