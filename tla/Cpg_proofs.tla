----------------------------- MODULE Cpg_proofs -----------------------------
(***************************************************************************)
(* CaughtUp, SameOrder and NoFalseDown for every set of nodes and of       *)
(* filesystems and any number of failures, joins and leaves.               *)
(*                                                                         *)
(* A daemon reads joins and leaves of a filesystem over one connection and *)
(* failures over another.  What makes the two agree is a statement about   *)
(* each node in each queue (Idea): playing the queued joins and leaves     *)
(* over cg_nodes gives the group's members, but for the nodes whose        *)
(* failure the daemon has yet to read, and those are not members and have  *)
(* no join queued.                                                         *)
(***************************************************************************)
EXTENDS Cpg, TLAPS

ChangeType ==
    [members : SUBSET Nodes, node : Nodes, reason : {"JOIN", "LEAVE", "DOWN"}, number : Nat]
CgType == [open : BOOLEAN, joined : BOOLEAN, members : SUBSET Nodes, nodes : SUBSET Nodes]
ToldType == [number : Nat, uuids : SUBSET Uuids]

\* Every variable has its type.
TypeOK ==
    /\ state \in [Nodes -> {"down", "up", "dying", "lost"}]
    /\ member \in [Groups -> SUBSET Nodes]
    /\ confchg \in [Nodes -> [Groups -> Seq(ChangeType)]]
    /\ revents \in [Nodes -> SUBSET Groups]
    /\ cg \in [Nodes -> [Groups -> CgType]]
    /\ told \in [Nodes -> Seq(ToldType)]
    /\ downs \in Nat /\ changes \in Nat

-----------------------------------------------------------------------------
(* One daemon d, its cgroup c of a filesystem, the queue q of its changes. *)

\* The change at place i makes n one of the nodes of d; at place 0, n is one.
Adds(d, c, q, n, i) ==
    IF i = 0 THEN n \in c.nodes
    ELSE q[i].reason = "JOIN" /\ (q[i].node = n \/ (q[i].node = d /\ n \in q[i].members))

Leaves(q, n, i) == q[i].reason = "LEAVE" /\ q[i].node = n

\* After the first k changes n is one of the nodes of d.
Idea(d, c, q, n, k) ==
    \E i \in 0..k : Adds(d, c, q, n, i) /\ \A j \in (i + 1)..k : ~Leaves(q, n, j)

\* The connection and the cgroup go together: no group, no changes; the group is
\* joined when its first change, our own join, was handled; our own leave is the
\* last change.
Open(d, c, q, M) ==
    /\ ~c.open => ~c.joined /\ q = <<>> /\ d \notin M
    /\ ~c.joined => c.nodes = {} /\ (c.open => q # <<>>)
    /\ \A i \in DOMAIN q :
         /\ q[i].reason = "JOIN" => q[i].node \in q[i].members
         /\ q[i].reason = "JOIN" /\ q[i].node = d <=> i = 1 /\ ~c.joined
         /\ Leaves(q, d, i) => i = Len(q) /\ d \notin M
    /\ c.open /\ d \notin M => q # <<>> /\ Leaves(q, d, Len(q))

\* The nodes D, whose failure d has yet to read, are not members and have no join
\* queued; of every other node, the queue leads to what the group is.
Follows(d, c, q, M, D) ==
    /\ \A n \in D : n \notin M /\ \A i \in DOMAIN q : ~Adds(d, c, q, n, i)
    /\ d \in M => \A n \in Nodes \ D : Idea(d, c, q, n, Len(q)) <=> n \in M

\* A node is added when it is not there.
Fresh(d, c, q) ==
    \A n \in Nodes : \A i \in DOMAIN q : Adds(d, c, q, n, i) => ~Idea(d, c, q, n, i - 1)

QueueOK(d, c, q, M, D) == Open(d, c, q, M) /\ Follows(d, c, q, M, D) /\ Fresh(d, c, q)

-----------------------------------------------------------------------------
(* The invariant.                                                          *)

\* The nodes whose failure is among the changes of the daemon group yet to read.
Unread(q) == {q[i].node : i \in {j \in DOMAIN q : q[j].reason = "DOWN"}}

\* corosync's members are nodes with a daemon; one that is down has no groups;
\* one that ends is not joining a group.
Running ==
    /\ \A d \in Nodes : d \in member[daemon_group] <=> state[d] # "down"
    /\ \A u \in Uuids : member[u] \subseteq member[daemon_group]
    /\ \A d \in Nodes : state[d] = "down" =>
         \A g \in Groups : confchg[d][g] = <<>> /\ cg[d][g] = Closed
    /\ \A d \in Nodes : state[d] = "dying" => \A u \in Uuids : cg[d][u].open => cg[d][u].joined

\* What poll() found readable still is.
Readable == \A d \in Nodes : \A g \in revents[d] : confchg[d][g] # <<>>

\* The queue of d for the filesystem u is right.
Right(d, u) ==
    QueueOK(d, cg[d][u], confchg[d][u], member[u], Unread(confchg[d][daemon_group]))

Queues == \A d \in Nodes, u \in Uuids : Right(d, u)

\* A node whose failure some daemon has yet to read is in no filesystem.
Gone ==
    \A d \in Nodes, u \in Uuids : \A n \in Unread(confchg[d][daemon_group]) : n \notin member[u]

\* Failures are numbered as they happen, up to k, and a daemon hears of them (q) and
\* tells of them (t) in that order.
Numbered(t, q, k) ==
    /\ \A i, j \in DOMAIN t : i < j => t[i].number < t[j].number
    /\ \A i, j \in DOMAIN q :
         i < j /\ q[i].reason = "DOWN" /\ q[j].reason = "DOWN" => q[i].number < q[j].number
    /\ \A i \in DOMAIN t, j \in DOMAIN q : q[j].reason = "DOWN" => t[i].number < q[j].number
    /\ \A i \in DOMAIN t : t[i].number <= k
    /\ \A j \in DOMAIN q : q[j].reason = "DOWN" => q[j].number <= k

InOrder == \A d \in Nodes : Numbered(told[d], confchg[d][daemon_group], downs)

NotLost == \A d \in Nodes : state[d] # "lost"

\* What holds whatever happens, and what the order of joins and failures adds.
Base == TypeOK /\ Readable /\ InOrder
Caught == Running /\ Queues /\ NotLost

-----------------------------------------------------------------------------
(* What reading and appending a change does to a queue.                    *)

\* The next change leaves the rest of the queue, with its places moved by one.
LEMMA TailPlaces ==
    ASSUME NEW q \in Seq(ChangeType), q # <<>>
    PROVE  /\ Len(q) \in Nat \ {0} /\ Tail(q) \in Seq(ChangeType) /\ Len(Tail(q)) = Len(q) - 1
           /\ Head(q) = q[1] /\ q[1] \in ChangeType
           /\ \A i \in 1..(Len(q) - 1) : Tail(q)[i] = q[i + 1]
           /\ DOMAIN q = 1..Len(q) /\ DOMAIN Tail(q) = 1..(Len(q) - 1)
  OBVIOUS

\* A change appended leaves the places before it.
LEMMA AppendPlaces ==
    ASSUME NEW q \in Seq(ChangeType), NEW e \in ChangeType
    PROVE  /\ Append(q, e) \in Seq(ChangeType) /\ Len(Append(q, e)) = Len(q) + 1
           /\ Append(q, e)[Len(q) + 1] = e /\ Len(q) \in Nat
           /\ \A i \in 1..Len(q) : Append(q, e)[i] = q[i]
           /\ DOMAIN q = 1..Len(q) /\ DOMAIN Append(q, e) = 1..(Len(q) + 1)
  OBVIOUS

\* Handling the first change makes n one of the nodes when the change adds n, or
\* when n was one and the change is not its leave; then the rest of the queue
\* leads where the whole queue led.
LEMMA TailIdea ==
    ASSUME NEW d, NEW c, NEW c2, NEW n, NEW q \in Seq(ChangeType), q # <<>>,
           Adds(d, c2, Tail(q), n, 0)
             <=> Adds(d, c, q, n, 1) \/ (Adds(d, c, q, n, 0) /\ ~Leaves(q, n, 1))
    PROVE  /\ \A i \in 1..(Len(q) - 1) : Adds(d, c2, Tail(q), n, i) <=> Adds(d, c, q, n, i + 1)
           /\ \A i \in 1..(Len(q) - 1) : Leaves(Tail(q), n, i) <=> Leaves(q, n, i + 1)
           /\ \A k \in 0..(Len(q) - 1) : Idea(d, c2, Tail(q), n, k) <=> Idea(d, c, q, n, k + 1)
<1> DEFINE A(i) == Adds(d, c, q, n, i)
           B(i) == Adds(d, c2, Tail(q), n, i)
           L(i) == Leaves(q, n, i)
           M(i) == Leaves(Tail(q), n, i)
<1>1. Len(q) \in Nat \ {0}
  BY Zenon, TailPlaces
<1>2. \A i \in 1..(Len(q) - 1) : Tail(q)[i] = q[i + 1]
  BY Zenon, TailPlaces
<1>3. \A i \in 1..(Len(q) - 1) : B(i) <=> A(i + 1)
  BY <1>1, <1>2 DEF Adds
<1>4. \A i \in 1..(Len(q) - 1) : M(i) <=> L(i + 1)
  BY Zenon, <1>1, <1>2 DEF Leaves
<1>5. B(0) <=> A(1) \/ (A(0) /\ ~L(1))
  BY Zenon
<1>6. \A k \in 0..(Len(q) - 1) :
        (\E i \in 0..k : B(i) /\ \A j \in (i + 1)..k : ~M(j))
          <=> (\E i \in 0..(k + 1) : A(i) /\ \A j \in (i + 1)..(k + 1) : ~L(j))
  <2> HIDE DEF A, B, L, M
  <2> TAKE k \in 0..(Len(q) - 1)
  <2>1. ASSUME NEW i \in 0..k, B(i), \A j \in (i + 1)..k : ~M(j)
        PROVE  \E x \in 0..(k + 1) : A(x) /\ \A j \in (x + 1)..(k + 1) : ~L(j)
    <3>1. \A j \in (i + 2)..(k + 1) : ~L(j)
      <4> TAKE j \in (i + 2)..(k + 1)
      <4>1. j - 1 \in (i + 1)..k /\ j - 1 \in 1..(Len(q) - 1) /\ (j - 1) + 1 = j
        BY <1>1
      <4> QED BY Zenon, <4>1, <2>1, <1>4
    <3>2. CASE i > 0
      <4>1. i \in 1..(Len(q) - 1) /\ i + 1 \in 0..(k + 1) /\ (i + 1) + 1 = i + 2
        BY <3>2, <1>1
      <4> QED BY Zenon, <4>1, <3>1, <2>1, <1>3
    <3>3. CASE i = 0 /\ A(1)
      <4>1. 1 \in 0..(k + 1) /\ 1 + 1 = i + 2
        BY <3>3, <1>1
      <4> QED BY Zenon, <4>1, <3>1, <3>3
    <3>4. CASE i = 0 /\ A(0) /\ ~L(1)
      <4>1. 0 \in 0..(k + 1) /\ \A j \in (0 + 1)..(k + 1) : j = 1 \/ j \in (i + 2)..(k + 1)
        BY <3>4, <1>1
      <4> QED BY Zenon, <4>1, <3>1, <3>4
    <3> QED BY <3>2, <3>3, <3>4, <2>1, <1>5, <1>1
  <2>2. ASSUME NEW x \in 0..(k + 1), A(x), \A j \in (x + 1)..(k + 1) : ~L(j)
        PROVE  \E i \in 0..k : B(i) /\ \A j \in (i + 1)..k : ~M(j)
    <3>1. \A j \in 1..k : j >= x => ~M(j)
      <4> TAKE j \in 1..k
      <4> HAVE j >= x
      <4>1. j \in 1..(Len(q) - 1) /\ j + 1 \in (x + 1)..(k + 1)
        BY <1>1
      <4> QED BY Zenon, <4>1, <2>2, <1>4
    <3>2. CASE x > 1
      <4>1. x - 1 \in 1..(Len(q) - 1) /\ x - 1 \in 0..k /\ (x - 1) + 1 = x
            /\ \A j \in ((x - 1) + 1)..k : j \in 1..k /\ j >= x
        BY <3>2, <1>1
      <4> QED BY Zenon, <4>1, <3>1, <2>2, <1>3
    <3>3. CASE x <= 1
      <4>1. B(0)
        <5>1. x = 0 \/ x = 1
          BY <3>3
        <5>2. x = 0 => 1 \in (x + 1)..(k + 1)
          OBVIOUS
        <5> QED BY Zenon, <5>1, <5>2, <2>2, <1>5
      <4>2. 0 \in 0..k /\ \A j \in (0 + 1)..k : j \in 1..k /\ j >= x
        BY <3>3
      <4> QED BY Zenon, <4>1, <4>2, <3>1
    <3> QED BY <3>2, <3>3
  <2> QED BY Zenon, <2>1, <2>2
<1> QED BY Zenon, <1>3, <1>4, <1>6 DEF Idea

\* A change that was appended is the last that counts.
LEMMA AppendIdea ==
    ASSUME NEW d, NEW c, NEW n, NEW q \in Seq(ChangeType), NEW e \in ChangeType
    PROVE  /\ \A i \in 0..Len(q) : Adds(d, c, Append(q, e), n, i) <=> Adds(d, c, q, n, i)
           /\ \A i \in 1..Len(q) : Leaves(Append(q, e), n, i) <=> Leaves(q, n, i)
           /\ \A k \in 0..Len(q) : Idea(d, c, Append(q, e), n, k) <=> Idea(d, c, q, n, k)
           /\ Idea(d, c, Append(q, e), n, Len(q) + 1)
                <=> \/ Adds(d, c, Append(q, e), n, Len(q) + 1)
                    \/ Idea(d, c, q, n, Len(q)) /\ ~Leaves(Append(q, e), n, Len(q) + 1)
<1> DEFINE A(i) == Adds(d, c, q, n, i)
           B(i) == Adds(d, c, Append(q, e), n, i)
           L(i) == Leaves(q, n, i)
           M(i) == Leaves(Append(q, e), n, i)
           l == Len(q)
<1>1. l \in Nat /\ \A i \in 1..l : Append(q, e)[i] = q[i]
  BY Zenon, AppendPlaces
<1>2. \A i \in 0..l : B(i) <=> A(i)
  BY <1>1 DEF Adds
<1>3. \A i \in 1..l : M(i) <=> L(i)
  BY Zenon, <1>1 DEF Leaves
<1>4. \A k \in 0..l : (\E i \in 0..k : B(i) /\ \A j \in (i + 1)..k : ~M(j))
                        <=> (\E i \in 0..k : A(i) /\ \A j \in (i + 1)..k : ~L(j))
  <2> HIDE DEF A, B, L, M, l
  <2> TAKE k \in 0..l
  <2>1. \A i \in 0..k : i \in 0..l /\ \A j \in (i + 1)..k : j \in 1..l
    BY <1>1
  <2> QED BY Zenon, <2>1, <1>2, <1>3
<1>5. (\E i \in 0..(l + 1) : B(i) /\ \A j \in (i + 1)..(l + 1) : ~M(j))
        <=> B(l + 1) \/ ((\E i \in 0..l : B(i) /\ \A j \in (i + 1)..l : ~M(j)) /\ ~M(l + 1))
  <2> HIDE DEF A, B, L, M, l
  <2>1. /\ \A i \in 0..(l + 1) : i = l + 1 \/ i \in 0..l
        /\ \A i \in 0..l : i \in 0..(l + 1) /\ l + 1 \in (i + 1)..(l + 1)
        /\ \A i \in 0..l : \A j \in (i + 1)..(l + 1) : j = l + 1 \/ j \in (i + 1)..l
        /\ \A i \in 0..l : \A j \in (i + 1)..l : j \in (i + 1)..(l + 1)
        /\ l + 1 \in 0..(l + 1) /\ ((l + 1) + 1)..(l + 1) = {}
    BY <1>1
  <2> QED BY Zenon, <2>1
<1>6. \A k \in 0..l : Idea(d, c, Append(q, e), n, k) <=> Idea(d, c, q, n, k)
  BY Zenon, <1>4 DEF Idea
<1>7. Idea(d, c, Append(q, e), n, l + 1)
        <=> B(l + 1) \/ (Idea(d, c, Append(q, e), n, l) /\ ~M(l + 1))
  BY Zenon, <1>5 DEF Idea
<1>8. l \in 0..l
  BY <1>1
<1> QED BY Zenon, <1>2, <1>3, <1>6, <1>7, <1>8

\* Before any change, the idea of the group is cg_nodes.
LEMMA IdeaNow ==
    ASSUME NEW d, NEW c, NEW q, NEW n
    PROVE  Idea(d, c, q, n, 0) <=> n \in c.nodes
<1>1. 0..0 = {0} /\ (0 + 1)..0 = {}
  OBVIOUS
<1> QED BY Zenon, <1>1 DEF Idea, Adds

-----------------------------------------------------------------------------
(* A queue stays right.                                                    *)

\* A daemon without the group: it is no member, and nothing is queued.
LEMMA NoGroup ==
    ASSUME NEW d \in Nodes, NEW M, NEW D, d \notin M, \A n \in D : n \notin M
    PROVE  QueueOK(d, Closed, <<>>, M, D)
<1>1. Closed.open = FALSE /\ Closed.joined = FALSE /\ Closed.nodes = {} /\ DOMAIN <<>> = {}
  BY DEF Closed
<1> QED BY Zenon, <1>1 DEF QueueOK, Open, Follows, Fresh

\* group_change() of the change e.
Handled(c, d, e) ==
    handle_node_leave(handle_node_join([c EXCEPT !.members = e.members], d, e), d, e)

\* The fields of the cgroup after the change e, which is not our own leave.
HandledInto(c, d, e) ==
    /\ Handled(c, d, e) \in CgType /\ Handled(c, d, e).open = c.open
    /\ Handled(c, d, e).joined = (c.joined \/ (e.reason = "JOIN" /\ e.node = d))
    /\ Handled(c, d, e).nodes =
         IF e.reason = "LEAVE" THEN c.nodes \ {e.node}
         ELSE c.nodes \cup Pushed([c EXCEPT !.members = e.members], d, e)

\* What handling the first change does to a cgroup, but for our own leave.
LEMMA HandledFields ==
    ASSUME NEW d \in Nodes, NEW c \in CgType, NEW e \in ChangeType,
           ~(e.reason = "LEAVE" /\ e.node = d)
    PROVE  HandledInto(c, d, e)
<1> DEFINE c1 == [c EXCEPT !.members = e.members]
           P == Pushed(c1, d, e)
           c2 == handle_node_join(c1, d, e)
<1>1. c1 \in CgType /\ c1.open = c.open /\ c1.joined = c.joined /\ c1.nodes = c.nodes
  BY Zenon DEF CgType, ChangeType
<1>2. P \in SUBSET Nodes
  BY Zenon DEF Pushed, ChangeType
<1> HIDE DEF c1, P
<1>3. /\ c2 \in CgType /\ c2.open = c1.open /\ c2.nodes = c1.nodes \cup P
      /\ c2.joined = (c1.joined \/ (e.reason = "JOIN" /\ e.node = d))
  BY Zenon, <1>1, <1>2 DEF handle_node_join, push_node, CgType, P
<1> HIDE DEF c2
<1>4. CASE e.reason = "LEAVE"
  <2>1. P = {} /\ e.node # d
    BY Zenon, <1>4 DEF P, Pushed
  <2>2. handle_node_leave(c2, d, e) = [c2 EXCEPT !.nodes = @ \ {e.node}]
    BY Zenon, <1>4, <2>1 DEF handle_node_leave, pop_node
  <2> QED BY <1>1, <1>3, <1>4, <2>1, <2>2 DEF HandledInto, Handled, c1, c2, CgType
<1>5. CASE e.reason # "LEAVE"
  <2>1. handle_node_leave(c2, d, e) = c2
    BY Zenon, <1>5 DEF handle_node_leave
  <2> QED BY Zenon, <1>1, <1>3, <1>5, <2>1 DEF HandledInto, Handled, c1, c2, P
<1> QED BY Zenon, <1>4, <1>5

\* Handling the first change: push_node() finds none of the nodes it adds, and the
\* rest of the queue is right for the new cgroup.
LEMMA HandledOK ==
    ASSUME NEW d \in Nodes, NEW c \in CgType, NEW q \in Seq(ChangeType), q # <<>>,
           NEW M, NEW D \in SUBSET Nodes, QueueOK(d, c, q, M, D)
    PROVE  /\ Pushed([c EXCEPT !.members = q[1].members], d, q[1]) \cap c.nodes = {}
           /\ Handled(c, d, q[1]) \in CgType
           /\ QueueOK(d, Handled(c, d, q[1]), Tail(q), M, D)
<1> DEFINE e == q[1]
           P == Pushed([c EXCEPT !.members = e.members], d, e)
           c2 == Handled(c, d, e)
           t == Tail(q)
<1>1. /\ Len(q) \in Nat \ {0} /\ t \in Seq(ChangeType) /\ Len(t) = Len(q) - 1
      /\ e \in ChangeType /\ \A i \in 1..(Len(q) - 1) : t[i] = q[i + 1]
      /\ DOMAIN q = 1..Len(q) /\ DOMAIN t = 1..(Len(q) - 1) /\ 1 \in 1..Len(q)
  BY TailPlaces
<1>2. Open(d, c, q, M) /\ Follows(d, c, q, M, D) /\ Fresh(d, c, q)
  BY Zenon DEF QueueOK
<1>3. /\ c.open /\ (e.reason = "JOIN" => e.node \in e.members)
      /\ (e.reason = "JOIN" /\ e.node = d <=> ~c.joined)
      /\ (e.reason = "LEAVE" /\ e.node = d => Len(q) = 1 /\ d \notin M)
  BY Zenon, <1>1, <1>2 DEF Open, Leaves
<1>4. c.nodes \in SUBSET Nodes /\ e.members \in SUBSET Nodes /\ e.node \in Nodes
      /\ [c EXCEPT !.members = e.members].joined = c.joined
  BY Zenon, <1>1 DEF CgType, ChangeType
<1>5. \A n : n \in P <=> Adds(d, c, q, n, 1)
  BY <1>3, <1>4 DEF Pushed, Adds
<1>6. P \cap c.nodes = {}
  <2> SUFFICES ASSUME NEW n \in P, n \in c.nodes PROVE FALSE
    BY Zenon
  <2>1. Adds(d, c, q, n, 1) => ~Idea(d, c, q, n, 1 - 1)
    BY Zenon, <1>1, <1>2, <1>4 DEF Fresh
  <2>2. 1 - 1 = 0
    OBVIOUS
  <2> QED BY Zenon, <2>1, <2>2, <1>5, IdeaNow
<1>7. CASE e.reason = "LEAVE" /\ e.node = d
  <2>1. c2 = Closed
    BY Zenon, <1>7 DEF Handled, handle_node_leave
  <2>2. d \notin M /\ \A n \in D : n \notin M
    BY Zenon, <1>2, <1>3, <1>7 DEF Follows
  <2>4. t = <<>>
    <3> HIDE DEF t, e
    <3> QED BY <1>1, <1>3, <1>7
  <2>3. Closed \in CgType
    BY Zenon DEF Closed, CgType
  <2> QED BY Zenon, <1>6, <2>1, <2>2, <2>3, <2>4, NoGroup
<1>8. CASE ~(e.reason = "LEAVE" /\ e.node = d)
  <2>0. /\ c2 \in CgType /\ c2.open = c.open
        /\ c2.joined = (c.joined \/ (e.reason = "JOIN" /\ e.node = d))
        /\ c2.nodes = IF e.reason = "LEAVE" THEN c.nodes \ {e.node} ELSE c.nodes \cup P
    <3>1. e \in ChangeType
      BY Zenon, <1>1
    <3>2. HandledInto(c, d, e)
      BY Zenon, <3>1, <1>8, HandledFields
    <3> QED BY Zenon, <3>2 DEF HandledInto
  <2>1. c2 \in CgType /\ c2.open /\ c2.joined
    BY Zenon, <1>3, <2>0
  <2> HIDE DEF c2, P
  <2>2. ASSUME NEW n
        PROVE  Adds(d, c2, t, n, 0)
                 <=> Adds(d, c, q, n, 1) \/ (Adds(d, c, q, n, 0) /\ ~Leaves(q, n, 1))
    <3>1. Leaves(q, n, 1) => ~Adds(d, c, q, n, 1)
      BY DEF Adds, Leaves
    <3>2. n \in c2.nodes <=> IF e.reason = "LEAVE" THEN n \in c.nodes /\ n # e.node
                            ELSE n \in c.nodes \/ n \in P
      BY Zenon, <2>0
    <3>3. n \in P => e.reason = "JOIN"
      BY Zenon DEF P, Pushed
    <3>4. (Adds(d, c2, t, n, 0) <=> n \in c2.nodes) /\ (Adds(d, c, q, n, 0) <=> n \in c.nodes)
      BY Zenon DEF Adds
    <3> QED BY Zenon, <1>5, <3>1, <3>2, <3>3, <3>4 DEF Leaves
  <2> HIDE DEF t, e
  <2>3. ASSUME NEW n
        PROVE  /\ \A i \in 1..(Len(q) - 1) : Adds(d, c2, t, n, i) <=> Adds(d, c, q, n, i + 1)
               /\ \A k \in 0..(Len(q) - 1) : Idea(d, c2, t, n, k) <=> Idea(d, c, q, n, k + 1)
    BY Zenon, <2>2, TailIdea DEF t
  <2>4. Open(d, c2, t, M)
    <3>1. ASSUME NEW i \in DOMAIN t
          PROVE  /\ t[i].reason = "JOIN" => t[i].node \in t[i].members
                 /\ ~(t[i].reason = "JOIN" /\ t[i].node = d)
                 /\ Leaves(t, d, i) => i = Len(t) /\ d \notin M
      <4>1. t[i] = q[i + 1] /\ i + 1 \in DOMAIN q /\ i + 1 # 1
        BY <1>1
      <4> QED BY <4>1, <1>1, <1>2 DEF Open, Leaves
    <3>2. ASSUME d \notin M PROVE t # <<>> /\ Leaves(t, d, Len(t))
      <4>1. Leaves(q, d, Len(q))
        BY Zenon, <1>2, <1>3, <3>2 DEF Open
      <4>2. Len(q) # 1
        BY Zenon, <1>8, <4>1 DEF Leaves, e
      <4>3. Len(t) \in 1..(Len(q) - 1) /\ Len(t) + 1 = Len(q)
        BY <1>1, <4>2
      <4> QED BY <1>1, <4>1, <4>3 DEF Leaves
    <3> QED BY Zenon, <2>1, <3>1, <3>2 DEF Open
  <2>5. Follows(d, c2, t, M, D)
    <3>1. ASSUME NEW n \in D PROVE n \notin M /\ \A i \in DOMAIN t : ~Adds(d, c2, t, n, i)
      <4>1. n \notin M /\ \A i \in DOMAIN q : ~Adds(d, c, q, n, i)
        BY Zenon, <1>2 DEF Follows
      <4>2. \A i \in DOMAIN t : i \in 1..(Len(q) - 1) /\ i + 1 \in DOMAIN q
        BY <1>1
      <4> QED BY Zenon, <4>1, <4>2, <2>3
    <3>2. Len(t) \in 0..(Len(q) - 1) /\ Len(t) + 1 = Len(q)
      BY <1>1
    <3> QED BY Zenon, <1>2, <2>3, <3>1, <3>2 DEF Follows
  <2>6. Fresh(d, c2, t)
    <3> SUFFICES ASSUME NEW n \in Nodes, NEW i \in DOMAIN t, Adds(d, c2, t, n, i)
                 PROVE  ~Idea(d, c2, t, n, i - 1)
      BY Zenon DEF Fresh
    <3>1. /\ i \in 1..(Len(q) - 1) /\ i + 1 \in DOMAIN q
          /\ i - 1 \in 0..(Len(q) - 1) /\ (i - 1) + 1 = (i + 1) - 1
      BY <1>1
    <3> QED BY Zenon, <1>2, <2>3, <3>1 DEF Fresh
  <2> QED BY Zenon, <1>6, <2>1, <2>4, <2>5, <2>6 DEF QueueOK, P, c2, t, e
<1> QED BY Zenon, <1>7, <1>8

\* A change reaches a member d: D2 are then the nodes whose failure d has yet to
\* read, and M2 the members.
LEMMA AppendOK ==
    ASSUME NEW d \in Nodes, NEW c, NEW q \in Seq(ChangeType), NEW e \in ChangeType,
           NEW M, NEW M2, NEW D, NEW D2, QueueOK(d, c, q, M, D), d \in M, D \subseteq D2,
           d \in M2 <=> ~(e.reason = "LEAVE" /\ e.node = d),
           e.reason = "JOIN" => /\ e.node \in e.members /\ e.node # d
                                /\ e.node \notin M /\ e.node \notin D2,
           \A n \in D2 : n \notin M2 /\ (n \in D \/ \A i \in DOMAIN q : ~Adds(d, c, q, n, i)),
           \A n \in Nodes \ D2 : n \in M2 <=> \/ e.reason = "JOIN" /\ e.node = n
                                              \/ n \in M /\ ~(e.reason = "LEAVE" /\ e.node = n)
    PROVE  QueueOK(d, c, Append(q, e), M2, D2)
<1> DEFINE a == Append(q, e)
           l == Len(q)
<1>1. /\ a \in Seq(ChangeType) /\ Len(a) = l + 1 /\ a[l + 1] = e /\ l \in Nat
      /\ \A i \in 1..l : a[i] = q[i]
      /\ DOMAIN q = 1..l /\ DOMAIN a = 1..(l + 1)
  BY Zenon, AppendPlaces
<1>2. Open(d, c, q, M) /\ Follows(d, c, q, M, D) /\ Fresh(d, c, q)
  BY Zenon DEF QueueOK
<1>3. ASSUME NEW n
      PROVE  /\ \A i \in 0..l : Adds(d, c, a, n, i) <=> Adds(d, c, q, n, i)
             /\ \A k \in 0..l : Idea(d, c, a, n, k) <=> Idea(d, c, q, n, k)
             /\ Idea(d, c, a, n, l + 1)
                  <=> \/ Adds(d, c, a, n, l + 1)
                      \/ Idea(d, c, q, n, l) /\ ~Leaves(a, n, l + 1)
  BY Zenon, AppendIdea
<1> HIDE DEF a, l
<1>4. ASSUME NEW n
      PROVE  /\ Adds(d, c, a, n, l + 1) <=> e.reason = "JOIN" /\ e.node = n
             /\ Leaves(a, n, l + 1) <=> e.reason = "LEAVE" /\ e.node = n
  BY <1>1 DEF Adds, Leaves
<1>5. /\ \A i \in DOMAIN a : i \in 1..l \/ i = l + 1
      /\ l + 1 \in DOMAIN a /\ \A i \in 1..l : i \in DOMAIN q /\ i \in 0..l /\ i - 1 \in 0..l
      /\ l \in 0..l /\ (l + 1) - 1 = l
  BY <1>1
<1>6. c.open /\ (l = 0 => c.joined) /\ \A i \in DOMAIN q : ~Leaves(q, d, i)
  BY <1>1, <1>2 DEF Open, l
<1>7. Open(d, c, a, M2)
  <2>1. ASSUME NEW i \in DOMAIN a
        PROVE  /\ a[i].reason = "JOIN" => a[i].node \in a[i].members
               /\ a[i].reason = "JOIN" /\ a[i].node = d <=> i = 1 /\ ~c.joined
               /\ Leaves(a, d, i) => i = Len(a) /\ d \notin M2
    <3>1. CASE i \in 1..l
      <4>1. a[i] = q[i] /\ i \in DOMAIN q
        BY Zenon, <1>1, <3>1
      <4> QED BY Zenon, <1>2, <1>6, <4>1 DEF Open, Leaves
    <3>2. CASE i = l + 1
      <4>1. i = 1 => c.joined
        BY <1>1, <1>6, <3>2
      <4>2. a[i] = e /\ i = Len(a)
        BY Zenon, <1>1, <3>2
      <4> QED BY Zenon, <4>1, <4>2 DEF Leaves
    <3> QED BY Zenon, <1>5, <3>1, <3>2
  <2>2. c.open /\ (~c.joined => c.nodes = {}) /\ a # <<>>
    BY <1>1, <1>2, <1>6 DEF Open
  <2>3. d \notin M2 => Leaves(a, d, Len(a))
    BY Zenon, <1>1, <1>4
  <2> QED BY Zenon, <2>1, <2>2, <2>3 DEF Open
<1>8. Follows(d, c, a, M2, D2)
  <2>1. ASSUME NEW n \in D2, NEW i \in DOMAIN a PROVE n \notin M2 /\ ~Adds(d, c, a, n, i)
    <3>1. \A j \in DOMAIN q : ~Adds(d, c, q, n, j)
      BY Zenon, <1>2 DEF Follows
    <3> QED BY ZenonT(40), <1>3, <1>4, <1>5, <3>1
  <2>2. ASSUME d \in M2, NEW n \in Nodes \ D2 PROVE Idea(d, c, a, n, Len(a)) <=> n \in M2
    <3>1. n \notin D /\ (Idea(d, c, q, n, l) <=> n \in M)
      BY Zenon, <1>2 DEF Follows, l
    <3>2. Idea(d, c, a, n, Len(a)) <=> Idea(d, c, a, n, l + 1)
      BY Zenon, <1>1
    <3> QED BY Zenon, <1>3, <1>4, <3>1, <3>2
  <2>3. \A n \in D2 : n \notin M2
    BY Zenon
  <2> QED BY Zenon, <2>1, <2>2, <2>3 DEF Follows
<1>9. Fresh(d, c, a)
  <2> SUFFICES ASSUME NEW n \in Nodes, NEW i \in DOMAIN a, Adds(d, c, a, n, i)
               PROVE  ~Idea(d, c, a, n, i - 1)
    BY Zenon DEF Fresh
  <2>1. CASE i \in 1..l
    BY Zenon, <1>2, <1>3, <1>5, <2>1 DEF Fresh
  <2>2. CASE i = l + 1
    <3>1. n \notin M /\ n \notin D
      BY Zenon, <1>4, <2>2
    <3>2. ~Idea(d, c, q, n, l)
      BY Zenon, <1>2, <3>1 DEF Follows, l
    <3>3. i - 1 = l
      BY <1>1, <2>2
    <3> QED BY Zenon, <1>3, <1>5, <3>2, <3>3
  <2> QED BY Zenon, <1>5, <2>1, <2>2
<1> QED BY Zenon, <1>7, <1>8, <1>9 DEF QueueOK, a

\* A change of the group of which d hears nothing: d is no member, or the members
\* stay.
LEMMA UnheardOK ==
    ASSUME NEW d \in Nodes, NEW c, NEW q, NEW M, NEW M2, NEW D, NEW D2,
           QueueOK(d, c, q, M, D), D \subseteq D2, d \in M <=> d \in M2, d \in M => M = M2,
           \A n \in D2 : n \notin M2 /\ (n \in D \/ \A i \in DOMAIN q : ~Adds(d, c, q, n, i))
    PROVE  QueueOK(d, c, q, M2, D2)
<1>1. Open(d, c, q, M) /\ Follows(d, c, q, M, D) /\ Fresh(d, c, q)
  BY Zenon DEF QueueOK
<1>2. Open(d, c, q, M2)
  BY Zenon, <1>1 DEF Open
<1>3. Follows(d, c, q, M2, D2)
  BY Zenon, <1>1 DEF Follows
<1> QED BY Zenon, <1>1, <1>2, <1>3 DEF QueueOK

\* handle_node_down(): n, whose failure d reads, leaves cg_nodes.
LEMMA PoppedOK ==
    ASSUME NEW d \in Nodes, NEW c \in CgType, NEW q \in Seq(ChangeType), NEW n, NEW M, NEW D, NEW D2,
           QueueOK(d, c, q, M, D), n \in D, D2 \subseteq D, D \ {n} \subseteq D2
    PROVE  pop_node(c, n) \in CgType /\ QueueOK(d, pop_node(c, n), q, M, D2)
<1> DEFINE p == pop_node(c, n)
<1>1. Open(d, c, q, M) /\ Follows(d, c, q, M, D) /\ Fresh(d, c, q)
  BY Zenon DEF QueueOK
<1>2. p \in CgType /\ p.open = c.open /\ p.joined = c.joined /\ p.nodes = c.nodes \ {n}
  BY Zenon DEF pop_node, CgType
<1> HIDE DEF p
<1>3. Len(q) \in Nat /\ DOMAIN q = 1..Len(q)
  OBVIOUS
<1>4. ASSUME NEW m
      PROVE  /\ \A i \in DOMAIN q : Adds(d, p, q, m, i) <=> Adds(d, c, q, m, i)
             /\ Adds(d, p, q, m, 0) <=> Adds(d, c, q, m, 0) /\ m # n
  BY <1>2, <1>3 DEF Adds
<1>5. ASSUME NEW m, NEW k \in 0..Len(q), Idea(d, p, q, m, k) PROVE Idea(d, c, q, m, k)
  <2>1. \A i \in 0..k : i = 0 \/ i \in DOMAIN q
    BY <1>3
  <2> QED BY Zenon, <1>4, <1>5, <2>1 DEF Idea
<1>6. ASSUME NEW m, m # n, NEW k \in 0..Len(q), Idea(d, c, q, m, k) PROVE Idea(d, p, q, m, k)
  <2>1. \A i \in 0..k : i = 0 \/ i \in DOMAIN q
    BY <1>3
  <2> QED BY Zenon, <1>4, <1>6, <2>1 DEF Idea
<1>7. n \notin M /\ ~Idea(d, p, q, n, Len(q))
  <2>1. n \notin M /\ \A i \in DOMAIN q : ~Adds(d, c, q, n, i)
    BY Zenon, <1>1 DEF Follows
  <2>2. \A i \in 0..Len(q) : i = 0 \/ i \in DOMAIN q
    BY <1>3
  <2> QED BY Zenon, <1>4, <2>1, <2>2 DEF Idea
<1>8. Open(d, p, q, M)
  BY Zenon, <1>1, <1>2 DEF Open
<1>9. Follows(d, p, q, M, D2)
  <2>1. Len(q) \in 0..Len(q)
    BY <1>3
  <2>2. \A m \in D2 : m \notin M /\ \A i \in DOMAIN q : ~Adds(d, p, q, m, i)
    BY Zenon, <1>1, <1>4 DEF Follows
  <2>3. ASSUME d \in M, NEW m \in Nodes \ D2 PROVE Idea(d, p, q, m, Len(q)) <=> m \in M
    <3>1. CASE m = n
      BY Zenon, <1>7, <3>1
    <3>2. CASE m # n
      BY Zenon, <1>1, <1>5, <1>6, <2>1, <2>3, <3>2 DEF Follows
    <3> QED BY Zenon, <3>1, <3>2
  <2> QED BY Zenon, <2>2, <2>3 DEF Follows
<1>10. Fresh(d, p, q)
  <2>1. \A i \in DOMAIN q : i - 1 \in 0..Len(q)
    BY <1>3
  <2> QED BY Zenon, <1>1, <1>4, <1>5, <2>1 DEF Fresh
<1> QED BY Zenon, <1>2, <1>8, <1>9, <1>10 DEF QueueOK, p

\* group_join(): our own join is the first change of the new group.
LEMMA OwnJoinOK ==
    ASSUME NEW d \in Nodes, NEW e \in ChangeType, NEW M \in SUBSET Nodes, NEW D,
           e.reason = "JOIN", e.node = d, e.members = M, d \in M, \A n \in D : n \notin M
    PROVE  QueueOK(d, Opened, Append(<<>>, e), M, D)
<1> DEFINE a == Append(<<>>, e)
<1>1. a \in Seq(ChangeType) /\ Len(a) = 1 /\ a[1] = e /\ DOMAIN a = {1} /\ a # <<>>
  OBVIOUS
<1> HIDE DEF a
<1>2. Opened.open /\ ~Opened.joined /\ Opened.nodes = {}
  BY Zenon DEF Opened, Closed
<1>3. ASSUME NEW n PROVE Adds(d, Opened, a, n, 1) <=> n \in M
  BY <1>1 DEF Adds
<1>4. ~Leaves(a, d, 1)
  BY Zenon, <1>1 DEF Leaves
<1>5. Open(d, Opened, a, M)
  BY Zenon, <1>1, <1>2, <1>4 DEF Open
<1>6. ASSUME NEW n PROVE Idea(d, Opened, a, n, Len(a)) <=> n \in M
  <2>1. 0..1 = {0, 1} /\ (1 + 1)..1 = {} /\ (0 + 1)..1 = {1}
    OBVIOUS
  <2>2. ~Adds(d, Opened, a, n, 0)
    BY Zenon, <1>2 DEF Adds
  <2> QED BY Zenon, <1>1, <1>3, <2>1, <2>2 DEF Idea
<1>7. Follows(d, Opened, a, M, D)
  BY Zenon, <1>1, <1>3, <1>6 DEF Follows
<1>8. Fresh(d, Opened, a)
  <2>1. \A n : ~Idea(d, Opened, a, n, 0)
    BY Zenon, <1>2, IdeaNow
  <2>2. \A i \in DOMAIN a : i - 1 = 0
    BY <1>1
  <2> QED BY Zenon, <2>1, <2>2 DEF Fresh
<1> QED BY Zenon, <1>5, <1>7, <1>8 DEF QueueOK, a

-----------------------------------------------------------------------------
(* Failures yet to read, and their numbers.                                *)

\* A failure that is appended is yet to read; reading one may leave another of
\* the same node.
LEMMA UnreadFacts ==
    ASSUME NEW q \in Seq(ChangeType)
    PROVE  /\ Unread(q) \subseteq Nodes /\ Unread(<<>>) = {}
           /\ \A e \in ChangeType : Unread(Append(q, e)) =
                Unread(q) \cup (IF e.reason = "DOWN" THEN {e.node} ELSE {})
           /\ q # <<>> => /\ Unread(Tail(q)) \subseteq Unread(q)
                          /\ q[1].reason = "DOWN" => q[1].node \in Unread(q)
                          /\ q[1].reason = "DOWN" => Unread(q) \ {q[1].node} \subseteq Unread(Tail(q))
                          /\ q[1].reason # "DOWN" => Unread(Tail(q)) = Unread(q)
<1>1. Unread(q) \subseteq Nodes /\ Unread(<<>>) = {}
  <2>1. \A i \in DOMAIN q : q[i] \in ChangeType
    OBVIOUS
  <2>2. \A x \in ChangeType : x.node \in Nodes
    BY Zenon DEF ChangeType
  <2>3. DOMAIN <<>> = {}
    OBVIOUS
  <2> QED BY Zenon, <2>1, <2>2, <2>3 DEF Unread
<1>2. ASSUME NEW e \in ChangeType
      PROVE  Unread(Append(q, e)) = Unread(q) \cup (IF e.reason = "DOWN" THEN {e.node} ELSE {})
  <2> DEFINE a == Append(q, e)
  <2>1. /\ a[Len(q) + 1] = e /\ Len(q) \in Nat /\ \A i \in 1..Len(q) : a[i] = q[i]
        /\ DOMAIN q = 1..Len(q) /\ DOMAIN a = 1..(Len(q) + 1)
    BY Zenon, AppendPlaces
  <2> HIDE DEF a
  <2>2. (\A i \in DOMAIN a : i \in DOMAIN q \/ i = Len(q) + 1) /\ Len(q) + 1 \in DOMAIN a
        /\ (\A i \in DOMAIN q : i \in DOMAIN a /\ a[i] = q[i])
    BY <2>1
  <2>3. Unread(a) = Unread(q) \cup (IF e.reason = "DOWN" THEN {e.node} ELSE {})
    BY Zenon, <2>1, <2>2 DEF Unread
  <2> QED BY Zenon, <2>3 DEF a
<1>3. ASSUME q # <<>>
      PROVE  /\ Unread(Tail(q)) \subseteq Unread(q)
             /\ q[1].reason = "DOWN" => q[1].node \in Unread(q)
             /\ q[1].reason = "DOWN" => Unread(q) \ {q[1].node} \subseteq Unread(Tail(q))
             /\ q[1].reason # "DOWN" => Unread(Tail(q)) = Unread(q)
  <2> DEFINE t == Tail(q)
  <2>1. /\ Len(q) \in Nat \ {0} /\ \A i \in 1..(Len(q) - 1) : t[i] = q[i + 1]
        /\ DOMAIN q = 1..Len(q) /\ DOMAIN t = 1..(Len(q) - 1)
    BY Zenon, <1>3, TailPlaces
  <2> HIDE DEF t
  <2>2. /\ \A i \in DOMAIN t : i + 1 \in DOMAIN q /\ t[i] = q[i + 1]
        /\ \A i \in DOMAIN q : i = 1 \/ (i - 1 \in DOMAIN t /\ t[i - 1] = q[i])
        /\ 1 \in DOMAIN q
    BY <2>1
  <2>3. Unread(t) \subseteq Unread(q)
    BY <2>2 DEF Unread
  <2>4. q[1].reason = "DOWN" => q[1].node \in Unread(q)
    BY Zenon, <2>2 DEF Unread
  <2>5. ASSUME NEW i \in DOMAIN q, q[i].reason = "DOWN", i # 1 PROVE q[i].node \in Unread(t)
    BY ZenonT(30), <2>2, <2>5 DEF Unread
  <2>6. \A n \in Unread(q) : n \in Unread(t) \/ (q[1].reason = "DOWN" /\ n = q[1].node)
    BY Zenon, <2>5 DEF Unread
  <2> QED BY Zenon, <2>3, <2>4, <2>6 DEF t
<1> QED BY Zenon, <1>1, <1>2, <1>3

\* Numbers stay in order when a failure gets the next number, when a daemon reads a
\* change, and when it tells of the failure that it reads.
LEMMA NumberedFacts ==
    ASSUME NEW q \in Seq(ChangeType), NEW t \in Seq(ToldType), NEW k \in Nat, Numbered(t, q, k)
    PROVE  /\ Numbered(t, q, k + 1)
           /\ \A e \in ChangeType : e.reason # "DOWN" => Numbered(t, Append(q, e), k)
           /\ \A e \in ChangeType : e.reason # "DOWN" \/ e.number = k + 1 => Numbered(t, Append(q, e), k + 1)
           /\ q # <<>> => Numbered(t, Tail(q), k)
           /\ q # <<>> /\ q[1].reason = "DOWN" =>
                \A r \in ToldType : r.number = q[1].number => Numbered(Append(t, r), Tail(q), k)
<1>1. Len(q) \in Nat /\ DOMAIN q = 1..Len(q) /\ \A i \in DOMAIN q : q[i].number \in Nat
  <2>1. Len(q) \in Nat /\ DOMAIN q = 1..Len(q) /\ \A i \in DOMAIN q : q[i] \in ChangeType
    OBVIOUS
  <2>2. \A x \in ChangeType : x.number \in Nat
    BY Zenon DEF ChangeType
  <2> QED BY Zenon, <2>1, <2>2
<1>2. Len(t) \in Nat /\ DOMAIN t = 1..Len(t) /\ \A i \in DOMAIN t : t[i].number \in Nat
  <2>1. Len(t) \in Nat /\ DOMAIN t = 1..Len(t) /\ \A i \in DOMAIN t : t[i] \in ToldType
    OBVIOUS
  <2>2. \A x \in ToldType : x.number \in Nat
    BY Zenon DEF ToldType
  <2> QED BY Zenon, <2>1, <2>2
<1>3. Numbered(t, q, k + 1)
  BY <1>1, <1>2 DEF Numbered
<1>4. ASSUME NEW e \in ChangeType, NEW x \in {k, k + 1}, e.reason # "DOWN" \/ (x = k + 1 /\ e.number = k + 1)
      PROVE  Numbered(t, Append(q, e), x)
  <2> DEFINE a == Append(q, e)
  <2>1. a[Len(q) + 1] = e /\ DOMAIN a = 1..(Len(q) + 1) /\ \A i \in 1..Len(q) : a[i] = q[i]
    BY Zenon, AppendPlaces
  <2>2. x \in Nat /\ k <= x /\ e.number \in Nat
    BY DEF ChangeType
  <2> HIDE DEF a
  <2>3. \A i \in DOMAIN a : \/ i \in DOMAIN q /\ a[i] = q[i]
                            \/ i = Len(q) + 1 /\ a[i] = e
    BY <2>1, <1>1
  <2>4. \A i \in DOMAIN q : i < Len(q) + 1 /\ i \in Nat
    BY <1>1
  <2>5. \A i \in DOMAIN q : q[i].reason = "DOWN" => q[i].number <= k
    BY Zenon DEF Numbered
  <2>6. \A i \in DOMAIN t : t[i].number <= k
    BY Zenon DEF Numbered
  <2>7. \A i, j \in DOMAIN a : i < j /\ a[i].reason = "DOWN" /\ a[j].reason = "DOWN" => a[i].number < a[j].number
    <3> SUFFICES ASSUME NEW i \in DOMAIN a, NEW j \in DOMAIN a, i < j, a[i].reason = "DOWN", a[j].reason = "DOWN"
                 PROVE  a[i].number < a[j].number
      BY Zenon
    <3>1. i \in DOMAIN q /\ a[i] = q[i]
      BY <2>1, <2>3, <1>1
    <3>2. CASE j \in DOMAIN q /\ a[j] = q[j]
      BY Zenon, <3>1, <3>2 DEF Numbered
    <3>3. CASE a[j] = e
      BY <3>1, <3>3, <2>5, <1>4, <1>1
    <3> QED BY Zenon, <2>3, <3>2, <3>3
  <2>8. \A i \in DOMAIN t, j \in DOMAIN a : a[j].reason = "DOWN" => t[i].number < a[j].number
    <3> TAKE i \in DOMAIN t, j \in DOMAIN a
    <3>1. CASE j \in DOMAIN q /\ a[j] = q[j]
      BY Zenon, <3>1 DEF Numbered
    <3>2. CASE a[j] = e
      BY <3>2, <2>6, <1>4, <1>2
    <3> QED BY Zenon, <2>3, <3>1, <3>2
  <2>9. \A j \in DOMAIN a : a[j].reason = "DOWN" => a[j].number <= x
    <3> TAKE j \in DOMAIN a
    <3>1. CASE j \in DOMAIN q /\ a[j] = q[j]
      BY <3>1, <2>5, <2>2, <1>1
    <3>2. CASE a[j] = e
      BY <3>2, <2>2, <1>4
    <3> QED BY Zenon, <2>3, <3>1, <3>2
  <2>10. \A i \in DOMAIN t : t[i].number <= x
    BY <2>2, <2>6, <1>2
  <2>11. Numbered(t, a, x)
    BY Zenon, <2>7, <2>8, <2>9, <2>10 DEF Numbered
  <2> QED BY Zenon, <2>11 DEF a
<1>5. ASSUME q # <<>> PROVE Numbered(t, Tail(q), k)
  <2> DEFINE b == Tail(q)
  <2>1. DOMAIN b = 1..(Len(q) - 1) /\ \A i \in 1..(Len(q) - 1) : b[i] = q[i + 1]
    BY Zenon, <1>5, TailPlaces
  <2> HIDE DEF b
  <2>2. \A i \in DOMAIN b : i \in Nat /\ i + 1 \in DOMAIN q /\ b[i] = q[i + 1]
    BY <2>1, <1>1
  <2>3. \A i, j \in DOMAIN b :
          i < j /\ b[i].reason = "DOWN" /\ b[j].reason = "DOWN" => b[i].number < b[j].number
    <3>1. \A i, j \in DOMAIN b : i < j => i + 1 < j + 1
      BY <2>2
    <3> QED BY Zenon, <2>2, <3>1 DEF Numbered
  <2>4. Numbered(t, b, k)
    BY Zenon, <2>2, <2>3 DEF Numbered
  <2> QED BY Zenon, <2>4 DEF b
<1>6. ASSUME q # <<>>, q[1].reason = "DOWN", NEW r \in ToldType, r.number = q[1].number
      PROVE  Numbered(Append(t, r), Tail(q), k)
  <2> DEFINE b == Tail(q)
             s == Append(t, r)
  <2>1. DOMAIN b = 1..(Len(q) - 1) /\ (\A i \in 1..(Len(q) - 1) : b[i] = q[i + 1]) /\ Len(q) # 0
    BY Zenon, <1>6, TailPlaces
  <2>2. s[Len(t) + 1] = r /\ DOMAIN s = 1..(Len(t) + 1) /\ \A i \in 1..Len(t) : s[i] = t[i]
    OBVIOUS
  <2>3. Numbered(t, b, k)
    BY Zenon, <1>5, <1>6
  <2> HIDE DEF b, s
  <2>4. \A i \in DOMAIN b : i + 1 \in DOMAIN q /\ b[i] = q[i + 1] /\ 1 < i + 1
    BY <2>1, <1>1
  <2>5. 1 \in DOMAIN q
    BY <2>1, <1>1
  <2>6. \A i \in DOMAIN b : b[i].reason = "DOWN" => r.number < b[i].number
    BY Zenon, <2>4, <2>5, <1>6 DEF Numbered
  <2>7. (\A i \in DOMAIN t : t[i].number < r.number) /\ r.number <= k
    BY Zenon, <2>5, <1>6 DEF Numbered
  <2>8. \A i \in DOMAIN s : (i \in DOMAIN t /\ s[i] = t[i]) \/ (i = Len(t) + 1 /\ s[i] = r)
    BY <2>2, <1>2
  <2>9. \A i \in DOMAIN t : i \in Nat /\ i < Len(t) + 1
    BY <1>2
  <2>10. \A i, j \in DOMAIN s : i < j => s[i].number < s[j].number
    <3> SUFFICES ASSUME NEW i \in DOMAIN s, NEW j \in DOMAIN s, i < j PROVE s[i].number < s[j].number
      BY Zenon
    <3>1. i \in DOMAIN t /\ s[i] = t[i]
      BY <2>2, <2>8, <1>2
    <3>2. CASE j \in DOMAIN t /\ s[j] = t[j]
      BY Zenon, <3>1, <3>2 DEF Numbered
    <3>3. CASE s[j] = r
      BY Zenon, <3>1, <3>3, <2>7
    <3> QED BY Zenon, <2>8, <3>2, <3>3
  <2>11. Numbered(s, b, k)
    BY Zenon, <2>3, <2>6, <2>7, <2>8, <2>10 DEF Numbered
  <2> QED BY Zenon, <2>11 DEF s, b
<1> QED BY Zenon, <1>3, <1>4, <1>5, <1>6

-----------------------------------------------------------------------------
(* What each step does, place by place.                                    *)

\* The daemon group is not a filesystem's.
LEMMA GroupFacts ==
    /\ daemon_group \in Groups /\ daemon_group \notin Uuids
    /\ \A u \in Uuids : u \in Groups /\ u # daemon_group
    /\ \A g \in Groups : g = daemon_group \/ g \in Uuids
  BY Zenon, ConstAssumption DEF Groups, daemon_group

\* The types, place by place.
LEMMA TypedAt ==
    ASSUME TypeOK
    PROVE  /\ \A d \in Nodes, g \in Groups : confchg[d][g] \in Seq(ChangeType) /\ cg[d][g] \in CgType
           /\ \A g \in Groups : member[g] \in SUBSET Nodes
           /\ \A d \in Nodes : told[d] \in Seq(ToldType) /\ revents[d] \in SUBSET Groups
  BY Zenon DEF TypeOK

\* A change of a group as corosync makes it.
LEMMA ChangeFacts ==
    ASSUME TypeOK, NEW m \in SUBSET Nodes, NEW n \in Nodes, NEW r \in {"JOIN", "LEAVE", "DOWN"}
    PROVE  /\ Change(m, n, r) \in ChangeType
           /\ Change(m, n, r).members = m /\ Change(m, n, r).node = n
           /\ Change(m, n, r).reason = r /\ Change(m, n, r).number = downs + 1
  BY DEF Change, ChangeType, TypeOK

\* The change e of group g reaches the nodes in to, and no other queue changes.
Reaches(g, to, e) ==
    /\ confchg' \in [Nodes -> [Groups -> Seq(ChangeType)]]
    /\ \A d \in Nodes, h \in Groups : h # g => confchg'[d][h] = confchg[d][h]
    /\ \A d \in to : confchg'[d][g] = Append(confchg[d][g], e)
    /\ \A d \in Nodes : d \notin to => confchg'[d][g] = confchg[d][g]

\* A join or a leave reaches the members, and who leaves.
LEMMA DeliverFacts ==
    ASSUME TypeOK, NEW g \in Groups, NEW m \in SUBSET Nodes, NEW n \in Nodes,
           NEW r \in {"JOIN", "LEAVE"}, confchg' = Deliver(g, m, n, r)
    PROVE  Reaches(g, IF r = "LEAVE" THEN m \cup {n} ELSE m, Change(m, n, r))
<1> DEFINE e == Change(m, n, r)
           x(d) == IF d \in m \/ (d = n /\ r = "LEAVE")
                   THEN [confchg[d] EXCEPT ![g] = Append(@, e)] ELSE confchg[d]
           to == IF r = "LEAVE" THEN m \cup {n} ELSE m
<1>1. r \in {"JOIN", "LEAVE", "DOWN"}
  BY Zenon
<1>2. e \in ChangeType
  BY Zenon, <1>1, ChangeFacts
<1>3. confchg' = [d \in Nodes |-> x(d)]
  BY Zenon DEF Deliver
<1> HIDE DEF e
<1>4. ASSUME NEW d \in Nodes
      PROVE  /\ x(d) \in [Groups -> Seq(ChangeType)]
             /\ \A h \in Groups : h # g => x(d)[h] = confchg[d][h]
             /\ d \in to => x(d)[g] = Append(confchg[d][g], e)
             /\ d \notin to => x(d)[g] = confchg[d][g]
  <2>1. confchg[d] \in [Groups -> Seq(ChangeType)] /\ Append(confchg[d][g], e) \in Seq(ChangeType)
    BY <1>2 DEF TypeOK
  <2> QED BY Zenon, <2>1
<1>5. to \in SUBSET Nodes
  BY Zenon
<1> HIDE DEF x, to
<1>6. confchg' \in [Nodes -> [Groups -> Seq(ChangeType)]] /\ \A d \in Nodes : confchg'[d] = x(d)
  BY Zenon, <1>3, <1>4
<1>7. Reaches(g, to, e)
  BY Zenon, <1>4, <1>5, <1>6 DEF Reaches
<1> QED BY Zenon, <1>7 DEF e, to

\* The node n drops out of all groups at once, and its daemon forgets everything.
Dropped(n, why) ==
    /\ revents'[n] = {} /\ told'[n] = <<>> /\ state'[n] = "down" /\ downs' = downs + 1
    /\ \A g \in Groups : /\ member'[g] = member[g] \ {n}
                         /\ confchg'[n][g] = <<>> /\ cg'[n][g] = Closed
    /\ \A d \in Nodes : d # n => /\ cg'[d] = cg[d] /\ revents'[d] = revents[d]
                                 /\ told'[d] = told[d] /\ state'[d] = state[d]
    /\ \A d \in Nodes, g \in Groups : d # n =>
         confchg'[d][g] = IF d \in member[g] /\ n \in member[g]
                          THEN Append(confchg[d][g], Change(member[g] \ {n}, n, why[g]))
                          ELSE confchg[d][g]

\* What a node's failure and a daemon's end have in common.
LEMMA DropFacts ==
    ASSUME TypeOK, NEW n \in Nodes, NEW why, \A g \in Groups : why[g] \in {"LEAVE", "DOWN"},
           DropOut(n, why)
    PROVE  TypeOK' /\ Dropped(n, why)
<1> DEFINE e(g) == Change(member[g] \ {n}, n, why[g])
           y(d, g) == IF d = n THEN <<>>
                      ELSE IF {d, n} \subseteq member[g] THEN Append(confchg[d][g], e(g))
                      ELSE confchg[d][g]
<1>1. ASSUME NEW g \in Groups PROVE e(g) \in ChangeType
  BY ZenonT(30), ChangeFacts DEF TypeOK
<1> HIDE DEF e
<1>2. <<>> \in Seq(ChangeType)
  OBVIOUS
<1>3. ASSUME NEW d \in Nodes, NEW g \in Groups PROVE y(d, g) \in Seq(ChangeType)
  <2>1. confchg[d][g] \in Seq(ChangeType)
    BY Zenon, TypedAt
  <2>2. Append(confchg[d][g], e(g)) \in Seq(ChangeType)
    BY <1>1, <2>1
  <2> QED BY Zenon, <1>2, <2>1, <2>2
<1>4. confchg' = [d \in Nodes |-> [g \in Groups |-> y(d, g)]]
  BY Zenon DEF DropOut, e
<1> HIDE DEF y
<1>5. confchg' \in [Nodes -> [Groups -> Seq(ChangeType)]]
      /\ \A d \in Nodes, g \in Groups : confchg'[d][g] = y(d, g)
  BY Zenon, <1>3, <1>4
<1>6. Closed \in CgType /\ <<>> \in Seq(ToldType)
  BY DEF Closed, CgType
<1>7. /\ cg' \in [Nodes -> [Groups -> CgType]] /\ (\A g \in Groups : cg'[n][g] = Closed)
      /\ \A d \in Nodes : d # n => cg'[d] = cg[d]
  BY Zenon, <1>6 DEF DropOut, TypeOK
<1>8. /\ state' \in [Nodes -> {"down", "up", "dying", "lost"}] /\ state'[n] = "down"
      /\ revents' \in [Nodes -> SUBSET Groups] /\ revents'[n] = {}
      /\ told' \in [Nodes -> Seq(ToldType)] /\ told'[n] = <<>>
      /\ \A d \in Nodes : d # n => state'[d] = state[d] /\ revents'[d] = revents[d] /\ told'[d] = told[d]
  BY Zenon, <1>6 DEF DropOut, TypeOK
<1>9. member' \in [Groups -> SUBSET Nodes] /\ \A g \in Groups : member'[g] = member[g] \ {n}
  BY Zenon DEF DropOut, TypeOK
<1>10. downs' = downs + 1 /\ downs' \in Nat /\ changes' \in Nat
  BY DEF DropOut, TypeOK
<1>11. TypeOK'
  BY Zenon, <1>5, <1>7, <1>8, <1>9, <1>10 DEF TypeOK
<1>12. \A d \in Nodes, g \in Groups : /\ d = n => confchg'[d][g] = <<>>
                                      /\ d # n => confchg'[d][g] =
                                          IF d \in member[g] /\ n \in member[g]
                                          THEN Append(confchg[d][g], e(g)) ELSE confchg[d][g]
  BY Zenon, <1>5 DEF y
<1> QED BY Zenon, <1>7, <1>8, <1>9, <1>10, <1>11, <1>12 DEF e, Dropped

\* A daemon starts: it and the daemons that run hear of it.
LEMMA SetupFacts ==
    ASSUME TypeOK, NEW n \in Nodes, setup_cpg(n)
    PROVE  /\ TypeOK' /\ UNCHANGED <<revents, told, downs>>
           /\ state[n] = "down" /\ state' = [state EXCEPT ![n] = "up"]
           /\ member'[daemon_group] = member[daemon_group] \cup {n}
           /\ \A u \in Uuids : /\ member'[u] = member[u]
                               /\ \A d \in Nodes : cg'[d][u] = cg[d][u]
           /\ \A d \in Nodes : d # n => cg'[d] = cg[d]
           /\ Reaches(daemon_group, member'[daemon_group], Change(member'[daemon_group], n, "JOIN"))
<1>1. /\ member' \in [Groups -> SUBSET Nodes]
      /\ member'[daemon_group] = member[daemon_group] \cup {n}
      /\ member'[daemon_group] \in SUBSET Nodes /\ \A u \in Uuids : member'[u] = member[u]
  BY Zenon, GroupFacts DEF setup_cpg, TypeOK
<1>2. Reaches(daemon_group, member'[daemon_group], Change(member'[daemon_group], n, "JOIN"))
  <2>1. "JOIN" \in {"JOIN", "LEAVE"} /\ "JOIN" # "LEAVE"
    BY Zenon
  <2>2. confchg' = Deliver(daemon_group, member'[daemon_group], n, "JOIN")
    BY Zenon DEF setup_cpg
  <2> QED BY Zenon, <1>1, <2>1, <2>2, GroupFacts, DeliverFacts
<1>3. Opened \in CgType
  BY Zenon DEF Opened, Closed, CgType
<1>4. /\ cg' \in [Nodes -> [Groups -> CgType]] /\ (\A d \in Nodes : d # n => cg'[d] = cg[d])
      /\ \A d \in Nodes, u \in Uuids : cg'[d][u] = cg[d][u]
  BY Zenon, <1>3, GroupFacts DEF setup_cpg, TypeOK
<1>5. /\ state' \in [Nodes -> {"down", "up", "dying", "lost"}] /\ state[n] = "down"
      /\ state' = [state EXCEPT ![n] = "up"]
      /\ revents' = revents /\ told' = told /\ downs' = downs /\ changes' = changes
  BY Zenon DEF setup_cpg, TypeOK
<1>6. TypeOK'
  BY Zenon, <1>1, <1>2, <1>4, <1>5 DEF TypeOK, Reaches
<1>7. UNCHANGED <<revents, told, downs>>
  BY Zenon, <1>5
<1> QED BY ZenonT(40), <1>1, <1>2, <1>4, <1>5, <1>6, <1>7

\* A daemon joins the group of a filesystem.
LEMMA JoinFacts ==
    ASSUME TypeOK, NEW d \in Nodes, NEW u \in Uuids, group_join(d, u)
    PROVE  /\ TypeOK' /\ UNCHANGED <<state, revents, told, downs>>
           /\ state[d] = "up" /\ ~cg[d][u].open /\ ("late" \in Faults \/ DownSeen(d))
           /\ member'[u] = member[u] \cup {d}
           /\ \A g \in Groups : g # u => member'[g] = member[g]
           /\ cg'[d][u] = Opened
           /\ \A n \in Nodes, g \in Groups : n # d \/ g # u => cg'[n][g] = cg[n][g]
           /\ Reaches(u, member'[u], Change(member'[u], d, "JOIN"))
<1>1. /\ member' \in [Groups -> SUBSET Nodes] /\ member'[u] = member[u] \cup {d}
      /\ member'[u] \in SUBSET Nodes /\ \A g \in Groups : g # u => member'[g] = member[g]
  BY Zenon, GroupFacts DEF group_join, TypeOK
<1>2. Reaches(u, member'[u], Change(member'[u], d, "JOIN"))
  <2>1. "JOIN" \in {"JOIN", "LEAVE"} /\ "JOIN" # "LEAVE"
    BY Zenon
  <2>2. confchg' = Deliver(u, member'[u], d, "JOIN")
    BY Zenon DEF group_join
  <2> QED BY Zenon, <1>1, <2>1, <2>2, GroupFacts, DeliverFacts
<1>3. Opened \in CgType
  BY Zenon DEF Opened, Closed, CgType
<1>4. /\ cg' \in [Nodes -> [Groups -> CgType]] /\ cg'[d][u] = Opened
      /\ \A n \in Nodes, g \in Groups : n # d \/ g # u => cg'[n][g] = cg[n][g]
  BY Zenon, <1>3, GroupFacts DEF group_join, TypeOK
<1>5. /\ state' = state /\ revents' = revents /\ told' = told /\ downs' = downs
      /\ changes' = changes + 1 /\ changes' \in Nat
  BY DEF group_join, TypeOK
<1>6. TypeOK'
  BY Zenon, <1>1, <1>2, <1>4, <1>5 DEF TypeOK, Reaches
<1>7. UNCHANGED <<state, revents, told, downs>>
  BY Zenon, <1>5
<1>8. state[d] = "up" /\ ~cg[d][u].open /\ ("late" \in Faults \/ DownSeen(d))
  BY Zenon DEF group_join
<1> QED BY Zenon, <1>1, <1>2, <1>4, <1>6, <1>7, <1>8

\* A daemon asks to leave the group of a filesystem.
LEMMA LeaveFacts ==
    ASSUME TypeOK, NEW d \in Nodes, NEW u \in Uuids, group_leave(d, u)
    PROVE  /\ TypeOK' /\ UNCHANGED <<state, revents, cg, told, downs>>
           /\ d \in member[u] /\ member'[u] = member[u] \ {d}
           /\ \A g \in Groups : g # u => member'[g] = member[g]
           /\ Reaches(u, member[u], Change(member'[u], d, "LEAVE"))
<1>1. /\ member' \in [Groups -> SUBSET Nodes] /\ member'[u] = member[u] \ {d} /\ d \in member[u]
      /\ member'[u] \in SUBSET Nodes /\ \A g \in Groups : g # u => member'[g] = member[g]
  BY Zenon, GroupFacts DEF group_leave, TypeOK
<1>2. Reaches(u, member[u], Change(member'[u], d, "LEAVE"))
  <2>1. "LEAVE" \in {"JOIN", "LEAVE"}
    BY Zenon
  <2>2. confchg' = Deliver(u, member'[u], d, "LEAVE")
    BY Zenon DEF group_leave
  <2>3. member'[u] \cup {d} = member[u]
    BY Zenon, <1>1
  <2>4. Reaches(u, member'[u] \cup {d}, Change(member'[u], d, "LEAVE"))
    BY Zenon, <1>1, <2>1, <2>2, GroupFacts, DeliverFacts
  <2> QED BY Zenon, <2>3, <2>4
<1>3. /\ state' = state /\ revents' = revents /\ cg' = cg /\ told' = told /\ downs' = downs
      /\ changes' = changes + 1 /\ changes' \in Nat
  BY DEF group_leave, TypeOK
<1>4. TypeOK'
  BY Zenon, <1>1, <1>2, <1>3 DEF TypeOK, Reaches
<1>5. UNCHANGED <<state, revents, cg, told, downs>>
  BY Zenon, <1>3
<1> QED BY Zenon, <1>1, <1>2, <1>4, <1>5

\* group_change() makes a cgroup of a cgroup.
LEMMA HandledTyped ==
    ASSUME NEW d \in Nodes, NEW c \in CgType, NEW e \in ChangeType
    PROVE  Handled(c, d, e) \in CgType
<1>1. CASE e.reason = "LEAVE" /\ e.node = d
  BY Zenon, <1>1 DEF Handled, handle_node_leave, Closed, CgType
<1>2. CASE ~(e.reason = "LEAVE" /\ e.node = d)
  BY Zenon, <1>2, HandledFields DEF HandledInto
<1> QED BY Zenon, <1>1, <1>2

\* The daemon d takes the first change off its queue of group g.
Reads(d, g) ==
    /\ state[d] = "up" /\ confchg[d][g] # <<>> /\ confchg[d][g] \in Seq(ChangeType)
    /\ confchg[d][g][1] \in ChangeType /\ Head(confchg[d][g]) = confchg[d][g][1]
    /\ confchg' \in [Nodes -> [Groups -> Seq(ChangeType)]]
    /\ confchg'[d][g] = Tail(confchg[d][g])
    /\ \A n \in Nodes, h \in Groups : n # d \/ h # g => confchg'[n][h] = confchg[n][h]
    /\ revents' \in [Nodes -> SUBSET Groups] /\ revents'[d] = revents[d] \ {g}
    /\ \A n \in Nodes : n # d => revents'[n] = revents[n]
    /\ member' = member /\ downs' = downs /\ changes' = changes

\* What is common to reading a change of any group.
LEMMA ReadFacts ==
    ASSUME TypeOK, Readable, NEW d \in Nodes, NEW g \in Groups, process_cpg(d, g)
    PROVE  Reads(d, g)
<1>1. state[d] = "up" /\ g \in revents[d] /\ member' = member /\ downs' = downs /\ changes' = changes
  BY Zenon DEF process_cpg
<1>2. confchg[d][g] # <<>> /\ confchg[d][g] \in Seq(ChangeType)
  BY Zenon, <1>1, TypedAt DEF Readable
<1>3. /\ confchg[d][g][1] \in ChangeType /\ Head(confchg[d][g]) = confchg[d][g][1]
      /\ Tail(confchg[d][g]) \in Seq(ChangeType)
  <2> DEFINE q == confchg[d][g]
  <2> HIDE DEF q
  <2>1. q # <<>> /\ q \in Seq(ChangeType)
    BY Zenon, <1>2 DEF q
  <2>2. q[1] \in ChangeType /\ Head(q) = q[1] /\ Tail(q) \in Seq(ChangeType)
    BY Zenon, <2>1, TailPlaces
  <2> QED BY Zenon, <2>2 DEF q
<1>4. /\ confchg' \in [Nodes -> [Groups -> Seq(ChangeType)]] /\ confchg'[d][g] = Tail(confchg[d][g])
      /\ \A n \in Nodes, h \in Groups : n # d \/ h # g => confchg'[n][h] = confchg[n][h]
  <2>1. confchg' = [confchg EXCEPT ![d][g] = Tail(@)]
    BY Zenon DEF process_cpg
  <2> QED BY Zenon, <1>3, <2>1 DEF TypeOK
<1>5. /\ revents' \in [Nodes -> SUBSET Groups] /\ revents'[d] = revents[d] \ {g}
      /\ \A n \in Nodes : n # d => revents'[n] = revents[n]
  BY Zenon DEF process_cpg, TypeOK
<1> QED BY Zenon, <1>1, <1>2, <1>3, <1>4, <1>5 DEF Reads

\* The daemon d acts upon the change e of the filesystem u.
Acts(d, u, e) ==
    /\ cg'[d][u] = Handled(cg[d][u], d, e)
    /\ \A n \in Nodes, g \in Groups : n # d \/ g # u => cg'[n][g] = cg[n][g]
    /\ Pushed([cg[d][u] EXCEPT !.members = e.members], d, e) \cap cg[d][u].nodes = {} => state' = state

\* A daemon reads a change of a filesystem's group.
LEMMA GroupReadFacts ==
    ASSUME TypeOK, Readable, NEW d \in Nodes, NEW u \in Uuids, process_cpg(d, u),
           NEW e, e = confchg[d][u][1]
    PROVE  TypeOK' /\ told' = told /\ Acts(d, u, e)
<1>1. u \in Groups /\ u # daemon_group
  BY Zenon, GroupFacts
<1>2. /\ e \in ChangeType /\ Head(confchg[d][u]) = e /\ cg[d][u] \in CgType
      /\ confchg' \in [Nodes -> [Groups -> Seq(ChangeType)]] /\ revents' \in [Nodes -> SUBSET Groups]
      /\ member' = member /\ downs' = downs /\ changes' = changes
  <2>1. Reads(d, u)
    BY Zenon, <1>1, ReadFacts
  <2>2. cg[d][u] \in CgType
    BY Zenon, <1>1, TypedAt
  <2> QED BY Zenon, <2>1, <2>2 DEF Reads
<1> DEFINE c == [cg[d][u] EXCEPT !.members = e.members]
           h == Handled(cg[d][u], d, e)
<1>3. group_change(d, u, e)
  BY Zenon, <1>1, <1>2 DEF process_cpg
<1>4. c.nodes = cg[d][u].nodes
  BY Zenon, <1>2 DEF CgType
<1>5. cg' = [cg EXCEPT ![d][u] = h]
  BY Zenon, <1>3 DEF group_change, Handled
<1>6. /\ told' = told
      /\ state' = IF Pushed(c, d, e) \cap c.nodes = {} THEN state ELSE [state EXCEPT ![d] = "lost"]
  BY Zenon, <1>3 DEF group_change
<1>7. h \in CgType
  BY Zenon, <1>2, HandledTyped
<1> HIDE DEF h, c
<1>8. /\ cg' \in [Nodes -> [Groups -> CgType]] /\ cg'[d][u] = h
      /\ \A n \in Nodes, g \in Groups : n # d \/ g # u => cg'[n][g] = cg[n][g]
  BY Zenon, <1>1, <1>5, <1>7 DEF TypeOK
<1>9. state' \in [Nodes -> {"down", "up", "dying", "lost"}]
  BY Zenon, <1>6 DEF TypeOK
<1>10. TypeOK'
  BY Zenon, <1>2, <1>6, <1>8, <1>9 DEF TypeOK
<1>11. Pushed(c, d, e) \cap cg[d][u].nodes = {} => state' = state
  BY Zenon, <1>4, <1>6
<1> QED BY Zenon, <1>6, <1>8, <1>10, <1>11 DEF h, c, Acts

\* The daemon d acts upon the change e of the daemon group: of a failure, it pops
\* the node from every filesystem, and tells if there was one.
Tells(d, e) ==
    /\ state' = state
    /\ \A n \in Nodes, u \in Uuids :
         cg'[n][u] = IF n = d /\ e.reason = "DOWN" THEN pop_node(cg[n][u], e.node) ELSE cg[n][u]
    /\ \A n \in Nodes : n # d => told'[n] = told[n]
    /\ \/ told'[d] = told[d]
       \/ /\ e.reason = "DOWN"
          /\ \E r \in ToldType : r.number = e.number /\ told'[d] = Append(told[d], r)

\* A daemon reads a change of the daemon group.
LEMMA DaemonReadFacts ==
    ASSUME TypeOK, Readable, NEW d \in Nodes, process_cpg(d, daemon_group),
           NEW e, e = confchg[d][daemon_group][1]
    PROVE  TypeOK' /\ Tells(d, e)
<1>1. /\ e \in ChangeType /\ Head(confchg[d][daemon_group]) = e
      /\ confchg' \in [Nodes -> [Groups -> Seq(ChangeType)]] /\ revents' \in [Nodes -> SUBSET Groups]
      /\ member' = member /\ downs' = downs /\ changes' = changes
  <2>1. Reads(d, daemon_group)
    BY Zenon, GroupFacts, ReadFacts
  <2> QED BY Zenon, <2>1 DEF Reads
<1>2. daemon_change(d, e)
  BY Zenon, <1>1 DEF process_cpg
<1>3. state' = state
  BY Zenon, <1>2 DEF daemon_change
<1>4. e.members \in SUBSET Nodes /\ e.node \in Nodes /\ e.number \in Nat
  BY Zenon, <1>1 DEF ChangeType
<1>5. CASE e.reason = "DOWN"
  <2> DEFINE z(g) == IF g = daemon_group
                     THEN [cg[d][g] EXCEPT !.joined = TRUE, !.members = e.members]
                     ELSE pop_node(cg[d][g], e.node)
             r == [number |-> e.number, uuids |-> Shared(d, e.node)]
  <2>1. handle_node_down(d, e)
    BY Zenon, <1>2, <1>5 DEF daemon_change
  <2>2. ASSUME NEW g \in Groups PROVE z(g) \in CgType
    <3>1. cg[d][g] \in CgType
      BY Zenon, TypedAt
    <3> QED BY Zenon, <1>4, <3>1 DEF CgType, pop_node
  <2>3. cg' = [cg EXCEPT ![d] = [g \in Groups |-> z(g)]]
    BY Zenon, <2>1 DEF handle_node_down, TypeOK
  <2> HIDE DEF z
  <2>4. /\ cg' \in [Nodes -> [Groups -> CgType]] /\ (\A g \in Groups : cg'[d][g] = z(g))
        /\ \A n \in Nodes : n # d => cg'[n] = cg[n]
    BY Zenon, <2>2, <2>3 DEF TypeOK
  <2>5. \A n \in Nodes, u \in Uuids :
          cg'[n][u] = IF n = d /\ e.reason = "DOWN" THEN pop_node(cg[n][u], e.node) ELSE cg[n][u]
    BY Zenon, <1>5, <2>4, GroupFacts DEF z
  <2>6. r \in ToldType /\ r.number = e.number
    BY Zenon, <1>4 DEF ToldType, Shared
  <2>7. told' = [told EXCEPT ![d] = IF Shared(d, e.node) = {} THEN @ ELSE Append(@, r)]
    BY Zenon, <2>1 DEF handle_node_down
  <2> HIDE DEF r
  <2>8. Append(told[d], r) \in Seq(ToldType) /\ told[d] \in Seq(ToldType)
    BY <2>6 DEF TypeOK
  <2>9. /\ told' \in [Nodes -> Seq(ToldType)] /\ (\A n \in Nodes : n # d => told'[n] = told[n])
        /\ (told'[d] = told[d] \/ told'[d] = Append(told[d], r))
    BY Zenon, <2>7, <2>8 DEF TypeOK
  <2>10. TypeOK'
    BY Zenon, <1>1, <1>3, <2>4, <2>9 DEF TypeOK
  <2> QED BY Zenon, <1>3, <1>5, <2>5, <2>6, <2>9, <2>10 DEF Tells
<1>6. CASE e.reason # "DOWN"
  <2>1. /\ cg' = [cg EXCEPT ![d][daemon_group].joined = TRUE, ![d][daemon_group].members = e.members]
        /\ told' = told
    BY Zenon, <1>2, <1>6 DEF daemon_change
  <2>2. /\ cg \in [Nodes -> [Groups -> CgType]] /\ daemon_group \in Groups
        /\ cg[d] \in [Groups -> CgType] /\ cg[d][daemon_group] \in CgType
        /\ \A u \in Uuids : u \in Groups /\ u # daemon_group
    BY Zenon, TypedAt, GroupFacts DEF TypeOK
  <2> DEFINE x == [cg[d][daemon_group] EXCEPT !.joined = TRUE, !.members = e.members]
  <2>5. x \in CgType
    <3> DEFINE y == cg[d][daemon_group]
    <3> HIDE DEF y
    <3>1. y \in CgType
      BY Zenon, <2>2 DEF y
    <3>2. [y EXCEPT !.joined = TRUE, !.members = e.members] \in CgType
      BY Zenon, <1>4, <3>1 DEF CgType
    <3> QED BY Zenon, <3>2 DEF y
  <2>6. cg' = [cg EXCEPT ![d][daemon_group] = x]
    BY Zenon, <2>1, <2>2
  <2> HIDE DEF x
  <2>3. /\ cg' \in [Nodes -> [Groups -> CgType]]
        /\ \A n \in Nodes, u \in Uuids : cg'[n][u] = cg[n][u]
    BY Zenon, <2>2, <2>5, <2>6
  <2>4. TypeOK'
    BY Zenon, <1>1, <1>3, <2>1, <2>3 DEF TypeOK
  <2> QED BY Zenon, <1>3, <1>6, <2>1, <2>3, <2>4 DEF Tells
<1> QED BY Zenon, <1>5, <1>6

-----------------------------------------------------------------------------
(* Types, readable connections and the order of failures, whatever happens. *)

\* A join or a leave makes nothing unreadable and numbers no failure.
LEMMA ReachesBase ==
    ASSUME Base, NEW g \in Groups, NEW to, NEW e \in ChangeType, to \subseteq Nodes,
           e.reason # "DOWN", Reaches(g, to, e), UNCHANGED <<revents, told, downs>>
    PROVE  Readable' /\ InOrder'
<1>1. TypeOK /\ Readable /\ InOrder /\ revents' = revents /\ told' = told /\ downs' = downs
  BY Zenon DEF Base
<1>2. ASSUME NEW d \in Nodes, NEW h \in Groups
      PROVE  confchg'[d][h] = confchg[d][h] \/ confchg'[d][h] = Append(confchg[d][h], e)
  BY Zenon DEF Reaches
<1>3. ASSUME NEW d \in Nodes, NEW h \in revents[d] PROVE confchg'[d][h] # <<>>
  <2>1. h \in Groups /\ confchg[d][h] \in Seq(ChangeType) /\ confchg[d][h] # <<>>
    BY Zenon, <1>1, TypedAt DEF Readable
  <2>2. Append(confchg[d][h], e) # <<>>
    BY <2>1
  <2> QED BY Zenon, <1>2, <2>1, <2>2
<1>4. ASSUME NEW d \in Nodes PROVE Numbered(told[d], confchg'[d][daemon_group], downs)
  <2>1. /\ confchg[d][daemon_group] \in Seq(ChangeType) /\ told[d] \in Seq(ToldType) /\ downs \in Nat
        /\ Numbered(told[d], confchg[d][daemon_group], downs)
    BY Zenon, <1>1, TypedAt, GroupFacts DEF InOrder, TypeOK
  <2>2. Numbered(told[d], Append(confchg[d][daemon_group], e), downs)
    BY Zenon, <2>1, NumberedFacts
  <2> QED BY Zenon, <1>2, <2>1, <2>2, GroupFacts
<1> QED BY Zenon, <1>1, <1>3, <1>4 DEF Readable, InOrder

\* A node that drops out: the failure gets the next number.
LEMMA DropBase ==
    ASSUME Base, NEW n \in Nodes, NEW why, \A g \in Groups : why[g] \in {"LEAVE", "DOWN"},
           DropOut(n, why)
    PROVE  Base'
<1>1. TypeOK /\ Readable /\ InOrder
  BY Zenon DEF Base
<1>2. /\ TypeOK' /\ revents'[n] = {} /\ told'[n] = <<>> /\ downs' = downs + 1
      /\ \A g \in Groups : confchg'[n][g] = <<>>
      /\ \A d \in Nodes : d # n => revents'[d] = revents[d] /\ told'[d] = told[d]
      /\ \A d \in Nodes, g \in Groups : d # n =>
           confchg'[d][g] = IF d \in member[g] /\ n \in member[g]
                            THEN Append(confchg[d][g], Change(member[g] \ {n}, n, why[g]))
                            ELSE confchg[d][g]
  <2>1. TypeOK' /\ Dropped(n, why)
    BY Zenon, <1>1, DropFacts
  <2> QED BY Zenon, <2>1 DEF Dropped
<1>3. ASSUME NEW g \in Groups
      PROVE  /\ Change(member[g] \ {n}, n, why[g]) \in ChangeType
             /\ Change(member[g] \ {n}, n, why[g]).number = downs + 1
  BY <1>1, TypedAt, ChangeFacts
<1>4. Readable'
  <2> SUFFICES ASSUME NEW d \in Nodes, NEW g \in revents'[d] PROVE confchg'[d][g] # <<>>
    BY Zenon DEF Readable
  <2>1. d # n /\ g \in revents[d] /\ g \in Groups
    BY Zenon, <1>1, <1>2, TypedAt
  <2>2. confchg[d][g] \in Seq(ChangeType) /\ confchg[d][g] # <<>>
    BY Zenon, <1>1, <2>1, TypedAt DEF Readable
  <2>3. Append(confchg[d][g], Change(member[g] \ {n}, n, why[g])) # <<>>
    BY <1>3, <2>1, <2>2
  <2> QED BY Zenon, <1>2, <2>1, <2>2, <2>3
<1>5. ASSUME NEW d \in Nodes PROVE Numbered(told'[d], confchg'[d][daemon_group], downs')
  <2>1. /\ confchg[d][daemon_group] \in Seq(ChangeType) /\ told[d] \in Seq(ToldType) /\ downs \in Nat
        /\ Numbered(told[d], confchg[d][daemon_group], downs) /\ daemon_group \in Groups
    BY Zenon, <1>1, TypedAt, GroupFacts DEF InOrder, TypeOK
  <2>2. CASE d = n
    <3>1. told'[d] = <<>> /\ confchg'[d][daemon_group] = <<>>
      BY Zenon, <1>2, <2>1, <2>2
    <3>2. DOMAIN <<>> = {}
      OBVIOUS
    <3> QED BY Zenon, <3>1, <3>2 DEF Numbered
  <2>3. CASE d # n
    <3> DEFINE e == Change(member[daemon_group] \ {n}, n, why[daemon_group])
    <3>1. e \in ChangeType /\ e.number = downs + 1
      BY Zenon, <1>3, <2>1
    <3>2. told'[d] = told[d] /\ downs' = downs + 1
      BY Zenon, <1>2, <2>3
    <3>3. confchg'[d][daemon_group] = Append(confchg[d][daemon_group], e)
            \/ confchg'[d][daemon_group] = confchg[d][daemon_group]
      BY Zenon, <1>2, <2>1, <2>3
    <3> HIDE DEF e
    <3>4. Numbered(told[d], Append(confchg[d][daemon_group], e), downs + 1)
      BY Zenon, <2>1, <3>1, NumberedFacts
    <3>5. Numbered(told[d], confchg[d][daemon_group], downs + 1)
      BY Zenon, <2>1, NumberedFacts
    <3> QED BY Zenon, <3>2, <3>3, <3>4, <3>5
  <2> QED BY Zenon, <2>2, <2>3
<1> QED BY Zenon, <1>2, <1>4, <1>5 DEF Base, InOrder

\* A daemon that reads a change: it tells of the failure it reads.
LEMMA ReadBase ==
    ASSUME Base, NEW d \in Nodes, NEW g \in Groups, process_cpg(d, g)
    PROVE  Base'
<1>1. TypeOK /\ Readable /\ InOrder
  BY Zenon DEF Base
<1>2. Reads(d, g)
  BY Zenon, <1>1, ReadFacts
<1>3. Readable'
  <2> SUFFICES ASSUME NEW n \in Nodes, NEW h \in revents'[n] PROVE confchg'[n][h] # <<>>
    BY Zenon DEF Readable
  <2>1. h \in revents[n] /\ (n # d \/ h # g)
    BY Zenon, <1>2 DEF Reads
  <2>2. h \in Groups /\ confchg[n][h] # <<>>
    BY Zenon, <1>1, <2>1, TypedAt DEF Readable
  <2> QED BY Zenon, <1>2, <2>1, <2>2 DEF Reads
<1>4. /\ \A n \in Nodes : /\ told[n] \in Seq(ToldType) /\ confchg[n][daemon_group] \in Seq(ChangeType)
                          /\ Numbered(told[n], confchg[n][daemon_group], downs)
      /\ downs \in Nat /\ downs' = downs /\ daemon_group \in Groups
  BY Zenon, <1>1, <1>2, TypedAt, GroupFacts DEF InOrder, TypeOK, Reads
<1>5. CASE g = daemon_group
  <2>1. PICK e \in ChangeType : e = confchg[d][daemon_group][1]
    BY Zenon, <1>2, <1>5 DEF Reads
  <2>2. /\ TypeOK' /\ (\A n \in Nodes : n # d => told'[n] = told[n])
        /\ \/ told'[d] = told[d]
           \/ /\ e.reason = "DOWN"
              /\ \E r \in ToldType : r.number = e.number /\ told'[d] = Append(told[d], r)
    <3>1. TypeOK' /\ Tells(d, e)
      BY Zenon, <1>1, <1>5, <2>1, DaemonReadFacts
    <3> QED BY Zenon, <3>1 DEF Tells
  <2>3. /\ confchg'[d][daemon_group] = Tail(confchg[d][daemon_group])
        /\ confchg[d][daemon_group] # <<>>
        /\ \A n \in Nodes : n # d => confchg'[n][daemon_group] = confchg[n][daemon_group]
    BY Zenon, <1>2, <1>4, <1>5 DEF Reads
  <2>4. Numbered(told[d], Tail(confchg[d][daemon_group]), downs)
    BY Zenon, <1>4, <2>3, NumberedFacts
  <2>5. ASSUME e.reason = "DOWN", NEW r \in ToldType, r.number = e.number
        PROVE  Numbered(Append(told[d], r), Tail(confchg[d][daemon_group]), downs)
    BY Zenon, <1>4, <2>1, <2>3, <2>5, NumberedFacts
  <2>6. Numbered(told'[d], confchg'[d][daemon_group], downs)
    BY Zenon, <2>2, <2>3, <2>4, <2>5
  <2>7. \A n \in Nodes : Numbered(told'[n], confchg'[n][daemon_group], downs)
    BY Zenon, <1>4, <2>2, <2>3, <2>6
  <2> QED BY Zenon, <1>3, <1>4, <2>2, <2>7 DEF Base, InOrder
<1>6. CASE g \in Uuids
  <2>1. PICK e \in ChangeType : e = confchg[d][g][1]
    BY Zenon, <1>2 DEF Reads
  <2>2. TypeOK' /\ told' = told
    BY Zenon, <1>1, <1>6, <2>1, GroupReadFacts
  <2>3. \A n \in Nodes : confchg'[n][daemon_group] = confchg[n][daemon_group]
    BY Zenon, <1>2, <1>4, <1>6, GroupFacts DEF Reads
  <2> QED BY Zenon, <1>3, <1>4, <2>2, <2>3 DEF Base, InOrder
<1> QED BY Zenon, <1>5, <1>6, GroupFacts

\* A cluster at rest is in order.
LEMMA BaseInit == Init => Base
<1> SUFFICES ASSUME Init PROVE Base
  BY Zenon
<1>1. /\ <<>> \in Seq(ChangeType) /\ <<>> \in Seq(ToldType) /\ DOMAIN <<>> = {}
      /\ \A u \in Uuids : Start[u] \in SUBSET Nodes
  BY ConstAssumption
<1>2. /\ state \in [Nodes -> {"down", "up", "dying", "lost"}]
      /\ revents \in [Nodes -> SUBSET Groups] /\ told \in [Nodes -> Seq(ToldType)]
      /\ confchg \in [Nodes -> [Groups -> Seq(ChangeType)]] /\ downs \in Nat /\ changes \in Nat
  BY Zenon, <1>1 DEF Init
<1>3. member \in [Groups -> SUBSET Nodes]
  BY Zenon, <1>1, GroupFacts DEF Init
<1>4. cg \in [Nodes -> [Groups -> CgType]]
  <2> DEFINE x(d, g) == IF g = daemon_group THEN [Opened EXCEPT !.joined = TRUE, !.members = Nodes]
                        ELSE IF d \in Start[g]
                        THEN [open |-> TRUE, joined |-> TRUE, members |-> Start[g], nodes |-> Start[g]]
                        ELSE Closed
  <2>1. ASSUME NEW d \in Nodes, NEW g \in Groups PROVE x(d, g) \in CgType
    <3>1. [Opened EXCEPT !.joined = TRUE, !.members = Nodes] \in CgType /\ Closed \in CgType
      BY Zenon DEF Opened, Closed, CgType
    <3>2. g # daemon_group => Start[g] \in SUBSET Nodes
      BY Zenon, <1>1, GroupFacts
    <3>3. g # daemon_group =>
            [open |-> TRUE, joined |-> TRUE, members |-> Start[g], nodes |-> Start[g]] \in CgType
      BY Zenon, <3>2 DEF CgType
    <3> QED BY Zenon, <3>1, <3>3
  <2>2. cg = [d \in Nodes |-> [g \in Groups |-> x(d, g)]]
    BY Zenon DEF Init
  <2> HIDE DEF x
  <2> QED BY Zenon, <2>1, <2>2
<1>5. Readable /\ InOrder
  <2>1. \A d \in Nodes : revents[d] = {} /\ told[d] = <<>> /\ confchg[d][daemon_group] = <<>>
    BY Zenon, GroupFacts DEF Init
  <2> QED BY Zenon, <1>1, <2>1 DEF Readable, InOrder, Numbered
<1> QED BY Zenon, <1>2, <1>3, <1>4, <1>5 DEF Base, TypeOK

\* A node fails, or a daemon ends: either way it drops out of its groups.
LEMMA DropCases ==
    ASSUME NEW n \in Nodes, node_down(n) \/ exit_cpg(n)
    PROVE  \E why : (\A g \in Groups : why[g] \in {"LEAVE", "DOWN"}) /\ DropOut(n, why)
<1>1. CASE node_down(n)
  <2> DEFINE why == [g \in Groups |-> "DOWN"]
  <2>1. \A g \in Groups : why[g] \in {"LEAVE", "DOWN"}
    BY Zenon
  <2>2. DropOut(n, why)
    BY Zenon, <1>1 DEF node_down
  <2> QED BY Zenon, <2>1, <2>2
<1>2. CASE exit_cpg(n)
  <2> DEFINE why == [g \in Groups |->
                       IF g = daemon_group /\ \A u \in Uuids : cg[n][u].joined => n \notin member[u]
                       THEN "LEAVE" ELSE "DOWN"]
  <2>1. \A g \in Groups : why[g] \in {"LEAVE", "DOWN"}
    BY Zenon
  <2>2. DropOut(n, why)
    BY Zenon, <1>2 DEF exit_cpg
  <2> QED BY Zenon, <2>1, <2>2
<1> QED BY Zenon, <1>1, <1>2

\* poll() finds connections with something to read.
LEMMA PollFacts ==
    ASSUME Base, NEW d \in Nodes, poll(d)
    PROVE  Base' /\ UNCHANGED <<state, member, confchg, cg, told, downs>>
<1>1. TypeOK /\ Readable /\ InOrder
  BY Zenon DEF Base
<1>2. /\ state' = state /\ member' = member /\ confchg' = confchg /\ cg' = cg /\ told' = told
      /\ downs' = downs /\ changes' = changes
      /\ revents' = [revents EXCEPT ![d] = {g \in Groups : confchg[d][g] # <<>>}]
  BY Zenon DEF poll
<1>3. /\ revents' \in [Nodes -> SUBSET Groups] /\ revents'[d] = {g \in Groups : confchg[d][g] # <<>>}
      /\ \A n \in Nodes : n # d => revents'[n] = revents[n]
  BY Zenon, <1>1, <1>2 DEF TypeOK
<1>4. TypeOK'
  BY Zenon, <1>1, <1>2, <1>3 DEF TypeOK
<1>5. Readable'
  BY Zenon, <1>1, <1>2, <1>3 DEF Readable
<1>6. InOrder'
  BY Zenon, <1>1, <1>2 DEF InOrder
<1> QED BY Zenon, <1>2, <1>4, <1>5, <1>6 DEF Base

\* dead_dlmcontrol() sets time_to_die.
LEMMA DyingFacts ==
    ASSUME Base, NEW d \in Nodes, dead_dlmcontrol(d)
    PROVE  /\ Base' /\ UNCHANGED <<member, confchg, cg, told, downs>>
           /\ state[d] = "up" /\ state' = [state EXCEPT ![d] = "dying"]
<1>1. TypeOK /\ Readable /\ InOrder
  BY Zenon DEF Base
<1>2. /\ member' = member /\ confchg' = confchg /\ cg' = cg /\ told' = told /\ revents' = revents
      /\ downs' = downs /\ changes' = changes
      /\ state[d] = "up" /\ state' = [state EXCEPT ![d] = "dying"]
  BY Zenon DEF dead_dlmcontrol
<1>3. state' \in [Nodes -> {"down", "up", "dying", "lost"}]
  BY Zenon, <1>1, <1>2 DEF TypeOK
<1>4. TypeOK'
  BY Zenon, <1>1, <1>2, <1>3 DEF TypeOK
<1>5. Readable' /\ InOrder'
  BY Zenon, <1>1, <1>2 DEF Readable, InOrder
<1> QED BY Zenon, <1>2, <1>4, <1>5 DEF Base

\* Every step keeps the types, the readable connections and the order.
LEMMA BaseStep == Base /\ [Next]_vars => Base'
<1> SUFFICES ASSUME Base, [Next]_vars PROVE Base'
  BY Zenon
<1>1. TypeOK
  BY Zenon DEF Base
<1>2. ASSUME NEW d \in Nodes, node_down(d) \/ exit_cpg(d) PROVE Base'
  BY Zenon, <1>2, DropCases, DropBase
<1>3. ASSUME NEW d \in Nodes, setup_cpg(d) PROVE Base'
  <2>1. /\ TypeOK' /\ UNCHANGED <<revents, told, downs>>
        /\ Reaches(daemon_group, member'[daemon_group], Change(member'[daemon_group], d, "JOIN"))
    BY Zenon, <1>1, <1>3, SetupFacts
  <2>2. member'[daemon_group] \in SUBSET Nodes
    BY Zenon, <2>1, GroupFacts DEF TypeOK
  <2>3. /\ Change(member'[daemon_group], d, "JOIN") \in ChangeType
        /\ Change(member'[daemon_group], d, "JOIN").reason # "DOWN"
    BY Zenon, <1>1, <2>2, ChangeFacts
  <2> QED BY Zenon, <2>1, <2>2, <2>3, GroupFacts, ReachesBase DEF Base
<1>4. ASSUME NEW d \in Nodes, NEW u \in Uuids, group_join(d, u) PROVE Base'
  <2>1. /\ TypeOK' /\ UNCHANGED <<revents, told, downs>>
        /\ Reaches(u, member'[u], Change(member'[u], d, "JOIN"))
    BY Zenon, <1>1, <1>4, JoinFacts
  <2>2. member'[u] \in SUBSET Nodes /\ u \in Groups
    BY Zenon, <2>1, GroupFacts DEF TypeOK
  <2>3. Change(member'[u], d, "JOIN") \in ChangeType /\ Change(member'[u], d, "JOIN").reason # "DOWN"
    BY Zenon, <1>1, <2>2, ChangeFacts
  <2> QED BY Zenon, <2>1, <2>2, <2>3, ReachesBase DEF Base
<1>5. ASSUME NEW d \in Nodes, NEW u \in Uuids, group_leave(d, u) PROVE Base'
  <2>1. /\ TypeOK' /\ UNCHANGED <<revents, told, downs>>
        /\ Reaches(u, member[u], Change(member'[u], d, "LEAVE"))
    BY Zenon, <1>1, <1>5, LeaveFacts
  <2>2. member'[u] \in SUBSET Nodes /\ member[u] \in SUBSET Nodes /\ u \in Groups
    BY Zenon, <1>1, <2>1, GroupFacts DEF TypeOK
  <2>3. Change(member'[u], d, "LEAVE") \in ChangeType /\ Change(member'[u], d, "LEAVE").reason # "DOWN"
    BY Zenon, <1>1, <2>2, ChangeFacts
  <2> QED BY Zenon, <2>1, <2>2, <2>3, ReachesBase DEF Base
<1>6. CASE UNCHANGED vars
  BY Zenon, <1>6 DEF Base, TypeOK, Readable, InOrder, vars
<1> QED BY Zenon, <1>2, <1>3, <1>4, <1>5, <1>6, ReadBase, PollFacts, DyingFacts DEF Next, Loop

\* Types, readable connections and the order of failures hold whatever happens.
LEMMA BaseHolds == Spec => []Base
<1>1. Init => Base
  BY Zenon, BaseInit
<1>2. Base /\ [Next]_vars => Base'
  BY Zenon, BaseStep
<1> QED BY <1>1, <1>2, PTL DEF Spec

\* "We ensure the same order on all nodes": for every number of nodes, filesystems
\* and failures, and whatever joins, leaves and failures overlap, the daemons tell
\* of the failures in one order.
THEOREM TellInOrder == Spec => []SameOrder
<1>1. Base => SameOrder
  <2> SUFFICES ASSUME Base, NEW d1 \in Nodes, NEW d2 \in Nodes,
                      NEW x \in 1..MaxDowns, NEW y \in 1..MaxDowns,
                      Before(d1, x, y), Before(d2, y, x)
               PROVE  FALSE
    BY Zenon DEF SameOrder
  <2>1. ASSUME NEW d \in Nodes, NEW a, NEW b, Before(d, a, b) PROVE a < b
    <3>1. PICK i \in DOMAIN told[d], j \in DOMAIN told[d] :
             i < j /\ told[d][i].number = a /\ told[d][j].number = b
      BY Zenon, <2>1 DEF Before
    <3> QED BY Zenon, <3>1 DEF Base, InOrder, Numbered
  <2>2. x < y /\ y < x
    BY Zenon, <2>1
  <2> QED BY <2>2, ConstAssumption
<1> QED BY <1>1, BaseHolds, PTL

-----------------------------------------------------------------------------
(* No node is told to be down in a filesystem of which it is a member.     *)

\* DownSeen() and JoinSeen() in terms of the queues.
LEMMA SeenFacts ==
    ASSUME NEW n
    PROVE  /\ DownSeen(n) => \A d \in Nodes : n \notin Unread(confchg[d][daemon_group])
           /\ JoinSeen(n) => \A d \in Nodes, u \in Uuids : \A i \in DOMAIN confchg[d][u] :
                               i # 0 => ~Adds(d, cg[d][u], confchg[d][u], n, i)
<1>1. DownSeen(n) => \A d \in Nodes : n \notin Unread(confchg[d][daemon_group])
  BY Zenon DEF DownSeen, Pending, Unread
<1>2. ASSUME JoinSeen(n), NEW d \in Nodes, NEW u \in Uuids, NEW i \in DOMAIN confchg[d][u], i # 0
      PROVE  ~Adds(d, cg[d][u], confchg[d][u], n, i)
  <2>1. confchg[d][u][i] \in Pending(d, u)
    BY Zenon DEF Pending
  <2>2. confchg[d][u][i].reason = "JOIN" =>
          /\ confchg[d][u][i].node # n
          /\ (confchg[d][u][i].node = d => n \notin confchg[d][u][i].members)
    BY Zenon, <1>2, <2>1 DEF JoinSeen
  <2> QED BY Zenon, <1>2, <2>2 DEF Adds
<1> QED BY Zenon, <1>1, <1>2

\* A change of a filesystem's group leaves the failures yet to read.
LEMMA ReachesUnread ==
    ASSUME TypeOK, NEW g \in Groups, NEW to, NEW e \in ChangeType, Reaches(g, to, e),
           e.reason # "DOWN", NEW d \in Nodes
    PROVE  Unread(confchg'[d][daemon_group]) = Unread(confchg[d][daemon_group])
<1>1. /\ confchg[d][daemon_group] \in Seq(ChangeType)
      /\ \/ confchg'[d][daemon_group] = confchg[d][daemon_group]
         \/ confchg'[d][daemon_group] = Append(confchg[d][daemon_group], e)
  BY Zenon, TypedAt, GroupFacts DEF Reaches
<1> DEFINE q == confchg[d][daemon_group]
<1> HIDE DEF q
<1>2. q \in Seq(ChangeType)
  BY Zenon, <1>1 DEF q
<1>3. Unread(Append(q, e)) = Unread(q) \cup {}
  BY Zenon, <1>2, UnreadFacts
<1>4. Unread(Append(q, e)) = Unread(q)
  BY Zenon, <1>3
<1> QED BY Zenon, <1>1, <1>4 DEF q

\* A failure of n is yet to read by the daemons that run; without it, nothing is.
LEMMA DropUnread ==
    ASSUME TypeOK, NEW n \in Nodes, NEW why, why[daemon_group] \in {"LEAVE", "DOWN"}, Dropped(n, why)
    PROVE  /\ Unread(confchg'[n][daemon_group]) = {}
           /\ \A d \in Nodes : d # n =>
                Unread(confchg'[d][daemon_group]) =
                  Unread(confchg[d][daemon_group])
                    \cup (IF /\ d \in member[daemon_group] /\ n \in member[daemon_group]
                             /\ why[daemon_group] = "DOWN" THEN {n} ELSE {})
<1>1. Unread(confchg'[n][daemon_group]) = {}
  <2>1. confchg'[n][daemon_group] = <<>> /\ <<>> \in Seq(ChangeType)
    BY GroupFacts DEF Dropped
  <2>2. Unread(<<>>) = {}
    BY Zenon, <2>1, UnreadFacts
  <2> QED BY Zenon, <2>1, <2>2
<1>2. ASSUME NEW d \in Nodes, d # n
      PROVE  Unread(confchg'[d][daemon_group]) =
               Unread(confchg[d][daemon_group])
                 \cup (IF /\ d \in member[daemon_group] /\ n \in member[daemon_group]
                          /\ why[daemon_group] = "DOWN" THEN {n} ELSE {})
  <2> DEFINE q == confchg[d][daemon_group]
             e == Change(member[daemon_group] \ {n}, n, why[daemon_group])
  <2>1. confchg'[d][daemon_group] =
          IF d \in member[daemon_group] /\ n \in member[daemon_group] THEN Append(q, e) ELSE q
    BY Zenon, <1>2, GroupFacts DEF Dropped
  <2>2. q \in Seq(ChangeType) /\ e \in ChangeType /\ e.node = n /\ e.reason = why[daemon_group]
    BY TypedAt, GroupFacts, ChangeFacts
  <2> HIDE DEF q, e
  <2>3. Unread(Append(q, e)) = Unread(q) \cup (IF e.reason = "DOWN" THEN {e.node} ELSE {})
    BY <2>2, UnreadFacts
  <2>4. Unread(confchg'[d][daemon_group]) =
          Unread(q) \cup (IF /\ d \in member[daemon_group] /\ n \in member[daemon_group]
                             /\ why[daemon_group] = "DOWN" THEN {n} ELSE {})
    BY Zenon, <2>1, <2>2, <2>3
  <2> QED BY Zenon, <2>4 DEF q
<1> QED BY Zenon, <1>1, <1>2

\* Reading a change of the daemon group may end the wait for a node's failure.
LEMMA ReadUnread ==
    ASSUME TypeOK, NEW d \in Nodes, NEW g \in Groups, Reads(d, g), NEW n \in Nodes
    PROVE  /\ Unread(confchg'[n][daemon_group]) \subseteq Unread(confchg[n][daemon_group])
           /\ n # d \/ g # daemon_group \/ confchg[d][g][1].reason # "DOWN" =>
                Unread(confchg'[n][daemon_group]) = Unread(confchg[n][daemon_group])
           /\ n = d /\ g = daemon_group /\ confchg[d][g][1].reason = "DOWN" =>
                /\ confchg[d][g][1].node \in Unread(confchg[n][daemon_group])
                /\ Unread(confchg[n][daemon_group]) \ {confchg[d][g][1].node}
                     \subseteq Unread(confchg'[n][daemon_group])
<1>1. CASE n # d \/ g # daemon_group
  <2>1. confchg'[n][daemon_group] = confchg[n][daemon_group]
    BY Zenon, <1>1, GroupFacts DEF Reads
  <2> QED BY Zenon, <1>1, <2>1
<1>2. CASE n = d /\ g = daemon_group
  <2> DEFINE q == confchg[d][g]
  <2>1. q \in Seq(ChangeType) /\ q # <<>> /\ confchg'[d][g] = Tail(q)
    BY Zenon DEF Reads
  <2> HIDE DEF q
  <2>2. /\ Unread(Tail(q)) \subseteq Unread(q)
        /\ q[1].reason = "DOWN" => q[1].node \in Unread(q)
        /\ q[1].reason = "DOWN" => Unread(q) \ {q[1].node} \subseteq Unread(Tail(q))
        /\ q[1].reason # "DOWN" => Unread(Tail(q)) = Unread(q)
    BY Zenon, <2>1, UnreadFacts
  <2> QED BY Zenon, <1>2, <2>1, <2>2 DEF q
<1> QED BY Zenon, <1>1, <1>2

\* Nobody is yet to be told of at first.
LEMMA GoneInit == Init => Gone
<1> SUFFICES ASSUME Init PROVE Gone
  BY Zenon
<1>1. \A d \in Nodes : confchg[d][daemon_group] = <<>>
  BY Zenon, GroupFacts DEF Init
<1>2. <<>> \in Seq(ChangeType)
  OBVIOUS
<1>3. Unread(<<>>) = {}
  BY Zenon, <1>2, UnreadFacts
<1> QED BY Zenon, <1>1, <1>3 DEF Gone

\* A node is not let join a filesystem while a daemon has yet to read of its
\* failure.
LEMMA GoneStep ==
    ASSUME "late" \notin Faults
    PROVE  Base /\ Gone /\ [Next]_vars => Gone'
<1> SUFFICES ASSUME Base, Gone, [Next]_vars PROVE Gone'
  BY Zenon
<1>1. TypeOK /\ Readable
  BY Zenon DEF Base
<1>2. ASSUME \A n \in Nodes : Unread(confchg'[n][daemon_group]) \subseteq Unread(confchg[n][daemon_group]),
             \A u \in Uuids : member'[u] \subseteq member[u]
      PROVE  Gone'
  BY Zenon, <1>2 DEF Gone
<1>3. ASSUME NEW d \in Nodes, node_down(d) \/ exit_cpg(d) PROVE Gone'
  <2>1. PICK why : (\A g \in Groups : why[g] \in {"LEAVE", "DOWN"}) /\ DropOut(d, why)
    BY Zenon, <1>3, DropCases
  <2>2. Dropped(d, why)
    BY Zenon, <1>1, <2>1, DropFacts
  <2>3. \A u \in Uuids : member'[u] = member[u] \ {d}
    BY Zenon, <2>2, GroupFacts DEF Dropped
  <2>4. \A n \in Nodes : Unread(confchg'[n][daemon_group]) \subseteq Unread(confchg[n][daemon_group]) \cup {d}
    <3>1. why[daemon_group] \in {"LEAVE", "DOWN"}
      BY Zenon, <2>1, GroupFacts
    <3> QED BY <1>1, <2>2, <3>1, DropUnread
  <2> QED BY Zenon, <2>3, <2>4 DEF Gone
<1>4. ASSUME NEW d \in Nodes, setup_cpg(d) PROVE Gone'
  <2> DEFINE e == Change(member'[daemon_group], d, "JOIN")
  <2>1. /\ TypeOK' /\ Reaches(daemon_group, member'[daemon_group], e)
        /\ \A u \in Uuids : member'[u] = member[u]
    BY Zenon, <1>1, <1>4, SetupFacts
  <2>2. member'[daemon_group] \in SUBSET Nodes
    BY Zenon, <2>1, GroupFacts DEF TypeOK
  <2>3. e \in ChangeType /\ e.reason # "DOWN"
    BY Zenon, <1>1, <2>2, ChangeFacts
  <2> HIDE DEF e
  <2>4. \A n \in Nodes : Unread(confchg'[n][daemon_group]) = Unread(confchg[n][daemon_group])
    BY Zenon, <1>1, <2>1, <2>3, GroupFacts, ReachesUnread
  <2> QED BY Zenon, <1>2, <2>1, <2>4
<1>5. ASSUME NEW d \in Nodes, NEW u \in Uuids, group_join(d, u) PROVE Gone'
  <2> DEFINE e == Change(member'[u], d, "JOIN")
  <2>1. /\ TypeOK' /\ Reaches(u, member'[u], e) /\ DownSeen(d) /\ member'[u] = member[u] \cup {d}
        /\ \A g \in Groups : g # u => member'[g] = member[g]
    BY Zenon, <1>1, <1>5, JoinFacts
  <2>2. member'[u] \in SUBSET Nodes /\ u \in Groups
    BY Zenon, <2>1, GroupFacts DEF TypeOK
  <2>3. e \in ChangeType /\ e.reason # "DOWN"
    BY Zenon, <1>1, <2>2, ChangeFacts
  <2> HIDE DEF e
  <2>4. \A n \in Nodes : Unread(confchg'[n][daemon_group]) = Unread(confchg[n][daemon_group])
    BY Zenon, <1>1, <2>1, <2>2, <2>3, ReachesUnread
  <2>5. \A n \in Nodes : d \notin Unread(confchg[n][daemon_group])
    BY Zenon, <2>1, SeenFacts
  <2>6. \A v \in Uuids : member'[v] \subseteq member[v] \cup {d}
    BY Zenon, <2>1, GroupFacts
  <2> QED BY Zenon, <2>4, <2>5, <2>6 DEF Gone
<1>6. ASSUME NEW d \in Nodes, NEW u \in Uuids, group_leave(d, u) PROVE Gone'
  <2> DEFINE e == Change(member'[u], d, "LEAVE")
  <2>1. /\ TypeOK' /\ Reaches(u, member[u], e) /\ member'[u] = member[u] \ {d}
        /\ \A g \in Groups : g # u => member'[g] = member[g]
    BY Zenon, <1>1, <1>6, LeaveFacts
  <2>2. member'[u] \in SUBSET Nodes /\ u \in Groups
    BY Zenon, <2>1, GroupFacts DEF TypeOK
  <2>3. e \in ChangeType /\ e.reason # "DOWN"
    BY Zenon, <1>1, <2>2, ChangeFacts
  <2> HIDE DEF e
  <2>4. \A n \in Nodes : Unread(confchg'[n][daemon_group]) = Unread(confchg[n][daemon_group])
    BY Zenon, <1>1, <2>1, <2>2, <2>3, ReachesUnread
  <2>5. \A v \in Uuids : member'[v] \subseteq member[v]
    BY Zenon, <2>1, GroupFacts
  <2> QED BY Zenon, <1>2, <2>4, <2>5
<1>7. ASSUME NEW d \in Nodes, NEW g \in Groups, process_cpg(d, g) PROVE Gone'
  <2>1. Reads(d, g)
    BY Zenon, <1>1, <1>7, ReadFacts
  <2>2. member' = member
    BY Zenon, <2>1 DEF Reads
  <2>3. \A n \in Nodes : Unread(confchg'[n][daemon_group]) \subseteq Unread(confchg[n][daemon_group])
    BY Zenon, <1>1, <2>1, ReadUnread
  <2> QED BY Zenon, <1>2, <2>2, <2>3
<1>8. ASSUME confchg' = confchg, member' = member PROVE Gone'
  BY Zenon, <1>2, <1>8
<1>9. ASSUME NEW d \in Nodes, poll(d) \/ dead_dlmcontrol(d) PROVE Gone'
  BY Zenon, <1>8, <1>9 DEF poll, dead_dlmcontrol
<1>10. CASE UNCHANGED vars
  BY Zenon, <1>8, <1>10 DEF vars
<1> QED BY Zenon, <1>3, <1>4, <1>5, <1>6, <1>7, <1>9, <1>10 DEF Next, Loop

\* When no node joins a filesystem before the others have handled its failure,
\* a daemon never tells the kernel and dlm_controld that a node went down in a
\* filesystem of which the node is a member, however far behind its connections are.
THEOREM ToldTruly ==
    ASSUME "late" \notin Faults
    PROVE  Spec => NoFalseDown
<1> DEFINE Truly == \A d \in Nodes, n \in Nodes, u \in Uuids :
                      told'[d] # told[d] /\ told'[d] # <<>>
                      /\ n \in cg[d][u].nodes /\ n \notin cg'[d][u].nodes => n \notin member[u]
<1>1. Base /\ Gone /\ [Next]_vars => [Truly]_vars
  <2> SUFFICES ASSUME Base, Gone, Next PROVE Truly
    BY Zenon
  <2>1. TypeOK /\ Readable
    BY Zenon DEF Base
  <2>2. ASSUME told' = told PROVE Truly
    BY Zenon, <2>2
  <2>3. ASSUME NEW d \in Nodes, node_down(d) \/ exit_cpg(d) PROVE Truly
    <3>1. PICK why : (\A g \in Groups : why[g] \in {"LEAVE", "DOWN"}) /\ DropOut(d, why)
      BY Zenon, <2>3, DropCases
    <3>2. Dropped(d, why)
      BY Zenon, <2>1, <3>1, DropFacts
    <3> QED BY Zenon, <3>2 DEF Dropped
  <2>4. ASSUME NEW d \in Nodes, NEW g \in Groups, process_cpg(d, g) PROVE Truly
    <3>1. Reads(d, g)
      BY Zenon, <2>1, <2>4, ReadFacts
    <3>2. CASE g \in Uuids
      <4>1. PICK e \in ChangeType : e = confchg[d][g][1]
        BY Zenon, <3>1 DEF Reads
      <4>2. told' = told
        BY Zenon, <2>1, <2>4, <3>2, <4>1, GroupReadFacts
      <4> QED BY Zenon, <2>2, <4>2
    <3>3. CASE g = daemon_group
      <4>1. PICK e \in ChangeType : e = confchg[d][daemon_group][1]
        BY Zenon, <3>1, <3>3 DEF Reads
      <4>2. /\ \A n \in Nodes, u \in Uuids :
                 cg'[n][u] = IF n = d /\ e.reason = "DOWN" THEN pop_node(cg[n][u], e.node) ELSE cg[n][u]
            /\ \A n \in Nodes : n # d => told'[n] = told[n]
        <5>1. Tells(d, e)
          BY Zenon, <2>1, <2>4, <3>3, <4>1, DaemonReadFacts
        <5> QED BY Zenon, <5>1 DEF Tells
      <4>3. ASSUME NEW n \in Nodes, NEW u \in Uuids, n \in cg[d][u].nodes, n \notin cg'[d][u].nodes
            PROVE  n \notin member[u]
        <5>1. e.reason = "DOWN" /\ cg'[d][u] = pop_node(cg[d][u], e.node)
          BY Zenon, <4>2, <4>3
        <5>2. cg[d][u] \in CgType
          BY Zenon, <2>1, TypedAt, GroupFacts
        <5>3. pop_node(cg[d][u], e.node).nodes = cg[d][u].nodes \ {e.node}
          BY Zenon, <5>2 DEF pop_node, CgType
        <5>4. n = e.node
          BY Zenon, <4>3, <5>1, <5>3
        <5>5. e.node \in Unread(confchg[d][daemon_group])
          BY Zenon, <2>1, <3>1, <3>3, <4>1, <5>1, ReadUnread
        <5> QED BY Zenon, <5>4, <5>5 DEF Gone
      <4> QED BY Zenon, <4>2, <4>3
    <3> QED BY Zenon, <3>2, <3>3, GroupFacts
  <2>5. ASSUME NEW d \in Nodes,
               \/ setup_cpg(d) \/ dead_dlmcontrol(d) \/ poll(d)
               \/ \E u \in Uuids : group_join(d, u) \/ group_leave(d, u)
        PROVE  told' = told
    BY Zenon, <2>5 DEF setup_cpg, dead_dlmcontrol, poll, group_join, group_leave
  <2> HIDE DEF Truly
  <2> QED BY Zenon, <2>2, <2>3, <2>4, <2>5 DEF Next, Loop
<1>2. Init => Gone
  BY Zenon, GoneInit
<1>3. Base /\ Gone /\ [Next]_vars => Gone'
  BY Zenon, GoneStep
<1> HIDE DEF Truly
<1>4. Spec => [][Truly]_vars
  BY <1>1, <1>2, <1>3, BaseHolds, PTL DEF Spec
<1> QED BY Zenon, <1>4 DEF NoFalseDown, Truly

-----------------------------------------------------------------------------
(* A daemon that has read everything has the group's members in cg_nodes.  *)

\* What a queue that is right says of a group that is not there, and of the nodes
\* that failed.
LEMMA RightFacts ==
    ASSUME NEW d, NEW u, Right(d, u)
    PROVE  /\ ~cg[d][u].open => ~cg[d][u].joined /\ confchg[d][u] = <<>> /\ d \notin member[u]
           /\ \A n \in Unread(confchg[d][daemon_group]) : n \notin member[u]
  BY Zenon DEF Right, QueueOK, Open, Follows

\* A queue stays right when nothing about it changes.
LEMMA SameRight ==
    ASSUME NEW d, NEW u, Right(d, u), cg'[d][u] = cg[d][u], confchg'[d][u] = confchg[d][u],
           member'[u] = member[u],
           Unread(confchg'[d][daemon_group]) = Unread(confchg[d][daemon_group])
    PROVE  Right(d, u)'
  BY Zenon DEF Right

\* A queue is right when what it has become is.
LEMMA NewRight ==
    ASSUME NEW d, NEW u, NEW c, NEW q, NEW M, NEW D, QueueOK(d, c, q, M, D),
           cg'[d][u] = c, confchg'[d][u] = q, member'[u] = M,
           Unread(confchg'[d][daemon_group]) = D
    PROVE  Right(d, u)'
  BY Zenon DEF Right

\* A cluster at rest: every daemon has read everything.
LEMMA CaughtInit == Init => Caught
<1> SUFFICES ASSUME Init PROVE Caught
  BY Zenon
<1>1. /\ \A d \in Nodes : state[d] = "up"
      /\ member[daemon_group] = Nodes /\ \A u \in Uuids : member[u] = Start[u] /\ Start[u] \subseteq Nodes
      /\ \A d \in Nodes, g \in Groups : confchg[d][g] = <<>>
  BY Zenon, GroupFacts, ConstAssumption DEF Init
<1>2. Running /\ NotLost
  BY Zenon, <1>1 DEF Running, NotLost
<1>3. ASSUME NEW d \in Nodes, NEW u \in Uuids
      PROVE  Right(d, u)
  <2>1. /\ confchg[d][u] = <<>> /\ member[u] = Start[u]
        /\ Unread(confchg[d][daemon_group]) = {}
    <3>1. confchg[d][u] = <<>> /\ confchg[d][daemon_group] = <<>>
      BY Zenon, <1>1, GroupFacts
    <3>2. Unread(<<>>) = {}
      BY DEF Unread
    <3> QED BY Zenon, <1>1, <3>1, <3>2
  <2>2. cg[d][u] = IF d \in Start[u]
                   THEN [open |-> TRUE, joined |-> TRUE, members |-> Start[u], nodes |-> Start[u]]
                   ELSE Closed
    BY Zenon, GroupFacts DEF Init
  <2>3. CASE d \notin Start[u]
    <3>1. QueueOK(d, Closed, <<>>, Start[u], {})
      BY Zenon, <2>3, NoGroup
    <3> QED BY Zenon, <2>1, <2>2, <2>3, <3>1 DEF Right
  <2>4. CASE d \in Start[u]
    <3> DEFINE c == [open |-> TRUE, joined |-> TRUE, members |-> Start[u], nodes |-> Start[u]]
    <3>1. c.open /\ c.joined /\ c.nodes = Start[u]
      BY Zenon
    <3>2. Len(<<>>) = 0 /\ DOMAIN <<>> = {}
      OBVIOUS
    <3> HIDE DEF c
    <3>3. \A n : Idea(d, c, <<>>, n, Len(<<>>)) <=> n \in Start[u]
      BY Zenon, <3>1, <3>2, IdeaNow
    <3>4. QueueOK(d, c, <<>>, Start[u], {})
      BY Zenon, <2>4, <3>1, <3>2, <3>3 DEF QueueOK, Open, Follows, Fresh
    <3>5. cg[d][u] = c
      BY Zenon, <2>2, <2>4 DEF c
    <3> QED BY Zenon, <2>1, <3>4, <3>5 DEF Right
  <2> QED BY Zenon, <2>3, <2>4
<1> QED BY Zenon, <1>2, <1>3 DEF Caught, Queues

\* A daemon that starts has no groups yet, and the others go on as they were.
LEMMA SetupCaught ==
    ASSUME Base, Caught, NEW n \in Nodes, setup_cpg(n)
    PROVE  Caught'
<1> DEFINE M == member'[daemon_group]
           e == Change(M, n, "JOIN")
<1>1. TypeOK
  BY Zenon DEF Base
<1>2. /\ TypeOK' /\ UNCHANGED <<revents, told, downs>>
      /\ state[n] = "down" /\ state' = [state EXCEPT ![n] = "up"]
      /\ member'[daemon_group] = member[daemon_group] \cup {n}
      /\ \A u \in Uuids : /\ member'[u] = member[u]
                          /\ \A d \in Nodes : cg'[d][u] = cg[d][u]
      /\ \A d \in Nodes : d # n => cg'[d] = cg[d]
      /\ Reaches(daemon_group, M, e)
  BY Zenon, <1>1, SetupFacts
<1>3. e \in ChangeType /\ e.reason = "JOIN"
  <2>1. M \in SUBSET Nodes
    BY Zenon, <1>1, <1>2, GroupFacts, TypedAt
  <2> HIDE DEF M
  <2> QED BY ZenonT(30), <1>1, <2>1, ChangeFacts
<1> HIDE DEF e
<1>4. \A d \in Nodes : Unread(confchg'[d][daemon_group]) = Unread(confchg[d][daemon_group])
  BY Zenon, <1>1, <1>2, <1>3, GroupFacts, ReachesUnread
<1>5. \A d \in Nodes, u \in Uuids : confchg'[d][u] = confchg[d][u]
  BY Zenon, <1>2, GroupFacts DEF Reaches
<1>6. \A d \in Nodes : d \notin M => confchg'[d][daemon_group] = confchg[d][daemon_group]
  BY Zenon, <1>2 DEF Reaches
<1>7. Queues'
  BY Zenon, <1>2, <1>4, <1>5, SameRight DEF Caught, Queues
<1>8. \A d \in Nodes : state'[d] = IF d = n THEN "up" ELSE state[d]
  BY Zenon, <1>1, <1>2 DEF TypeOK
<1>9. NotLost'
  BY Zenon, <1>8 DEF Caught, NotLost
<1>10. Running'
  <2>1. \A d \in Nodes : d \in member'[daemon_group] <=> state'[d] # "down"
    BY <1>2, <1>8 DEF Caught, Running
  <2>2. \A u \in Uuids : member'[u] \subseteq member'[daemon_group]
    BY Zenon, <1>2 DEF Caught, Running
  <2>3. ASSUME NEW d \in Nodes, state'[d] = "down", NEW g \in Groups
        PROVE  confchg'[d][g] = <<>> /\ cg'[d][g] = Closed
    <3>1. d # n /\ state[d] = "down" /\ d \notin M
      BY Zenon, <1>8, <2>1, <2>3
    <3>2. confchg[d][g] = <<>> /\ cg[d][g] = Closed
      BY Zenon, <3>1 DEF Caught, Running
    <3>3. confchg'[d][g] = confchg[d][g]
      BY Zenon, <1>5, <1>6, <3>1, GroupFacts
    <3> QED BY Zenon, <1>2, <3>1, <3>2, <3>3
  <2>4. \A d \in Nodes : state'[d] = "dying" => \A u \in Uuids : cg'[d][u].open => cg'[d][u].joined
    <3>1. \A d \in Nodes : state'[d] = "dying" => state[d] = "dying"
      BY Zenon, <1>8
    <3> QED BY Zenon, <1>2, <3>1 DEF Caught, Running
  <2> QED BY Zenon, <2>1, <2>2, <2>3, <2>4 DEF Running
<1> QED BY Zenon, <1>7, <1>9, <1>10 DEF Caught

\* group_join(): the daemon's own join comes first in its new queue, and last in
\* the queues of the members, none of which has yet to read of its failure.
LEMMA JoinCaught ==
    ASSUME Base, Caught, "late" \notin Faults, NEW d \in Nodes, NEW u \in Uuids, group_join(d, u)
    PROVE  Caught'
<1> DEFINE M == member[u] \cup {d}
           e == Change(M, d, "JOIN")
<1>1. TypeOK
  BY Zenon DEF Base
<1>2. /\ UNCHANGED <<state, revents, told, downs>>
      /\ state[d] = "up" /\ ~cg[d][u].open /\ ("late" \in Faults \/ DownSeen(d))
      /\ member'[u] = M
      /\ \A g \in Groups : g # u => member'[g] = member[g]
      /\ cg'[d][u] = Opened
      /\ \A n \in Nodes, g \in Groups : n # d \/ g # u => cg'[n][g] = cg[n][g]
      /\ Reaches(u, M, e)
  <2>1. /\ UNCHANGED <<state, revents, told, downs>>
        /\ state[d] = "up" /\ ~cg[d][u].open /\ ("late" \in Faults \/ DownSeen(d))
        /\ member'[u] = member[u] \cup {d}
        /\ \A g \in Groups : g # u => member'[g] = member[g]
        /\ cg'[d][u] = Opened
        /\ \A n \in Nodes, g \in Groups : n # d \/ g # u => cg'[n][g] = cg[n][g]
        /\ Reaches(u, member'[u], Change(member'[u], d, "JOIN"))
    BY Zenon, <1>1, JoinFacts
  <2> QED BY Zenon, <2>1
<1>3. M \in SUBSET Nodes /\ d \in M
  BY Zenon, <1>1, GroupFacts, TypedAt
<1>4. /\ e \in ChangeType /\ e.reason = "JOIN" /\ e.node = d /\ e.members = M
  <2> HIDE DEF M
  <2> QED BY <1>1, <1>3, ChangeFacts
<1> HIDE DEF e
<1>5. \A n \in Nodes : /\ Unread(confchg'[n][daemon_group]) = Unread(confchg[n][daemon_group])
                       /\ d \notin Unread(confchg[n][daemon_group])
  BY Zenon, <1>1, <1>2, <1>4, GroupFacts, ReachesUnread, SeenFacts
<1>6. /\ \A n \in Nodes, g \in Groups : g # u => confchg'[n][g] = confchg[n][g]
      /\ \A n \in M : confchg'[n][u] = Append(confchg[n][u], e)
      /\ \A n \in Nodes : n \notin M => confchg'[n][u] = confchg[n][u]
  BY Zenon, <1>2 DEF Reaches
<1>7. \A n \in Nodes, v \in Uuids : Right(n, v)
  BY Zenon DEF Caught, Queues
<1>8. /\ confchg[d][u] = <<>> /\ d \notin member[u]
      /\ \A n \in Nodes : \A x \in Unread(confchg[n][daemon_group]) : x \notin M
  <2>1. confchg[d][u] = <<>> /\ d \notin member[u]
    BY Zenon, <1>2, <1>7, RightFacts
  <2>2. \A n \in Nodes : \A x \in Unread(confchg[n][daemon_group]) : x \notin member[u]
    BY Zenon, <1>7, RightFacts
  <2> QED BY Zenon, <1>5, <2>1, <2>2
<1>9. ASSUME NEW n \in Nodes, NEW v \in Uuids
      PROVE  Right(n, v)'
  <2> DEFINE D == Unread(confchg[n][daemon_group])
             c == cg[n][u]
             q == confchg[n][u]
  <2>1. CASE v # u
    BY ZenonT(40), <1>2, <1>5, <1>6, <1>7, <2>1, GroupFacts, SameRight
  <2>2. CASE v = u /\ n = d
    <3>1. QueueOK(d, Opened, Append(<<>>, e), M, D)
      <4>1. \A x \in D : x \notin M
        BY Zenon, <1>8
      <4> HIDE DEF D, M
      <4> QED BY Zenon, <1>3, <1>4, <4>1, OwnJoinOK
    <3>2. confchg'[d][u] = Append(<<>>, e)
      BY Zenon, <1>3, <1>6, <1>8
    <3>3. Unread(confchg'[d][daemon_group]) = D
      BY Zenon, <1>5, <2>2
    <3> HIDE DEF D, M
    <3> QED BY Zenon, <1>2, <2>2, <3>1, <3>2, <3>3, NewRight
  <2>3. CASE v = u /\ n # d
    <3>1. /\ QueueOK(n, c, q, member[u], D) /\ cg'[n][u] = c /\ member'[u] = M
          /\ Unread(confchg'[n][daemon_group]) = D /\ q \in Seq(ChangeType)
      BY Zenon, <1>1, <1>2, <1>5, <1>7, <2>3, GroupFacts, TypedAt DEF Right
    <3>2. d \notin D /\ \A x \in D : x \notin M
      BY Zenon, <1>5, <1>8
    <3>3. CASE n \in member[u]
      <4>1. confchg'[n][u] = Append(q, e)
        BY Zenon, <1>6, <3>3
      <4>2. \A x \in Nodes \ D : x \in M <=> \/ e.reason = "JOIN" /\ e.node = x
                                             \/ x \in member[u] /\ ~(e.reason = "LEAVE" /\ e.node = x)
        BY Zenon, <1>4
      <4>3. /\ n \in M <=> ~(e.reason = "LEAVE" /\ e.node = n)
            /\ e.node \in e.members /\ e.node # n /\ e.node \notin member[u] /\ e.node \notin D
        BY Zenon, <1>3, <1>4, <1>8, <2>3, <3>2, <3>3
      <4> HIDE DEF D, M, c, q
      <4>4. QueueOK(n, c, Append(q, e), M, D)
        BY Zenon, <1>4, <3>1, <3>2, <3>3, <4>2, <4>3, AppendOK
      <4> QED BY Zenon, <2>3, <3>1, <4>1, <4>4, NewRight
    <3>4. CASE n \notin member[u]
      <4>1. n \notin M
        BY Zenon, <2>3, <3>4
      <4>2. confchg'[n][u] = q
        BY Zenon, <1>6, <4>1
      <4> HIDE DEF D, M, c, q
      <4>3. QueueOK(n, c, q, M, D)
        BY Zenon, <3>1, <3>2, <3>4, <4>1, UnheardOK
      <4> QED BY Zenon, <2>3, <3>1, <4>2, <4>3, NewRight
    <3> QED BY Zenon, <3>3, <3>4
  <2> QED BY Zenon, <2>1, <2>2, <2>3
<1>10. Running' /\ NotLost'
  <2>1. member'[daemon_group] = member[daemon_group] /\ state' = state
    BY Zenon, <1>2, GroupFacts
  <2>2. d \in member[daemon_group]
    BY Zenon, <1>2 DEF Caught, Running
  <2>3. \A v \in Uuids : member'[v] \subseteq member[daemon_group]
    <3>1. \A v \in Uuids : v # u => member'[v] = member[v]
      BY Zenon, <1>2, GroupFacts
    <3> QED BY <1>2, <2>2, <3>1 DEF Caught, Running
  <2>4. ASSUME NEW n \in Nodes, state[n] = "down", NEW g \in Groups
        PROVE  confchg'[n][g] = <<>> /\ cg'[n][g] = Closed
    <3>1. n # d /\ n \notin M
      BY Zenon, <1>2, <2>4 DEF Caught, Running
    <3>2. confchg[n][g] = <<>> /\ cg[n][g] = Closed
      BY Zenon, <2>4 DEF Caught, Running
    <3> HIDE DEF M
    <3> QED BY Zenon, <1>2, <1>6, <3>1, <3>2
  <2>5. \A n \in Nodes : state[n] = "dying" => \A v \in Uuids : cg'[n][v].open => cg'[n][v].joined
    <3>1. \A n \in Nodes : state[n] = "dying" => n # d
      BY Zenon, <1>2
    <3>2. \A n \in Nodes, v \in Uuids : n # d => cg'[n][v] = cg[n][v]
      BY Zenon, <1>2, GroupFacts
    <3> QED BY ZenonT(40), <3>1, <3>2 DEF Caught, Running
  <2> QED BY Zenon, <2>1, <2>3, <2>4, <2>5 DEF Running, NotLost, Caught
<1> QED BY Zenon, <1>9, <1>10 DEF Caught, Queues

\* group_leave(): the leave comes last in the queues of the members, the one that
\* leaves included.
LEMMA LeaveCaught ==
    ASSUME Base, Caught, NEW d \in Nodes, NEW u \in Uuids, group_leave(d, u)
    PROVE  Caught'
<1> DEFINE M == member[u] \ {d}
           e == Change(M, d, "LEAVE")
<1>1. TypeOK
  BY Zenon DEF Base
<1>2. /\ UNCHANGED <<state, revents, cg, told, downs>>
      /\ d \in member[u] /\ member'[u] = M
      /\ \A g \in Groups : g # u => member'[g] = member[g]
      /\ Reaches(u, member[u], e)
  <2>1. /\ UNCHANGED <<state, revents, cg, told, downs>>
        /\ d \in member[u] /\ member'[u] = member[u] \ {d}
        /\ \A g \in Groups : g # u => member'[g] = member[g]
        /\ Reaches(u, member[u], Change(member'[u], d, "LEAVE"))
    BY Zenon, <1>1, LeaveFacts
  <2> QED BY Zenon, <2>1
<1>3. M \in SUBSET Nodes
  BY Zenon, <1>1, GroupFacts, TypedAt
<1>4. /\ e \in ChangeType /\ e.reason = "LEAVE" /\ e.node = d
  <2> HIDE DEF M
  <2> QED BY <1>1, <1>3, ChangeFacts
<1> HIDE DEF e
<1>5. \A n \in Nodes : Unread(confchg'[n][daemon_group]) = Unread(confchg[n][daemon_group])
  BY Zenon, <1>1, <1>2, <1>4, GroupFacts, ReachesUnread
<1>6. /\ \A n \in Nodes, g \in Groups : g # u => confchg'[n][g] = confchg[n][g]
      /\ \A n \in member[u] : confchg'[n][u] = Append(confchg[n][u], e)
      /\ \A n \in Nodes : n \notin member[u] => confchg'[n][u] = confchg[n][u]
  BY Zenon, <1>2 DEF Reaches
<1>7. \A n \in Nodes, v \in Uuids : Right(n, v)
  BY Zenon DEF Caught, Queues
<1>8. ASSUME NEW n \in Nodes, NEW v \in Uuids
      PROVE  Right(n, v)'
  <2> DEFINE D == Unread(confchg[n][daemon_group])
             c == cg[n][u]
             q == confchg[n][u]
  <2>1. CASE v # u
    BY ZenonT(40), <1>2, <1>5, <1>6, <1>7, <2>1, GroupFacts, SameRight
  <2>2. CASE v = u
    <3>1. /\ QueueOK(n, c, q, member[u], D) /\ cg'[n][u] = c /\ member'[u] = M
          /\ Unread(confchg'[n][daemon_group]) = D /\ q \in Seq(ChangeType)
      BY Zenon, <1>1, <1>2, <1>5, <1>7, <2>2, GroupFacts, TypedAt DEF Right
    <3>2. \A x \in D : x \notin M
      <4>1. \A x \in D : x \notin member[u]
        BY Zenon, <1>7, RightFacts
      <4> QED BY Zenon, <4>1
    <3>3. CASE n \in member[u]
      <4>1. confchg'[n][u] = Append(q, e)
        BY Zenon, <1>6, <3>3
      <4>2. \A x \in Nodes \ D : x \in M <=> \/ e.reason = "JOIN" /\ e.node = x
                                             \/ x \in member[u] /\ ~(e.reason = "LEAVE" /\ e.node = x)
        BY Zenon, <1>4
      <4>3. n \in M <=> ~(e.reason = "LEAVE" /\ e.node = n)
        BY Zenon, <1>4, <3>3
      <4> HIDE DEF D, M, c, q
      <4>4. QueueOK(n, c, Append(q, e), M, D)
        BY Zenon, <1>4, <3>1, <3>2, <3>3, <4>2, <4>3, AppendOK
      <4> QED BY Zenon, <2>2, <3>1, <4>1, <4>4, NewRight
    <3>4. CASE n \notin member[u]
      <4>1. n \notin M
        BY Zenon, <3>4
      <4>2. confchg'[n][u] = q
        BY Zenon, <1>6, <3>4
      <4> HIDE DEF D, M, c, q
      <4>3. QueueOK(n, c, q, M, D)
        BY Zenon, <3>1, <3>2, <3>4, <4>1, UnheardOK
      <4> QED BY Zenon, <2>2, <3>1, <4>2, <4>3, NewRight
    <3> QED BY Zenon, <3>3, <3>4
  <2> QED BY Zenon, <2>1, <2>2
<1>9. Running' /\ NotLost'
  <2>1. member'[daemon_group] = member[daemon_group] /\ state' = state /\ cg' = cg
    BY Zenon, <1>2, GroupFacts
  <2>2. \A v \in Uuids : member'[v] \subseteq member[daemon_group]
    <3>1. \A v \in Uuids : v # u => member'[v] = member[v]
      BY Zenon, <1>2, GroupFacts
    <3> QED BY Zenon, <1>2, <3>1 DEF Caught, Running
  <2>3. ASSUME NEW n \in Nodes, state[n] = "down", NEW g \in Groups
        PROVE  confchg'[n][g] = <<>> /\ cg'[n][g] = Closed
    <3>1. n \notin member[u]
      BY Zenon, <2>3 DEF Caught, Running
    <3>2. confchg[n][g] = <<>> /\ cg[n][g] = Closed
      BY Zenon, <2>3 DEF Caught, Running
    <3> QED BY Zenon, <1>6, <2>1, <3>1, <3>2
  <2>4. \A n \in Nodes : state[n] = "dying" => \A v \in Uuids : cg'[n][v].open => cg'[n][v].joined
    BY Zenon, <2>1 DEF Caught, Running
  <2> QED BY Zenon, <2>1, <2>2, <2>3, <2>4 DEF Running, NotLost, Caught
<1> QED BY Zenon, <1>8, <1>9 DEF Caught, Queues

\* group_change(): push_node() finds room for the node it adds, and the rest of the
\* queue is right for the new cgroup.
LEMMA GroupReadCaught ==
    ASSUME Base, Caught, NEW d \in Nodes, NEW u \in Uuids, process_cpg(d, u)
    PROVE  Caught'
<1> DEFINE e == confchg[d][u][1]
           c == cg[d][u]
           q == confchg[d][u]
<1>1. TypeOK /\ Readable /\ u \in Groups
  BY Zenon, GroupFacts DEF Base
<1>2. Reads(d, u)
  BY Zenon, <1>1, ReadFacts
<1>3. /\ cg'[d][u] = Handled(c, d, e)
      /\ \A n \in Nodes, g \in Groups : n # d \/ g # u => cg'[n][g] = cg[n][g]
      /\ Pushed([c EXCEPT !.members = e.members], d, e) \cap c.nodes = {} => state' = state
  <2>1. Acts(d, u, e)
    BY Zenon, <1>1, GroupReadFacts
  <2> QED BY Zenon, <2>1 DEF Acts
<1>4. /\ state[d] = "up" /\ q # <<>> /\ q \in Seq(ChangeType)
      /\ confchg'[d][u] = Tail(q)
      /\ \A n \in Nodes, h \in Groups : n # d \/ h # u => confchg'[n][h] = confchg[n][h]
      /\ member' = member
  BY Zenon, <1>2 DEF Reads
<1>5. \A n \in Nodes : Unread(confchg'[n][daemon_group]) = Unread(confchg[n][daemon_group])
  BY Zenon, <1>1, <1>2, GroupFacts, ReadUnread
<1>6. \A n \in Nodes, v \in Uuids : Right(n, v)
  BY Zenon DEF Caught, Queues
<1>7. /\ Pushed([c EXCEPT !.members = e.members], d, e) \cap c.nodes = {}
      /\ QueueOK(d, Handled(c, d, e), Tail(q), member[u], Unread(confchg[d][daemon_group]))
  <2> DEFINE D == Unread(confchg[d][daemon_group])
  <2>1. QueueOK(d, c, q, member[u], D)
    BY Zenon, <1>6 DEF Right
  <2>2. c \in CgType /\ D \in SUBSET Nodes
    BY Zenon, <1>1, GroupFacts, TypedAt, UnreadFacts
  <2>3. e = q[1]
    BY Zenon
  <2> HIDE DEF c, q, e, D
  <2>4. /\ Pushed([c EXCEPT !.members = q[1].members], d, q[1]) \cap c.nodes = {}
        /\ QueueOK(d, Handled(c, d, q[1]), Tail(q), member[u], D)
    BY Zenon, <1>4, <2>1, <2>2, HandledOK
  <2> QED BY Zenon, <2>3, <2>4 DEF D
<1>8. state' = state
  BY Zenon, <1>3, <1>7
<1>9. ASSUME NEW n \in Nodes, NEW v \in Uuids
      PROVE  Right(n, v)'
  <2>1. CASE n # d \/ v # u
    <3>1. /\ cg'[n][v] = cg[n][v] /\ confchg'[n][v] = confchg[n][v] /\ member'[v] = member[v]
      BY Zenon, <1>3, <1>4, <2>1, GroupFacts
    <3> QED BY Zenon, <1>5, <1>6, <3>1, SameRight
  <2>2. CASE n = d /\ v = u
    <3> HIDE DEF c, q, e
    <3> QED BY Zenon, <1>3, <1>4, <1>5, <1>7, <2>2, NewRight
  <2> QED BY Zenon, <2>1, <2>2
<1>10. Running' /\ NotLost'
  <2>1. \A n \in Nodes : state[n] \in {"down", "dying"} => n # d
    BY Zenon, <1>4
  <2>2. \A n \in Nodes, g \in Groups : n # d => confchg'[n][g] = confchg[n][g] /\ cg'[n][g] = cg[n][g]
    BY Zenon, <1>3, <1>4
  <2>3. /\ \A n \in Nodes : state[n] = "down" =>
             \A g \in Groups : confchg'[n][g] = <<>> /\ cg'[n][g] = Closed
        /\ \A n \in Nodes : state[n] = "dying" =>
             \A v \in Uuids : cg'[n][v].open => cg'[n][v].joined
    <3>1. \A n \in Nodes : state[n] = "down" => n # d
      BY Zenon, <2>1
    <3>2. \A n \in Nodes : state[n] = "dying" => n # d
      BY Zenon, <2>1
    <3>3. \A n \in Nodes, v \in Uuids : n # d => cg'[n][v] = cg[n][v]
      BY Zenon, <2>2, GroupFacts
    <3>4. \A n \in Nodes : state[n] = "down" =>
             \A g \in Groups : confchg'[n][g] = <<>> /\ cg'[n][g] = Closed
      <4>1. \A n \in Nodes : state[n] = "down" =>
               \A g \in Groups : confchg[n][g] = <<>> /\ cg[n][g] = Closed
        BY Zenon DEF Caught, Running
      <4> QED BY ZenonT(40), <2>2, <3>1, <4>1
    <3>5. \A n \in Nodes : state[n] = "dying" =>
             \A v \in Uuids : cg'[n][v].open => cg'[n][v].joined
      BY ZenonT(40), <3>2, <3>3 DEF Caught, Running
    <3> QED BY Zenon, <3>4, <3>5
  <2> QED BY Zenon, <1>4, <1>8, <2>3 DEF Running, NotLost, Caught
<1> QED BY Zenon, <1>9, <1>10 DEF Caught, Queues

\* handle_node_down(): the node leaves cg_nodes of every filesystem, when its
\* failure is read.
LEMMA DaemonReadCaught ==
    ASSUME Base, Caught, NEW d \in Nodes, process_cpg(d, daemon_group)
    PROVE  Caught'
<1> DEFINE e == confchg[d][daemon_group][1]
<1>1. TypeOK /\ Readable /\ daemon_group \in Groups
  BY Zenon, GroupFacts DEF Base
<1>2. Reads(d, daemon_group)
  BY Zenon, <1>1, ReadFacts
<1>3. TypeOK' /\ Tells(d, e)
  BY Zenon, <1>1, DaemonReadFacts
<1>4. /\ state' = state
      /\ \A n \in Nodes, u \in Uuids :
           cg'[n][u] = IF n = d /\ e.reason = "DOWN" THEN pop_node(cg[n][u], e.node) ELSE cg[n][u]
  BY Zenon, <1>3 DEF Tells
<1>5. /\ state[d] = "up" /\ member' = member
      /\ \A n \in Nodes, u \in Uuids : confchg'[n][u] = confchg[n][u]
      /\ \A n \in Nodes : n # d => confchg'[n][daemon_group] = confchg[n][daemon_group]
  BY Zenon, <1>1, <1>2, GroupFacts DEF Reads
<1>6. \A n \in Nodes, u \in Uuids : Right(n, u)
  BY Zenon DEF Caught, Queues
<1>7. ASSUME NEW n \in Nodes, NEW u \in Uuids
      PROVE  Right(n, u)'
  <2>1. CASE ~(n = d /\ e.reason = "DOWN")
    <3>1. Unread(confchg'[n][daemon_group]) = Unread(confchg[n][daemon_group])
      BY Zenon, <1>1, <1>2, <2>1, ReadUnread
    <3>2. cg'[n][u] = cg[n][u]
      BY Zenon, <1>4, <2>1
    <3> QED BY Zenon, <1>5, <1>6, <3>1, <3>2, SameRight
  <2>2. CASE n = d /\ e.reason = "DOWN"
    <3> DEFINE D == Unread(confchg[d][daemon_group])
               D2 == Unread(confchg'[d][daemon_group])
               x == e.node
               c == cg[d][u]
               q == confchg[d][u]
    <3>1. x \in D /\ D2 \subseteq D /\ D \ {x} \subseteq D2
      BY Zenon, <1>1, <1>2, <2>2, ReadUnread
    <3>2. QueueOK(d, c, q, member[u], D)
      BY Zenon, <1>6 DEF Right
    <3>3. c \in CgType /\ q \in Seq(ChangeType)
      BY Zenon, <1>1, GroupFacts, TypedAt
    <3>4. /\ cg'[d][u] = pop_node(c, x) /\ confchg'[d][u] = q /\ member'[u] = member[u]
          /\ Unread(confchg'[d][daemon_group]) = D2
      BY Zenon, <1>4, <1>5, <2>2
    <3> HIDE DEF D, D2, x, c, q
    <3>5. QueueOK(d, pop_node(c, x), q, member[u], D2)
      BY Zenon, <3>1, <3>2, <3>3, PoppedOK
    <3> QED BY Zenon, <2>2, <3>4, <3>5, NewRight
  <2> QED BY Zenon, <2>1, <2>2
<1>8. Running' /\ NotLost'
  <2>1. \A n \in Nodes : state[n] \in {"down", "dying"} => n # d
    BY Zenon, <1>5
  <2>2. /\ \A n \in Nodes, u \in Uuids : n # d => cg'[n][u] = cg[n][u]
        /\ \A n \in Nodes, g \in Groups : n # d => confchg'[n][g] = confchg[n][g]
    BY Zenon, <1>4, <1>5, GroupFacts
  <2>3. \A n \in Nodes : n # d => cg'[n][daemon_group] = cg[n][daemon_group]
    <3>1. daemon_change(d, Head(confchg[d][daemon_group]))
      BY Zenon DEF process_cpg
    <3>2. cg \in [Nodes -> [Groups -> CgType]]
      BY Zenon, <1>1 DEF TypeOK
    <3> QED BY Zenon, <1>1, <3>1, <3>2 DEF daemon_change, handle_node_down
  <2>4. /\ \A n \in Nodes : state[n] = "down" =>
             \A g \in Groups : confchg'[n][g] = <<>> /\ cg'[n][g] = Closed
        /\ \A n \in Nodes : state[n] = "dying" =>
             \A v \in Uuids : cg'[n][v].open => cg'[n][v].joined
    <3>1. \A n \in Nodes : state[n] = "down" => n # d
      BY Zenon, <2>1
    <3>2. \A n \in Nodes : state[n] = "dying" => n # d
      BY Zenon, <2>1
    <3>3. \A n \in Nodes, g \in Groups : n # d => cg'[n][g] = cg[n][g]
      BY Zenon, <2>2, <2>3, GroupFacts
    <3>4. \A n \in Nodes : state[n] = "down" =>
             \A g \in Groups : confchg'[n][g] = <<>> /\ cg'[n][g] = Closed
      <4>1. \A n \in Nodes : state[n] = "down" =>
               \A g \in Groups : confchg[n][g] = <<>> /\ cg[n][g] = Closed
        BY Zenon DEF Caught, Running
      <4> QED BY <2>2, <3>1, <3>3, <4>1
    <3>5. \A n \in Nodes : state[n] = "dying" =>
             \A v \in Uuids : cg'[n][v].open => cg'[n][v].joined
      <4>1. \A n \in Nodes : state[n] = "dying" =>
               \A v \in Uuids : cg[n][v].open => cg[n][v].joined
        BY Zenon DEF Caught, Running
      <4> QED BY Zenon, <2>2, <3>2, <4>1
    <3> QED BY Zenon, <3>4, <3>5
  <2> QED BY Zenon, <1>4, <1>5, <2>4 DEF Running, NotLost, Caught
<1> QED BY Zenon, <1>7, <1>8 DEF Caught, Queues

\* Why the others are told that n dropped out.  Without the daemon group's DOWN
\* nobody pops n, and n is then a member of no filesystem.
Gently(n, why) ==
    /\ why[daemon_group] \in {"LEAVE", "DOWN"} /\ \A u \in Uuids : why[u] = "DOWN"
    /\ why[daemon_group] = "LEAVE" => \A u \in Uuids : n \notin member[u]
    /\ JoinSeen(n) /\ DropOut(n, why)

\* exit_cpg() leaves the daemon group on its own request only when every filesystem
\* it has joined is left; one that it is joining it would forget ("stop").
LEMMA DropGently ==
    ASSUME Caught, "late" \notin Faults, NEW n \in Nodes, node_down(n) \/ exit_cpg(n)
    PROVE  \E why : Gently(n, why)
<1>1. CASE node_down(n)
  <2> DEFINE why == [g \in Groups |-> "DOWN"]
  <2>1. JoinSeen(n) /\ DropOut(n, why)
    BY Zenon, <1>1 DEF node_down
  <2>2. \A g \in Groups : why[g] = "DOWN"
    BY Zenon
  <2> HIDE DEF why
  <2>3. why[daemon_group] = "DOWN" /\ \A u \in Uuids : why[u] = "DOWN"
    BY Zenon, <2>2, GroupFacts
  <2>4. "DOWN" # "LEAVE"
    BY Zenon
  <2>5. Gently(n, why)
    BY Zenon, <2>1, <2>3, <2>4 DEF Gently
  <2> QED BY Zenon, <2>5
<1>2. CASE exit_cpg(n)
  <2> DEFINE P == \A u \in Uuids : cg[n][u].joined => n \notin member[u]
             why == [g \in Groups |-> IF g = daemon_group /\ P THEN "LEAVE" ELSE "DOWN"]
  <2>1. state[n] \in {"dying", "lost"} /\ JoinSeen(n) /\ DropOut(n, why)
    BY Zenon, <1>2 DEF exit_cpg
  <2>2. state[n] = "dying"
    BY Zenon, <2>1 DEF Caught, NotLost
  <2>3. P => \A u \in Uuids : n \notin member[u]
    <3>1. \A u \in Uuids : cg[n][u].open => cg[n][u].joined
      BY Zenon, <2>2 DEF Caught, Running
    <3>2. \A u \in Uuids : ~cg[n][u].open => n \notin member[u]
      BY Zenon, RightFacts DEF Caught, Queues
    <3> QED BY Zenon, <3>1, <3>2
  <2> HIDE DEF P
  <2>4. why[daemon_group] = (IF P THEN "LEAVE" ELSE "DOWN") /\ \A u \in Uuids : why[u] = "DOWN"
    BY Zenon, GroupFacts
  <2> HIDE DEF why
  <2>5. why[daemon_group] \in {"LEAVE", "DOWN"} /\ (why[daemon_group] = "LEAVE" => P)
    BY Zenon, <2>4
  <2>6. Gently(n, why)
    BY Zenon, <2>1, <2>3, <2>4, <2>5 DEF Gently
  <2> QED BY Zenon, <2>6
<1> QED BY Zenon, <1>1, <1>2

\* A node drops out: the members of its filesystems hear of it, in that group and
\* in the daemon group.
LEMMA DropCaught ==
    ASSUME Base, Caught, NEW n \in Nodes, NEW why, Gently(n, why)
    PROVE  Caught'
<1>1. TypeOK
  BY Zenon DEF Base
<1>2. /\ why[daemon_group] \in {"LEAVE", "DOWN"} /\ \A u \in Uuids : why[u] = "DOWN"
      /\ why[daemon_group] = "LEAVE" => \A u \in Uuids : n \notin member[u]
      /\ JoinSeen(n) /\ DropOut(n, why)
  BY Zenon DEF Gently
<1>3. Dropped(n, why)
  <2>1. \A g \in Groups : why[g] \in {"LEAVE", "DOWN"}
    BY Zenon, <1>2, GroupFacts
  <2> QED BY Zenon, <1>1, <1>2, <2>1, DropFacts
<1>4. /\ state'[n] = "down"
      /\ \A g \in Groups : /\ member'[g] = member[g] \ {n}
                           /\ confchg'[n][g] = <<>> /\ cg'[n][g] = Closed
      /\ \A d \in Nodes : d # n => cg'[d] = cg[d] /\ state'[d] = state[d]
      /\ \A d \in Nodes, g \in Groups : d # n =>
           confchg'[d][g] = IF d \in member[g] /\ n \in member[g]
                            THEN Append(confchg[d][g], Change(member[g] \ {n}, n, why[g]))
                            ELSE confchg[d][g]
  BY Zenon, <1>3 DEF Dropped
<1>5. \A u \in Uuids : u \in Groups
  BY Zenon, GroupFacts
<1>6. /\ Unread(confchg'[n][daemon_group]) = {}
      /\ \A d \in Nodes : d # n =>
           Unread(confchg'[d][daemon_group]) =
             Unread(confchg[d][daemon_group])
               \cup (IF /\ d \in member[daemon_group] /\ n \in member[daemon_group]
                        /\ why[daemon_group] = "DOWN" THEN {n} ELSE {})
  BY <1>1, <1>2, <1>3, DropUnread
<1>7. ASSUME NEW d \in Nodes, NEW u \in Uuids
      PROVE  Right(d, u)'
  <2> DEFINE M == member[u]
             M2 == member[u] \ {n}
             D == Unread(confchg[d][daemon_group])
             D2 == Unread(confchg'[d][daemon_group])
             c == cg[d][u]
             q == confchg[d][u]
  <2>1. member'[u] = M2
    BY Zenon, <1>4, <1>5
  <2>2. CASE d = n
    <3>1. cg'[d][u] = Closed /\ confchg'[d][u] = <<>>
      BY Zenon, <1>4, <1>5, <2>2
    <3>2. D2 = {}
      BY Zenon, <1>6, <2>2
    <3>3. d \notin M2 /\ \A x \in {} : x \notin M2
      BY Zenon, <2>2
    <3> HIDE DEF M2, D2
    <3>4. QueueOK(d, Closed, <<>>, M2, {})
      BY Zenon, <3>3, NoGroup
    <3> QED BY Zenon, <2>1, <3>1, <3>2, <3>4, NewRight DEF D2
  <2>3. CASE d # n
    <3>1. QueueOK(d, c, q, M, D) /\ cg'[d][u] = c /\ q \in Seq(ChangeType)
      BY Zenon, <1>1, <1>4, <1>5, <2>3, TypedAt DEF Right, Caught, Queues
    <3>2. D2 = D \cup (IF /\ d \in member[daemon_group] /\ n \in member[daemon_group]
                          /\ why[daemon_group] = "DOWN" THEN {n} ELSE {})
      BY Zenon, <1>6, <2>3
    <3>3. D \subseteq D2 /\ D2 \subseteq D \cup {n}
      BY Zenon, <3>2
    <3>4. \A x \in D2 : x \notin M2 /\ (x \in D \/ \A i \in DOMAIN q : ~Adds(d, c, q, x, i))
      <4>1. \A x \in D : x \notin M
        BY Zenon, RightFacts DEF Caught, Queues
      <4>2. \A i \in DOMAIN q : i # 0
        BY <3>1
      <4>3. \A i \in DOMAIN q : ~Adds(d, c, q, n, i)
        BY Zenon, <1>2, <4>2, SeenFacts
      <4> QED BY Zenon, <3>3, <4>1, <4>3
    <3>5. CASE d \in M /\ n \in M
      <4> DEFINE e == Change(M2, n, "DOWN")
      <4>1. confchg'[d][u] = Append(q, e)
        BY Zenon, <1>2, <1>4, <1>5, <2>3, <3>5
      <4>2. e \in ChangeType /\ e.reason = "DOWN" /\ e.node = n
        <5>1. M2 \in SUBSET Nodes
          BY Zenon, <1>1, <1>5, TypedAt
        <5> HIDE DEF M2
        <5> QED BY <1>1, <5>1, ChangeFacts
      <4>3. n \in D2
        <5>1. d \in member[daemon_group] /\ n \in member[daemon_group]
          BY Zenon, <3>5 DEF Caught, Running
        <5>2. why[daemon_group] = "DOWN"
          BY Zenon, <1>2, <3>5
        <5> QED BY Zenon, <3>2, <5>1, <5>2
      <4>4. \A x \in Nodes \ D2 : x \in M2 <=> x \in M
        BY Zenon, <4>3
      <4>5. d \in M2
        BY Zenon, <2>3, <3>5
      <4> HIDE DEF e, M, M2, D, D2, c, q
      <4>6. QueueOK(d, c, Append(q, e), M2, D2)
        BY Zenon, <3>1, <3>3, <3>4, <3>5, <4>2, <4>4, <4>5, AppendOK
      <4> QED BY Zenon, <2>1, <3>1, <4>1, <4>6, NewRight DEF D2
    <3>6. CASE ~(d \in M /\ n \in M)
      <4>1. confchg'[d][u] = q
        BY Zenon, <1>4, <1>5, <2>3, <3>6
      <4>2. (d \in M <=> d \in M2) /\ (d \in M => M = M2)
        BY Zenon, <2>3, <3>6
      <4> HIDE DEF M, M2, D, D2, c, q
      <4>3. QueueOK(d, c, q, M2, D2)
        BY Zenon, <3>1, <3>3, <3>4, <4>2, UnheardOK
      <4> QED BY Zenon, <2>1, <3>1, <4>1, <4>3, NewRight DEF D2
    <3> QED BY Zenon, <3>5, <3>6
  <2> QED BY Zenon, <2>2, <2>3
<1>8. Running' /\ NotLost'
  <2>1. \A d \in Nodes : state'[d] = IF d = n THEN "down" ELSE state[d]
    BY Zenon, <1>4
  <2>2. member'[daemon_group] = member[daemon_group] \ {n}
    BY Zenon, <1>4, GroupFacts
  <2>3. \A d \in Nodes : d \in member'[daemon_group] <=> state'[d] # "down"
    BY Zenon, <2>1, <2>2 DEF Caught, Running
  <2>4. \A u \in Uuids : member'[u] \subseteq member'[daemon_group]
    BY ZenonT(30), <1>4, <1>5, <2>2 DEF Caught, Running
  <2>5. ASSUME NEW d \in Nodes, state'[d] = "down", NEW g \in Groups
        PROVE  confchg'[d][g] = <<>> /\ cg'[d][g] = Closed
    <3>1. CASE d = n
      BY Zenon, <1>4, <3>1
    <3>2. CASE d # n
      <4>1. state[d] = "down"
        BY Zenon, <1>4, <2>5, <3>2
      <4>2. d \notin member[g]
        BY Zenon, <4>1, GroupFacts DEF Caught, Running
      <4>3. confchg[d][g] = <<>> /\ cg[d][g] = Closed
        BY Zenon, <4>1 DEF Caught, Running
      <4> QED BY Zenon, <1>4, <3>2, <4>2, <4>3
    <3> QED BY Zenon, <3>1, <3>2
  <2>6. \A d \in Nodes : state'[d] = "dying" => \A u \in Uuids : cg'[d][u].open => cg'[d][u].joined
    <3>1. \A d \in Nodes : state'[d] = "dying" => d # n /\ state[d] = "dying"
      BY Zenon, <2>1
    <3> QED BY Zenon, <1>4, <3>1 DEF Caught, Running
  <2>7. NotLost'
    BY Zenon, <2>1 DEF Caught, NotLost
  <2> QED BY Zenon, <2>3, <2>4, <2>5, <2>6, <2>7 DEF Running
<1> QED BY Zenon, <1>7, <1>8 DEF Caught, Queues

\* What keeps Base and Caught: joins and failures of a node are not both on their
\* way, and no daemon ends while it joins a group.
LEMMA CaughtStep ==
    ASSUME "late" \notin Faults, "stop" \notin Faults
    PROVE  Base /\ Caught /\ [Next]_vars => Caught'
<1> SUFFICES ASSUME Base, Caught, [Next]_vars PROVE Caught'
  BY Zenon
<1>1. CASE UNCHANGED vars
  BY Zenon, <1>1 DEF vars, Caught, Running, Queues, NotLost, Right
<1>2. ASSUME NEW d \in Nodes, setup_cpg(d)
      PROVE  Caught'
  BY Zenon, <1>2, SetupCaught
<1>3. ASSUME NEW d \in Nodes, NEW u \in Uuids, group_join(d, u)
      PROVE  Caught'
  BY Zenon, <1>3, JoinCaught
<1>4. ASSUME NEW d \in Nodes, NEW u \in Uuids, group_leave(d, u)
      PROVE  Caught'
  BY Zenon, <1>4, LeaveCaught
<1>5. ASSUME NEW d \in Nodes, node_down(d) \/ exit_cpg(d)
      PROVE  Caught'
  <2>1. PICK why : Gently(d, why)
    BY Zenon, <1>5, DropGently
  <2> QED BY Zenon, <2>1, DropCaught
<1>6. ASSUME NEW d \in Nodes, NEW g \in Groups, process_cpg(d, g)
      PROVE  Caught'
  <2>1. CASE g = daemon_group
    <3>1. process_cpg(d, daemon_group)
      BY Zenon, <1>6, <2>1
    <3> QED BY Zenon, <3>1, DaemonReadCaught
  <2>2. CASE g \in Uuids
    BY Zenon, <1>6, <2>2, GroupReadCaught
  <2> QED BY Zenon, <2>1, <2>2, GroupFacts
<1>7. ASSUME NEW d \in Nodes, poll(d)
      PROVE  Caught'
  <2>1. UNCHANGED <<state, member, confchg, cg>>
    BY Zenon, <1>7 DEF poll
  <2> QED BY Zenon, <2>1 DEF Caught, Running, Queues, NotLost, Right
<1>8. ASSUME NEW d \in Nodes, dead_dlmcontrol(d)
      PROVE  Caught'
  <2>1. /\ member' = member /\ confchg' = confchg /\ cg' = cg
        /\ state[d] = "up" /\ state' = [state EXCEPT ![d] = "dying"]
        /\ \A u \in Uuids : cg[d][u].open => cg[d][u].joined
    BY Zenon, <1>8 DEF dead_dlmcontrol
  <2>2. \A n \in Nodes : state'[n] = IF n = d THEN "dying" ELSE state[n]
    BY Zenon, <2>1 DEF Base, TypeOK
  <2>3. Queues'
    BY Zenon, <2>1, SameRight DEF Caught, Queues
  <2>4. NotLost'
    BY Zenon, <2>2 DEF Caught, NotLost
  <2>5. /\ \A n \in Nodes : state'[n] = "down" <=> state[n] = "down"
        /\ \A n \in Nodes : state'[n] = "dying" => n = d \/ state[n] = "dying"
    BY <2>1, <2>2
  <2>6. Running'
    BY Zenon, <2>1, <2>5 DEF Caught, Running
  <2> QED BY Zenon, <2>3, <2>4, <2>6 DEF Caught
<1> QED BY Zenon, <1>1, <1>2, <1>3, <1>4, <1>5, <1>6, <1>7, <1>8 DEF Next, Loop

\* With nothing left to read, the idea of the group is the group.
LEMMA CaughtEnough == Base /\ Caught => CaughtUp
<1> SUFFICES ASSUME Base, Caught PROVE CaughtUp
  BY Zenon
<1>1. ASSUME NEW d \in Nodes, NEW u \in Uuids, cg[d][u].joined,
             confchg[d][u] = <<>>, confchg[d][daemon_group] = <<>>
      PROVE  cg[d][u].nodes = member[u]
  <2> DEFINE c == cg[d][u]
             M == member[u]
  <2>1. c.nodes \subseteq Nodes /\ M \subseteq Nodes
    BY Zenon, GroupFacts, TypedAt DEF Base, CgType
  <2>2. QueueOK(d, c, <<>>, M, {})
    <3>1. Unread(<<>>) = {}
      BY DEF Unread
    <3> QED BY Zenon, <1>1, <3>1 DEF Caught, Queues, Right
  <2>3. c.open /\ d \in M
    BY Zenon, <1>1, <2>2 DEF QueueOK, Open
  <2>4. Len(<<>>) = 0
    BY Zenon
  <2> HIDE DEF c, M
  <2>5. \A n \in Nodes : Idea(d, c, <<>>, n, 0) <=> n \in M
    BY Zenon, <2>2, <2>3, <2>4 DEF QueueOK, Follows
  <2>6. \A n \in Nodes : n \in c.nodes <=> n \in M
    BY Zenon, <2>5, IdeaNow
  <2>7. c.nodes = M
    BY Zenon, <2>1, <2>6
  <2> QED BY Zenon, <2>7 DEF c, M
<1> QED BY Zenon, <1>1 DEF CaughtUp, Caught, NotLost

\* When a node's joins and failures are not both on their way and no daemon ends
\* while it joins a group, a daemon that has read everything has the group's members
\* in cg_nodes, and push_node() never finds the node it adds: for every number of
\* nodes and filesystems, and however the two connections interleave.
THEOREM NodesFollow ==
    ASSUME "late" \notin Faults, "stop" \notin Faults
    PROVE  Spec => []CaughtUp
<1>1. Init => Base /\ Caught
  BY Zenon, BaseInit, CaughtInit
<1>2. Base /\ Caught /\ [Next]_vars => (Base /\ Caught)'
  BY Zenon, BaseStep, CaughtStep
<1>3. Base /\ Caught => CaughtUp
  BY Zenon, CaughtEnough
<1> QED BY <1>1, <1>2, <1>3, PTL DEF Spec

=============================================================================
