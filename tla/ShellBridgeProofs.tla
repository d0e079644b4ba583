------------------------- MODULE ShellBridgeProofs -------------------------
(***************************************************************************)
(* Theorems about ShellBridge for any number of requests, connections and  *)
(* workspaces and any socket size.                                         *)
(*                                                                         *)
(* poll_ipc is one step made of loops, so the invariant is stated of the   *)
(* record s the loops pass on, not of the variables: Keeps(s, m, n) holds  *)
(* when m commands and n requests of the inbox have been handled.  It has  *)
(* three parts: Lawful (what is on its way to a picture was allowed),      *)
(* Follows (the newest event in flight to the shell names the workspace)   *)
(* and Safe (every request is in one place, and its connection is open as  *)
(* long as its portal waits).  Each operator of the model has a lemma that *)
(* says what it changes, each loop an induction over its passes, and each  *)
(* action a lemma that ends in BridgeInv'.                                 *)
(***************************************************************************)
EXTENDS ShellBridge, SequenceTheorems, LoopInduction, FiniteSetTheorems, TLAPS

-----------------------------------------------------------------------------
(* Each serves the members of the list one after the other. *)
LEMMA EachExists ==
    ASSUME NEW do, NEW s, NEW list, NEW n \in Nat
    PROVE  \E g : g = [k \in 0..n |-> IF k = 0 THEN s ELSE Serve(do, g[k-1], list[k])]
<1> DEFINE S == {m \in Nat : \E g :
                  g = [k \in 0..m |-> IF k = 0 THEN s ELSE Serve(do, g[k-1], list[k])]}
<1>1. 0 \in S
  <2> DEFINE g == [k \in 0..0 |-> s]
  <2>1. g = [k \in 0..0 |-> IF k = 0 THEN s ELSE Serve(do, g[k-1], list[k])]  OBVIOUS
  <2> QED  BY <2>1
<1>2. ASSUME NEW m \in 0..n-1, m \in S PROVE m+1 \in S
  <2>1. PICK g : g = [k \in 0..m |-> IF k = 0 THEN s ELSE Serve(do, g[k-1], list[k])]
    BY <1>2
  <2> DEFINE h == [k \in 0..m+1 |-> IF k = m+1 THEN Serve(do, g[m], list[m+1]) ELSE g[k]]
  <2>2. ASSUME NEW k \in 0..m+1
        PROVE  h[k] = IF k = 0 THEN s ELSE Serve(do, h[k-1], list[k])
    <3>1. CASE k = m+1  BY <3>1
    <3>2. CASE k \in 0..m /\ k # 0
      <4>1. k-1 \in 0..m /\ k-1 # m+1  BY <3>2
      <4>2. h[k] = g[k] /\ h[k-1] = g[k-1]  BY <3>2, <4>1
      <4>3. g[k] = Serve(do, g[k-1], list[k])  BY <2>1, <3>2
      <4> QED  BY <3>2, <4>2, <4>3
    <3>3. CASE k = 0  BY <2>1, <3>3
    <3> QED  BY <3>1, <3>2, <3>3
  <2>3. h = [k \in 0..m+1 |-> IF k = 0 THEN s ELSE Serve(do, h[k-1], list[k])]
    BY <2>2
  <2> HIDE DEF h
  <2> QED  BY <2>3
<1>3. \A k \in 0..n : k \in S
  <2> HIDE DEF S
  <2> QED  BY <1>1, <1>2, UpTo
<1> QED  BY <1>3

Passes(do, s, list, g) ==
    /\ g[0] = s
    /\ \A k \in 1..Len(list) : g[k] = Serve(do, g[k-1], list[k])
    /\ Each(do, s, list) = g[Len(list)]

LEMMA EachIs ==
    ASSUME NEW do, NEW s, NEW T, NEW list \in Seq(T)
    PROVE  \E g : Passes(do, s, list, g)
<1> DEFINE g == CHOOSE g : g = [k \in 0..Len(list) |->
                                   IF k = 0 THEN s ELSE Serve(do, g[k-1], list[k])]
<1>1. Len(list) \in Nat  OBVIOUS
<1>2. g = [k \in 0..Len(list) |-> IF k = 0 THEN s ELSE Serve(do, g[k-1], list[k])]
  BY <1>1, EachExists
<1>3. Each(do, s, list) = g[Len(list)]  BY DEF Each
<1> HIDE DEF g
<1>4. g[0] = s /\ \A k \in 1..Len(list) : g[k] = Serve(do, g[k-1], list[k])
  BY <1>1, <1>2
<1> QED  BY <1>3, <1>4 DEF Passes

(* Without leaves out the members of dead and keeps the others, each as     *)
(* often as before.                                                         *)
LEMMA WithoutExists ==
    ASSUME NEW list, NEW dead, NEW n \in Nat
    PROVE  \E g : g = [k \in 0..n |->
                          IF k = 0 THEN <<>> ELSE Kept(g[k-1], list[k], dead)]
<1> DEFINE S == {m \in Nat : \E g : g = [k \in 0..m |->
                          IF k = 0 THEN <<>> ELSE Kept(g[k-1], list[k], dead)]}
<1>1. 0 \in S
  <2> DEFINE g == [k \in 0..0 |-> <<>>]
  <2>1. g = [k \in 0..0 |-> IF k = 0 THEN <<>> ELSE Kept(g[k-1], list[k], dead)]  OBVIOUS
  <2> QED  BY <2>1
<1>2. ASSUME NEW m \in 0..n-1, m \in S PROVE m+1 \in S
  <2>1. PICK g : g = [k \in 0..m |-> IF k = 0 THEN <<>> ELSE Kept(g[k-1], list[k], dead)]  BY <1>2
  <2> DEFINE new == Kept(g[m], list[m+1], dead)
             h == [k \in 0..m+1 |-> IF k = m+1 THEN new ELSE g[k]]
  <2>2. ASSUME NEW k \in 0..m+1
        PROVE  h[k] = IF k = 0 THEN <<>> ELSE Kept(h[k-1], list[k], dead)
    <3>1. CASE k = m+1  BY <3>1
    <3>2. CASE k \in 0..m /\ k # 0
      <4>1. k-1 \in 0..m /\ k-1 # m+1  BY <3>2
      <4>2. h[k] = g[k] /\ h[k-1] = g[k-1]  BY <3>2, <4>1
      <4>3. g[k] = Kept(g[k-1], list[k], dead)  BY <2>1, <3>2
      <4> QED  BY <3>2, <4>2, <4>3
    <3>3. CASE k = 0  BY <2>1, <3>3
    <3> QED  BY <3>1, <3>2, <3>3
  <2>3. h = [k \in 0..m+1 |-> IF k = 0 THEN <<>> ELSE Kept(h[k-1], list[k], dead)]
    BY <2>2
  <2> HIDE DEF h
  <2> QED  BY <2>3
<1>3. n \in S
  <2> HIDE DEF S
  <2> QED  BY <1>1, <1>2, UpTo
<1> QED  BY <1>3

Once(list) == \A i, j \in 1..Len(list) : list[i] = list[j] => i = j

Has(list, x) == \E i \in 1..Len(list) : list[i] = x

LEMMA WithoutSteps ==
    ASSUME NEW T, NEW list \in Seq(T), NEW dead
    PROVE  \E g : /\ g[0] = <<>>
                  /\ \A k \in 1..Len(list) :
                        g[k] = Kept(g[k-1], list[k], dead)
                  /\ Without(list, dead) = g[Len(list)]
<1> DEFINE g == CHOOSE g : g = [k \in 0..Len(list) |->
                               IF k = 0 THEN <<>> ELSE Kept(g[k-1], list[k], dead)]
<1>1. Len(list) \in Nat  OBVIOUS
<1>2. g = [k \in 0..Len(list) |->
              IF k = 0 THEN <<>> ELSE Kept(g[k-1], list[k], dead)]
  BY <1>1, WithoutExists
<1>3. Without(list, dead) = g[Len(list)]  BY DEF Without
<1> HIDE DEF g
<1>4. g[0] = <<>> /\ \A k \in 1..Len(list) :
         g[k] = Kept(g[k-1], list[k], dead)
  BY <1>1, <1>2
<1> QED  BY <1>3, <1>4

LEMMA WithoutIs ==
    ASSUME NEW T, NEW list \in Seq(T), NEW dead
    PROVE  /\ Without(list, dead) \in Seq(T)
           /\ \A x : Has(Without(list, dead), x) <=> Has(list, x) /\ x \notin dead
           /\ Once(list) => Once(Without(list, dead))
<1>1. Len(list) \in Nat  OBVIOUS
<1>2. PICK g : /\ g[0] = <<>>
               /\ \A k \in 1..Len(list) :
                     g[k] = Kept(g[k-1], list[k], dead)
               /\ Without(list, dead) = g[Len(list)]
  BY WithoutSteps
<1> DEFINE Good(k) == /\ g[k] \in Seq(T)
                      /\ \A x : Has(g[k], x) <=> (\E i \in 1..k : list[i] = x) /\ x \notin dead
                      /\ Once(list) => Once(g[k])
           S == {k \in 0..Len(list) : Good(k)}
<1>4. 0 \in S
  <2>1. g[0] = <<>>  BY <1>2
  <2>2. Good(0)  BY <2>1 DEF Once, Has
  <2> QED  BY <1>1, <2>2
<1>5. ASSUME NEW k \in 0..Len(list)-1, k \in S PROVE k+1 \in S
  <2>1. k+1 \in 1..Len(list) /\ list[k+1] \in T  BY <1>1, <1>5
  <2>2. g[k+1] = Kept(g[k], list[k+1], dead)
    BY <1>1, <1>2, <2>1
  <2>3. Good(k)  BY <1>5
  <2>4. CASE list[k+1] \in dead
    <3>0. g[k+1] = g[k]  BY <2>2, <2>3, <2>4 DEF Kept
    <3>1. Good(k+1)  BY <2>1, <3>0, <2>3, <2>4
    <3> QED  BY <2>1, <3>1
  <2>5. CASE list[k+1] \notin dead
    <3>1. g[k+1] = Append(g[k], list[k+1])  BY <2>1, <2>2, <2>3, <2>5 DEF Kept
    <3>2. g[k+1] \in Seq(T)  BY <2>1, <2>3, <3>1
    <3>3. \A x : Has(g[k+1], x) <=> Has(g[k], x) \/ x = list[k+1]
      BY <2>1, <2>3, <3>1 DEF Has
    <3>4. \A x : Has(g[k+1], x) <=> (\E i \in 1..k+1 : list[i] = x) /\ x \notin dead
      BY <2>1, <2>3, <2>5, <3>3
    <3>5. ASSUME Once(list) PROVE Once(g[k+1])
      <4>1. Once(g[k])  BY <2>3, <3>5
      <4>2. ~ Has(g[k], list[k+1])
        BY <2>1, <2>3, <3>5 DEF Once
      <4> QED  BY <2>1, <2>3, <3>1, <4>1, <4>2 DEF Once, Has
    <3> QED  BY <2>1, <3>2, <3>4, <3>5
  <2> QED  BY <2>4, <2>5
<1>6. \A k \in 0..Len(list) : k \in S
  <2> HIDE DEF S
  <2> QED  BY <1>1, <1>4, <1>5, UpTo
<1>7. Len(list) \in S
  <2> HIDE DEF S
  <2> QED  BY <1>1, <1>6
<1>8. Good(Len(list))  BY <1>7
<1> QED  BY <1>2, <1>8 DEF Has

-----------------------------------------------------------------------------
(* The record of the compositor's state and the types of its fields.        *)

HeardSpace == [conn : Requests, line : Shot, trusted : BOOLEAN]
                \cup [conn : ShellConns, line : ShellLine, trusted : BOOLEAN]

ServerSpace == [clients : Seq(Conns), backlog : Seq(Conns), role : SUBSET ShellConns,
                up : UpSpace, down : [Conns -> Seq(Event)], cut : SUBSET Conns,
                torn : SUBSET Conns, consent : Seq(Requests), region : Seq(Requests),
                queue : Seq(Requests), workspace : Workspaces, told : SUBSET Conns,
                ignored : SUBSET Conns, grabbed : BOOLEAN, inbox : Seq(HeardSpace), sent : SUBSET Conns]

(* Only authenticated clients are told of the workspace.                    *)
Tell(s) == \A c \in s.told : c \in s.role /\ Has(s.clients, c)

Servers == { s \in ServerSpace : Tell(s) }

LEMMA RangeIs == ASSUME NEW T, NEW list \in Seq(T), NEW x PROVE x \in Range(list) <=> Has(list, x)
BY DEF Range, Has

LEMMA RetainIs ==
    ASSUME NEW s \in Servers, NEW dead \in SUBSET Conns
    PROVE  /\ Retain(s, dead) \in Servers
           /\ Retain(s, dead).role = s.role \ dead
           /\ Retain(s, dead).told = s.told \ dead
           /\ \A c : Has(Retain(s, dead).clients, c) <=> Has(s.clients, c) /\ c \notin dead
           /\ Retain(s, dead).backlog = s.backlog /\ Retain(s, dead).up = s.up
           /\ Retain(s, dead).down = s.down /\ Retain(s, dead).torn = s.torn
           /\ Retain(s, dead).consent = s.consent /\ Retain(s, dead).region = s.region
           /\ Retain(s, dead).queue = s.queue /\ Retain(s, dead).workspace = s.workspace
           /\ Retain(s, dead).ignored = s.ignored
           /\ Retain(s, dead).inbox = s.inbox /\ Retain(s, dead).sent = s.sent
<1> DEFINE list == Without(s.clients, dead)
           t == [s EXCEPT !.clients = list, !.role = @ \ dead, !.told = @ \ dead,
                          !.cut = @ \cup dead]
<1>0. s \in ServerSpace /\ Tell(s)  BY DEF Servers
<1>1. s.clients \in Seq(Conns)  BY <1>0 DEF ServerSpace
<1>2. list \in Seq(Conns) /\ \A c : Has(list, c) <=> Has(s.clients, c) /\ c \notin dead
  BY <1>1, WithoutIs
<1>3. Retain(s, dead) = t  BY DEF Retain
<1> HIDE DEF list
<1>4. t \in ServerSpace  BY <1>0, <1>2 DEF ServerSpace
<1>5. t.clients = list /\ t.role = s.role \ dead /\ t.told = s.told \ dead
  BY <1>0 DEF ServerSpace
<1>6. Tell(t)  BY <1>0, <1>2, <1>5 DEF Tell
<1>7. /\ t.backlog = s.backlog /\ t.up = s.up /\ t.down = s.down /\ t.torn = s.torn
      /\ t.consent = s.consent /\ t.region = s.region /\ t.queue = s.queue
      /\ t.workspace = s.workspace /\ t.ignored = s.ignored /\ t.inbox = s.inbox
      /\ t.sent = s.sent
  BY <1>0 DEF ServerSpace
<1> HIDE DEF t
<1> QED  BY <1>2, <1>3, <1>4, <1>5, <1>6, <1>7 DEF Servers

(* Broadcast writes to the authenticated clients, each of which is told or  *)
(* dropped.                                                                 *)
LEMMA BroadcastIs ==
    ASSUME NEW s \in Servers, NEW e \in Event
    PROVE  \E t \in Servers :
           /\ Broadcast(s, e) = t
           /\ t.role \subseteq s.role
           /\ \A r \in Requests : t.down[r] = s.down[r]
           /\ \A r \in Requests : Has(t.clients, r) <=> Has(s.clients, r)
           /\ \A c \in t.told : /\ t.down[c] = Append(s.down[c], e)
                                /\ c \in s.told \/ IsDesk(e)
           /\ t.backlog = s.backlog /\ t.up = s.up
           /\ t.consent = s.consent /\ t.region = s.region /\ t.queue = s.queue
           /\ t.workspace = s.workspace /\ t.ignored = s.ignored /\ t.inbox = s.inbox
<1> DEFINE targets == {c \in Range(s.clients) : c \in s.role}
           full    == {c \in targets : Len(s.down[c]) >= SockCap}
           failed  == (targets \cap gone) \cup full
           sent    == targets \ failed
           a       == Retain(s, failed)
           down1   == [c \in Conns |-> IF c \in sent THEN Append(a.down[c], e) ELSE a.down[c]]
           torn1   == a.torn \cup (full \ gone)
           told1   == IF IsDesk(e) THEN a.told \cup sent ELSE a.told
           t       == [a EXCEPT !.down = down1, !.torn = torn1, !.told = told1, !.sent = sent]
<1>0. s \in ServerSpace /\ Tell(s)  BY DEF Servers
<1>1. s.clients \in Seq(Conns) /\ s.role \in SUBSET ShellConns  BY <1>0 DEF ServerSpace
<1>2. Broadcast(s, e) = t  BY DEF Broadcast
<1>3. \A c : c \in targets <=> Has(s.clients, c) /\ c \in s.role  BY <1>1, RangeIs
<1>4. failed \in SUBSET Conns /\ sent \in SUBSET Conns /\ full \in SUBSET Conns
  BY <1>1 DEF Conns
<1>5. \A c \in s.told : c \in sent \/ c \in failed  BY <1>0, <1>3 DEF Tell
<1>6. \A c \in sent : c \in targets /\ c \notin failed  OBVIOUS
<1>7. \A c \in failed : c \in s.role  OBVIOUS
<1>8. \A r \in Requests : r \notin s.role  BY <1>1, BridgeAssumption
<1> HIDE DEF targets, full, failed, sent, a
<1>9. /\ a \in Servers
      /\ a.role = s.role \ failed /\ a.told = s.told \ failed
      /\ \A c : Has(a.clients, c) <=> Has(s.clients, c) /\ c \notin failed
      /\ a.backlog = s.backlog /\ a.up = s.up /\ a.down = s.down /\ a.torn = s.torn
      /\ a.consent = s.consent /\ a.region = s.region /\ a.queue = s.queue
      /\ a.workspace = s.workspace /\ a.ignored = s.ignored /\ a.inbox = s.inbox
  BY <1>4, RetainIs DEF a
<1>10. a \in ServerSpace  BY <1>9 DEF Servers
<1>11. a.down \in [Conns -> Seq(Event)] /\ a.torn \in SUBSET Conns /\ a.told \in SUBSET Conns
  BY <1>10 DEF ServerSpace
<1>12. down1 \in [Conns -> Seq(Event)]  BY <1>11
<1>13. torn1 \in SUBSET Conns /\ told1 \in SUBSET Conns  BY <1>4, <1>11
<1>14. /\ t.clients = a.clients /\ t.role = a.role /\ t.down = down1 /\ t.told = told1
       /\ t.backlog = a.backlog /\ t.up = a.up
       /\ t.consent = a.consent /\ t.region = a.region /\ t.queue = a.queue
       /\ t.workspace = a.workspace /\ t.ignored = a.ignored /\ t.inbox = a.inbox
  <2> HIDE DEF down1, torn1, told1
  <2> QED  BY <1>10 DEF ServerSpace
<1>15. t \in ServerSpace
  <2> HIDE DEF down1, torn1, told1
  <2> QED  BY <1>10, <1>12, <1>13, <1>4 DEF ServerSpace
<1>16. \A c \in told1 : c \in sent /\ (c \in s.told \/ IsDesk(e))  BY <1>5, <1>9
<1>17. \A c \in Conns : down1[c] = IF c \in sent THEN Append(s.down[c], e) ELSE s.down[c]
  BY <1>9
<1>18. told1 \subseteq Conns  BY <1>13
<1> HIDE DEF t, down1, torn1, told1
<1>19. Tell(t)  BY <1>3, <1>6, <1>9, <1>14, <1>16 DEF Tell
<1>20. t \in Servers  BY <1>15, <1>19 DEF Servers
<1>21. \A r \in Requests : t.down[r] = s.down[r]
  BY <1>3, <1>6, <1>8, <1>14, <1>17 DEF Conns
<1>22. \A r \in Requests : Has(t.clients, r) <=> Has(s.clients, r)
  BY <1>7, <1>8, <1>9, <1>14
<1>23. \A c \in t.told : t.down[c] = Append(s.down[c], e) /\ (c \in s.told \/ IsDesk(e))
  BY <1>14, <1>16, <1>17, <1>18
<1>24. t.role \subseteq s.role  BY <1>9, <1>14
<1> QED  BY <1>2, <1>9, <1>14, <1>20, <1>21, <1>22, <1>23, <1>24

LEMMA AnnounceIs ==
    ASSUME NEW s \in Servers
    PROVE  \E t \in Servers :
           /\ Announce(s) = t
           /\ t.role \subseteq s.role
           /\ \A r \in Requests : t.down[r] = s.down[r]
           /\ \A r \in Requests : Has(t.clients, r) <=> Has(s.clients, r)
           /\ \A c \in t.told : t.down[c] = Append(s.down[c], Desk(s.workspace))
           /\ t.backlog = s.backlog /\ t.up = s.up
           /\ t.consent = s.consent /\ t.region = s.region /\ t.queue = s.queue
           /\ t.workspace = s.workspace /\ t.inbox = s.inbox
<1>1. s.workspace \in Workspaces  BY DEF Servers, ServerSpace
<1>2. Desk(s.workspace) \in Event  BY <1>1 DEF Desk, Event
<1>3. PICK b \in Servers :
           /\ Broadcast(s, Desk(s.workspace)) = b
           /\ b.role \subseteq s.role
           /\ \A r \in Requests : b.down[r] = s.down[r]
           /\ \A r \in Requests : Has(b.clients, r) <=> Has(s.clients, r)
           /\ \A c \in b.told : b.down[c] = Append(s.down[c], Desk(s.workspace))
           /\ b.backlog = s.backlog /\ b.up = s.up
           /\ b.consent = s.consent /\ b.region = s.region /\ b.queue = s.queue
           /\ b.workspace = s.workspace /\ b.inbox = s.inbox
  BY <1>2, BroadcastIs
<1> DEFINE t == [b EXCEPT !.ignored = {}]
<1>4. b \in ServerSpace /\ Tell(b)  BY DEF Servers
<1>5. {} \in SUBSET Conns  OBVIOUS
<1>6. t \in ServerSpace  BY <1>4, <1>5 DEF ServerSpace
<1>7. /\ t.role = b.role /\ t.told = b.told /\ t.down = b.down /\ t.clients = b.clients
      /\ t.backlog = b.backlog /\ t.up = b.up
      /\ t.consent = b.consent /\ t.region = b.region /\ t.queue = b.queue
      /\ t.workspace = b.workspace /\ t.inbox = b.inbox
  BY <1>4 DEF ServerSpace
<1>8. Announce(s) = t  BY <1>3 DEF Announce
<1> HIDE DEF t
<1>9. t \in Servers  BY <1>4, <1>6, <1>7 DEF Servers, Tell
<1> QED  BY <1>3, <1>7, <1>8, <1>9

(* What a step of the compositor leaves alone unless it says otherwise.     *)
SameLists(s, t) == /\ t.consent = s.consent /\ t.region = s.region /\ t.queue = s.queue
SameInput(s, t) == /\ t.backlog = s.backlog /\ t.up = s.up /\ t.inbox = s.inbox
SameDown(s, t, r)  == t.down[r] = s.down[r]
SameConn(s, t, r)  == Has(t.clients, r) <=> Has(s.clients, r)

LEMMA RespondIs ==
    ASSUME NEW s \in Servers, NEW r \in Requests, NEW outcome \in {"success", "failed"}
    PROVE  \E t \in Servers :
           /\ Respond(s, r, outcome) = t
           /\ t.role = s.role /\ t.told = s.told
           /\ \A c \in Conns : c # r => SameDown(s, t, c) /\ SameConn(s, t, c)
           /\ Has(s.clients, r) /\ r \notin gone =>
                 SameConn(s, t, r) /\ t.down[r] = Append(s.down[r], Answer(outcome))
           /\ ~ (Has(s.clients, r) /\ r \notin gone) => SameDown(s, t, r)
           /\ SameInput(s, t) /\ SameLists(s, t) /\ t.workspace = s.workspace
           /\ t.ignored = s.ignored
<1>0. s \in ServerSpace /\ Tell(s)  BY DEF Servers
<1>1. s.clients \in Seq(Conns) /\ s.role \in SUBSET ShellConns /\ s.down \in [Conns -> Seq(Event)]
  BY <1>0 DEF ServerSpace
<1>2. r \in Conns /\ r \notin s.role  BY <1>1, BridgeAssumption DEF Conns
<1>3. r \notin s.told  BY <1>0, <1>2 DEF Tell
<1>4. r \in Range(s.clients) <=> Has(s.clients, r)  BY <1>1, RangeIs
<1>5. CASE ~ Has(s.clients, r)
  <2>1. Respond(s, r, outcome) = s  BY <1>4, <1>5 DEF Respond
  <2> QED  BY <1>5, <2>1 DEF SameDown, SameConn, SameInput, SameLists
<1>6. CASE Has(s.clients, r) /\ r \in gone
  <2> DEFINE t == Retain(s, {r})
  <2>1. Respond(s, r, outcome) = t  BY <1>4, <1>6 DEF Respond
  <2>2. PICK dead \in SUBSET Conns : dead = {r}  BY <1>2
  <2>3. /\ t \in Servers
        /\ t.role = s.role \ dead /\ t.told = s.told \ dead
        /\ \A c : Has(t.clients, c) <=> Has(s.clients, c) /\ c \notin dead
        /\ t.backlog = s.backlog /\ t.up = s.up /\ t.down = s.down
        /\ t.consent = s.consent /\ t.region = s.region /\ t.queue = s.queue
        /\ t.workspace = s.workspace /\ t.ignored = s.ignored /\ t.inbox = s.inbox
    BY <2>2, RetainIs
  <2> HIDE DEF t
  <2>4. t.role = s.role /\ t.told = s.told  BY <1>2, <1>3, <2>2, <2>3
  <2> QED  BY <1>6, <2>1, <2>2, <2>3, <2>4 DEF SameDown, SameConn, SameInput, SameLists
<1>7. CASE Has(s.clients, r) /\ r \notin gone
  <2> DEFINE new == Append(s.down[r], Answer(outcome))
             down1 == [s.down EXCEPT ![r] = new]
             t == [s EXCEPT !.down = down1]
  <2>1. Answer(outcome) \in Event  BY DEF Answer, Event
  <2>2. new \in Seq(Event)  BY <1>1, <1>2, <2>1
  <2> HIDE DEF new
  <2>3. [s EXCEPT !.down[r] = new] = t  BY <1>0 DEF ServerSpace
  <2>4. Respond(s, r, outcome) = [s EXCEPT !.down[r] = new]
    BY <1>4, <1>7 DEF Respond, new
  <2>5. down1 \in [Conns -> Seq(Event)]  BY <1>1, <2>2
  <2>6. \A c \in Conns : down1[c] = IF c = r THEN new ELSE s.down[c]  BY <1>1
  <2> HIDE DEF down1
  <2>7. t \in ServerSpace  BY <1>0, <2>5 DEF ServerSpace
  <2>8. /\ t.down = down1 /\ t.clients = s.clients
        /\ t.role = s.role /\ t.told = s.told
        /\ t.backlog = s.backlog /\ t.up = s.up
        /\ t.consent = s.consent /\ t.region = s.region /\ t.queue = s.queue
        /\ t.workspace = s.workspace /\ t.ignored = s.ignored /\ t.inbox = s.inbox
    BY <1>0 DEF ServerSpace
  <2> HIDE DEF t
  <2>9. t \in Servers  BY <1>0, <2>7, <2>8 DEF Servers, Tell
  <2>10. t.down[r] = new  BY <1>2, <2>6, <2>8
  <2>11. \A c \in Conns : c # r => SameDown(s, t, c) /\ SameConn(s, t, c)
    BY <2>6, <2>8 DEF SameDown, SameConn
  <2>12. t.down[r] = Append(s.down[r], Answer(outcome))  BY <2>10 DEF new
  <2>13. Respond(s, r, outcome) = t  BY <2>3, <2>4
  <2> QED  BY <1>7, <2>8, <2>9, <2>11, <2>12, <2>13 DEF SameConn, SameInput, SameLists
<1> QED  BY <1>5, <1>6, <1>7

LEMMA ConcatHas ==
    ASSUME NEW T, NEW a \in Seq(T), NEW b \in Seq(T)
    PROVE  \A x : Has(a \o b, x) <=> Has(a, x) \/ Has(b, x)
<1> DEFINE list == a \o b
<1>1. /\ Len(list) = Len(a) + Len(b) /\ Len(a) \in Nat /\ Len(b) \in Nat
      /\ \A i \in 1..Len(a) : list[i] = a[i]
      /\ \A i \in 1..Len(b) : list[Len(a) + i] = b[i]
  BY ConcatProperties
<1> HIDE DEF list
<1> TAKE x
<1>2. ASSUME Has(a, x) PROVE Has(list, x)
  <2>1. PICK i \in 1..Len(a) : a[i] = x  BY <1>2 DEF Has
  <2>2. i \in 1..Len(list)  BY <1>1
  <2> QED  BY <1>1, <2>1, <2>2 DEF Has
<1>3. ASSUME Has(b, x) PROVE Has(list, x)
  <2>1. PICK i \in 1..Len(b) : b[i] = x  BY <1>3 DEF Has
  <2>2. Len(a) + i \in 1..Len(list)  BY <1>1
  <2> QED  BY <1>1, <2>1, <2>2 DEF Has
<1>4. ASSUME Has(list, x), ~ Has(a, x) PROVE Has(b, x)
  <2>1. PICK i \in 1..Len(list) : list[i] = x  BY <1>4 DEF Has
  <2>2. i \notin 1..Len(a)  BY <1>1, <1>4, <2>1 DEF Has
  <2>3. i - Len(a) \in 1..Len(b) /\ i = Len(a) + (i - Len(a))  BY <1>1, <2>1, <2>2
  <2> QED  BY <1>1, <2>1, <2>3 DEF Has
<1> QED  BY <1>2, <1>3, <1>4 DEF list

LEMMA AcceptIs ==
    ASSUME NEW s \in Servers
    PROVE  \E t \in Servers :
           /\ AcceptAll(s) = t
           /\ t.role = s.role /\ t.told = s.told
           /\ \A c : Has(t.clients, c) <=> Has(s.clients, c) \/ Has(s.backlog, c)
           /\ t.backlog = <<>> /\ t.up = s.up /\ t.inbox = s.inbox /\ t.down = s.down
           /\ SameLists(s, t) /\ t.workspace = s.workspace /\ t.ignored = s.ignored
<1> DEFINE list == s.clients \o s.backlog
           t == [s EXCEPT !.clients = list, !.backlog = <<>>]
<1>0. s \in ServerSpace /\ Tell(s)  BY DEF Servers
<1>1. s.clients \in Seq(Conns) /\ s.backlog \in Seq(Conns)  BY <1>0 DEF ServerSpace
<1>2. list \in Seq(Conns)  BY <1>1
<1>3. \A c : Has(list, c) <=> Has(s.clients, c) \/ Has(s.backlog, c)
  BY <1>1, ConcatHas
<1>4. AcceptAll(s) = t  BY DEF AcceptAll
<1>5. <<>> \in Seq(Conns)  OBVIOUS
<1> HIDE DEF list
<1>6. t \in ServerSpace  BY <1>0, <1>2, <1>5 DEF ServerSpace
<1>7. /\ t.down = s.down /\ t.clients = list /\ t.backlog = <<>>
      /\ t.role = s.role /\ t.told = s.told /\ t.up = s.up
      /\ t.consent = s.consent /\ t.region = s.region /\ t.queue = s.queue
      /\ t.workspace = s.workspace /\ t.ignored = s.ignored /\ t.inbox = s.inbox
  BY <1>0 DEF ServerSpace
<1> HIDE DEF t
<1>8. t \in Servers  BY <1>0, <1>3, <1>6, <1>7 DEF Servers, Tell
<1> QED  BY <1>3, <1>4, <1>7, <1>8 DEF SameLists

LEMMA LineKinds ==
    /\ \A x \in Shot : x.kind = "screenshot" /\ x.msg \in Messages
    /\ \A x \in ShellLine :
          /\ x.kind \in {"authenticate", "consent", "region", "switch"}
          /\ x.kind \in {"consent", "region"} => x.req \in Requests /\ x.yes \in BOOLEAN
          /\ x.kind = "switch" => x.req \in Workspaces
    /\ Token.kind = "authenticate"
<1>1. \A x \in Shot : x.kind = "screenshot" /\ x.msg \in Messages
  BY DEF Shot, Screenshot
<1>2. Token.kind = "authenticate"  BY DEF Token
<1>3. \A x \in ShellLine :
          /\ x.kind \in {"authenticate", "consent", "region", "switch"}
          /\ x.kind \in {"consent", "region"} => x.req \in Requests /\ x.yes \in BOOLEAN
          /\ x.kind = "switch" => x.req \in Workspaces
  <2> TAKE x \in ShellLine
  <2>1. CASE x = Token  BY <1>2, <2>1
  <2>2. CASE x # Token  BY <2>2 DEF ShellLine
  <2> QED  BY <2>1, <2>2
<1> QED  BY <1>1, <1>2, <1>3

(* A client is read to the end: its lines join the inbox in their order.    *)
ReadInto(s, c, t, new) ==
    /\ s.role \subseteq t.role /\ t.told = s.told
    /\ t.clients = s.clients /\ t.backlog = s.backlog /\ t.down = s.down
    /\ t.up[c] = <<>> /\ \A d \in Conns : d # c => t.up[d] = s.up[d]
    /\ t.inbox = s.inbox \o new /\ Len(new) = Len(s.up[c])
    /\ \A i \in 1..Len(new) : /\ new[i].conn = c /\ new[i].line = s.up[c][i]
                              /\ c \in s.role => new[i].trusted
    /\ SameLists(s, t) /\ t.workspace = s.workspace /\ t.ignored = s.ignored

LEMMA ReadIs ==
    ASSUME NEW s \in Servers, NEW c \in Conns
    PROVE  \E t \in Servers : \E new \in Seq(HeardSpace) :
              ReadClient(s, c) = t /\ ReadInto(s, c, t, new)
<1> DEFINE lines == s.up[c]
           trusted(i) == c \in s.role \/ \E j \in 1..i-1 : lines[j] = Token
           new == [i \in 1..Len(lines) |->
                      [conn |-> c, line |-> lines[i], trusted |-> trusted(i)]]
           role1 == IF Token \in Range(lines) THEN s.role \cup {c} ELSE s.role
           inbox1 == s.inbox \o new
           up1 == [s.up EXCEPT ![c] = <<>>]
           t == [s EXCEPT !.up = up1, !.role = role1, !.inbox = inbox1]
<1>0. s \in ServerSpace /\ Tell(s)  BY DEF Servers
<1>1. /\ s.up \in UpSpace /\ s.role \in SUBSET ShellConns /\ s.inbox \in Seq(HeardSpace)
      /\ s.clients \in Seq(Conns)
  BY <1>0 DEF ServerSpace
<1>2. /\ s.up \in [Conns -> Seq(Shot \cup ShellLine)]
      /\ \A r \in Requests : s.up[r] \in Seq(Shot)
      /\ \A k \in ShellConns : s.up[k] \in Seq(ShellLine)
  BY <1>1 DEF UpSpace
<1>3. lines \in Seq(Shot \cup ShellLine)  BY <1>2
<1>4. c \in ShellConns \/ (c \in Requests /\ ~ Token \in Range(lines))
  <2>1. CASE c \in Requests
    <3>1. lines \in Seq(Shot)  BY <1>2, <2>1
    <3>2. \A i \in 1..Len(lines) : lines[i] # Token  BY <3>1, LineKinds
    <3> HIDE DEF lines
    <3> QED  BY <2>1, <3>1, <3>2, RangeIs DEF Has
  <2> QED  BY <2>1 DEF Conns
<1>5. Len(lines) \in Nat  BY <1>3
<1>6. \A i \in 1..Len(lines) :
         [conn |-> c, line |-> lines[i], trusted |-> trusted(i)] \in HeardSpace
  <2> TAKE i \in 1..Len(lines)
  <2>0. trusted(i) \in BOOLEAN  OBVIOUS
  <2>1. \/ c \in Requests /\ lines[i] \in Shot
        \/ c \in ShellConns /\ lines[i] \in ShellLine
    BY <1>2, <1>4
  <2> HIDE DEF lines, trusted
  <2> QED  BY <2>0, <2>1 DEF HeardSpace
<1>7. new \in Seq(HeardSpace) /\ Len(new) = Len(lines)
  <2>1. new \in [1..Len(lines) -> HeardSpace]  BY <1>6
  <2> HIDE DEF new, lines
  <2> QED  BY <1>5, <2>1
<1>8. \A i \in 1..Len(new) : /\ new[i].conn = c /\ new[i].line = lines[i]
                             /\ c \in s.role => new[i].trusted
  BY <1>7
<1>9. inbox1 \in Seq(HeardSpace)
  <2> HIDE DEF new
  <2> QED  BY <1>1, <1>7
<1>10. role1 \in SUBSET ShellConns /\ s.role \subseteq role1  BY <1>1, <1>4
<1>11. up1 \in UpSpace
  <2>1. up1 \in [Conns -> Seq(Shot \cup ShellLine)]  BY <1>2
  <2>2. \A r \in Requests : up1[r] \in Seq(Shot)  BY <1>2 DEF Conns
  <2>3. \A k \in ShellConns : up1[k] \in Seq(ShellLine)  BY <1>2 DEF Conns
  <2> HIDE DEF up1
  <2> QED  BY <2>1, <2>2, <2>3 DEF UpSpace
<1>12. up1[c] = <<>> /\ \A d \in Conns : d # c => up1[d] = s.up[d]  BY <1>2
<1>13. ReadClient(s, c) = t
  <2>1. ReadClient(s, c) = [s EXCEPT !.up[c] = <<>>, !.role = role1, !.inbox = inbox1]
    BY DEF ReadClient
  <2> HIDE DEF role1, inbox1
  <2>2. [s EXCEPT !.up[c] = <<>>, !.role = role1, !.inbox = inbox1] = t
    BY <1>0 DEF ServerSpace
  <2> QED  BY <2>1, <2>2
<1> HIDE DEF up1, role1, inbox1
<1>14. t \in ServerSpace  BY <1>0, <1>9, <1>10, <1>11 DEF ServerSpace
<1>15. /\ t.down = s.down /\ t.clients = s.clients /\ t.backlog = s.backlog
       /\ t.role = role1 /\ t.told = s.told /\ t.up = up1
       /\ t.consent = s.consent /\ t.region = s.region /\ t.queue = s.queue
       /\ t.workspace = s.workspace /\ t.ignored = s.ignored /\ t.inbox = inbox1
  BY <1>0 DEF ServerSpace
<1> HIDE DEF t, new
<1>16. t \in Servers  BY <1>0, <1>10, <1>14, <1>15 DEF Servers, Tell
<1>17. t.inbox = s.inbox \o new  BY <1>15 DEF inbox1
<1>18. ReadInto(s, c, t, new)
  BY <1>7, <1>8, <1>10, <1>12, <1>15, <1>17 DEF ReadInto, SameLists
<1> QED  BY <1>7, <1>13, <1>16, <1>18

(* A change of the workspace is announced.                                  *)
LEMMA SwitchIs ==
    ASSUME NEW s \in Servers, NEW w \in Workspaces, ~ s.grabbed \/ w = s.workspace
    PROVE  \E t \in Servers :
           /\ SwitchTo(s, w) = t
           /\ t.role \subseteq s.role
           /\ \A r \in Requests : SameDown(s, t, r) /\ SameConn(s, t, r)
           /\ \A c \in t.told : \/ t.down[c] = Append(s.down[c], Desk(w))
                                \/ w = s.workspace /\ c \in s.told /\ SameDown(s, t, c) /\ t.ignored = s.ignored
           /\ SameInput(s, t) /\ SameLists(s, t) /\ t.workspace = w
<1>1. CASE w = s.workspace
  <2>1. SwitchTo(s, w) = s  BY <1>1 DEF SwitchTo
  <2> QED  BY <1>1, <2>1 DEF SameDown, SameConn, SameInput, SameLists
<1>2. CASE w # s.workspace
  <2> DEFINE a == [s EXCEPT !.workspace = w]
  <2>0. s \in ServerSpace /\ Tell(s)  BY DEF Servers
  <2>1. SwitchTo(s, w) = Announce(a)  BY <1>2 DEF SwitchTo
  <2>2. a \in ServerSpace  BY <2>0 DEF ServerSpace
  <2>3. /\ a.down = s.down /\ a.clients = s.clients /\ a.backlog = s.backlog
        /\ a.role = s.role /\ a.told = s.told /\ a.up = s.up
        /\ a.consent = s.consent /\ a.region = s.region /\ a.queue = s.queue
        /\ a.workspace = w /\ a.inbox = s.inbox
    BY <2>0 DEF ServerSpace
  <2> HIDE DEF a
  <2>4. a \in Servers  BY <2>0, <2>2, <2>3 DEF Servers, Tell
  <2>5. PICK t \in Servers :
           /\ Announce(a) = t
           /\ t.role \subseteq a.role
           /\ \A r \in Requests : t.down[r] = a.down[r]
           /\ \A r \in Requests : Has(t.clients, r) <=> Has(a.clients, r)
           /\ \A c \in t.told : t.down[c] = Append(a.down[c], Desk(a.workspace))
           /\ t.backlog = a.backlog /\ t.up = a.up
           /\ t.consent = a.consent /\ t.region = a.region /\ t.queue = a.queue
           /\ t.workspace = a.workspace /\ t.inbox = a.inbox
    BY <2>4, AnnounceIs
  <2> QED  BY <2>1, <2>3, <2>5 DEF SameDown, SameConn, SameInput, SameLists
<1> QED  BY <1>1, <1>2

(* The lists of requests an answer of the user is awaited for.              *)
Held == {"consent", "region"}

LEMMA SetList ==
    ASSUME NEW s \in Servers, NEW list \in Held, NEW v \in Seq(Requests)
    PROVE  \E t \in Servers :
           /\ [s EXCEPT ![list] = v] = t
           /\ t[list] = v /\ \A l \in Held : l # list => t[l] = s[l]
           /\ t.queue = s.queue /\ t.role = s.role /\ t.told = s.told
           /\ t.down = s.down /\ t.clients = s.clients
           /\ SameInput(s, t) /\ t.workspace = s.workspace /\ t.ignored = s.ignored
<1> DEFINE t == [s EXCEPT ![list] = v]
<1>0. s \in ServerSpace /\ Tell(s)  BY DEF Servers
<1>1. t \in ServerSpace  BY <1>0 DEF ServerSpace, Held
<1>2. /\ t.queue = s.queue /\ t.role = s.role /\ t.told = s.told
      /\ t.down = s.down /\ t.clients = s.clients
      /\ t.backlog = s.backlog /\ t.up = s.up /\ t.inbox = s.inbox
      /\ t.workspace = s.workspace /\ t.ignored = s.ignored
  BY <1>0 DEF ServerSpace, Held
<1>3. t[list] = v /\ \A l \in Held : l # list => t[l] = s[l]
  BY <1>0 DEF ServerSpace, Held
<1> HIDE DEF t
<1>4. t \in Servers  BY <1>0, <1>1, <1>2 DEF Servers, Tell
<1> QED  BY <1>2, <1>3, <1>4 DEF SameInput, t

LEMMA SetQueue ==
    ASSUME NEW s \in Servers, NEW v \in Seq(Requests)
    PROVE  \E t \in Servers :
           /\ [s EXCEPT !.queue = v] = t
           /\ t.queue = v /\ \A l \in Held : t[l] = s[l]
           /\ t.role = s.role /\ t.told = s.told
           /\ t.down = s.down /\ t.clients = s.clients
           /\ SameInput(s, t) /\ t.workspace = s.workspace /\ t.ignored = s.ignored
<1> DEFINE t == [s EXCEPT !.queue = v]
<1>0. s \in ServerSpace /\ Tell(s)  BY DEF Servers
<1>1. t \in ServerSpace  BY <1>0 DEF ServerSpace
<1>2. /\ t.role = s.role /\ t.told = s.told
      /\ t.down = s.down /\ t.clients = s.clients
      /\ t.backlog = s.backlog /\ t.up = s.up /\ t.inbox = s.inbox
      /\ t.workspace = s.workspace /\ t.ignored = s.ignored
  BY <1>0 DEF ServerSpace
<1>3. t.queue = v /\ \A l \in Held : t[l] = s[l]
  BY <1>0 DEF ServerSpace, Held
<1> HIDE DEF t
<1>4. t \in Servers  BY <1>0, <1>1, <1>2 DEF Servers, Tell
<1> QED  BY <1>2, <1>3, <1>4 DEF SameInput, t

LEMMA ListTypes ==
    ASSUME NEW s \in Servers
    PROVE  /\ s.queue \in Seq(Requests) /\ \A l \in Held : s[l] \in Seq(Requests)
           /\ s.consent = s["consent"] /\ s.region = s["region"]
           /\ s.clients \in Seq(Conns) /\ s.backlog \in Seq(Conns)
           /\ s.down \in [Conns -> Seq(Event)] /\ s.inbox \in Seq(HeardSpace)
           /\ s.role \in SUBSET ShellConns /\ s.told \in SUBSET s.role
           /\ s.workspace \in Workspaces
           /\ s.up \in [Conns -> Seq(Shot \cup ShellLine)]
           /\ \A r \in Requests : s.up[r] \in Seq(Shot)
           /\ \A k \in ShellConns : s.up[k] \in Seq(ShellLine)
<1>0. s \in ServerSpace /\ Tell(s)  BY DEF Servers
<1>1. s.up \in UpSpace  BY <1>0 DEF ServerSpace
<1>2. s.told \in SUBSET s.role  BY <1>0 DEF Tell
<1>3. /\ s.queue \in Seq(Requests) /\ \A l \in Held : s[l] \in Seq(Requests)
      /\ s.clients \in Seq(Conns) /\ s.backlog \in Seq(Conns)
      /\ s.down \in [Conns -> Seq(Event)] /\ s.inbox \in Seq(HeardSpace)
      /\ s.role \in SUBSET ShellConns /\ s.workspace \in Workspaces
  BY <1>0 DEF ServerSpace, Held
<1> QED  BY <1>1, <1>2, <1>3 DEF UpSpace

(* The outcome of a request is sent: its connection gets it if it is there. *)
Answered(s, t, r, outcome) ==
    /\ \A q \in Requests : q # r => SameDown(s, t, q) /\ SameConn(s, t, q)
    /\ Has(s.clients, r) /\ r \notin gone =>
          SameConn(s, t, r) /\ t.down[r] = Append(s.down[r], Answer(outcome))
    /\ ~ (Has(s.clients, r) /\ r \notin gone) => SameDown(s, t, r)

(* An answer of the user takes the request it names off the list, if it is  *)
(* there.                                                                   *)
LEMMA ResolveIs ==
    ASSUME NEW s \in Servers, NEW list \in Held, NEW r \in Requests, NEW yes \in BOOLEAN,
           Has(s[list], r)
    PROVE  \E t \in Servers :
           /\ Resolve(s, list, r, yes) = t
           /\ t.role = s.role /\ t.told = s.told /\ \A c \in t.told : SameDown(s, t, c)
           /\ \A l \in Held : l # list => t[l] = s[l]
           /\ \A x : Has(t[list], x) <=> Has(s[list], x) /\ x # r
           /\ Once(s[list]) => Once(t[list])
           /\ IF yes
              THEN /\ t.queue = Append(s.queue, r)
                   /\ \A q \in Requests : SameDown(s, t, q) /\ SameConn(s, t, q)
              ELSE t.queue = s.queue /\ Answered(s, t, r, "failed")
           /\ SameInput(s, t) /\ t.workspace = s.workspace /\ t.ignored = s.ignored
<1> DEFINE v == Without(s[list], {r})
<1>1. s[list] \in Seq(Requests) /\ s.queue \in Seq(Requests)  BY ListTypes
<1>2. /\ v \in Seq(Requests)
      /\ \A x : Has(v, x) <=> Has(s[list], x) /\ x \notin {r}
      /\ Once(s[list]) => Once(v)
  BY <1>1, WithoutIs
<1>3. r \in Range(s[list])  BY <1>1, RangeIs
<1>4. r \notin s.role /\ r \notin s.told /\ s.told \subseteq Conns
  BY ListTypes, BridgeAssumption DEF Conns
<1> HIDE DEF v
<1>5. PICK a \in Servers :
         /\ [s EXCEPT ![list] = v] = a
         /\ a[list] = v /\ \A l \in Held : l # list => a[l] = s[l]
         /\ a.queue = s.queue /\ a.role = s.role /\ a.told = s.told
         /\ a.down = s.down /\ a.clients = s.clients
         /\ SameInput(s, a) /\ a.workspace = s.workspace /\ a.ignored = s.ignored
  BY <1>2, SetList
<1>6. /\ \A x : Has(a[list], x) <=> Has(s[list], x) /\ x # r
      /\ Once(s[list]) => Once(a[list])
  BY <1>2, <1>5
<1>7. Resolve(s, list, r, yes) =
         IF yes THEN [a EXCEPT !.queue = Append(@, r)] ELSE Respond(a, r, "failed")
  BY <1>3, <1>5 DEF Resolve, v
<1>8. CASE yes
  <2> DEFINE longer == Append(s.queue, r)
  <2>1. longer \in Seq(Requests)  BY <1>1
  <2>2. Resolve(s, list, r, yes) = [a EXCEPT !.queue = longer]  BY <1>5, <1>7, <1>8
  <2> HIDE DEF longer
  <2>3. PICK t \in Servers :
           /\ [a EXCEPT !.queue = longer] = t
           /\ t.queue = longer /\ \A l \in Held : t[l] = a[l]
           /\ t.role = a.role /\ t.told = a.told
           /\ t.down = a.down /\ t.clients = a.clients
           /\ SameInput(a, t) /\ t.workspace = a.workspace /\ t.ignored = a.ignored
    BY <2>1, SetQueue
  <2>4. SameInput(s, t)  BY <1>5, <2>3 DEF SameInput
  <2>5. t.queue = Append(s.queue, r)  BY <2>3 DEF longer
  <2>6. \A c : SameDown(s, t, c) /\ SameConn(s, t, c)  BY <1>5, <2>3 DEF SameDown, SameConn
  <2>7. /\ t.role = s.role /\ t.told = s.told /\ t.workspace = s.workspace
        /\ t.ignored = s.ignored
        /\ t[list] = a[list] /\ \A l \in Held : l # list => t[l] = s[l]
    BY <1>5, <2>3
  <2>8. /\ \A x : Has(t[list], x) <=> Has(s[list], x) /\ x # r
        /\ Once(s[list]) => Once(t[list])
    BY <1>6, <2>7
  <2>9. Resolve(s, list, r, yes) = t  BY <2>2, <2>3
  <2> HIDE DEF v, longer
  <2> QED  BY <1>8, <2>4, <2>5, <2>6, <2>7, <2>8, <2>9
<1>9. CASE ~ yes
  <2>1. PICK t \in Servers :
           /\ Respond(a, r, "failed") = t
           /\ t.role = a.role /\ t.told = a.told
           /\ \A c \in Conns : c # r => SameDown(a, t, c) /\ SameConn(a, t, c)
           /\ Has(a.clients, r) /\ r \notin gone =>
                 SameConn(a, t, r) /\ t.down[r] = Append(a.down[r], Answer("failed"))
           /\ ~ (Has(a.clients, r) /\ r \notin gone) => SameDown(a, t, r)
           /\ SameInput(a, t) /\ SameLists(a, t) /\ t.workspace = a.workspace
           /\ t.ignored = a.ignored
    BY RespondIs
  <2>2. SameInput(s, t)  BY <1>5, <2>1 DEF SameInput
  <2>3. /\ \A c \in Conns : c # r => SameDown(s, t, c) /\ SameConn(s, t, c)
        /\ Has(s.clients, r) /\ r \notin gone =>
              SameConn(s, t, r) /\ t.down[r] = Append(s.down[r], Answer("failed"))
        /\ ~ (Has(s.clients, r) /\ r \notin gone) => SameDown(s, t, r)
    BY <1>5, <2>1 DEF SameDown, SameConn
  <2>4. Answered(s, t, r, "failed")  BY <2>3 DEF Answered, Conns
  <2>5. \A c \in t.told : SameDown(s, t, c)  BY <1>4, <1>5, <2>1, <2>3
  <2>6. t.queue = a.queue /\ \A l \in Held : t[l] = a[l]
    BY <2>1, ListTypes DEF SameLists, Held
  <2> QED  BY <1>5, <1>6, <1>7, <1>9, <2>1, <2>2, <2>4, <2>5, <2>6
<1> QED  BY <1>8, <1>9

LEMMA ResolveNot ==
    ASSUME NEW s \in Servers, NEW list \in Held, NEW r, NEW yes, ~ Has(s[list], r)
    PROVE  Resolve(s, list, r, yes) = s
<1>1. s[list] \in Seq(Requests)  BY ListTypes
<1>2. r \notin Range(s[list])  BY <1>1, RangeIs
<1> QED  BY <1>2 DEF Resolve

(* Ask holds a request and asks the shell, or fails it when nobody is there. *)
LEMMA AskIs ==
    ASSUME NEW s \in Servers, NEW list \in Held, NEW r \in Requests
    PROVE  \E t \in Servers :
           /\ Ask(s, list, r) = t
           /\ t.role \subseteq s.role
           /\ \A c \in t.told : /\ t.down[c] = Append(s.down[c], Question(list, r))
                                /\ c \in s.told
           /\ \A l \in Held : l # list => t[l] = s[l]
           /\ t.queue = s.queue
           /\ \/ /\ t[list] = Append(s[list], r)
                 /\ \A q \in Requests : SameDown(s, t, q) /\ SameConn(s, t, q)
              \/ t[list] = s[list] /\ Answered(s, t, r, "failed")
           /\ SameInput(s, t) /\ t.workspace = s.workspace /\ t.ignored = s.ignored
<1> DEFINE longer == Append(s[list], r)
           e == Question(list, r)
<1>1. s[list] \in Seq(Requests)  BY ListTypes
<1>2. /\ longer \in Seq(Requests) /\ Front(longer) = s[list] /\ Last(longer) = r
  BY <1>1 DEF Front, Last
<1>3. e \in Event /\ ~ IsDesk(e)  BY DEF Question, Event, IsDesk, Held
<1> HIDE DEF longer, e
<1>4. PICK a \in Servers :
         /\ [s EXCEPT ![list] = longer] = a
         /\ a[list] = longer /\ \A l \in Held : l # list => a[l] = s[l]
         /\ a.queue = s.queue /\ a.role = s.role /\ a.told = s.told
         /\ a.down = s.down /\ a.clients = s.clients
         /\ SameInput(s, a) /\ a.workspace = s.workspace /\ a.ignored = s.ignored
  BY <1>2, SetList
<1>5. PICK b \in Servers :
         /\ Broadcast(a, e) = b
         /\ b.role \subseteq a.role
         /\ \A q \in Requests : b.down[q] = a.down[q]
         /\ \A q \in Requests : Has(b.clients, q) <=> Has(a.clients, q)
         /\ \A c \in b.told : /\ b.down[c] = Append(a.down[c], e)
                              /\ c \in a.told \/ IsDesk(e)
         /\ b.backlog = a.backlog /\ b.up = a.up
         /\ b.consent = a.consent /\ b.region = a.region /\ b.queue = a.queue
         /\ b.workspace = a.workspace /\ b.ignored = a.ignored /\ b.inbox = a.inbox
  BY <1>3, BroadcastIs
<1>6. /\ b.queue = s.queue /\ b[list] = longer /\ \A l \in Held : l # list => b[l] = s[l]
  <2>1. b["consent"] = a["consent"] /\ b["region"] = a["region"]  BY <1>5, ListTypes
  <2> QED  BY <1>4, <1>5, <2>1 DEF Held
<1>7. SameInput(s, b) /\ b.workspace = s.workspace /\ b.ignored = s.ignored  BY <1>4, <1>5 DEF SameInput
<1>8. /\ b.role \subseteq s.role
      /\ \A c \in b.told : b.down[c] = Append(s.down[c], e) /\ c \in s.told
  BY <1>3, <1>4, <1>5
<1>9. \A q \in Requests : SameDown(s, b, q) /\ SameConn(s, b, q)
  BY <1>4, <1>5 DEF SameDown, SameConn
<1>10. Broadcast([s EXCEPT ![list] = Append(@, r)], Question(list, r)) = b
  BY <1>4, <1>5 DEF longer, e
<1>11. CASE b.sent # {}
  <2>1. Ask(s, list, r) = b  BY <1>10, <1>11 DEF Ask
  <2>2. b[list] = Append(s[list], r)  BY <1>6 DEF longer
  <2>3. \A c \in b.told : b.down[c] = Append(s.down[c], Question(list, r)) /\ c \in s.told
    BY <1>8 DEF e
  <2> QED  BY <1>6, <1>7, <1>8, <1>9, <2>1, <2>2, <2>3
<1>12. CASE b.sent = {}
  <2>1. Ask(s, list, r) = Respond([b EXCEPT ![list] = Front(b[list])], Last(b[list]), "failed")
    BY <1>10, <1>12 DEF Ask
  <2>2. Ask(s, list, r) = Respond([b EXCEPT ![list] = s[list]], r, "failed")
    BY <1>2, <1>6, <2>1
  <2>3. PICK d \in Servers :
           /\ [b EXCEPT ![list] = s[list]] = d
           /\ d[list] = s[list] /\ \A l \in Held : l # list => d[l] = b[l]
           /\ d.queue = b.queue /\ d.role = b.role /\ d.told = b.told
           /\ d.down = b.down /\ d.clients = b.clients
           /\ SameInput(b, d) /\ d.workspace = b.workspace /\ d.ignored = b.ignored
    BY <1>1, SetList
  <2>4. PICK t \in Servers :
           /\ Respond(d, r, "failed") = t
           /\ t.role = d.role /\ t.told = d.told
           /\ \A c \in Conns : c # r => SameDown(d, t, c) /\ SameConn(d, t, c)
           /\ Has(d.clients, r) /\ r \notin gone =>
                 SameConn(d, t, r) /\ t.down[r] = Append(d.down[r], Answer("failed"))
           /\ ~ (Has(d.clients, r) /\ r \notin gone) => SameDown(d, t, r)
           /\ SameInput(d, t) /\ SameLists(d, t) /\ t.workspace = d.workspace
           /\ t.ignored = d.ignored
    BY RespondIs
  <2>5. SameInput(s, t) /\ t.workspace = s.workspace /\ t.ignored = s.ignored
    BY <1>7, <2>3, <2>4 DEF SameInput
  <2>6. t.queue = s.queue /\ t[list] = s[list] /\ \A l \in Held : l # list => t[l] = s[l]
    <3>1. t["consent"] = d["consent"] /\ t["region"] = d["region"] /\ t.queue = d.queue
      BY <2>4, ListTypes DEF SameLists
    <3> QED  BY <1>6, <2>3, <3>1 DEF Held
  <2>7. Answered(s, t, r, "failed")
    <3>1. \A q \in Requests : SameDown(s, d, q) /\ SameConn(s, d, q)
      BY <1>9, <2>3 DEF SameDown, SameConn
    <3> QED  BY <2>4, <3>1 DEF Answered, SameDown, SameConn, Conns
  <2>8. \A c \in t.told : /\ t.down[c] = Append(s.down[c], Question(list, r))
                          /\ c \in s.told
    <3>1. \A c \in t.told : c \in Conns /\ c # r
      BY <2>4, ListTypes, BridgeAssumption DEF Conns
    <3>2. \A c \in t.told : t.down[c] = d.down[c] /\ c \in d.told
      BY <2>4, <3>1 DEF SameDown
    <3> QED  BY <1>8, <2>3, <3>2 DEF e
  <2>9. t.role \subseteq s.role  BY <1>8, <2>3, <2>4
  <2> QED  BY <2>2, <2>3, <2>4, <2>5, <2>6, <2>7, <2>8, <2>9
<1> QED  BY <1>11, <1>12

(* A command that was not written as the shell, or names no held request,   *)
(* changes nothing.                                                         *)
LEMMA CommandIs ==
    ASSUME NEW s \in Servers, NEW heard \in HeardSpace
    PROVE  \/ HandleCommand(s, heard) = s /\ (heard.trusted => heard.line.kind # "switch")
           \/ /\ heard.line.kind \in Held /\ heard.line.req \in Requests
              /\ heard.line.yes \in BOOLEAN
              /\ Has(s[heard.line.kind], heard.line.req)
              /\ HandleCommand(s, heard)
                    = Resolve(s, heard.line.kind, heard.line.req, heard.line.yes)
           \/ /\ heard.line.kind = "switch" /\ heard.line.req \in Workspaces
              /\ ~ s.grabbed \/ heard.line.req = s.workspace
              /\ HandleCommand(s, heard) = SwitchTo(s, heard.line.req)
           \/ /\ heard.line.kind = "switch"
              /\ HandleCommand(s, heard) = [s EXCEPT !.ignored = @ \cup {heard.conn}]
<1> DEFINE c == heard.line
<1>1. c \in Shot \/ c \in ShellLine  BY DEF HeardSpace
<1>2. HandleCommand(s, heard) =
         CASE heard.trusted /\ c.kind = "consent" -> Resolve(s, "consent", c.req, c.yes)
           [] heard.trusted /\ c.kind = "region"  -> Resolve(s, "region", c.req, c.yes)
           [] heard.trusted /\ c.kind = "switch"  -> Order(s, heard.conn, c.req)
           [] OTHER -> s
  BY DEF HandleCommand
<1> HIDE DEF c
<1>3. CASE heard.trusted /\ c.kind \in Held
  <2>1. c.req \in Requests /\ c.yes \in BOOLEAN  BY <1>1, <1>3, LineKinds DEF Held
  <2>2. HandleCommand(s, heard) = Resolve(s, c.kind, c.req, c.yes)  BY <1>2, <1>3 DEF Held
  <2>3. c.kind # "switch"  BY <1>3 DEF Held
  <2>4. CASE Has(s[c.kind], c.req)  BY <1>3, <2>1, <2>2, <2>4 DEF c
  <2>5. CASE ~ Has(s[c.kind], c.req)
    <3>1. Resolve(s, c.kind, c.req, c.yes) = s  BY <1>3, <2>5, ResolveNot
    <3> QED  BY <2>2, <2>3, <3>1 DEF c
  <2> QED  BY <2>4, <2>5
<1>4. CASE heard.trusted /\ c.kind = "switch"
  <2>1. c.req \in Workspaces  BY <1>1, <1>4, LineKinds
  <2>2. HandleCommand(s, heard) = Order(s, heard.conn, c.req)  BY <1>2, <1>4
  <2>3. CASE ~ s.grabbed \/ c.req = s.workspace
    BY <1>4, <2>1, <2>2, <2>3 DEF c, Order
  <2>4. CASE s.grabbed /\ c.req # s.workspace  BY <1>4, <2>2, <2>4 DEF c, Order
  <2> QED  BY <2>3, <2>4
<1>5. CASE ~ (heard.trusted /\ (c.kind \in Held \/ c.kind = "switch"))
  <2>1. HandleCommand(s, heard) = s  BY <1>2, <1>5 DEF Held
  <2> QED  BY <1>5, <2>1 DEF c
<1> QED  BY <1>3, <1>4, <1>5

(* A switch that is ignored is only written down.                           *)
LEMMA IgnoreIs ==
    ASSUME NEW s \in Servers, NEW c \in Conns
    PROVE  \E t \in Servers :
           /\ [s EXCEPT !.ignored = @ \cup {c}] = t
           /\ t.ignored = s.ignored \cup {c}
           /\ t.role = s.role /\ t.told = s.told /\ t.down = s.down /\ t.clients = s.clients
           /\ SameInput(s, t) /\ SameLists(s, t) /\ t.workspace = s.workspace
<1> DEFINE more == s.ignored \cup {c}
           t == [s EXCEPT !.ignored = more]
<1>0. s \in ServerSpace /\ Tell(s)  BY DEF Servers
<1>1. more \in SUBSET Conns  BY <1>0 DEF ServerSpace
<1>2. [s EXCEPT !.ignored = @ \cup {c}] = t  OBVIOUS
<1> HIDE DEF more
<1>3. t \in ServerSpace  BY <1>0, <1>1 DEF ServerSpace
<1>4. /\ t.ignored = more /\ t.role = s.role /\ t.told = s.told
      /\ t.down = s.down /\ t.clients = s.clients /\ t.workspace = s.workspace
      /\ t.backlog = s.backlog /\ t.up = s.up /\ t.inbox = s.inbox
      /\ t.consent = s.consent /\ t.region = s.region /\ t.queue = s.queue
  BY <1>0 DEF ServerSpace
<1> HIDE DEF t
<1>5. t \in Servers  BY <1>0, <1>3, <1>4 DEF Servers, Tell
<1> QED  BY <1>2, <1>4, <1>5 DEF SameInput, SameLists, more

LEMMA RequestIs ==
    ASSUME NEW s \in Servers, NEW heard \in HeardSpace
    PROVE  \/ heard.line \in ShellLine /\ HandleRequest(s, heard) = s
           \/ /\ heard.line \in Shot /\ heard.conn \in Requests
              /\ \/ DevCapture /\ HandleRequest(s, heard)
                                     = [s EXCEPT !.queue = Append(s.queue, heard.conn)]
                 \/ \E list \in Held : HandleRequest(s, heard) = Ask(s, list, heard.conn)
                 \/ HandleRequest(s, heard) = Respond(s, heard.conn, "failed")
<1>1. \/ heard.line \in Shot /\ heard.conn \in Requests
      \/ heard.line \in ShellLine /\ heard.conn \in ShellConns
  BY DEF HeardSpace
<1>2. CASE heard.line \in ShellLine
  <2>1. heard.line.kind # "screenshot"  BY <1>2, LineKinds
  <2>2. HandleRequest(s, heard) = s  BY <2>1 DEF HandleRequest
  <2> QED  BY <1>2, <2>2
<1>3. CASE heard.line \in Shot /\ heard.conn \in Requests
  <2> DEFINE r == heard.conn
             m == heard.line.msg
             decision == Decision(m)
  <2>1. heard.line.kind = "screenshot" /\ m \in Messages  BY <1>3, LineKinds
  <2>2. m \in MessageSpace  BY <2>1, BridgeAssumption
  <2>3. /\ decision \in {"invalid", "allow", "deny", "region", "consent"}
        /\ decision = "allow" => DevCapture
    <3> HIDE DEF m
    <3>1. m.valid \in BOOLEAN /\ m.origin \in {"PortalDbus", "Internal"}
      BY <2>2 DEF MessageSpace
    <3>2. CASE ~ m.valid  BY <3>2 DEF Decision
    <3>3. CASE m.valid /\ m.origin = "Internal"  BY <3>3 DEF Decision
    <3>4. CASE m.valid /\ m.origin = "PortalDbus"  BY <3>4 DEF Decision
    <3> QED  BY <3>1, <3>2, <3>3, <3>4
  <2>4. HandleRequest(s, heard) =
           CASE heard.line.kind # "screenshot" -> s
             [] OTHER -> CASE decision = "allow" -> [s EXCEPT !.queue = Append(@, r)]
                           [] decision \in {"consent", "region"} -> Ask(s, decision, r)
                           [] OTHER -> Respond(s, r, "failed")
    BY DEF HandleRequest
  <2> HIDE DEF decision, m
  <2>5. HandleRequest(s, heard) =
           CASE decision = "allow" -> [s EXCEPT !.queue = Append(@, r)]
             [] decision \in {"consent", "region"} -> Ask(s, decision, r)
             [] OTHER -> Respond(s, r, "failed")
    BY <2>1, <2>4
  <2>6. CASE decision = "allow"
    <3>1. HandleRequest(s, heard) = [s EXCEPT !.queue = Append(s.queue, r)]  BY <2>5, <2>6
    <3> QED  BY <1>3, <2>3, <2>6, <3>1
  <2>7. CASE decision \in {"consent", "region"}
    <3>1. HandleRequest(s, heard) = Ask(s, decision, r)  BY <2>5, <2>7
    <3> QED  BY <1>3, <2>7, <3>1 DEF Held
  <2>8. CASE decision \notin {"allow", "consent", "region"}
    <3>1. HandleRequest(s, heard) = Respond(s, r, "failed")  BY <2>5, <2>8
    <3> QED  BY <1>3, <3>1
  <2> QED  BY <2>6, <2>7, <2>8
<1> QED  BY <1>1, <1>2, <1>3

-----------------------------------------------------------------------------
(* A yes of the shell names a request the user allowed, so only allowed     *)
(* requests are queued and answered with a picture (or, with the            *)
(* development flag, any).  What the shell has still to write goes to a     *)
(* connection on which it wrote nothing yet.                                *)

Permitted(x) == x.kind \in Held /\ x.yes => x.req \in allowed

Allowed(r) == r \in allowed \/ DevCapture

Lawful(s) ==
    /\ \A i \in 1..Len(shell.todo) : Permitted(shell.todo[i])
    /\ shell.todo # <<>> => shell.conn \in ShellConns /\ s.up[shell.conn] = <<>>
    /\ \A c \in ShellConns : \A i \in 1..Len(s.up[c]) : Permitted(s.up[c][i])
    /\ \A i \in 1..Len(s.inbox) : Permitted(s.inbox[i].line)
    /\ \A r \in Requests : Has(s.queue, r) => Allowed(r)
    /\ \A r \in Requests : Has(s.down[r], Answer("success")) => Allowed(r)

LEMMA HasAppend ==
    ASSUME NEW T, NEW list \in Seq(T), NEW y
    PROVE  \A x : Has(Append(list, y), x) <=> Has(list, x) \/ x = y
<1> DEFINE longer == Append(list, y)
<1>1. /\ Len(longer) = Len(list) + 1 /\ Len(list) \in Nat
      /\ \A i \in 1..Len(list) : longer[i] = list[i]
      /\ longer[Len(list) + 1] = y
  OBVIOUS
<1> HIDE DEF longer
<1>2. \A i \in 1..Len(longer) : i \in 1..Len(list) \/ i = Len(list) + 1  BY <1>1
<1>3. Len(list) + 1 \in 1..Len(longer) /\ 1..Len(list) \subseteq 1..Len(longer)  BY <1>1
<1> TAKE x
<1>4. Has(longer, x) => Has(list, x) \/ x = y  BY <1>1, <1>2 DEF Has
<1>5. Has(list, x) => Has(longer, x)  BY <1>1, <1>3 DEF Has
<1>6. Has(longer, y)  BY <1>1, <1>3 DEF Has
<1> QED  BY <1>4, <1>5, <1>6 DEF longer

LEMMA AnswersDiffer == Answer("failed") # Answer("success")
<1>1. Answer("failed").outcome = "failed" /\ Answer("success").outcome = "success"
  BY DEF Answer
<1> QED  BY <1>1

(* What a refusal or an answer of a request allowed does to the pictures.   *)
LEMMA AnsweredLawful ==
    ASSUME NEW s \in Servers, NEW t \in Servers, NEW r \in Requests,
           NEW outcome \in {"success", "failed"},
           Answered(s, t, r, outcome),
           outcome = "success" => Allowed(r),
           \A q \in Requests : Has(s.down[q], Answer("success")) => Allowed(q)
    PROVE  \A q \in Requests : Has(t.down[q], Answer("success")) => Allowed(q)
<1> TAKE q \in Requests
<1>1. s.down[q] \in Seq(Event)  BY ListTypes DEF Conns
<1>2. t.down[q] = s.down[q] \/ (q = r /\ t.down[q] = Append(s.down[q], Answer(outcome)))
  BY DEF Answered, SameDown
<1>3. CASE t.down[q] = s.down[q]  BY <1>3
<1>4. CASE q = r /\ t.down[q] = Append(s.down[q], Answer(outcome))
  <2>1. CASE outcome = "success"  BY <1>4, <2>1
  <2>2. CASE outcome = "failed"
    <3>1. Has(t.down[q], Answer("success")) => Has(s.down[q], Answer("success"))
      BY <1>1, <1>4, <2>2, HasAppend, AnswersDiffer
    <3> QED  BY <3>1
  <2> QED  BY <2>1, <2>2
<1> QED  BY <1>2, <1>3, <1>4

LEMMA CommandLawful ==
    ASSUME NEW s \in Servers, Lawful(s), NEW heard \in HeardSpace, Permitted(heard.line)
    PROVE  /\ HandleCommand(s, heard) \in Servers
           /\ SameInput(s, HandleCommand(s, heard))
           /\ Lawful(HandleCommand(s, heard))
<1> DEFINE x == heard.line
<1>1. CASE HandleCommand(s, heard) = s  BY <1>1 DEF SameInput
<1>2. CASE /\ x.kind \in Held /\ x.req \in Requests /\ x.yes \in BOOLEAN
           /\ Has(s[x.kind], x.req)
           /\ HandleCommand(s, heard) = Resolve(s, x.kind, x.req, x.yes)
  <2> HIDE DEF x
  <2>1. PICK t \in Servers :
           /\ Resolve(s, x.kind, x.req, x.yes) = t
           /\ IF x.yes
              THEN /\ t.queue = Append(s.queue, x.req)
                   /\ \A q \in Requests : SameDown(s, t, q) /\ SameConn(s, t, q)
              ELSE t.queue = s.queue /\ Answered(s, t, x.req, "failed")
           /\ SameInput(s, t)
    BY <1>2, ResolveIs
  <2>2. x.yes => Allowed(x.req)  BY <1>2 DEF Permitted, Allowed, x
  <2>3. \A r \in Requests : Has(t.queue, r) => Allowed(r)
    <3>1. s.queue \in Seq(Requests)  BY ListTypes
    <3>2. CASE x.yes
      <4>0. t.queue = Append(s.queue, x.req)  BY <2>1, <3>2
      <4>1. \A r : Has(Append(s.queue, x.req), r) <=> Has(s.queue, r) \/ r = x.req
        BY <3>1, HasAppend
      <4> QED  BY <2>2, <3>2, <4>0, <4>1 DEF Lawful
    <3>3. CASE ~ x.yes  BY <2>1, <3>3 DEF Lawful
    <3> QED  BY <3>2, <3>3
  <2>4. \A r \in Requests : Has(t.down[r], Answer("success")) => Allowed(r)
    <3>1. CASE x.yes  BY <2>1, <3>1 DEF Lawful, SameDown
    <3>2. CASE ~ x.yes
      <4>1. Answered(s, t, x.req, "failed")  BY <2>1, <3>2
      <4>2. \A r \in Requests : Has(s.down[r], Answer("success")) => Allowed(r)  BY DEF Lawful
      <4> QED  BY <1>2, <4>1, <4>2, AnsweredLawful
    <3> QED  BY <3>1, <3>2
  <2>5. Lawful(t)  BY <2>1, <2>3, <2>4 DEF Lawful, SameInput
  <2> QED  BY <1>2, <2>1, <2>5
<1>3. CASE /\ x.kind = "switch" /\ x.req \in Workspaces
           /\ ~ s.grabbed \/ x.req = s.workspace
           /\ HandleCommand(s, heard) = SwitchTo(s, x.req)
  <2> HIDE DEF x
  <2>1. PICK t \in Servers :
           /\ SwitchTo(s, x.req) = t
           /\ \A r \in Requests : SameDown(s, t, r) /\ SameConn(s, t, r)
           /\ SameInput(s, t) /\ SameLists(s, t)
    BY <1>3, SwitchIs
  <2>2. Lawful(t)  BY <2>1 DEF Lawful, SameInput, SameLists, SameDown
  <2> QED  BY <1>3, <2>1, <2>2
<1>4. CASE HandleCommand(s, heard) = [s EXCEPT !.ignored = @ \cup {heard.conn}]
  <2>1. heard.conn \in Conns  BY DEF HeardSpace, Conns
  <2>2. PICK t \in Servers :
           /\ [s EXCEPT !.ignored = @ \cup {heard.conn}] = t
           /\ t.down = s.down /\ SameInput(s, t) /\ SameLists(s, t)
    BY <2>1, IgnoreIs
  <2>3. Lawful(t)  BY <2>2 DEF Lawful, SameInput, SameLists
  <2> QED  BY <1>4, <2>2, <2>3
<1> QED  BY <1>1, <1>2, <1>3, <1>4, CommandIs

LEMMA RequestLawful ==
    ASSUME NEW s \in Servers, Lawful(s), NEW heard \in HeardSpace
    PROVE  /\ HandleRequest(s, heard) \in Servers
           /\ SameInput(s, HandleRequest(s, heard))
           /\ Lawful(HandleRequest(s, heard))
<1> DEFINE r == heard.conn
<1>0. s.queue \in Seq(Requests)  BY ListTypes
<1>1. CASE HandleRequest(s, heard) = s  BY <1>1 DEF SameInput
<1>2. CASE r \in Requests /\ DevCapture
           /\ HandleRequest(s, heard) = [s EXCEPT !.queue = Append(s.queue, r)]
  <2> HIDE DEF r
  <2>1. Append(s.queue, r) \in Seq(Requests)  BY <1>0, <1>2
  <2>2. PICK t \in Servers :
           /\ [s EXCEPT !.queue = Append(s.queue, r)] = t
           /\ t.down = s.down /\ SameInput(s, t)
    BY <2>1, SetQueue
  <2>3. Lawful(t)  BY <1>2, <2>2 DEF Lawful, Allowed, SameInput
  <2> QED  BY <1>2, <2>2, <2>3
<1>3. CASE r \in Requests /\ \E list \in Held : HandleRequest(s, heard) = Ask(s, list, r)
  <2> HIDE DEF r
  <2>1. PICK list \in Held : HandleRequest(s, heard) = Ask(s, list, r)  BY <1>3
  <2>2. PICK t \in Servers :
           /\ Ask(s, list, r) = t
           /\ t.queue = s.queue
           /\ \/ /\ t[list] = Append(s[list], r)
                 /\ \A q \in Requests : SameDown(s, t, q) /\ SameConn(s, t, q)
              \/ t[list] = s[list] /\ Answered(s, t, r, "failed")
           /\ SameInput(s, t)
    BY <1>3, AskIs
  <2>3. \A q \in Requests : Has(t.down[q], Answer("success")) => Allowed(q)
    <3>1. \A q \in Requests : Has(s.down[q], Answer("success")) => Allowed(q)  BY DEF Lawful
    <3>2. CASE \A q \in Requests : SameDown(s, t, q)  BY <3>1, <3>2 DEF SameDown
    <3>3. CASE Answered(s, t, r, "failed")  BY <1>3, <3>1, <3>3, AnsweredLawful
    <3> QED  BY <2>2, <3>2, <3>3
  <2>4. Lawful(t)  BY <2>2, <2>3 DEF Lawful, SameInput
  <2> QED  BY <2>1, <2>2, <2>4
<1>4. CASE r \in Requests /\ HandleRequest(s, heard) = Respond(s, r, "failed")
  <2> HIDE DEF r
  <2>1. PICK t \in Servers :
           /\ Respond(s, r, "failed") = t
           /\ \A c \in Conns : c # r => SameDown(s, t, c) /\ SameConn(s, t, c)
           /\ Has(s.clients, r) /\ r \notin gone =>
                 SameConn(s, t, r) /\ t.down[r] = Append(s.down[r], Answer("failed"))
           /\ ~ (Has(s.clients, r) /\ r \notin gone) => SameDown(s, t, r)
           /\ SameInput(s, t) /\ SameLists(s, t)
    BY <1>4, RespondIs
  <2>2. Answered(s, t, r, "failed")  BY <2>1 DEF Answered, Conns
  <2>3. \A q \in Requests : Has(s.down[q], Answer("success")) => Allowed(q)  BY DEF Lawful
  <2>4. \A q \in Requests : Has(t.down[q], Answer("success")) => Allowed(q)
    BY <1>4, <2>2, <2>3, AnsweredLawful
  <2>5. Lawful(t)  BY <2>1, <2>4 DEF Lawful, SameInput, SameLists
  <2> QED  BY <1>4, <2>1, <2>5
<1> QED  BY <1>1, <1>2, <1>3, <1>4, RequestIs

-----------------------------------------------------------------------------
(* The shell that is told: the last workspace event in flight names the     *)
(* workspace; with none in flight the panel shows it, or shows where a      *)
(* switch goes that is not handled yet.                                     *)

NoDesk(list) == \A i \in 1..Len(list) : ~ IsDesk(list[i])

LastDeskIs(list, w) ==
    \E i \in 1..Len(list) : /\ IsDesk(list[i]) /\ list[i].ws = w
                            /\ \A j \in i+1..Len(list) : ~ IsDesk(list[j])

IsSwitch(x, w) == x.kind = "switch" /\ x.req = w

(* m commands of the inbox have been handled.                               *)
Pending(s, m, c, w) ==
    \/ \E i \in 1..Len(s.up[c]) : IsSwitch(s.up[c][i], w)
    \/ \E i \in m+1..Len(s.inbox) : /\ s.inbox[i].conn = c /\ s.inbox[i].trusted
                                    /\ IsSwitch(s.inbox[i].line, w)

Follows(s, m) ==
    shell.conn \in s.told =>
       \/ LastDeskIs(s.down[shell.conn], s.workspace)
       \/ /\ NoDesk(s.down[shell.conn])
          /\ \/ shell.blind \/ shell.conn \in s.ignored \/ shell.view = s.workspace
             \/ Pending(s, m, shell.conn, shell.view)

LEMMA AppendDesk ==
    ASSUME NEW T, NEW list \in Seq(T), NEW w
    PROVE  LastDeskIs(Append(list, Desk(w)), w)
<1> DEFINE longer == Append(list, Desk(w))
<1>1. /\ Len(longer) = Len(list) + 1 /\ Len(list) \in Nat
      /\ longer[Len(list) + 1] = Desk(w)
  OBVIOUS
<1>2. IsDesk(Desk(w)) /\ Desk(w).ws = w  BY DEF IsDesk, Desk
<1> HIDE DEF longer
<1>3. Len(list) + 1 \in 1..Len(longer) /\ ~ \E j : j \in (Len(list) + 1) + 1..Len(longer)
  BY <1>1
<1>4. LastDeskIs(longer, w)  BY <1>1, <1>2, <1>3 DEF LastDeskIs
<1> QED  BY <1>4 DEF longer

LEMMA AppendOther ==
    ASSUME NEW T, NEW list \in Seq(T), NEW e, ~ IsDesk(e)
    PROVE  /\ NoDesk(list) => NoDesk(Append(list, e))
           /\ \A w : LastDeskIs(list, w) => LastDeskIs(Append(list, e), w)
<1> DEFINE longer == Append(list, e)
<1>1. /\ Len(longer) = Len(list) + 1 /\ Len(list) \in Nat
      /\ \A i \in 1..Len(list) : longer[i] = list[i]
      /\ longer[Len(list) + 1] = e
  OBVIOUS
<1> HIDE DEF longer
<1>2. \A i \in 1..Len(longer) : i \in 1..Len(list) \/ i = Len(list) + 1  BY <1>1
<1>3. NoDesk(list) => NoDesk(longer)  BY <1>1, <1>2 DEF NoDesk
<1>4. ASSUME NEW w, LastDeskIs(list, w) PROVE LastDeskIs(longer, w)
  <2>1. PICK i \in 1..Len(list) : /\ IsDesk(list[i]) /\ list[i].ws = w
                                  /\ \A j \in i+1..Len(list) : ~ IsDesk(list[j])
    BY <1>4 DEF LastDeskIs
  <2>2. i \in 1..Len(longer) /\ longer[i] = list[i]  BY <1>1
  <2>3. \A j \in i+1..Len(longer) : j = Len(list) + 1 \/ (j \in i+1..Len(list) /\ j \in 1..Len(list))
    BY <1>1
  <2>4. \A j \in i+1..Len(longer) : ~ IsDesk(longer[j])  BY <1>1, <2>1, <2>3
  <2> QED  BY <2>1, <2>2, <2>4 DEF LastDeskIs
<1> QED  BY <1>3, <1>4 DEF longer

(* A step that leaves the workspace and what is to be handled alone, and    *)
(* writes no workspace event, or announces.                                 *)
LEMMA StillFollows ==
    ASSUME NEW s \in Servers, NEW t \in Servers, NEW m, NEW k, Follows(s, m),
           \A c \in t.told :
              \/ \E T : s.down[c] \in Seq(T) /\ t.down[c] = Append(s.down[c], Desk(t.workspace))
              \/ /\ c \in s.told /\ t.workspace = s.workspace
                 /\ c \in s.ignored => c \in t.ignored
                 /\ \A w : Pending(s, m, c, w) =>
                             Pending(t, k, c, w) \/ w = t.workspace \/ c \in t.ignored
                 /\ \/ SameDown(s, t, c)
                    \/ \E e : ~ IsDesk(e) /\ t.down[c] = Append(s.down[c], e)
    PROVE  Follows(t, k)
<1> DEFINE c == shell.conn
<1> SUFFICES ASSUME c \in t.told
             PROVE  \/ LastDeskIs(t.down[c], t.workspace)
                    \/ /\ NoDesk(t.down[c])
                       /\ \/ shell.blind \/ shell.conn \in t.ignored \/ shell.view = t.workspace
                          \/ Pending(t, k, c, shell.view)
  BY DEF Follows
<1>1. CASE \E T : s.down[c] \in Seq(T) /\ t.down[c] = Append(s.down[c], Desk(t.workspace))
  BY <1>1, AppendDesk
<1>2. CASE /\ c \in s.told /\ t.workspace = s.workspace
           /\ c \in s.ignored => c \in t.ignored
           /\ \A w : Pending(s, m, c, w) =>
                       Pending(t, k, c, w) \/ w = t.workspace \/ c \in t.ignored
           /\ \/ SameDown(s, t, c)
              \/ \E e : ~ IsDesk(e) /\ t.down[c] = Append(s.down[c], e)
  <2>0. c \in Conns  BY <1>2, ListTypes DEF Conns
  <2>1. s.down[c] \in Seq(Event)  BY <2>0, ListTypes
  <2>2. /\ NoDesk(s.down[c]) => NoDesk(t.down[c])
        /\ \A w : LastDeskIs(s.down[c], w) => LastDeskIs(t.down[c], w)
    <3>1. CASE SameDown(s, t, c)  BY <3>1 DEF SameDown
    <3>2. CASE \E e : ~ IsDesk(e) /\ t.down[c] = Append(s.down[c], e)
      <4> HIDE DEF c
      <4>1. PICK e : ~ IsDesk(e) /\ t.down[c] = Append(s.down[c], e)  BY <3>2
      <4> QED  BY <2>1, <4>1, AppendOther
    <3> QED  BY <1>2, <3>1, <3>2
  <2>3. \/ LastDeskIs(s.down[c], s.workspace)
        \/ /\ NoDesk(s.down[c])
           /\ \/ shell.blind \/ shell.conn \in s.ignored \/ shell.view = s.workspace
              \/ Pending(s, m, c, shell.view)
    BY <1>2 DEF Follows
  <2> QED  BY <1>2, <2>2, <2>3
<1> QED  BY <1>1, <1>2

LEMMA SamePending ==
    ASSUME NEW s, NEW t, NEW m, SameInput(s, t)
    PROVE  \A c, w : Pending(s, m, c, w) <=> Pending(t, m, c, w)
BY DEF SameInput, Pending

(* The next command of the inbox is no longer pending.                      *)
LEMMA NextPending ==
    ASSUME NEW s, NEW t, SameInput(s, t), NEW m \in Nat,
           NEW x, x = s.inbox[m+1]
    PROVE  \A c, w : Pending(s, m, c, w) => \/ Pending(t, m+1, c, w)
                                            \/ x.conn = c /\ x.trusted /\ IsSwitch(x.line, w)
<1> TAKE c, w
<1> SUFFICES ASSUME Pending(s, m, c, w), ~ (x.conn = c /\ x.trusted /\ IsSwitch(x.line, w))
             PROVE  Pending(t, m+1, c, w)
  OBVIOUS
<1>1. t.up = s.up /\ t.inbox = s.inbox  BY DEF SameInput
<1>2. CASE \E i \in 1..Len(s.up[c]) : IsSwitch(s.up[c][i], w)  BY <1>1, <1>2 DEF Pending
<1>3. CASE \E i \in m+1..Len(s.inbox) : /\ s.inbox[i].conn = c /\ s.inbox[i].trusted
                                        /\ IsSwitch(s.inbox[i].line, w)
  <2>1. PICK i \in m+1..Len(s.inbox) : /\ s.inbox[i].conn = c /\ s.inbox[i].trusted
                                       /\ IsSwitch(s.inbox[i].line, w)
    BY <1>3
  <2>2. i # m+1  BY <2>1
  <2>3. i \in (m+1)+1..Len(s.inbox)  BY <2>2
  <2> QED  BY <1>1, <2>1, <2>3 DEF Pending
<1> QED  BY <1>2, <1>3 DEF Pending

LEMMA CommandFollows ==
    ASSUME NEW s \in Servers, NEW m \in Nat, m+1 \in 1..Len(s.inbox), Follows(s, m)
    PROVE  Follows(HandleCommand(s, s.inbox[m+1]), m+1)
<1> DEFINE heard == s.inbox[m+1]
           x == heard.line
<1>0. heard \in HeardSpace
  <2>1. s.inbox \in Seq(HeardSpace)  BY ListTypes
  <2> QED  BY <2>1
<1> HIDE DEF heard
<1>1. \A c \in Conns : \E T : s.down[c] \in Seq(T)  BY ListTypes
<1>2. \A r \in Servers : \A c \in r.told : c \in Conns  BY ListTypes DEF Conns
<1>3. CASE HandleCommand(s, heard) = s /\ (heard.trusted => x.kind # "switch")
  <2>1. SameInput(s, s)  BY DEF SameInput
  <2>2. \A c, w : Pending(s, m, c, w) => Pending(s, m+1, c, w)
    BY <1>3, <2>1, NextPending DEF IsSwitch, heard
  <2>3. Follows(s, m+1)  BY <2>2 DEF Follows
  <2> QED  BY <1>3, <2>3 DEF heard
<1>4. CASE /\ x.kind \in Held /\ x.req \in Requests /\ x.yes \in BOOLEAN
           /\ Has(s[x.kind], x.req)
           /\ HandleCommand(s, heard) = Resolve(s, x.kind, x.req, x.yes)
  <2> HIDE DEF x
  <2>1. PICK t \in Servers :
           /\ Resolve(s, x.kind, x.req, x.yes) = t
           /\ t.told = s.told /\ \A c \in t.told : SameDown(s, t, c)
           /\ SameInput(s, t) /\ t.workspace = s.workspace /\ t.ignored = s.ignored
    BY <1>4, ResolveIs
  <2>2. x.kind # "switch"  BY <1>4 DEF Held
  <2>3. \A c, w : Pending(s, m, c, w) => Pending(t, m+1, c, w)
    BY <2>1, <2>2, NextPending DEF IsSwitch, heard, x
  <2>4. Follows(t, m+1)
    <3>1. \A c \in t.told :
             /\ c \in s.told /\ t.workspace = s.workspace /\ t.ignored = s.ignored
             /\ \A w : Pending(s, m, c, w) => Pending(t, m+1, c, w) \/ w = t.workspace
             /\ SameDown(s, t, c)
      BY <2>1, <2>3
    <3> QED  BY <3>1, StillFollows
  <2> QED  BY <1>4, <2>1, <2>4 DEF heard
<1>5. CASE /\ x.kind = "switch" /\ x.req \in Workspaces
           /\ ~ s.grabbed \/ x.req = s.workspace
           /\ HandleCommand(s, heard) = SwitchTo(s, x.req)
  <2> HIDE DEF x
  <2>1. PICK t \in Servers :
           /\ SwitchTo(s, x.req) = t
           /\ \A c \in t.told : \/ t.down[c] = Append(s.down[c], Desk(x.req))
                                \/ x.req = s.workspace /\ c \in s.told /\ SameDown(s, t, c)
                                   /\ t.ignored = s.ignored
           /\ SameInput(s, t) /\ t.workspace = x.req
    BY <1>5, SwitchIs
  <2>2. \A c, w : Pending(s, m, c, w) => Pending(t, m+1, c, w) \/ w = t.workspace
    BY <2>1, NextPending DEF IsSwitch, heard, x
  <2>3. Follows(t, m+1)
    <3>1. \A c \in t.told :
              \/ \E T : s.down[c] \in Seq(T) /\ t.down[c] = Append(s.down[c], Desk(t.workspace))
              \/ /\ c \in s.told /\ t.workspace = s.workspace /\ t.ignored = s.ignored
                 /\ \A w : Pending(s, m, c, w) => Pending(t, m+1, c, w) \/ w = t.workspace
                 /\ SameDown(s, t, c)
      BY <1>1, <1>2, <2>1, <2>2
    <3> QED  BY <3>1, StillFollows
  <2> QED  BY <1>5, <2>1, <2>3 DEF heard
<1>6. CASE /\ x.kind = "switch"
           /\ HandleCommand(s, heard) = [s EXCEPT !.ignored = @ \cup {heard.conn}]
  <2>1. heard.conn \in Conns  BY <1>0 DEF HeardSpace, Conns
  <2>2. PICK t \in Servers :
           /\ [s EXCEPT !.ignored = @ \cup {heard.conn}] = t
           /\ t.ignored = s.ignored \cup {heard.conn}
           /\ t.told = s.told /\ t.down = s.down
           /\ SameInput(s, t) /\ t.workspace = s.workspace
    BY <2>1, IgnoreIs
  <2>3. \A c, w : Pending(s, m, c, w) => Pending(t, m+1, c, w) \/ c = heard.conn
    BY <2>2, NextPending DEF heard
  <2>4. Follows(t, m+1)
    <3>1. \A c \in t.told :
             /\ c \in s.told /\ t.workspace = s.workspace
             /\ c \in s.ignored => c \in t.ignored
             /\ \A w : Pending(s, m, c, w) =>
                         Pending(t, m+1, c, w) \/ w = t.workspace \/ c \in t.ignored
             /\ SameDown(s, t, c)
      BY <2>2, <2>3 DEF SameDown
    <3> QED  BY <3>1, StillFollows
  <2> QED  BY <1>6, <2>2, <2>4 DEF heard
<1> QED  BY <1>0, <1>3, <1>4, <1>5, <1>6, CommandIs

LEMMA RequestFollows ==
    ASSUME NEW s \in Servers, NEW m, Follows(s, m), NEW heard \in HeardSpace
    PROVE  Follows(HandleRequest(s, heard), m)
<1> DEFINE r == heard.conn
<1>0. s.queue \in Seq(Requests)  BY ListTypes
<1>1. CASE HandleRequest(s, heard) = s  BY <1>1
<1>2. CASE r \in Requests
           /\ HandleRequest(s, heard) = [s EXCEPT !.queue = Append(s.queue, r)]
  <2> HIDE DEF r
  <2>1. Append(s.queue, r) \in Seq(Requests)  BY <1>0, <1>2
  <2>2. PICK t \in Servers :
           /\ [s EXCEPT !.queue = Append(s.queue, r)] = t
           /\ t.down = s.down /\ t.told = s.told
           /\ SameInput(s, t) /\ t.workspace = s.workspace /\ t.ignored = s.ignored
    BY <2>1, SetQueue
  <2>3. Follows(t, m)  BY <2>2, SamePending DEF Follows
  <2> QED  BY <1>2, <2>2, <2>3
<1>3. CASE r \in Requests /\ \E list \in Held : HandleRequest(s, heard) = Ask(s, list, r)
  <2> HIDE DEF r
  <2>1. PICK list \in Held : HandleRequest(s, heard) = Ask(s, list, r)  BY <1>3
  <2>2. PICK t \in Servers :
           /\ Ask(s, list, r) = t
           /\ \A c \in t.told : /\ t.down[c] = Append(s.down[c], Question(list, r))
                                /\ c \in s.told
           /\ SameInput(s, t) /\ t.workspace = s.workspace /\ t.ignored = s.ignored
    BY <1>3, AskIs
  <2>3. ~ IsDesk(Question(list, r))  BY DEF IsDesk, Question, Held
  <2>4. Follows(t, m)
    <3>1. \A c \in t.told :
             /\ c \in s.told /\ t.workspace = s.workspace /\ t.ignored = s.ignored
             /\ \A w : Pending(s, m, c, w) => Pending(t, m, c, w) \/ w = t.workspace
             /\ \E e : ~ IsDesk(e) /\ t.down[c] = Append(s.down[c], e)
      BY <2>2, <2>3, SamePending
    <3> QED  BY <3>1, StillFollows
  <2> QED  BY <2>1, <2>2, <2>4
<1>4. CASE r \in Requests /\ HandleRequest(s, heard) = Respond(s, r, "failed")
  <2> HIDE DEF r
  <2>1. PICK t \in Servers :
           /\ Respond(s, r, "failed") = t
           /\ t.told = s.told
           /\ \A c \in Conns : c # r => SameDown(s, t, c) /\ SameConn(s, t, c)
           /\ SameInput(s, t) /\ t.workspace = s.workspace /\ t.ignored = s.ignored
    BY <1>4, RespondIs
  <2>2. \A c \in t.told : c \in Conns /\ c # r
    BY <1>4, ListTypes, BridgeAssumption DEF Conns
  <2>3. Follows(t, m)
    <3>1. \A c \in t.told :
             /\ c \in s.told /\ t.workspace = s.workspace /\ t.ignored = s.ignored
             /\ \A w : Pending(s, m, c, w) => Pending(t, m, c, w) \/ w = t.workspace
             /\ SameDown(s, t, c)
      BY <2>1, <2>2, SamePending
    <3> QED  BY <3>1, StillFollows
  <2> QED  BY <1>4, <2>1, <2>3
<1> QED  BY <1>1, <1>2, <1>3, <1>4, RequestIs

-----------------------------------------------------------------------------
(* Where a request is.  n requests of the inbox have been handled.          *)

PlaceNames == {"nowhere", "unread", "read", "consent", "region", "queue", "answered"}

Coming(s, n, r) == \E i \in n+1..Len(s.inbox) : s.inbox[i].conn = r

Placed(s, n, r, p) ==
    /\ s.up[r] # <<>> <=> p = "unread"
    /\ Coming(s, n, r) <=> p = "read"
    /\ \A l \in Held : Has(s[l], r) <=> p = l
    /\ Has(s.queue, r) <=> p = "queue"
    /\ s.down[r] # <<>> <=> p = "answered"

(* While its portal waits, a request is somewhere and its connection open.  *)
Due(s, r, p) ==
    /\ portal[r] = "idle" => p = "nowhere" /\ r \notin gone
    /\ portal[r] = "waiting" /\ running =>
          /\ p # "nowhere" /\ r \notin gone
          /\ Has(s.clients, r) \/ (p = "unread" /\ Has(s.backlog, r))

(* No list names a request twice.                                           *)
Neat(s) ==
    /\ Once(s.queue) /\ \A l \in Held : Once(s[l])
    /\ \A r \in Requests : Len(s.up[r]) <= 1 /\ Len(s.down[r]) <= 1
    /\ \A i, j \in 1..Len(s.inbox) :
          s.inbox[i].conn = s.inbox[j].conn /\ s.inbox[i].conn \in Requests => i = j

Safe(s, n) ==
    /\ Neat(s)
    /\ \A r \in Requests : \E p \in PlaceNames : Placed(s, n, r, p) /\ Due(s, r, p)

(* A step that does not touch a request leaves it where it is.              *)
Untouched(s, n, t, k, r) ==
    /\ SameDown(s, t, r) /\ t.up[r] = s.up[r]
    /\ Has(s.clients, r) => Has(t.clients, r)
    /\ Has(s.backlog, r) => Has(t.backlog, r) \/ Has(t.clients, r)
    /\ Coming(s, n, r) <=> Coming(t, k, r)
    /\ \A l \in Held : Has(t[l], r) <=> Has(s[l], r)
    /\ Has(t.queue, r) <=> Has(s.queue, r)

LEMMA Unmoved ==
    ASSUME NEW s, NEW t, NEW n, NEW k, NEW r, NEW p,
           Untouched(s, n, t, k, r), Placed(s, n, r, p), Due(s, r, p)
    PROVE  Placed(t, k, r, p) /\ Due(t, r, p)
<1>1. Placed(t, k, r, p)  BY DEF Untouched, Placed, SameDown
<1>2. Due(t, r, p)  BY DEF Untouched, Due
<1> QED  BY <1>1, <1>2

LEMMA AllUnmoved ==
    ASSUME NEW s, NEW t, NEW n, NEW k, Safe(s, n), Neat(t),
           \A r \in Requests : Untouched(s, n, t, k, r)
    PROVE  Safe(t, k)
<1> SUFFICES ASSUME NEW r \in Requests
             PROVE  \E p \in PlaceNames : Placed(t, k, r, p) /\ Due(t, r, p)
  BY DEF Safe
<1>1. PICK p \in PlaceNames : Placed(s, n, r, p) /\ Due(s, r, p)  BY DEF Safe
<1> QED  BY <1>1, Unmoved

LEMMA OnceAppend ==
    ASSUME NEW T, NEW list \in Seq(T), NEW y, Once(list), ~ Has(list, y)
    PROVE  Once(Append(list, y))
<1> DEFINE longer == Append(list, y)
<1>1. /\ Len(longer) = Len(list) + 1 /\ Len(list) \in Nat
      /\ \A i \in 1..Len(list) : longer[i] = list[i]
      /\ longer[Len(list) + 1] = y
  OBVIOUS
<1> HIDE DEF longer
<1>2. \A i \in 1..Len(longer) : i \in 1..Len(list) \/ i = Len(list) + 1  BY <1>1
<1>3. Once(longer)  BY <1>1, <1>2 DEF Once, Has
<1> QED  BY <1>3 DEF longer

(* A request taken out of where it was is answered, or goes nowhere because *)
(* its connection is gone.                                                  *)
LEMMA AnsweredPlaces ==
    ASSUME NEW s \in Servers, NEW t \in Servers, NEW k, NEW r \in Requests, NEW p,
           NEW outcome \in {"success", "failed"},
           s.up[r] = <<>>, s.down[r] = <<>>, Due(s, r, p), Answered(s, t, r, outcome),
           p \in {"read", "consent", "region", "queue"}, t.up = s.up,
           ~ Coming(t, k, r), \A l \in Held : ~ Has(t[l], r), ~ Has(t.queue, r)
    PROVE  /\ Len(t.down[r]) <= 1
           /\ \E q \in PlaceNames : Placed(t, k, r, q) /\ Due(t, r, q)
<1>0. s.down[r] = <<>> /\ s.up[r] = <<>>  OBVIOUS
<1>1. portal[r] # "idle"  BY DEF Due
<1>2. CASE Has(s.clients, r) /\ r \notin gone
  <2>1. Has(t.clients, r) /\ t.down[r] = <<Answer(outcome)>>
    BY <1>0, <1>2 DEF Answered, SameConn
  <2>2. t.down[r] # <<>> /\ Len(t.down[r]) = 1  BY <2>1
  <2>3. Placed(t, k, r, "answered")  BY <1>0, <2>2 DEF Placed, Held
  <2>4. Due(t, r, "answered")  BY <1>1, <1>2, <2>1 DEF Due
  <2> QED  BY <2>2, <2>3, <2>4 DEF PlaceNames
<1>3. CASE ~ (Has(s.clients, r) /\ r \notin gone)
  <2>1. t.down[r] = <<>>  BY <1>0, <1>3 DEF Answered, SameDown
  <2>2. Placed(t, k, r, "nowhere")  BY <1>0, <2>1 DEF Placed, Held
  <2>3. ~ (portal[r] = "waiting" /\ running)  BY <1>3 DEF Due
  <2>4. Due(t, r, "nowhere")  BY <1>1, <2>3 DEF Due
  <2> QED  BY <2>1, <2>2, <2>4 DEF PlaceNames
<1> QED  BY <1>2, <1>3

LEMMA ResolveSafe ==
    ASSUME NEW s \in Servers, Safe(s, 0), NEW list \in Held, NEW r \in Requests,
           NEW yes \in BOOLEAN, Has(s[list], r)
    PROVE  Safe(Resolve(s, list, r, yes), 0)
<1>1. PICK t \in Servers :
         /\ Resolve(s, list, r, yes) = t
         /\ \A l \in Held : l # list => t[l] = s[l]
         /\ \A x : Has(t[list], x) <=> Has(s[list], x) /\ x # r
         /\ Once(s[list]) => Once(t[list])
         /\ IF yes
            THEN /\ t.queue = Append(s.queue, r)
                 /\ \A q \in Requests : SameDown(s, t, q) /\ SameConn(s, t, q)
            ELSE t.queue = s.queue /\ Answered(s, t, r, "failed")
         /\ SameInput(s, t)
  BY ResolveIs
<1>2. PICK p \in PlaceNames : Placed(s, 0, r, p) /\ Due(s, r, p)  BY DEF Safe
<1>3. p = list  BY <1>2 DEF Placed
<1>4. \A l \in Held : ~ Has(t[l], r)  BY <1>1, <1>2, <1>3 DEF Placed
<1>5. \A q \in Requests : \A n : Coming(s, n, q) <=> Coming(t, n, q)
  BY <1>1 DEF SameInput, Coming
<1>6. ~ Coming(t, 0, r) /\ s.up[r] = <<>> /\ s.down[r] = <<>> /\ ~ Has(s.queue, r)
  BY <1>2, <1>3, <1>5 DEF Placed, Held
<1>7. s.queue \in Seq(Requests) /\ Once(s.queue)  BY ListTypes DEF Safe, Neat
<1>8. \A l \in Held : Once(t[l])  BY <1>1 DEF Safe, Neat
<1>9. t.up = s.up /\ t.inbox = s.inbox /\ t.backlog = s.backlog  BY <1>1 DEF SameInput
<1>10. CASE yes
  <2>1. /\ t.queue = Append(s.queue, r)
        /\ \A q \in Requests : SameDown(s, t, q) /\ SameConn(s, t, q)
    BY <1>1, <1>10
  <2>2. \A x : Has(Append(s.queue, r), x) <=> Has(s.queue, x) \/ x = r  BY <1>7, HasAppend
  <2>3. Once(t.queue)  BY <1>6, <1>7, <2>1, OnceAppend
  <2>4. Neat(t)  BY <1>8, <1>9, <2>1, <2>3 DEF Safe, Neat, SameDown
  <2>5. ASSUME NEW q \in Requests, q # r
        PROVE  Untouched(s, 0, t, 0, q)
    BY <1>1, <1>5, <1>9, <2>1, <2>2, <2>5 DEF Untouched, SameConn
  <2>6. Placed(t, 0, r, "queue")
    BY <1>4, <1>6, <1>9, <2>1, <2>2 DEF Placed, SameDown, Held
  <2>7. Due(t, r, "queue")
    BY <1>2, <1>3, <1>9, <2>1 DEF Due, SameConn, Held
  <2>8. ASSUME NEW q \in Requests
        PROVE  \E x \in PlaceNames : Placed(t, 0, q, x) /\ Due(t, q, x)
    <3>1. CASE q = r  BY <2>6, <2>7, <3>1 DEF PlaceNames
    <3>2. CASE q # r
      <4>1. PICK x \in PlaceNames : Placed(s, 0, q, x) /\ Due(s, q, x)  BY DEF Safe
      <4>2. Untouched(s, 0, t, 0, q)  BY <2>5, <3>2
      <4> QED  BY <4>1, <4>2, Unmoved
    <3> QED  BY <3>1, <3>2
  <2> QED  BY <1>1, <2>4, <2>8 DEF Safe
<1>11. CASE ~ yes
  <2>1. t.queue = s.queue /\ Answered(s, t, r, "failed")  BY <1>1, <1>11
  <2>2. /\ Len(t.down[r]) <= 1
        /\ \E q \in PlaceNames : Placed(t, 0, r, q) /\ Due(t, r, q)
    BY <1>2, <1>3, <1>4, <1>6, <1>9, <2>1, AnsweredPlaces DEF Held
  <2>3. \A q \in Requests : q # r => SameDown(s, t, q) /\ SameConn(s, t, q)
    BY <2>1 DEF Answered
  <2>4. \A q \in Requests : Len(t.down[q]) <= 1
    BY <2>2, <2>3 DEF Safe, Neat, SameDown
  <2>5. Neat(t)  BY <1>8, <1>9, <2>1, <2>4 DEF Safe, Neat
  <2>6. ASSUME NEW q \in Requests, q # r
        PROVE  Untouched(s, 0, t, 0, q)
    BY <1>1, <1>5, <1>9, <2>1, <2>3, <2>6 DEF Untouched, SameConn
  <2>7. ASSUME NEW q \in Requests
        PROVE  \E x \in PlaceNames : Placed(t, 0, q, x) /\ Due(t, q, x)
    <3>1. CASE q = r  BY <2>2, <3>1
    <3>2. CASE q # r
      <4>1. PICK x \in PlaceNames : Placed(s, 0, q, x) /\ Due(s, q, x)  BY DEF Safe
      <4>2. Untouched(s, 0, t, 0, q)  BY <2>6, <3>2
      <4> QED  BY <4>1, <4>2, Unmoved
    <3> QED  BY <3>1, <3>2
  <2> QED  BY <1>1, <2>5, <2>7 DEF Safe
<1> QED  BY <1>10, <1>11

LEMMA CommandSafe ==
    ASSUME NEW s \in Servers, Safe(s, 0), NEW heard \in HeardSpace
    PROVE  Safe(HandleCommand(s, heard), 0)
<1> DEFINE x == heard.line
<1>1. CASE HandleCommand(s, heard) = s  BY <1>1
<1>2. CASE /\ x.kind \in Held /\ x.req \in Requests /\ x.yes \in BOOLEAN
           /\ Has(s[x.kind], x.req)
           /\ HandleCommand(s, heard) = Resolve(s, x.kind, x.req, x.yes)
  <2> HIDE DEF x
  <2> QED  BY <1>2, ResolveSafe
<1>3. CASE /\ x.kind = "switch" /\ x.req \in Workspaces
           /\ ~ s.grabbed \/ x.req = s.workspace
           /\ HandleCommand(s, heard) = SwitchTo(s, x.req)
  <2> HIDE DEF x
  <2>1. PICK t \in Servers :
           /\ SwitchTo(s, x.req) = t
           /\ \A r \in Requests : SameDown(s, t, r) /\ SameConn(s, t, r)
           /\ SameInput(s, t) /\ SameLists(s, t)
    BY <1>3, SwitchIs
  <2>2. \A l \in Held : t[l] = s[l]  BY <2>1, ListTypes DEF SameLists, Held
  <2>3. Neat(t)  BY <2>1, <2>2 DEF Safe, Neat, SameLists, SameInput, SameDown
  <2>4. \A r \in Requests : Untouched(s, 0, t, 0, r)
    BY <2>1, <2>2 DEF Untouched, SameConn, SameLists, SameInput, Coming
  <2> QED  BY <1>3, <2>1, <2>3, <2>4, AllUnmoved
<1>4. CASE HandleCommand(s, heard) = [s EXCEPT !.ignored = @ \cup {heard.conn}]
  <2>1. heard.conn \in Conns  BY DEF HeardSpace, Conns
  <2>2. PICK t \in Servers :
           /\ [s EXCEPT !.ignored = @ \cup {heard.conn}] = t
           /\ t.down = s.down /\ t.clients = s.clients
           /\ SameInput(s, t) /\ SameLists(s, t)
    BY <2>1, IgnoreIs
  <2>3. \A l \in Held : t[l] = s[l]  BY <2>2, ListTypes DEF SameLists, Held
  <2>4. Neat(t)  BY <2>2, <2>3 DEF Safe, Neat, SameLists, SameInput
  <2>5. \A r \in Requests : Untouched(s, 0, t, 0, r)
    BY <2>2, <2>3 DEF Untouched, SameDown, SameLists, SameInput, Coming
  <2> QED  BY <1>4, <2>2, <2>4, <2>5, AllUnmoved
<1> QED  BY <1>1, <1>2, <1>3, <1>4, CommandIs

(* The next request of the inbox is no longer coming; the others still are. *)
LEMMA ComingNext ==
    ASSUME NEW s \in Servers, NEW n \in Nat, n+1 \in 1..Len(s.inbox), Neat(s)
    PROVE  /\ s.inbox[n+1] \in HeardSpace
           /\ \A r \in Requests :
                 IF r = s.inbox[n+1].conn THEN Coming(s, n, r) /\ ~ Coming(s, n+1, r)
                 ELSE Coming(s, n, r) <=> Coming(s, n+1, r)
<1>1. s.inbox \in Seq(HeardSpace)  BY ListTypes
<1>2. s.inbox[n+1] \in HeardSpace  BY <1>1
<1>3. Len(s.inbox) \in Nat  BY <1>1
<1>4. n+1 \in n+1..Len(s.inbox)  BY <1>3
<1>5. \A i \in n+1..Len(s.inbox) : i = n+1 \/ i \in (n+1)+1..Len(s.inbox)  BY <1>3
<1>6. \A i \in (n+1)+1..Len(s.inbox) : i \in n+1..Len(s.inbox) /\ i # n+1 /\ i \in 1..Len(s.inbox)
  BY <1>3
<1>7. ASSUME NEW r \in Requests, r = s.inbox[n+1].conn
      PROVE  Coming(s, n, r) /\ ~ Coming(s, n+1, r)
  <2>1. Coming(s, n, r)  BY <1>4, <1>7 DEF Coming
  <2>2. ~ Coming(s, n+1, r)  BY <1>6, <1>7 DEF Coming, Neat
  <2> QED  BY <2>1, <2>2
<1>8. ASSUME NEW r \in Requests, r # s.inbox[n+1].conn
      PROVE  Coming(s, n, r) <=> Coming(s, n+1, r)
  BY <1>5, <1>6, <1>8 DEF Coming
<1> QED  BY <1>2, <1>7, <1>8

LEMMA RequestSafe ==
    ASSUME NEW s \in Servers, NEW n \in Nat, n+1 \in 1..Len(s.inbox), Safe(s, n)
    PROVE  Safe(HandleRequest(s, s.inbox[n+1]), n+1)
<1> DEFINE heard == s.inbox[n+1]
           r == heard.conn
<1>0. /\ heard \in HeardSpace
      /\ \A q \in Requests : IF q = r THEN Coming(s, n, q) /\ ~ Coming(s, n+1, q)
                             ELSE Coming(s, n, q) <=> Coming(s, n+1, q)
      /\ Neat(s)
  BY ComingNext DEF Safe
<1> HIDE DEF heard, r
<1>1. CASE heard.line \in ShellLine /\ HandleRequest(s, heard) = s
  <2>1. r \notin Requests
    <3>1. heard.line.kind # "screenshot"  BY <1>1, LineKinds
    <3>2. heard.line \notin Shot  BY <3>1, LineKinds
    <3>3. heard.conn \in ShellConns  BY <1>0, <3>2 DEF HeardSpace
    <3> QED  BY <3>3, BridgeAssumption DEF r
  <2>2. \A q \in Requests : Untouched(s, n, s, n+1, q)
    BY <1>0, <2>1 DEF Untouched, SameDown
  <2>3. Safe(s, n+1)  BY <1>0, <2>2, AllUnmoved
  <2> QED  BY <1>1, <2>3 DEF heard
<1>2. ASSUME r \in Requests
      PROVE  /\ s.up[r] = <<>> /\ s.down[r] = <<>> /\ ~ Has(s.queue, r)
             /\ \A l \in Held : ~ Has(s[l], r)
             /\ Placed(s, n, r, "read") /\ Due(s, r, "read")
  <2>1. PICK p \in PlaceNames : Placed(s, n, r, p) /\ Due(s, r, p)  BY <1>2 DEF Safe
  <2>2. p = "read"  BY <1>0, <1>2, <2>1 DEF Placed
  <2> QED  BY <2>1, <2>2 DEF Placed, Held
<1>3. CASE r \in Requests /\ DevCapture
           /\ HandleRequest(s, heard) = [s EXCEPT !.queue = Append(s.queue, r)]
  <2>1. s.queue \in Seq(Requests)  BY ListTypes
  <2>2. Append(s.queue, r) \in Seq(Requests)  BY <1>3, <2>1
  <2>3. PICK t \in Servers :
           /\ [s EXCEPT !.queue = Append(s.queue, r)] = t
           /\ t.queue = Append(s.queue, r) /\ \A l \in Held : t[l] = s[l]
           /\ t.down = s.down /\ t.clients = s.clients
           /\ SameInput(s, t)
    BY <2>2, SetQueue
  <2>4. /\ \A x : Has(Append(s.queue, r), x) <=> Has(s.queue, x) \/ x = r
        /\ Once(Append(s.queue, r))
    BY <1>0, <1>2, <1>3, <2>1, HasAppend, OnceAppend DEF Neat
  <2>5. Neat(t)  BY <1>0, <2>3, <2>4 DEF Neat, SameInput
  <2>6. \A q \in Requests : q # r => Untouched(s, n, t, n+1, q)
    BY <1>0, <2>3, <2>4 DEF Untouched, SameDown, SameInput, Coming
  <2>7. Placed(t, n+1, r, "queue")
    <3>1. ~ Coming(t, n+1, r)  BY <1>0, <1>3, <2>3 DEF Coming, SameInput
    <3> QED  BY <1>2, <1>3, <2>3, <2>4, <3>1 DEF Placed, SameInput, Held
  <2>8. Due(t, r, "queue")  BY <1>2, <1>3, <2>3 DEF Due
  <2>9. ASSUME NEW q \in Requests
        PROVE  \E x \in PlaceNames : Placed(t, n+1, q, x) /\ Due(t, q, x)
    <3>1. CASE q = r  BY <2>7, <2>8, <3>1 DEF PlaceNames
    <3>2. CASE q # r
      <4>1. PICK x \in PlaceNames : Placed(s, n, q, x) /\ Due(s, q, x)  BY DEF Safe
      <4>2. Untouched(s, n, t, n+1, q)  BY <2>6, <3>2
      <4> QED  BY <4>1, <4>2, Unmoved
    <3> QED  BY <3>1, <3>2
  <2>10. Safe(t, n+1)  BY <2>5, <2>9 DEF Safe
  <2> QED  BY <1>3, <2>3, <2>10 DEF heard
<1>4. ASSUME r \in Requests, NEW t \in Servers, SameInput(s, t), t.queue = s.queue,
             \A l \in Held : t[l] = s[l],
             Answered(s, t, r, "failed")
      PROVE  Safe(t, n+1)
  <2>1. t.up = s.up /\ t.inbox = s.inbox /\ t.backlog = s.backlog  BY <1>4 DEF SameInput
  <2>2. \A q : Coming(t, n+1, q) <=> Coming(s, n+1, q)  BY <2>1 DEF Coming
  <2>3. ~ Coming(t, n+1, r) /\ ~ Has(t.queue, r) /\ \A l \in Held : ~ Has(t[l], r)
    BY <1>0, <1>2, <1>4, <2>2
  <2>4. /\ Len(t.down[r]) <= 1
        /\ \E q \in PlaceNames : Placed(t, n+1, r, q) /\ Due(t, r, q)
    BY <1>2, <1>4, <2>1, <2>3, AnsweredPlaces
  <2>5. \A q \in Requests : q # r => SameDown(s, t, q) /\ SameConn(s, t, q)
    BY <1>4 DEF Answered
  <2>6. \A q \in Requests : Len(t.down[q]) <= 1
    BY <1>0, <2>4, <2>5 DEF Neat, SameDown
  <2>7. Neat(t)  BY <1>0, <1>4, <2>1, <2>6 DEF Neat
  <2>8. \A q \in Requests : q # r => Untouched(s, n, t, n+1, q)
    BY <1>0, <1>4, <2>1, <2>2, <2>5 DEF Untouched, SameConn
  <2>9. ASSUME NEW q \in Requests
        PROVE  \E x \in PlaceNames : Placed(t, n+1, q, x) /\ Due(t, q, x)
    <3>1. CASE q = r  BY <2>4, <3>1
    <3>2. CASE q # r
      <4>1. PICK x \in PlaceNames : Placed(s, n, q, x) /\ Due(s, q, x)  BY DEF Safe
      <4>2. Untouched(s, n, t, n+1, q)  BY <2>8, <3>2
      <4> QED  BY <4>1, <4>2, Unmoved
    <3> QED  BY <3>1, <3>2
  <2> QED  BY <2>7, <2>9 DEF Safe
<1>5. CASE r \in Requests /\ \E list \in Held : HandleRequest(s, heard) = Ask(s, list, r)
  <2>1. PICK list \in Held : HandleRequest(s, heard) = Ask(s, list, r)  BY <1>5
  <2>2. PICK t \in Servers :
           /\ Ask(s, list, r) = t
           /\ \A l \in Held : l # list => t[l] = s[l]
           /\ t.queue = s.queue
           /\ \/ /\ t[list] = Append(s[list], r)
                 /\ \A q \in Requests : SameDown(s, t, q) /\ SameConn(s, t, q)
              \/ t[list] = s[list] /\ Answered(s, t, r, "failed")
           /\ SameInput(s, t)
    BY <1>5, AskIs
  <2>3. CASE t[list] = s[list] /\ Answered(s, t, r, "failed")
    <3>1. \A l \in Held : t[l] = s[l]  BY <2>2, <2>3
    <3>2. Safe(t, n+1)  BY <1>4, <1>5, <2>2, <2>3, <3>1
    <3> QED  BY <2>1, <2>2, <3>2 DEF heard
  <2>4. CASE /\ t[list] = Append(s[list], r)
             /\ \A q \in Requests : SameDown(s, t, q) /\ SameConn(s, t, q)
    <3>0. s[list] \in Seq(Requests)  BY ListTypes
    <3>1. /\ \A x : Has(Append(s[list], r), x) <=> Has(s[list], x) \/ x = r
          /\ Once(Append(s[list], r))
      BY <1>0, <1>2, <1>5, <3>0, HasAppend, OnceAppend DEF Neat
    <3>2. t.up = s.up /\ t.inbox = s.inbox /\ t.backlog = s.backlog  BY <2>2 DEF SameInput
    <3>3. \A q : Coming(t, n+1, q) <=> Coming(s, n+1, q)  BY <3>2 DEF Coming
    <3>4. \A l \in Held : Once(t[l])  BY <1>0, <2>2, <2>4, <3>1 DEF Neat
    <3>5. Neat(t)  BY <1>0, <2>2, <2>4, <3>2, <3>4 DEF Neat, SameDown
    <3>6. \A l \in Held : \A q : q # r => (Has(t[l], q) <=> Has(s[l], q))
      BY <2>2, <2>4, <3>1
    <3>7. \A q \in Requests : q # r => Untouched(s, n, t, n+1, q)
      BY <1>0, <2>2, <2>4, <3>2, <3>3, <3>6 DEF Untouched, SameConn
    <3>8. Placed(t, n+1, r, list)
      <4>1. \A l \in Held : Has(t[l], r) <=> list = l  BY <1>2, <1>5, <2>2, <2>4, <3>1
      <4>2. list \in {"consent", "region"}  BY DEF Held
      <4>3. t.up[r] = <<>> /\ t.down[r] = <<>> /\ ~ Has(t.queue, r) /\ ~ Coming(t, n+1, r)
        BY <1>0, <1>2, <1>5, <2>2, <2>4, <3>2, <3>3 DEF SameDown
      <4> QED  BY <4>1, <4>2, <4>3 DEF Placed
    <3>9. Due(t, r, list)
      BY <1>2, <1>5, <2>4, <3>2 DEF Due, SameConn, Held
    <3>10. ASSUME NEW q \in Requests
           PROVE  \E x \in PlaceNames : Placed(t, n+1, q, x) /\ Due(t, q, x)
      <4>1. CASE q = r  BY <3>8, <3>9, <4>1 DEF PlaceNames, Held
      <4>2. CASE q # r
        <5>1. PICK x \in PlaceNames : Placed(s, n, q, x) /\ Due(s, q, x)  BY DEF Safe
        <5>2. Untouched(s, n, t, n+1, q)  BY <3>7, <4>2
        <5> QED  BY <5>1, <5>2, Unmoved
      <4> QED  BY <4>1, <4>2
    <3>11. Safe(t, n+1)  BY <3>5, <3>10 DEF Safe
    <3> QED  BY <2>1, <2>2, <3>11 DEF heard
  <2> QED  BY <2>2, <2>3, <2>4
<1>6. CASE r \in Requests /\ HandleRequest(s, heard) = Respond(s, r, "failed")
  <2>1. PICK t \in Servers :
           /\ Respond(s, r, "failed") = t
           /\ \A c \in Conns : c # r => SameDown(s, t, c) /\ SameConn(s, t, c)
           /\ Has(s.clients, r) /\ r \notin gone =>
                 SameConn(s, t, r) /\ t.down[r] = Append(s.down[r], Answer("failed"))
           /\ ~ (Has(s.clients, r) /\ r \notin gone) => SameDown(s, t, r)
           /\ SameInput(s, t) /\ SameLists(s, t)
    BY <1>6, RespondIs
  <2>2. Answered(s, t, r, "failed")  BY <2>1 DEF Answered, Conns
  <2>3. t.queue = s.queue /\ \A l \in Held : t[l] = s[l]
    BY <2>1, ListTypes DEF SameLists, Held
  <2>4. Safe(t, n+1)  BY <1>4, <1>6, <2>1, <2>2, <2>3
  <2> QED  BY <1>6, <2>1, <2>4 DEF heard
<1> QED  BY <1>0, <1>1, <1>3, <1>5, <1>6, RequestIs DEF r, heard

LEMMA ConcatIs ==
    ASSUME NEW T, NEW a \in Seq(T), NEW b \in Seq(T)
    PROVE  /\ Len(a \o b) = Len(a) + Len(b) /\ Len(a) \in Nat /\ Len(b) \in Nat
           /\ \A i \in 1..Len(a) : (a \o b)[i] = a[i]
           /\ \A i \in 1..Len(b) : (a \o b)[Len(a) + i] = b[i]
BY ConcatProperties

-----------------------------------------------------------------------------
(* poll_ipc.  m commands and n requests of the inbox have been handled.     *)

Keeps(s, m, n) == s \in Servers /\ Lawful(s) /\ Follows(s, m) /\ Safe(s, n)

LEMMA AcceptKeeps ==
    ASSUME NEW s, Keeps(s, 0, 0)
    PROVE  Keeps(AcceptAll(s), 0, 0) /\ AcceptAll(s).backlog = <<>>
<1>0. s \in Servers  BY DEF Keeps
<1>1. PICK t \in Servers :
         /\ AcceptAll(s) = t
         /\ t.role = s.role /\ t.told = s.told
         /\ \A c : Has(t.clients, c) <=> Has(s.clients, c) \/ Has(s.backlog, c)
         /\ t.backlog = <<>> /\ t.up = s.up /\ t.inbox = s.inbox /\ t.down = s.down
         /\ SameLists(s, t) /\ t.workspace = s.workspace /\ t.ignored = s.ignored
  BY <1>0, AcceptIs
<1>2. \A l \in Held : t[l] = s[l]  BY <1>0, <1>1, ListTypes DEF SameLists, Held
<1>3. Lawful(t)  BY <1>1 DEF Keeps, Lawful, SameLists
<1>4. Follows(t, 0)  BY <1>1 DEF Keeps, Follows, Pending
<1>5. Neat(t)  BY <1>1, <1>2 DEF Keeps, Safe, Neat, SameLists
<1>6. \A r \in Requests : Untouched(s, 0, t, 0, r)
  BY <1>1, <1>2 DEF Untouched, SameDown, Coming, SameLists
<1>7. Safe(t, 0)  BY <1>5, <1>6, AllUnmoved DEF Keeps
<1> QED  BY <1>1, <1>3, <1>4, <1>7 DEF Keeps

LEMMA ReadKeeps ==
    ASSUME NEW s, Keeps(s, 0, 0), s.backlog = <<>>, NEW c \in Conns
    PROVE  Keeps(ReadClient(s, c), 0, 0) /\ ReadClient(s, c).backlog = <<>>
<1>0. s \in Servers  BY DEF Keeps
<1>1. PICK t \in Servers : \E new \in Seq(HeardSpace) :
         ReadClient(s, c) = t /\ ReadInto(s, c, t, new)
  BY <1>0, ReadIs
<1>2. PICK new \in Seq(HeardSpace) : ReadClient(s, c) = t /\ ReadInto(s, c, t, new)
  BY <1>1
<1>21. /\ s.role \subseteq t.role /\ t.told = s.told
       /\ t.clients = s.clients /\ t.backlog = s.backlog /\ t.down = s.down
       /\ t.up[c] = <<>> /\ \A d \in Conns : d # c => t.up[d] = s.up[d]
       /\ SameLists(s, t) /\ t.workspace = s.workspace /\ t.ignored = s.ignored
       /\ Len(new) = Len(s.up[c])
  BY <1>2 DEF ReadInto
<1>22. t.inbox = s.inbox \o new  BY <1>2 DEF ReadInto
<1>23. \A i \in 1..Len(new) : /\ new[i].conn = c /\ new[i].line = s.up[c][i]
                              /\ c \in s.role => new[i].trusted
  BY <1>2 DEF ReadInto
<1>3. s.inbox \in Seq(HeardSpace) /\ \A d \in Conns : s.up[d] \in Seq(Shot \cup ShellLine)
  BY <1>0, ListTypes
<1>4. /\ Len(t.inbox) = Len(s.inbox) + Len(new)
      /\ Len(s.inbox) \in Nat /\ Len(new) \in Nat
      /\ \A i \in 1..Len(s.inbox) : t.inbox[i] = s.inbox[i]
      /\ \A i \in 1..Len(new) : t.inbox[Len(s.inbox) + i] = new[i]
  <2> DEFINE a == s.inbox
  <2>1. a \in Seq(HeardSpace)  BY <1>3
  <2> HIDE DEF a
  <2>2. /\ Len(a \o new) = Len(a) + Len(new) /\ Len(a) \in Nat /\ Len(new) \in Nat
        /\ \A i \in 1..Len(a) : (a \o new)[i] = a[i]
        /\ \A i \in 1..Len(new) : (a \o new)[Len(a) + i] = new[i]
    BY <2>1, ConcatIs
  <2>3. t.inbox = a \o new  BY <1>22 DEF a
  <2> QED  BY <2>2, <2>3 DEF a
<1> DEFINE L == Len(s.inbox)
           N == Len(new)
<1>5. /\ \A i \in 1..Len(t.inbox) : i \in 1..L \/ (i - L \in 1..N /\ i = L + (i - L))
      /\ \A i \in 1..L : i \in 1..Len(t.inbox)
      /\ \A i \in 1..N : L + i \in 1..Len(t.inbox)
  BY <1>4
<1> HIDE DEF L, N
<1>6. /\ \A i \in 1..L : t.inbox[i] = s.inbox[i]
      /\ \A i \in 1..N : /\ t.inbox[L + i].conn = c /\ t.inbox[L + i].line = s.up[c][i]
                         /\ c \in s.role => t.inbox[L + i].trusted
  BY <1>4, <1>23 DEF L, N
<1>7. \A l \in Held : t[l] = s[l]  BY <1>0, <1>21, ListTypes DEF SameLists, Held
<1>8. Lawful(t)
  <2>1. \A d \in ShellConns : \A i \in 1..Len(t.up[d]) : Permitted(t.up[d][i])
    <3> TAKE d \in ShellConns
    <3>1. CASE d = c
      <4>1. Len(t.up[d]) = 0  BY <1>21, <3>1
      <4> QED  BY <4>1
    <3>2. CASE d # c
      <4>1. t.up[d] = s.up[d]  BY <1>21, <3>2 DEF Conns
      <4> QED  BY <4>1 DEF Keeps, Lawful
    <3> QED  BY <3>1, <3>2
  <2>2. \A i \in 1..Len(s.up[c]) : Permitted(s.up[c][i])
    <3>1. CASE c \in ShellConns  BY <3>1 DEF Keeps, Lawful
    <3>2. CASE c \in Requests
      <4>1. s.up[c] \in Seq(Shot)  BY <1>0, <3>2, ListTypes
      <4>2. \A i \in 1..Len(s.up[c]) : s.up[c][i].kind = "screenshot"  BY <4>1, LineKinds
      <4> QED  BY <4>2 DEF Permitted, Held
    <3> QED  BY <3>1, <3>2 DEF Conns
  <2>3. \A i \in 1..L : Permitted(s.inbox[i].line)  BY DEF Keeps, Lawful, L
  <2>4. ASSUME NEW i \in 1..Len(t.inbox) PROVE Permitted(t.inbox[i].line)
    <3>1. CASE i \in 1..L  BY <1>6, <2>3, <3>1
    <3>2. CASE i - L \in 1..N /\ i = L + (i - L)
      <4>1. t.inbox[i].line = s.up[c][i - L]  BY <1>6, <3>2
      <4>2. i - L \in 1..Len(s.up[c])  BY <1>21, <3>2 DEF N
      <4> QED  BY <2>2, <4>1, <4>2
    <3> QED  BY <1>5, <3>1, <3>2
  <2>5. \A r \in Requests : Has(t.queue, r) => Allowed(r)
    BY <1>21 DEF Keeps, Lawful, SameLists
  <2>6. \A r \in Requests : Has(t.down[r], Answer("success")) => Allowed(r)
    BY <1>21 DEF Keeps, Lawful
  <2>7. \A i \in 1..Len(shell.todo) : Permitted(shell.todo[i])  BY DEF Keeps, Lawful
  <2>8. shell.todo # <<>> => shell.conn \in ShellConns /\ t.up[shell.conn] = <<>>
    <3> HAVE shell.todo # <<>>
    <3>1. shell.conn \in ShellConns /\ s.up[shell.conn] = <<>>  BY DEF Keeps, Lawful
    <3>2. shell.conn \in Conns  BY <3>1 DEF Conns
    <3> QED  BY <1>21, <3>1, <3>2
  <2> QED  BY <2>1, <2>4, <2>5, <2>6, <2>7, <2>8 DEF Lawful
<1>9. Follows(t, 0)
  <2>1. ASSUME NEW w, shell.conn \in s.told, Pending(s, 0, shell.conn, w)
        PROVE  Pending(t, 0, shell.conn, w)
    <3>1. shell.conn \in Conns /\ shell.conn \in s.role
      BY <1>0, <2>1, ListTypes DEF Conns
    <3>2. CASE \E i \in 0+1..Len(s.inbox) :
                 /\ s.inbox[i].conn = shell.conn /\ s.inbox[i].trusted
                 /\ IsSwitch(s.inbox[i].line, w)
      <4>1. PICK i \in 1..L : /\ s.inbox[i].conn = shell.conn /\ s.inbox[i].trusted
                              /\ IsSwitch(s.inbox[i].line, w)
        BY <3>2 DEF L
      <4>2. i \in 0+1..Len(t.inbox) /\ t.inbox[i] = s.inbox[i]  BY <1>5, <1>6
      <4> QED  BY <4>1, <4>2 DEF Pending
    <3>3. CASE \E i \in 1..Len(s.up[shell.conn]) : IsSwitch(s.up[shell.conn][i], w)
      <4>1. PICK i \in 1..Len(s.up[shell.conn]) : IsSwitch(s.up[shell.conn][i], w)  BY <3>3
      <4>2. CASE shell.conn = c
        <5>1. i \in 1..N  BY <1>21, <4>1, <4>2 DEF N
        <5>2. /\ L + i \in 0+1..Len(t.inbox) /\ t.inbox[L + i].conn = c
              /\ t.inbox[L + i].trusted /\ t.inbox[L + i].line = s.up[c][i]
          BY <1>5, <1>6, <3>1, <4>2, <5>1
        <5> QED  BY <4>1, <4>2, <5>2 DEF Pending
      <4>3. CASE shell.conn # c
        <5>1. t.up[shell.conn] = s.up[shell.conn]  BY <1>21, <3>1, <4>3
        <5> QED  BY <4>1, <5>1 DEF Pending
      <4> QED  BY <4>2, <4>3
    <3> QED  BY <2>1, <3>2, <3>3 DEF Pending
  <2> QED  BY <1>21, <2>1 DEF Keeps, Follows
<1>10. Safe(s, 0) /\ Neat(s)  BY DEF Keeps, Safe
<1>11. \A r \in Requests : r # c => (Coming(s, 0, r) <=> Coming(t, 0, r))
  <2> TAKE r \in Requests
  <2> HAVE r # c
  <2>1. Coming(s, 0, r) => Coming(t, 0, r)
    <3> HAVE Coming(s, 0, r)
    <3>1. PICK i \in 1..L : s.inbox[i].conn = r  BY DEF Coming, L
    <3>2. i \in 0+1..Len(t.inbox) /\ t.inbox[i] = s.inbox[i]  BY <1>5, <1>6
    <3> QED  BY <3>1, <3>2 DEF Coming
  <2>2. Coming(t, 0, r) => Coming(s, 0, r)
    <3> HAVE Coming(t, 0, r)
    <3>1. PICK i \in 1..Len(t.inbox) : t.inbox[i].conn = r  BY DEF Coming
    <3>2. ~ (i - L \in 1..N /\ i = L + (i - L))  BY <1>6, <3>1
    <3>3. i \in 1..L  BY <1>5, <3>2
    <3>4. i \in 0+1..Len(s.inbox) /\ s.inbox[i].conn = r  BY <1>6, <3>1, <3>3 DEF L
    <3> QED  BY <3>4 DEF Coming
  <2> QED  BY <2>1, <2>2
<1>12. ASSUME NEW r \in Requests, r # c PROVE Untouched(s, 0, t, 0, r)
  BY <1>21, <1>7, <1>11, <1>12 DEF Untouched, SameDown, SameLists, Conns
<1>13. CASE c \in Requests /\ s.up[c] # <<>>
  <2>1. PICK p \in PlaceNames : Placed(s, 0, c, p) /\ Due(s, c, p)  BY <1>10, <1>13 DEF Safe
  <2>2. p = "unread"  BY <1>13, <2>1 DEF Placed
  <2>3. Len(s.up[c]) = 1
    <3>1. s.up[c] \in Seq(Shot \cup ShellLine)  BY <1>3
    <3>2. Len(s.up[c]) <= 1  BY <1>10, <1>13 DEF Neat
    <3>3. Len(s.up[c]) \in Nat \ {0}  BY <1>13, <3>1, EmptySeq
    <3> DEFINE k == Len(s.up[c])
    <3>4. k <= 1 /\ k \in Nat \ {0}  BY <3>2, <3>3
    <3> HIDE DEF k
    <3>5. k = 1  BY <3>4
    <3> QED  BY <3>5 DEF k
  <2>4. N = 1  BY <1>21, <2>3 DEF N
  <2>5. ~ Coming(s, 0, c)  BY <2>1, <2>2 DEF Placed
  <2>6. \A i \in 1..L : s.inbox[i].conn # c
    <3>1. \A i \in 1..L : i \in 0+1..Len(s.inbox)  BY DEF L
    <3> QED  BY <2>5, <3>1 DEF Coming
  <2>7. Coming(t, 0, c)
    <3>1. 1 \in 1..N  BY <2>4
    <3>2. L + 1 \in 1..Len(t.inbox) /\ t.inbox[L + 1].conn = c  BY <1>5, <1>6, <3>1
    <3> QED  BY <3>2 DEF Coming
  <2>8. Placed(t, 0, c, "read")
    BY <1>21, <1>7, <1>13, <2>1, <2>2, <2>7 DEF Placed, SameLists, Held
  <2>9. Due(t, c, "read")  BY <1>21, <2>1, <2>2 DEF Due, Has
  <2>10. \A i, j \in 1..Len(t.inbox) :
            t.inbox[i].conn = t.inbox[j].conn /\ t.inbox[i].conn \in Requests => i = j
    <3> SUFFICES ASSUME NEW i \in 1..Len(t.inbox), NEW j \in 1..Len(t.inbox),
                        t.inbox[i].conn = t.inbox[j].conn, t.inbox[i].conn \in Requests
                 PROVE  i = j
      OBVIOUS
    <3>1. CASE i \in 1..L /\ j \in 1..L
      <4>1. s.inbox[i].conn = s.inbox[j].conn /\ s.inbox[i].conn \in Requests  BY <1>6, <3>1
      <4>2. i \in 1..Len(s.inbox) /\ j \in 1..Len(s.inbox)  BY <3>1 DEF L
      <4> QED  BY <1>10, <4>1, <4>2 DEF Neat
    <3>2. ASSUME NEW a \in 1..Len(t.inbox), a \notin 1..L
          PROVE  a = L + 1 /\ t.inbox[a].conn = c
      <4>1. a - L \in 1..1 /\ a = L + (a - L)  BY <1>5, <2>4, <3>2
      <4>2. L \in Nat  BY <1>4 DEF L
      <4>3. a = L + 1  BY <4>1, <4>2
      <4> QED  BY <1>6, <2>4, <4>3
    <3>3. ASSUME NEW a \in 1..L PROVE t.inbox[a].conn # c  BY <1>6, <2>6
    <3> QED  BY <3>1, <3>2, <3>3
  <2>11. \A r \in Requests : Len(t.up[r]) <= 1
    <3> TAKE r \in Requests
    <3>1. CASE r = c  BY <1>21, <3>1
    <3>2. CASE r # c
      <4>1. t.up[r] = s.up[r]  BY <1>21, <3>2 DEF Conns
      <4> QED  BY <1>10, <4>1 DEF Neat
    <3> QED  BY <3>1, <3>2
  <2>12. Neat(t)  BY <1>21, <1>7, <1>10, <2>10, <2>11 DEF Neat, SameLists
  <2>13. ASSUME NEW r \in Requests
         PROVE  \E x \in PlaceNames : Placed(t, 0, r, x) /\ Due(t, r, x)
    <3>1. CASE r = c  BY <2>8, <2>9, <3>1 DEF PlaceNames
    <3>2. CASE r # c
      <4>1. PICK x \in PlaceNames : Placed(s, 0, r, x) /\ Due(s, r, x)  BY <1>10 DEF Safe
      <4>2. Untouched(s, 0, t, 0, r)  BY <1>12, <3>2
      <4> QED  BY <4>1, <4>2, Unmoved
    <3> QED  BY <3>1, <3>2
  <2> QED  BY <1>2, <1>21, <1>8, <1>9, <2>12, <2>13 DEF Keeps, Safe
<1>14. CASE ~ (c \in Requests /\ s.up[c] # <<>>)
  <2>1. ASSUME c \in Requests PROVE N = 0 /\ t.up[c] = s.up[c]
    BY <1>21, <1>14, <2>1 DEF N
  <2>2. \A r \in Requests : t.up[r] = s.up[r]  BY <1>21, <2>1 DEF Conns
  <2>3. ASSUME NEW r \in Requests PROVE Coming(s, 0, r) <=> Coming(t, 0, r)
    <3>1. CASE r # c  BY <1>11, <3>1
    <3>2. CASE r = c
      <4>1. Len(t.inbox) = L  BY <1>4, <2>1, <3>2 DEF L, N
      <4>2. \A i \in 0+1..L : t.inbox[i] = s.inbox[i]  BY <1>6
      <4>3. L = Len(s.inbox)  BY DEF L
      <4> QED  BY <4>1, <4>2, <4>3 DEF Coming
    <3> QED  BY <3>1, <3>2
  <2>4. \A r \in Requests : Untouched(s, 0, t, 0, r)
    BY <1>21, <1>7, <2>2, <2>3 DEF Untouched, SameDown, SameLists
  <2>5. \A i, j \in 1..Len(t.inbox) :
            t.inbox[i].conn = t.inbox[j].conn /\ t.inbox[i].conn \in Requests => i = j
    <3> SUFFICES ASSUME NEW i \in 1..Len(t.inbox), NEW j \in 1..Len(t.inbox),
                        t.inbox[i].conn = t.inbox[j].conn, t.inbox[i].conn \in Requests
                 PROVE  i = j
      OBVIOUS
    <3>1. ASSUME NEW a \in 1..Len(t.inbox), t.inbox[a].conn \in Requests PROVE a \in 1..L
      <4>1. SUFFICES ASSUME a - L \in 1..N /\ a = L + (a - L) PROVE FALSE  BY <1>5
      <4>2. t.inbox[a].conn = c  BY <1>6, <4>1
      <4>3. N = 0  BY <2>1, <3>1, <4>2
      <4> QED  BY <4>1, <4>3
    <3>2. i \in 1..L /\ j \in 1..L  BY <3>1
    <3>3. s.inbox[i].conn = s.inbox[j].conn /\ s.inbox[i].conn \in Requests  BY <1>6, <3>2
    <3>4. i \in 1..Len(s.inbox) /\ j \in 1..Len(s.inbox)  BY <3>2 DEF L
    <3> QED  BY <1>10, <3>3, <3>4 DEF Neat
  <2>6. Neat(t)  BY <1>21, <1>7, <1>10, <2>2, <2>5 DEF Neat, SameLists
  <2>7. Safe(t, 0)  BY <1>10, <2>4, <2>6, AllUnmoved
  <2> QED  BY <1>2, <1>21, <1>8, <1>9, <2>7 DEF Keeps
<1> QED  BY <1>13, <1>14

LEMMA RetainKeeps ==
    ASSUME NEW s, Keeps(s, 0, 0), NEW dead \in SUBSET Conns, dead \subseteq gone
    PROVE  Keeps(Retain(s, dead), 0, 0)
<1>0. s \in Servers  BY DEF Keeps
<1> DEFINE t == Retain(s, dead)
<1>1. /\ t \in Servers
      /\ t.told = s.told \ dead
      /\ \A c : Has(t.clients, c) <=> Has(s.clients, c) /\ c \notin dead
      /\ t.backlog = s.backlog /\ t.up = s.up /\ t.down = s.down
      /\ t.consent = s.consent /\ t.region = s.region
      /\ t.queue = s.queue /\ t.workspace = s.workspace /\ t.ignored = s.ignored
      /\ t.inbox = s.inbox
  BY <1>0, RetainIs
<1> HIDE DEF t
<1>2. \A l \in Held : t[l] = s[l]  BY <1>0, <1>1, ListTypes DEF Held
<1>3. Lawful(t)  BY <1>1 DEF Keeps, Lawful
<1>4. Follows(t, 0)  BY <1>1 DEF Keeps, Follows, Pending
<1>5. Neat(t)  BY <1>1, <1>2 DEF Keeps, Safe, Neat
<1>6. ASSUME NEW r \in Requests
      PROVE  \E p \in PlaceNames : Placed(t, 0, r, p) /\ Due(t, r, p)
  <2>1. PICK p \in PlaceNames : Placed(s, 0, r, p) /\ Due(s, r, p)  BY DEF Keeps, Safe
  <2>2. Placed(t, 0, r, p)  BY <1>1, <1>2, <2>1 DEF Placed, Coming
  <2>3. Due(t, r, p)  BY <1>1, <2>1 DEF Due
  <2> QED  BY <2>2, <2>3
<1>7. Safe(t, 0)  BY <1>5, <1>6 DEF Safe
<1> QED  BY <1>1, <1>3, <1>4, <1>7 DEF Keeps, t

LEMMA AnnounceKeeps ==
    ASSUME NEW s, Keeps(s, 0, 0)
    PROVE  Keeps(Announce(s), 0, 0)
<1>0. s \in Servers  BY DEF Keeps
<1>1. PICK t \in Servers :
         /\ Announce(s) = t
         /\ t.role \subseteq s.role
         /\ \A r \in Requests : t.down[r] = s.down[r]
         /\ \A r \in Requests : Has(t.clients, r) <=> Has(s.clients, r)
         /\ \A c \in t.told : t.down[c] = Append(s.down[c], Desk(s.workspace))
         /\ t.backlog = s.backlog /\ t.up = s.up
         /\ t.consent = s.consent /\ t.region = s.region /\ t.queue = s.queue
         /\ t.workspace = s.workspace /\ t.inbox = s.inbox
  BY <1>0, AnnounceIs
<1>2. \A l \in Held : t[l] = s[l]  BY <1>0, <1>1, ListTypes DEF Held
<1>3. Lawful(t)  BY <1>1 DEF Keeps, Lawful
<1>4. Follows(t, 0)
  <2>1. \A c \in t.told : s.down[c] \in Seq(Event)  BY <1>0, ListTypes DEF Conns
  <2>2. \A c \in t.told : \E T : /\ s.down[c] \in Seq(T)
                                 /\ t.down[c] = Append(s.down[c], Desk(t.workspace))
    BY <1>1, <2>1
  <2>3. Follows(s, 0)  BY DEF Keeps
  <2> QED  BY <1>0, <2>2, <2>3, StillFollows
<1>5. Neat(t)  BY <1>1, <1>2 DEF Keeps, Safe, Neat
<1>6. \A r \in Requests : Untouched(s, 0, t, 0, r)
  BY <1>1, <1>2 DEF Untouched, SameDown, Coming
<1>7. Safe(t, 0)  BY <1>5, <1>6, AllUnmoved DEF Keeps
<1> QED  BY <1>1, <1>3, <1>4, <1>7 DEF Keeps

LEMMA ReadAllKeeps ==
    ASSUME NEW s, Keeps(s, 0, 0), s.backlog = <<>>, NEW list \in Seq(Conns)
    PROVE  Keeps(Each("read", s, list), 0, 0) /\ Each("read", s, list).backlog = <<>>
<1>10. PICK g : Passes("read", s, list, g)  BY EachIs
<1>1. /\ g[0] = s
      /\ \A k \in 1..Len(list) : g[k] = Serve("read", g[k-1], list[k])
      /\ Each("read", s, list) = g[Len(list)]
  BY <1>10 DEF Passes
<1>0. Len(list) \in Nat  OBVIOUS
<1> DEFINE Good(k) == Keeps(g[k], 0, 0) /\ g[k].backlog = <<>>
           S == {k \in 0..Len(list) : Good(k)}
<1>2. 0 \in S
  <2>1. Good(0)  BY <1>1
  <2> QED  BY <1>0, <2>1
<1>3. ASSUME NEW k \in 0..Len(list)-1, k \in S PROVE k+1 \in S
  <2>1. k+1 \in 1..Len(list) /\ (k+1)-1 = k  BY <1>0
  <2>2. list[k+1] \in Conns  BY <2>1
  <2>3. g[k+1] = ReadClient(g[k], list[k+1])  BY <1>1, <2>1 DEF Serve
  <2>4. Good(k)  BY <1>3
  <2>5. Good(k+1)
    <3>1. Keeps(ReadClient(g[k], list[k+1]), 0, 0) /\ ReadClient(g[k], list[k+1]).backlog = <<>>
      BY <2>2, <2>4, ReadKeeps
    <3> QED  BY <2>3, <3>1
  <2> QED  BY <2>1, <2>5
<1>4. Len(list) \in S
  <2> HIDE DEF S
  <2>1. \A k \in 0..Len(list) : k \in S  BY <1>0, <1>2, <1>3, UpTo
  <2> QED  BY <1>0, <2>1
<1>5. Good(Len(list))  BY <1>4
<1> QED  BY <1>1, <1>5

LEMMA CommandsKeep ==
    ASSUME NEW s, Keeps(s, 0, 0)
    PROVE  /\ Keeps(Each("command", s, s.inbox), Len(s.inbox), 0)
           /\ Each("command", s, s.inbox).inbox = s.inbox
<1> DEFINE list == s.inbox
<1>00. list \in Seq(HeardSpace)
  <2>1. s \in Servers  BY DEF Keeps
  <2> QED  BY <2>1, ListTypes
<1> HIDE DEF list
<1>10. PICK g : Passes("command", s, list, g)  BY <1>00, EachIs
<1>1. /\ g[0] = s
      /\ \A k \in 1..Len(list) : g[k] = Serve("command", g[k-1], list[k])
      /\ Each("command", s, list) = g[Len(list)]
  BY <1>10 DEF Passes
<1>0. Len(list) \in Nat  BY <1>00
<1> DEFINE Good(k) == Keeps(g[k], k, 0) /\ g[k].inbox = list
           S == {k \in 0..Len(list) : Good(k)}
<1>2. 0 \in S
  <2>1. Good(0)  BY <1>1 DEF list
  <2> QED  BY <1>0, <2>1
<1>3. ASSUME NEW k \in 0..Len(list)-1, k \in S PROVE k+1 \in S
  <2>1. k+1 \in 1..Len(list) /\ (k+1)-1 = k /\ k \in Nat  BY <1>0
  <2>2. list[k+1] \in HeardSpace  BY <1>00, <2>1
  <2>3. g[k+1] = HandleCommand(g[k], list[k+1])  BY <1>1, <2>1 DEF Serve
  <2>4. Good(k)  BY <1>3
  <2> DEFINE a == g[k]
             b == HandleCommand(a, list[k+1])
  <2>5. a \in Servers /\ Lawful(a) /\ Follows(a, k) /\ Safe(a, 0) /\ a.inbox = list
    BY <2>4 DEF Keeps
  <2> HIDE DEF a
  <2>6. Permitted(list[k+1].line)  BY <2>1, <2>5 DEF Lawful
  <2>7. b \in Servers /\ Lawful(b) /\ SameInput(a, b)  BY <2>2, <2>5, <2>6, CommandLawful
  <2>8. Safe(b, 0)  BY <2>2, <2>5, CommandSafe
  <2>9. Follows(b, k+1)
    <3>1. Follows(HandleCommand(a, a.inbox[k+1]), k+1)  BY <2>1, <2>5, CommandFollows
    <3> QED  BY <2>5, <3>1
  <2>10. b.inbox = list  BY <2>5, <2>7 DEF SameInput
  <2>11. Keeps(b, k+1, 0)  BY <2>7, <2>8, <2>9 DEF Keeps
  <2>12. g[k+1] = b  BY <2>3 DEF a
  <2>13. Good(k+1)  BY <2>10, <2>11, <2>12
  <2> QED  BY <2>1, <2>13
<1>4. Len(list) \in S
  <2> HIDE DEF S
  <2>1. \A k \in 0..Len(list) : k \in S  BY <1>0, <1>2, <1>3, UpTo
  <2> QED  BY <1>0, <2>1
<1>5. Good(Len(list))  BY <1>4
<1> QED  BY <1>1, <1>5 DEF list

LEMMA RequestsKeep ==
    ASSUME NEW s, NEW m, Keeps(s, m, 0)
    PROVE  /\ Keeps(Each("request", s, s.inbox), m, Len(s.inbox))
           /\ Each("request", s, s.inbox).inbox = s.inbox
<1> DEFINE list == s.inbox
<1>00. list \in Seq(HeardSpace)
  <2>1. s \in Servers  BY DEF Keeps
  <2> QED  BY <2>1, ListTypes
<1> HIDE DEF list
<1>10. PICK g : Passes("request", s, list, g)  BY <1>00, EachIs
<1>1. /\ g[0] = s
      /\ \A k \in 1..Len(list) : g[k] = Serve("request", g[k-1], list[k])
      /\ Each("request", s, list) = g[Len(list)]
  BY <1>10 DEF Passes
<1>0. Len(list) \in Nat  BY <1>00
<1> DEFINE Good(k) == Keeps(g[k], m, k) /\ g[k].inbox = list
           S == {k \in 0..Len(list) : Good(k)}
<1>2. 0 \in S
  <2>1. Good(0)  BY <1>1 DEF list
  <2> QED  BY <1>0, <2>1
<1>3. ASSUME NEW k \in 0..Len(list)-1, k \in S PROVE k+1 \in S
  <2>1. k+1 \in 1..Len(list) /\ (k+1)-1 = k /\ k \in Nat  BY <1>0
  <2>2. list[k+1] \in HeardSpace  BY <1>00, <2>1
  <2>3. g[k+1] = HandleRequest(g[k], list[k+1])  BY <1>1, <2>1 DEF Serve
  <2>4. Good(k)  BY <1>3
  <2> DEFINE a == g[k]
             b == HandleRequest(a, list[k+1])
  <2>5. a \in Servers /\ Lawful(a) /\ Follows(a, m) /\ Safe(a, k) /\ a.inbox = list
    BY <2>4 DEF Keeps
  <2> HIDE DEF a
  <2>7. b \in Servers /\ Lawful(b) /\ SameInput(a, b)  BY <2>2, <2>5, RequestLawful
  <2>8. Safe(b, k+1)
    <3>1. Safe(HandleRequest(a, a.inbox[k+1]), k+1)  BY <2>1, <2>5, RequestSafe
    <3> QED  BY <2>5, <3>1
  <2>9. Follows(b, m)  BY <2>2, <2>5, RequestFollows
  <2>10. b.inbox = list  BY <2>5, <2>7 DEF SameInput
  <2>11. Keeps(b, m, k+1)  BY <2>7, <2>8, <2>9 DEF Keeps
  <2>12. g[k+1] = b  BY <2>3 DEF a
  <2>13. Good(k+1)  BY <2>10, <2>11, <2>12
  <2> QED  BY <2>1, <2>13
<1>4. Len(list) \in S
  <2> HIDE DEF S
  <2>1. \A k \in 0..Len(list) : k \in S  BY <1>0, <1>2, <1>3, UpTo
  <2> QED  BY <1>0, <2>1
<1>5. Good(Len(list))  BY <1>4
<1> QED  BY <1>1, <1>5 DEF list

(* All of poll_ipc.                                                         *)
LEMMA PollKeeps ==
    ASSUME NEW s, Keeps(s, 0, 0)
    PROVE  LET t == PollOnce(s) IN Keeps(t, Len(t.inbox), Len(t.inbox))
<1> DEFINE a == AcceptAll(s)
           b == Each("read", a, a.clients)
           dead == gone \cap Range(b.clients)
           p == Retain(b, dead)
           d == IF s.backlog # <<>> THEN Announce(p) ELSE p
           e == Each("command", d, d.inbox)
           t == Each("request", e, d.inbox)
<1>1. Keeps(a, 0, 0) /\ a.backlog = <<>>  BY AcceptKeeps
<1>2. a.clients \in Seq(Conns)
  <2>1. a \in Servers  BY <1>1 DEF Keeps
  <2> HIDE DEF a
  <2> QED  BY <2>1, ListTypes
<1> HIDE DEF a
<1>3. Keeps(b, 0, 0)  BY <1>1, <1>2, ReadAllKeeps
<1>4. dead \in SUBSET Conns
  <2>1. b \in Servers  BY <1>3 DEF Keeps
  <2> HIDE DEF b
  <2>2. b.clients \in Seq(Conns)  BY <2>1, ListTypes
  <2> QED  BY <2>2 DEF Range
<1>5. dead \subseteq gone  OBVIOUS
<1> HIDE DEF b, dead
<1>6. Keeps(p, 0, 0)  BY <1>3, <1>4, <1>5, RetainKeeps
<1> HIDE DEF p
<1>7. Keeps(d, 0, 0)
  <2>1. CASE s.backlog # <<>>  BY <1>6, <2>1, AnnounceKeeps
  <2>2. CASE s.backlog = <<>>  BY <1>6, <2>2
  <2> QED  BY <2>1, <2>2
<1> HIDE DEF d
<1>8. Keeps(e, Len(d.inbox), 0) /\ e.inbox = d.inbox  BY <1>7, CommandsKeep
<1> HIDE DEF e
<1>9. Keeps(t, Len(d.inbox), Len(d.inbox)) /\ t.inbox = d.inbox
  <2>1. /\ Keeps(Each("request", e, e.inbox), Len(d.inbox), Len(e.inbox))
        /\ Each("request", e, e.inbox).inbox = e.inbox
    BY <1>8, RequestsKeep
  <2> QED  BY <1>8, <2>1
<1> HIDE DEF t
<1>10. PollOnce(s) = t  BY DEF PollOnce, PollSockets, a, b, dead, p, d, e, t
<1> QED  BY <1>9, <1>10

-----------------------------------------------------------------------------
(* The inductive invariant: the compositor's state keeps the three promises *)
(* above with an empty inbox, and the other parties' states have their      *)
(* types.                                                                   *)

World ==
    /\ gone \in SUBSET Conns /\ running \in BOOLEAN /\ shell \in ShellSpace
    /\ portal \in [Requests -> {"idle", "waiting", "returned"}]
    /\ allowed \in SUBSET Requests

BridgeInv == World /\ Keeps(Server, 0, 0)

LEMMA Fields ==
    /\ Server.clients = clients /\ Server.backlog = backlog /\ Server.role = role
    /\ Server.up = up /\ Server.down = down /\ Server.told = told
    /\ Server.consent = consent /\ Server.region = region /\ Server.queue = queue
    /\ Server.workspace = workspace /\ Server.ignored = ignored
    /\ Server.grabbed = FALSE /\ Server.inbox = <<>>
    /\ Server["consent"] = consent /\ Server["region"] = region
BY DEF Server

LEMMA NextFields ==
    /\ Server'.clients = clients' /\ Server'.backlog = backlog' /\ Server'.role = role'
    /\ Server'.up = up' /\ Server'.down = down' /\ Server'.told = told'
    /\ Server'.consent = consent' /\ Server'.region = region' /\ Server'.queue = queue'
    /\ Server'.workspace = workspace' /\ Server'.ignored = ignored' /\ Server'.inbox = <<>>
    /\ Server'["consent"] = consent' /\ Server'["region"] = region'
BY DEF Server

LEMMA NextTypes ==
    ASSUME clients' \in Seq(Conns), backlog' \in Seq(Conns), role' \in SUBSET ShellConns,
           up' \in UpSpace, down' \in [Conns -> Seq(Event)], cut' \in SUBSET Conns,
           torn' \in SUBSET Conns, consent' \in Seq(Requests), region' \in Seq(Requests),
           queue' \in Seq(Requests), workspace' \in Workspaces, told' \in SUBSET Conns,
           ignored' \in SUBSET Conns,
           \A c \in told' : c \in role' /\ Has(clients', c)
    PROVE  Server' \in Servers
<1>1. <<>> \in Seq(HeardSpace) /\ {} \in SUBSET Conns  OBVIOUS
<1>2. Server' \in ServerSpace  BY <1>1 DEF Server, ServerSpace
<1>3. Tell(Server')  BY NextFields DEF Tell
<1> QED  BY <1>2, <1>3 DEF Servers

(* Requests that are not touched stay safe.                                 *)
LEMMA SafeNext ==
    ASSUME NEW n, NEW t, Safe(t, n), Neat(Server'),
           \A r \in Requests : Untouched(t, n, Server', 0, r),
           \A r \in Requests : portal'[r] = portal[r] /\ (r \in gone' <=> r \in gone),
           running' => running
    PROVE  Safe(Server, 0)'
<1>1. ASSUME NEW r \in Requests
      PROVE  \E p \in PlaceNames : Placed(Server', 0, r, p) /\ Due(Server, r, p)'
  <2>1. PICK p \in PlaceNames : Placed(t, n, r, p) /\ Due(t, r, p)  BY DEF Safe
  <2>2. Untouched(t, n, Server', 0, r)  OBVIOUS
  <2>3. Placed(Server', 0, r, p)  BY <2>1, <2>2, Unmoved
  <2>4. Due(Server', r, p)  BY <2>1, <2>2, Unmoved
  <2>5. Due(Server, r, p)'  BY <2>4 DEF Due
  <2> QED  BY <2>3, <2>5
<1> QED  BY <1>1 DEF Safe

LEMMA ComingEmpty == \A n \in Nat : \A r : ~ Coming(Server', n, r) /\ ~ Coming(Server, n, r)
<1>1. Len(Server'.inbox) = 0 /\ Len(Server.inbox) = 0  BY NextFields, Fields
<1> QED  BY <1>1 DEF Coming

(* The compositor's state has become t.                                     *)
LEMMA Arrives ==
    ASSUME NEW t, Keeps(t, Len(t.inbox), Len(t.inbox)), Becomes(t), World,
           UNCHANGED <<gone, running, shell, portal, allowed>>
    PROVE  BridgeInv'
<1>0. t \in ServerSpace /\ Tell(t)  BY DEF Keeps, Servers
<1>1. /\ clients' = t.clients /\ backlog' = t.backlog /\ role' = t.role
      /\ up' = t.up /\ down' = t.down /\ cut' = t.cut /\ torn' = t.torn
      /\ consent' = t.consent /\ region' = t.region /\ queue' = t.queue
      /\ workspace' = t.workspace /\ told' = t.told /\ ignored' = t.ignored
  BY DEF Becomes
<1>2. /\ gone' = gone /\ running' = running /\ shell' = shell
      /\ portal' = portal /\ allowed' = allowed
  OBVIOUS
<1>3. /\ clients' \in Seq(Conns) /\ backlog' \in Seq(Conns) /\ role' \in SUBSET ShellConns
      /\ up' \in UpSpace /\ down' \in [Conns -> Seq(Event)] /\ cut' \in SUBSET Conns
      /\ torn' \in SUBSET Conns /\ consent' \in Seq(Requests) /\ region' \in Seq(Requests)
      /\ queue' \in Seq(Requests) /\ workspace' \in Workspaces /\ told' \in SUBSET Conns
      /\ ignored' \in SUBSET Conns
  BY <1>0, <1>1 DEF ServerSpace
<1>4. Server' \in Servers  BY <1>0, <1>1, <1>3, NextTypes DEF Tell
<1>5. Lawful(Server)'
  BY <1>1, <1>2, NextFields DEF Keeps, Lawful, Permitted, Allowed
<1>6. Len(t.inbox) \in Nat  BY <1>0 DEF ServerSpace
<1>7. Follows(Server, 0)'
  <2>1. \A c, w : Pending(t, Len(t.inbox), c, w) => Pending(Server', 0, c, w)
    <3> TAKE c, w
    <3> HAVE Pending(t, Len(t.inbox), c, w)
    <3>1. \E i \in 1..Len(t.up[c]) : IsSwitch(t.up[c][i], w)  BY <1>6 DEF Pending
    <3> QED  BY <1>1, <3>1, NextFields DEF Pending
  <2>2. Follows(t, Len(t.inbox))  BY DEF Keeps
  <2>3. shell'.conn \in told' =>
           \/ LastDeskIs(down'[shell'.conn], workspace')
           \/ /\ NoDesk(down'[shell'.conn])
              /\ \/ shell'.blind \/ shell'.conn \in ignored' \/ shell'.view = workspace'
                 \/ Pending(Server', 0, shell'.conn, shell'.view)
    BY <1>1, <1>2, <2>1, <2>2 DEF Follows
  <2> QED  BY <2>3, NextFields DEF Follows
<1>8. \A l \in Held : Server'[l] = t[l]
  <2>1. t.consent = t["consent"] /\ t.region = t["region"]  BY <1>0 DEF ServerSpace
  <2> QED  BY <1>1, <2>1, NextFields DEF Held
<1>9. Neat(Server')
  <2>1. Len(Server'.inbox) = 0  BY NextFields
  <2> QED  BY <1>1, <1>8, <2>1, NextFields DEF Keeps, Safe, Neat
<1>10. \A r \in Requests : Untouched(t, Len(t.inbox), Server', 0, r)
  <2>1. \A r : ~ Coming(t, Len(t.inbox), r)  BY <1>6 DEF Coming
  <2>2. \A r : ~ Coming(Server', 0, r)  BY ComingEmpty
  <2> QED  BY <1>1, <1>8, <2>1, <2>2, NextFields DEF Untouched, SameDown
<1>11. Safe(Server, 0)'
  <2>1. Safe(t, Len(t.inbox))  BY DEF Keeps
  <2> QED  BY <1>2, <1>9, <1>10, <2>1, SafeNext
<1>12. World'  BY <1>2 DEF World
<1> QED  BY <1>4, <1>5, <1>7, <1>11, <1>12 DEF BridgeInv, Keeps

LEMMA GrabKeeps ==
    ASSUME NEW s, Keeps(s, 0, 0), NEW grabbed \in BOOLEAN
    PROVE  Keeps([s EXCEPT !.grabbed = grabbed], 0, 0)
<1> DEFINE t == [s EXCEPT !.grabbed = grabbed]
<1>0. s \in Servers  BY DEF Keeps
<1>1. s \in ServerSpace /\ Tell(s)  BY <1>0 DEF Servers
<1>2. t \in ServerSpace  BY <1>1 DEF ServerSpace
<1>3. /\ t.role = s.role /\ t.told = s.told /\ t.down = s.down /\ t.clients = s.clients
      /\ t.backlog = s.backlog /\ t.up = s.up /\ t.ignored = s.ignored
      /\ t.consent = s.consent /\ t.region = s.region /\ t.queue = s.queue
      /\ t.workspace = s.workspace /\ t.inbox = s.inbox
  BY <1>1 DEF ServerSpace
<1> HIDE DEF t
<1>4. t \in Servers  BY <1>1, <1>2, <1>3 DEF Servers, Tell
<1>5. \A l \in Held : t[l] = s[l]  BY <1>0, <1>3, <1>4, ListTypes DEF Held
<1>6. Lawful(t)  BY <1>3 DEF Keeps, Lawful
<1>7. Follows(t, 0)  BY <1>3 DEF Keeps, Follows, Pending
<1>8. Neat(t)  BY <1>3, <1>5 DEF Keeps, Safe, Neat
<1>9. \A r \in Requests : Untouched(s, 0, t, 0, r)
  BY <1>3, <1>5 DEF Untouched, SameDown, Coming
<1>10. Safe(t, 0)  BY <1>0, <1>4, <1>8, <1>9, AllUnmoved DEF Keeps
<1> QED  BY <1>4, <1>6, <1>7, <1>10 DEF Keeps, t

LEMMA PollStep == ASSUME BridgeInv, PollIpc PROVE BridgeInv'
<1>1. PICK grabbed \in BOOLEAN : Becomes(PollOnce([Server EXCEPT !.grabbed = grabbed]))
  BY DEF PollIpc
<1> DEFINE s == [Server EXCEPT !.grabbed = grabbed]
           t == PollOnce(s)
<1>2. Keeps(s, 0, 0)  BY GrabKeeps DEF BridgeInv
<1>3. Becomes(t) /\ UNCHANGED <<gone, running, shell, portal, allowed>>
  BY <1>1 DEF PollIpc
<1> HIDE DEF s
<1>4. Keeps(t, Len(t.inbox), Len(t.inbox))  BY <1>2, PollKeeps
<1> HIDE DEF t
<1> QED  BY <1>3, <1>4, Arrives DEF BridgeInv

LEMMA SwitchStep ==
    ASSUME BridgeInv, NEW w \in Workspaces, SwitchWorkspace(w) PROVE BridgeInv'
<1>0. Server \in Servers /\ Lawful(Server) /\ Follows(Server, 0) /\ Safe(Server, 0)
  BY DEF BridgeInv, Keeps
<1>1. PICK t \in Servers :
         /\ SwitchTo(Server, w) = t
         /\ t.role \subseteq Server.role
         /\ \A r \in Requests : SameDown(Server, t, r) /\ SameConn(Server, t, r)
         /\ \A c \in t.told : \/ t.down[c] = Append(Server.down[c], Desk(w))
                              \/ w = Server.workspace /\ c \in Server.told /\ SameDown(Server, t, c)
                                 /\ t.ignored = Server.ignored
         /\ SameInput(Server, t) /\ SameLists(Server, t) /\ t.workspace = w
  BY <1>0, Fields, SwitchIs
<1>2. Lawful(t)  BY <1>0, <1>1 DEF Lawful, SameInput, SameLists, SameDown
<1>3. Follows(t, 0)
  <2>1. \A c \in t.told : Server.down[c] \in Seq(Event)
    BY <1>0, ListTypes DEF Conns
  <2>2. \A c, x : Pending(Server, 0, c, x) => Pending(t, 0, c, x)  BY <1>1, SamePending
  <2>3. \A c \in t.told :
           \/ \E T : /\ Server.down[c] \in Seq(T)
                     /\ t.down[c] = Append(Server.down[c], Desk(t.workspace))
           \/ /\ c \in Server.told /\ t.workspace = Server.workspace /\ t.ignored = Server.ignored
              /\ \A x : Pending(Server, 0, c, x) => Pending(t, 0, c, x) \/ x = t.workspace
              /\ SameDown(Server, t, c)
    BY <1>1, <2>1, <2>2
  <2> QED  BY <1>0, <2>3, StillFollows
<1>4. \A l \in Held : t[l] = Server[l]  BY <1>0, <1>1, ListTypes DEF SameLists, Held
<1>5. Neat(t)  BY <1>0, <1>1, <1>4 DEF Safe, Neat, SameLists, SameInput, SameDown
<1>6. \A r \in Requests : Untouched(Server, 0, t, 0, r)
  BY <1>1, <1>4 DEF Untouched, SameConn, SameLists, SameInput, Coming
<1>7. Safe(t, 0)  BY <1>0, <1>5, <1>6, AllUnmoved
<1>8. Len(t.inbox) = 0  BY <1>1, Fields DEF SameInput
<1>9. Keeps(t, Len(t.inbox), Len(t.inbox))  BY <1>2, <1>3, <1>7, <1>8 DEF Keeps
<1>10. Becomes(t) /\ UNCHANGED <<gone, running, shell, portal, allowed>>
  BY <1>1 DEF SwitchWorkspace
<1> QED  BY <1>9, <1>10, Arrives DEF BridgeInv

(* process_screenshot_requests, k requests of the queue answered.           *)
Capturing(s, k) ==
    /\ Neat(s)
    /\ \A r \in Requests :
          IF \E i \in k+1..Len(queue) : queue[i] = r
          THEN Placed(s, 0, r, "nowhere") /\ Due(s, r, "queue")
          ELSE \E p \in PlaceNames : Placed(s, 0, r, p) /\ Due(s, r, p)

Captures(s, k) ==
    /\ s \in Servers /\ Lawful(s) /\ Follows(s, 0) /\ Capturing(s, k)
    /\ s.queue = <<>> /\ s.inbox = <<>>

LEMMA CaptureOne ==
    ASSUME NEW s, NEW k \in 0..Len(queue)-1, Captures(s, k), queue \in Seq(Requests), Once(queue),
           NEW outcome \in {"success", "failed"}, Allowed(queue[k+1])
    PROVE  Captures(Respond(s, queue[k+1], outcome), k+1)
<1> DEFINE r == queue[k+1]
<1>0. s \in Servers /\ s.queue = <<>> /\ s.inbox = <<>>  BY DEF Captures
<1>1. Len(queue) \in Nat  OBVIOUS
<1>2. k+1 \in 1..Len(queue) /\ k+1 \in k+1..Len(queue) /\ k \in Nat  BY <1>1
<1>3. r \in Requests  BY <1>2
<1>4. ~ \E i \in (k+1)+1..Len(queue) : queue[i] = r
  <2>1. \A i \in (k+1)+1..Len(queue) : i \in 1..Len(queue) /\ i # k+1  BY <1>1, <1>2
  <2> QED  BY <1>2, <2>1 DEF Once
<1>5. \A q : q # r => ((\E i \in (k+1)+1..Len(queue) : queue[i] = q)
                          <=> (\E i \in k+1..Len(queue) : queue[i] = q))
  <2>1. \A i \in k+1..Len(queue) : i = k+1 \/ i \in (k+1)+1..Len(queue)  BY <1>1, <1>2
  <2>2. \A i \in (k+1)+1..Len(queue) : i \in k+1..Len(queue)  BY <1>1, <1>2
  <2> QED  BY <2>1, <2>2
<1> HIDE DEF r
<1>6. PICK t \in Servers :
         /\ Respond(s, r, outcome) = t
         /\ t.role = s.role /\ t.told = s.told
         /\ \A c \in Conns : c # r => SameDown(s, t, c) /\ SameConn(s, t, c)
         /\ Has(s.clients, r) /\ r \notin gone =>
               SameConn(s, t, r) /\ t.down[r] = Append(s.down[r], Answer(outcome))
         /\ ~ (Has(s.clients, r) /\ r \notin gone) => SameDown(s, t, r)
         /\ SameInput(s, t) /\ SameLists(s, t) /\ t.workspace = s.workspace
         /\ t.ignored = s.ignored
  BY <1>0, <1>3, RespondIs
<1>7. Answered(s, t, r, outcome)  BY <1>6 DEF Answered, Conns
<1>8. Lawful(t)
  <2>1. \A q \in Requests : Has(t.down[q], Answer("success")) => Allowed(q)
    <3>1. \A q \in Requests : Has(s.down[q], Answer("success")) => Allowed(q)
      BY DEF Captures, Lawful
    <3>2. Allowed(r)  BY DEF r
    <3> QED  BY <1>0, <1>3, <1>7, <3>1, <3>2, AnsweredLawful
  <2> QED  BY <1>6, <2>1 DEF Captures, Lawful, SameInput, SameLists
<1>9. Follows(t, 0)
  <2>1. \A c \in t.told : c \in Conns /\ c # r
    BY <1>3, ListTypes, BridgeAssumption DEF Conns
  <2>2. \A c \in t.told :
           /\ c \in s.told /\ t.workspace = s.workspace /\ t.ignored = s.ignored
           /\ \A w : Pending(s, 0, c, w) => Pending(t, 0, c, w) \/ w = t.workspace
           /\ SameDown(s, t, c)
    BY <1>6, <2>1, SamePending
  <2>3. Follows(s, 0)  BY DEF Captures
  <2> QED  BY <1>0, <2>2, <2>3, StillFollows
<1>10. t.queue = <<>> /\ t.inbox = <<>> /\ t.up = s.up /\ t.backlog = s.backlog
  BY <1>0, <1>6 DEF SameLists, SameInput
<1>11. \A l \in Held : t[l] = s[l]  BY <1>0, <1>6, ListTypes DEF SameLists, Held
<1>12. \A q, n : Coming(t, n, q) <=> Coming(s, n, q)  BY <1>0, <1>10 DEF Coming
<1>13. Placed(s, 0, r, "nowhere") /\ Due(s, r, "queue") /\ Neat(s)
  BY <1>2, <1>3 DEF Captures, Capturing, r
<1>14. /\ Len(t.down[r]) <= 1
       /\ \E q \in PlaceNames : Placed(t, 0, r, q) /\ Due(t, r, q)
  <2>1. s.up[r] = <<>> /\ s.down[r] = <<>>  BY <1>13 DEF Placed
  <2>2. ~ Coming(t, 0, r) /\ ~ Has(t.queue, r) /\ \A l \in Held : ~ Has(t[l], r)
    BY <1>0, <1>10, <1>11, <1>12, <1>13 DEF Placed, Held
  <2> QED  BY <1>0, <1>3, <1>7, <1>10, <1>13, <2>1, <2>2, AnsweredPlaces
<1>15. \A q \in Requests : q # r => SameDown(s, t, q) /\ SameConn(s, t, q)
  BY <1>7 DEF Answered
<1>16. \A q \in Requests : Len(t.down[q]) <= 1
  BY <1>13, <1>14, <1>15 DEF Neat, SameDown
<1>17. Neat(t)  BY <1>0, <1>10, <1>11, <1>13, <1>16 DEF Neat
<1>18. ASSUME NEW q \in Requests, q # r
       PROVE  /\ Untouched(s, 0, t, 0, q)
              /\ \A p : Due(s, q, p) => Due(t, q, p)
  <2>1. Untouched(s, 0, t, 0, q)
    BY <1>0, <1>10, <1>11, <1>12, <1>15, <1>18 DEF Untouched, SameConn
  <2>2. \A p : Due(s, q, p) => Due(t, q, p)  BY <1>10, <1>15, <1>18 DEF Due, SameConn
  <2> QED  BY <2>1, <2>2
<1>19. ASSUME NEW q \in Requests
       PROVE  IF \E i \in (k+1)+1..Len(queue) : queue[i] = q
              THEN Placed(t, 0, q, "nowhere") /\ Due(t, q, "queue")
              ELSE \E p \in PlaceNames : Placed(t, 0, q, p) /\ Due(t, q, p)
  <2>1. CASE q = r  BY <1>4, <1>14, <2>1
  <2>2. CASE q # r /\ \E i \in (k+1)+1..Len(queue) : queue[i] = q
    <3>1. Placed(s, 0, q, "nowhere") /\ Due(s, q, "queue")
      BY <1>5, <2>2 DEF Captures, Capturing
    <3>2. Placed(t, 0, q, "nowhere")
      BY <1>18, <2>2, <3>1 DEF Placed, Untouched, SameDown
    <3> QED  BY <1>18, <2>2, <3>1, <3>2
  <2>3. CASE q # r /\ ~ \E i \in (k+1)+1..Len(queue) : queue[i] = q
    <3>1. PICK p \in PlaceNames : Placed(s, 0, q, p) /\ Due(s, q, p)
      BY <1>5, <2>3 DEF Captures, Capturing
    <3>2. Untouched(s, 0, t, 0, q)  BY <1>18, <2>3
    <3>3. Placed(t, 0, q, p) /\ Due(t, q, p)  BY <3>1, <3>2, Unmoved
    <3> QED  BY <2>3, <3>3
  <2> QED  BY <2>1, <2>2, <2>3
<1>20. Capturing(t, k+1)  BY <1>17, <1>19 DEF Capturing
<1> QED  BY <1>6, <1>8, <1>9, <1>10, <1>20 DEF Captures, r

LEMMA CaptureStep == ASSUME BridgeInv, Capture PROVE BridgeInv'
<1>0. Server \in Servers /\ Lawful(Server) /\ Follows(Server, 0) /\ Safe(Server, 0)
  BY DEF BridgeInv, Keeps
<1>1. queue \in Seq(Requests) /\ Once(queue) /\ \A r \in Requests : Has(queue, r) => Allowed(r)
  BY <1>0, ListTypes, Fields DEF Lawful, Safe, Neat
<1>2. PICK good \in SUBSET Range(queue) :
         LET reply(r) == [req |-> r, outcome |-> IF r \in good THEN "success" ELSE "failed"]
         IN  Becomes(Each("answer", [Server EXCEPT !.queue = <<>>],
                          [i \in 1..Len(queue) |-> reply(queue[i])]))
  BY DEF Capture
<1> DEFINE reply(r) == [req |-> r, outcome |-> IF r \in good THEN "success" ELSE "failed"]
           list == [i \in 1..Len(queue) |-> reply(queue[i])]
           start == [Server EXCEPT !.queue = <<>>]
           t == Each("answer", start, list)
           T == [req : Requests, outcome : {"success", "failed"}]
<1>3. Becomes(t)  BY <1>2
<1>4. Len(queue) \in Nat  BY <1>1
<1>5. list \in Seq(T) /\ Len(list) = Len(queue)
  <2>1. \A i \in 1..Len(queue) : reply(queue[i]) \in T  BY <1>1
  <2>2. list \in [1..Len(queue) -> T]
    <3> HIDE DEF T, reply
    <3> QED  BY <2>1
  <2> HIDE DEF list, T
  <2> QED  BY <1>4, <2>2
<1>6. \A i \in 1..Len(queue) : /\ list[i].req = queue[i]
                               /\ list[i].outcome \in {"success", "failed"}
  OBVIOUS
<1> HIDE DEF list, start, T
<1>7. Captures(start, 0)
  <2>1. <<>> \in Seq(Requests)  OBVIOUS
  <2>2. PICK a \in Servers :
           /\ [Server EXCEPT !.queue = <<>>] = a
           /\ a.queue = <<>> /\ \A l \in Held : a[l] = Server[l]
           /\ a.role = Server.role /\ a.told = Server.told
           /\ a.down = Server.down /\ a.clients = Server.clients
           /\ SameInput(Server, a) /\ a.workspace = Server.workspace /\ a.ignored = Server.ignored
    BY <1>0, <2>1, SetQueue
  <2>3. /\ a.up = Server.up /\ a.backlog = Server.backlog /\ a.inbox = <<>>
        /\ Server.inbox = <<>> /\ Server.queue = queue
    BY <2>2, Fields DEF SameInput
  <2>4. \A r : ~ Has(a.queue, r)  BY <2>2 DEF Has
  <2>5. Lawful(a)  BY <1>0, <2>2, <2>3, <2>4 DEF Lawful
  <2>6. Follows(a, 0)  BY <1>0, <2>2, <2>3 DEF Follows, Pending
  <2>7. Neat(a)
    <3>1. Once(a.queue)  BY <2>2 DEF Once
    <3> QED  BY <1>0, <2>2, <2>3, <3>1 DEF Safe, Neat
  <2>8. ASSUME NEW r \in Requests
        PROVE  IF \E i \in 0+1..Len(queue) : queue[i] = r
               THEN Placed(a, 0, r, "nowhere") /\ Due(a, r, "queue")
               ELSE \E p \in PlaceNames : Placed(a, 0, r, p) /\ Due(a, r, p)
    <3>1. PICK p \in PlaceNames : Placed(Server, 0, r, p) /\ Due(Server, r, p)
      BY <1>0 DEF Safe
    <3>2. (\E i \in 0+1..Len(queue) : queue[i] = r) <=> p = "queue"
      BY <2>3, <3>1 DEF Placed, Has
    <3>3. Coming(a, 0, r) <=> Coming(Server, 0, r)  BY <2>3 DEF Coming
    <3>4. Due(a, r, p)  BY <2>2, <2>3, <3>1 DEF Due
    <3>5. CASE p = "queue"
      <4>1. Placed(a, 0, r, "nowhere")
        BY <2>2, <2>3, <2>4, <3>1, <3>3, <3>5 DEF Placed, Held
      <4> QED  BY <3>2, <3>4, <3>5, <4>1
    <3>6. CASE p # "queue"
      <4>1. Placed(a, 0, r, p)
        BY <2>2, <2>3, <2>4, <3>1, <3>3, <3>6 DEF Placed
      <4> QED  BY <3>2, <3>4, <3>6, <4>1
    <3> QED  BY <3>5, <3>6
  <2>9. Capturing(a, 0)  BY <2>7, <2>8 DEF Capturing
  <2> QED  BY <2>2, <2>3, <2>5, <2>6, <2>9 DEF Captures, start
<1>8. PICK g : Passes("answer", start, list, g)  BY <1>5, EachIs
<1>9. /\ g[0] = start
      /\ \A k \in 1..Len(queue) : g[k] = Serve("answer", g[k-1], list[k])
      /\ t = g[Len(queue)]
  BY <1>5, <1>8 DEF Passes
<1> DEFINE S == {k \in 0..Len(queue) : Captures(g[k], k)}
<1>10. 0 \in S  BY <1>4, <1>7, <1>9
<1>11. ASSUME NEW k \in 0..Len(queue)-1, k \in S PROVE k+1 \in S
  <2>1. k+1 \in 1..Len(queue) /\ (k+1)-1 = k  BY <1>4
  <2>2. g[k+1] = Respond(g[k], list[k+1].req, list[k+1].outcome)  BY <1>9, <2>1 DEF Serve
  <2>3. Captures(g[k], k)  BY <1>11
  <2>4. Allowed(queue[k+1])
    <3>1. queue[k+1] \in Requests /\ Has(queue, queue[k+1])  BY <1>1, <2>1 DEF Has
    <3> QED  BY <1>1, <3>1
  <2>5. list[k+1].req = queue[k+1] /\ list[k+1].outcome \in {"success", "failed"}
    BY <1>6, <2>1
  <2>6. Captures(Respond(g[k], queue[k+1], list[k+1].outcome), k+1)
    BY <1>1, <2>3, <2>4, <2>5, CaptureOne
  <2>7. Captures(g[k+1], k+1)  BY <2>2, <2>5, <2>6
  <2> QED  BY <2>1, <2>7
<1>12. Captures(t, Len(queue))
  <2>1. Len(queue) \in S
    <3> HIDE DEF S
    <3>1. \A k \in 0..Len(queue) : k \in S  BY <1>4, <1>10, <1>11, UpTo
    <3> QED  BY <1>4, <3>1
  <2> QED  BY <1>9, <2>1
<1> HIDE DEF t
<1>13. Safe(t, 0)
  <2>1. ~ \E i \in Len(queue)+1..Len(queue) : TRUE  BY <1>4
  <2> QED  BY <1>12, <2>1 DEF Captures, Capturing, Safe
<1>14. Len(t.inbox) = 0  BY <1>12 DEF Captures
<1>15. Keeps(t, Len(t.inbox), Len(t.inbox))  BY <1>12, <1>13, <1>14 DEF Captures, Keeps
<1>16. UNCHANGED <<gone, running, shell, portal, allowed>>  BY DEF Capture
<1> QED  BY <1>3, <1>15, <1>16, Arrives DEF BridgeInv

(* What the shell may change: its connection, and what it writes and reads. *)
LEMMA ShellKeeps ==
    ASSUME BridgeInv, World',
           UNCHANGED <<clients, consent, region, queue, workspace, portal, running>>,
           backlog' \in Seq(Conns), cut' \in SUBSET Conns, torn' \in SUBSET Conns,
           role' \in SUBSET ShellConns, told' \subseteq told, told' \subseteq role',
           ignored' \in SUBSET Conns,
           up' \in UpSpace, down' \in [Conns -> Seq(Event)],
           \A r \in Requests : /\ up'[r] = up[r] /\ down'[r] = down[r]
                               /\ r \in gone' <=> r \in gone
                               /\ Has(backlog, r) => Has(backlog', r),
           allowed \subseteq allowed',
           \A c \in ShellConns : \A i \in 1..Len(up'[c]) :
              up'[c][i].kind \in Held /\ up'[c][i].yes => up'[c][i].req \in allowed',
           \A i \in 1..Len(shell'.todo) :
              shell'.todo[i].kind \in Held /\ shell'.todo[i].yes => shell'.todo[i].req \in allowed',
           shell'.todo # <<>> => shell'.conn \in ShellConns /\ up'[shell'.conn] = <<>>,
           shell'.conn \in told' =>
              \/ LastDeskIs(down'[shell'.conn], workspace)
              \/ /\ NoDesk(down'[shell'.conn])
                 /\ \/ shell'.blind \/ shell'.conn \in ignored' \/ shell'.view = workspace
                    \/ \E i \in 1..Len(up'[shell'.conn]) :
                          IsSwitch(up'[shell'.conn][i], shell'.view)
    PROVE  BridgeInv'
<1>0. Server \in Servers /\ Lawful(Server) /\ Follows(Server, 0) /\ Safe(Server, 0)
  BY DEF BridgeInv, Keeps
<1>1. /\ clients' = clients /\ consent' = consent /\ region' = region /\ queue' = queue
      /\ workspace' = workspace /\ portal' = portal /\ running' = running
  OBVIOUS
<1>2. /\ clients \in Seq(Conns) /\ told \in SUBSET Conns /\ consent \in Seq(Requests)
      /\ region \in Seq(Requests) /\ queue \in Seq(Requests) /\ workspace \in Workspaces
      /\ \A c \in told : Has(clients, c)
  <2>1. Server \in ServerSpace /\ Tell(Server)  BY <1>0 DEF Servers
  <2>2. /\ Server.clients \in Seq(Conns) /\ Server.told \in SUBSET Conns
        /\ Server.consent \in Seq(Requests)
        /\ Server.region \in Seq(Requests) /\ Server.queue \in Seq(Requests)
        /\ Server.workspace \in Workspaces
    BY <2>1 DEF ServerSpace
  <2> QED  BY <2>1, <2>2, Fields DEF Tell
<1>3. Server' \in Servers
  <2>1. \A c \in told' : c \in role' /\ Has(clients', c)  BY <1>1, <1>2
  <2>2. told' \in SUBSET Conns  BY <1>2
  <2> QED  BY <1>1, <1>2, <2>1, <2>2, NextTypes
<1>4. Lawful(Server)'
  <2>1. \A r : Allowed(r) => Allowed(r)'  BY DEF Allowed
  <2>2. \A r \in Requests : Has(queue', r) => Allowed(r)'
    BY <1>0, <1>1, <2>1, Fields DEF Lawful
  <2>3. \A r \in Requests : Has(down'[r], Answer("success")) => Allowed(r)'
    <3>1. \A r \in Requests : Has(down[r], Answer("success")) => Allowed(r)
      BY <1>0, Fields DEF Lawful
    <3> QED  BY <2>1, <3>1
  <2>4. \A i \in 1..Len(Server'.inbox) : FALSE  BY NextFields
  <2>5. \A c \in ShellConns : \A i \in 1..Len(up'[c]) : Permitted(up[c][i])'
    BY DEF Permitted
  <2>6. \A i \in 1..Len(shell'.todo) : Permitted(shell.todo[i])'
    BY DEF Permitted
  <2> QED  BY <2>2, <2>3, <2>4, <2>5, <2>6, NextFields DEF Lawful
<1>5. Follows(Server, 0)'
  <2>1. \A c, w : (\E i \in 1..Len(up'[c]) : IsSwitch(up'[c][i], w)) => Pending(Server', 0, c, w)
    BY NextFields DEF Pending
  <2>2. shell'.conn \in told' =>
           \/ LastDeskIs(down'[shell'.conn], workspace')
           \/ /\ NoDesk(down'[shell'.conn])
              /\ \/ shell'.blind \/ shell'.conn \in ignored' \/ shell'.view = workspace'
                 \/ Pending(Server', 0, shell'.conn, shell'.view)
    BY <1>1, <2>1
  <2> QED  BY <2>2, NextFields DEF Follows
<1>6. \A l \in Held : Server'[l] = Server[l]  BY <1>1, Fields, NextFields DEF Held
<1>7. Neat(Server')
  <2>1. Len(Server'.inbox) = 0  BY NextFields
  <2>2. Neat(Server)  BY <1>0 DEF Safe
  <2>3. \A r \in Requests : /\ Server'.up[r] = Server.up[r] /\ Server'.down[r] = Server.down[r]
    BY Fields, NextFields
  <2>4. Server'.queue = Server.queue  BY <1>1, Fields, NextFields
  <2> QED  BY <1>6, <2>1, <2>2, <2>3, <2>4 DEF Neat
<1>8. \A r \in Requests : Untouched(Server, 0, Server', 0, r)
  BY <1>1, <1>6, ComingEmpty, Fields, NextFields DEF Untouched, SameDown
<1>9. Safe(Server, 0)'
  <2>1. \A r \in Requests : portal'[r] = portal[r] /\ (r \in gone' <=> r \in gone)  BY <1>1
  <2> QED  BY <1>0, <1>1, <1>7, <1>8, <2>1, SafeNext
<1> QED  BY <1>3, <1>4, <1>5, <1>9 DEF BridgeInv, Keeps

LEMMA StateTypes ==
    ASSUME BridgeInv
    PROVE  /\ clients \in Seq(Conns) /\ backlog \in Seq(Conns) /\ role \in SUBSET ShellConns
           /\ up \in UpSpace /\ down \in [Conns -> Seq(Event)] /\ cut \in SUBSET Conns
           /\ torn \in SUBSET Conns /\ workspace \in Workspaces
           /\ told \in SUBSET role /\ ignored \in SUBSET Conns
           /\ up \in [Conns -> Seq(Shot \cup ShellLine)]
           /\ \A r \in Requests : up[r] \in Seq(Shot)
           /\ \A c \in ShellConns : up[c] \in Seq(ShellLine)
           /\ gone \in SUBSET Conns /\ shell \in ShellSpace /\ allowed \in SUBSET Requests
           /\ shell.conn \in ShellConns \cup {Nobody}
           /\ Requests \cap ShellConns = {} /\ Requests \subseteq Conns
           /\ ShellConns \subseteq Conns
           /\ Nobody \notin Conns
<1>0. Server \in Servers  BY DEF BridgeInv, Keeps
<1>1. Server \in ServerSpace  BY <1>0 DEF Servers
<1>2. /\ Server.up \in UpSpace /\ Server.cut \in SUBSET Conns /\ Server.torn \in SUBSET Conns
      /\ Server.ignored \in SUBSET Conns
  BY <1>1 DEF ServerSpace
<1>3. Server.cut = cut /\ Server.torn = torn  BY DEF Server
<1>4. World  BY DEF BridgeInv
<1>5. shell.conn \in ShellConns \cup {Nobody}  BY <1>4 DEF World, ShellSpace
<1> QED  BY <1>0, <1>2, <1>3, <1>4, <1>5, ListTypes, Fields, BridgeAssumption DEF World, Conns

LEMMA ConnectStep ==
    ASSUME BridgeInv, NEW sh \in ShellSpace, NEW lines \in Seq(ShellLine), Connect(sh, lines),
           \A i \in 1..Len(lines) :
              lines[i].kind \in Held /\ lines[i].yes => lines[i].req \in allowed',
           allowed \subseteq allowed', allowed' \in SUBSET Requests,
           UNCHANGED <<clients, consent, region, queue, workspace, running, portal>>
    PROVE  BridgeInv'
<1>1. PICK c \in ShellConns :
         /\ shell' = [sh EXCEPT !.conn = c, !.todo = <<Token>> \o lines]
         /\ backlog' = Append(backlog, c)
         /\ role' = role \ {c} /\ gone' = gone \ {c} /\ cut' = cut \ {c}
         /\ torn' = torn \ {c} /\ told' = told \ {c} /\ ignored' = ignored \ {c}
         /\ up' = [up EXCEPT ![c] = <<>>] /\ down' = [down EXCEPT ![c] = <<>>]
  BY DEF Connect
<1> DEFINE todo == <<Token>> \o lines
<1>2. <<Token>> \in Seq(ShellLine)  BY DEF ShellLine
<1>3. todo \in Seq(ShellLine)  BY <1>2
<1>4. /\ Len(todo) = Len(lines) + 1 /\ Len(lines) \in Nat /\ todo[1] = Token
      /\ \A i \in 1..Len(lines) : todo[i+1] = lines[i]
  BY <1>2
<1>5. \A i \in 1..Len(todo) : todo[i].kind \in Held /\ todo[i].yes => todo[i].req \in allowed'
  <2> TAKE i \in 1..Len(todo)
  <2> HIDE DEF todo
  <2>1. CASE i = 1  BY <1>4, <2>1, LineKinds DEF Held
  <2>2. CASE i # 1
    <3>1. i-1 \in 1..Len(lines) /\ (i-1)+1 = i  BY <1>4, <2>2
    <3>2. todo[i] = lines[i-1]  BY <1>4, <3>1
    <3> QED  BY <3>1, <3>2
  <2> QED  BY <2>1, <2>2
<1> HIDE DEF todo
<1>6. shell' \in ShellSpace /\ shell'.todo = todo /\ shell'.conn = c
  <2>1. shell' = [sh EXCEPT !.conn = c, !.todo = todo]  BY <1>1 DEF todo
  <2> QED  BY <1>3, <2>1 DEF ShellSpace
<1>7. World'
  BY <1>1, <1>6 DEF World, BridgeInv
<1>8. c \in Conns /\ c \notin Requests  BY StateTypes
<1>9. backlog' \in Seq(Conns) /\ \A x : Has(backlog, x) => Has(backlog', x)
  <2>1. backlog \in Seq(Conns)  BY StateTypes
  <2> QED  BY <1>1, <1>8, <2>1, HasAppend
<1>10. cut' \in SUBSET Conns /\ torn' \in SUBSET Conns /\ role' \in SUBSET ShellConns
       /\ told' \subseteq told /\ told' \subseteq role' /\ ignored' \in SUBSET Conns
  BY <1>1, StateTypes
<1>11. up' \in UpSpace /\ up'[c] = <<>> /\ \A d \in Conns : d # c => up'[d] = up[d]
  <2>1. /\ up \in [Conns -> Seq(Shot \cup ShellLine)]
        /\ \A r \in Requests : up[r] \in Seq(Shot)
        /\ \A k \in ShellConns : up[k] \in Seq(ShellLine)
        /\ Requests \subseteq Conns /\ ShellConns \subseteq Conns
    BY StateTypes
  <2>2. up'[c] = <<>> /\ \A d \in Conns : d # c => up'[d] = up[d]  BY <1>1, <1>8, <2>1
  <2>3. up' \in [Conns -> Seq(Shot \cup ShellLine)]  BY <1>1, <2>1
  <2>4. ASSUME NEW r \in Requests PROVE up'[r] \in Seq(Shot)
    <3>1. r \in Conns /\ r # c  BY <1>8, <2>1
    <3>2. up'[r] = up[r]  BY <2>2, <3>1
    <3> QED  BY <2>1, <3>2
  <2>5. ASSUME NEW k \in ShellConns PROVE up'[k] \in Seq(ShellLine)
    <3>1. CASE k = c
      <4>1. up'[k] = <<>>  BY <2>2, <3>1
      <4>2. <<>> \in Seq(ShellLine)  OBVIOUS
      <4> QED  BY <4>1, <4>2
    <3>2. CASE k # c
      <4>1. up'[k] = up[k]  BY <2>1, <2>2, <3>2
      <4> QED  BY <2>1, <4>1
    <3> QED  BY <3>1, <3>2
  <2> QED  BY <2>2, <2>3, <2>4, <2>5 DEF UpSpace
<1>12. down' \in [Conns -> Seq(Event)] /\ \A d \in Conns : d # c => down'[d] = down[d]
  <2>1. down \in [Conns -> Seq(Event)]  BY StateTypes
  <2>2. down' = [down EXCEPT ![c] = <<>>] /\ <<>> \in Seq(Event)  BY <1>1
  <2>3. down' \in [Conns -> Seq(Event)]
    <3> DEFINE T == Seq(Event)
    <3>1. down \in [Conns -> T] /\ <<>> \in T  BY <2>1, <2>2
    <3> HIDE DEF T
    <3>2. down' \in [Conns -> T]  BY <2>2, <3>1
    <3> QED  BY <3>2 DEF T
  <2>4. \A d \in Conns : d # c => down'[d] = down[d]  BY <2>1, <2>2
  <2> QED  BY <2>3, <2>4
<1>13. \A r \in Requests : /\ up'[r] = up[r] /\ down'[r] = down[r]
                           /\ r \in gone' <=> r \in gone
                           /\ Has(backlog, r) => Has(backlog', r)
  BY <1>1, <1>8, <1>9, <1>11, <1>12, StateTypes
<1>14. \A k \in ShellConns : \A i \in 1..Len(up'[k]) :
          up'[k][i].kind \in Held /\ up'[k][i].yes => up'[k][i].req \in allowed'
  <2> TAKE k \in ShellConns
  <2>1. CASE k = c  BY <1>11, <2>1
  <2>2. CASE k # c
    <3>1. up'[k] = up[k]  BY <1>11, <2>2, StateTypes
    <3>2. \A i \in 1..Len(up[k]) : Permitted(up[k][i])
      BY Fields DEF BridgeInv, Keeps, Lawful
    <3> QED  BY <3>1, <3>2 DEF Permitted
  <2> QED  BY <2>1, <2>2
<1>15. shell'.conn \notin told'  BY <1>1, <1>6
<1>16. \A i \in 1..Len(shell'.todo) :
          shell'.todo[i].kind \in Held /\ shell'.todo[i].yes => shell'.todo[i].req \in allowed'
  BY <1>5, <1>6
<1>17. shell'.todo # <<>> => shell'.conn \in ShellConns /\ up'[shell'.conn] = <<>>
  BY <1>6, <1>11
<1> QED  BY <1>7, <1>9, <1>10, <1>11, <1>12, <1>13, <1>14, <1>15, <1>16, <1>17, ShellKeeps

(* IpcClient::send of a command the user's answers allow.                   *)
LEMMA SendStep ==
    ASSUME BridgeInv, NEW sh \in ShellSpace, sh.conn = shell.conn, sh.todo = <<>>,
           sh.blind = shell.blind, NEW x \in ShellLine, Send(sh, x),
           sh.view = shell.view \/ IsSwitch(x, sh.view),
           x.kind \in Held /\ x.yes => x.req \in allowed',
           allowed \subseteq allowed', allowed' \in SUBSET Requests,
           running' = running, portal' = portal
    PROVE  BridgeInv'
<1>1. CASE sh.conn = Nobody /\ Connect(sh, <<x>>)
           /\ UNCHANGED <<clients, consent, region, queue, workspace>>
  <2>1. <<x>> \in Seq(ShellLine)  OBVIOUS
  <2>2. \A i \in 1..Len(<<x>>) : <<x>>[i] = x  OBVIOUS
  <2>3. \A i \in 1..Len(<<x>>) :
           <<x>>[i].kind \in Held /\ <<x>>[i].yes => <<x>>[i].req \in allowed'
    BY <2>2
  <2> QED  BY <1>1, <2>1, <2>3, ConnectStep
<1>0. /\ up \in UpSpace /\ down \in [Conns -> Seq(Event)] /\ backlog \in Seq(Conns)
      /\ cut \in SUBSET Conns /\ torn \in SUBSET Conns /\ role \in SUBSET ShellConns
      /\ told \in SUBSET role /\ ignored \in SUBSET Conns /\ gone \in SUBSET Conns
      /\ shell.conn \in ShellConns \cup {Nobody} /\ Nobody \notin Conns
      /\ Requests \cap ShellConns = {} /\ Requests \subseteq Conns /\ ShellConns \subseteq Conns
  BY StateTypes
<1>00. \A c \in ShellConns : \A i \in 1..Len(up[c]) :
          up[c][i].kind \in Held /\ up[c][i].yes => up[c][i].req \in allowed'
  <2>1. \A c \in ShellConns : \A i \in 1..Len(up[c]) : Permitted(up[c][i])
    BY Fields DEF BridgeInv, Keeps, Lawful
  <2> QED  BY <2>1 DEF Permitted
<1>2. CASE /\ sh.conn # Nobody /\ sh.conn \in cut
           /\ shell' = [sh EXCEPT !.conn = Nobody] /\ Close({sh.conn})
           /\ UNCHANGED <<server, up>>
  <2>1. shell' \in ShellSpace /\ shell'.conn = Nobody /\ shell'.todo = <<>>
    BY <1>2 DEF ShellSpace
  <2>2. /\ gone' = gone \cup {sh.conn}
        /\ down' = [c \in Conns |-> IF c \in {sh.conn} THEN <<>> ELSE down[c]]
    BY <1>2 DEF Close
  <2>3. sh.conn \in ShellConns  BY <1>0, <1>2
  <2>4. World'  BY <1>0, <2>1, <2>2, <2>3 DEF World, BridgeInv
  <2>5. down' \in [Conns -> Seq(Event)]
    <3>1. \A c \in Conns : (IF c \in {sh.conn} THEN <<>> ELSE down[c]) \in Seq(Event)  BY <1>0
    <3> QED  BY <2>2, <3>1
  <2>6. \A r \in Requests : down'[r] = down[r] /\ (r \in gone' <=> r \in gone)
    BY <1>0, <2>2, <2>3
  <2>7. UNCHANGED <<clients, consent, region, queue, workspace, portal, running,
                    backlog, role, cut, torn, told, ignored, up>>
    BY <1>2 DEF server
  <2>8. shell'.conn \notin told'  BY <1>0, <2>1, <2>7
  <2>9. UNCHANGED <<clients, consent, region, queue, workspace, portal, running>>  BY <2>7
  <2>10. /\ backlog' \in Seq(Conns) /\ cut' \in SUBSET Conns /\ torn' \in SUBSET Conns
         /\ role' \in SUBSET ShellConns /\ told' \subseteq told /\ told' \subseteq role'
         /\ ignored' \in SUBSET Conns
         /\ up' \in UpSpace
    BY <1>0, <2>7
  <2>11. \A r \in Requests : /\ up'[r] = up[r] /\ down'[r] = down[r]
                             /\ r \in gone' <=> r \in gone
                             /\ Has(backlog, r) => Has(backlog', r)
    BY <2>6, <2>7
  <2>12. \A c \in ShellConns : \A i \in 1..Len(up'[c]) :
            up'[c][i].kind \in Held /\ up'[c][i].yes => up'[c][i].req \in allowed'
    BY <1>00, <2>7
  <2>13. /\ \A i \in 1..Len(shell'.todo) : shell'.todo[i].kind \in Held /\ shell'.todo[i].yes
                                              => shell'.todo[i].req \in allowed'
         /\ ~ (shell'.todo # <<>>)
    BY <2>1
  <2> QED  BY <2>4, <2>5, <2>8, <2>9, <2>10, <2>11, <2>12, <2>13, ShellKeeps
<1>3. CASE /\ sh.conn # Nobody /\ sh.conn \notin cut
           /\ up' = [up EXCEPT ![sh.conn] = Append(@, x)]
           /\ shell' = sh /\ UNCHANGED <<server, down, gone>>
  <2> DEFINE c == shell.conn
             longer == Append(up[c], x)
  <2>1. c \in ShellConns /\ c \in Conns /\ c \notin Requests  BY <1>0, <1>3
  <2>2. /\ up \in [Conns -> Seq(Shot \cup ShellLine)]
        /\ \A r \in Requests : up[r] \in Seq(Shot)
        /\ \A k \in ShellConns : up[k] \in Seq(ShellLine)
    BY StateTypes
  <2>3. up' = [up EXCEPT ![c] = longer]  BY <1>3
  <2>4. up[c] \in Seq(ShellLine)  BY <2>1, <2>2
  <2>5. longer \in Seq(ShellLine)  BY <2>4
  <2>6. /\ Len(longer) = Len(up[c]) + 1 /\ Len(up[c]) \in Nat /\ longer[Len(up[c]) + 1] = x
        /\ \A i \in 1..Len(up[c]) : longer[i] = up[c][i]
    BY <2>4
  <2> HIDE DEF longer, c
  <2>7. up'[c] = longer /\ \A d \in Conns : d # c => up'[d] = up[d]  BY <2>1, <2>2, <2>3
  <2>8. up' \in UpSpace
    <3>1. longer \in Seq(Shot \cup ShellLine)  BY <2>5
    <3>2. up' \in [Conns -> Seq(Shot \cup ShellLine)]
      <4> DEFINE T == Seq(Shot \cup ShellLine)
      <4>1. up \in [Conns -> T] /\ longer \in T  BY <2>2, <3>1
      <4> HIDE DEF T
      <4>2. up' \in [Conns -> T]  BY <2>3, <4>1
      <4> QED  BY <4>2 DEF T
    <3>3. ASSUME NEW r \in Requests PROVE up'[r] \in Seq(Shot)
      <4>1. up'[r] = up[r]  BY <1>0, <2>1, <2>7
      <4> QED  BY <2>2, <4>1
    <3>4. ASSUME NEW k \in ShellConns PROVE up'[k] \in Seq(ShellLine)
      <4>1. CASE k = c  BY <2>5, <2>7, <4>1
      <4>2. CASE k # c
        <5>1. up'[k] = up[k]  BY <1>0, <2>7, <4>2
        <5> QED  BY <2>2, <5>1
      <4> QED  BY <4>1, <4>2
    <3> QED  BY <3>2, <3>3, <3>4 DEF UpSpace
  <2>9. \A k \in ShellConns : \A i \in 1..Len(up'[k]) :
           up'[k][i].kind \in Held /\ up'[k][i].yes => up'[k][i].req \in allowed'
    <3> TAKE k \in ShellConns
    <3>1. CASE k = c
      <4> TAKE i \in 1..Len(up'[k])
      <4>1. i \in 1..Len(up[c]) \/ i = Len(up[c]) + 1  BY <2>6, <2>7, <3>1
      <4>2. CASE i = Len(up[c]) + 1
        <5>1. up'[k][i] = x  BY <2>6, <2>7, <3>1, <4>2
        <5> QED  BY <5>1
      <4>3. CASE i \in 1..Len(up[c])
        <5>1. up'[k][i] = up[c][i]  BY <2>6, <2>7, <3>1, <4>3
        <5> QED  BY <1>00, <2>1, <4>3, <5>1
      <4> QED  BY <4>1, <4>2, <4>3
    <3>2. CASE k # c
      <4>1. up'[k] = up[k]  BY <1>0, <2>7, <3>2
      <4> QED  BY <1>00, <4>1
    <3> QED  BY <3>1, <3>2
  <2>10. UNCHANGED <<clients, consent, region, queue, workspace, portal, running,
                     backlog, role, cut, torn, told, ignored, down, gone>>
    BY <1>3 DEF server
  <2>11. World'  BY <1>3, <2>10 DEF World, BridgeInv
  <2>12. \A r \in Requests : up'[r] = up[r]  BY <1>0, <2>1, <2>7
  <2>13. shell'.conn = c /\ shell'.blind = shell.blind /\ shell'.todo = <<>>
         /\ (shell'.view = shell.view \/ IsSwitch(x, shell'.view))
    BY <1>3 DEF c
  <2>14. c \in told' =>
            \/ LastDeskIs(down'[c], workspace)
            \/ /\ NoDesk(down'[c])
               /\ \/ shell'.blind \/ c \in ignored' \/ shell'.view = workspace
                  \/ \E i \in 1..Len(up'[c]) : IsSwitch(up'[c][i], shell'.view)
    <3> HAVE c \in told'
    <3>1. \/ LastDeskIs(down[c], workspace)
          \/ /\ NoDesk(down[c])
             /\ \/ shell.blind \/ c \in ignored \/ shell.view = workspace
                \/ \E i \in 1..Len(up[c]) : IsSwitch(up[c][i], shell.view)
      <4>1. Follows(Server, 0)  BY DEF BridgeInv, Keeps
      <4>2. \A w : Pending(Server, 0, c, w) => \E i \in 1..Len(up[c]) : IsSwitch(up[c][i], w)
        <5>1. Len(Server.inbox) = 0  BY Fields
        <5> QED  BY <5>1, Fields DEF Pending
      <4> QED  BY <2>10, <4>1, <4>2, Fields DEF Follows, c
    <3>2. \A w : (\E i \in 1..Len(up[c]) : IsSwitch(up[c][i], w))
                    => \E i \in 1..Len(up'[c]) : IsSwitch(up'[c][i], w)
      <4>1. \A i \in 1..Len(up[c]) : i \in 1..Len(up'[c])  BY <2>6, <2>7
      <4> QED  BY <2>6, <2>7, <4>1
    <3>3. IsSwitch(x, shell'.view) =>
             \E i \in 1..Len(up'[c]) : IsSwitch(up'[c][i], shell'.view)
      <4>1. Len(up[c]) + 1 \in 1..Len(up'[c]) /\ up'[c][Len(up[c]) + 1] = x  BY <2>6, <2>7
      <4> QED  BY <4>1
    <3> QED  BY <2>10, <2>13, <3>1, <3>2, <3>3
  <2>15. UNCHANGED <<clients, consent, region, queue, workspace, portal, running>>  BY <2>10
  <2>16. /\ backlog' \in Seq(Conns) /\ cut' \in SUBSET Conns /\ torn' \in SUBSET Conns
         /\ role' \in SUBSET ShellConns /\ told' \subseteq told /\ told' \subseteq role'
         /\ ignored' \in SUBSET Conns
         /\ down' \in [Conns -> Seq(Event)]
    BY <1>0, <2>10
  <2>17. \A r \in Requests : /\ up'[r] = up[r] /\ down'[r] = down[r]
                             /\ r \in gone' <=> r \in gone
                             /\ Has(backlog, r) => Has(backlog', r)
    BY <2>10, <2>12
  <2>18. /\ \A i \in 1..Len(shell'.todo) : shell'.todo[i].kind \in Held /\ shell'.todo[i].yes
                                              => shell'.todo[i].req \in allowed'
         /\ ~ (shell'.todo # <<>>)
    BY <2>13
  <2>19. shell'.conn \in told' =>
            \/ LastDeskIs(down'[shell'.conn], workspace)
            \/ /\ NoDesk(down'[shell'.conn])
               /\ \/ shell'.blind \/ shell'.conn \in ignored' \/ shell'.view = workspace
                  \/ \E i \in 1..Len(up'[shell'.conn]) :
                        IsSwitch(up'[shell'.conn][i], shell'.view)
    BY <2>13, <2>14
  <2> QED  BY <2>8, <2>9, <2>11, <2>15, <2>16, <2>17, <2>18, <2>19, ShellKeeps
<1> QED  BY <1>1, <1>2, <1>3 DEF Send

LEMMA ReconnectStep == ASSUME BridgeInv, Reconnect PROVE BridgeInv'
<1>1. Connect(shell, <<>>)  BY DEF Reconnect
<1>2. UNCHANGED <<clients, consent, region, queue, workspace, running, portal>>
  BY DEF Reconnect
<1>3. allowed' = allowed  BY DEF Reconnect
<1>4. shell \in ShellSpace /\ allowed' \in SUBSET Requests  BY <1>3, StateTypes
<1>5. <<>> \in Seq(ShellLine)  OBVIOUS
<1>6. \A i \in 1..Len(<<>>) :
         <<>>[i].kind \in Held /\ <<>>[i].yes => <<>>[i].req \in allowed'
  OBVIOUS
<1>7. allowed \subseteq allowed'  BY <1>3
<1> QED  BY <1>1, <1>2, <1>4, <1>5, <1>6, <1>7, ConnectStep

(* What the shell's connection says of the panel, without the compositor's  *)
(* record.                                                                  *)
Shown(c, view, blind, w) ==
    \/ LastDeskIs(down[c], w)
    \/ /\ NoDesk(down[c])
       /\ \/ blind \/ c \in ignored \/ view = w
          \/ \E i \in 1..Len(up[c]) : IsSwitch(up[c][i], view)

LEMMA FollowsHere ==
    ASSUME BridgeInv, shell.conn \in told
    PROVE  Shown(shell.conn, shell.view, shell.blind, workspace)
<1>1. Follows(Server, 0)  BY DEF BridgeInv, Keeps
<1>2. Len(Server.inbox) = 0  BY Fields
<1> QED  BY <1>1, <1>2, Fields DEF Follows, Pending, Shown

(* What is in flight from the shell is allowed.                             *)
LEMMA AllowedHere ==
    ASSUME BridgeInv, allowed \subseteq allowed'
    PROVE  /\ \A c \in ShellConns : \A i \in 1..Len(up[c]) :
                 up[c][i].kind \in Held /\ up[c][i].yes => up[c][i].req \in allowed'
           /\ \A i \in 1..Len(shell.todo) :
                 shell.todo[i].kind \in Held /\ shell.todo[i].yes
                    => shell.todo[i].req \in allowed'
           /\ shell.todo # <<>> => shell.conn \in ShellConns /\ up[shell.conn] = <<>>
<1>1. Lawful(Server)  BY DEF BridgeInv, Keeps
<1> QED  BY <1>1, Fields DEF Lawful, Permitted

LEMMA WriteTokenStep == ASSUME BridgeInv, WriteToken PROVE BridgeInv'
<1> DEFINE c == shell.conn
           todo == shell.todo
<1>0. /\ up \in UpSpace /\ down \in [Conns -> Seq(Event)] /\ backlog \in Seq(Conns)
      /\ cut \in SUBSET Conns /\ torn \in SUBSET Conns /\ role \in SUBSET ShellConns
      /\ told \in SUBSET role /\ ignored \in SUBSET Conns /\ Requests \cap ShellConns = {}
      /\ Requests \subseteq Conns /\ ShellConns \subseteq Conns
      /\ up \in [Conns -> Seq(Shot \cup ShellLine)]
      /\ \A r \in Requests : up[r] \in Seq(Shot)
      /\ \A k \in ShellConns : up[k] \in Seq(ShellLine)
      /\ shell \in ShellSpace
  BY StateTypes
<1>1. /\ up' = [up EXCEPT ![c] = todo] /\ shell' = [shell EXCEPT !.todo = <<>>]
      /\ todo # <<>>
      /\ clients' = clients /\ backlog' = backlog /\ role' = role /\ cut' = cut
      /\ torn' = torn /\ consent' = consent /\ region' = region /\ queue' = queue
      /\ workspace' = workspace /\ told' = told /\ ignored' = ignored
      /\ down' = down /\ gone' = gone /\ running' = running /\ portal' = portal
      /\ allowed' = allowed
  BY DEF WriteToken, server
<1>2. c \in ShellConns /\ up[c] = <<>>
  BY <1>1, AllowedHere
<1>3. c \in Conns /\ c \notin Requests  BY <1>0, <1>2
<1>4. todo \in Seq(ShellLine)  BY <1>0 DEF ShellSpace
<1>5. shell' \in ShellSpace /\ shell'.todo = <<>> /\ shell'.conn = c
      /\ shell'.view = shell.view /\ shell'.blind = shell.blind
  <2>1. <<>> \in Seq(ShellLine)  OBVIOUS
  <2> QED  BY <1>0, <1>1, <2>1 DEF ShellSpace
<1> HIDE DEF c, todo
<1>6. up'[c] = todo /\ \A d \in Conns : d # c => up'[d] = up[d]  BY <1>0, <1>1, <1>3
<1>7. up' \in UpSpace
  <2>1. todo \in Seq(Shot \cup ShellLine)  BY <1>4
  <2>2. up' \in [Conns -> Seq(Shot \cup ShellLine)]
    <3> DEFINE T == Seq(Shot \cup ShellLine)
    <3>1. up \in [Conns -> T] /\ todo \in T  BY <1>0, <2>1
    <3> HIDE DEF T
    <3>2. up' \in [Conns -> T]  BY <1>1, <3>1
    <3> QED  BY <3>2 DEF T
  <2>3. ASSUME NEW r \in Requests PROVE up'[r] \in Seq(Shot)
    <3>1. up'[r] = up[r]  BY <1>0, <1>3, <1>6
    <3> QED  BY <1>0, <3>1
  <2>4. ASSUME NEW k \in ShellConns PROVE up'[k] \in Seq(ShellLine)
    <3>1. CASE k = c  BY <1>4, <1>6, <3>1
    <3>2. CASE k # c
      <4>1. up'[k] = up[k]  BY <1>0, <1>6, <3>2
      <4> QED  BY <1>0, <4>1
    <3> QED  BY <3>1, <3>2
  <2> QED  BY <2>2, <2>3, <2>4 DEF UpSpace
<1>8. \A r \in Requests : /\ up'[r] = up[r] /\ down'[r] = down[r]
                          /\ r \in gone' <=> r \in gone
                          /\ Has(backlog, r) => Has(backlog', r)
  BY <1>0, <1>1, <1>3, <1>6
<1>9. World'  BY <1>1, <1>5 DEF World, BridgeInv
<1>10. UNCHANGED <<clients, consent, region, queue, workspace, portal, running>>  BY <1>1
<1>11. /\ backlog' \in Seq(Conns) /\ cut' \in SUBSET Conns /\ torn' \in SUBSET Conns
       /\ role' \in SUBSET ShellConns /\ told' \subseteq told /\ told' \subseteq role'
       /\ ignored' \in SUBSET Conns
       /\ down' \in [Conns -> Seq(Event)]
  BY <1>0, <1>1
<1>12. \A k \in ShellConns : \A i \in 1..Len(up'[k]) :
          up'[k][i].kind \in Held /\ up'[k][i].yes => up'[k][i].req \in allowed'
  <2> TAKE k \in ShellConns
  <2>0. allowed \subseteq allowed'  BY <1>1
  <2>1. CASE k = c
    <3>1. \A i \in 1..Len(todo) :
             todo[i].kind \in Held /\ todo[i].yes => todo[i].req \in allowed'
      BY <2>0, AllowedHere DEF todo
    <3> QED  BY <1>6, <2>1, <3>1
  <2>2. CASE k # c
    <3>1. up'[k] = up[k]  BY <1>0, <1>6, <2>2
    <3> QED  BY <2>0, <3>1, AllowedHere
  <2> QED  BY <2>1, <2>2
<1>13. shell'.conn \in told' =>
          \/ LastDeskIs(down'[shell'.conn], workspace)
          \/ /\ NoDesk(down'[shell'.conn])
             /\ \/ shell'.blind \/ shell'.conn \in ignored' \/ shell'.view = workspace
                \/ \E i \in 1..Len(up'[shell'.conn]) :
                      IsSwitch(up'[shell'.conn][i], shell'.view)
  <2> HAVE shell'.conn \in told'
  <2>1. Shown(c, shell.view, shell.blind, workspace)  BY <1>1, <1>5, FollowsHere DEF c
  <2>2. ~ \E i \in 1..Len(up[c]) : TRUE  BY <1>2
  <2> QED  BY <1>1, <1>5, <2>1, <2>2 DEF Shown
<1>14. /\ \A i \in 1..Len(shell'.todo) : shell'.todo[i].kind \in Held /\ shell'.todo[i].yes
                                            => shell'.todo[i].req \in allowed'
       /\ ~ (shell'.todo # <<>>)
  BY <1>5
<1>15. allowed \subseteq allowed'  BY <1>1
<1> QED  BY <1>7, <1>8, <1>9, <1>10, <1>11, <1>12, <1>13, <1>14, <1>15, ShellKeeps

(* The shell applies a list of events.                                      *)
LEMMA ApplyOne ==
    ASSUME NEW sh \in ShellSpace, NEW e \in Event
    PROVE  /\ Apply(sh, e) \in ShellSpace
           /\ Apply(sh, e).conn = sh.conn /\ Apply(sh, e).todo = sh.todo
           /\ IsDesk(e) => Apply(sh, e).view = e.ws
           /\ ~ IsDesk(e) => Apply(sh, e).view = sh.view /\ Apply(sh, e).blind = sh.blind
<1>1. CASE IsDesk(e)
  <2>1. e.ws \in Workspaces  BY <1>1 DEF Event, IsDesk
  <2>2. Apply(sh, e) = [sh EXCEPT !.view = e.ws, !.blind = FALSE]
    BY <1>1 DEF Apply, IsDesk
  <2> QED  BY <1>1, <2>1, <2>2 DEF ShellSpace
<1>2. CASE e.kind = "consent"
  <2>0. ~ IsDesk(e)  BY <1>2 DEF IsDesk
  <2>1. e.req \in Requests  BY <1>2 DEF Event
  <2>2. Apply(sh, e) = [sh EXCEPT !.consent = e.req]  BY <1>2, <2>0 DEF Apply
  <2> QED  BY <2>0, <2>1, <2>2 DEF ShellSpace
<1>3. CASE e.kind = "region"
  <2>0. ~ IsDesk(e)  BY <1>3 DEF IsDesk
  <2>1. e.req \in Requests  BY <1>3 DEF Event
  <2>2. Apply(sh, e) = [sh EXCEPT !.region = e.req, !.picker = TRUE, !.local = FALSE]
    BY <1>3, <2>0 DEF Apply
  <2> QED  BY <2>0, <2>1, <2>2 DEF ShellSpace
<1>4. CASE ~ IsDesk(e) /\ e.kind # "consent" /\ e.kind # "region"
  <2>1. Apply(sh, e) = sh  BY <1>4 DEF Apply
  <2> QED  BY <1>4, <2>1
<1> QED  BY <1>1, <1>2, <1>3, <1>4

LEMMA ApplyAll ==
    ASSUME NEW sh \in ShellSpace, NEW list \in Seq(Event)
    PROVE  /\ Each("apply", sh, list) \in ShellSpace
           /\ Each("apply", sh, list).conn = sh.conn /\ Each("apply", sh, list).todo = sh.todo
           /\ NoDesk(list) => /\ Each("apply", sh, list).view = sh.view
                              /\ Each("apply", sh, list).blind = sh.blind
           /\ \A w : LastDeskIs(list, w) => Each("apply", sh, list).view = w
<1>10. PICK g : Passes("apply", sh, list, g)  BY EachIs
<1>1. /\ g[0] = sh
      /\ \A k \in 1..Len(list) : g[k] = Serve("apply", g[k-1], list[k])
      /\ Each("apply", sh, list) = g[Len(list)]
  BY <1>10 DEF Passes
<1>0. Len(list) \in Nat  OBVIOUS
<1> DEFINE Silent(i, k) == \A j \in i..k : ~ IsDesk(list[j])
           Good(k) == /\ g[k] \in ShellSpace /\ g[k].conn = sh.conn /\ g[k].todo = sh.todo
                      /\ Silent(1, k) => g[k].view = sh.view /\ g[k].blind = sh.blind
                      /\ \A i \in 1..k : IsDesk(list[i]) /\ Silent(i+1, k)
                                            => g[k].view = list[i].ws
           S == {k \in 0..Len(list) : Good(k)}
<1>2. 0 \in S
  <2>1. Good(0)  BY <1>1
  <2> QED  BY <1>0, <2>1
<1>3. ASSUME NEW k \in 0..Len(list)-1, k \in S PROVE k+1 \in S
  <2>1. k+1 \in 1..Len(list) /\ (k+1)-1 = k /\ k \in Nat  BY <1>0
  <2>2. list[k+1] \in Event  BY <2>1
  <2>3. g[k+1] = Apply(g[k], list[k+1])  BY <1>1, <2>1 DEF Serve
  <2>4. Good(k)  BY <1>3
  <2> DEFINE a == g[k]
             b == Apply(a, list[k+1])
  <2>5. /\ b \in ShellSpace /\ b.conn = a.conn /\ b.todo = a.todo
        /\ IsDesk(list[k+1]) => b.view = list[k+1].ws
        /\ ~ IsDesk(list[k+1]) => b.view = a.view /\ b.blind = a.blind
    BY <2>2, <2>4, ApplyOne
  <2>6. g[k+1] = b  BY <2>3
  <2> HIDE DEF b
  <2>7. Silent(1, k+1) => b.view = sh.view /\ b.blind = sh.blind
    <3> HAVE Silent(1, k+1)
    <3>1. Silent(1, k)  BY <2>1
    <3>2. ~ IsDesk(list[k+1])  BY <2>1
    <3> QED  BY <2>4, <2>5, <3>1, <3>2
  <2>8. ASSUME NEW i \in 1..k+1, IsDesk(list[i]), Silent(i+1, k+1)
        PROVE  b.view = list[i].ws
    <3>1. CASE i = k+1  BY <2>5, <2>8, <3>1
    <3>2. CASE i # k+1
      <4>1. i \in 1..k /\ k+1 \in i+1..k+1  BY <2>1, <3>2
      <4>2. ~ IsDesk(list[k+1])  BY <2>8, <4>1
      <4>3. Silent(i+1, k)  BY <2>1, <2>8
      <4>4. a.view = list[i].ws  BY <2>4, <2>8, <4>1, <4>3
      <4> QED  BY <2>5, <4>2, <4>4
    <3> QED  BY <3>1, <3>2
  <2>9. Good(k+1)  BY <2>4, <2>5, <2>6, <2>7, <2>8
  <2> QED  BY <2>1, <2>9
<1>4. Good(Len(list))
  <2>1. Len(list) \in S
    <3> HIDE DEF S
    <3>1. \A k \in 0..Len(list) : k \in S  BY <1>0, <1>2, <1>3, UpTo
    <3> QED  BY <1>0, <3>1
  <2> QED  BY <2>1
<1>5. NoDesk(list) => Silent(1, Len(list))  BY DEF NoDesk
<1>6. ASSUME NEW w, LastDeskIs(list, w) PROVE g[Len(list)].view = w
  <2>1. PICK i \in 1..Len(list) : /\ IsDesk(list[i]) /\ list[i].ws = w
                                  /\ \A j \in i+1..Len(list) : ~ IsDesk(list[j])
    BY <1>6 DEF LastDeskIs
  <2>2. Silent(i+1, Len(list))  BY <2>1
  <2> QED  BY <1>4, <2>1, <2>2
<1> QED  BY <1>1, <1>4, <1>5, <1>6

(* Without its first event a list shows what it showed, unless that event   *)
(* was the only one about the workspace.                                    *)
LEMMA TailShows ==
    ASSUME NEW list \in Seq(Event), list # <<>>
    PROVE  /\ Tail(list) \in Seq(Event)
           /\ NoDesk(list) => NoDesk(Tail(list))
           /\ \A w : LastDeskIs(list, w) =>
                 \/ LastDeskIs(Tail(list), w)
                 \/ (IsDesk(Head(list)) /\ NoDesk(Tail(list)))
<1>1. /\ Len(list) \in Nat \ {0} /\ Tail(list) \in Seq(Event) /\ Len(Tail(list)) = Len(list) - 1
      /\ Head(list) = list[1]
  OBVIOUS
<1>2. \A i \in 1..Len(Tail(list)) : Tail(list)[i] = list[i+1] /\ i+1 \in 1..Len(list)
  BY <1>1
<1> DEFINE rest == Tail(list)
<1>3. \A i \in 2..Len(list) : i-1 \in 1..Len(rest) /\ rest[i-1] = list[i]  BY <1>1, <1>2
<1>4. Len(rest) = Len(list) - 1 /\ \A i \in 1..Len(rest) : rest[i] = list[i+1] /\ i+1 \in 1..Len(list)
  BY <1>1, <1>2
<1> HIDE DEF rest
<1>5. NoDesk(list) => NoDesk(rest)  BY <1>4 DEF NoDesk
<1>6. ASSUME NEW w, LastDeskIs(list, w)
      PROVE  LastDeskIs(rest, w) \/ (IsDesk(list[1]) /\ NoDesk(rest))
  <2>1. PICK i \in 1..Len(list) : /\ IsDesk(list[i]) /\ list[i].ws = w
                                  /\ \A j \in i+1..Len(list) : ~ IsDesk(list[j])
    BY <1>6 DEF LastDeskIs
  <2>2. CASE i = 1
    <3>1. \A j \in 1..Len(rest) : j+1 \in 1+1..Len(list)  BY <1>1, <1>4
    <3>2. NoDesk(rest)  BY <1>4, <2>1, <2>2, <3>1 DEF NoDesk
    <3> QED  BY <2>1, <2>2, <3>2
  <2>3. CASE i # 1
    <3>1. i \in 2..Len(list)  BY <1>1, <2>3
    <3>2. i-1 \in 1..Len(rest) /\ rest[i-1] = list[i]  BY <1>3, <3>1
    <3>3. \A j \in (i-1)+1..Len(rest) : j+1 \in i+1..Len(list) /\ j \in 1..Len(rest)
      BY <1>1, <1>4, <3>1
    <3>4. \A j \in (i-1)+1..Len(rest) : ~ IsDesk(rest[j])  BY <1>4, <2>1, <3>3
    <3>5. IsDesk(rest[i-1]) /\ rest[i-1].ws = w  BY <2>1, <3>2
    <3>6. LastDeskIs(rest, w)  BY <3>2, <3>4, <3>5 DEF LastDeskIs
    <3> QED  BY <3>6
  <2> QED  BY <2>2, <2>3
<1> QED  BY <1>1, <1>5, <1>6 DEF rest

LEMMA ShellPollStep == ASSUME BridgeInv, ShellPoll PROVE BridgeInv'
<1> DEFINE c == shell.conn
           spoilt == shell.residue /\ down[c] # <<>>
           heard == IF spoilt THEN Tail(down[c]) ELSE down[c]
           start == [shell EXCEPT
                       !.residue = IF c \in torn THEN TRUE ELSE @ /\ down[c] = <<>>,
                       !.blind   = @ \/ (spoilt /\ IsDesk(Head(down[c]))),
                       !.conn    = IF c \in cut THEN Nobody ELSE @]
           after == Each("apply", start, heard)
<1>0. /\ up \in UpSpace /\ down \in [Conns -> Seq(Event)] /\ backlog \in Seq(Conns)
      /\ cut \in SUBSET Conns /\ torn \in SUBSET Conns /\ role \in SUBSET ShellConns
      /\ told \in SUBSET role /\ ignored \in SUBSET Conns /\ Requests \cap ShellConns = {}
      /\ gone \in SUBSET Conns
      /\ Requests \subseteq Conns /\ ShellConns \subseteq Conns /\ Nobody \notin Conns
      /\ shell \in ShellSpace /\ shell.conn \in ShellConns \cup {Nobody}
  BY StateTypes
<1>1. /\ shell' = after /\ down' = [down EXCEPT ![c] = <<>>]
      /\ gone' = IF c \in cut THEN gone \cup {c} ELSE gone
      /\ shell.todo = <<>> /\ c # Nobody
      /\ clients' = clients /\ backlog' = backlog /\ role' = role /\ cut' = cut
      /\ torn' = torn /\ consent' = consent /\ region' = region /\ queue' = queue
      /\ workspace' = workspace /\ told' = told /\ ignored' = ignored
      /\ up' = up /\ running' = running /\ portal' = portal /\ allowed' = allowed
  BY DEF ShellPoll, Idle, server
<1>2. c \in ShellConns /\ c \in Conns /\ c \notin Requests  BY <1>0, <1>1
<1>3. down[c] \in Seq(Event)  BY <1>0, <1>2
<1>4. /\ start \in ShellSpace /\ start.todo = <<>> /\ start.view = shell.view
      /\ start.conn = IF c \in cut THEN Nobody ELSE c
      /\ start.blind = (shell.blind \/ (spoilt /\ IsDesk(Head(down[c]))))
  <2> DEFINE residue == IF c \in torn THEN TRUE ELSE shell.residue /\ down[c] = <<>>
             blind == shell.blind \/ (spoilt /\ IsDesk(Head(down[c])))
             conn == IF c \in cut THEN Nobody ELSE c
  <2>1. residue \in BOOLEAN
    <3>1. shell.residue \in BOOLEAN  BY <1>0 DEF ShellSpace
    <3> QED  BY <3>1
  <2>2. blind \in BOOLEAN  OBVIOUS
  <2>3. conn \in ShellConns \cup {Nobody}  BY <1>2
  <2>4. start = [shell EXCEPT !.residue = residue, !.blind = blind, !.conn = conn]  OBVIOUS
  <2> HIDE DEF start, residue, blind, conn
  <2>5. /\ start \in ShellSpace /\ start.todo = shell.todo /\ start.view = shell.view
        /\ start.conn = conn /\ start.blind = blind
    BY <1>0, <2>1, <2>2, <2>3, <2>4 DEF ShellSpace
  <2> QED  BY <1>1, <2>5 DEF conn, blind
<1>5. heard \in Seq(Event)
  <2>1. CASE spoilt  BY <1>3, <2>1, TailShows
  <2>2. CASE ~ spoilt  BY <1>3, <2>2
  <2> QED  BY <2>1, <2>2
<1>6. /\ after \in ShellSpace
      /\ after.conn = start.conn /\ after.todo = start.todo
      /\ NoDesk(heard) => after.view = start.view /\ after.blind = start.blind
      /\ \A w : LastDeskIs(heard, w) => after.view = w
  <2> HIDE DEF start, heard
  <2> QED  BY <1>4, <1>5, ApplyAll
<1>7. Shown(c, shell.view, shell.blind, workspace) => after.view = workspace \/ after.blind \/ c \in ignored
        \/ \E i \in 1..Len(up[c]) : IsSwitch(up[c][i], after.view)
  <2> HAVE Shown(c, shell.view, shell.blind, workspace)
  <2>1. CASE NoDesk(down[c])
    <3>1. NoDesk(heard)
      <4>1. CASE spoilt  BY <1>3, <2>1, <4>1, TailShows
      <4>2. CASE ~ spoilt  BY <2>1, <4>2
      <4> QED  BY <4>1, <4>2
    <3>2. after.view = shell.view /\ (shell.blind => after.blind)
      <4> HIDE DEF after, start, heard
      <4> QED  BY <1>4, <1>6, <3>1
    <3>3. ~ LastDeskIs(down[c], workspace)  BY <2>1 DEF NoDesk, LastDeskIs
    <3> HIDE DEF after
    <3> QED  BY <3>2, <3>3 DEF Shown
  <2>2. CASE LastDeskIs(down[c], workspace) /\ ~ spoilt
    <3>1. LastDeskIs(heard, workspace)  BY <2>2
    <3> HIDE DEF after, heard
    <3> QED  BY <1>6, <3>1
  <2>3. CASE LastDeskIs(down[c], workspace) /\ spoilt
    <3>0. heard = Tail(down[c])  BY <2>3
    <3>1. LastDeskIs(heard, workspace) \/ (IsDesk(Head(down[c])) /\ NoDesk(heard))
      <4>1. down[c] # <<>> /\ LastDeskIs(down[c], workspace)  BY <2>3
      <4> HIDE DEF heard, c
      <4>2. LastDeskIs(Tail(down[c]), workspace)
              \/ (IsDesk(Head(down[c])) /\ NoDesk(Tail(down[c])))
        BY <1>3, <4>1, TailShows
      <4> QED  BY <3>0, <4>2
    <3>2. IsDesk(Head(down[c])) => start.blind
      <4> HIDE DEF start
      <4> QED  BY <1>4, <2>3
    <3> HIDE DEF after, start, heard
    <3> QED  BY <1>6, <3>1, <3>2
  <2> QED  BY <2>1, <2>2, <2>3 DEF Shown
<1>8. /\ shell' \in ShellSpace /\ shell'.todo = <<>>
      /\ shell'.conn = IF c \in cut THEN Nobody ELSE c
  <2> HIDE DEF after, start, heard
  <2> QED  BY <1>1, <1>4, <1>6
<1>9. shell' = after  BY <1>1
<1> HIDE DEF after, start, heard, spoilt, c
<1>10. World'  BY <1>0, <1>1, <1>2, <1>8 DEF World, BridgeInv
<1>11. down' \in [Conns -> Seq(Event)] /\ down'[c] = <<>>
       /\ \A d \in Conns : d # c => down'[d] = down[d]
  <2>1. <<>> \in Seq(Event)  OBVIOUS
  <2>2. down' \in [Conns -> Seq(Event)]
    <3> DEFINE T == Seq(Event)
    <3>1. down \in [Conns -> T] /\ <<>> \in T  BY <1>0, <2>1
    <3> HIDE DEF T
    <3>2. down' \in [Conns -> T]  BY <1>1, <3>1
    <3> QED  BY <3>2 DEF T
  <2> QED  BY <1>0, <1>1, <1>2, <2>2
<1>12. UNCHANGED <<clients, consent, region, queue, workspace, portal, running>>  BY <1>1
<1>13. /\ backlog' \in Seq(Conns) /\ cut' \in SUBSET Conns /\ torn' \in SUBSET Conns
       /\ role' \in SUBSET ShellConns /\ told' \subseteq told /\ told' \subseteq role'
       /\ ignored' \in SUBSET Conns
       /\ up' \in UpSpace
  BY <1>0, <1>1
<1>14. \A r \in Requests : /\ up'[r] = up[r] /\ down'[r] = down[r]
                           /\ r \in gone' <=> r \in gone
                           /\ Has(backlog, r) => Has(backlog', r)
  BY <1>0, <1>1, <1>2, <1>11
<1>15. allowed \subseteq allowed'  BY <1>1
<1>16. \A k \in ShellConns : \A i \in 1..Len(up'[k]) :
          up'[k][i].kind \in Held /\ up'[k][i].yes => up'[k][i].req \in allowed'
  BY <1>1, <1>15, AllowedHere
<1>17. /\ \A i \in 1..Len(shell'.todo) : shell'.todo[i].kind \in Held /\ shell'.todo[i].yes
                                            => shell'.todo[i].req \in allowed'
       /\ ~ (shell'.todo # <<>>)
  BY <1>8
<1>18. shell'.conn \in told' =>
          \/ LastDeskIs(down'[shell'.conn], workspace)
          \/ /\ NoDesk(down'[shell'.conn])
             /\ \/ shell'.blind \/ shell'.conn \in ignored' \/ shell'.view = workspace
                \/ \E i \in 1..Len(up'[shell'.conn]) :
                      IsSwitch(up'[shell'.conn][i], shell'.view)
  <2> HAVE shell'.conn \in told'
  <2>1. shell'.conn = c /\ c \in told  BY <1>0, <1>1, <1>8
  <2>2. Shown(c, shell.view, shell.blind, workspace)  BY <2>1, FollowsHere DEF c
  <2>3. NoDesk(down'[c])  BY <1>11 DEF NoDesk
  <2> QED  BY <1>1, <1>7, <1>9, <2>1, <2>2, <2>3
<1> QED  BY <1>10, <1>11, <1>12, <1>13, <1>14, <1>15, <1>16, <1>17, <1>18, ShellKeeps

(* A step of the shell that writes nothing and reads nothing.               *)
LEMMA ShellAlone ==
    ASSUME BridgeInv, shell' \in ShellSpace, shell'.todo = <<>>,
           \/ shell'.conn = Nobody
           \/ /\ shell'.conn = shell.conn /\ shell'.view = shell.view
              /\ shell'.blind = shell.blind,
           allowed' = allowed,
           UNCHANGED <<clients, backlog, role, cut, torn, consent, region, queue, workspace,
                       told, ignored, up, down, gone, running, portal>>
    PROVE  BridgeInv'
<1>0. /\ up \in UpSpace /\ down \in [Conns -> Seq(Event)] /\ backlog \in Seq(Conns)
      /\ cut \in SUBSET Conns /\ torn \in SUBSET Conns /\ role \in SUBSET ShellConns
      /\ told \in SUBSET role /\ ignored \in SUBSET Conns /\ ShellConns \subseteq Conns
      /\ Nobody \notin Conns
  BY StateTypes
<1>1. /\ clients' = clients /\ backlog' = backlog /\ role' = role /\ cut' = cut
      /\ torn' = torn /\ consent' = consent /\ region' = region /\ queue' = queue
      /\ workspace' = workspace /\ told' = told /\ ignored' = ignored
      /\ up' = up /\ down' = down /\ gone' = gone /\ running' = running /\ portal' = portal
  OBVIOUS
<1>2. World'  BY <1>1 DEF World, BridgeInv
<1>3. UNCHANGED <<clients, consent, region, queue, workspace, portal, running>>  BY <1>1
<1>4. /\ backlog' \in Seq(Conns) /\ cut' \in SUBSET Conns /\ torn' \in SUBSET Conns
      /\ role' \in SUBSET ShellConns /\ told' \subseteq told /\ told' \subseteq role'
      /\ ignored' \in SUBSET Conns
      /\ up' \in UpSpace /\ down' \in [Conns -> Seq(Event)]
  BY <1>0, <1>1
<1>5. \A r \in Requests : /\ up'[r] = up[r] /\ down'[r] = down[r]
                          /\ r \in gone' <=> r \in gone
                          /\ Has(backlog, r) => Has(backlog', r)
  BY <1>1
<1>6. allowed \subseteq allowed'  OBVIOUS
<1>7. \A c \in ShellConns : \A i \in 1..Len(up'[c]) :
         up'[c][i].kind \in Held /\ up'[c][i].yes => up'[c][i].req \in allowed'
  BY <1>1, <1>6, AllowedHere
<1>8. /\ \A i \in 1..Len(shell'.todo) : shell'.todo[i].kind \in Held /\ shell'.todo[i].yes
                                           => shell'.todo[i].req \in allowed'
      /\ ~ (shell'.todo # <<>>)
  OBVIOUS
<1>9. shell'.conn \in told' =>
         \/ LastDeskIs(down'[shell'.conn], workspace)
         \/ /\ NoDesk(down'[shell'.conn])
            /\ \/ shell'.blind \/ shell'.conn \in ignored' \/ shell'.view = workspace
               \/ \E i \in 1..Len(up'[shell'.conn]) :
                     IsSwitch(up'[shell'.conn][i], shell'.view)
  <2> HAVE shell'.conn \in told'
  <2>1. /\ shell'.conn = shell.conn /\ shell'.view = shell.view
        /\ shell'.blind = shell.blind /\ shell.conn \in told
    BY <1>0, <1>1
  <2>2. Shown(shell.conn, shell.view, shell.blind, workspace)  BY <2>1, FollowsHere
  <2> QED  BY <1>1, <2>1, <2>2 DEF Shown
<1> QED  BY <1>2, <1>3, <1>4, <1>5, <1>6, <1>7, <1>8, <1>9, ShellKeeps

LEMMA OpenPickerStep == ASSUME BridgeInv, OpenPickerLocal PROVE BridgeInv'
<1>1. shell \in ShellSpace  BY StateTypes
<1>2. shell' = [shell EXCEPT !.region = Nobody, !.picker = TRUE, !.local = TRUE]
      /\ shell.todo = <<>>
  BY DEF OpenPickerLocal, Idle
<1>3. /\ shell' \in ShellSpace /\ shell'.todo = <<>> /\ shell'.conn = shell.conn
      /\ shell'.view = shell.view /\ shell'.blind = shell.blind
  BY <1>1, <1>2 DEF ShellSpace
<1>4. /\ allowed' = allowed
      /\ UNCHANGED <<clients, backlog, role, cut, torn, consent, region, queue, workspace,
                     told, ignored, up, down, gone, running, portal>>
  BY DEF OpenPickerLocal, server, wires
<1> QED  BY <1>3, <1>4, ShellAlone

LEMMA NewShells == Fresh \in ShellSpace /\ Dead \in ShellSpace /\ Fresh.todo = <<>>
                   /\ Dead.todo = <<>> /\ Fresh.conn = Nobody /\ Dead.conn = Nobody
<1>1. <<>> \in Seq(ShellLine)  OBVIOUS
<1> QED  BY <1>1, BridgeAssumption DEF Fresh, Dead, ShellSpace

LEMMA RestartStep == ASSUME BridgeInv, Restart PROVE BridgeInv'
<1>1. shell' = Fresh  BY DEF Restart
<1>2. shell' \in ShellSpace /\ shell'.todo = <<>> /\ shell'.conn = Nobody  BY <1>1, NewShells
<1>3. /\ allowed' = allowed
      /\ UNCHANGED <<clients, backlog, role, cut, torn, consent, region, queue, workspace,
                     told, ignored, up, down, gone, running, portal>>
  BY DEF Restart, server, wires
<1> QED  BY <1>2, <1>3, ShellAlone

LEMMA CrashStep == ASSUME BridgeInv, Crash PROVE BridgeInv'
<1>0. /\ up \in UpSpace /\ down \in [Conns -> Seq(Event)] /\ backlog \in Seq(Conns)
      /\ cut \in SUBSET Conns /\ torn \in SUBSET Conns /\ role \in SUBSET ShellConns
      /\ told \in SUBSET role /\ ignored \in SUBSET Conns /\ ShellConns \subseteq Conns
      /\ Nobody \notin Conns
      /\ Requests \cap ShellConns = {} /\ Requests \subseteq Conns
      /\ shell.conn \in ShellConns \cup {Nobody} /\ gone \in SUBSET Conns
  BY StateTypes
<1> DEFINE cs == {shell.conn} \ {Nobody}
<1>1. /\ shell' = Dead
      /\ gone' = gone \cup cs
      /\ down' = [c \in Conns |-> IF c \in cs THEN <<>> ELSE down[c]]
      /\ clients' = clients /\ backlog' = backlog /\ role' = role /\ cut' = cut
      /\ torn' = torn /\ consent' = consent /\ region' = region /\ queue' = queue
      /\ workspace' = workspace /\ told' = told /\ ignored' = ignored
      /\ up' = up /\ running' = running /\ portal' = portal /\ allowed' = allowed
  BY DEF Crash, Close, server
<1>2. cs \subseteq ShellConns  BY <1>0
<1> HIDE DEF cs
<1>3. shell' \in ShellSpace /\ shell'.todo = <<>> /\ shell'.conn = Nobody  BY <1>1, NewShells
<1>4. World'  BY <1>0, <1>1, <1>2, <1>3 DEF World, BridgeInv
<1>5. UNCHANGED <<clients, consent, region, queue, workspace, portal, running>>  BY <1>1
<1>6. down' \in [Conns -> Seq(Event)]
  <2>1. \A c \in Conns : (IF c \in cs THEN <<>> ELSE down[c]) \in Seq(Event)  BY <1>0
  <2> QED  BY <1>1, <2>1
<1>7. /\ backlog' \in Seq(Conns) /\ cut' \in SUBSET Conns /\ torn' \in SUBSET Conns
      /\ role' \in SUBSET ShellConns /\ told' \subseteq told /\ told' \subseteq role'
      /\ ignored' \in SUBSET Conns
      /\ up' \in UpSpace
  BY <1>0, <1>1
<1>8. \A r \in Requests : /\ up'[r] = up[r] /\ down'[r] = down[r]
                          /\ r \in gone' <=> r \in gone
                          /\ Has(backlog, r) => Has(backlog', r)
  BY <1>0, <1>1, <1>2
<1>9. allowed \subseteq allowed'  BY <1>1
<1>10. \A c \in ShellConns : \A i \in 1..Len(up'[c]) :
          up'[c][i].kind \in Held /\ up'[c][i].yes => up'[c][i].req \in allowed'
  BY <1>1, <1>9, AllowedHere
<1>11. /\ \A i \in 1..Len(shell'.todo) : shell'.todo[i].kind \in Held /\ shell'.todo[i].yes
                                            => shell'.todo[i].req \in allowed'
       /\ ~ (shell'.todo # <<>>)
  BY <1>3
<1>12. shell'.conn \notin told'  BY <1>0, <1>1, <1>3
<1> QED  BY <1>4, <1>5, <1>6, <1>7, <1>8, <1>9, <1>10, <1>11, <1>12, ShellKeeps

LEMMA ConsentStep ==
    ASSUME BridgeInv, NEW yes \in BOOLEAN, RespondConsent(yes) PROVE BridgeInv'
<1> DEFINE sh == [shell EXCEPT !.consent = Nobody]
           x == Command("consent", shell.consent, yes)
<1>1. shell \in ShellSpace /\ allowed \in SUBSET Requests  BY StateTypes
<1>2. /\ Send(sh, x) /\ shell.todo = <<>> /\ shell.consent # Nobody
      /\ allowed' = IF yes THEN allowed \cup {shell.consent} ELSE allowed
      /\ running' = running /\ portal' = portal
  BY DEF RespondConsent, Idle
<1>3. /\ sh \in ShellSpace /\ sh.conn = shell.conn /\ sh.todo = <<>>
      /\ sh.blind = shell.blind /\ sh.view = shell.view
  BY <1>1, <1>2 DEF ShellSpace
<1>4. shell.consent \in Requests  BY <1>1, <1>2 DEF ShellSpace
<1>5. x \in ShellLine  BY <1>4 DEF Command, ShellLine
<1>6. x.kind \in Held /\ x.yes => x.req \in allowed'  BY <1>2 DEF Command
<1>7. allowed \subseteq allowed' /\ allowed' \in SUBSET Requests  BY <1>1, <1>2, <1>4
<1>8. sh.view = shell.view \/ IsSwitch(x, sh.view)  BY <1>3
<1> HIDE DEF sh, x
<1>9. running' = running /\ portal' = portal /\ Send(sh, x)  BY <1>2
<1> QED  BY <1>3, <1>5, <1>6, <1>7, <1>8, <1>9, SendStep

LEMMA RegionStep ==
    ASSUME BridgeInv, NEW yes \in BOOLEAN, RespondRegion(yes) PROVE BridgeInv'
<1> DEFINE sh == [shell EXCEPT !.region = Nobody, !.picker = FALSE, !.local = FALSE]
           x == Command("region", shell.region, yes)
<1>1. shell \in ShellSpace /\ allowed \in SUBSET Requests  BY StateTypes
<1>2. /\ shell.todo = <<>>
      /\ IF shell.region = Nobody
         THEN shell' = sh /\ UNCHANGED <<server, wires>> ELSE Send(sh, x)
      /\ allowed' = IF yes /\ shell.region # Nobody
                    THEN allowed \cup {shell.region} ELSE allowed
      /\ running' = running /\ portal' = portal
  BY DEF RespondRegion, Idle
<1>3. /\ sh \in ShellSpace /\ sh.conn = shell.conn /\ sh.todo = <<>>
      /\ sh.blind = shell.blind /\ sh.view = shell.view
  BY <1>1, <1>2 DEF ShellSpace
<1>4. CASE shell.region = Nobody
  <2>1. shell' = sh /\ allowed' = allowed  BY <1>2, <1>4
  <2>2. UNCHANGED <<clients, backlog, role, cut, torn, consent, region, queue, workspace,
                    told, ignored, up, down, gone, running, portal>>
    BY <1>2, <1>4 DEF server, wires
  <2> HIDE DEF sh
  <2> QED  BY <1>3, <2>1, <2>2, ShellAlone
<1>5. CASE shell.region # Nobody
  <2>1. shell.region \in Requests  BY <1>1, <1>5 DEF ShellSpace
  <2>2. x \in ShellLine  BY <2>1 DEF Command, ShellLine
  <2>3. x.kind \in Held /\ x.yes => x.req \in allowed'  BY <1>2, <1>5 DEF Command
  <2>4. allowed \subseteq allowed' /\ allowed' \in SUBSET Requests  BY <1>1, <1>2, <2>1
  <2>5. sh.view = shell.view \/ IsSwitch(x, sh.view)  BY <1>3
  <2> HIDE DEF sh, x
  <2>6. running' = running /\ portal' = portal /\ Send(sh, x)  BY <1>2, <1>5
  <2> QED  BY <1>3, <2>2, <2>3, <2>4, <2>5, <2>6, SendStep
<1> QED  BY <1>4, <1>5

LEMMA ShellSwitchStep ==
    ASSUME BridgeInv, NEW w \in Workspaces, ShellSwitch(w) PROVE BridgeInv'
<1> DEFINE sh == [shell EXCEPT !.view = w]
           x == Command("switch", w, TRUE)
<1>1. shell \in ShellSpace /\ allowed \in SUBSET Requests  BY StateTypes
<1>2. /\ shell.todo = <<>> /\ Send(sh, x)
      /\ running' = running /\ portal' = portal /\ allowed' = allowed
  BY DEF ShellSwitch, Idle
<1>3. /\ sh \in ShellSpace /\ sh.conn = shell.conn /\ sh.todo = <<>>
      /\ sh.blind = shell.blind /\ sh.view = w
  BY <1>1, <1>2 DEF ShellSpace
<1>4. x \in ShellLine  BY DEF Command, ShellLine
<1>5. x.kind \in Held /\ x.yes => x.req \in allowed'  BY DEF Command, Held
<1>6. sh.view = shell.view \/ IsSwitch(x, sh.view)  BY <1>3 DEF Command, IsSwitch
<1>7. allowed \subseteq allowed' /\ allowed' \in SUBSET Requests  BY <1>1, <1>2
<1> HIDE DEF sh, x
<1>8. running' = running /\ portal' = portal /\ Send(sh, x)  BY <1>2
<1> QED  BY <1>3, <1>4, <1>5, <1>6, <1>7, <1>8, SendStep

(* A step of the portal worker of one request.                              *)
LEMMA PortalKeeps ==
    ASSUME BridgeInv, World', NEW r \in Requests,
           UNCHANGED <<clients, role, cut, torn, consent, region, queue, workspace, told, ignored,
                       running, shell, allowed>>,
           backlog' \in Seq(Conns), up' \in UpSpace, down' \in [Conns -> Seq(Event)],
           \A c \in Conns : c # r => /\ up'[c] = up[c] /\ down'[c] = down[c]
                                     /\ c \in gone' <=> c \in gone
                                     /\ Has(backlog, c) => Has(backlog', c),
           \A q \in Requests : q # r => portal'[q] = portal[q],
           Len(up'[r]) <= 1, Len(down'[r]) <= 1,
           Has(down'[r], Answer("success")) => Has(down[r], Answer("success")),
           \E p \in PlaceNames : Placed(Server', 0, r, p) /\ Due(Server, r, p)'
    PROVE  BridgeInv'
<1>0. Server \in Servers /\ Lawful(Server) /\ Follows(Server, 0) /\ Safe(Server, 0)
  BY DEF BridgeInv, Keeps
<1>1. /\ clients' = clients /\ role' = role /\ cut' = cut /\ torn' = torn
      /\ consent' = consent /\ region' = region /\ queue' = queue
      /\ workspace' = workspace /\ told' = told /\ ignored' = ignored
      /\ running' = running /\ shell' = shell /\ allowed' = allowed
  OBVIOUS
<1>2. /\ role \in SUBSET ShellConns /\ told \in SUBSET role /\ ignored \in SUBSET Conns
      /\ cut \in SUBSET Conns
      /\ torn \in SUBSET Conns /\ workspace \in Workspaces /\ clients \in Seq(Conns)
      /\ Requests \cap ShellConns = {} /\ Requests \subseteq Conns /\ ShellConns \subseteq Conns
  BY StateTypes
<1>3. /\ consent \in Seq(Requests) /\ region \in Seq(Requests) /\ queue \in Seq(Requests)
      /\ \A c \in told : c \in role /\ Has(clients, c)
  <2>1. Server \in ServerSpace /\ Tell(Server)  BY <1>0 DEF Servers
  <2>2. Server.consent \in Seq(Requests) /\ Server.region \in Seq(Requests)
        /\ Server.queue \in Seq(Requests)
    BY <2>1 DEF ServerSpace
  <2> QED  BY <2>1, <2>2, Fields DEF Tell
<1>4. Server' \in Servers
  <2>1. told' \in SUBSET Conns  BY <1>1, <1>2
  <2> QED  BY <1>1, <1>2, <1>3, <2>1, NextTypes
<1>5. \A c \in ShellConns : /\ c # r /\ c \in Conns
                            /\ up'[c] = up[c] /\ down'[c] = down[c]
  BY <1>2
<1>6. Lawful(Server)'
  <2>1. \A q : Allowed(q) => Allowed(q)'  BY <1>1 DEF Allowed
  <2>2. \A q \in Requests : Has(down'[q], Answer("success")) => Allowed(q)'
    <3> TAKE q \in Requests
    <3>1. Has(down[q], Answer("success")) => Allowed(q)  BY <1>0, Fields DEF Lawful
    <3>2. Has(down'[q], Answer("success")) => Has(down[q], Answer("success"))  BY <1>2
    <3> QED  BY <2>1, <3>1, <3>2
  <2>3. \A q \in Requests : Has(queue', q) => Allowed(q)'
    BY <1>0, <1>1, <2>1, Fields DEF Lawful
  <2>4. \A i \in 1..Len(Server'.inbox) : FALSE  BY NextFields
  <2>5. \A c \in ShellConns : \A i \in 1..Len(up'[c]) : Permitted(up[c][i])'
    BY <1>0, <1>1, <1>5, Fields DEF Lawful, Permitted
  <2>6. \A i \in 1..Len(shell'.todo) : Permitted(shell.todo[i])'
    BY <1>0, <1>1 DEF Lawful, Permitted
  <2>7. shell'.todo # <<>> => shell'.conn \in ShellConns /\ up'[shell'.conn] = <<>>
    BY <1>0, <1>1, <1>5, Fields DEF Lawful
  <2> QED  BY <2>2, <2>3, <2>4, <2>5, <2>6, <2>7, NextFields DEF Lawful
<1>7. Follows(Server, 0)'
  <2>1. \A c, w : (\E i \in 1..Len(up'[c]) : IsSwitch(up'[c][i], w)) => Pending(Server', 0, c, w)
    BY NextFields DEF Pending
  <2>2. shell'.conn \in told' =>
           \/ LastDeskIs(down'[shell'.conn], workspace')
           \/ /\ NoDesk(down'[shell'.conn])
              /\ \/ shell'.blind \/ shell'.conn \in ignored' \/ shell'.view = workspace'
                 \/ Pending(Server', 0, shell'.conn, shell'.view)
    <3> HAVE shell'.conn \in told'
    <3>1. shell.conn \in told /\ shell.conn \in ShellConns  BY <1>1, <1>2
    <3>2. Shown(shell.conn, shell.view, shell.blind, workspace)  BY <3>1, FollowsHere
    <3>3. up'[shell.conn] = up[shell.conn] /\ down'[shell.conn] = down[shell.conn]
      BY <1>5, <3>1
    <3> QED  BY <1>1, <2>1, <3>2, <3>3 DEF Shown
  <2> QED  BY <2>2, NextFields DEF Follows
<1>8. \A l \in Held : Server'[l] = Server[l]  BY <1>1, Fields, NextFields DEF Held
<1>9. Neat(Server')
  <2>1. Len(Server'.inbox) = 0  BY NextFields
  <2>2. Neat(Server)  BY <1>0 DEF Safe
  <2>3. \A q \in Requests : Len(Server'.up[q]) <= 1 /\ Len(Server'.down[q]) <= 1
    <3> TAKE q \in Requests
    <3>1. CASE q = r  BY <3>1, NextFields
    <3>2. CASE q # r
      <4>1. up'[q] = up[q] /\ down'[q] = down[q]  BY <1>2, <3>2
      <4> QED  BY <2>2, <4>1, Fields, NextFields DEF Neat
    <3> QED  BY <3>1, <3>2
  <2>4. Server'.queue = Server.queue  BY <1>1, Fields, NextFields
  <2> QED  BY <1>8, <2>1, <2>2, <2>3, <2>4 DEF Neat
<1>10. ASSUME NEW q \in Requests
       PROVE  \E p \in PlaceNames : Placed(Server', 0, q, p) /\ Due(Server, q, p)'
  <2>1. CASE q = r  BY <2>1
  <2>2. CASE q # r
    <3>1. PICK p \in PlaceNames : Placed(Server, 0, q, p) /\ Due(Server, q, p)
      BY <1>0 DEF Safe
    <3>2. /\ up'[q] = up[q] /\ down'[q] = down[q] /\ (q \in gone' <=> q \in gone)
          /\ Has(backlog, q) => Has(backlog', q)
      BY <1>2, <2>2
    <3>3. Untouched(Server, 0, Server', 0, q)
      BY <1>1, <1>8, <3>2, ComingEmpty, Fields, NextFields DEF Untouched, SameDown
    <3>4. Placed(Server', 0, q, p) /\ Due(Server', q, p)  BY <3>1, <3>3, Unmoved
    <3>5. Due(Server, q, p)'  BY <1>1, <2>2, <3>2, <3>4 DEF Due
    <3> QED  BY <3>4, <3>5
  <2> QED  BY <2>1, <2>2
<1>11. Safe(Server, 0)'  BY <1>9, <1>10 DEF Safe
<1> QED  BY <1>4, <1>6, <1>7, <1>11 DEF BridgeInv, Keeps

LEMMA CallStep ==
    ASSUME BridgeInv, NEW r \in Requests, NEW m \in Messages, PortalCall(r, m)
    PROVE  BridgeInv'
<1> DEFINE line == <<Screenshot(m)>>
<1>0. /\ up \in [Conns -> Seq(Shot \cup ShellLine)] /\ down \in [Conns -> Seq(Event)]
      /\ \A q \in Requests : up[q] \in Seq(Shot)
      /\ \A k \in ShellConns : up[k] \in Seq(ShellLine)
      /\ backlog \in Seq(Conns)
      /\ Requests \cap ShellConns = {} /\ Requests \subseteq Conns /\ ShellConns \subseteq Conns
  BY StateTypes
<1>1. /\ portal[r] = "idle" /\ portal' = [portal EXCEPT ![r] = "waiting"]
      /\ backlog' = Append(backlog, r) /\ up' = [up EXCEPT ![r] = line]
      /\ clients' = clients /\ role' = role /\ cut' = cut /\ torn' = torn
      /\ consent' = consent /\ region' = region /\ queue' = queue
      /\ workspace' = workspace /\ told' = told /\ ignored' = ignored
      /\ down' = down /\ gone' = gone
      /\ running' = running /\ shell' = shell /\ allowed' = allowed
  BY DEF PortalCall
<1>2. r \in Conns /\ r \notin ShellConns  BY <1>0
<1>3. line \in Seq(Shot) /\ Len(line) = 1 /\ line # <<>>  BY DEF Shot
<1> HIDE DEF line
<1>4. up'[r] = line /\ \A c \in Conns : c # r => up'[c] = up[c]  BY <1>0, <1>1, <1>2
<1>5. up' \in UpSpace
  <2>1. line \in Seq(Shot \cup ShellLine)  BY <1>3
  <2>2. up' \in [Conns -> Seq(Shot \cup ShellLine)]
    <3> DEFINE T == Seq(Shot \cup ShellLine)
    <3>1. up \in [Conns -> T] /\ line \in T  BY <1>0, <2>1
    <3> HIDE DEF T
    <3>2. up' \in [Conns -> T]  BY <1>1, <3>1
    <3> QED  BY <3>2 DEF T
  <2>3. ASSUME NEW q \in Requests PROVE up'[q] \in Seq(Shot)
    <3>1. CASE q = r  BY <1>3, <1>4, <3>1
    <3>2. CASE q # r
      <4>1. up'[q] = up[q]  BY <1>0, <1>4, <3>2
      <4> QED  BY <1>0, <4>1
    <3> QED  BY <3>1, <3>2
  <2>4. ASSUME NEW k \in ShellConns PROVE up'[k] \in Seq(ShellLine)
    <3>1. up'[k] = up[k]  BY <1>0, <1>2, <1>4
    <3> QED  BY <1>0, <3>1
  <2> QED  BY <2>2, <2>3, <2>4 DEF UpSpace
<1>6. backlog' \in Seq(Conns) /\ Has(backlog', r) /\ \A c : Has(backlog, c) => Has(backlog', c)
  BY <1>0, <1>1, <1>2, HasAppend
<1>7. portal \in [Requests -> {"idle", "waiting", "returned"}]  BY DEF BridgeInv, World
<1>8. World'  BY <1>1, <1>7 DEF BridgeInv, World
<1>9. \A c \in Conns : c # r => /\ up'[c] = up[c] /\ down'[c] = down[c]
                                /\ c \in gone' <=> c \in gone
                                /\ Has(backlog, c) => Has(backlog', c)
  BY <1>1, <1>4, <1>6
<1>10. portal'[r] = "waiting" /\ \A q \in Requests : q # r => portal'[q] = portal[q]
  BY <1>1, <1>7
<1>11. /\ down' \in [Conns -> Seq(Event)]
       /\ UNCHANGED <<clients, role, cut, torn, consent, region, queue, workspace, told, ignored,
                      running, shell, allowed>>
  BY <1>0, <1>1
<1>12. Safe(Server, 0)  BY DEF BridgeInv, Keeps
<1>13. Len(up'[r]) <= 1 /\ Len(down'[r]) <= 1
  <2>1. Len(down[r]) <= 1  BY <1>12, Fields DEF Safe, Neat
  <2>2. Len(up'[r]) <= 1  BY <1>3, <1>4
  <2>3. Len(down'[r]) <= 1  BY <1>1, <2>1
  <2> QED  BY <2>2, <2>3
<1>14. Has(down'[r], Answer("success")) => Has(down[r], Answer("success"))  BY <1>1
<1>15. Placed(Server', 0, r, "unread") /\ Due(Server, r, "unread")'
  <2>1. PICK p \in PlaceNames : Placed(Server, 0, r, p) /\ Due(Server, r, p)
    BY <1>12 DEF Safe
  <2>2. p = "nowhere" /\ r \notin gone  BY <1>1, <2>1 DEF Due
  <2>3. \A l \in Held : Server'[l] = Server[l] /\ ~ Has(Server[l], r)
    BY <1>1, <2>1, <2>2, Fields, NextFields DEF Held, Placed
  <2>4. ~ Has(Server'.queue, r) /\ Server'.down[r] = <<>>
    BY <1>1, <2>1, <2>2, Fields, NextFields DEF Placed
  <2>5. Server'.up[r] # <<>>  BY <1>3, <1>4, NextFields
  <2>6. ~ Coming(Server', 0, r)  BY ComingEmpty
  <2>7. Placed(Server', 0, r, "unread")  BY <2>3, <2>4, <2>5, <2>6 DEF Placed, Held
  <2>8. Due(Server, r, "unread")'  BY <1>1, <1>6, <1>10, <2>2, NextFields DEF Due
  <2> QED  BY <2>7, <2>8
<1>16. \E p \in PlaceNames : Placed(Server', 0, r, p) /\ Due(Server, r, p)'
  BY <1>15 DEF PlaceNames
<1> QED  BY <1>5, <1>6, <1>8, <1>9, <1>10, <1>11, <1>13, <1>14, <1>16, PortalKeeps

LEMMA ReturnStep ==
    ASSUME BridgeInv, NEW r \in Requests, PortalReturn(r)
    PROVE  BridgeInv'
<1>0. /\ up \in UpSpace /\ down \in [Conns -> Seq(Event)] /\ backlog \in Seq(Conns)
      /\ Requests \subseteq Conns /\ gone \in SUBSET Conns
  BY StateTypes
<1>1. /\ portal' = [portal EXCEPT ![r] = "returned"]
      /\ gone' = gone \cup {r}
      /\ down' = [c \in Conns |-> IF c \in {r} THEN <<>> ELSE down[c]]
      /\ clients' = clients /\ backlog' = backlog /\ role' = role /\ cut' = cut
      /\ torn' = torn /\ consent' = consent /\ region' = region /\ queue' = queue
      /\ workspace' = workspace /\ told' = told /\ ignored' = ignored /\ up' = up
      /\ running' = running /\ shell' = shell /\ allowed' = allowed
  BY DEF PortalReturn, Close, server
<1>2. r \in Conns  BY <1>0
<1>3. down' \in [Conns -> Seq(Event)]
  <2>1. \A c \in Conns : (IF c \in {r} THEN <<>> ELSE down[c]) \in Seq(Event)  BY <1>0
  <2> QED  BY <1>1, <2>1
<1>4. down'[r] = <<>> /\ \A c \in Conns : c # r => down'[c] = down[c]  BY <1>1, <1>2
<1>5. portal \in [Requests -> {"idle", "waiting", "returned"}]  BY DEF BridgeInv, World
<1>6. World'  BY <1>0, <1>1, <1>2, <1>5 DEF BridgeInv, World
<1>7. \A c \in Conns : c # r => /\ up'[c] = up[c] /\ down'[c] = down[c]
                                /\ c \in gone' <=> c \in gone
                                /\ Has(backlog, c) => Has(backlog', c)
  BY <1>1, <1>4
<1>8. portal'[r] = "returned" /\ \A q \in Requests : q # r => portal'[q] = portal[q]
  BY <1>1, <1>5
<1>9. /\ backlog' \in Seq(Conns) /\ up' \in UpSpace
      /\ UNCHANGED <<clients, role, cut, torn, consent, region, queue, workspace, told, ignored,
                     running, shell, allowed>>
  BY <1>0, <1>1
<1>10. Safe(Server, 0)  BY DEF BridgeInv, Keeps
<1>11. Len(up'[r]) <= 1 /\ Len(down'[r]) <= 1
  <2>1. Len(up[r]) <= 1  BY <1>10, Fields DEF Safe, Neat
  <2> QED  BY <1>1, <1>4, <2>1
<1>12. ~ Has(down'[r], Answer("success"))  BY <1>4 DEF Has
<1>13. PICK p \in PlaceNames : Placed(Server, 0, r, p)  BY <1>10 DEF Safe
<1>14. /\ \A l \in Held : Server'[l] = Server[l]
       /\ Server'.queue = Server.queue /\ Server'.up = Server.up /\ Server'.down[r] = <<>>
       /\ ~ Coming(Server', 0, r) /\ ~ Coming(Server, 0, r)
  BY <1>1, <1>4, ComingEmpty, Fields, NextFields DEF Held
<1>15. \A q : Due(Server, r, q)'  BY <1>8 DEF Due
<1>16. \E q \in PlaceNames : Placed(Server', 0, r, q)
  <2>1. CASE p = "answered"
    <3>1. Placed(Server', 0, r, "nowhere")  BY <1>13, <1>14, <2>1 DEF Placed, Held
    <3> QED  BY <3>1 DEF PlaceNames
  <2>2. CASE p # "answered"
    <3>1. Placed(Server', 0, r, p)  BY <1>13, <1>14, <2>2 DEF Placed
    <3> QED  BY <3>1
  <2> QED  BY <2>1, <2>2
<1>17. \E q \in PlaceNames : Placed(Server', 0, r, q) /\ Due(Server, r, q)'  BY <1>15, <1>16
<1> QED  BY <1>3, <1>6, <1>7, <1>8, <1>9, <1>11, <1>12, <1>17, PortalKeeps

LEMMA QuitStep == ASSUME BridgeInv, Quit PROVE BridgeInv'
<1>0. Server \in Servers /\ Lawful(Server) /\ Safe(Server, 0)  BY DEF BridgeInv, Keeps
<1> DEFINE cs == {shell.conn} \ {Nobody}
<1>1. /\ running' = FALSE
      /\ cut' = cut \cup Range(clients) \cup Range(backlog)
      /\ clients' = <<>> /\ backlog' = <<>> /\ role' = {} /\ told' = {} /\ ignored' = {}
      /\ consent' = <<>> /\ region' = <<>> /\ queue' = <<>>
      /\ up' = [c \in Conns |-> <<>>]
      /\ shell' = Dead
      /\ gone' = gone \cup cs
      /\ down' = [c \in Conns |-> IF c \in cs THEN <<>> ELSE down[c]]
      /\ torn' = torn /\ workspace' = workspace /\ portal' = portal /\ allowed' = allowed
  BY DEF Quit, Close
<1>2. /\ down \in [Conns -> Seq(Event)] /\ cut \in SUBSET Conns /\ torn \in SUBSET Conns
      /\ clients \in Seq(Conns) /\ backlog \in Seq(Conns) /\ gone \in SUBSET Conns
      /\ Requests \subseteq Conns /\ ShellConns \subseteq Conns /\ Nobody \notin Conns
      /\ Requests \cap ShellConns = {} /\ shell.conn \in ShellConns \cup {Nobody}
      /\ workspace \in Workspaces /\ allowed \in SUBSET Requests
  BY StateTypes
<1>3. cs \subseteq ShellConns  BY <1>2
<1> HIDE DEF cs
<1>4. shell' \in ShellSpace /\ shell'.todo = <<>> /\ shell'.conn = Nobody  BY <1>1, NewShells
<1>5. World'  BY <1>1, <1>2, <1>3, <1>4 DEF World, BridgeInv
<1>6. \A r \in Requests : /\ down'[r] = down[r] /\ up'[r] = <<>>
                          /\ r \in gone' <=> r \in gone
  BY <1>1, <1>2, <1>3
<1>7. down' \in [Conns -> Seq(Event)]
  <2>1. \A c \in Conns : (IF c \in cs THEN <<>> ELSE down[c]) \in Seq(Event)  BY <1>2
  <2> QED  BY <1>1, <2>1
<1>8. cut' \in SUBSET Conns
  <2>1. Range(clients) \subseteq Conns /\ Range(backlog) \subseteq Conns  BY <1>2 DEF Range
  <2> QED  BY <1>1, <1>2, <2>1
<1>9. up' \in UpSpace
  <2>1. /\ <<>> \in Seq(Shot \cup ShellLine) /\ <<>> \in Seq(Shot) /\ <<>> \in Seq(ShellLine)
    OBVIOUS
  <2>2. \A c \in Conns : up'[c] = <<>>  BY <1>1
  <2>3. up' \in [Conns -> Seq(Shot \cup ShellLine)]  BY <1>1, <2>1
  <2> QED  BY <1>2, <2>1, <2>2, <2>3 DEF UpSpace
<1>10. Server' \in Servers
  <2>1. /\ <<>> \in Seq(Conns) /\ <<>> \in Seq(Requests)
        /\ {} \in SUBSET ShellConns /\ {} \in SUBSET Conns
    OBVIOUS
  <2>2. \A c \in told' : c \in role' /\ Has(clients', c)  BY <1>1
  <2>3. /\ clients' \in Seq(Conns) /\ backlog' \in Seq(Conns) /\ role' \in SUBSET ShellConns
        /\ torn' \in SUBSET Conns /\ consent' \in Seq(Requests) /\ region' \in Seq(Requests)
        /\ queue' \in Seq(Requests) /\ workspace' \in Workspaces /\ told' \in SUBSET Conns
      /\ ignored' \in SUBSET Conns
    BY <1>1, <1>2, <2>1
  <2> QED  BY <1>7, <1>8, <1>9, <2>2, <2>3, NextTypes
<1>11. \A r : ~ Has(<<>>, r)  BY DEF Has
<1>12. Lawful(Server)'
  <2>1. \A i \in 1..Len(Server'.inbox) : FALSE  BY NextFields
  <2>2. \A c \in ShellConns : \A i \in 1..Len(up'[c]) : FALSE  BY <1>1, <1>2
  <2>3. \A r \in Requests : Has(down'[r], Answer("success")) => Allowed(r)'
    BY <1>0, <1>1, <1>6, Fields DEF Lawful, Allowed
  <2>4. \A i \in 1..Len(shell'.todo) : FALSE  BY <1>4
  <2>5. \A r : ~ Has(queue', r)  BY <1>1, <1>11
  <2> QED  BY <1>4, <2>1, <2>2, <2>3, <2>4, <2>5, NextFields DEF Lawful
<1>13. Follows(Server, 0)'  BY <1>1, NextFields DEF Follows
<1>14. \A l \in Held : Server'[l] = <<>>  BY <1>1, NextFields DEF Held
<1>15. Neat(Server')
  <2>1. Len(Server'.inbox) = 0  BY NextFields
  <2>2. \A r \in Requests : Len(Server'.up[r]) <= 1 /\ Len(Server'.down[r]) <= 1
    <3> TAKE r \in Requests
    <3>1. Len(Server.down[r]) <= 1  BY <1>0 DEF Safe, Neat
    <3>2. Server'.down[r] = Server.down[r] /\ Server'.up[r] = <<>>  BY <1>6, Fields, NextFields
    <3>3. Len(Server'.down[r]) <= 1  BY <3>1, <3>2
    <3>4. Len(Server'.up[r]) <= 1  BY <3>2
    <3> QED  BY <3>3, <3>4
  <2>3. Once(Server'.queue) /\ \A l \in Held : Once(Server'[l])
    <3>1. Once(<<>>)  BY DEF Once
    <3> QED  BY <1>1, <1>14, <3>1, NextFields
  <2> QED  BY <2>1, <2>2, <2>3 DEF Neat
<1>16. ASSUME NEW r \in Requests
       PROVE  \E p \in PlaceNames : Placed(Server', 0, r, p) /\ Due(Server, r, p)'
  <2>1. PICK p \in PlaceNames : Placed(Server, 0, r, p) /\ Due(Server, r, p)
    BY <1>0 DEF Safe
  <2>2. /\ ~ Coming(Server', 0, r) /\ \A l \in Held : ~ Has(Server'[l], r)
        /\ ~ Has(Server'.queue, r) /\ Server'.up[r] = <<>> /\ Server'.down[r] = Server.down[r]
    BY <1>1, <1>6, <1>11, <1>14, ComingEmpty, Fields, NextFields
  <2>3. CASE p = "answered"
    <3>1. Placed(Server', 0, r, p)  BY <2>1, <2>2, <2>3 DEF Placed, Held
    <3>2. Due(Server, r, p)'  BY <1>1, <2>1, <2>3 DEF Due
    <3> QED  BY <3>1, <3>2
  <2>4. CASE p # "answered"
    <3>1. Placed(Server', 0, r, "nowhere")  BY <2>1, <2>2, <2>4 DEF Placed, Held
    <3>2. Due(Server, r, "nowhere")'  BY <1>1, <1>6, <2>1 DEF Due
    <3> QED  BY <3>1, <3>2 DEF PlaceNames
  <2> QED  BY <2>3, <2>4
<1>17. Safe(Server, 0)'  BY <1>15, <1>16 DEF Safe
<1> QED  BY <1>5, <1>10, <1>12, <1>13, <1>17 DEF BridgeInv, Keeps

LEMMA InitInv == ASSUME Init PROVE BridgeInv
<1>1. /\ clients = <<>> /\ backlog = <<>> /\ role = {}
      /\ up = [c \in Conns |-> <<>>] /\ down = [c \in Conns |-> <<>>]
      /\ gone = {} /\ cut = {} /\ torn = {}
      /\ consent = <<>> /\ region = <<>> /\ queue = <<>>
      /\ workspace = 1 /\ running = TRUE /\ shell = Fresh
      /\ portal = [r \in Requests |-> "idle"]
      /\ allowed = {} /\ told = {} /\ ignored = {}
  BY DEF Init
<1>2. Requests \subseteq Conns /\ ShellConns \subseteq Conns /\ 1 \in Workspaces
  BY BridgeAssumption DEF Conns
<1>3. /\ <<>> \in Seq(Shot \cup ShellLine) /\ <<>> \in Seq(Shot) /\ <<>> \in Seq(ShellLine)
      /\ <<>> \in Seq(Event) /\ <<>> \in Seq(Conns) /\ <<>> \in Seq(Requests)
      /\ <<>> \in Seq(HeardSpace)
  OBVIOUS
<1>4. \A c \in Conns : up[c] = <<>> /\ down[c] = <<>>  BY <1>1
<1>5. up \in UpSpace
  <2>1. up \in [Conns -> Seq(Shot \cup ShellLine)]  BY <1>1, <1>3
  <2> QED  BY <1>2, <1>3, <1>4, <2>1 DEF UpSpace
<1>6. down \in [Conns -> Seq(Event)]  BY <1>1, <1>3
<1>7. Server \in Servers
  <2>1. /\ clients \in Seq(Conns) /\ backlog \in Seq(Conns) /\ role \in SUBSET ShellConns
        /\ cut \in SUBSET Conns /\ torn \in SUBSET Conns /\ told \in SUBSET Conns
        /\ ignored \in SUBSET Conns
        /\ consent \in Seq(Requests) /\ region \in Seq(Requests) /\ queue \in Seq(Requests)
        /\ workspace \in Workspaces
    BY <1>1, <1>2, <1>3
  <2>2. {} \in SUBSET Conns  OBVIOUS
  <2>3. Server \in ServerSpace  BY <1>3, <1>5, <1>6, <2>1, <2>2 DEF Server, ServerSpace
  <2>4. Tell(Server)  BY <1>1, Fields DEF Tell
  <2> QED  BY <2>3, <2>4 DEF Servers
<1>8. shell \in ShellSpace /\ shell.todo = <<>>  BY <1>1, NewShells
<1>9. World  BY <1>1, <1>8 DEF World
<1>10. \A r : ~ Has(<<>>, r)  BY DEF Has
<1>11. Lawful(Server)
  <2>1. \A i \in 1..Len(Server.inbox) : FALSE  BY Fields
  <2>2. \A c \in ShellConns : \A i \in 1..Len(up[c]) : FALSE  BY <1>2, <1>4
  <2>3. \A r \in Requests : ~ Has(down[r], Answer("success"))  BY <1>2, <1>4, <1>10
  <2>4. \A i \in 1..Len(shell.todo) : FALSE  BY <1>8
  <2> QED  BY <1>1, <1>8, <1>10, <2>1, <2>2, <2>3, <2>4, Fields DEF Lawful
<1>12. Follows(Server, 0)  BY <1>1, Fields DEF Follows
<1>13. \A l \in Held : Server[l] = <<>>  BY <1>1, Fields DEF Held
<1>14. Neat(Server)
  <2>1. Len(Server.inbox) = 0  BY Fields
  <2>2. \A r \in Requests : Len(Server.up[r]) <= 1 /\ Len(Server.down[r]) <= 1
    BY <1>2, <1>4, Fields
  <2>3. Once(<<>>)  BY DEF Once
  <2> QED  BY <1>1, <1>13, <2>1, <2>2, <2>3, Fields DEF Neat
<1>15. ASSUME NEW r \in Requests
       PROVE  Placed(Server, 0, r, "nowhere") /\ Due(Server, r, "nowhere")
  <2>1. /\ ~ Coming(Server, 0, r) /\ \A l \in Held : ~ Has(Server[l], r)
        /\ ~ Has(Server.queue, r) /\ Server.up[r] = <<>> /\ Server.down[r] = <<>>
    BY <1>1, <1>2, <1>4, <1>10, <1>13, ComingEmpty, Fields
  <2>2. Placed(Server, 0, r, "nowhere")  BY <2>1 DEF Placed, Held
  <2>3. portal[r] = "idle" /\ r \notin gone  BY <1>1
  <2> QED  BY <2>2, <2>3 DEF Due
<1>16. Safe(Server, 0)  BY <1>14, <1>15 DEF Safe, PlaceNames
<1> QED  BY <1>7, <1>9, <1>11, <1>12, <1>16 DEF BridgeInv, Keeps

LEMMA Stutter == ASSUME BridgeInv, UNCHANGED vars PROVE BridgeInv'
<1>1. shell' = shell /\ allowed' = allowed
      /\ UNCHANGED <<clients, backlog, role, cut, torn, consent, region, queue, workspace,
                     told, ignored, up, down, gone, running, portal>>
  BY DEF vars, server, wires
<1>2. /\ Server' = Server /\ World' /\ portal' = portal /\ gone' = gone
      /\ running' = running
  BY <1>1 DEF Server, World, BridgeInv
<1>3. Keeps(Server, 0, 0)  BY DEF BridgeInv
<1>4. Keeps(Server, 0, 0)'
  <2>1. Lawful(Server)'  BY <1>1, <1>2, <1>3 DEF Keeps, Lawful, Permitted, Allowed
  <2>2. Follows(Server, 0)'  BY <1>1, <1>2, <1>3 DEF Keeps, Follows
  <2>3. Safe(Server, 0)'  BY <1>1, <1>2, <1>3 DEF Keeps, Safe, Due
  <2>4. Server' \in Servers  BY <1>2, <1>3 DEF Keeps
  <2> QED  BY <2>1, <2>2, <2>3, <2>4 DEF Keeps
<1> QED  BY <1>2, <1>4 DEF BridgeInv

-----------------------------------------------------------------------------
(* The promises hold in every state.                                        *)

LEMMA Inductive == ASSUME BridgeInv, [Next]_vars PROVE BridgeInv'
<1>1. CASE PollIpc  BY <1>1, PollStep
<1>2. CASE Capture  BY <1>2, CaptureStep
<1>3. CASE Quit  BY <1>3, QuitStep
<1>4. CASE \E w \in Workspaces : SwitchWorkspace(w)  BY <1>4, SwitchStep
<1>5. CASE ShellStep
  <2>1. CASE WriteToken  BY <2>1, WriteTokenStep
  <2>2. CASE ShellPoll  BY <2>2, ShellPollStep
  <2>3. CASE Reconnect  BY <2>3, ReconnectStep
  <2>4. CASE \E yes \in BOOLEAN : RespondConsent(yes) \/ RespondRegion(yes)
    BY <2>4, ConsentStep, RegionStep
  <2>5. CASE OpenPickerLocal  BY <2>5, OpenPickerStep
  <2>6. CASE \E w \in Workspaces : ShellSwitch(w)  BY <2>6, ShellSwitchStep
  <2>7. CASE Crash  BY <2>7, CrashStep
  <2>8. CASE Restart  BY <2>8, RestartStep
  <2> QED  BY <1>5, <2>1, <2>2, <2>3, <2>4, <2>5, <2>6, <2>7, <2>8 DEF ShellStep
<1>6. CASE PortalStep
  <2>1. PICK r \in Requests : \/ \E m \in Messages : PortalCall(r, m)
                              \/ PortalRead(r) \/ PortalTimeout(r)
    BY <1>6 DEF PortalStep
  <2>2. CASE \E m \in Messages : PortalCall(r, m)  BY <2>2, CallStep
  <2>3. CASE PortalRead(r) \/ PortalTimeout(r)
    <3>1. PortalReturn(r)  BY <2>3 DEF PortalRead, PortalTimeout
    <3> QED  BY <3>1, ReturnStep
  <2> QED  BY <2>1, <2>2, <2>3
<1>7. CASE UNCHANGED vars  BY <1>7, Stutter
<1> QED  BY <1>1, <1>2, <1>3, <1>4, <1>5, <1>6, <1>7 DEF Next

(* The inductive invariant of the control socket.                           *)
THEOREM Promises == Spec => []BridgeInv
<1>1. Init => BridgeInv  BY InitInv
<1>2. BridgeInv /\ [Next]_vars => BridgeInv'  BY Inductive
<1> QED  BY <1>1, <1>2, PTL DEF Spec

LEMMA StateLists ==
    ASSUME BridgeInv
    PROVE  /\ consent \in Seq(Requests) /\ region \in Seq(Requests) /\ queue \in Seq(Requests)
           /\ down \in [Conns -> Seq(Event)] /\ workspace \in Workspaces
<1>1. Server \in ServerSpace  BY DEF BridgeInv, Keeps, Servers
<1> QED  BY <1>1, Fields DEF ServerSpace

(* Every variable keeps its type.                                           *)
THEOREM Typing == Spec => []TypeOK
<1>1. BridgeInv => TypeOK
  <2> SUFFICES ASSUME BridgeInv PROVE TypeOK  OBVIOUS
  <2>1. World  BY DEF BridgeInv
  <2> QED  BY <2>1, StateTypes, StateLists DEF TypeOK, World
<1> QED  BY <1>1, Promises, PTL

(* A picture is queued or handed out only for a request the user said yes   *)
(* to, or with the developer's flag set.                                    *)
THEOREM OnlyAllowed == Spec => []CapturedWasAllowed
<1>1. BridgeInv => CapturedWasAllowed
  <2> SUFFICES ASSUME BridgeInv, NEW r \in Requests,
                      r \in Range(queue) \/ Contains(down[r], Answer("success"))
               PROVE  r \in allowed \/ DevCapture
    BY DEF CapturedWasAllowed
  <2>1. /\ Has(queue, r) => Allowed(r)
        /\ Has(down[r], Answer("success")) => Allowed(r)
    BY Fields DEF BridgeInv, Keeps, Lawful
  <2>2. r \in Range(queue) => Has(queue, r)  BY StateLists, RangeIs
  <2>3. Contains(down[r], Answer("success")) => Has(down[r], Answer("success"))
    BY DEF Contains, Has
  <2> QED  BY <2>1, <2>2, <2>3 DEF Allowed
<1> QED  BY <1>1, Promises, PTL

LEMMA LastDeskSays ==
    ASSUME NEW list \in Seq(Event), NEW w, NEW default, LastDeskIs(list, w)
    PROVE  LastDesk(list, default) = w
<1> DEFINE desks == {i \in 1..Len(list) : IsDesk(list[i])}
<1>1. PICK i \in 1..Len(list) : /\ IsDesk(list[i]) /\ list[i].ws = w
                                /\ \A j \in i+1..Len(list) : ~ IsDesk(list[j])
  BY DEF LastDeskIs
<1>2. i \in desks /\ \A j \in desks : j <= i  BY <1>1
<1>3. \A k \in desks : (\A j \in desks : j <= k) => k = i  BY <1>2
<1>4. (CHOOSE k \in desks : \A j \in desks : j <= k) = i
  <2> HIDE DEF desks
  <2> QED  BY <1>2, <1>3
<1>5. LastDesk(list, default)
        = list[CHOOSE k \in desks : \A j \in desks : j <= k].ws
  BY <1>2 DEF LastDesk
<1> HIDE DEF desks
<1> QED  BY <1>1, <1>4, <1>5

(* What the shell shows, or will show once it has read what is in flight,   *)
(* is the compositor's workspace.                                           *)
THEOREM Following == Spec => []ViewFollows
<1>1. BridgeInv => ViewFollows
  <2> SUFFICES ASSUME BridgeInv, shell.conn \in told, shell.conn \notin ignored, ~ shell.blind,
                      \A i \in DOMAIN up[shell.conn] : up[shell.conn][i].kind # "switch"
               PROVE  LastDesk(down[shell.conn], shell.view) = workspace
    BY DEF ViewFollows
  <2> DEFINE c == shell.conn
  <2>1. Shown(c, shell.view, shell.blind, workspace)  BY FollowsHere
  <2>2. c \in Conns  BY StateTypes
  <2>3. down[c] \in Seq(Event) /\ up[c] \in Seq(Shot \cup ShellLine)  BY <2>2, StateTypes
  <2>4. ~ \E i \in 1..Len(up[c]) : IsSwitch(up[c][i], shell.view)
    BY <2>3 DEF IsSwitch
  <2> HIDE DEF c
  <2>5. CASE LastDeskIs(down[c], workspace)
    <3>1. LastDesk(down[c], shell.view) = workspace  BY <2>3, <2>5, LastDeskSays
    <3> QED  BY <3>1 DEF c
  <2>6. CASE NoDesk(down[c]) /\ shell.view = workspace
    <3>1. {i \in 1..Len(down[c]) : IsDesk(down[c][i])} = {}  BY <2>6 DEF NoDesk
    <3>2. LastDesk(down[c], shell.view) = shell.view  BY <3>1 DEF LastDesk
    <3> QED  BY <2>6, <3>2 DEF c
  <2> QED  BY <2>1, <2>4, <2>5, <2>6 DEF Shown, c
<1> QED  BY <1>1, Promises, PTL

LEMMA OnceCounts ==
    ASSUME NEW T, NEW list \in Seq(T), Once(list), NEW x
    PROVE  Occurrences(list, x) = IF Has(list, x) THEN 1 ELSE 0
<1> DEFINE at == {i \in DOMAIN list : list[i] = x}
<1>1. DOMAIN list = 1..Len(list)  OBVIOUS
<1>2. CASE Has(list, x)
  <2>1. PICK i \in 1..Len(list) : list[i] = x  BY <1>2 DEF Has
  <2>2. at = {i}  BY <1>1, <2>1 DEF Once
  <2>3. Cardinality(at) = 1
    <3> HIDE DEF at
    <3> QED  BY <2>2, FS_Singleton
  <2> QED  BY <1>2, <2>3 DEF Occurrences
<1>3. CASE ~ Has(list, x)
  <2>1. at = {}  BY <1>1, <1>3 DEF Has
  <2>2. Cardinality(at) = 0
    <3> HIDE DEF at
    <3> QED  BY <2>1, FS_EmptySet
  <2> QED  BY <1>3, <2>2 DEF Occurrences
<1> QED  BY <1>2, <1>3

(* A request is in one place at most, and in one while its portal waits.    *)
THEOREM Conserving == Spec => []RequestsConserved
<1>1. BridgeInv => RequestsConserved
  <2> SUFFICES ASSUME BridgeInv, NEW r \in Requests
               PROVE  /\ Places(r) <= 1
                      /\ portal[r] = "waiting" /\ running => Places(r) = 1
    BY DEF RequestsConserved
  <2>1. Safe(Server, 0)  BY DEF BridgeInv, Keeps
  <2>2. PICK p \in PlaceNames : Placed(Server, 0, r, p) /\ Due(Server, r, p)  BY <2>1 DEF Safe
  <2>3. /\ Once(queue) /\ Once(consent) /\ Once(region)
        /\ Len(up[r]) <= 1 /\ Len(down[r]) <= 1
    BY <2>1, Fields DEF Safe, Neat, Held
  <2>4. /\ up[r] # <<>> <=> p = "unread"
        /\ Has(consent, r) <=> p = "consent"
        /\ Has(region, r) <=> p = "region"
        /\ Has(queue, r) <=> p = "queue"
        /\ down[r] # <<>> <=> p = "answered"
    BY <2>2, Fields DEF Placed, Held
  <2>5. ~ Coming(Server, 0, r)  BY ComingEmpty
  <2>6. p # "read"  BY <2>2, <2>5 DEF Placed
  <2>7. r \in Conns  BY StateTypes
  <2>8. up[r] \in Seq(Shot) /\ down[r] \in Seq(Event)  BY <2>7, StateTypes
  <2>9. Len(up[r]) = IF p = "unread" THEN 1 ELSE 0
    <3>1. up[r] = <<>> <=> Len(up[r]) = 0  BY <2>8
    <3>2. Len(up[r]) \in Nat  BY <2>8
    <3> QED  BY <2>3, <2>4, <3>1, <3>2
  <2>10. Len(down[r]) = IF p = "answered" THEN 1 ELSE 0
    <3>1. down[r] = <<>> <=> Len(down[r]) = 0  BY <2>8
    <3>2. Len(down[r]) \in Nat  BY <2>8
    <3> QED  BY <2>3, <2>4, <3>1, <3>2
  <2>11. /\ Occurrences(consent, r) = IF p = "consent" THEN 1 ELSE 0
         /\ Occurrences(region, r) = IF p = "region" THEN 1 ELSE 0
         /\ Occurrences(queue, r) = IF p = "queue" THEN 1 ELSE 0
    BY <2>3, <2>4, StateLists, OnceCounts
  <2>12. Places(r) = IF p = "nowhere" THEN 0 ELSE 1
    BY <2>6, <2>9, <2>10, <2>11 DEF Places, PlaceNames
  <2>13. portal[r] = "waiting" /\ running => p # "nowhere"  BY <2>2 DEF Due
  <2> QED  BY <2>12, <2>13
<1> QED  BY <1>1, Promises, PTL

=============================================================================
