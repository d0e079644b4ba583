----------------------- MODULE OutputLifecycleProofs -----------------------
(***************************************************************************)
(* Theorems about OutputLifecycle for any connectors, CRTCs, workspaces    *)
(* and configurations, and any number of ids.                              *)
(*                                                                         *)
(* RegistryCore is the part of the invariant that speaks of the registry,  *)
(* the workspace mapping and the focus; BackendTyped types the rest.  None *)
(* of the three named parts of RegistryCore is inductive alone: a mapping  *)
(* that matches the registry needs its ids to be distinct for a removal to *)
(* drop exactly one, and switching a workspace needs the focus to be       *)
(* registered.                                                             *)
(*                                                                         *)
(* TInv adds the queued work, on which it depends that a connector is      *)
(* tracked once and that what is registered is driven: the list belongs to *)
(* one callback (OneCallback), an addition is of connectors that are not   *)
(* known (AddWork), and a removal still names the id of its entry          *)
(* (RemoveWork).                                                           *)
(*                                                                         *)
(* DockInv is for a docking station (order), where names count up and      *)
(* the lists stay aligned, position by position; DockWork says what each   *)
(* callback has left to do.                                                *)
(***************************************************************************)
EXTENDS OutputLifecycle, LoopInduction, FiniteSetTheorems, SequenceTheorems

(***************************************************************************)
(* The operators of OutputRegistry, for every registry: each operation     *)
(* yields a registry again, and these say which ids and names are in it.   *)
(***************************************************************************)

(* What Resolve returns for one output. *)
ResolvedRec == [name : Nat, enabled : BOOLEAN, primary : BOOLEAN]

(* No two entries share a name or an id: the state's invariant as a        *)
(* property of a registry and its counter.                                 *)
Identity(reg, top) ==
    /\ \A i, j \in 1..Len(reg) :
          i # j => reg[i].name # reg[j].name /\ reg[i].id # reg[j].id
    /\ \A i \in 1..Len(reg) : reg[i].id \in 1..top

(* Two registries that differ in primary flags at most. *)
SameOutputs(r, s) ==
    /\ Len(r) = Len(s)
    /\ \A i \in 1..Len(r) : r[i].id = s[i].id /\ r[i].name = s[i].name

-----------------------------------------------------------------------------
(* The minimum of a non-empty set of numbers is one of them (pick_crtc and *)
(* the searches from the front of a list).                                 *)
LEMMA MinNat == ASSUME NEW S \in SUBSET Nat, S # {} PROVE Min(S) \in S
BY LeastNat DEF Min

(* The maximum of a non-empty set of positions is one of them (the searches *)
(* from the back of a list).                                               *)
LEMMA MaxUpTo == ASSUME NEW n \in Nat, NEW S \in SUBSET (1..n), S # {} PROVE Max(S) \in S
<1> DEFINE T == {n - i : i \in S}
<1>1. \A i \in S : i \in Nat /\ n - i \in Nat  OBVIOUS
<1>2. T \in SUBSET Nat /\ T # {}  BY <1>1
<1> HIDE DEF T
<1>3. PICK t \in T : \A u \in T : t <= u  BY <1>2, LeastNat
<1> USE DEF T
<1>4. PICK i \in S : t = n - i  BY <1>3
<1>5. \A j \in S : i >= j
  <2> SUFFICES ASSUME NEW j \in S PROVE i >= j  OBVIOUS
  <2>1. n - j \in T  OBVIOUS
  <2>2. n - i <= n - j  BY <1>3, <1>4, <2>1
  <2> QED  BY <1>1, <2>2
<1> QED  BY <1>5 DEF Max

(* A function on an initial segment of the numbers is a sequence. *)
LEMMA SeqFromFunction ==
    ASSUME NEW n \in Nat, NEW S, NEW f \in [1..n -> S]
    PROVE  f \in Seq(S) /\ Len(f) = n
<1>1. f \in Seq(S)  BY SeqDef
<1>2. DOMAIN f = 1..Len(f) /\ Len(f) \in Nat  BY <1>1, LenProperties
<1> QED  BY <1>1, <1>2

(* A search from the front or the back finds a position that passes. *)
LEMMA FoundById ==
    ASSUME NEW reg \in Seq(Entry), NEW id \in Ids(reg)
    PROVE  /\ PositionOfId(reg, id) \in 1..Len(reg)
           /\ reg[PositionOfId(reg, id)].id = id
<1> DEFINE I == {i \in 1..Len(reg) : reg[i].id = id}
<1>1. I \in SUBSET Nat /\ I # {}  BY DEF Ids
<1>2. Min(I) \in I  BY <1>1, MinNat
<1> QED  BY <1>1, <1>2 DEF PositionOfId, SelectInSeq

LEMMA FoundByName ==
    ASSUME NEW reg \in Seq(Entry), NEW name \in Names(reg)
    PROVE  /\ PositionOfName(reg, name) \in 1..Len(reg)
           /\ reg[PositionOfName(reg, name)].name = name
<1> DEFINE I == {i \in 1..Len(reg) : reg[i].name = name}
<1>1. I \in SUBSET Nat /\ I # {}  BY DEF Names
<1>2. Min(I) \in I  BY <1>1, MinNat
<1> QED  BY <1>1, <1>2 DEF PositionOfName, SelectInSeq

LEMMA IdOfNameType ==
    ASSUME NEW reg \in Seq(Entry), NEW name
    PROVE  /\ IdOfName(reg, name) \in Nat
           /\ name \in Names(reg) => IdOfName(reg, name) \in Ids(reg)
<1>1. CASE name \in Names(reg)
  <2>1. PositionOfName(reg, name) \in 1..Len(reg)  BY <1>1, FoundByName
  <2>2. reg[PositionOfName(reg, name)] \in Entry  BY <2>1, ElementOfSeq
  <2> QED  BY <1>1, <2>1, <2>2 DEF IdOfName, Ids, Entry
<1>2. CASE name \notin Names(reg)  BY <1>2 DEF IdOfName, NoOutput
<1> QED  BY <1>1, <1>2

(* The fallback of a registry with outputs is one of them. *)
LEMMA FallbackInRegistry ==
    ASSUME NEW reg \in Seq(Entry), reg # <<>>
    PROVE  FallbackId(reg) \in Ids(reg)
<1> DEFINE flagged == {i \in 1..Len(reg) : reg[i].primary}
           pos == IF flagged = {} THEN 1 ELSE Min(flagged)
<1>1. Len(reg) \in Nat /\ Len(reg) # 0  OBVIOUS
<1>2. pos \in 1..Len(reg)
  <2>1. CASE flagged = {}  BY <1>1, <2>1
  <2>2. CASE flagged # {}
    <3>1. Min(flagged) \in flagged  BY <2>2, MinNat
    <3> QED  BY <2>2, <3>1
  <2> QED  BY <2>1, <2>2
<1>3. FallbackId(reg) = reg[pos].id  BY DEF FallbackId
<1> QED  BY <1>2, <1>3 DEF Ids

LEMMA IdsAreNat ==
    ASSUME NEW reg \in Seq(Entry) PROVE Ids(reg) \subseteq Nat \ {NoOutput}
<1>1. \A i \in 1..Len(reg) : reg[i] \in Entry  BY ElementOfSeq
<1> QED  BY <1>1 DEF Ids, Entry

-----------------------------------------------------------------------------
(* upsert adds exactly the entry of an unknown name, under a fresh id. *)
LEMMA UpsertEntry ==
    ASSUME NEW reg \in Seq(Entry), NEW top \in Nat, NEW name \in Nat,
           Identity(reg, top)
    PROVE  LET up == Upsert(reg, top, name)
               next == NextIdAfter(reg, top, name)
           IN  /\ up \in Seq(Entry) /\ up # <<>>
               /\ next \in Nat /\ next >= top
               /\ Identity(up, next)
               /\ Ids(reg) \subseteq Ids(up)
               /\ Ids(up) \ Ids(reg) \subseteq top+1..next
               /\ name \in Names(up)
<1> DEFINE up == Upsert(reg, top, name)
           next == NextIdAfter(reg, top, name)
<1>1. CASE name \in Names(reg)
  <2>1. up = reg /\ next = top  BY <1>1 DEF Upsert, NextIdAfter
  <2>2. reg # <<>>  BY <1>1 DEF Names
  <2> QED  BY <1>1, <2>1, <2>2
<1>2. CASE name \notin Names(reg)
  <2> DEFINE e == [id |-> top + 1, name |-> name, primary |-> reg = <<>>]
  <2>1. e \in Entry  BY DEF Entry, NoOutput
  <2>2. up = Append(reg, e) /\ next = top + 1  BY <1>2 DEF Upsert, NextIdAfter
  <2> HIDE DEF e
  <2>3. /\ up \in Seq(Entry) /\ up # <<>>
        /\ Len(up) = Len(reg) + 1 /\ Len(reg) \in Nat
        /\ \A i \in 1..Len(reg) : up[i] = reg[i]
        /\ up[Len(reg) + 1] = e
    BY <2>1, <2>2, AppendProperties
  <2>4. e.id = top + 1 /\ e.name = name  BY DEF e
  <2>5. \A i \in 1..Len(reg) : reg[i].name # name /\ reg[i].id \in 1..top
    BY <1>2 DEF Names, Identity
  <2> HIDE DEF up, next
  <2>6. Identity(up, next)
    <3>1. ASSUME NEW i \in 1..Len(up), NEW j \in 1..Len(up), i # j
          PROVE  up[i].name # up[j].name /\ up[i].id # up[j].id
      <4>1. CASE i \in 1..Len(reg) /\ j \in 1..Len(reg)
        BY <2>3, <3>1, <4>1 DEF Identity
      <4>2. CASE i = Len(reg) + 1 /\ j \in 1..Len(reg)
        BY <2>3, <2>4, <2>5, <4>2
      <4>3. CASE j = Len(reg) + 1 /\ i \in 1..Len(reg)
        BY <2>3, <2>4, <2>5, <4>3
      <4> QED  BY <2>3, <3>1, <4>1, <4>2, <4>3
    <3>2. ASSUME NEW i \in 1..Len(up) PROVE up[i].id \in 1..next
      <4>1. CASE i \in 1..Len(reg)  BY <2>2, <2>3, <2>5, <4>1
      <4>2. CASE i = Len(reg) + 1  BY <2>2, <2>3, <2>4, <4>2
      <4> QED  BY <2>3, <4>1, <4>2
    <3> QED  BY <3>1, <3>2 DEF Identity
  <2>7. Ids(up) = Ids(reg) \cup {top + 1}
    <3>1. ASSUME NEW x \in Ids(up) PROVE x \in Ids(reg) \cup {top + 1}
      <4>1. PICK i \in 1..Len(up) : x = up[i].id  BY DEF Ids
      <4> QED  BY <2>3, <2>4, <4>1 DEF Ids
    <3>2. ASSUME NEW x \in Ids(reg) PROVE x \in Ids(up)
      <4>1. PICK i \in 1..Len(reg) : x = reg[i].id  BY DEF Ids
      <4> QED  BY <2>3, <4>1 DEF Ids
    <3>3. top + 1 \in Ids(up)  BY <2>3, <2>4 DEF Ids
    <3> QED  BY <3>1, <3>2, <3>3
  <2>8. name \in Names(up)  BY <2>3, <2>4 DEF Names
  <2>9. Ids(up) \ Ids(reg) \subseteq top+1..next  BY <2>2, <2>7
  <2> QED  BY <2>2, <2>3, <2>6, <2>7, <2>8, <2>9 DEF up, next
<1> QED  BY <1>1, <1>2

(* Changing flags only keeps ids, names and identity. *)
LEMMA SameOutputsKeep ==
    ASSUME NEW r \in Seq(Entry), NEW s \in Seq(Entry), SameOutputs(r, s), NEW n
    PROVE  /\ Ids(r) = Ids(s) /\ Names(r) = Names(s)
           /\ Identity(s, n) => Identity(r, n)
           /\ s # <<>> => r # <<>>
<1>1. Len(r) \in Nat /\ Len(s) \in Nat  OBVIOUS
<1>2. Ids(r) = Ids(s) /\ Names(r) = Names(s)  BY DEF SameOutputs, Ids, Names
<1>3. Identity(s, n) => Identity(r, n)  BY DEF SameOutputs, Identity
<1>4. s # <<>> => r # <<>>  BY <1>1, EmptySeq DEF SameOutputs
<1> QED  BY <1>2, <1>3, <1>4

LEMMA SetPrimaryEntry ==
    ASSUME NEW reg \in Seq(Entry), NEW name, NEW flag \in BOOLEAN
    PROVE  /\ SetPrimary(reg, name, flag) \in Seq(Entry)
           /\ SameOutputs(SetPrimary(reg, name, flag), reg)
<1> DEFINE s == SetPrimary(reg, name, flag)
           n == Len(reg)
<1>1. n \in Nat /\ \A i \in 1..n : reg[i] \in Entry  BY LenProperties, ElementOfSeq
<1>2. s = [i \in 1..n |-> IF reg[i].name = name
                         THEN [reg[i] EXCEPT !.primary = flag] ELSE reg[i]]
  BY DEF SetPrimary
<1> HIDE DEF s
<1>3. \A i \in 1..n : /\ s[i] \in Entry /\ s[i].id = reg[i].id
                      /\ s[i].name = reg[i].name
  BY <1>1, <1>2 DEF Entry
<1>4. s \in [1..n -> Entry]  BY <1>2, <1>3
<1>5. s \in Seq(Entry) /\ Len(s) = n  BY <1>1, <1>4, SeqFromFunction
<1> QED  BY <1>3, <1>5 DEF SameOutputs, s

LEMMA SyncPrimaryFlagsEntry ==
    ASSUME NEW reg \in Seq(Entry), NEW resolved \in Seq(ResolvedRec)
    PROVE  /\ SyncPrimaryFlags(reg, resolved) \in Seq(Entry)
           /\ SameOutputs(SyncPrimaryFlags(reg, resolved), reg)
<1> DEFINE s == SyncPrimaryFlags(reg, resolved)
           n == Len(reg)
           last(name) == SelectLastInSeq(resolved, LAMBDA r : r.name = name)
<1>1. n \in Nat /\ \A i \in 1..n : reg[i] \in Entry  BY LenProperties, ElementOfSeq
<1>2. \A name : last(name) # 0 => resolved[last(name)].primary \in BOOLEAN
  <2> SUFFICES ASSUME NEW name, last(name) # 0
               PROVE  resolved[last(name)].primary \in BOOLEAN
    OBVIOUS
  <2> DEFINE I == {i \in 1..Len(resolved) : resolved[i].name = name}
  <2>1. I # {} /\ last(name) = Max(I)  BY DEF SelectLastInSeq
  <2>2. Max(I) \in I
    <3>1. Len(resolved) \in Nat /\ I \in SUBSET (1..Len(resolved))  OBVIOUS
    <3> HIDE DEF I
    <3> QED  BY <2>1, <3>1, MaxUpTo
  <2>3. resolved[Max(I)] \in ResolvedRec  BY <2>2, ElementOfSeq
  <2> QED  BY <2>1, <2>3 DEF ResolvedRec
<1>3. s = [i \in 1..n |-> IF last(reg[i].name) = 0 THEN reg[i]
              ELSE [reg[i] EXCEPT !.primary = resolved[last(reg[i].name)].primary]]
  BY DEF SyncPrimaryFlags
<1> HIDE DEF s, last
<1>4. \A i \in 1..n : /\ s[i] \in Entry /\ s[i].id = reg[i].id
                      /\ s[i].name = reg[i].name
  BY <1>1, <1>2, <1>3 DEF Entry
<1>5. s \in [1..n -> Entry]  BY <1>3, <1>4
<1>6. s \in Seq(Entry) /\ Len(s) = n  BY <1>1, <1>5, SeqFromFunction
<1> QED  BY <1>4, <1>6 DEF SameOutputs, s

(* remove_by_id and remove_by_name drop one entry and nothing else; the    *)
(* primary flag they may hand on changes no id and no name.                *)
LEMMA EnsurePrimaryEntry ==
    ASSUME NEW reg \in Seq(Entry)
    PROVE  EnsurePrimary(reg) \in Seq(Entry) /\ SameOutputs(EnsurePrimary(reg), reg)
<1>1. CASE reg = <<>> \/ \E i \in 1..Len(reg) : reg[i].primary
  BY <1>1 DEF EnsurePrimary, SameOutputs
<1>2. CASE ~ (reg = <<>> \/ \E i \in 1..Len(reg) : reg[i].primary)
  <2> DEFINE e == [reg[1] EXCEPT !.primary = TRUE]
             s == [reg EXCEPT ![1] = e]
  <2>1. 1 \in 1..Len(reg)  BY <1>2, EmptySeq
  <2>2. reg[1] \in Entry  BY <2>1, ElementOfSeq
  <2>3. e \in Entry /\ e.id = reg[1].id /\ e.name = reg[1].name  BY <2>2 DEF Entry
  <2>4. EnsurePrimary(reg) = s  BY <1>2 DEF EnsurePrimary
  <2> HIDE DEF e
  <2>5. /\ s \in Seq(Entry) /\ Len(s) = Len(reg)
        /\ \A j \in 1..Len(reg) : s[j] = IF j = 1 THEN e ELSE reg[j]
    BY <2>1, <2>3, ExceptSeq
  <2> QED  BY <2>3, <2>4, <2>5 DEF SameOutputs
<1> QED  BY <1>1, <1>2

LEMMA RemoveAtProperties ==
    ASSUME NEW S, NEW s \in Seq(S), NEW pos \in 1..Len(s)
    PROVE  /\ RemoveAt(s, pos) \in Seq(S)
           /\ Len(RemoveAt(s, pos)) = Len(s) - 1
           /\ \A i \in 1..Len(s)-1 :
                 RemoveAt(s, pos)[i] = IF i < pos THEN s[i] ELSE s[i + 1]
<1> DEFINE a == SubSeq(s, 1, pos - 1)
           b == SubSeq(s, pos + 1, Len(s))
<1>1. Len(s) \in Nat /\ \A i \in 1..Len(s) : s[i] \in S  BY LenProperties, ElementOfSeq
<1>2. /\ a \in Seq(S) /\ Len(a) = pos - 1
      /\ \A i \in 1..pos-1 : a[i] = s[i]
  <2>1. \A i \in 1..pos-1 : s[i] \in S  BY <1>1
  <2>2. /\ a \in Seq(S) /\ Len(a) = IF 1 <= pos - 1 THEN pos - 1 - 1 + 1 ELSE 0
        /\ \A i \in 1..pos-1-1+1 : a[i] = s[1+i-1]
    BY <2>1, SubSeqProperties
  <2> QED  BY <1>1, <2>2
<1>3. /\ b \in Seq(S) /\ Len(b) = Len(s) - pos
      /\ \A i \in 1..Len(s)-pos : b[i] = s[pos + i]
  <2>1. \A i \in pos+1..Len(s) : s[i] \in S  BY <1>1
  <2>2. /\ b \in Seq(S)
        /\ Len(b) = IF pos + 1 <= Len(s) THEN Len(s) - (pos + 1) + 1 ELSE 0
        /\ \A i \in 1..Len(s)-(pos+1)+1 : b[i] = s[pos+1+i-1]
    BY <1>1, <2>1, SubSeqProperties
  <2> QED  BY <1>1, <2>2
<1>4. RemoveAt(s, pos) = a \o b  BY DEF RemoveAt
<1> HIDE DEF a, b
<1>5. /\ a \o b \in Seq(S) /\ Len(a \o b) = Len(a) + Len(b)
      /\ \A i \in 1..Len(a)+Len(b) :
            (a \o b)[i] = IF i <= Len(a) THEN a[i] ELSE b[i - Len(a)]
  BY <1>2, <1>3, ConcatProperties
<1> QED  BY <1>1, <1>2, <1>3, <1>4, <1>5

LEMMA RemoveEntryProperties ==
    ASSUME NEW reg \in Seq(Entry), NEW pos \in 1..Len(reg), NEW n,
           Identity(reg, n)
    PROVE  LET s == RemoveEntry(reg, pos)
           IN  /\ s \in Seq(Entry)
               /\ Identity(s, n)
               /\ Ids(s) = Ids(reg) \ {reg[pos].id}
<1> DEFINE r == RemoveAt(reg, pos)
           s == RemoveEntry(reg, pos)
<1>1. /\ r \in Seq(Entry) /\ Len(r) = Len(reg) - 1 /\ Len(reg) \in Nat
      /\ \A i \in 1..Len(reg)-1 : r[i] = IF i < pos THEN reg[i] ELSE reg[i + 1]
  BY RemoveAtProperties
<1>2. s = EnsurePrimary(r)  BY DEF RemoveEntry
<1> HIDE DEF r, s
<1>3. s \in Seq(Entry) /\ SameOutputs(s, r)  BY <1>1, <1>2, EnsurePrimaryEntry
<1>4. Identity(r, n)
  <2> DEFINE at(i) == IF i < pos THEN i ELSE i + 1
  <2>1. \A i \in 1..Len(r) : at(i) \in 1..Len(reg) /\ r[i] = reg[at(i)]  BY <1>1
  <2>2. \A i, j \in 1..Len(r) : i # j => at(i) # at(j)  BY <1>1
  <2> HIDE DEF at
  <2>3. ASSUME NEW i \in 1..Len(r), NEW j \in 1..Len(r), i # j
        PROVE  r[i].name # r[j].name /\ r[i].id # r[j].id
    <3>1. at(i) \in 1..Len(reg) /\ at(j) \in 1..Len(reg) /\ at(i) # at(j)
      BY <2>1, <2>2, <2>3
    <3>2. r[i] = reg[at(i)] /\ r[j] = reg[at(j)]  BY <2>1
    <3> QED  BY <3>1, <3>2 DEF Identity
  <2>4. ASSUME NEW i \in 1..Len(r) PROVE r[i].id \in 1..n
    BY <2>1 DEF Identity
  <2> QED  BY <2>3, <2>4 DEF Identity
<1>5. Ids(r) = Ids(reg) \ {reg[pos].id}
  <2>1. ASSUME NEW x \in Ids(r) PROVE x \in Ids(reg) \ {reg[pos].id}
    <3>1. PICK i \in 1..Len(r) : x = r[i].id  BY DEF Ids
    <3>2. CASE i < pos
      <4>1. i \in 1..Len(reg) /\ i # pos /\ r[i] = reg[i]  BY <1>1, <3>2
      <4> QED  BY <3>1, <4>1 DEF Ids, Identity
    <3>3. CASE ~ (i < pos)
      <4>1. i + 1 \in 1..Len(reg) /\ i + 1 # pos /\ r[i] = reg[i + 1]  BY <1>1, <3>3
      <4> QED  BY <3>1, <4>1 DEF Ids, Identity
    <3> QED  BY <3>2, <3>3
  <2>2. ASSUME NEW x \in Ids(reg), x # reg[pos].id PROVE x \in Ids(r)
    <3>1. PICK i \in 1..Len(reg) : x = reg[i].id  BY DEF Ids
    <3>2. CASE i < pos
      <4>1. i \in 1..Len(r) /\ r[i] = reg[i]  BY <1>1, <3>2
      <4> QED  BY <3>1, <4>1 DEF Ids
    <3>3. CASE i > pos
      <4>1. i - 1 \in 1..Len(r) /\ r[i - 1] = reg[i]  BY <1>1, <3>3
      <4> QED  BY <3>1, <4>1 DEF Ids
    <3> QED  BY <2>2, <3>1, <3>2, <3>3
  <2> QED  BY <2>1, <2>2
<1> QED  BY <1>1, <1>3, <1>4, <1>5, SameOutputsKeep DEF s

-----------------------------------------------------------------------------
(* The resolver returns one record for each name. *)
LEMMA ResolveEntry ==
    ASSUME NEW names \in Seq(Nat), NEW cfg
    PROVE  /\ Resolve(names, cfg) \in Seq(ResolvedRec)
           /\ Len(Resolve(names, cfg)) = Len(names)
           /\ \A i \in 1..Len(names) : Resolve(names, cfg)[i].name = names[i]
<1>1. Len(names) \in Nat /\ \A i \in 1..Len(names) : names[i] \in Nat
  BY LenProperties, ElementOfSeq
<1> DEFINE s == Resolve(names, cfg)
<1>2. PICK on, primary :
        s = [i \in 1..Len(names) |->
               [name |-> names[i], enabled |-> (on = {} \/ i \in on),
                primary |-> (i = primary)]]
  BY DEF Resolve
<1> HIDE DEF s
<1>3. \A i \in 1..Len(names) : s[i] \in ResolvedRec /\ s[i].name = names[i]
  BY <1>1, <1>2 DEF ResolvedRec
<1>4. s \in [1..Len(names) -> ResolvedRec]  BY <1>2, <1>3
<1> QED  BY <1>1, <1>3, <1>4, SeqFromFunction DEF s

LEMMA NamesOfEntry ==
    ASSUME NEW reg \in Seq(Entry)
    PROVE  NamesOf(reg) \in Seq(Nat) /\ Len(NamesOf(reg)) = Len(reg)
<1>1. Len(reg) \in Nat /\ \A i \in 1..Len(reg) : reg[i] \in Entry
  BY LenProperties, ElementOfSeq
<1>2. NamesOf(reg) \in [1..Len(reg) -> Nat]  BY <1>1 DEF NamesOf, Entry
<1> QED  BY <1>1, <1>2, SeqFromFunction

(* The sequences a finite set can be listed in. *)
LEMMA SetToSeqsType ==
    ASSUME NEW S, IsFiniteSet(S), NEW p \in SetToSeqs(S)
    PROVE  p \in Seq(S) /\ Len(p) \in Nat
<1>1. Cardinality(S) \in Nat  BY FS_CardinalityType
<1>2. p \in [1..Cardinality(S) -> S]  BY DEF SetToSeqs
<1> QED  BY <1>1, <1>2, SeqFromFunction

LEMMA InOrderType ==
    ASSUME NEW n \in Nat, NEW S \in SUBSET (1..n), NEW p \in InOrder(S)
    PROVE  p \in Seq(S) /\ Len(p) \in Nat /\ \A i \in 1..Len(p) : p[i] \in 1..n
<1>1. IsFiniteSet(S)
  <2>1. 1 \in Int /\ n \in Int  OBVIOUS
  <2>2. IsFiniteSet(1..n)  BY <2>1, FS_Interval
  <2> QED  BY <2>2, FS_Subset
<1>2. p \in Seq(S) /\ Len(p) \in Nat  BY <1>1, SetToSeqsType DEF InOrder
<1> QED  BY <1>2, ElementOfSeq

-----------------------------------------------------------------------------
RegistryCore ==
    /\ registry \in Seq(Entry)
    /\ nextId \in Nat
    /\ focused \in Nat
    /\ DOMAIN mapping \subseteq Nat
    /\ mapping \in [DOMAIN mapping -> Workspaces]
    /\ globalActive \in Workspaces
    /\ RegistryIdentity
    /\ MappingMatchesRegistry
    /\ FocusIsRegistered

BackendTyped ==
    /\ connected \subseteq Connectors
    /\ config \in Configs
    /\ outputs \in Seq(OutputRec)
    /\ drm \in Seq(DrmRec)
    /\ disabled \subseteq DisabledRec
    /\ IsFiniteSet(disabled)
    /\ work \in Seq(Step)

IInv == RegistryCore /\ BackendTyped

-----------------------------------------------------------------------------
(* The two ways the registry changes keep the core. *)

LEMMA SyncKeepsCore ==
    ASSUME RegistryCore, NEW reg \in Seq(Entry), NEW focus \in Nat
    PROVE  /\ DOMAIN SyncedMapping(reg, mapping, globalActive) = Ids(reg)
           /\ Ids(reg) \subseteq Nat
           /\ SyncedMapping(reg, mapping, globalActive) \in [Ids(reg) -> Workspaces]
           /\ SyncedFocus(reg, focus) \in Nat
           /\ IF reg = <<>> THEN SyncedFocus(reg, focus) = NoOutput
              ELSE SyncedFocus(reg, focus) \in Ids(reg)
<1>1. Ids(reg) \subseteq Nat \ {NoOutput}  BY IdsAreNat
<1>2. /\ DOMAIN SyncedMapping(reg, mapping, globalActive) = Ids(reg)
      /\ SyncedMapping(reg, mapping, globalActive) \in [Ids(reg) -> Workspaces]
  BY DEF SyncedMapping, RegistryCore
<1>3. CASE reg = <<>>
  <2>1. Ids(reg) = {}  BY <1>3 DEF Ids
  <2>2. SyncedFocus(reg, focus) = NoOutput  BY <1>3, <2>1 DEF SyncedFocus, FallbackId
  <2> QED  BY <1>1, <1>2, <1>3, <2>2 DEF NoOutput
<1>4. CASE reg # <<>>
  <2>1. FallbackId(reg) \in Ids(reg)  BY <1>4, FallbackInRegistry
  <2>2. SyncedFocus(reg, focus) \in Ids(reg)  BY <2>1 DEF SyncedFocus
  <2> QED  BY <1>1, <1>2, <1>4, <2>2
<1> QED  BY <1>3, <1>4

LEMMA RegisterKeepsCore ==
    ASSUME RegistryCore, NEW name \in Nat, NEW resolved \in Seq(ResolvedRec),
           RegisterOutput(name, resolved), globalActive' = globalActive
    PROVE  RegistryCore'
<1> DEFINE up == Upsert(registry, nextId, name)
           next == NextIdAfter(registry, nextId, name)
<1>1. /\ up \in Seq(Entry) /\ up # <<>> /\ next \in Nat /\ Identity(up, next)
  BY UpsertEntry DEF RegistryCore, RegistryIdentity, Identity
<1>2. registry' = SyncPrimaryFlags(up, resolved) /\ nextId' = next
  BY DEF RegisterOutput
<1> HIDE DEF up, next
<1>3. registry' \in Seq(Entry) /\ SameOutputs(registry', up)
  BY <1>1, <1>2, SyncPrimaryFlagsEntry
<1>4. /\ Ids(registry') = Ids(up) /\ Identity(registry', next) /\ registry' # <<>>
  BY <1>1, <1>3, SameOutputsKeep
<1>5. /\ DOMAIN mapping' = Ids(registry') /\ Ids(registry') \subseteq Nat
      /\ mapping' \in [Ids(registry') -> Workspaces]
  BY <1>3, SyncKeepsCore DEF RegisterOutput, RegistryCore
<1>6. focused' \in Nat /\ focused' \in Ids(registry')
  <2>1. focused' = SyncedFocus(up, focused)  BY DEF RegisterOutput, up
  <2>2. SyncedFocus(up, focused) \in Nat /\ SyncedFocus(up, focused) \in Ids(up)
    BY <1>1, SyncKeepsCore DEF RegistryCore
  <2> QED  BY <1>4, <2>1, <2>2
<1>7. RegistryIdentity'  BY <1>2, <1>4 DEF RegistryIdentity, Identity
<1> QED  BY <1>1, <1>2, <1>3, <1>4, <1>5, <1>6, <1>7
         DEF RegistryCore, MappingMatchesRegistry, FocusIsRegistered

LEMMA UnregisterKeepsCore ==
    ASSUME RegistryCore, NEW pos \in 1..Len(registry),
           UnregisterOutput(pos), globalActive' = globalActive
    PROVE  /\ RegistryCore'
           /\ Ids(registry') = Ids(registry) \ {registry[pos].id}
<1>1. registry' = RemoveEntry(registry, pos) /\ nextId' = nextId
  BY DEF UnregisterOutput
<1>2. /\ registry' \in Seq(Entry) /\ Identity(registry', nextId')
      /\ Ids(registry') = Ids(registry) \ {registry[pos].id}
  <2>1. registry \in Seq(Entry) /\ Identity(registry, nextId)
    BY DEF RegistryCore, RegistryIdentity, Identity
  <2>2. /\ RemoveEntry(registry, pos) \in Seq(Entry)
        /\ Identity(RemoveEntry(registry, pos), nextId)
        /\ Ids(RemoveEntry(registry, pos)) = Ids(registry) \ {registry[pos].id}
    BY <2>1, RemoveEntryProperties
  <2> QED  BY <1>1, <2>2
<1>3. /\ DOMAIN mapping' = Ids(registry') /\ Ids(registry') \subseteq Nat
      /\ mapping' \in [Ids(registry') -> Workspaces]
      /\ focused' \in Nat
      /\ IF registry' = <<>> THEN focused' = NoOutput ELSE focused' \in Ids(registry')
  BY <1>2, SyncKeepsCore DEF UnregisterOutput, SyncWorkspaceState, RegistryCore
<1> QED  BY <1>1, <1>2, <1>3
         DEF RegistryCore, RegistryIdentity, Identity, MappingMatchesRegistry,
             FocusIsRegistered

(* A change of primary flags. *)
LEMMA FlagsKeepCore ==
    ASSUME RegistryCore, registry' \in Seq(Entry), SameOutputs(registry', registry),
           UNCHANGED <<nextId, focused, mapping, globalActive>>
    PROVE  RegistryCore'
<1>1. /\ Ids(registry') = Ids(registry) /\ Identity(registry', nextId)
      /\ (registry # <<>> => registry' # <<>>)
  BY SameOutputsKeep DEF RegistryCore, RegistryIdentity, Identity
<1>2. registry = <<>> => registry' = <<>>
  <2> SUFFICES ASSUME registry = <<>> PROVE registry' = <<>>  OBVIOUS
  <2>1. Len(registry') = 0  BY EmptySeq DEF SameOutputs
  <2> QED  BY <2>1, EmptySeq
<1> QED  BY <1>1, <1>2
         DEF RegistryCore, RegistryIdentity, Identity, MappingMatchesRegistry,
             FocusIsRegistered

(* A synchronisation of an unchanged registry. *)
LEMMA SyncUnchangedCore ==
    ASSUME RegistryCore, UNCHANGED registered, SyncWorkspaceState,
           globalActive' = globalActive
    PROVE  RegistryCore'
<1>1. registry' = registry /\ nextId' = nextId  BY DEF registered
<1>2. /\ DOMAIN mapping' = Ids(registry') /\ Ids(registry') \subseteq Nat
      /\ mapping' \in [Ids(registry') -> Workspaces]
      /\ focused' \in Nat
      /\ IF registry' = <<>> THEN focused' = NoOutput ELSE focused' \in Ids(registry')
  BY <1>1, SyncKeepsCore DEF SyncWorkspaceState, RegistryCore
<1> QED  BY <1>1, <1>2
         DEF RegistryCore, RegistryIdentity, MappingMatchesRegistry, FocusIsRegistered

-----------------------------------------------------------------------------
(* The handler at the head of the work list, by kind. *)
LEMMA HeadOfWork ==
    ASSUME work \in Seq(Step), NEW op, Running(op)
    PROVE  /\ Tail(work) \in Seq(Step)
           /\ Head(work) \in Step /\ Head(work).op = op
           /\ op = "boot" => /\ Head(work).conn \in Connectors
                             /\ Head(work).crtc \in Crtcs /\ Head(work).name \in Nat
                             /\ Head(work).enabled \in BOOLEAN
           /\ op = "primaries" => Head(work).names \in Seq(Nat)
           /\ op = "add" => Head(work).conns \subseteq Connectors
           /\ op = "remove" => Head(work).conn \in Connectors /\ Head(work).id \in Nat
           /\ op = "apply" => Head(work).name \in Nat /\ Head(work).primary \in BOOLEAN
<1>1. Tail(work) \in Seq(Step) /\ Head(work) \in Step /\ Head(work).op = op
  BY HeadTailProperties DEF Running
<1> DEFINE h == Head(work)
<1>2. h \in Step /\ h.op = op  BY <1>1
<1> HIDE DEF h
<1>3. op = "boot" => /\ h.conn \in Connectors /\ h.crtc \in Crtcs
                     /\ h.name \in Nat /\ h.enabled \in BOOLEAN
  BY <1>2 DEF Step
<1>4. op = "primaries" => h.names \in Seq(Nat)  BY <1>2 DEF Step
<1>5. op = "add" => h.conns \subseteq Connectors  BY <1>2 DEF Step
<1>6. op = "remove" => h.conn \in Connectors /\ h.id \in Nat  BY <1>2 DEF Step
<1>7. op = "apply" => h.name \in Nat /\ h.primary \in BOOLEAN  BY <1>2 DEF Step
<1> QED  BY <1>1, <1>3, <1>4, <1>5, <1>6, <1>7 DEF h

LEMMA NoResolved == <<>> \in Seq(ResolvedRec)
BY EmptySeq

(* All that a step can do to the registry, the mapping and the focus. *)

Registers ==
    \E name \in Nat, resolved \in Seq(ResolvedRec) : RegisterOutput(name, resolved)

Unregisters == \E pos \in 1..Len(registry) : UnregisterOutput(pos)

Synchronises == UNCHANGED registered /\ SyncWorkspaceState

SetsFlags ==
    /\ registry' \in Seq(Entry) /\ SameOutputs(registry', registry)
    /\ UNCHANGED <<nextId, workspaceState>>

HandlerMove ==
    /\ globalActive' = globalActive
    /\ Registers \/ Unregisters \/ Synchronises \/ SetsFlags

InputMove ==
    \/ \E id \in 1..nextId : FocusOutput(id)
    \/ \E ws \in Workspaces : SwitchWorkspace(ws)

LEMMA Moves == IInv /\ [Next]_vars => HandlerMove \/ InputMove
<1> SUFFICES ASSUME IInv, [Next]_vars PROVE HandlerMove \/ InputMove
  OBVIOUS
<1> USE DEF IInv
<1>0. ASSUME UNCHANGED <<registered, workspaceState, globalActive>> PROVE HandlerMove
  <2>1. SameOutputs(registry, registry)  BY DEF SameOutputs
  <2> QED  BY <1>0, <2>1 DEF HandlerMove, SetsFlags, RegistryCore, registered
<1>1. CASE BootOutput
  <2>1. Head(work).name \in Nat  BY <1>1, HeadOfWork DEF BootOutput, BackendTyped
  <2>2. CASE Head(work).enabled
    <3>1. RegisterOutput(Head(work).name, <<>>) /\ globalActive' = globalActive
      BY <1>1, <2>2 DEF BootOutput
    <3> QED  BY <2>1, <3>1, NoResolved DEF HandlerMove, Registers
  <2>3. CASE ~Head(work).enabled
    BY <1>0, <1>1, <2>3 DEF BootOutput
  <2> QED  BY <2>2, <2>3
<1>2. CASE BootPrimaries
  <2> DEFINE resolved == Resolve(Head(work).names, config)
  <2>1. Head(work).names \in Seq(Nat)  BY <1>2, HeadOfWork DEF BootPrimaries, BackendTyped
  <2>2. resolved \in Seq(ResolvedRec)  BY <2>1, ResolveEntry
  <2>3. /\ registry' = SyncPrimaryFlags(registry, resolved)
        /\ UNCHANGED <<nextId, workspaceState, globalActive>>
    BY <1>2 DEF BootPrimaries
  <2> HIDE DEF resolved
  <2>4. registry' \in Seq(Entry) /\ SameOutputs(registry', registry)
    BY <2>2, <2>3, SyncPrimaryFlagsEntry DEF RegistryCore
  <2> QED  BY <2>3, <2>4 DEF HandlerMove, SetsFlags
<1>3. ASSUME NEW c \in Connectors, Plug(c) \/ Unplug(c) PROVE HandlerMove
  BY <1>0, <1>3 DEF Plug, Unplug
<1>4. CASE ScanConnectors
  BY <1>0, <1>4 DEF ScanConnectors
<1>5. ASSUME NEW c \in Connectors, AddOutput(c) PROVE HandlerMove
  <2> DEFINE name == GeneratedName
             resolved == Resolve(Append(NamesOf(registry), name), config)
             on == resolved[SelectInSeq(resolved, LAMBDA r : r.name = name)].enabled
  <2>1. name \in Nat  BY DEF GeneratedName, BackendTyped
  <2>2. resolved \in Seq(ResolvedRec)
    <3>1. NamesOf(registry) \in Seq(Nat)  BY NamesOfEntry DEF RegistryCore
    <3>2. Append(NamesOf(registry), name) \in Seq(Nat)  BY <2>1, <3>1, AppendProperties
    <3> QED  BY <3>2, ResolveEntry
  <2>3. CASE on
    <3>1. RegisterOutput(name, resolved) /\ globalActive' = globalActive
      BY <1>5, <2>3 DEF AddOutput
    <3> HIDE DEF name, resolved
    <3> QED  BY <2>1, <2>2, <3>1 DEF HandlerMove, Registers
  <2>4. CASE ~on
    BY <1>0, <1>5, <2>4 DEF AddOutput
  <2> QED  BY <2>3, <2>4
<1>6. ASSUME NEW c \in Connectors, AddOutputSkipped(c) PROVE HandlerMove
  BY <1>0, <1>6 DEF AddOutputSkipped
<1>7. CASE RemoveOutput
  <2>1. PICK id : /\ \/ /\ id \in Ids(registry)
                        /\ UnregisterOutput(PositionOfId(registry, id))
                     \/ UNCHANGED <<registered, workspaceState>>
                  /\ globalActive' = globalActive
    BY <1>7 DEF RemoveOutput
  <2>2. CASE id \in Ids(registry) /\ UnregisterOutput(PositionOfId(registry, id))
    BY <2>1, <2>2, FoundById DEF RegistryCore, HandlerMove, Unregisters
  <2>3. CASE UNCHANGED <<registered, workspaceState>>
    BY <1>0, <2>1, <2>3
  <2> QED  BY <2>1, <2>2, <2>3
<1>8. CASE RemoveDisabled
  BY <1>0, <1>8 DEF RemoveDisabled
<1>9. ASSUME NEW cfg \in Configs, ReloadConfig(cfg) PROVE HandlerMove
  BY <1>0, <1>9 DEF ReloadConfig
<1>10. CASE ApplyPrimary
  <2>1. Head(work).primary \in BOOLEAN  BY <1>10, HeadOfWork DEF ApplyPrimary, BackendTyped
  <2>2. /\ registry' = SetPrimary(registry, Head(work).name, Head(work).primary)
        /\ UNCHANGED <<nextId, workspaceState, globalActive>>
    BY <1>10 DEF ApplyPrimary
  <2>3. registry' \in Seq(Entry) /\ SameOutputs(registry', registry)
    BY <2>1, <2>2, SetPrimaryEntry DEF RegistryCore
  <2> QED  BY <2>2, <2>3 DEF HandlerMove, SetsFlags
<1>11. CASE ApplyDisable
  <2> DEFINE name == Head(work).name
  <2>1. CASE DrmPositionOfName(name) = 0
    BY <1>0, <1>11, <2>1 DEF ApplyDisable
  <2>2. CASE DrmPositionOfName(name) # 0 /\ name \in Names(registry)
    <3>1. UnregisterOutput(PositionOfName(registry, name)) /\ globalActive' = globalActive
      BY <1>11, <2>2 DEF ApplyDisable
    <3> QED  BY <2>2, <3>1, FoundByName DEF RegistryCore, HandlerMove, Unregisters
  <2>3. CASE DrmPositionOfName(name) # 0 /\ name \notin Names(registry)
    BY <1>11, <2>3 DEF ApplyDisable, HandlerMove, Synchronises
  <2> QED  BY <2>1, <2>2, <2>3
<1>12. CASE ApplyEnable
  <2>1. PICK d \in disabled : RegisterOutput(d.name, <<>>) /\ globalActive' = globalActive
    BY <1>12 DEF ApplyEnable
  <2>2. d.name \in Nat  BY DEF BackendTyped, DisabledRec
  <2> QED  BY <2>1, <2>2, NoResolved DEF HandlerMove, Registers
<1>13. CASE ApplyEnableSkipped
  BY <1>0, <1>13 DEF ApplyEnableSkipped
<1>14. CASE FinishReload
  <2>1. registry' = registry /\ nextId' = nextId /\ SyncWorkspaceState /\ globalActive' = globalActive
    BY <1>14 DEF FinishReload, registered
  <2> QED  BY <2>1 DEF HandlerMove, Synchronises, registered
<1>15. CASE \E id \in 1..nextId : FocusOutput(id)
  BY <1>15 DEF InputMove
<1>16. CASE \E ws \in Workspaces : SwitchWorkspace(ws)
  BY <1>16 DEF InputMove
<1>17. CASE UNCHANGED vars
  BY <1>0, <1>17 DEF vars, registered, workspaceState
<1> QED
  BY <1>1, <1>2, <1>3, <1>4, <1>5, <1>6, <1>7, <1>8, <1>9, <1>10, <1>11, <1>12,
     <1>13, <1>14, <1>15, <1>16, <1>17 DEF Next

(* Every step keeps the core of the registry. *)
LEMMA CoreStep == IInv /\ [Next]_vars => RegistryCore'
<1> SUFFICES ASSUME IInv, HandlerMove \/ InputMove PROVE RegistryCore'
  BY Moves
<1> USE DEF IInv
<1>1. CASE HandlerMove /\ Registers
  BY <1>1, RegisterKeepsCore DEF HandlerMove, Registers
<1>2. CASE HandlerMove /\ Unregisters
  BY <1>2, UnregisterKeepsCore DEF HandlerMove, Unregisters
<1>3. CASE HandlerMove /\ Synchronises
  BY <1>3, SyncUnchangedCore DEF HandlerMove, Synchronises
<1>4. CASE HandlerMove /\ SetsFlags
  BY <1>4, FlagsKeepCore DEF HandlerMove, SetsFlags, workspaceState
<1>5. ASSUME NEW id \in 1..nextId, FocusOutput(id) PROVE RegistryCore'
  <2>1. /\ focused' = id /\ id \in Ids(registry)
        /\ UNCHANGED <<registry, nextId, mapping, globalActive>>
    BY <1>5 DEF FocusOutput, registered
  <2>2. id \in Nat /\ registry # <<>>  BY <2>1, IdsAreNat DEF RegistryCore, Ids
  <2> QED  BY <2>1, <2>2
           DEF RegistryCore, RegistryIdentity, MappingMatchesRegistry, FocusIsRegistered
<1>6. ASSUME NEW ws \in Workspaces, SwitchWorkspace(ws) PROVE RegistryCore'
  <2> DEFINE target == SyncedFocus(registry, focused)
  <2>1. target # NoOutput => target \in Ids(registry)
    BY SyncKeepsCore DEF RegistryCore
  <2>2. /\ UNCHANGED <<registry, nextId, focused>> /\ globalActive' = ws
        /\ mapping' = IF target = NoOutput THEN mapping
                      ELSE [i \in DOMAIN mapping \cup {target} |->
                              IF i = target THEN ws ELSE mapping[i]]
    BY <1>6 DEF SwitchWorkspace, registered
  <2> HIDE DEF target
  <2>3. DOMAIN mapping' = Ids(registry) /\ mapping' \in [DOMAIN mapping' -> Workspaces]
    BY <2>1, <2>2 DEF RegistryCore, MappingMatchesRegistry
  <2> QED  BY <2>2, <2>3
           DEF RegistryCore, RegistryIdentity, MappingMatchesRegistry, FocusIsRegistered
<1> QED
  BY <1>1, <1>2, <1>3, <1>4, <1>5, <1>6 DEF HandlerMove, InputMove

-----------------------------------------------------------------------------
(* The steps of every kind of callback are steps. *)

LEMMA BootStepsType ==
    ASSUME NEW n \in 1..NumCrtcs, NEW conns \in [1..n -> Connectors], NEW cfg
    PROVE  BootSteps(conns, cfg) \in Seq(Step)
<1> DEFINE names == [i \in 1..Len(conns) |-> i - 1]
           resolved == Resolve(names, cfg)
           boot(i) == [op |-> "boot", conn |-> conns[i], crtc |-> i,
                       name |-> names[i], enabled |-> resolved[i].enabled]
           boots == [i \in 1..Len(conns) |-> boot(i)]
           last == [op |-> "primaries", names |-> names]
<1>1. n \in Nat /\ NumCrtcs \in Nat  BY LifecycleAssumption
<1>2. Len(conns) = n  BY <1>1, SeqFromFunction
<1>3. names \in [1..n -> Nat]  BY <1>1, <1>2
<1>4. names \in Seq(Nat) /\ Len(names) = n  BY <1>1, <1>3, SeqFromFunction
<1>5. resolved \in Seq(ResolvedRec) /\ Len(resolved) = n  BY <1>4, ResolveEntry
<1>6. \A i \in 1..n : boot(i) \in Step
  <2> SUFFICES ASSUME NEW i \in 1..n PROVE boot(i) \in Step  OBVIOUS
  <2>1. conns[i] \in Connectors /\ i \in Crtcs  BY <1>1 DEF Crtcs
  <2>2. names[i] \in Nat  BY <1>3
  <2>3. resolved[i].enabled \in BOOLEAN
    <3> HIDE DEF resolved
    <3>1. resolved[i] \in ResolvedRec  BY <1>5, ElementOfSeq
    <3> QED  BY <3>1 DEF ResolvedRec
  <2> HIDE DEF names, resolved
  <2> QED  BY <2>1, <2>2, <2>3 DEF Step
<1>7. boots \in [1..n -> Step]  BY <1>2, <1>6
<1>8. boots \in Seq(Step)  BY <1>1, <1>7, SeqFromFunction
<1>9. last \in Step
  <2> HIDE DEF names
  <2> QED  BY <1>4 DEF Step
<1>10. BootSteps(conns, cfg) = Append(boots, last)  BY DEF BootSteps
<1> HIDE DEF boots, last
<1> QED  BY <1>8, <1>9, <1>10, AppendProperties

LEMMA FiniteImage ==
    ASSUME NEW D, IsFiniteSet(D)
    PROVE  IsFiniteSet({d.conn : d \in D}) /\ IsFiniteSet({d.name : d \in D})
<1> DEFINE C == {d.conn : d \in D}
           N == {d.name : d \in D}
<1>1. [d \in D |-> d.conn] \in Surjection(D, C)  BY DEF Surjection
<1>2. [d \in D |-> d.name] \in Surjection(D, N)  BY DEF Surjection
<1> HIDE DEF C, N
<1>3. IsFiniteSet(C) /\ IsFiniteSet(N)  BY <1>1, <1>2, FS_Surjection
<1> QED  BY <1>3 DEF C, N

LEMMA ScanStepsType ==
    ASSUME IInv, ScanConnectors
    PROVE  work' \in Seq(Step)
<1> DEFINE added == connected \ KnownConnectors
           gone == {i \in 1..Len(drm) : drm[i].conn \notin connected}
           lost == {d.conn : d \in disabled} \ connected
           remove(conn, id) == [op |-> "remove", conn |-> conn, id |-> id]
           adding == IF added = {} THEN <<>> ELSE <<[op |-> "add", conns |-> added]>>
<1>1. PICK pos \in InOrder(gone), conns \in SetToSeqs(lost) :
        work' = adding
                \o [k \in 1..Len(pos) |->
                      remove(drm[pos[k]].conn, IdOfName(registry, drm[pos[k]].name))]
                \o [k \in 1..Len(conns) |-> remove(conns[k], NoOutput)]
  BY DEF ScanConnectors
<1>2. \A c \in Connectors, id \in Nat : remove(c, id) \in Step  BY DEF Step
<1> HIDE DEF remove
<1>3. adding \in Seq(Step)
  <2>1. added \subseteq Connectors  BY DEF IInv, BackendTyped
  <2> HIDE DEF added
  <2>2. [op |-> "add", conns |-> added] \in Step  BY <2>1 DEF Step
  <2> QED  BY <2>2, EmptySeq
<1> HIDE DEF adding
<1> DEFINE first == [k \in 1..Len(pos) |->
                       remove(drm[pos[k]].conn, IdOfName(registry, drm[pos[k]].name))]
           second == [k \in 1..Len(conns) |-> remove(conns[k], NoOutput)]
<1>4. first \in Seq(Step)
  <2>1. Len(drm) \in Nat /\ \A i \in 1..Len(drm) : drm[i] \in DrmRec
    BY LenProperties, ElementOfSeq DEF IInv, BackendTyped
  <2>2. Len(pos) \in Nat /\ \A k \in 1..Len(pos) : pos[k] \in 1..Len(drm)
    BY <2>1, InOrderType
  <2>3. \A k \in 1..Len(pos) :
          /\ drm[pos[k]].conn \in Connectors
          /\ IdOfName(registry, drm[pos[k]].name) \in Nat
    <3> SUFFICES ASSUME NEW k \in 1..Len(pos)
                 PROVE  /\ drm[pos[k]].conn \in Connectors
                        /\ IdOfName(registry, drm[pos[k]].name) \in Nat
      OBVIOUS
    <3>1. drm[pos[k]] \in DrmRec  BY <2>1, <2>2
    <3> QED  BY <3>1, IdOfNameType DEF DrmRec, IInv, RegistryCore
  <2>4. first \in [1..Len(pos) -> Step]  BY <1>2, <2>3
  <2> HIDE DEF first
  <2> QED  BY <2>2, <2>4, SeqFromFunction
<1>5. second \in Seq(Step)
  <2>1. IsFiniteSet(lost) /\ lost \subseteq Connectors
    <3>1. IsFiniteSet({d.conn : d \in disabled})
      BY FiniteImage DEF IInv, BackendTyped
    <3> QED  BY <3>1, FS_Difference DEF IInv, BackendTyped, DisabledRec
  <2>2. conns \in Seq(lost) /\ Len(conns) \in Nat  BY <2>1, SetToSeqsType
  <2>3. \A k \in 1..Len(conns) : conns[k] \in Connectors  BY <2>1, <2>2, ElementOfSeq
  <2>4. second \in [1..Len(conns) -> Step]  BY <1>2, <2>3 DEF NoOutput
  <2> HIDE DEF second
  <2> QED  BY <2>2, <2>4, SeqFromFunction
<1>6. work' = adding \o first \o second  BY <1>1
<1> HIDE DEF first, second
<1>7. adding \o first \in Seq(Step)  BY <1>3, <1>4, ConcatProperties
<1> QED  BY <1>5, <1>6, <1>7, ConcatProperties

LEMMA ReloadStepsType ==
    ASSUME IInv, NEW cfg \in Configs, ReloadConfig(cfg)
    PROVE  work' \in Seq(Step)
<1> DEFINE hidden == {d.name : d \in disabled} \ Names(registry)
           step(r) == [op |-> "apply", name |-> r.name, primary |-> r.primary,
                       toggled |-> (r.name \in config.off) # (r.name \in cfg.off)]
           sync == [op |-> "sync"]
<1>1. PICK rest \in SetToSeqs(hidden) :
        LET resolved == Resolve(NamesOf(registry) \o rest, cfg)
        IN  work' = IF resolved = <<>> THEN <<>>
                    ELSE Append([i \in 1..Len(resolved) |-> step(resolved[i])], sync)
  BY DEF ReloadConfig
<1> DEFINE resolved == Resolve(NamesOf(registry) \o rest, cfg)
           steps == [i \in 1..Len(resolved) |-> step(resolved[i])]
<1>2. resolved \in Seq(ResolvedRec)
  <2>1. IsFiniteSet(hidden) /\ hidden \subseteq Nat
    <3>1. IsFiniteSet({d.name : d \in disabled})
      BY FiniteImage DEF IInv, BackendTyped
    <3> QED  BY <3>1, FS_Difference DEF IInv, BackendTyped, DisabledRec
  <2>2. rest \in Seq(hidden)  BY <2>1, SetToSeqsType
  <2>3. rest \in Seq(Nat)  BY <2>1, <2>2, SeqMonotonic
  <2>4. NamesOf(registry) \in Seq(Nat)  BY NamesOfEntry DEF IInv, RegistryCore
  <2>5. NamesOf(registry) \o rest \in Seq(Nat)  BY <2>3, <2>4, ConcatProperties
  <2> QED  BY <2>5, ResolveEntry
<1>3. work' = IF resolved = <<>> THEN <<>> ELSE Append(steps, sync)  BY <1>1
<1> HIDE DEF resolved
<1>4. \A r \in ResolvedRec : step(r) \in Step  BY DEF Step, ResolvedRec
<1>5. sync \in Step  BY DEF Step
<1> HIDE DEF step, sync
<1>6. Len(resolved) \in Nat /\ \A i \in 1..Len(resolved) : resolved[i] \in ResolvedRec
  BY <1>2, LenProperties, ElementOfSeq
<1>7. steps \in [1..Len(resolved) -> Step]  BY <1>4, <1>6
<1> HIDE DEF steps
<1>8. steps \in Seq(Step)  BY <1>6, <1>7, SeqFromFunction
<1> QED  BY <1>3, <1>5, <1>8, AppendProperties, EmptySeq

-----------------------------------------------------------------------------
(* Every step keeps the types of the hardware, the backend and the work.   *)

LEMMA PushKeepsTypes ==
    ASSUME outputs \in Seq(OutputRec), drm \in Seq(DrmRec), RegistryCore',
           NEW c \in Connectors, NEW crtc \in Crtcs, NEW name \in Nat,
           PushOutput(c, crtc, name)
    PROVE  outputs' \in Seq(OutputRec) /\ drm' \in Seq(DrmRec)
<1>1. IdOfName(registry', name) \in Nat  BY IdOfNameType DEF RegistryCore
<1> DEFINE d == [conn |-> c, crtc |-> crtc, name |-> name, id |-> IdOfName(registry', name)]
           o == [conn |-> c, name |-> name]
<1>2. d \in DrmRec /\ o \in OutputRec  BY <1>1 DEF DrmRec, OutputRec
<1>3. outputs' = Append(outputs, o) /\ drm' = Append(drm, d)  BY DEF PushOutput
<1> HIDE DEF d, o
<1> QED  BY <1>2, <1>3, AppendProperties

LEMMA StoredType ==
    ASSUME disabled \subseteq DisabledRec, IsFiniteSet(disabled), NEW r \in DisabledRec
    PROVE  Stored(r) \subseteq DisabledRec /\ IsFiniteSet(Stored(r))
<1> DEFINE kept == {d \in disabled : d.name # r.name}
<1>1. IsFiniteSet(kept)  BY FS_Subset
<1>2. IsFiniteSet(kept \cup {r})  BY <1>1, FS_AddElement
<1> QED  BY <1>2 DEF Stored

LEMMA DrmPositions ==
    ASSUME drm \in Seq(DrmRec), NEW x
    PROVE  /\ DrmPositionOfConnector(x) # 0 => DrmPositionOfConnector(x) \in 1..Len(drm)
           /\ DrmPositionOfName(x) # 0 => DrmPositionOfName(x) \in 1..Len(drm)
<1> DEFINE I == {i \in 1..Len(drm) : drm[i].conn = x}
           J == {i \in 1..Len(drm) : drm[i].name = x}
<1>1. I \in SUBSET Nat /\ J \in SUBSET Nat  OBVIOUS
<1>2. (I # {} => Min(I) \in I) /\ (J # {} => Min(J) \in J)
  <2> HIDE DEF I, J
  <2> QED  BY <1>1, MinNat
<1> QED  BY <1>2 DEF DrmPositionOfConnector, DrmPositionOfName, SelectInSeq

LEMMA OutputPositions ==
    ASSUME outputs \in Seq(OutputRec), NEW x, OutputPositionOfName(x) # 0
    PROVE  OutputPositionOfName(x) \in 1..Len(outputs)
<1> DEFINE I == {i \in 1..Len(outputs) : outputs[i].name = x}
<1>1. I # {} => Min(I) \in I  BY MinNat
<1> QED  BY <1>1 DEF OutputPositionOfName, SelectInSeq

LEMMA BackendStep == IInv /\ [Next]_vars => BackendTyped'
<1> SUFFICES ASSUME IInv, [Next]_vars PROVE BackendTyped'
  OBVIOUS
<1> USE DEF IInv
<1>c. RegistryCore'  BY CoreStep
<1>w. ASSUME NEW op, Running(op), work' = Tail(work) PROVE work' \in Seq(Step)
  BY <1>w, HeadOfWork DEF BackendTyped
<1>0. ASSUME UNCHANGED <<connected, config, outputs, drm, disabled>>,
             work' \in Seq(Step)
      PROVE  BackendTyped'
  BY <1>0 DEF BackendTyped
<1>a. ASSUME NEW c, Running("add"), AddDone(c) PROVE work' \in Seq(Step)
  <2> DEFINE rest == Head(work).conns \ {c}
             again == [op |-> "add", conns |-> rest]
  <2>1. Head(work).conns \subseteq Connectors /\ Tail(work) \in Seq(Step)
    BY <1>a, HeadOfWork DEF BackendTyped
  <2>2. again \in Step  BY <2>1 DEF Step
  <2>3. work' = IF rest = {} THEN Tail(work) ELSE <<again>> \o Tail(work)
    BY <1>a DEF AddDone
  <2> HIDE DEF again
  <2>4. <<again>> \in Seq(Step)  BY <2>2
  <2> QED  BY <2>1, <2>3, <2>4, ConcatProperties
<1>1. CASE BootOutput
  <2>1. /\ Head(work).conn \in Connectors /\ Head(work).crtc \in Crtcs
        /\ Head(work).name \in Nat /\ work' \in Seq(Step)
    BY <1>1, <1>w, HeadOfWork DEF BootOutput, BackendTyped
  <2>2. CASE Head(work).enabled
    <3>1. PushOutput(Head(work).conn, Head(work).crtc, Head(work).name)
      BY <1>1, <2>2 DEF BootOutput
    <3>2. outputs' \in Seq(OutputRec) /\ drm' \in Seq(DrmRec)
      BY <1>c, <2>1, <3>1, PushKeepsTypes DEF BackendTyped
    <3> QED  BY <1>1, <2>1, <2>2, <3>2 DEF BootOutput, BackendTyped, hardware
  <2>3. CASE ~Head(work).enabled
    <3> DEFINE r == [conn |-> Head(work).conn, crtc |-> Head(work).crtc,
                     name |-> Head(work).name]
    <3>1. r \in DisabledRec  BY <2>1 DEF DisabledRec
    <3>2. disabled' = disabled \cup {r}  BY <1>1, <2>3 DEF BootOutput
    <3> HIDE DEF r
    <3>3. disabled' \subseteq DisabledRec /\ IsFiniteSet(disabled')
      BY <3>1, <3>2, FS_AddElement DEF BackendTyped
    <3> QED  BY <1>1, <2>1, <2>3, <3>3 DEF BootOutput, BackendTyped, hardware
  <2> QED  BY <2>2, <2>3
<1>2. CASE BootPrimaries
  BY <1>0, <1>2, <1>w DEF BootPrimaries, hardware, backend
<1>3. ASSUME NEW c \in Connectors, Plug(c) \/ Unplug(c) PROVE BackendTyped'
  BY <1>3 DEF Plug, Unplug, backend, BackendTyped
<1>4. CASE ScanConnectors
  BY <1>0, <1>4, ScanStepsType DEF ScanConnectors, hardware, backend
<1>5. ASSUME NEW c \in Connectors, AddOutput(c) PROVE BackendTyped'
  <2> DEFINE name == GeneratedName
             crtc == Min(FreeCrtcs)
             resolved == Resolve(Append(NamesOf(registry), name), config)
             on == resolved[SelectInSeq(resolved, LAMBDA r : r.name = name)].enabled
  <2>1. name \in Nat /\ crtc \in Crtcs
    <3>1. FreeCrtcs \in SUBSET Nat /\ FreeCrtcs \subseteq Crtcs
      BY LifecycleAssumption DEF FreeCrtcs, Crtcs
    <3>2. crtc \in FreeCrtcs  BY <1>5, <3>1, MinNat DEF AddOutput
    <3>3. Len(outputs) \in Nat  BY DEF BackendTyped
    <3> HIDE DEF crtc
    <3> QED  BY <3>1, <3>2, <3>3 DEF GeneratedName
  <2>2. work' \in Seq(Step)  BY <1>5, <1>a DEF AddOutput
  <2>3. CASE on
    <3>1. PushOutput(c, crtc, name) /\ UNCHANGED disabled  BY <1>5, <2>3 DEF AddOutput
    <3>2. outputs' \in Seq(OutputRec) /\ drm' \in Seq(DrmRec)
      BY <1>c, <2>1, <3>1, PushKeepsTypes DEF BackendTyped
    <3> QED  BY <1>5, <2>2, <3>1, <3>2 DEF AddOutput, BackendTyped, hardware
  <2>4. CASE ~on
    <3> DEFINE r == [conn |-> c, crtc |-> crtc, name |-> name]
    <3>1. r \in DisabledRec  BY <2>1 DEF DisabledRec
    <3>2. disabled' = Stored(r) /\ UNCHANGED <<outputs, drm>>  BY <1>5, <2>4 DEF AddOutput
    <3> HIDE DEF r
    <3>3. disabled' \subseteq DisabledRec /\ IsFiniteSet(disabled')
      BY <3>1, <3>2, StoredType DEF BackendTyped
    <3> QED  BY <1>5, <2>2, <3>2, <3>3 DEF AddOutput, BackendTyped, hardware
  <2> QED  BY <2>3, <2>4
<1>6. ASSUME NEW c \in Connectors, AddOutputSkipped(c) PROVE BackendTyped'
  BY <1>0, <1>6, <1>a DEF AddOutputSkipped, hardware, backend
<1>7. CASE RemoveOutput
  <2> DEFINE pos == DrmPositionOfConnector(Head(work).conn)
             wl == OutputPositionOfName(drm[pos].name)
  <2>1. pos # 0 /\ drm' = RemoveAt(drm, pos)
    BY <1>7 DEF RemoveOutput
  <2>2. outputs' = IF wl = 0 THEN outputs ELSE RemoveAt(outputs, wl)
    BY <1>7 DEF RemoveOutput
  <2>3. pos \in 1..Len(drm)  BY <2>1, DrmPositions DEF BackendTyped
  <2>4. wl # 0 => wl \in 1..Len(outputs)  BY OutputPositions DEF BackendTyped
  <2> HIDE DEF pos, wl
  <2>5. drm' \in Seq(DrmRec) /\ outputs' \in Seq(OutputRec)
    BY <2>1, <2>2, <2>3, <2>4, RemoveAtProperties DEF BackendTyped
  <2>6. work' \in Seq(Step)  BY <1>7, <1>w DEF RemoveOutput
  <2> QED  BY <1>7, <2>5, <2>6 DEF RemoveOutput, BackendTyped, hardware
<1>8. CASE RemoveDisabled
  <2>1. work' \in Seq(Step)  BY <1>8, <1>w DEF RemoveDisabled
  <2>2. disabled' \subseteq disabled  BY <1>8 DEF RemoveDisabled
  <2>3. IsFiniteSet(disabled')  BY <2>2, FS_Subset DEF BackendTyped
  <2> QED  BY <1>8, <2>1, <2>2, <2>3 DEF RemoveDisabled, BackendTyped, hardware
<1>9. ASSUME NEW cfg \in Configs, ReloadConfig(cfg) PROVE BackendTyped'
  <2>1. work' \in Seq(Step)  BY <1>9, ReloadStepsType
  <2> QED  BY <1>9, <2>1 DEF ReloadConfig, hardware, backend, BackendTyped
<1>10. CASE ApplyPrimary
  BY <1>0, <1>10, <1>w DEF ApplyPrimary, hardware, backend
<1>11. CASE ApplyDisable
  <2> DEFINE name == Head(work).name
             pos == DrmPositionOfName(name)
             r == [conn |-> drm[pos].conn, crtc |-> drm[pos].crtc, name |-> name]
             keep == {i \in 1..Len(outputs) : outputs[i].name # name}
  <2>1. work' \in Seq(Step)  BY <1>11, <1>w DEF ApplyDisable
  <2>2. CASE pos = 0
    <3>1. UNCHANGED <<connected, config, outputs, drm, disabled>>
      BY <1>11, <2>2 DEF ApplyDisable, hardware, backend
    <3> QED  BY <1>0, <2>1, <3>1
  <2>3. CASE pos # 0
    <3>1. /\ drm' = RemoveAt(drm, pos) /\ disabled' = Stored(r)
          /\ UNCHANGED <<connected, config>>
      BY <1>11, <2>3 DEF ApplyDisable, hardware
    <3>2. PICK kept \in InOrder(keep) :
             outputs' = [k \in 1..Len(kept) |-> outputs[kept[k]]]
      BY <1>11, <2>3 DEF ApplyDisable
    <3>3. pos \in 1..Len(drm)  BY <2>3, DrmPositions DEF BackendTyped
    <3>4. r \in DisabledRec
      <4>1. name \in Nat  BY <1>11, HeadOfWork DEF ApplyDisable, BackendTyped
      <4>2. drm[pos] \in DrmRec  BY <3>3, ElementOfSeq DEF BackendTyped
      <4> HIDE DEF pos, name
      <4> QED  BY <4>1, <4>2 DEF DrmRec, DisabledRec
    <3>5. outputs' \in Seq(OutputRec)
      <4>1. Len(outputs) \in Nat /\ \A i \in 1..Len(outputs) : outputs[i] \in OutputRec
        BY LenProperties, ElementOfSeq DEF BackendTyped
      <4> HIDE DEF name
      <4>2. Len(kept) \in Nat /\ \A k \in 1..Len(kept) : kept[k] \in 1..Len(outputs)
        BY <4>1, InOrderType
      <4>3. outputs' \in [1..Len(kept) -> OutputRec]  BY <3>2, <4>1, <4>2
      <4> QED  BY <4>2, <4>3, SeqFromFunction
    <3> HIDE DEF pos, r
    <3>6. drm' \in Seq(DrmRec)  BY <3>1, <3>3, RemoveAtProperties DEF BackendTyped
    <3>7. disabled' \subseteq DisabledRec /\ IsFiniteSet(disabled')
      BY <3>1, <3>4, StoredType DEF BackendTyped
    <3> QED  BY <2>1, <3>1, <3>5, <3>6, <3>7 DEF BackendTyped
  <2> QED  BY <2>2, <2>3
<1>12. CASE ApplyEnable
  <2>1. PICK d \in disabled : /\ disabled' = disabled \ {d}
                              /\ PushOutput(d.conn, d.crtc, d.name)
    BY <1>12 DEF ApplyEnable
  <2>2. d.conn \in Connectors /\ d.crtc \in Crtcs /\ d.name \in Nat
    BY DEF BackendTyped, DisabledRec
  <2>3. outputs' \in Seq(OutputRec) /\ drm' \in Seq(DrmRec)
    BY <1>c, <2>1, <2>2, PushKeepsTypes DEF BackendTyped
  <2>4. IsFiniteSet(disabled')  BY <2>1, FS_Subset DEF BackendTyped
  <2>5. work' \in Seq(Step)  BY <1>12, <1>w DEF ApplyEnable
  <2> QED  BY <1>12, <2>1, <2>3, <2>4, <2>5 DEF ApplyEnable, BackendTyped, hardware
<1>13. CASE ApplyEnableSkipped
  BY <1>0, <1>13, <1>w DEF ApplyEnableSkipped, hardware, backend
<1>14. CASE FinishReload
  BY <1>0, <1>14, <1>w DEF FinishReload, hardware, backend
<1>15. ASSUME NEW id \in 1..nextId, FocusOutput(id) PROVE BackendTyped'
  BY <1>15 DEF FocusOutput, hardware, backend, BackendTyped
<1>16. ASSUME NEW ws \in Workspaces, SwitchWorkspace(ws) PROVE BackendTyped'
  BY <1>16 DEF SwitchWorkspace, hardware, backend, BackendTyped
<1>17. CASE UNCHANGED vars
  BY <1>17 DEF vars, BackendTyped
<1> QED
  BY <1>1, <1>2, <1>3, <1>4, <1>5, <1>6, <1>7, <1>8, <1>9, <1>10, <1>11, <1>12,
     <1>13, <1>14, <1>15, <1>16, <1>17 DEF Next

-----------------------------------------------------------------------------
LEMMA InitIInv == Init => IInv
<1> SUFFICES ASSUME Init PROVE IInv
  OBVIOUS
<1>1. RegistryCore
  <2>1. registry = <<>> /\ nextId = 0 /\ focused = NoOutput /\ mapping = <<>>
        /\ globalActive = 0
    BY DEF Init
  <2>2. mapping \in Seq(Workspaces) /\ Len(mapping) = 0  BY <2>1, EmptySeq
  <2>3. DOMAIN mapping = {} /\ mapping \in [DOMAIN mapping -> Workspaces]
    BY <2>2, LenProperties
  <2>4. registry \in Seq(Entry) /\ Len(registry) = 0 /\ Ids(registry) = {}
    BY <2>1, EmptySeq DEF Ids
  <2> QED
    BY <2>1, <2>3, <2>4, LifecycleAssumption
    DEF RegistryCore, RegistryIdentity, MappingMatchesRegistry, FocusIsRegistered, NoOutput
<1>2. BackendTyped
  <2>1. PICK n \in 1..NumCrtcs : \E conns \in [1..n -> Connectors] :
          connected = {conns[i] : i \in 1..n} /\ work = BootSteps(conns, config)
    BY DEF Init
  <2>a. PICK conns \in [1..n -> Connectors] :
          connected = {conns[i] : i \in 1..n} /\ work = BootSteps(conns, config)
    BY <2>1
  <2>2. work \in Seq(Step)  BY <2>a, BootStepsType
  <2>3. connected \subseteq Connectors  BY <2>a
  <2> QED  BY <2>2, <2>3, EmptySeq, FS_EmptySet DEF Init, BackendTyped
<1> QED  BY <1>1, <1>2 DEF IInv

THEOREM Invariance == Spec => []IInv
<1>1. Init => IInv  BY InitIInv
<1>2. IInv /\ [Next]_vars => IInv'  BY CoreStep, BackendStep DEF IInv
<1> QED  BY <1>1, <1>2, PTL DEF Spec

(* What the history says only ever becomes less, and the configuration     *)
(* disables no output while it says that of all of them.                   *)
LEMMA OrderStep ==
    ASSUME [Next]_vars
    PROVE  order' \in {order, "any"} /\ (order' = "dock" => config' = config \/ config'.off = {})
<1>1. CASE \E c \in Connectors : Plug(c) \/ Unplug(c)  BY <1>1 DEF Plug, Unplug, Docked
<1>2. CASE \E cfg \in Configs : ReloadConfig(cfg)  BY <1>2 DEF ReloadConfig, Docked
<1>3. CASE BootOutput \/ BootPrimaries \/ ScanConnectors
  BY <1>3 DEF BootOutput, BootPrimaries, ScanConnectors, hardware
<1>4. CASE \E c \in Connectors : AddOutput(c) \/ AddOutputSkipped(c)
  BY <1>4 DEF AddOutput, AddOutputSkipped, hardware
<1>5. CASE RemoveOutput \/ RemoveDisabled  BY <1>5 DEF RemoveOutput, RemoveDisabled, hardware
<1>6. CASE ApplyPrimary \/ ApplyDisable  BY <1>6 DEF ApplyPrimary, ApplyDisable, hardware
<1>7. CASE ApplyEnable \/ ApplyEnableSkipped \/ FinishReload
  BY <1>7 DEF ApplyEnable, ApplyEnableSkipped, FinishReload, hardware
<1>8. CASE \/ \E id \in 1..nextId : FocusOutput(id)
           \/ \E ws \in Workspaces : SwitchWorkspace(ws)
           \/ UNCHANGED vars
  BY <1>8 DEF FocusOutput, SwitchWorkspace, vars, hardware
<1> QED  BY <1>1, <1>2, <1>3, <1>4, <1>5, <1>6, <1>7, <1>8 DEF Next

(* Every variable keeps its type. *)
THEOREM Typing == Spec => []TypeOK
<1> DEFINE History == order \in {"dock", "any"}
<1>1. IInv /\ History => TypeOK  BY DEF IInv, RegistryCore, BackendTyped, TypeOK
<1>2. Init => History  BY DEF Init
<1>3. History /\ [Next]_vars => History'  BY OrderStep
<1> QED  BY <1>1, <1>2, <1>3, Invariance, PTL DEF Spec

(* The registry never holds an id or a name twice, whatever names hotplug  *)
(* generates (OutputRegistry::upsert, remove_by_id, remove_by_name).       *)
THEOREM Identities == Spec => []RegistryIdentity
<1>1. IInv => RegistryIdentity  BY DEF IInv, RegistryCore
<1> QED  BY <1>1, Invariance, PTL

(* Exactly the registered outputs have an active workspace, between any    *)
(* two handlers (sync_outputs_with_workspace_state).                       *)
THEOREM Mappings == Spec => []MappingMatchesRegistry
<1>1. IInv => MappingMatchesRegistry  BY DEF IInv, RegistryCore
<1> QED  BY <1>1, Invariance, PTL

(* Focus never dangles (sync_outputs_with_workspace_state).                *)
THEOREM Focus == Spec => []FocusIsRegistered
<1>1. IInv => FocusIsRegistered  BY DEF IInv, RegistryCore
<1> QED  BY <1>1, Invariance, PTL

-----------------------------------------------------------------------------
(* What a step never does. *)

(* An id is never handed out twice over the life of the compositor.        *)
THEOREM FreshIds == Spec => IdsNeverReused
<1> DEFINE Fresh == /\ nextId' >= nextId
                    /\ \A id \in Ids(registry') \ Ids(registry) : id \in nextId+1..nextId'
<1>1. IInv /\ [Next]_vars => Fresh
  <2> SUFFICES ASSUME IInv, HandlerMove \/ InputMove PROVE Fresh
    BY Moves
  <2> USE DEF IInv
  <2>0. nextId \in Nat /\ registry \in Seq(Entry) /\ Identity(registry, nextId)
    BY DEF RegistryCore, RegistryIdentity, Identity
  <2>1. CASE Registers
    <3>1. PICK name \in Nat, resolved \in Seq(ResolvedRec) : RegisterOutput(name, resolved)
      BY <2>1 DEF Registers
    <3> DEFINE up == Upsert(registry, nextId, name)
               next == NextIdAfter(registry, nextId, name)
    <3>2. /\ up \in Seq(Entry) /\ next \in Nat /\ next >= nextId
          /\ Ids(up) \ Ids(registry) \subseteq nextId+1..next
      BY <2>0, UpsertEntry
    <3>3. registry' = SyncPrimaryFlags(up, resolved) /\ nextId' = next
      BY <3>1 DEF RegisterOutput
    <3> HIDE DEF up, next
    <3>4. Ids(registry') = Ids(up)
      BY <3>2, <3>3, SyncPrimaryFlagsEntry, SameOutputsKeep
    <3> QED  BY <3>2, <3>3, <3>4
  <2>2. CASE Unregisters /\ globalActive' = globalActive
    <3>1. PICK pos \in 1..Len(registry) : UnregisterOutput(pos)
      BY <2>2 DEF Unregisters
    <3>2. Ids(registry') \subseteq Ids(registry)
      BY <2>2, <3>1, UnregisterKeepsCore
    <3> QED  BY <2>0, <3>1, <3>2 DEF UnregisterOutput
  <2>3. CASE SetsFlags
    BY <2>0, <2>3, SameOutputsKeep DEF SetsFlags
  <2>4. CASE Synchronises \/ InputMove
    BY <2>0, <2>4 DEF Synchronises, InputMove, FocusOutput, SwitchWorkspace, registered
  <2> QED  BY <2>1, <2>2, <2>3, <2>4 DEF HandlerMove
<1>2. [][Fresh]_vars => IdsNeverReused  BY PTL DEF IdsNeverReused
<1> QED  BY <1>1, <1>2, Invariance, PTL DEF Spec

(* A handler never changes the workspace of an output that stays.          *)
THEOREM Stability == Spec => MappingStable
<1> DEFINE Stable == work # <<>> =>
              \A id \in DOMAIN mapping \cap DOMAIN mapping' : mapping'[id] = mapping[id]
<1>1. IInv /\ [Next]_vars => Stable
  <2> SUFFICES ASSUME IInv, HandlerMove \/ InputMove, work # <<>> PROVE Stable
    BY Moves
  <2>1. CASE SetsFlags  BY <2>1 DEF SetsFlags, workspaceState
  <2>2. CASE mapping' = SyncedMapping(registry', mapping, globalActive)
    BY <2>2 DEF SyncedMapping
  <2> QED  BY <2>1, <2>2 DEF HandlerMove, InputMove, Registers, RegisterOutput,
              Unregisters, UnregisterOutput, Synchronises, SyncWorkspaceState,
              FocusOutput, SwitchWorkspace, Idle
<1> QED  BY <1>1, Invariance, PTL DEF Spec, MappingStable

(* No handler moves the focus off an output that stays in the registry.    *)
THEOREM SteadyFocus == Spec => FocusStable
<1> DEFINE Steady == focused' # focused =>
              \/ focused \notin Ids(registry')
              \/ Idle /\ registry' = registry /\ focused' \in Ids(registry)
<1>1. IInv /\ [Next]_vars => Steady
  <2> SUFFICES ASSUME IInv, HandlerMove \/ InputMove PROVE Steady
    BY Moves
  <2>0. nextId \in Nat /\ registry \in Seq(Entry) /\ Identity(registry, nextId)
    BY DEF IInv, RegistryCore, RegistryIdentity, Identity
  <2>1. CASE Registers
    <3>1. PICK name \in Nat, resolved \in Seq(ResolvedRec) : RegisterOutput(name, resolved)
      BY <2>1 DEF Registers
    <3> DEFINE up == Upsert(registry, nextId, name)
    <3>2. up \in Seq(Entry)  BY <2>0, UpsertEntry
    <3>3. registry' = SyncPrimaryFlags(up, resolved) /\ focused' = SyncedFocus(up, focused)
      BY <3>1 DEF RegisterOutput
    <3> HIDE DEF up
    <3>4. Ids(registry') = Ids(up)
      BY <3>2, <3>3, SyncPrimaryFlagsEntry, SameOutputsKeep
    <3> QED  BY <3>3, <3>4 DEF SyncedFocus
  <2>2. CASE Unregisters \/ Synchronises
    BY <2>2 DEF Unregisters, UnregisterOutput, Synchronises, SyncWorkspaceState, SyncedFocus
  <2>3. CASE SetsFlags
    BY <2>3 DEF SetsFlags, workspaceState
  <2>4. CASE InputMove
    BY <2>4 DEF InputMove, FocusOutput, SwitchWorkspace, registered
  <2> QED  BY <2>1, <2>2, <2>3, <2>4 DEF HandlerMove
<1> QED  BY <1>1, Invariance, PTL DEF Spec, FocusStable
-----------------------------------------------------------------------------
(* Which connectors are tracked, and what the queued handlers will do to   *)
(* them.                                                                   *)

(* The ids of a registry with their names. *)
Pairs(reg) == {[id |-> reg[i].id, name |-> reg[i].name] : i \in 1..Len(reg)}

Tracked ==
    /\ ConnectorTrackedOnce
    /\ \A d, e \in disabled : d.conn = e.conn => d = e

(* The work list belongs to one callback: start-up, a scan or a reload. *)
OneCallback ==
    \E ops \in {{"boot", "primaries"}, {"add", "remove"}, {"apply", "sync"}} :
        \A i \in 1..Len(work) : work[i].op \in ops

BootWork ==
    \A i \in 1..Len(work) : work[i].op = "boot" =>
        /\ work[i].conn \notin KnownConnectors
        /\ \A j \in 1..Len(work) :
              work[j].op = "boot" /\ work[j].conn = work[i].conn => i = j

(* Additions come first, of connectors that are neither known nor about to *)
(* be removed, and while they run the ids looked up for the removals are   *)
(* still registered.                                                       *)
AddWork ==
    \A i \in 1..Len(work) : work[i].op = "add" =>
        /\ i = 1
        /\ work[i].conns \cap KnownConnectors = {}
        /\ \A j \in 1..Len(work) : work[j].op = "remove" =>
              /\ work[j].conn \notin work[i].conns
              /\ work[j].id # NoOutput => work[j].id \in Ids(registry)

(* An id looked up by the scan still goes with the name of the output that *)
(* is to be removed, if it goes with any.                                  *)
RemoveWork ==
    \A i \in 1..Len(work) : work[i].op = "remove" /\ work[i].id # NoOutput =>
        /\ work[i].id <= nextId
        /\ \A p \in 1..Len(drm) : drm[p].conn = work[i].conn =>
              \A e \in Pairs(registry) : e.id = work[i].id <=> e.name = drm[p].name

Queue == OneCallback /\ BootWork /\ AddWork /\ RemoveWork

TInv == IInv /\ Tracked /\ Queue /\ RegisteredIsDriven

-----------------------------------------------------------------------------
(* The registry's pairs. *)

LEMMA SamePairs ==
    ASSUME NEW r, NEW s, SameOutputs(r, s) PROVE Pairs(r) = Pairs(s)
BY DEF SameOutputs, Pairs

LEMMA PairsOfEntries ==
    ASSUME NEW reg
    PROVE  /\ \A e \in Pairs(reg) : e.id \in Ids(reg) /\ e.name \in Names(reg)
           /\ \A id \in Ids(reg) : \E e \in Pairs(reg) : e.id = id
           /\ \A n \in Names(reg) : \E e \in Pairs(reg) : e.name = n
<1> DEFINE pair(i) == [id |-> reg[i].id, name |-> reg[i].name]
<1>1. \A i : pair(i).id = reg[i].id /\ pair(i).name = reg[i].name  OBVIOUS
<1>2. \A i \in 1..Len(reg) : pair(i) \in Pairs(reg)  BY DEF Pairs
<1>3. \A e \in Pairs(reg) : \E i \in 1..Len(reg) : e = pair(i)  BY DEF Pairs
<1> HIDE DEF pair
<1>4. \A e \in Pairs(reg) : e.id \in Ids(reg) /\ e.name \in Names(reg)
  BY <1>1, <1>3 DEF Ids, Names
<1>5. \A id \in Ids(reg) : \E e \in Pairs(reg) : e.id = id  BY <1>1, <1>2 DEF Ids
<1>6. \A n \in Names(reg) : \E e \in Pairs(reg) : e.name = n  BY <1>1, <1>2 DEF Names
<1> QED  BY <1>4, <1>5, <1>6

LEMMA DistinctPairs ==
    ASSUME RegistryCore, NEW d \in Pairs(registry), NEW e \in Pairs(registry),
           d.id = e.id \/ d.name = e.name
    PROVE  d = e
<1>1. PICK i \in 1..Len(registry) : d = [id |-> registry[i].id, name |-> registry[i].name]  BY DEF Pairs
<1>2. PICK j \in 1..Len(registry) : e = [id |-> registry[j].id, name |-> registry[j].name]  BY DEF Pairs
<1>3. i = j  BY <1>1, <1>2 DEF RegistryCore, RegistryIdentity
<1> QED  BY <1>1, <1>2, <1>3

(* A registration adds no pair but that of an unknown name under a new id. *)
LEMMA RegisterPairs ==
    ASSUME RegistryCore, NEW name \in Nat, NEW resolved \in Seq(ResolvedRec),
           RegisterOutput(name, resolved)
    PROVE  /\ nextId' \in Nat /\ nextId' >= nextId
           /\ Ids(registry) \subseteq Ids(registry')
           /\ \A e \in Pairs(registry') :
                 \/ e \in Pairs(registry)
                 \/ e = [id |-> nextId + 1, name |-> name] /\ name \notin Names(registry)
<1> DEFINE up == Upsert(registry, nextId, name)
           next == NextIdAfter(registry, nextId, name)
<1>1. /\ up \in Seq(Entry) /\ next \in Nat /\ next >= nextId
      /\ Ids(registry) \subseteq Ids(up)
  BY UpsertEntry DEF RegistryCore, RegistryIdentity, Identity
<1>2. registry' = SyncPrimaryFlags(up, resolved) /\ nextId' = next
  BY DEF RegisterOutput
<1>3. \A e \in Pairs(up) : \/ e \in Pairs(registry)
                           \/ e = [id |-> nextId + 1, name |-> name] /\ name \notin Names(registry)
  <2>1. CASE name \in Names(registry)  BY <2>1 DEF Upsert
  <2>2. CASE name \notin Names(registry)
    <3> DEFINE new == [id |-> nextId + 1, name |-> name, primary |-> registry = <<>>]
    <3>1. up = Append(registry, new)  BY <2>2 DEF Upsert
    <3>2. /\ Len(up) = Len(registry) + 1 /\ Len(registry) \in Nat
          /\ \A i \in 1..Len(registry) : up[i] = registry[i]
          /\ up[Len(registry) + 1] = new
      BY <3>1, AppendProperties DEF RegistryCore
    <3>3. new.id = nextId + 1 /\ new.name = name  OBVIOUS
    <3> HIDE DEF new, up
    <3>4. SUFFICES ASSUME NEW i \in 1..Len(up)
                   PROVE  \/ [id |-> up[i].id, name |-> up[i].name] \in Pairs(registry)
                          \/ up[i].id = nextId + 1 /\ up[i].name = name
      BY <2>2 DEF Pairs
    <3>5. CASE i \in 1..Len(registry)  BY <3>2, <3>5 DEF Pairs
    <3>6. CASE i = Len(registry) + 1  BY <3>2, <3>3, <3>6
    <3> QED  BY <3>2, <3>5, <3>6
  <2> QED  BY <2>1, <2>2
<1> HIDE DEF up, next
<1>4. registry' \in Seq(Entry) /\ SameOutputs(registry', up)
  BY <1>1, <1>2, SyncPrimaryFlagsEntry
<1>5. Ids(registry') = Ids(up) /\ Pairs(registry') = Pairs(up)
  BY <1>1, <1>4, SameOutputsKeep, SamePairs
<1> QED  BY <1>1, <1>2, <1>3, <1>5

(* What stays of a sequence from which one element is removed. *)
LEMMA RemoveAtSplits ==
    ASSUME NEW S, NEW s \in Seq(S), NEW pos \in 1..Len(s)
    PROVE  /\ RemoveAt(s, pos) \in Seq(S)
           /\ \A i \in 1..Len(RemoveAt(s, pos)) :
                 \E j \in 1..Len(s) \ {pos} : RemoveAt(s, pos)[i] = s[j]
           /\ \A j \in 1..Len(s) \ {pos} :
                 \E i \in 1..Len(RemoveAt(s, pos)) : RemoveAt(s, pos)[i] = s[j]
<1> DEFINE r == RemoveAt(s, pos)
           at(i) == IF i < pos THEN i ELSE i + 1
<1>1. /\ r \in Seq(S) /\ Len(r) = Len(s) - 1 /\ Len(s) \in Nat
      /\ \A i \in 1..Len(s)-1 : r[i] = IF i < pos THEN s[i] ELSE s[i + 1]
  BY RemoveAtProperties
<1> HIDE DEF r
<1>2. \A i \in 1..Len(r) : at(i) \in 1..Len(s) \ {pos} /\ r[i] = s[at(i)]  BY <1>1
<1>4. ASSUME NEW j \in 1..Len(s) \ {pos} PROVE \E i \in 1..Len(r) : r[i] = s[j]
  <2>1. CASE j < pos
    <3>1. j \in 1..Len(r) /\ at(j) = j  BY <1>1, <2>1
    <3> QED  BY <1>2, <3>1
  <2>2. CASE j > pos
    <3>1. j - 1 \in 1..Len(r) /\ at(j - 1) = j  BY <1>1, <2>2
    <3> QED  BY <1>2, <3>1
  <2> QED  BY <1>1, <2>1, <2>2
<1> HIDE DEF at
<1>5. \A i \in 1..Len(r) : \E j \in 1..Len(s) \ {pos} : r[i] = s[j]  BY <1>2
<1> QED  BY <1>1, <1>4, <1>5 DEF r

LEMMA RemoveAtMember ==
    ASSUME NEW S, NEW s \in Seq(S), NEW pos \in 1..Len(s), NEW i \in 1..Len(RemoveAt(s, pos))
    PROVE  \E j \in 1..Len(s) \ {pos} : RemoveAt(s, pos)[i] = s[j]
<1> DEFINE k == IF i < pos THEN i ELSE i + 1
<1>1. /\ i \in 1..Len(s)-1 /\ Len(s) \in Nat
      /\ RemoveAt(s, pos)[i] = IF i < pos THEN s[i] ELSE s[i + 1]
  BY RemoveAtProperties
<1>2. k \in 1..Len(s) \ {pos} /\ RemoveAt(s, pos)[i] = s[k]  BY <1>1
<1> QED  BY <1>2

LEMMA RemoveAtDistinct ==
    ASSUME NEW S, NEW s \in Seq(S), NEW pos \in 1..Len(s),
           \A i, j \in 1..Len(s) : i # j => s[i].conn # s[j].conn
    PROVE  \A i, j \in 1..Len(RemoveAt(s, pos)) :
              i # j => RemoveAt(s, pos)[i].conn # RemoveAt(s, pos)[j].conn
<1> DEFINE r == RemoveAt(s, pos)
           at(i) == IF i < pos THEN i ELSE i + 1
<1>1. /\ Len(r) = Len(s) - 1 /\ Len(s) \in Nat
      /\ \A i \in 1..Len(s)-1 : r[i] = IF i < pos THEN s[i] ELSE s[i + 1]
  BY RemoveAtProperties
<1> HIDE DEF r
<1>2. \A i \in 1..Len(r) : at(i) \in 1..Len(s) /\ r[i] = s[at(i)]  BY <1>1
<1>3. \A i, j \in 1..Len(r) : i # j => at(i) # at(j)  BY <1>1
<1> HIDE DEF at
<1>4. ASSUME NEW i \in 1..Len(r), NEW j \in 1..Len(r), i # j PROVE r[i].conn # r[j].conn
  BY <1>2, <1>3, <1>4
<1> QED  BY <1>4 DEF r

(* A removal takes the pair of its entry away and adds none. *)
LEMMA UnregisterPairs ==
    ASSUME RegistryCore, NEW pos \in 1..Len(registry),
           UnregisterOutput(pos), globalActive' = globalActive
    PROVE  /\ nextId' = nextId
           /\ Pairs(registry') \subseteq Pairs(registry)
           /\ \A e \in Pairs(registry') : e.id # registry[pos].id /\ e.name # registry[pos].name
<1>1. nextId' = nextId /\ registry' = RemoveEntry(registry, pos)  BY DEF UnregisterOutput
<1>2. Ids(registry') = Ids(registry) \ {registry[pos].id}  BY UnregisterKeepsCore
<1> DEFINE r == RemoveAt(registry, pos)
<1>3. /\ r \in Seq(Entry)
      /\ \A i \in 1..Len(r) : \E j \in 1..Len(registry) \ {pos} : r[i] = registry[j]
  <2>1. registry \in Seq(Entry)  BY DEF RegistryCore
  <2>2. r \in Seq(Entry)  BY <2>1, RemoveAtProperties
  <2>3. \A i \in 1..Len(RemoveAt(registry, pos)) :
           \E j \in 1..Len(registry) \ {pos} : RemoveAt(registry, pos)[i] = registry[j]
    <3> SUFFICES ASSUME NEW i \in 1..Len(RemoveAt(registry, pos))
                 PROVE  \E j \in 1..Len(registry) \ {pos} :
                           RemoveAt(registry, pos)[i] = registry[j]
      OBVIOUS
    <3> HIDE DEF r
    <3>1. RemoveAt(registry, pos) \in Seq(Entry)  BY <2>1, RemoveAtProperties
    <3> QED  BY <2>1, RemoveAtMember
  <2> QED  BY <2>2, <2>3
<1>4. registry' = EnsurePrimary(r)  BY <1>1 DEF RemoveEntry
<1> HIDE DEF r
<1>5. Pairs(registry') = Pairs(r)  BY <1>3, <1>4, EnsurePrimaryEntry, SamePairs
<1>6. Pairs(r) \subseteq Pairs(registry)  BY <1>3 DEF Pairs
<1>7. [id |-> registry[pos].id, name |-> registry[pos].name] \in Pairs(registry)  BY DEF Pairs
<1>8. \A e \in Pairs(registry') : e.id # registry[pos].id  BY <1>2, PairsOfEntries
<1>9. \A e \in Pairs(registry') : e.name # registry[pos].name
  BY <1>5, <1>6, <1>7, <1>8, DistinctPairs
<1> QED  BY <1>1, <1>5, <1>6, <1>8, <1>9

-----------------------------------------------------------------------------
(* The tracked connectors. *)

LEMMA Pushed ==
    ASSUME drm \in Seq(DrmRec), NEW c, NEW crtc, NEW name, PushOutput(c, crtc, name)
    PROVE  /\ Len(drm) \in Nat /\ Len(drm') = Len(drm) + 1
           /\ \A j \in 1..Len(drm) : drm'[j] = drm[j]
           /\ drm'[Len(drm) + 1].conn = c /\ drm'[Len(drm) + 1].name = name
<1> DEFINE d == [conn |-> c, crtc |-> crtc, name |-> name, id |-> IdOfName(registry', name)]
<1>1. drm' = Append(drm, d)  BY DEF PushOutput
<1>2. d.conn = c /\ d.name = name  OBVIOUS
<1> HIDE DEF d
<1>3. /\ Len(drm') = Len(drm) + 1 /\ Len(drm) \in Nat
      /\ \A j \in 1..Len(drm) : drm'[j] = drm[j]
      /\ drm'[Len(drm) + 1] = d
  BY <1>1, AppendProperties
<1> QED  BY <1>2, <1>3

(* A connector that nothing else tracks gets a DRM output. *)
LEMMA ArrivesDriven ==
    ASSUME BackendTyped, Tracked, NEW c, NEW crtc, NEW name, PushOutput(c, crtc, name),
           disabled' \subseteq disabled, \A d \in disabled' : d.conn # c,
           \A i \in 1..Len(drm) : drm[i].conn # c
    PROVE  Tracked' /\ KnownConnectors' \subseteq KnownConnectors \cup {c}
<1> DEFINE n == Len(drm)
<1>1. /\ n \in Nat /\ Len(drm') = n + 1
      /\ \A j \in 1..n : drm'[j] = drm[j]
      /\ drm'[n + 1].conn = c
  BY Pushed DEF BackendTyped
<1>2. \A i \in 1..Len(drm') : \/ i \in 1..n /\ drm'[i] = drm[i]
                              \/ i = n + 1 /\ drm'[i].conn = c
  BY <1>1
<1> HIDE DEF n
<1>3. ASSUME NEW i \in 1..Len(drm'), NEW j \in 1..Len(drm'), i # j
      PROVE  drm'[i].conn # drm'[j].conn
  <2>1. CASE i \in 1..n /\ drm'[i] = drm[i] /\ j \in 1..n /\ drm'[j] = drm[j]
    BY <1>3, <2>1 DEF Tracked, ConnectorTrackedOnce, n
  <2>2. CASE i = n + 1 /\ drm'[i].conn = c /\ j \in 1..n /\ drm'[j] = drm[j]
    BY <2>2 DEF n
  <2>3. CASE i \in 1..n /\ drm'[i] = drm[i] /\ j = n + 1 /\ drm'[j].conn = c
    BY <2>3 DEF n
  <2> QED  BY <1>2, <1>3, <2>1, <2>2, <2>3
<1>4. \A i \in 1..Len(drm') : \A d \in disabled' : d.conn # drm'[i].conn
  BY <1>2 DEF Tracked, ConnectorTrackedOnce, n
<1>5. KnownConnectors' \subseteq KnownConnectors \cup {c}
  BY <1>2 DEF KnownConnectors, n
<1> QED  BY <1>3, <1>4, <1>5 DEF Tracked, ConnectorTrackedOnce

(* A connector that nothing else tracks is kept as disabled. *)
LEMMA ArrivesDisabled ==
    ASSUME Tracked, NEW r, r.conn \notin KnownConnectors,
           disabled' \subseteq disabled \cup {r}, UNCHANGED drm
    PROVE  Tracked' /\ KnownConnectors' \subseteq KnownConnectors \cup {r.conn}
BY DEF Tracked, ConnectorTrackedOnce, KnownConnectors

(* A DRM output goes; its connector may be kept as disabled. *)
LEMMA Leaves ==
    ASSUME BackendTyped, Tracked, NEW pos \in 1..Len(drm), drm' = RemoveAt(drm, pos),
           NEW r, r.conn = drm[pos].conn, disabled' \subseteq disabled \cup {r}
    PROVE  Tracked' /\ KnownConnectors' \subseteq KnownConnectors
<1>1. drm \in Seq(DrmRec)  BY DEF BackendTyped
<1>2. \A i \in 1..Len(drm') : \E j \in 1..Len(drm) \ {pos} : drm'[i] = drm[j]
  BY <1>1, RemoveAtSplits
<1>3. \A i, j \in 1..Len(drm') : i # j => drm'[i].conn # drm'[j].conn
  BY <1>1, RemoveAtDistinct DEF Tracked, ConnectorTrackedOnce
<1>4. \A i \in 1..Len(drm') : \A d \in disabled' : d.conn # drm'[i].conn
  BY <1>2 DEF Tracked, ConnectorTrackedOnce
<1>5. \A d, e \in disabled' : d.conn = e.conn => d = e
  BY DEF Tracked, ConnectorTrackedOnce
<1>6. KnownConnectors' \subseteq KnownConnectors
  BY <1>2 DEF KnownConnectors
<1> QED  BY <1>3, <1>4, <1>5, <1>6 DEF Tracked, ConnectorTrackedOnce

LEMMA FirstOfWork ==
    ASSUME work \in Seq(Step), work # <<>>
    PROVE  /\ Head(work) = work[1] /\ 1 \in 1..Len(work)
           /\ Len(work) \in Nat /\ Len(Tail(work)) = Len(work) - 1
           /\ \A i \in 1..Len(work)-1 : Tail(work)[i] = work[i + 1]
BY HeadTailProperties, EmptySeq

(* Every step keeps each connector tracked once, and tracks no connector   *)
(* but the one a start-up or a scan found.                                 *)
Arrivals ==
    \/ KnownConnectors' \subseteq KnownConnectors
    \/ BootOutput /\ KnownConnectors' \subseteq KnownConnectors \cup {Head(work).conn}
    \/ \E c \in Connectors :
          AddOutput(c) /\ KnownConnectors' \subseteq KnownConnectors \cup {c}

LEMMA AddTracked ==
    ASSUME TInv, NEW c \in Connectors, AddOutput(c)
    PROVE  Tracked' /\ KnownConnectors' \subseteq KnownConnectors \cup {c}
<1> USE DEF TInv, IInv, Queue
<1>w. work \in Seq(Step)  BY DEF BackendTyped
<1>1. /\ work # <<>> /\ Head(work).op = "add" /\ c \in Head(work).conns
  BY DEF AddOutput, Running
<1>2. c \notin KnownConnectors
  BY <1>w, <1>1, FirstOfWork DEF AddWork
<1> DEFINE name == GeneratedName
           crtc == Min(FreeCrtcs)
           resolved == Resolve(Append(NamesOf(registry), name), config)
           on == resolved[SelectInSeq(resolved, LAMBDA r : r.name = name)].enabled
<1>3. CASE on
  <2>1. PushOutput(c, crtc, name) /\ disabled' = disabled
    BY <1>3 DEF AddOutput
  <2>2. /\ \A d \in disabled' : d.conn # c
        /\ \A i \in 1..Len(drm) : drm[i].conn # c
    BY <1>2, <2>1 DEF KnownConnectors
  <2> HIDE DEF name, crtc
  <2> QED  BY <2>1, <2>2, ArrivesDriven
<1>4. CASE ~on
  <2> DEFINE r == [conn |-> c, crtc |-> crtc, name |-> name]
  <2>1. disabled' = Stored(r) /\ UNCHANGED drm  BY <1>4 DEF AddOutput
  <2>2. r.conn = c  OBVIOUS
  <2> HIDE DEF r
  <2>3. disabled' \subseteq disabled \cup {r}  BY <2>1 DEF Stored
  <2> QED  BY <1>2, <2>1, <2>2, <2>3, ArrivesDisabled
<1> QED  BY <1>3, <1>4

LEMMA TrackedStep == TInv /\ [Next]_vars => Tracked' /\ Arrivals
<1> SUFFICES ASSUME TInv, [Next]_vars PROVE Tracked' /\ Arrivals
  OBVIOUS
<1> USE DEF TInv, IInv, Queue
<1>w. work \in Seq(Step)  BY DEF BackendTyped
<1>0. ASSUME UNCHANGED drm, disabled' \subseteq disabled PROVE Tracked' /\ Arrivals
  BY <1>0 DEF Tracked, ConnectorTrackedOnce, Arrivals, KnownConnectors
<1>1. CASE BootOutput
  <2>1. work # <<>> /\ Head(work).op = "boot"  BY <1>1 DEF BootOutput, Running
  <2>2. Head(work).conn \notin KnownConnectors
    BY <1>w, <2>1, FirstOfWork DEF BootWork
  <2>3. CASE Head(work).enabled
    <3>1. /\ PushOutput(Head(work).conn, Head(work).crtc, Head(work).name)
          /\ disabled' = disabled
      BY <1>1, <2>3 DEF BootOutput
    <3>2. /\ \A d \in disabled' : d.conn # Head(work).conn
          /\ \A i \in 1..Len(drm) : drm[i].conn # Head(work).conn
      BY <2>2, <3>1 DEF KnownConnectors
    <3> QED  BY <1>1, <3>1, <3>2, ArrivesDriven DEF Arrivals
  <2>4. CASE ~Head(work).enabled
    <3> DEFINE r == [conn |-> Head(work).conn, crtc |-> Head(work).crtc,
                     name |-> Head(work).name]
    <3>1. disabled' = disabled \cup {r} /\ UNCHANGED drm  BY <1>1, <2>4 DEF BootOutput
    <3>2. r.conn = Head(work).conn  OBVIOUS
    <3> HIDE DEF r
    <3> QED  BY <1>1, <2>2, <3>1, <3>2, ArrivesDisabled DEF Arrivals
  <2> QED  BY <2>3, <2>4
<1>2. ASSUME NEW c \in Connectors, AddOutput(c) PROVE Tracked' /\ Arrivals
  BY <1>2, AddTracked DEF Arrivals
<1>3. CASE RemoveOutput
  <2> DEFINE pos == DrmPositionOfConnector(Head(work).conn)
  <2>1. pos # 0 /\ drm' = RemoveAt(drm, pos) /\ UNCHANGED disabled
    BY <1>3 DEF RemoveOutput
  <2>2. pos \in 1..Len(drm)  BY <2>1, DrmPositions DEF BackendTyped
  <2>3. disabled' \subseteq disabled \cup {drm[pos]}  BY <2>1
  <2> HIDE DEF pos
  <2> QED  BY <2>1, <2>2, <2>3, Leaves DEF Arrivals
<1>4. CASE RemoveDisabled
  <2>1. UNCHANGED drm /\ disabled' \subseteq disabled  BY <1>4 DEF RemoveDisabled
  <2> QED  BY <1>0, <2>1
<1>5. CASE ApplyDisable
  <2> DEFINE name == Head(work).name
             pos == DrmPositionOfName(name)
             r == [conn |-> drm[pos].conn, crtc |-> drm[pos].crtc, name |-> name]
  <2>1. CASE pos = 0
    BY <1>0, <1>5, <2>1 DEF ApplyDisable, backend
  <2>2. CASE pos # 0
    <3>1. drm' = RemoveAt(drm, pos) /\ disabled' = Stored(r)
      BY <1>5, <2>2 DEF ApplyDisable
    <3>2. pos \in 1..Len(drm)  BY <2>2, DrmPositions DEF BackendTyped
    <3>3. r.conn = drm[pos].conn  OBVIOUS
    <3> HIDE DEF r, pos
    <3>4. disabled' \subseteq disabled \cup {r}  BY <3>1 DEF Stored
    <3> QED  BY <3>1, <3>2, <3>3, <3>4, Leaves DEF Arrivals
  <2> QED  BY <2>1, <2>2
<1>6. CASE ApplyEnable
  <2>1. PICK d \in disabled : /\ disabled' = disabled \ {d}
                              /\ PushOutput(d.conn, d.crtc, d.name)
    BY <1>6 DEF ApplyEnable
  <2>2. /\ \A e \in disabled' : e.conn # d.conn
        /\ \A i \in 1..Len(drm) : drm[i].conn # d.conn
    BY <2>1 DEF Tracked, ConnectorTrackedOnce
  <2>3. Tracked' /\ KnownConnectors' \subseteq KnownConnectors \cup {d.conn}
    BY <2>1, <2>2, ArrivesDriven
  <2>4. d.conn \in KnownConnectors  BY DEF KnownConnectors
  <2> QED  BY <2>3, <2>4 DEF Arrivals
<1>7. CASE \/ BootPrimaries \/ \E c \in Connectors : Plug(c) \/ Unplug(c)
           \/ ScanConnectors \/ \E c \in Connectors : AddOutputSkipped(c)
           \/ \E cfg \in Configs : ReloadConfig(cfg)
           \/ ApplyPrimary \/ ApplyEnableSkipped \/ FinishReload
           \/ \E id \in 1..nextId : FocusOutput(id)
           \/ \E ws \in Workspaces : SwitchWorkspace(ws)
           \/ UNCHANGED vars
  <2>1. drm' = drm /\ disabled' = disabled
    BY <1>7 DEF BootPrimaries, Plug, Unplug, ScanConnectors, AddOutputSkipped, ReloadConfig,
       ApplyPrimary, ApplyEnableSkipped, FinishReload, FocusOutput, SwitchWorkspace, vars,
       backend
  <2> QED  BY <1>0, <2>1
<1> QED  BY <1>1, <1>2, <1>3, <1>4, <1>5, <1>6, <1>7 DEF Next
-----------------------------------------------------------------------------
(* The queue. *)

LEMMA IdOfNamePair ==
    ASSUME NEW reg \in Seq(Entry), NEW name, IdOfName(reg, name) # NoOutput
    PROVE  /\ name \in Names(reg)
           /\ \E e \in Pairs(reg) : e.id = IdOfName(reg, name) /\ e.name = name
<1>1. name \in Names(reg)  BY DEF IdOfName
<1> DEFINE pos == PositionOfName(reg, name)
<1>2. pos \in 1..Len(reg) /\ reg[pos].name = name  BY <1>1, FoundByName
<1>3. IdOfName(reg, name) = reg[pos].id  BY <1>1 DEF IdOfName
<1> HIDE DEF pos
<1>4. [id |-> reg[pos].id, name |-> reg[pos].name] \in Pairs(reg)  BY <1>2 DEF Pairs
<1> QED  BY <1>1, <1>2, <1>3, <1>4

(* A handler that is done leaves the queue in order. *)
LEMMA HeadDone ==
    ASSUME work \in Seq(Step), work # <<>>, OneCallback, BootWork, AddWork,
           work' = Tail(work), Arrivals
    PROVE  OneCallback' /\ BootWork' /\ AddWork'
<1> DEFINE n == Len(work)
<1>1. /\ n \in Nat /\ Len(work') = n - 1 /\ 1 \in 1..n /\ Head(work) = work[1]
      /\ \A i \in 1..Len(work') : i + 1 \in 1..n /\ work'[i] = work[i + 1]
  BY FirstOfWork
<1>2. OneCallback'  BY <1>1 DEF OneCallback
<1>3. AddWork'
  <2> SUFFICES ASSUME NEW i \in 1..Len(work'), work'[i].op = "add" PROVE FALSE
    BY DEF AddWork
  <2>1. i + 1 \in 1..n /\ work[i + 1].op = "add"  BY <1>1
  <2>2. i + 1 = 1  BY <2>1 DEF AddWork
  <2> QED  BY <1>1, <2>2
<1>4. ASSUME NEW i \in 1..Len(work'), work'[i].op = "boot"
      PROVE  work'[i].conn \notin KnownConnectors'
  <2>1. i + 1 \in 1..n /\ work[i + 1] = work'[i] /\ i + 1 # 1  BY <1>1
  <2>2. work'[i].conn \notin KnownConnectors  BY <1>4, <2>1 DEF BootWork
  <2>3. CASE KnownConnectors' \subseteq KnownConnectors  BY <2>2, <2>3
  <2>4. CASE BootOutput /\ KnownConnectors' \subseteq KnownConnectors \cup {Head(work).conn}
    <3>1. work[1].op = "boot"  BY <1>1, <2>4 DEF BootOutput, Running
    <3>2. work[1].conn # work'[i].conn  BY <1>1, <1>4, <2>1, <3>1 DEF BootWork
    <3> QED  BY <1>1, <2>2, <2>4, <3>2
  <2>5. ASSUME NEW c \in Connectors, AddOutput(c) PROVE FALSE
    <3>1. work[1].op = "add"  BY <1>1, <2>5 DEF AddOutput, Running
    <3>2. work[i + 1].op = "boot"  BY <1>4, <2>1
    <3>3. PICK ops \in {{"boot", "primaries"}, {"add", "remove"}, {"apply", "sync"}} :
             work[1].op \in ops /\ work[i + 1].op \in ops
      BY <1>1, <2>1 DEF OneCallback
    <3> QED  BY <3>1, <3>2, <3>3
  <2> QED  BY <2>3, <2>4, <2>5 DEF Arrivals
<1>5. ASSUME NEW i \in 1..Len(work'), NEW j \in 1..Len(work'), work'[i].op = "boot",
             work'[j].op = "boot", work'[j].conn = work'[i].conn
      PROVE  i = j
  <2>1. /\ i + 1 \in 1..n /\ work[i + 1] = work'[i]
        /\ j + 1 \in 1..n /\ work[j + 1] = work'[j]
    BY <1>1
  <2>2. i + 1 = j + 1  BY <1>5, <2>1 DEF BootWork
  <2> QED  BY <1>1, <2>2
<1> QED  BY <1>2, <1>3, <1>4, <1>5 DEF BootWork

(* One connector of an addition is done. *)
LEMMA AddDoneQueue ==
    ASSUME work \in Seq(Step), OneCallback, BootWork, AddWork,
           NEW c, Running("add"), c \in Head(work).conns, AddDone(c), Arrivals,
           KnownConnectors' \subseteq KnownConnectors \cup {c},
           Ids(registry) \subseteq Ids(registry')
    PROVE  /\ OneCallback' /\ BootWork' /\ AddWork'
           /\ \A i \in 1..Len(work') : work'[i].op = "remove" =>
                 \E j \in 1..Len(work) : work[j] = work'[i]
<1> DEFINE n == Len(work)
           rest == Head(work).conns \ {c}
           again == [op |-> "add", conns |-> rest]
<1>1. /\ work # <<>> /\ Head(work).op = "add" /\ Head(work) = work[1] /\ 1 \in 1..n
      /\ n \in Nat /\ Len(Tail(work)) = n - 1
      /\ \A i \in 1..n-1 : Tail(work)[i] = work[i + 1]
  BY FirstOfWork DEF Running
<1>2. CASE work' = Tail(work)
  <2>1. OneCallback' /\ BootWork' /\ AddWork'  BY <1>1, <1>2, HeadDone
  <2> QED  BY <1>1, <1>2, <2>1
<1>3. CASE work' = <<again>> \o Tail(work)
  <2>1. Tail(work) \in Seq(Step)  BY <1>1, HeadTailProperties
  <2> DEFINE t == Tail(work)
  <2>2. again.op = "add" /\ again.conns = rest  OBVIOUS
  <2> HIDE DEF again
  <2>3. /\ Len(work') = n /\ work'[1] = again
        /\ \A i \in 1..n : i # 1 => work'[i] = work[i]
    <3>1. /\ Len(<<again>> \o t) = 1 + (n - 1)
          /\ \A i \in 1..n : (<<again>> \o t)[i] = IF i <= 1 THEN <<again>>[i] ELSE t[i - 1]
      BY <1>1, <2>1
    <3> HIDE DEF t
    <3>2. \A i \in 1..n : i # 1 => t[i - 1] = work[i]
      <4> SUFFICES ASSUME NEW i \in 1..n, i # 1 PROVE t[i - 1] = work[i]  OBVIOUS
      <4>1. i - 1 \in 1..n-1 /\ (i - 1) + 1 = i  BY <1>1
      <4> QED  BY <1>1, <4>1 DEF t
    <3> QED  BY <1>1, <1>3, <3>1, <3>2 DEF t
  <2>4. \A i \in 1..n : work'[i].op = work[i].op  BY <1>1, <2>2, <2>3
  <2>5. OneCallback'  BY <2>3, <2>4 DEF OneCallback
  <2>6. \A i \in 1..n : work[i].op # "boot"
    <3> SUFFICES ASSUME NEW i \in 1..n, work[i].op = "boot" PROVE FALSE  OBVIOUS
    <3>1. PICK ops \in {{"boot", "primaries"}, {"add", "remove"}, {"apply", "sync"}} :
             work[1].op \in ops /\ work[i].op \in ops
      BY <1>1 DEF OneCallback
    <3> QED  BY <1>1, <3>1
  <2>7. BootWork'  BY <2>3, <2>4, <2>6 DEF BootWork
  <2>8. AddWork'
    <3> SUFFICES ASSUME NEW i \in 1..n, work'[i].op = "add"
                 PROVE  /\ i = 1
                        /\ work'[i].conns \cap KnownConnectors' = {}
                        /\ \A j \in 1..n : work'[j].op = "remove" =>
                              /\ work'[j].conn \notin work'[i].conns
                              /\ work'[j].id # NoOutput => work'[j].id \in Ids(registry')
      BY <2>3 DEF AddWork
    <3>1. i = 1  BY <2>4 DEF AddWork
    <3>2. work'[i].conns = rest /\ rest \subseteq work[1].conns /\ c \notin rest
      BY <1>1, <2>2, <2>3, <3>1
    <3>3. work[1].conns \cap KnownConnectors = {}  BY <1>1 DEF AddWork
    <3>4. ASSUME NEW j \in 1..n, work'[j].op = "remove"
          PROVE  /\ work'[j].conn \notin rest
                 /\ work'[j].id # NoOutput => work'[j].id \in Ids(registry')
      <4>1. work'[j] = work[j]  BY <2>2, <2>3, <3>4
      <4>2. /\ work[j].conn \notin work[1].conns
            /\ work[j].id # NoOutput => work[j].id \in Ids(registry)
        BY <1>1, <3>4, <4>1 DEF AddWork
      <4> QED  BY <3>2, <4>1, <4>2
    <3> QED  BY <3>1, <3>2, <3>3, <3>4
  <2>9. \A i \in 1..Len(work') : work'[i].op = "remove" =>
                 \E j \in 1..Len(work) : work[j] = work'[i]
    BY <2>2, <2>3
  <2> QED  BY <2>5, <2>7, <2>8, <2>9
<1> QED  BY <1>2, <1>3 DEF AddDone

(* Removals that stay queued keep what is known of their outputs, when the *)
(* registry and the DRM outputs only shrink.                               *)
LEMMA RemovalsShrink ==
    ASSUME RemoveWork, nextId \in Nat, nextId' \in Nat, nextId' >= nextId, work \in Seq(Step),
           \A i \in 1..Len(work') : work'[i].op = "remove" =>
              \E j \in 1..Len(work) : work[j] = work'[i],
           Pairs(registry') \subseteq Pairs(registry),
           \A p \in 1..Len(drm') : \E q \in 1..Len(drm) : drm'[p] = drm[q]
    PROVE  RemoveWork'
<1> SUFFICES ASSUME NEW i \in 1..Len(work'), work'[i].op = "remove", work'[i].id # NoOutput
             PROVE  /\ work'[i].id <= nextId'
                    /\ \A p \in 1..Len(drm') : drm'[p].conn = work'[i].conn =>
                          \A e \in Pairs(registry') : e.id = work'[i].id <=> e.name = drm'[p].name
  BY DEF RemoveWork
<1>1. PICK j \in 1..Len(work) : work[j] = work'[i]  OBVIOUS
<1>2. work[j].id \in Nat
  <2>1. work[j] \in Step  BY ElementOfSeq
  <2>2. work[j].op = "remove"  BY <1>1
  <2> QED  BY <2>1, <2>2 DEF Step
<1>3. work'[i].id <= nextId'  BY <1>1, <1>2 DEF RemoveWork
<1>4. ASSUME NEW p \in 1..Len(drm'), drm'[p].conn = work'[i].conn, NEW e \in Pairs(registry')
      PROVE  e.id = work'[i].id <=> e.name = drm'[p].name
  <2>1. PICK q \in 1..Len(drm) : drm'[p] = drm[q]  OBVIOUS
  <2>2. e \in Pairs(registry)  OBVIOUS
  <2>3. work[j].op = "remove" /\ work[j].id # NoOutput /\ drm[q].conn = work[j].conn
    BY <1>1, <1>4, <2>1
  <2>4. e.id = work[j].id <=> e.name = drm[q].name  BY <2>2, <2>3 DEF RemoveWork
  <2> QED  BY <1>1, <2>1, <2>4
<1> QED  BY <1>3, <1>4

(* The callbacks of start-up and of a reload remove nothing. *)
LEMMA NoRemovals ==
    ASSUME work \in Seq(Step), OneCallback, NEW op, Running(op), op \notin {"add", "remove"},
           work' = Tail(work)
    PROVE  RemoveWork'
<1>1. /\ Len(work) \in Nat /\ 1 \in 1..Len(work) /\ work[1].op = op
      /\ \A i \in 1..Len(work') : i + 1 \in 1..Len(work) /\ work'[i] = work[i + 1]
  BY FirstOfWork DEF Running
<1> SUFFICES ASSUME NEW i \in 1..Len(work'), work'[i].op = "remove" PROVE FALSE
  BY DEF RemoveWork
<1>2. PICK ops \in {{"boot", "primaries"}, {"add", "remove"}, {"apply", "sync"}} :
         work[1].op \in ops /\ work[i + 1].op \in ops
  BY <1>1 DEF OneCallback
<1>3. work[1].op = op /\ work[i + 1].op = "remove"  BY <1>1
<1> QED  BY <1>2, <1>3

(* A new output of an addition disturbs no removal behind it. *)
LEMMA AddedDisturbsNone ==
    ASSUME TInv, NEW c \in Connectors, AddOutput(c),
           NEW name \in Nat, NEW resolved \in Seq(ResolvedRec), NEW crtc,
           RegisterOutput(name, resolved), PushOutput(c, crtc, name),
           \A i \in 1..Len(work') : work'[i].op = "remove" =>
              \E j \in 1..Len(work) : work[j] = work'[i]
    PROVE  RemoveWork'
<1> USE DEF TInv, IInv, Queue
<1>1. /\ nextId' \in Nat /\ nextId' >= nextId /\ nextId \in Nat
      /\ \A e \in Pairs(registry') :
            \/ e \in Pairs(registry)
            \/ e = [id |-> nextId + 1, name |-> name] /\ name \notin Names(registry)
  BY RegisterPairs DEF RegistryCore
<1>2. /\ Len(drm) \in Nat /\ Len(drm') = Len(drm) + 1
      /\ \A j \in 1..Len(drm) : drm'[j] = drm[j]
      /\ drm'[Len(drm) + 1].conn = c
  BY Pushed DEF BackendTyped
<1>3. work \in Seq(Step) /\ work # <<>> /\ Head(work).op = "add" /\ c \in Head(work).conns
  BY DEF AddOutput, Running, BackendTyped
<1>4. 1 \in 1..Len(work) /\ Head(work) = work[1]  BY <1>3, FirstOfWork
<1> SUFFICES ASSUME NEW i \in 1..Len(work'), work'[i].op = "remove", work'[i].id # NoOutput
             PROVE  /\ work'[i].id <= nextId'
                    /\ \A p \in 1..Len(drm') : drm'[p].conn = work'[i].conn =>
                          \A e \in Pairs(registry') : e.id = work'[i].id <=> e.name = drm'[p].name
  BY DEF RemoveWork
<1>5. PICK j \in 1..Len(work) : work[j] = work'[i]  OBVIOUS
<1> DEFINE r == work[j]
<1>6. r = work'[i] /\ r.op = "remove" /\ r.id # NoOutput /\ r.id \in Nat /\ r.id <= nextId
  <2>1. work[j] \in Step  BY <1>3, ElementOfSeq
  <2>2. work[j].op = "remove" /\ work[j].id # NoOutput  BY <1>5
  <2>3. work[j].id \in Nat  BY <2>1, <2>2 DEF Step
  <2> QED  BY <1>5, <2>2, <2>3 DEF RemoveWork
<1>7. r.conn \notin work[1].conns /\ r.id \in Ids(registry)
  BY <1>3, <1>4, <1>6 DEF AddWork
<1>8. \A q \in 1..Len(drm) : drm[q].conn = r.conn =>
         \A e \in Pairs(registry) : e.id = r.id <=> e.name = drm[q].name
  BY <1>6 DEF RemoveWork
<1> HIDE DEF r
<1>9. ASSUME NEW p \in 1..Len(drm'), drm'[p].conn = r.conn, NEW e \in Pairs(registry')
      PROVE  e.id = r.id <=> e.name = drm'[p].name
  <2>1. p \in 1..Len(drm) /\ drm'[p] = drm[p]
    <3>1. p # Len(drm) + 1  BY <1>2, <1>3, <1>4, <1>7, <1>9
    <3> QED  BY <1>2, <3>1
  <2>2. CASE e \in Pairs(registry)  BY <1>8, <1>9, <2>1, <2>2
  <2>3. CASE e = [id |-> nextId + 1, name |-> name] /\ name \notin Names(registry)
    <3>1. e.id = nextId + 1 /\ e.name = name  BY <2>3
    <3>2. PICK d \in Pairs(registry) : d.id = r.id  BY <1>7, PairsOfEntries
    <3>3. d.name = drm[p].name /\ d.name \in Names(registry)
      BY <1>8, <1>9, <2>1, <3>2, PairsOfEntries
    <3>4. e.id # r.id  BY <1>1, <1>6, <3>1
    <3> QED  BY <2>1, <2>3, <3>1, <3>3, <3>4
  <2> QED  BY <1>1, <2>2, <2>3
<1> QED  BY <1>1, <1>6, <1>9

-----------------------------------------------------------------------------
(* What the callbacks queue. *)

LEMMA ConcatItem ==
    ASSUME NEW S, NEW T, NEW a \in Seq(S), NEW b \in Seq(T), NEW i \in 1..Len(a \o b)
    PROVE  \/ i \in 1..Len(a) /\ (a \o b)[i] = a[i]
           \/ \E j \in 1..Len(b) : (a \o b)[i] = b[j]
<1>1. /\ Len(a) \in Nat /\ Len(b) \in Nat /\ Len(a \o b) = Len(a) + Len(b)
      /\ (a \o b)[i] = IF i <= Len(a) THEN a[i] ELSE b[i - Len(a)]
  OBVIOUS
<1>2. CASE i <= Len(a)  BY <1>1, <1>2
<1>3. CASE i > Len(a)
  <2>1. i - Len(a) \in 1..Len(b)  BY <1>1, <1>3
  <2> QED  BY <1>1, <1>3, <2>1
<1> QED  BY <1>1, <1>2, <1>3

LEMMA ScanItems ==
    ASSUME IInv, ScanConnectors, NEW i \in 1..Len(work')
    PROVE  \/ i = 1 /\ work'[i] = [op |-> "add", conns |-> connected \ KnownConnectors]
           \/ \E p \in 1..Len(drm) :
                 /\ drm[p].conn \notin connected
                 /\ work'[i] = [op |-> "remove", conn |-> drm[p].conn,
                                id |-> IdOfName(registry, drm[p].name)]
           \/ \E x : x \notin connected /\ work'[i] = [op |-> "remove", conn |-> x, id |-> NoOutput]
<1> DEFINE added == connected \ KnownConnectors
           gone == {k \in 1..Len(drm) : drm[k].conn \notin connected}
           lost == {d.conn : d \in disabled} \ connected
           remove(conn, id) == [op |-> "remove", conn |-> conn, id |-> id]
           adding == IF added = {} THEN <<>> ELSE <<[op |-> "add", conns |-> added]>>
<1>1. PICK pos \in InOrder(gone), conns \in SetToSeqs(lost) :
        work' = adding
                \o [k \in 1..Len(pos) |->
                      remove(drm[pos[k]].conn, IdOfName(registry, drm[pos[k]].name))]
                \o [k \in 1..Len(conns) |-> remove(conns[k], NoOutput)]
  BY DEF ScanConnectors
<1> DEFINE first == [k \in 1..Len(pos) |->
                       remove(drm[pos[k]].conn, IdOfName(registry, drm[pos[k]].name))]
           second == [k \in 1..Len(conns) |-> remove(conns[k], NoOutput)]
           Item == {remove(drm[p].conn, IdOfName(registry, drm[p].name)) : p \in gone}
                   \cup {remove(x, NoOutput) : x \in lost}
<1>2. Len(pos) \in Nat /\ \A k \in 1..Len(pos) : pos[k] \in gone
  <2>1. Len(drm) \in Nat  BY DEF IInv, BackendTyped
  <2>2. pos \in Seq(gone) /\ Len(pos) \in Nat  BY <2>1, InOrderType
  <2> HIDE DEF gone
  <2> QED  BY <2>2, ElementOfSeq
<1>3. Len(conns) \in Nat /\ \A k \in 1..Len(conns) : conns[k] \in lost
  <2>1. IsFiniteSet(lost)
    <3>1. IsFiniteSet({d.conn : d \in disabled})
      BY FiniteImage DEF IInv, BackendTyped
    <3> QED  BY <3>1, FS_Difference
  <2>2. conns \in Seq(lost) /\ Len(conns) \in Nat  BY <2>1, SetToSeqsType
  <2> HIDE DEF lost
  <2> QED  BY <2>2, ElementOfSeq
<1>4. first \in [1..Len(pos) -> Item]
  <2> HIDE DEF remove, gone, lost
  <2> QED  BY <1>2
<1>5. second \in [1..Len(conns) -> Item]
  <2> HIDE DEF remove, gone, lost
  <2> QED  BY <1>3
<1>6. work' = adding \o first \o second  BY <1>1
<1> DEFINE add == [op |-> "add", conns |-> added]
<1>7. adding = <<>> \/ adding = <<add>>  OBVIOUS
<1> HIDE DEF adding, first, second, add
<1>8. adding \in Seq({add}) /\ (\A j \in 1..Len(adding) : j = 1 /\ adding[j] = add)
  <2>1. CASE adding = <<>>  BY <2>1, EmptySeq
  <2>2. CASE adding = <<add>>  BY <2>2
  <2> QED  BY <1>7, <2>1, <2>2
<1>9. first \in Seq(Item) /\ second \in Seq(Item)
  <2> HIDE DEF Item
  <2> QED  BY <1>2, <1>3, <1>4, <1>5, SeqFromFunction
<1> DEFINE both == adding \o first
<1> HIDE DEF Item
<1>10. both \in Seq({add} \cup Item)
  <2>1. adding \in Seq({add} \cup Item) /\ first \in Seq({add} \cup Item)
    BY <1>8, <1>9, SeqMonotonic
  <2> QED  BY <2>1, ConcatProperties
<1>11. (i = 1 /\ work'[i] = add) \/ work'[i] \in Item
  <2>1. CASE i \in 1..Len(both) /\ work'[i] = both[i]
    BY <1>8, <1>9, <2>1, ConcatItem
  <2>2. CASE \E j \in 1..Len(second) : work'[i] = second[j]
    BY <1>9, <2>2, ElementOfSeq
  <2>3. work' = both \o second  BY <1>6
  <2> HIDE DEF both
  <2> QED  BY <1>9, <1>10, <2>1, <2>2, <2>3, ConcatItem DEF both
<1> QED  BY <1>11 DEF Item, add

LEMMA ScanQueue == ASSUME TInv, ScanConnectors PROVE Queue'
<1> USE DEF TInv, IInv
<1>1. UNCHANGED <<drm, disabled, registry, nextId>>
  BY DEF ScanConnectors, registered, backend
<1>2. KnownConnectors' = KnownConnectors  BY <1>1 DEF KnownConnectors
<1>3. \A i \in 1..Len(work') :
         \/ work'[i].op = "add" /\ i = 1 /\ work'[i].conns = connected \ KnownConnectors
         \/ /\ work'[i].op = "remove" /\ work'[i].conn \notin connected
            /\ \/ work'[i].id = NoOutput
               \/ \E p \in 1..Len(drm) : /\ work'[i].conn = drm[p].conn
                                          /\ work'[i].id = IdOfName(registry, drm[p].name)
  <2> SUFFICES ASSUME NEW i \in 1..Len(work')
               PROVE  \/ work'[i].op = "add" /\ i = 1 /\ work'[i].conns = connected \ KnownConnectors
                      \/ /\ work'[i].op = "remove" /\ work'[i].conn \notin connected
                         /\ \/ work'[i].id = NoOutput
                            \/ \E p \in 1..Len(drm) : /\ work'[i].conn = drm[p].conn
                                                       /\ work'[i].id = IdOfName(registry, drm[p].name)
    OBVIOUS
  <2>3. CASE i = 1 /\ work'[i] = [op |-> "add", conns |-> connected \ KnownConnectors]
    BY <2>3
  <2>4. ASSUME NEW p \in 1..Len(drm), drm[p].conn \notin connected,
               work'[i] = [op |-> "remove", conn |-> drm[p].conn,
                           id |-> IdOfName(registry, drm[p].name)]
        PROVE  /\ work'[i].op = "remove" /\ work'[i].conn = drm[p].conn
               /\ work'[i].id = IdOfName(registry, drm[p].name)
    BY <2>4
  <2>5. ASSUME NEW x, x \notin connected,
               work'[i] = [op |-> "remove", conn |-> x, id |-> NoOutput]
        PROVE  work'[i].op = "remove" /\ work'[i].conn \notin connected /\ work'[i].id = NoOutput
    BY <2>5
  <2> QED  BY <2>3, <2>4, <2>5, ScanItems
<1>4. OneCallback'  BY <1>3 DEF OneCallback
<1>5. BootWork'  BY <1>3 DEF BootWork
<1>6. \A i \in 1..Len(work') : work'[i].op = "remove" /\ work'[i].id # NoOutput =>
         /\ work'[i].id \in Ids(registry)
         /\ \A p \in 1..Len(drm) : drm[p].conn = work'[i].conn =>
               \A e \in Pairs(registry) : e.id = work'[i].id <=> e.name = drm[p].name
  <2> SUFFICES ASSUME NEW i \in 1..Len(work'), work'[i].op = "remove", work'[i].id # NoOutput
               PROVE  /\ work'[i].id \in Ids(registry)
                      /\ \A p \in 1..Len(drm) : drm[p].conn = work'[i].conn =>
                            \A e \in Pairs(registry) : e.id = work'[i].id <=> e.name = drm[p].name
    OBVIOUS
  <2>1. PICK q \in 1..Len(drm) : /\ work'[i].conn = drm[q].conn
                                 /\ work'[i].id = IdOfName(registry, drm[q].name)
    BY <1>3
  <2>2. PICK d \in Pairs(registry) : d.id = work'[i].id /\ d.name = drm[q].name
    BY <2>1, IdOfNamePair DEF RegistryCore
  <2>3. work'[i].id \in Ids(registry)  BY <2>2, PairsOfEntries
  <2>4. ASSUME NEW p \in 1..Len(drm), drm[p].conn = work'[i].conn, NEW e \in Pairs(registry)
        PROVE  e.id = work'[i].id <=> e.name = drm[p].name
    <3>1. p = q  BY <2>1, <2>4 DEF Tracked, ConnectorTrackedOnce
    <3> QED  BY <2>2, <3>1, DistinctPairs
  <2> QED  BY <2>3, <2>4
<1>7. AddWork'
  <2> SUFFICES ASSUME NEW i \in 1..Len(work'), work'[i].op = "add"
               PROVE  /\ i = 1 /\ work'[i].conns \cap KnownConnectors' = {}
                      /\ \A j \in 1..Len(work') : work'[j].op = "remove" =>
                            /\ work'[j].conn \notin work'[i].conns
                            /\ work'[j].id # NoOutput => work'[j].id \in Ids(registry')
    BY DEF AddWork
  <2>1. i = 1 /\ work'[i].conns = connected \ KnownConnectors  BY <1>3
  <2>2. \A j \in 1..Len(work') : work'[j].op = "remove" => work'[j].conn \notin connected
    BY <1>3
  <2> QED  BY <1>1, <1>2, <1>6, <2>1, <2>2
<1>8. RemoveWork'
  <2>1. \A id \in Ids(registry) : id <= nextId
    BY DEF RegistryCore, RegistryIdentity, Ids
  <2>2. Len(drm') = Len(drm) /\ Pairs(registry') = Pairs(registry)  BY <1>1
  <2> QED  BY <1>1, <1>6, <2>1, <2>2 DEF RemoveWork
<1> QED  BY <1>4, <1>5, <1>7, <1>8 DEF Queue

LEMMA ReloadQueue == ASSUME IInv, NEW cfg \in Configs, ReloadConfig(cfg) PROVE Queue'
<1> DEFINE step(r) == [op |-> "apply", name |-> r.name, primary |-> r.primary,
                       toggled |-> (r.name \in config.off) # (r.name \in cfg.off)]
           sync == [op |-> "sync"]
<1>1. PICK rest :
        LET resolved == Resolve(NamesOf(registry) \o rest, cfg)
        IN  work' = IF resolved = <<>> THEN <<>>
                    ELSE Append([i \in 1..Len(resolved) |-> step(resolved[i])], sync)
  BY DEF ReloadConfig
<1> DEFINE resolved == Resolve(NamesOf(registry) \o rest, cfg)
           steps == [i \in 1..Len(resolved) |-> step(resolved[i])]
           Op(o) == {r \in Step : r.op = o}
<1>2. \A i \in 1..Len(work') : work'[i].op \in {"apply", "sync"}
  <2>1. work' = IF resolved = <<>> THEN <<>> ELSE Append(steps, sync)  BY <1>1
  <2>2. work' \in Seq(Step)  BY ReloadStepsType
  <2> HIDE DEF resolved
  <2>3. CASE work' = <<>>  BY <2>3, EmptySeq
  <2>4. CASE work' = Append(steps, sync)
    <3>1. sync.op = "sync" /\ \A i \in 1..Len(resolved) : steps[i].op = "apply"  OBVIOUS
    <3>2. DOMAIN steps = 1..Len(resolved)  OBVIOUS
    <3> HIDE DEF steps, sync
    <3> QED  BY <2>4, <3>1, <3>2
  <2> QED  BY <2>1, <2>3, <2>4
<1> QED  BY <1>2 DEF Queue, OneCallback, BootWork, AddWork, RemoveWork

LEMMA BootQueue ==
    ASSUME NEW n \in 1..NumCrtcs, NEW conns \in [1..n -> Connectors], NEW cfg,
           \A i, j \in 1..n : i < j => conns[i] < conns[j],
           work = BootSteps(conns, cfg), KnownConnectors = {}
    PROVE  Queue
<1> DEFINE names == [i \in 1..Len(conns) |-> i - 1]
           resolved == Resolve(names, cfg)
           boot(i) == [op |-> "boot", conn |-> conns[i], crtc |-> i,
                       name |-> names[i], enabled |-> resolved[i].enabled]
           boots == [i \in 1..Len(conns) |-> boot(i)]
           last == [op |-> "primaries", names |-> names]
<1>1. n \in Nat /\ NumCrtcs \in Nat  BY LifecycleAssumption
<1>2. Len(conns) = n  BY <1>1, SeqFromFunction
<1>3. /\ last.op = "primaries" /\ DOMAIN boots = 1..Len(conns)
      /\ \A i \in 1..Len(conns) : boots[i].op = "boot" /\ boots[i].conn = conns[i]
  OBVIOUS
<1>4. work = Append(boots, last)  BY DEF BootSteps
<1>5. work \in Seq(Step)  BY BootStepsType
<1> HIDE DEF boots, last
<1>6. /\ Len(work) = n + 1 /\ work[n + 1].op = "primaries"
      /\ \A i \in 1..n : work[i].op = "boot" /\ work[i].conn = conns[i]
  BY <1>1, <1>2, <1>3, <1>4
<1>7. \A i \in 1..Len(work) : work[i].op \in {"boot", "primaries"} /\ (i \in 1..n \/ i = n + 1)
  BY <1>1, <1>6
<1>8. \A i, j \in 1..n : conns[i] = conns[j] => i = j
  <2> SUFFICES ASSUME NEW i \in 1..n, NEW j \in 1..n, conns[i] = conns[j] PROVE i = j
    OBVIOUS
  <2>1. conns[i] \in Nat /\ conns[j] \in Nat  BY LifecycleAssumption
  <2> QED  BY <1>1, <2>1
<1>9. OneCallback  BY <1>7 DEF OneCallback
<1>10. BootWork
  <2>1. \A i \in 1..Len(work) : work[i].op = "boot" => i \in 1..n /\ work[i].conn = conns[i]
    BY <1>6, <1>7
  <2> QED  BY <1>8, <2>1 DEF BootWork
<1> QED  BY <1>7, <1>9, <1>10 DEF Queue, AddWork, RemoveWork

LEMMA InitTracked == Init => Tracked /\ Queue /\ RegisteredIsDriven
<1> SUFFICES ASSUME Init PROVE Tracked /\ Queue /\ RegisteredIsDriven
  OBVIOUS
<1>1. Len(drm) = 0 /\ Len(registry) = 0 /\ disabled = {}  BY EmptySeq DEF Init
<1>2. KnownConnectors = {}  BY <1>1 DEF KnownConnectors
<1>3. PICK n \in 1..NumCrtcs : \E conns \in [1..n -> Connectors] :
         /\ \A i, j \in 1..n : i < j => conns[i] < conns[j]
         /\ work = BootSteps(conns, config)
  BY DEF Init
<1>4. PICK conns \in [1..n -> Connectors] :
         /\ \A i, j \in 1..n : i < j => conns[i] < conns[j]
         /\ work = BootSteps(conns, config)
  BY <1>3
<1>5. Queue  BY <1>2, <1>4, BootQueue
<1> QED  BY <1>1, <1>5 DEF Tracked, ConnectorTrackedOnce, RegisteredIsDriven

-----------------------------------------------------------------------------
LEMMA QueueStep == TInv /\ [Next]_vars => Queue'
<1> SUFFICES ASSUME TInv, [Next]_vars PROVE Queue'
  OBVIOUS
<1> USE DEF TInv, IInv
<1>w. work \in Seq(Step) /\ nextId \in Nat /\ drm \in Seq(DrmRec) /\ registry \in Seq(Entry)
  BY DEF BackendTyped, RegistryCore
<1>a. Arrivals  BY TrackedStep
<1>q. OneCallback /\ BootWork /\ AddWork /\ RemoveWork  BY DEF Queue
<1>t. \A i \in 1..Len(Tail(work)) : work # <<>> =>
         \E j \in 1..Len(work) : work[j] = Tail(work)[i]
  BY <1>w, FirstOfWork
(* Handlers of start-up and of a reload. *)
<1>0. ASSUME NEW op, Running(op), op \notin {"add", "remove"}, work' = Tail(work)
      PROVE  Queue'
  BY <1>w, <1>a, <1>q, <1>0, HeadDone, NoRemovals DEF Queue, Running
<1>1. CASE BootOutput  BY <1>0, <1>1 DEF BootOutput
<1>2. CASE \/ BootPrimaries \/ ApplyPrimary \/ ApplyDisable \/ ApplyEnable
           \/ ApplyEnableSkipped \/ FinishReload
  BY <1>0, <1>2 DEF BootPrimaries, ApplyPrimary, ApplyDisable, ApplyEnable,
     ApplyEnableSkipped, FinishReload
(* Between callbacks, and while nothing runs. *)
<1>3. ASSUME UNCHANGED <<registry, nextId, drm, disabled, work>> PROVE Queue'
  <2>1. KnownConnectors' = KnownConnectors  BY <1>3 DEF KnownConnectors
  <2> QED  BY <1>3, <1>q, <2>1 DEF Queue, OneCallback, BootWork, AddWork, RemoveWork
<1>4. CASE \/ \E c \in Connectors : Plug(c) \/ Unplug(c)
           \/ \E id \in 1..nextId : FocusOutput(id)
           \/ \E ws \in Workspaces : SwitchWorkspace(ws)
           \/ UNCHANGED vars
  BY <1>3, <1>4 DEF Plug, Unplug, FocusOutput, SwitchWorkspace, vars, registered, backend
<1>5. CASE ScanConnectors  BY <1>5, ScanQueue
<1>6. CASE \E cfg \in Configs : ReloadConfig(cfg)  BY <1>6, ReloadQueue
(* The handlers of a scan. *)
<1>7. ASSUME NEW c \in Connectors, AddOutputSkipped(c) PROVE Queue'
  <2>1. /\ Running("add") /\ c \in Head(work).conns /\ AddDone(c)
        /\ UNCHANGED <<registry, nextId, drm, disabled>>
    BY <1>7 DEF AddOutputSkipped, registered, backend
  <2>2. KnownConnectors' \subseteq KnownConnectors \cup {c}  BY <2>1 DEF KnownConnectors
  <2>3. Ids(registry) \subseteq Ids(registry')  BY <2>1
  <2>4. /\ OneCallback' /\ BootWork' /\ AddWork'
        /\ \A i \in 1..Len(work') : work'[i].op = "remove" =>
              \E j \in 1..Len(work) : work[j] = work'[i]
    BY <1>w, <1>a, <1>q, <2>1, <2>2, <2>3, AddDoneQueue
  <2>5. Pairs(registry') \subseteq Pairs(registry)  BY <2>1
  <2>6. \A p \in 1..Len(drm') : \E q \in 1..Len(drm) : drm'[p] = drm[q]  BY <2>1
  <2>0. nextId' \in Nat /\ nextId' >= nextId  BY <1>w, <2>1
  <2>7. RemoveWork'  BY <1>w, <1>q, <2>0, <2>4, <2>5, <2>6, RemovalsShrink
  <2> QED  BY <2>4, <2>7 DEF Queue
<1>8. ASSUME NEW c \in Connectors, AddOutput(c) PROVE Queue'
  <2>1. Running("add") /\ c \in Head(work).conns /\ AddDone(c)
    BY <1>8 DEF AddOutput
  <2>2. KnownConnectors' \subseteq KnownConnectors \cup {c}  BY <1>8, AddTracked
  <2> DEFINE name == GeneratedName
             crtc == Min(FreeCrtcs)
             resolved == Resolve(Append(NamesOf(registry), name), config)
             on == resolved[SelectInSeq(resolved, LAMBDA r : r.name = name)].enabled
  <2>3. CASE on
    <3>1. RegisterOutput(name, resolved) /\ PushOutput(c, crtc, name)
      BY <1>8, <2>3 DEF AddOutput
    <3>2. name \in Nat  BY DEF GeneratedName, BackendTyped
    <3>3. resolved \in Seq(ResolvedRec)
      <4>1. NamesOf(registry) \in Seq(Nat)  BY <1>w, NamesOfEntry
      <4>2. Append(NamesOf(registry), name) \in Seq(Nat)  BY <3>2, <4>1, AppendProperties
      <4> QED  BY <4>2, ResolveEntry
    <3> HIDE DEF name, resolved, crtc
    <3>4. Ids(registry) \subseteq Ids(registry')  BY <3>1, <3>2, <3>3, RegisterPairs
    <3>5. /\ OneCallback' /\ BootWork' /\ AddWork'
          /\ \A i \in 1..Len(work') : work'[i].op = "remove" =>
                \E j \in 1..Len(work) : work[j] = work'[i]
      BY <1>w, <1>a, <1>q, <2>1, <2>2, <3>4, AddDoneQueue
    <3>6. RemoveWork'  BY <1>8, <3>1, <3>2, <3>3, <3>5, AddedDisturbsNone
    <3> QED  BY <3>5, <3>6 DEF Queue
  <2>4. CASE ~on
    <3>1. registry' = registry /\ nextId' = nextId /\ drm' = drm
      BY <1>8, <2>4 DEF AddOutput, registered
    <3> HIDE DEF on
    <3>2. /\ OneCallback' /\ BootWork' /\ AddWork'
          /\ \A i \in 1..Len(work') : work'[i].op = "remove" =>
                \E j \in 1..Len(work) : work[j] = work'[i]
      BY <1>w, <1>a, <1>q, <2>1, <2>2, <3>1, AddDoneQueue
    <3>3. RemoveWork'  BY <1>w, <1>q, <3>1, <3>2, RemovalsShrink
    <3> QED  BY <3>2, <3>3 DEF Queue
  <2> QED  BY <2>3, <2>4
<1>9. ASSUME NEW op, Running(op), work' = Tail(work), nextId' = nextId,
             Pairs(registry') \subseteq Pairs(registry),
             \A p \in 1..Len(drm') : \E q \in 1..Len(drm) : drm'[p] = drm[q]
      PROVE  Queue'
  <2>1. OneCallback' /\ BootWork' /\ AddWork'
    BY <1>w, <1>a, <1>q, <1>9, HeadDone DEF Running
  <2>2. \A i \in 1..Len(work') : \E j \in 1..Len(work) : work[j] = work'[i]
    BY <1>t, <1>9 DEF Running
  <2>3. RemoveWork'  BY <1>w, <1>q, <1>9, <2>2, RemovalsShrink
  <2> QED  BY <2>1, <2>3 DEF Queue
<1>10. CASE RemoveDisabled
  BY <1>9, <1>10 DEF RemoveDisabled, registered
<1>11. CASE RemoveOutput
  <2> DEFINE pos == DrmPositionOfConnector(Head(work).conn)
  <2>1. /\ Running("remove") /\ work' = Tail(work) /\ globalActive' = globalActive
        /\ pos # 0 /\ drm' = RemoveAt(drm, pos)
    BY <1>11 DEF RemoveOutput
  <2>2. pos \in 1..Len(drm)  BY <1>w, <2>1, DrmPositions
  <2>3. \A p \in 1..Len(drm') : \E q \in 1..Len(drm) : drm'[p] = drm[q]
    <3> HIDE DEF pos
    <3>1. \A p \in 1..Len(RemoveAt(drm, pos)) : \E q \in 1..Len(drm) \ {pos} :
             RemoveAt(drm, pos)[p] = drm[q]
      BY <1>w, <2>2, RemoveAtSplits
    <3> QED  BY <2>1, <3>1
  <2>4. nextId' = nextId /\ Pairs(registry') \subseteq Pairs(registry)
    <3>1. PICK id : \/ id \in Ids(registry) /\ UnregisterOutput(PositionOfId(registry, id))
                    \/ UNCHANGED <<registered, workspaceState>>
      BY <1>11 DEF RemoveOutput
    <3>2. CASE id \in Ids(registry) /\ UnregisterOutput(PositionOfId(registry, id))
      <4>1. PositionOfId(registry, id) \in 1..Len(registry)  BY <1>w, <3>2, FoundById
      <4> QED  BY <2>1, <3>2, <4>1, UnregisterPairs
    <3>3. CASE UNCHANGED <<registered, workspaceState>>  BY <3>3 DEF registered
    <3> QED  BY <3>1, <3>2, <3>3
  <2> QED  BY <1>9, <2>1, <2>3, <2>4
<1> QED  BY <1>1, <1>2, <1>4, <1>5, <1>6, <1>7, <1>8, <1>10, <1>11 DEF Next
-----------------------------------------------------------------------------
(* The outputs behind the registry. *)

DrivenBy(reg, d) == \A e \in Pairs(reg) : \E j \in 1..Len(d) : d[j].name = e.name

LEMMA DrivenByPairs ==
    /\ RegisteredIsDriven <=> DrivenBy(registry, drm)
    /\ RegisteredIsDriven' <=> DrivenBy(registry', drm')
<1>1. ASSUME NEW reg, NEW d
      PROVE  DrivenBy(reg, d) <=>
                \A i \in 1..Len(reg) : \E j \in 1..Len(d) : d[j].name = reg[i].name
  <2>1. \A i \in 1..Len(reg) : \E e \in Pairs(reg) : e.name = reg[i].name
    BY PairsOfEntries DEF Names
  <2>2. \A e \in Pairs(reg) : \E i \in 1..Len(reg) : reg[i].name = e.name
    BY PairsOfEntries DEF Names
  <2> QED  BY <2>1, <2>2 DEF DrivenBy
<1> QED  BY <1>1 DEF RegisteredIsDriven

LEMMA DrmFound ==
    ASSUME drm \in Seq(DrmRec), NEW x
    PROVE  /\ DrmPositionOfConnector(x) # 0 => drm[DrmPositionOfConnector(x)].conn = x
           /\ DrmPositionOfName(x) # 0 => drm[DrmPositionOfName(x)].name = x
<1> DEFINE I == {i \in 1..Len(drm) : drm[i].conn = x}
           J == {i \in 1..Len(drm) : drm[i].name = x}
<1>1. I \in SUBSET Nat /\ J \in SUBSET Nat  OBVIOUS
<1>2. (I # {} => Min(I) \in I) /\ (J # {} => Min(J) \in J)
  <2> HIDE DEF I, J
  <2> QED  BY <1>1, MinNat
<1> QED  BY <1>2 DEF DrmPositionOfConnector, DrmPositionOfName, SelectInSeq

(* The output that is registered is the one that is pushed. *)
LEMMA RegisterDriven ==
    ASSUME RegistryCore, BackendTyped, DrivenBy(registry, drm), NEW name \in Nat,
           NEW resolved \in Seq(ResolvedRec), NEW c, NEW crtc,
           RegisterOutput(name, resolved), PushOutput(c, crtc, name)
    PROVE  DrivenBy(registry', drm')
<1>1. \A e \in Pairs(registry') : e \in Pairs(registry) \/ e.name = name
  <2>1. \A e \in Pairs(registry') :
          \/ e \in Pairs(registry)
          \/ e = [id |-> nextId + 1, name |-> name] /\ name \notin Names(registry)
    BY RegisterPairs
  <2> QED  BY <2>1
<1>2. /\ Len(drm) \in Nat /\ Len(drm') = Len(drm) + 1
      /\ \A j \in 1..Len(drm) : drm'[j] = drm[j]
      /\ drm'[Len(drm) + 1].name = name
  BY Pushed DEF BackendTyped
<1> SUFFICES ASSUME NEW e \in Pairs(registry')
             PROVE  \E j \in 1..Len(drm') : drm'[j].name = e.name
  BY DEF DrivenBy
<1>3. CASE e \in Pairs(registry)
  <2>1. PICK j \in 1..Len(drm) : drm[j].name = e.name  BY <1>3 DEF DrivenBy
  <2>2. j \in 1..Len(drm') /\ drm'[j] = drm[j]  BY <1>2
  <2> QED  BY <2>1, <2>2
<1>4. CASE e.name = name
  <2>1. Len(drm) + 1 \in 1..Len(drm')  BY <1>2
  <2> QED  BY <1>2, <1>4, <2>1
<1> QED  BY <1>1, <1>3, <1>4

(* A DRM output goes when no registered output has its name any more. *)
LEMMA LeavesDriven ==
    ASSUME BackendTyped, DrivenBy(registry, drm), NEW pos \in 1..Len(drm),
           drm' = RemoveAt(drm, pos),
           \A e \in Pairs(registry') : e \in Pairs(registry) /\ e.name # drm[pos].name
    PROVE  DrivenBy(registry', drm')
<1> SUFFICES ASSUME NEW e \in Pairs(registry')
             PROVE  \E j \in 1..Len(drm') : drm'[j].name = e.name
  BY DEF DrivenBy
<1>1. PICK j \in 1..Len(drm) : drm[j].name = e.name  BY DEF DrivenBy
<1>2. j \in 1..Len(drm) \ {pos}  BY <1>1
<1>3. drm \in Seq(DrmRec)  BY DEF BackendTyped
<1>4. \E i \in 1..Len(RemoveAt(drm, pos)) : RemoveAt(drm, pos)[i] = drm[j]
  BY <1>2, <1>3, RemoveAtSplits
<1> QED  BY <1>1, <1>4

LEMMA DrivenStep == TInv /\ [Next]_vars => RegisteredIsDriven'
<1> SUFFICES ASSUME TInv, [Next]_vars PROVE DrivenBy(registry', drm')
  BY DrivenByPairs
<1> USE DEF TInv, IInv
<1>d. DrivenBy(registry, drm)  BY DrivenByPairs
<1>w. work \in Seq(Step) /\ drm \in Seq(DrmRec) /\ registry \in Seq(Entry)
  BY DEF BackendTyped, RegistryCore
<1>0. ASSUME UNCHANGED drm, Pairs(registry') = Pairs(registry) PROVE DrivenBy(registry', drm')
  BY <1>d, <1>0 DEF DrivenBy
<1>a. ASSUME UNCHANGED <<registered, drm>> PROVE DrivenBy(registry', drm')
  BY <1>0, <1>a DEF registered
<1>1. CASE BootOutput
  <2>1. CASE Head(work).enabled
    <3>1. /\ RegisterOutput(Head(work).name, <<>>)
          /\ PushOutput(Head(work).conn, Head(work).crtc, Head(work).name)
      BY <1>1, <2>1 DEF BootOutput
    <3>2. Head(work).name \in Nat  BY <1>1, <1>w, HeadOfWork DEF BootOutput
    <3> QED  BY <1>d, <3>1, <3>2, NoResolved, RegisterDriven
  <2>2. CASE ~Head(work).enabled  BY <1>a, <1>1, <2>2 DEF BootOutput
  <2> QED  BY <2>1, <2>2
<1>2. CASE BootPrimaries
  <2> DEFINE resolved == Resolve(Head(work).names, config)
  <2>1. Head(work).names \in Seq(Nat)  BY <1>2, <1>w, HeadOfWork DEF BootPrimaries
  <2>2. resolved \in Seq(ResolvedRec)  BY <2>1, ResolveEntry
  <2>3. registry' = SyncPrimaryFlags(registry, resolved) /\ UNCHANGED drm
    BY <1>2 DEF BootPrimaries, backend
  <2> HIDE DEF resolved
  <2>4. SameOutputs(registry', registry)  BY <1>w, <2>2, <2>3, SyncPrimaryFlagsEntry
  <2> QED  BY <1>0, <2>3, <2>4, SamePairs
<1>3. CASE ApplyPrimary
  <2>1. Head(work).primary \in BOOLEAN  BY <1>3, <1>w, HeadOfWork DEF ApplyPrimary
  <2>2. registry' = SetPrimary(registry, Head(work).name, Head(work).primary) /\ UNCHANGED drm
    BY <1>3 DEF ApplyPrimary, backend
  <2>3. SameOutputs(registry', registry)  BY <1>w, <2>1, <2>2, SetPrimaryEntry
  <2> QED  BY <1>0, <2>2, <2>3, SamePairs
<1>4. ASSUME NEW c \in Connectors, AddOutput(c) PROVE DrivenBy(registry', drm')
  <2> DEFINE name == GeneratedName
             crtc == Min(FreeCrtcs)
             resolved == Resolve(Append(NamesOf(registry), name), config)
             on == resolved[SelectInSeq(resolved, LAMBDA r : r.name = name)].enabled
  <2>1. CASE on
    <3>1. RegisterOutput(name, resolved) /\ PushOutput(c, crtc, name)
      BY <1>4, <2>1 DEF AddOutput
    <3>2. name \in Nat  BY DEF GeneratedName, BackendTyped
    <3>3. resolved \in Seq(ResolvedRec)
      <4>1. NamesOf(registry) \in Seq(Nat)  BY <1>w, NamesOfEntry
      <4>2. Append(NamesOf(registry), name) \in Seq(Nat)  BY <3>2, <4>1, AppendProperties
      <4> QED  BY <4>2, ResolveEntry
    <3> HIDE DEF name, resolved, crtc
    <3> QED  BY <1>d, <3>1, <3>2, <3>3, RegisterDriven
  <2>2. CASE ~on  BY <1>a, <1>4, <2>2 DEF AddOutput
  <2> QED  BY <2>1, <2>2
<1>5. CASE RemoveOutput
  <2> DEFINE pos == DrmPositionOfConnector(Head(work).conn)
             name == drm[pos].name
             id == IF Head(work).id # NoOutput THEN Head(work).id ELSE IdOfName(registry, name)
  <2>1. /\ Running("remove") /\ globalActive' = globalActive
        /\ pos # 0 /\ drm' = RemoveAt(drm, pos)
        /\ IF id \in Ids(registry) THEN UnregisterOutput(PositionOfId(registry, id))
           ELSE UNCHANGED <<registered, workspaceState>>
    BY <1>5 DEF RemoveOutput
  <2>2. pos \in 1..Len(drm) /\ drm[pos].conn = Head(work).conn
    BY <1>w, <2>1, DrmPositions, DrmFound
  <2>3. work # <<>> /\ Head(work).op = "remove" /\ 1 \in 1..Len(work) /\ Head(work) = work[1]
    BY <1>w, <2>1, FirstOfWork DEF Running
  <2> HIDE DEF pos
  <2>4. \A e \in Pairs(registry) : e.name = name => e.id = id
    <3>1. CASE Head(work).id # NoOutput
      BY <2>2, <2>3, <3>1 DEF Queue, RemoveWork
    <3>2. CASE Head(work).id = NoOutput
      <4> SUFFICES ASSUME NEW e \in Pairs(registry), e.name = name PROVE e.id = id
        OBVIOUS
      <4>1. name \in Names(registry)  BY PairsOfEntries
      <4>2. IdOfName(registry, name) \in Ids(registry)  BY <1>w, <4>1, IdOfNameType
      <4>3. IdOfName(registry, name) # NoOutput  BY <1>w, <4>2, IdsAreNat
      <4>4. PICK d \in Pairs(registry) : d.id = IdOfName(registry, name) /\ d.name = name
        BY <1>w, <4>3, IdOfNamePair
      <4>5. d = e  BY <4>4, DistinctPairs
      <4> QED  BY <3>2, <4>4, <4>5
    <3> QED  BY <3>1, <3>2
  <2> HIDE DEF id, name
  <2>5. \A e \in Pairs(registry') : e \in Pairs(registry) /\ e.name # name
    <3>1. CASE id \in Ids(registry)
      <4> DEFINE k == PositionOfId(registry, id)
      <4>1. k \in 1..Len(registry) /\ registry[k].id = id  BY <1>w, <3>1, FoundById
      <4>2. UnregisterOutput(k)  BY <2>1, <3>1
      <4> HIDE DEF k
      <4>3. /\ Pairs(registry') \subseteq Pairs(registry)
            /\ \A e \in Pairs(registry') : e.id # registry[k].id
        BY <2>1, <4>1, <4>2, UnregisterPairs
      <4> QED  BY <2>4, <4>1, <4>3
    <3>2. CASE id \notin Ids(registry)
      <4>1. registry' = registry  BY <2>1, <3>2 DEF registered
      <4> QED  BY <2>4, <3>2, <4>1, PairsOfEntries
    <3> QED  BY <3>1, <3>2
  <2> QED  BY <1>d, <2>1, <2>2, <2>5, LeavesDriven DEF name
<1>6. CASE ApplyDisable
  <2> DEFINE name == Head(work).name
             pos == DrmPositionOfName(name)
  <2>1. CASE pos = 0  BY <1>a, <1>6, <2>1 DEF ApplyDisable, backend
  <2>2. CASE pos # 0
    <3>1. /\ drm' = RemoveAt(drm, pos) /\ globalActive' = globalActive
          /\ IF name \in Names(registry) THEN UnregisterOutput(PositionOfName(registry, name))
             ELSE UNCHANGED registered
      BY <1>6, <2>2 DEF ApplyDisable
    <3>2. pos \in 1..Len(drm) /\ drm[pos].name = name  BY <1>w, <2>2, DrmPositions, DrmFound
    <3> HIDE DEF pos, name
    <3>3. \A e \in Pairs(registry') : e \in Pairs(registry) /\ e.name # name
      <4>1. CASE name \in Names(registry)
        <5> DEFINE k == PositionOfName(registry, name)
        <5>1. k \in 1..Len(registry) /\ registry[k].name = name  BY <1>w, <4>1, FoundByName
        <5>2. UnregisterOutput(k)  BY <3>1, <4>1
        <5> HIDE DEF k
        <5> QED  BY <3>1, <5>1, <5>2, UnregisterPairs
      <4>2. CASE name \notin Names(registry)
        <5>1. registry' = registry  BY <3>1, <4>2 DEF registered
        <5> QED  BY <4>2, <5>1, PairsOfEntries
      <4> QED  BY <4>1, <4>2
    <3> QED  BY <1>d, <3>1, <3>2, <3>3, LeavesDriven
  <2> QED  BY <2>1, <2>2
<1>7. CASE ApplyEnable
  <2>1. PICK d \in disabled : RegisterOutput(d.name, <<>>) /\ PushOutput(d.conn, d.crtc, d.name)
    BY <1>7 DEF ApplyEnable
  <2>2. d.name \in Nat  BY DEF BackendTyped, DisabledRec
  <2> QED  BY <1>d, <2>1, <2>2, NoResolved, RegisterDriven
<1>8. CASE \/ \E c \in Connectors : Plug(c) \/ Unplug(c)
           \/ ScanConnectors \/ \E c \in Connectors : AddOutputSkipped(c)
           \/ RemoveDisabled \/ \E cfg \in Configs : ReloadConfig(cfg)
           \/ ApplyEnableSkipped \/ FinishReload
           \/ \E id \in 1..nextId : FocusOutput(id)
           \/ \E ws \in Workspaces : SwitchWorkspace(ws)
           \/ UNCHANGED vars
  <2>1. registry' = registry /\ nextId' = nextId /\ drm' = drm
    BY <1>8 DEF Plug, Unplug, ScanConnectors, AddOutputSkipped, RemoveDisabled, ReloadConfig,
       ApplyEnableSkipped, FinishReload, FocusOutput, SwitchWorkspace, vars, registered, backend
  <2> QED  BY <1>a, <2>1 DEF registered
<1> QED  BY <1>1, <1>2, <1>3, <1>4, <1>5, <1>6, <1>7, <1>8 DEF Next

(* The invariant that all of it makes. *)
THEOREM Tracking == Spec => []TInv
<1>1. Init => TInv  BY InitIInv, InitTracked DEF TInv
<1>2. TInv /\ [Next]_vars => TInv'
  BY CoreStep, BackendStep, TrackedStep, QueueStep, DrivenStep DEF TInv, IInv
<1> QED  BY <1>1, <1>2, PTL DEF Spec

(* No connector is driven twice, or both driven and kept as disabled, over *)
(* any interleaving of start-up, scans, failed re-enables and reloads      *)
(* (scan_drm_connectors_for_h5b, build_and_register_disabled_output).      *)
THEOREM SingleTracking == Spec => []ConnectorTrackedOnce
<1>1. TInv => ConnectorTrackedOnce  BY DEF TInv, Tracked
<1> QED  BY <1>1, Tracking, PTL

(* A registered output has a DRM output of its name behind it, whatever id *)
(* or name a removal finds it by (remove_drm_output_via_hotplug_pipeline,  *)
(* reapply_output_layout).                                                 *)
THEOREM Driven == Spec => []RegisteredIsDriven
<1>1. TInv => RegisteredIsDriven  BY DEF TInv
<1> QED  BY <1>1, Tracking, PTL
-----------------------------------------------------------------------------
(* The docking station.  Names count up as the displays come and leave     *)
(* from the end, so the three lists stay aligned: position, name and id    *)
(* say the same thing in each.                                             *)

Aligned ==
    /\ disabled = {}
    /\ Len(outputs) = Len(registry) /\ Len(drm) = Len(registry)
    /\ \A i \in 1..Len(registry) :
          /\ registry[i].name = i - 1
          /\ drm[i].name = i - 1 /\ drm[i].id = registry[i].id
          /\ outputs[i].name = i - 1 /\ outputs[i].conn = drm[i].conn

(* The position of the primary output among n outputs. *)
Chosen(n, cfg) == IF cfg.primary < n THEN cfg.primary + 1 ELSE 1

(* The first m outputs have the flags of the configuration. *)
Flagged(m) == \A i \in 1..m : registry[i].primary <=> i = Chosen(Len(registry), config)

(* The compositor knows of nothing that is gone, or the last display is. *)
Attached == KnownConnectors \subseteq connected
LastLeft == Len(drm) > 1 /\ connected = KnownConnectors \ {drm[Len(drm)].conn}

(* What the callbacks have left: k outputs to start, one list of new       *)
(* connectors, one removal, m flags to set.                                *)
StartLeft ==
    \E k \in Nat :
        /\ Len(work) = k + 1
        /\ work[k + 1].op = "primaries"
        /\ Len(work[k + 1].names) = Len(registry) + k
        /\ \A i \in 1..Len(registry) + k : work[k + 1].names[i] = i - 1
        /\ \A j \in 1..k : /\ work[j].op = "boot" /\ work[j].name = Len(registry) + j - 1
                           /\ work[j].enabled /\ work[j].conn \in connected
        /\ k # 0 => Attached

AddLeft ==
    /\ Len(work) = 1 /\ work[1].op = "add"
    /\ work[1].conns # {} /\ work[1].conns \subseteq connected
    /\ Attached /\ Flagged(Len(registry))

RemoveLeft ==
    /\ Len(work) = 1 /\ work[1].op = "remove"
    /\ work[1].conn = drm[Len(drm)].conn /\ work[1].id = registry[Len(registry)].id
    /\ LastLeft /\ Flagged(Len(registry))

FlagsLeft ==
    \E m \in 0..Len(registry) :
        /\ Len(work) = m + 1 /\ work[m + 1].op = "sync"
        /\ \A j \in 1..m :
              /\ work[j].op = "apply" /\ ~work[j].toggled
              /\ work[j].name = Len(registry) - m + j - 1
              /\ work[j].primary <=> Len(registry) - m + j = Chosen(Len(registry), config)
        /\ Flagged(Len(registry) - m)

NoneLeft == Idle /\ Flagged(Len(registry))

DockWork == NoneLeft \/ StartLeft \/ AddLeft \/ RemoveLeft \/ FlagsLeft

DockInv == Aligned /\ (Attached \/ LastLeft) /\ DockWork

(* The types that the steps below use. *)
LEMMA DockTypes ==
    ASSUME IInv
    PROVE  /\ registry \in Seq(Entry) /\ outputs \in Seq(OutputRec) /\ drm \in Seq(DrmRec)
           /\ work \in Seq(Step)
           /\ Len(registry) \in Nat /\ Len(outputs) \in Nat /\ Len(drm) \in Nat /\ Len(work) \in Nat
           /\ config \in Configs /\ config.primary \in Nat
           /\ \A cfg \in Configs : cfg.primary \in Nat
           /\ \A i \in 1..Len(registry) : registry[i] \in Entry /\ registry[i].id # NoOutput
<1>1. registry \in Seq(Entry) /\ outputs \in Seq(OutputRec) /\ drm \in Seq(DrmRec) /\ work \in Seq(Step)
  BY DEF IInv, RegistryCore, BackendTyped
<1>2. \A cfg \in Configs : cfg.primary \in Nat  BY LifecycleAssumption DEF Config
<1>3. \A i \in 1..Len(registry) : registry[i] \in Entry  BY <1>1, ElementOfSeq
<1>4. \A i \in 1..Len(registry) : registry[i].id # NoOutput  BY <1>3 DEF Entry
<1>5. config \in Configs  BY DEF IInv, BackendTyped
<1> QED  BY <1>1, <1>2, <1>3, <1>4, <1>5, LenProperties

(* In aligned lists a name, an id or a connector is found where it is. *)
LEMMA FoundAligned ==
    ASSUME IInv, Tracked, Aligned, NEW i \in 1..Len(registry)
    PROVE  /\ IdOfName(registry, i - 1) = registry[i].id
           /\ registry[i].id \in Ids(registry)
           /\ PositionOfId(registry, registry[i].id) = i
           /\ OutputPositionOfName(i - 1) = i
           /\ DrmPositionOfConnector(drm[i].conn) = i
<1>0. /\ registry \in Seq(Entry) /\ Len(registry) \in Nat
      /\ Len(drm) = Len(registry) /\ Len(outputs) = Len(registry)
      /\ \A k \in 1..Len(registry) : registry[k].name = k - 1 /\ outputs[k].name = k - 1
  BY DockTypes DEF Aligned
<1>1. registry[i].id \in Ids(registry) /\ i - 1 \in Names(registry)  BY <1>0 DEF Ids, Names
<1>2. IdOfName(registry, i - 1) = registry[i].id
  <2> DEFINE p == PositionOfName(registry, i - 1)
  <2>1. p \in 1..Len(registry) /\ registry[p].name = i - 1  BY <1>0, <1>1, FoundByName
  <2>2. IdOfName(registry, i - 1) = registry[p].id  BY <1>1 DEF IdOfName
  <2> HIDE DEF p
  <2>3. p = i  BY <1>0, <2>1
  <2> QED  BY <2>2, <2>3
<1>3. PositionOfId(registry, registry[i].id) = i
  <2> DEFINE p == PositionOfId(registry, registry[i].id)
  <2>1. p \in 1..Len(registry) /\ registry[p].id = registry[i].id  BY <1>0, <1>1, FoundById
  <2> HIDE DEF p
  <2>2. p = i  BY <2>1 DEF IInv, RegistryCore, RegistryIdentity
  <2> QED  BY <2>2 DEF p
<1>4. OutputPositionOfName(i - 1) = i
  <2> DEFINE I == {k \in 1..Len(outputs) : outputs[k].name = i - 1}
  <2>1. i \in I /\ I \in SUBSET Nat  BY <1>0
  <2>2. \A k \in I : k = i  BY <1>0
  <2>3. OutputPositionOfName(i - 1) = IF I # {} THEN Min(I) ELSE 0
    BY DEF OutputPositionOfName, SelectInSeq
  <2> HIDE DEF I
  <2>4. Min(I) \in I  BY <2>1, MinNat
  <2> QED  BY <2>1, <2>2, <2>3, <2>4
<1>5. DrmPositionOfConnector(drm[i].conn) = i
  <2> DEFINE I == {k \in 1..Len(drm) : drm[k].conn = drm[i].conn}
  <2>1. i \in I /\ I \in SUBSET Nat  BY <1>0
  <2>2. \A k \in I : k = i  BY <1>0 DEF Tracked, ConnectorTrackedOnce
  <2>3. DrmPositionOfConnector(drm[i].conn) = IF I # {} THEN Min(I) ELSE 0
    BY DEF DrmPositionOfConnector, SelectInSeq
  <2> HIDE DEF I
  <2>4. Min(I) \in I  BY <2>1, MinNat
  <2> QED  BY <2>1, <2>2, <2>3, <2>4
<1> QED  BY <1>1, <1>2, <1>3, <1>4, <1>5

(* The resolver over outputs that are all enabled. *)
LEMMA ResolvesDock ==
    ASSUME NEW names \in Seq(Nat), Len(names) > 0, \A i \in 1..Len(names) : names[i] = i - 1,
           NEW cfg, cfg.off = {}, cfg.primary \in Nat
    PROVE  /\ Resolve(names, cfg) \in Seq(ResolvedRec) /\ Len(Resolve(names, cfg)) = Len(names)
           /\ \A i \in 1..Len(names) :
                 /\ Resolve(names, cfg)[i].name = i - 1
                 /\ Resolve(names, cfg)[i].enabled
                 /\ Resolve(names, cfg)[i].primary <=> i = Chosen(Len(names), cfg)
<1> DEFINE on == {i \in 1..Len(names) : names[i] \notin cfg.off}
           chosen == {i \in on : names[i] = cfg.primary}
           primary == CASE chosen # {} -> Min(chosen)
                        [] chosen = {} /\ on # {} -> Min(on)
                        [] OTHER -> 1
<1>1. Len(names) \in Nat /\ on = 1..Len(names) /\ 1 \in on  OBVIOUS
<1>2. primary = Chosen(Len(names), cfg)
  <2>1. CASE cfg.primary < Len(names)
    <3>1. cfg.primary + 1 \in chosen /\ \A i \in chosen : i = cfg.primary + 1  BY <1>1, <2>1
    <3>2. chosen \in SUBSET Nat  BY <1>1
    <3>3. primary = Min(chosen)  BY <3>1
    <3> HIDE DEF chosen, primary
    <3>4. Min(chosen) \in chosen  BY <3>1, <3>2, MinNat
    <3> QED  BY <2>1, <3>1, <3>3, <3>4 DEF Chosen
  <2>2. CASE ~(cfg.primary < Len(names))
    <3>1. chosen = {}  BY <1>1, <2>2
    <3>2. primary = Min(on)  BY <1>1, <3>1
    <3>3. Min(1..Len(names)) = 1
      <4> DEFINE S == 1..Len(names)
      <4>1. 1 \in S /\ \A j \in S : 1 <= j  BY <1>1
      <4>2. \A x \in S : (\A j \in S : x <= j) => x = 1
        <5> SUFFICES ASSUME NEW x \in S, \A j \in S : x <= j PROVE x = 1  OBVIOUS
        <5>1. x <= 1 /\ x \in Nat /\ 1 <= x  BY <4>1, <1>1
        <5> QED  BY <5>1
      <4> HIDE DEF S
      <4>3. Min(S) = 1  BY <4>1, <4>2 DEF Min
      <4> QED  BY <4>3 DEF S
    <3> QED  BY <1>1, <2>2, <3>2, <3>3 DEF Chosen
  <2> QED  BY <2>1, <2>2
<1>3. Resolve(names, cfg) = [i \in 1..Len(names) |->
            [name |-> names[i], enabled |-> on = {} \/ i \in on, primary |-> i = primary]]
  BY DEF Resolve
<1>4. /\ Resolve(names, cfg) \in Seq(ResolvedRec) /\ Len(Resolve(names, cfg)) = Len(names)
      /\ \A i \in 1..Len(names) : Resolve(names, cfg)[i].name = names[i]
  BY ResolveEntry
<1> HIDE DEF primary, chosen, on
<1>5. ASSUME NEW i \in 1..Len(names)
      PROVE  /\ Resolve(names, cfg)[i].name = i - 1
             /\ Resolve(names, cfg)[i].enabled
             /\ Resolve(names, cfg)[i].primary <=> i = Chosen(Len(names), cfg)
  <2>1. Resolve(names, cfg)[i] =
            [name |-> names[i], enabled |-> on = {} \/ i \in on, primary |-> i = primary]
    BY <1>3
  <2>2. /\ Resolve(names, cfg)[i].enabled = (on = {} \/ i \in on)
        /\ Resolve(names, cfg)[i].primary = (i = primary)
    BY <2>1
  <2>3. i \in on  BY <1>1
  <2> QED  BY <1>2, <1>4, <2>2, <2>3
<1> QED  BY <1>4, <1>5

(* The flags that are written when all outputs are resolved. *)
LEMMA SyncsDock ==
    ASSUME NEW reg \in Seq(Entry), NEW resolved \in Seq(ResolvedRec), Len(resolved) = Len(reg),
           \A i \in 1..Len(reg) : reg[i].name = i - 1 /\ resolved[i].name = i - 1
    PROVE  \A i \in 1..Len(reg) : SyncPrimaryFlags(reg, resolved)[i].primary = resolved[i].primary
<1> DEFINE last(name) == SelectLastInSeq(resolved, LAMBDA r : r.name = name)
<1> SUFFICES ASSUME NEW i \in 1..Len(reg)
             PROVE  SyncPrimaryFlags(reg, resolved)[i].primary = resolved[i].primary
  OBVIOUS
<1>0. Len(reg) \in Nat /\ reg[i] \in Entry  BY LenProperties, ElementOfSeq
<1>1. last(i - 1) = i
  <2> DEFINE I == {k \in 1..Len(resolved) : resolved[k].name = i - 1}
  <2>1. i \in I /\ I \in SUBSET (1..Len(reg))  BY <1>0
  <2>2. \A k \in I : k = i  BY <1>0
  <2>3. last(i - 1) = IF I # {} THEN Max(I) ELSE 0
    BY DEF SelectLastInSeq
  <2> HIDE DEF I, last
  <2>4. Max(I) \in I  BY <1>0, <2>1, MaxUpTo
  <2> QED  BY <2>1, <2>2, <2>3, <2>4
<1>2. SyncPrimaryFlags(reg, resolved)[i] =
         IF last(reg[i].name) = 0 THEN reg[i]
         ELSE [reg[i] EXCEPT !.primary = resolved[last(reg[i].name)].primary]
  BY DEF SyncPrimaryFlags
<1> HIDE DEF last
<1>3. SyncPrimaryFlags(reg, resolved)[i] = [reg[i] EXCEPT !.primary = resolved[i].primary]
  BY <1>0, <1>1, <1>2
<1> QED  BY <1>0, <1>3 DEF Entry

(* An output that is registered under the next name and pushed. *)
LEMMA ArrivesAligned ==
    ASSUME IInv, Aligned, NEW c \in Connectors, NEW crtc \in Crtcs,
           NEW resolved \in Seq(ResolvedRec),
           RegisterOutput(Len(registry), resolved), PushOutput(c, crtc, Len(registry)),
           disabled' = disabled
    PROVE  /\ Aligned' /\ Len(registry') = Len(registry) + 1
           /\ KnownConnectors' = KnownConnectors \cup {c}
           /\ registry' = SyncPrimaryFlags(Upsert(registry, nextId, Len(registry)), resolved)
           /\ Upsert(registry, nextId, Len(registry)) \in Seq(Entry)
           /\ Len(Upsert(registry, nextId, Len(registry))) = Len(registry) + 1
           /\ \A i \in 1..Len(registry) + 1 : Upsert(registry, nextId, Len(registry))[i].name = i - 1
<1> DEFINE n == Len(registry)
           up == Upsert(registry, nextId, n)
           e == [id |-> nextId + 1, name |-> n, primary |-> registry = <<>>]
           d == [conn |-> c, crtc |-> crtc, name |-> n, id |-> IdOfName(registry', n)]
           o == [conn |-> c, name |-> n]
<1>1. /\ registry \in Seq(Entry) /\ outputs \in Seq(OutputRec) /\ drm \in Seq(DrmRec)
      /\ n \in Nat /\ Len(drm) = n /\ Len(outputs) = n /\ nextId \in Nat /\ disabled = {}
      /\ \A i \in 1..n : /\ registry[i].name = i - 1
                         /\ drm[i].name = i - 1 /\ drm[i].id = registry[i].id
                         /\ outputs[i].name = i - 1 /\ outputs[i].conn = drm[i].conn
  BY DockTypes DEF Aligned, IInv, RegistryCore
<1>2. up = Append(registry, e) /\ e \in Entry /\ e.name = n
  <2>1. n \notin Names(registry)  BY <1>1 DEF Names
  <2> QED  BY <1>1, <2>1 DEF Upsert, Entry, NoOutput
<1> HIDE DEF e
<1>3. /\ up \in Seq(Entry) /\ Len(up) = n + 1 /\ up[n + 1] = e
      /\ \A i \in 1..n : up[i] = registry[i]
  BY <1>1, <1>2, AppendProperties
<1> HIDE DEF up
<1>4. registry' = SyncPrimaryFlags(up, resolved)  BY DEF RegisterOutput, up
<1>5. registry' \in Seq(Entry) /\ SameOutputs(registry', up)  BY <1>3, <1>4, SyncPrimaryFlagsEntry
<1>6. /\ Len(registry') = n + 1
      /\ \A i \in 1..n + 1 : registry'[i].id = up[i].id /\ registry'[i].name = up[i].name
  BY <1>3, <1>5 DEF SameOutputs
<1>7. \A i \in 1..n + 1 : up[i].name = i - 1  BY <1>1, <1>2, <1>3
<1>8. IdOfName(registry', n) = registry'[n + 1].id
  <2> DEFINE p == PositionOfName(registry', n)
  <2>1. n \in Names(registry')
    <3>1. n + 1 \in 1..Len(registry') /\ registry'[n + 1].name = n  BY <1>1, <1>6, <1>7
    <3> QED  BY <3>1 DEF Names
  <2>2. p \in 1..n + 1 /\ registry'[p].name = n  BY <1>5, <1>6, <2>1, FoundByName
  <2>3. IdOfName(registry', n) = registry'[p].id  BY <2>1 DEF IdOfName
  <2> HIDE DEF p
  <2>4. p = n + 1  BY <1>1, <1>6, <1>7, <2>2
  <2> QED  BY <2>3, <2>4
<1>9. outputs' = Append(outputs, o) /\ drm' = Append(drm, d)  BY DEF PushOutput
<1>10. o.conn = c /\ o.name = n /\ d.conn = c /\ d.name = n /\ d.id = registry'[n + 1].id
  BY <1>8
<1> HIDE DEF o, d
<1>11. /\ Len(outputs') = n + 1 /\ outputs'[n + 1] = o /\ \A i \in 1..n : outputs'[i] = outputs[i]
       /\ Len(drm') = n + 1 /\ drm'[n + 1] = d /\ \A i \in 1..n : drm'[i] = drm[i]
  BY <1>1, <1>9, AppendProperties
<1>12. Aligned'
  <2>1. ASSUME NEW i \in 1..n
        PROVE  /\ registry'[i].name = i - 1
               /\ drm'[i].name = i - 1 /\ drm'[i].id = registry'[i].id
               /\ outputs'[i].name = i - 1 /\ outputs'[i].conn = drm'[i].conn
    <3>1. /\ registry'[i].id = registry[i].id /\ registry'[i].name = registry[i].name
          /\ drm'[i] = drm[i] /\ outputs'[i] = outputs[i]
      BY <1>1, <1>3, <1>6, <1>11
    <3> QED  BY <1>1, <3>1
  <2>2. /\ registry'[n + 1].name = n
        /\ drm'[n + 1].name = n /\ drm'[n + 1].id = registry'[n + 1].id
        /\ outputs'[n + 1].name = n /\ outputs'[n + 1].conn = drm'[n + 1].conn
    BY <1>1, <1>6, <1>7, <1>10, <1>11
  <2>3. \A i \in 1..n + 1 : i \in 1..n \/ (i = n + 1 /\ i - 1 = n)  BY <1>1
  <2>4. disabled' = {}  BY <1>1
  <2> HIDE DEF n
  <2> QED  BY <1>6, <1>11, <2>1, <2>2, <2>3, <2>4 DEF Aligned
<1>13. KnownConnectors' = KnownConnectors \cup {c}
  <2>1. \A i \in 1..n + 1 : (i \in 1..n /\ drm'[i].conn = drm[i].conn) \/ drm'[i].conn = c
    BY <1>1, <1>10, <1>11
  <2>2. \A i \in 1..n : i \in 1..n + 1 /\ drm'[i].conn = drm[i].conn  BY <1>1, <1>11
  <2>3. n + 1 \in 1..n + 1 /\ drm'[n + 1].conn = c  BY <1>1, <1>10, <1>11
  <2> HIDE DEF n
  <2>4. {drm'[i].conn : i \in 1..n + 1} = {drm[i].conn : i \in 1..n} \cup {c}
    BY <2>1, <2>2, <2>3
  <2> QED  BY <1>1, <1>11, <2>4 DEF KnownConnectors
<1> QED  BY <1>3, <1>4, <1>6, <1>7, <1>12, <1>13 DEF up

(* The output that came last goes. *)
LEMMA LastLeaves ==
    ASSUME IInv, Tracked, Aligned, LastLeft, Flagged(Len(registry)), UNCHANGED << disabled, config, connected >>,
           registry' = RemoveEntry(registry, Len(registry)),
           outputs' = RemoveAt(outputs, Len(registry)), drm' = RemoveAt(drm, Len(registry))
    PROVE  Aligned' /\ Attached' /\ Flagged(Len(registry))'
<1> DEFINE n == Len(registry)
           r == RemoveAt(registry, n)
<1>1. /\ registry \in Seq(Entry) /\ outputs \in Seq(OutputRec) /\ drm \in Seq(DrmRec)
      /\ n \in Nat /\ Len(drm) = n /\ Len(outputs) = n /\ disabled = {} /\ n > 1
      /\ n \in 1..n /\ config.primary \in Nat
      /\ \A i \in 1..n : /\ registry[i].name = i - 1
                         /\ drm[i].name = i - 1 /\ drm[i].id = registry[i].id
                         /\ outputs[i].name = i - 1 /\ outputs[i].conn = drm[i].conn
  BY DockTypes DEF Aligned, LastLeft
<1>2. /\ r \in Seq(Entry) /\ Len(r) = n - 1
      /\ \A i \in 1..n - 1 : r[i] = IF i < n THEN registry[i] ELSE registry[i + 1]
  BY <1>1, RemoveAtProperties
<1>3. /\ Len(outputs') = n - 1
      /\ \A i \in 1..n - 1 : outputs'[i] = IF i < n THEN outputs[i] ELSE outputs[i + 1]
  BY <1>1, RemoveAtProperties
<1>4. /\ Len(drm') = n - 1
      /\ \A i \in 1..n - 1 : drm'[i] = IF i < n THEN drm[i] ELSE drm[i + 1]
  BY <1>1, RemoveAtProperties
<1>5. registry' = EnsurePrimary(r)  BY DEF RemoveEntry
<1> HIDE DEF r
<1>6. registry' \in Seq(Entry) /\ SameOutputs(registry', r)  BY <1>2, <1>5, EnsurePrimaryEntry
<1>7. \A i \in 1..n - 1 : i \in 1..n /\ i < n  BY <1>1
<1>8. Aligned'
  <2>1. Len(registry') = n - 1  BY <1>2, <1>6 DEF SameOutputs
  <2>2. ASSUME NEW i \in 1..n - 1
        PROVE  /\ registry'[i].name = i - 1
               /\ drm'[i].name = i - 1 /\ drm'[i].id = registry'[i].id
               /\ outputs'[i].name = i - 1 /\ outputs'[i].conn = drm'[i].conn
    <3>1. registry'[i].name = r[i].name /\ registry'[i].id = r[i].id
      BY <1>6, <2>1 DEF SameOutputs
    <3>2. r[i] = registry[i] /\ outputs'[i] = outputs[i] /\ drm'[i] = drm[i] /\ i \in 1..n
      BY <1>2, <1>3, <1>4, <1>7
    <3> QED  BY <1>1, <3>1, <3>2
  <2> HIDE DEF n
  <2> QED  BY <1>1, <1>3, <1>4, <2>1, <2>2 DEF Aligned
<1>9. Attached'
  <2>1. KnownConnectors = {drm[i].conn : i \in 1..n}  BY <1>1 DEF KnownConnectors
  <2>2. KnownConnectors' = {drm'[i].conn : i \in 1..n - 1}  BY <1>1, <1>4 DEF KnownConnectors
  <2>3. connected = KnownConnectors \ {drm[n].conn}  BY <1>1 DEF LastLeft
  <2>4. \A i \in 1..n - 1 : drm'[i].conn \in connected
    <3> SUFFICES ASSUME NEW i \in 1..n - 1 PROVE drm'[i].conn \in connected  OBVIOUS
    <3>1. drm'[i] = drm[i] /\ i \in 1..n /\ i # n  BY <1>4, <1>7
    <3>2. drm[i].conn # drm[n].conn  BY <1>1, <3>1 DEF Tracked, ConnectorTrackedOnce
    <3> QED  BY <2>1, <2>3, <3>1, <3>2
  <2> QED  BY <2>2, <2>4 DEF Attached
<1>10. Flagged(Len(registry))'
  <2>1. Len(registry') = n - 1 /\ config' = config  BY <1>2, <1>6 DEF SameOutputs
  <2>2. \A i \in 1..n - 1 : r[i].primary <=> i = Chosen(n, config)
    BY <1>2, <1>7 DEF Flagged
  <2> SUFFICES \A i \in 1..n - 1 : registry'[i].primary <=> i = Chosen(n - 1, config)
    BY <2>1 DEF Flagged
  <2>3. CASE Chosen(n, config) < n
    <3>1. Chosen(n - 1, config) = Chosen(n, config) /\ Chosen(n, config) \in 1..n - 1
      BY <1>1, <2>3 DEF Chosen
    <3>2. r[Chosen(n, config)].primary  BY <2>2, <3>1
    <3>3. registry' = r  BY <1>2, <1>5, <3>1, <3>2 DEF EnsurePrimary
    <3> QED  BY <2>2, <3>1, <3>3
  <2>4. CASE ~(Chosen(n, config) < n)
    <3>1. Chosen(n, config) = n /\ Chosen(n - 1, config) = 1  BY <1>1, <2>4 DEF Chosen
    <3>2. \A i \in 1..n - 1 : ~r[i].primary  BY <1>7, <2>2, <3>1
    <3>3. r # <<>> /\ 1 \in 1..n - 1  BY <1>1, <1>2
    <3>4. registry' = [r EXCEPT ![1].primary = TRUE]  BY <1>2, <1>5, <3>2, <3>3 DEF EnsurePrimary
    <3>5. DOMAIN r = 1..n - 1 /\ \A i \in 1..n - 1 : r[i] \in Entry
      BY <1>2, LenProperties, ElementOfSeq
    <3>6. registry'[1].primary /\ \A i \in 1..n - 1 : i # 1 => registry'[i] = r[i]
      BY <3>3, <3>4, <3>5 DEF Entry
    <3> QED  BY <3>1, <3>2, <3>6
  <2> QED  BY <2>3, <2>4
<1> QED  BY <1>8, <1>9, <1>10

(* An agreement of the three lists, by their alignment. *)
LEMMA AlignedAgree == IInv /\ Tracked /\ DockInv => ListsAgree /\ ConfiguredPrimary
<1> SUFFICES ASSUME IInv, Tracked, DockInv, Idle PROVE ListsAgree /\ ConfiguredPrimary
  BY DEF ListsAgree, ConfiguredPrimary
<1> DEFINE n == Len(registry)
<1>1. /\ registry \in Seq(Entry) /\ n \in Nat /\ Len(drm) = n /\ Len(outputs) = n
      /\ outputs \in Seq(OutputRec) /\ drm \in Seq(DrmRec) /\ config.primary \in Nat
      /\ \A i \in 1..n : /\ registry[i].name = i - 1
                         /\ drm[i].name = i - 1 /\ drm[i].id = registry[i].id
                         /\ outputs[i].name = i - 1 /\ outputs[i].conn = drm[i].conn
  BY DockTypes DEF DockInv, Aligned
<1>2. \A i \in 1..n : IdOfName(registry, i - 1) = registry[i].id  BY FoundAligned DEF DockInv
<1>3. Flagged(n)
  <2>1. Len(work) = 0  BY DockTypes, EmptySeq DEF Idle
  <2>2. ~StartLeft  BY <2>1 DEF StartLeft
  <2>3. ~AddLeft /\ ~RemoveLeft  BY <2>1 DEF AddLeft, RemoveLeft
  <2>4. ~FlagsLeft  BY <1>1, <2>1 DEF FlagsLeft
  <2> QED  BY <2>2, <2>3, <2>4 DEF DockInv, DockWork, NoneLeft
<1>4. Ids(registry) = {drm[i].id : i \in 1..Len(drm)}  BY <1>1 DEF Ids
<1>5. \A i \in 1..Len(drm) : drm[i].id = IdOfName(registry, drm[i].name)  BY <1>1, <1>2
<1>6. {outputs[i] : i \in 1..Len(outputs)} = {[conn |-> drm[i].conn, name |-> drm[i].name] : i \in 1..Len(drm)}
  <2>1. \A i \in 1..n : outputs[i] = [conn |-> drm[i].conn, name |-> drm[i].name]
    <3> SUFFICES ASSUME NEW i \in 1..n PROVE outputs[i] = [conn |-> drm[i].conn, name |-> drm[i].name]
      OBVIOUS
    <3>1. outputs[i] \in OutputRec  BY <1>1, ElementOfSeq
    <3>2. outputs[i].conn = drm[i].conn /\ outputs[i].name = drm[i].name  BY <1>1
    <3> QED  BY <3>1, <3>2 DEF OutputRec
  <2> QED  BY <1>1, <2>1
<1>7. ASSUME config.primary \in Names(registry)
      PROVE  FallbackId(registry) = IdOfName(registry, config.primary)
  <2>1. PICK k \in 1..n : registry[k].name = config.primary  BY <1>7 DEF Names
  <2>2. k - 1 = config.primary /\ Chosen(n, config) = k  BY <1>1, <2>1 DEF Chosen
  <2> DEFINE flagged == {i \in 1..Len(registry) : registry[i].primary}
  <2>3. k \in flagged /\ (\A i \in flagged : i = k) /\ flagged \in SUBSET Nat
    BY <1>1, <1>3, <2>2 DEF Flagged
  <2>4. registry # <<>>  BY <1>1, <2>1
  <2>5. FallbackId(registry) = registry[IF flagged = {} THEN 1 ELSE Min(flagged)].id
    BY <2>4 DEF FallbackId
  <2> HIDE DEF flagged
  <2>6. Min(flagged) \in flagged  BY <2>3, MinNat
  <2>7. FallbackId(registry) = registry[k].id  BY <2>3, <2>5, <2>6
  <2> QED  BY <1>2, <2>2, <2>7
<1> QED  BY <1>4, <1>5, <1>6, <1>7 DEF ListsAgree, ConfiguredPrimary

-----------------------------------------------------------------------------
(* The steps. *)

LEMMA FirstLeft ==
    ASSUME IInv, DockInv, NEW op, Running(op)
    PROVE  /\ op \in {"boot", "primaries"} => StartLeft
           /\ op = "add" => AddLeft
           /\ op = "remove" => RemoveLeft
           /\ op \in {"apply", "sync"} => FlagsLeft
<1>1. /\ work \in Seq(Step) /\ work # <<>> /\ Head(work) = work[1] /\ work[1].op = op
      /\ 1 \in 1..Len(work) /\ Len(registry) \in Nat
  BY DockTypes, FirstOfWork DEF Running
<1>2. StartLeft => op \in {"boot", "primaries"}
  <2> SUFFICES ASSUME StartLeft PROVE op \in {"boot", "primaries"}  OBVIOUS
  <2>1. PICK k \in Nat : Len(work) = k + 1 /\ work[k + 1].op = "primaries" /\ \A j \in 1..k : work[j].op = "boot"
    BY DEF StartLeft
  <2>2. k = 0 \/ 1 \in 1..k  OBVIOUS
  <2> QED  BY <1>1, <2>1, <2>2
<1>3. FlagsLeft => op \in {"apply", "sync"}
  <2> SUFFICES ASSUME FlagsLeft PROVE op \in {"apply", "sync"}  OBVIOUS
  <2>1. PICK m \in 0..Len(registry) : Len(work) = m + 1 /\ work[m + 1].op = "sync" /\ \A j \in 1..m : work[j].op = "apply"
    BY DEF FlagsLeft
  <2>2. m = 0 \/ 1 \in 1..m  BY <1>1
  <2> QED  BY <1>1, <2>1, <2>2
<1>4. (AddLeft => op = "add") /\ (RemoveLeft => op = "remove") /\ ~NoneLeft
  BY <1>1 DEF AddLeft, RemoveLeft, NoneLeft, Idle
<1> QED  BY <1>1, <1>2, <1>3, <1>4 DEF DockInv, DockWork

(* A step that leaves the lists and the connectors alone. *)
LEMMA KeepsAligned ==
    ASSUME DockInv, SameOutputs(registry', registry), UNCHANGED << connected, outputs, drm, disabled >>
    PROVE  Aligned' /\ (Attached \/ LastLeft)' /\ (Attached => Attached') /\ (LastLeft => LastLeft')
<1>1. Len(registry') = Len(registry) /\ \A i \in 1..Len(registry) : registry'[i].id = registry[i].id /\ registry'[i].name = registry[i].name
  BY DEF SameOutputs
<1>2. Aligned'  BY <1>1 DEF DockInv, Aligned
<1> QED  BY <1>2 DEF DockInv, Attached, LastLeft, KnownConnectors

LEMMA DockBoots ==
    ASSUME TInv, DockInv, BootOutput
    PROVE  DockInv'
<1> DEFINE n == Len(registry)
           s == work[1]
<1>0. IInv /\ Running("boot")  BY DEF TInv, BootOutput
<1>1. /\ work \in Seq(Step) /\ work # <<>> /\ n \in Nat /\ Len(work) \in Nat /\ Head(work) = work[1]
      /\ work' = Tail(work) /\ Len(work') = Len(work) - 1 /\ \A i \in 1..Len(work) - 1 : work'[i] = work[i + 1]
      /\ s.op = "boot" /\ s.conn \in Connectors /\ s.crtc \in Crtcs
  BY <1>0, DockTypes, FirstOfWork, HeadOfWork DEF BootOutput, Running
<1>2. PICK k \in Nat :
        /\ Len(work) = k + 1
        /\ work[k + 1].op = "primaries"
        /\ Len(work[k + 1].names) = n + k
        /\ \A i \in 1..n + k : work[k + 1].names[i] = i - 1
        /\ \A j \in 1..k : /\ work[j].op = "boot" /\ work[j].name = n + j - 1
                           /\ work[j].enabled /\ work[j].conn \in connected
        /\ k # 0 => Attached
  BY <1>0, FirstLeft DEF StartLeft
<1>3. k # 0 /\ 1 \in 1..k  BY <1>1, <1>2
<1>4. s.enabled /\ s.name = n /\ s.conn \in connected /\ Attached  BY <1>1, <1>2, <1>3
<1> HIDE DEF s
<1>5. /\ RegisterOutput(n, <<>>) /\ PushOutput(s.conn, s.crtc, n)
      /\ UNCHANGED << disabled, connected, config >>
  BY <1>1, <1>4 DEF BootOutput, hardware, s
<1>6. Aligned' /\ Len(registry') = n + 1 /\ KnownConnectors' = KnownConnectors \cup {s.conn}
  BY <1>0, <1>1, <1>5, NoResolved, ArrivesAligned DEF DockInv
<1>7. Attached'  BY <1>4, <1>5, <1>6 DEF Attached
<1>8. StartLeft'
  <2>1. k - 1 \in Nat /\ Len(work') = (k - 1) + 1 /\ work'[(k - 1) + 1] = work[k + 1]
    BY <1>1, <1>2, <1>3
  <2>2. Len(registry') + (k - 1) = n + k  BY <1>1, <1>3, <1>6
  <2>3. ASSUME NEW j \in 1..k - 1
        PROVE  /\ work'[j].op = "boot" /\ work'[j].name = Len(registry') + j - 1
               /\ work'[j].enabled /\ work'[j].conn \in connected'
    <3>1. j + 1 \in 1..k /\ work'[j] = work[j + 1]  BY <1>1, <1>2
    <3>2. n + (j + 1) - 1 = Len(registry') + j - 1  BY <1>1, <1>6
    <3> QED  BY <1>2, <1>5, <3>1, <3>2
  <2>4. \A i \in 1..Len(registry') + (k - 1) : work'[(k - 1) + 1].names[i] = i - 1
    BY <1>2, <2>1, <2>2
  <2>5. work'[(k - 1) + 1].op = "primaries" /\ Len(work'[(k - 1) + 1].names) = Len(registry') + (k - 1)
    BY <1>2, <2>1, <2>2
  <2> DEFINE k1 == k - 1
  <2>6. /\ k1 \in Nat /\ Len(work') = k1 + 1 /\ work'[k1 + 1].op = "primaries"
        /\ Len(work'[k1 + 1].names) = Len(registry') + k1
        /\ \A i \in 1..Len(registry') + k1 : work'[k1 + 1].names[i] = i - 1
        /\ \A j \in 1..k1 : /\ work'[j].op = "boot" /\ work'[j].name = Len(registry') + j - 1
                            /\ work'[j].enabled /\ work'[j].conn \in connected'
    BY <2>1, <2>3, <2>4, <2>5
  <2> HIDE DEF k1
  <2> QED  BY <1>7, <2>6 DEF StartLeft
<1> QED  BY <1>6, <1>7, <1>8 DEF DockInv, DockWork

LEMMA DockPrimaries ==
    ASSUME TInv, DockInv, config.off = {}, BootPrimaries
    PROVE  DockInv'
<1> DEFINE n == Len(registry)
           names == Head(work).names
           resolved == Resolve(names, config)
<1>0. IInv /\ Running("primaries")  BY DEF TInv, BootPrimaries
<1>1. /\ work \in Seq(Step) /\ work # <<>> /\ n \in Nat /\ Len(work) \in Nat /\ Head(work) = work[1]
      /\ work' = Tail(work) /\ Len(work') = Len(work) - 1 /\ work[1].op = "primaries"
      /\ names \in Seq(Nat) /\ registry \in Seq(Entry) /\ config.primary \in Nat /\ config.off = {}
      /\ work' \in Seq(Step)
  BY <1>0, DockTypes, FirstOfWork, HeadOfWork DEF BootPrimaries, Running
<1>2. PICK k \in Nat :
        /\ Len(work) = k + 1
        /\ Len(work[k + 1].names) = n + k
        /\ \A i \in 1..n + k : work[k + 1].names[i] = i - 1
        /\ \A j \in 1..k : work[j].op = "boot"
  BY <1>0, FirstLeft DEF StartLeft
<1>3. k = 0
  <2>1. k = 0 \/ 1 \in 1..k  OBVIOUS
  <2> QED  BY <1>1, <1>2, <2>1
<1>4. Len(names) = n /\ \A i \in 1..n : names[i] = i - 1  BY <1>1, <1>2, <1>3
<1>5. resolved \in Seq(ResolvedRec) /\ Len(resolved) = n /\ \A i \in 1..n : resolved[i].name = i - 1
  BY <1>1, <1>4, ResolveEntry
<1>6. registry' = SyncPrimaryFlags(registry, resolved) /\ UNCHANGED << connected, config, outputs, drm, disabled >>
  BY DEF BootPrimaries, hardware, backend
<1>7. n # 0 => \A i \in 1..n : resolved[i].primary <=> i = Chosen(n, config)
  <2> HIDE DEF names
  <2> SUFFICES ASSUME n # 0 PROVE \A i \in 1..n : resolved[i].primary <=> i = Chosen(n, config)
    OBVIOUS
  <2>1. Len(names) > 0 /\ \A i \in 1..Len(names) : names[i] = i - 1  BY <1>1, <1>4
  <2>2. \A i \in 1..Len(names) : resolved[i].primary <=> i = Chosen(Len(names), config)
    BY <1>1, <2>1, ResolvesDock
  <2> QED  BY <1>4, <2>2
<1> HIDE DEF resolved, names
<1>8. SameOutputs(registry', registry)  BY <1>1, <1>5, <1>6, SyncPrimaryFlagsEntry
<1>9. Aligned' /\ (Attached \/ LastLeft)'  BY <1>6, <1>8, KeepsAligned
<1>10. NoneLeft'
  <2>1. work' = <<>>  BY <1>1, <1>2, <1>3, EmptySeq
  <2>2. Len(registry') = n  BY <1>8 DEF SameOutputs
  <2>3. \A i \in 1..n : registry'[i].primary = resolved[i].primary
    BY <1>1, <1>5, <1>6, SyncsDock DEF DockInv, Aligned
  <2>4. \A i \in 1..n : n # 0  BY <1>1
  <2>5. \A i \in 1..n : registry'[i].primary <=> i = Chosen(n, config)  BY <1>7, <2>3, <2>4
  <2> QED  BY <1>6, <2>1, <2>2, <2>5 DEF NoneLeft, Idle, Flagged
<1> QED  BY <1>9, <1>10 DEF DockInv, DockWork

LEMMA DockPlugs ==
    ASSUME TInv, DockInv, NEW c \in Connectors, Plug(c) \/ Unplug(c), order' = "dock"
    PROVE  DockInv'
<1>0. /\ UNCHANGED << config, registry, outputs, drm, disabled, work >>
      /\ IInv /\ Len(drm) = Len(outputs) /\ Len(drm) \in Nat
      /\ \A i \in 1..Len(drm) : outputs[i].conn = drm[i].conn
  BY DockTypes DEF Plug, Unplug, registered, backend, TInv, DockInv, Aligned
<1>1. Aligned' /\ KnownConnectors' = KnownConnectors  BY <1>0 DEF DockInv, Aligned, KnownConnectors
<1>2. (NoneLeft => NoneLeft') /\ (FlagsLeft => FlagsLeft')
  BY <1>0 DEF NoneLeft, Idle, FlagsLeft, Flagged
<1>3. CASE Plug(c)
  <2>1. KnownConnectors \subseteq connected /\ connected' = connected \cup {c}  BY <1>3 DEF Plug, Docked
  <2>2. Attached' /\ Attached  BY <1>1, <2>1 DEF Attached
  <2>3. ~LastLeft
    <3> SUFFICES ASSUME LastLeft PROVE FALSE  OBVIOUS
    <3>1. drm[Len(drm)].conn \in KnownConnectors  BY <1>0 DEF LastLeft, KnownConnectors
    <3> QED  BY <2>1, <3>1 DEF LastLeft
  <2>4. StartLeft => StartLeft'  BY <1>0, <2>1, <2>2 DEF StartLeft
  <2>5. AddLeft => AddLeft'  BY <1>0, <2>1, <2>2 DEF AddLeft, Flagged
  <2>6. ~RemoveLeft  BY <2>3 DEF RemoveLeft
  <2> QED  BY <1>1, <1>2, <2>2, <2>4, <2>5, <2>6 DEF DockInv, DockWork
<1>4. CASE Unplug(c)
  <2>1. /\ KnownConnectors = connected /\ Len(drm) > 1 /\ c = drm[Len(drm)].conn
        /\ connected' = connected \ {c}
    BY <1>0, <1>4 DEF Unplug, Docked
  <2>2. LastLeft'  BY <1>0, <1>1, <2>1 DEF LastLeft
  <2>3. ~AddLeft
    <3> SUFFICES ASSUME AddLeft PROVE FALSE  OBVIOUS
    <3>1. 1 \in 1..Len(work) /\ work[1].op = "add"  BY DEF AddLeft
    <3>2. work[1].conns \cap KnownConnectors = {}  BY <3>1 DEF TInv, Queue, AddWork
    <3> QED  BY <2>1, <3>2 DEF AddLeft
  <2>4. ~RemoveLeft
    <3> SUFFICES ASSUME LastLeft PROVE FALSE  BY DEF RemoveLeft
    <3>1. drm[Len(drm)].conn \in KnownConnectors  BY <1>0 DEF LastLeft, KnownConnectors
    <3> QED  BY <2>1, <3>1 DEF LastLeft
  <2>5. StartLeft => StartLeft'
    <3> SUFFICES ASSUME StartLeft PROVE StartLeft'  OBVIOUS
    <3>1. PICK k \in Nat :
            /\ Len(work) = k + 1
            /\ work[k + 1].op = "primaries"
            /\ Len(work[k + 1].names) = Len(registry) + k
            /\ \A i \in 1..Len(registry) + k : work[k + 1].names[i] = i - 1
            /\ \A j \in 1..k : work[j].op = "boot" /\ work[j].conn \in connected
      BY DEF StartLeft
    <3>2. k = 0
      <4> SUFFICES ASSUME k # 0 PROVE FALSE  OBVIOUS
      <4>1. 1 \in 1..k /\ 1 \in 1..Len(work)  BY <3>1
      <4>2. work[1].op = "boot" /\ work[1].conn \in connected  BY <3>1, <4>1
      <4>3. work[1].conn \notin KnownConnectors  BY <4>1, <4>2 DEF TInv, Queue, BootWork
      <4> QED  BY <2>1, <4>2, <4>3
    <3>3. Len(work') = k + 1 /\ work' = work /\ registry' = registry  BY <1>0, <3>1
    <3> QED  BY <3>1, <3>2, <3>3 DEF StartLeft
  <2> QED  BY <1>1, <1>2, <2>2, <2>3, <2>4, <2>5 DEF DockInv, DockWork
<1> QED  BY <1>3, <1>4

LEMMA NothingOf == ASSUME NEW s \in Seq({}) PROVE s = <<>>
<1>1. \A i \in 1..Len(s) : s[i] \in {}  BY ElementOfSeq
<1>2. Len(s) \in Nat  BY LenProperties
<1>3. Len(s) = 0  BY <1>1, <1>2
<1> QED  BY <1>3, EmptySeq

(* A scan finds new displays, or that the last one left. *)
LEMMA DockScans ==
    ASSUME TInv, DockInv, ScanConnectors
    PROVE  DockInv'
<1> DEFINE n == Len(registry)
           added == connected \ KnownConnectors
           gone == {i \in 1..Len(drm) : drm[i].conn \notin connected}
           lost == {d.conn : d \in disabled} \ connected
           remove(conn, id) == [op |-> "remove", conn |-> conn, id |-> id]
           adding == IF added = {} THEN <<>> ELSE <<[op |-> "add", conns |-> added]>>
<1>1. /\ IInv /\ Idle /\ n \in Nat /\ Len(drm) = n /\ disabled = {}
      /\ UNCHANGED << connected, config, registry, outputs, drm, disabled >>
      /\ added # {} \/ gone # {} \/ lost # {}
  BY DockTypes DEF TInv, DockInv, Aligned, ScanConnectors, hardware, registered, backend
<1>2. PICK pos \in InOrder(gone), conns \in SetToSeqs(lost) :
        work' = adding
                \o [k \in 1..Len(pos) |->
                      remove(drm[pos[k]].conn, IdOfName(registry, drm[pos[k]].name))]
                \o [k \in 1..Len(conns) |-> remove(conns[k], NoOutput)]
  BY DEF ScanConnectors
<1> DEFINE first == [k \in 1..Len(pos) |->
                       remove(drm[pos[k]].conn, IdOfName(registry, drm[pos[k]].name))]
           second == [k \in 1..Len(conns) |-> remove(conns[k], NoOutput)]
           Item == {remove(drm[p].conn, IdOfName(registry, drm[p].name)) : p \in 1..n}
<1>3. pos \in Seq(gone) /\ Len(pos) \in Nat /\ \A k \in 1..Len(pos) : pos[k] \in gone
  <2>1. gone \in SUBSET (1..n)  BY <1>1
  <2> HIDE DEF gone
  <2>2. pos \in Seq(gone) /\ Len(pos) \in Nat  BY <1>1, <2>1, InOrderType
  <2> QED  BY <2>2, ElementOfSeq
<1>4. second = <<>>
  <2>1. lost = {}  BY <1>1
  <2>2. conns \in SetToSeqs({})  BY <2>1
  <2>3. conns \in Seq({})  BY <2>2, FS_EmptySet, SetToSeqsType
  <2>4. conns = <<>>  BY <2>3, NothingOf
  <2>5. Len(conns) = 0  BY <2>4, EmptySeq
  <2>6. second \in [1..0 -> {}]  BY <2>5
  <2> HIDE DEF second
  <2>7. second \in Seq({})  BY <2>6, SeqFromFunction
  <2> QED  BY <2>7, NothingOf
<1>5. first \in Seq(Item) /\ Len(first) = Len(pos) /\ \A k \in 1..Len(pos) :
         first[k] = remove(drm[pos[k]].conn, IdOfName(registry, drm[pos[k]].name))
  <2>1. \A k \in 1..Len(pos) : pos[k] \in 1..n  BY <1>1, <1>3
  <2>2. first \in [1..Len(pos) -> Item]  BY <2>1
  <2> HIDE DEF Item, first
  <2>3. first \in Seq(Item) /\ Len(first) = Len(pos)  BY <1>3, <2>2, SeqFromFunction
  <2> QED  BY <2>3 DEF first
<1>6. NoneLeft /\ Flagged(n)
  <2>1. Len(work) = 0  BY <1>1, EmptySeq DEF Idle
  <2>2. ~StartLeft  BY <2>1 DEF StartLeft
  <2>3. ~AddLeft /\ ~RemoveLeft  BY <2>1 DEF AddLeft, RemoveLeft
  <2>4. ~FlagsLeft  BY <1>1, <2>1 DEF FlagsLeft
  <2> QED  BY <2>2, <2>3, <2>4 DEF DockInv, DockWork, NoneLeft
<1>7. SameOutputs(registry', registry)  BY <1>1 DEF SameOutputs
<1>8. Aligned' /\ (Attached \/ LastLeft)' /\ (Attached => Attached') /\ (LastLeft => LastLeft')
  BY <1>1, <1>7, KeepsAligned
<1>9. Flagged(Len(registry))'  BY <1>1, <1>6 DEF Flagged
<1>10. work' = adding \o first \o second  BY <1>2
<1> HIDE DEF first, second, remove
<1>11. CASE Attached
  <2>1. gone = {} /\ lost = {}
    <3>1. KnownConnectors = {drm[i].conn : i \in 1..Len(drm)}  BY <1>1 DEF KnownConnectors
    <3> QED  BY <1>1, <1>11, <3>1 DEF Attached
  <2>2. added # {}  BY <1>1, <2>1
  <2> DEFINE item == [op |-> "add", conns |-> added]
  <2>3. item.op = "add" /\ item.conns = added /\ adding = <<item>>  BY <2>2
  <2>4. pos = <<>>  BY <1>3, <2>1, NothingOf
  <2>5. Len(first) = 0  BY <1>5, <2>4, EmptySeq
  <2>6. first = <<>>  BY <1>5, <2>5, EmptySeq
  <2> HIDE DEF item, adding
  <2>7. work' = <<item>>
    <3>1. <<item>> \in Seq({item})  OBVIOUS
    <3>2. <<item>> \o <<>> = <<item>>  BY <3>1, ConcatEmptySeq
    <3> QED  BY <1>4, <1>10, <2>3, <2>6, <3>2
  <2>8. Len(work') = 1 /\ work'[1] = item  BY <2>7
  <2>9. added \subseteq connected'  BY <1>1
  <2>10. AddLeft'  BY <1>8, <1>9, <1>11, <2>2, <2>3, <2>8, <2>9 DEF AddLeft
  <2> QED  BY <1>8, <2>10 DEF DockInv, DockWork
<1>12. CASE LastLeft
  <2>0. KnownConnectors = {drm[i].conn : i \in 1..n}  BY <1>1 DEF KnownConnectors
  <2>1. n > 1 /\ connected = KnownConnectors \ {drm[n].conn}  BY <1>1, <1>12 DEF LastLeft
  <2>2. added = {}  BY <2>1
  <2>3. gone = {n}
    <3>1. n \in gone  BY <1>1, <2>1
    <3>2. ASSUME NEW i \in gone PROVE i = n
      <4>1. i \in 1..n /\ drm[i].conn \in KnownConnectors /\ drm[i].conn \notin connected
        BY <1>1, <2>0
      <4>2. drm[i].conn = drm[n].conn /\ n \in 1..n  BY <1>1, <2>1, <4>1
      <4> QED  BY <1>1, <4>1, <4>2 DEF TInv, Tracked, ConnectorTrackedOnce
    <3> QED  BY <3>1, <3>2
  <2>4. Len(pos) = 1 /\ pos[1] = n
    <3>1. pos \in SetToSeqs({n})  BY <2>3 DEF InOrder
    <3>2. Cardinality({n}) = 1  BY FS_Singleton
    <3>3. pos \in [1..1 -> {n}]  BY <3>1, <3>2 DEF SetToSeqs
    <3> QED  BY <3>3, SeqFromFunction
  <2>5. /\ Len(first) = 1
        /\ first[1] = remove(drm[n].conn, IdOfName(registry, drm[n].name))
    BY <1>5, <2>4
  <2>6. work' = first
    <3>1. adding = <<>>  BY <2>2
    <3> HIDE DEF adding, Item
    <3>2. <<>> \o first = first /\ first \o <<>> = first  BY <1>5, ConcatEmptySeq
    <3> QED  BY <1>4, <1>10, <3>1, <3>2
  <2>7. IdOfName(registry, drm[n].name) = registry[n].id
    <3>1. n \in 1..n /\ drm[n].name = n - 1  BY <1>1, <2>1 DEF DockInv, Aligned
    <3> QED  BY <1>1, <3>1, FoundAligned DEF TInv, DockInv
  <2>8. /\ work'[1].op = "remove" /\ work'[1].conn = drm[n].conn /\ work'[1].id = registry[n].id
        /\ Len(work') = 1
    BY <2>5, <2>6, <2>7 DEF remove
  <2>9. RemoveLeft'  BY <1>1, <1>8, <1>9, <1>12, <2>8 DEF RemoveLeft
  <2> QED  BY <1>8, <2>9 DEF DockInv, DockWork
<1> QED  BY <1>11, <1>12 DEF DockInv

(* What is left when a connector of a scan is done. *)
LEMMA AddLeaves ==
    ASSUME work \in Seq(Step), AddLeft, NEW c \in work[1].conns, Head(work) = work[1], AddDone(c)
    PROVE  \/ work' = <<>>
           \/ /\ Len(work') = 1 /\ work'[1].op = "add"
              /\ work'[1].conns # {} /\ work'[1].conns \subseteq work[1].conns
<1> DEFINE rest == work[1].conns \ {c}
           again == [op |-> "add", conns |-> rest]
<1>1. Len(work) = 1 /\ work # <<>>
  <2>1. Len(work) = 1  BY DEF AddLeft
  <2>2. work = <<>> => Len(work) = 0  BY EmptySeq
  <2> QED  BY <2>1, <2>2
<1>2. Tail(work) = <<>>
  <2>1. Tail(work) \in Seq(Step) /\ Len(Tail(work)) = 0  BY <1>1, HeadTailProperties
  <2> QED  BY <2>1, EmptySeq
<1>3. CASE rest = {}  BY <1>2, <1>3 DEF AddDone
<1>4. CASE rest # {}
  <2>1. work' = <<again>> \o <<>>  BY <1>2, <1>4 DEF AddDone
  <2>2. again.op = "add" /\ again.conns = rest  OBVIOUS
  <2> HIDE DEF again
  <2>3. <<again>> \in Seq({again})  OBVIOUS
  <2>4. work' = <<again>>  BY <2>1, <2>3, ConcatEmptySeq
  <2> QED  BY <1>4, <2>2, <2>4
<1> QED  BY <1>3, <1>4

LEMMA DockSkips ==
    ASSUME TInv, DockInv, NEW c \in Connectors, AddOutputSkipped(c)
    PROVE  DockInv'
<1>1. /\ IInv /\ Running("add") /\ c \in Head(work).conns /\ AddDone(c)
      /\ UNCHANGED << connected, config, registry, outputs, drm, disabled >>
  BY DEF TInv, AddOutputSkipped, hardware, registered, backend
<1>2. AddLeft /\ Head(work) = work[1] /\ work \in Seq(Step)
  BY <1>1, FirstLeft, FirstOfWork, DockTypes DEF Running
<1>3. SameOutputs(registry', registry)  BY <1>1 DEF SameOutputs
<1>4. Aligned' /\ Attached'  BY <1>1, <1>2, <1>3, KeepsAligned DEF AddLeft
<1>5. Flagged(Len(registry))'  BY <1>1, <1>2 DEF Flagged, AddLeft
<1>6. \/ work' = <<>>
      \/ /\ Len(work') = 1 /\ work'[1].op = "add"
         /\ work'[1].conns # {} /\ work'[1].conns \subseteq work[1].conns
  BY <1>1, <1>2, AddLeaves
<1>7. NoneLeft' \/ AddLeft'  BY <1>1, <1>2, <1>4, <1>5, <1>6 DEF NoneLeft, Idle, AddLeft
<1> QED  BY <1>4, <1>7 DEF DockInv, DockWork

(* A new display is registered with the flags of the configuration. *)
LEMMA DockAdds ==
    ASSUME TInv, DockInv, config.off = {}, NEW c \in Connectors, AddOutput(c)
    PROVE  DockInv'
<1> DEFINE n == Len(registry)
           crtc == Min(FreeCrtcs)
           names == Append(NamesOf(registry), GeneratedName)
           resolved == Resolve(names, config)
           mine == SelectInSeq(resolved, LAMBDA r : r.name = GeneratedName)
           up == Upsert(registry, nextId, n)
<1>1. /\ IInv /\ Running("add") /\ c \in Head(work).conns /\ AddDone(c) /\ c \in connected
      /\ UNCHANGED << connected, config >>
      /\ FreeCrtcs # {}
  BY DEF TInv, AddOutput, hardware
<1>2. /\ AddLeft /\ Head(work) = work[1] /\ work \in Seq(Step) /\ registry \in Seq(Entry)
      /\ n \in Nat /\ Len(outputs) = n /\ config.primary \in Nat /\ config.off = {}
      /\ GeneratedName = n
  BY <1>1, FirstLeft, FirstOfWork, DockTypes DEF Running, DockInv, Aligned, GeneratedName
<1>3. /\ names \in Seq(Nat) /\ Len(names) = n + 1 /\ \A i \in 1..n + 1 : names[i] = i - 1
  <2>1. /\ NamesOf(registry) \in Seq(Nat) /\ Len(NamesOf(registry)) = n
        /\ \A i \in 1..n : NamesOf(registry)[i] = i - 1
    BY <1>2, NamesOfEntry DEF NamesOf, DockInv, Aligned
  <2>2. /\ names \in Seq(Nat) /\ Len(names) = n + 1 /\ names[n + 1] = n
        /\ \A i \in 1..n : names[i] = NamesOf(registry)[i]
    BY <1>2, <2>1, AppendProperties
  <2> HIDE DEF names
  <2>3. \A i \in 1..n + 1 : i \in 1..n \/ i = n + 1  BY <1>2
  <2>4. \A i \in 1..n : names[i] = i - 1  BY <2>1, <2>2
  <2>5. n = (n + 1) - 1  BY <1>2
  <2>6. names[n + 1] = (n + 1) - 1  BY <2>2, <2>5
  <2> QED  BY <2>2, <2>3, <2>4, <2>6
<1>4. /\ resolved \in Seq(ResolvedRec) /\ Len(resolved) = n + 1
      /\ \A i \in 1..n + 1 : /\ resolved[i].name = i - 1 /\ resolved[i].enabled
                             /\ resolved[i].primary <=> i = Chosen(n + 1, config)
  <2> HIDE DEF names
  <2>0. Len(names) = n + 1 /\ n + 1 > 0  BY <1>2, <1>3
  <2>1. Len(names) > 0 /\ \A i \in 1..Len(names) : names[i] = i - 1  BY <1>3, <2>0
  <2>2. /\ resolved \in Seq(ResolvedRec) /\ Len(resolved) = Len(names)
        /\ \A i \in 1..Len(names) :
              /\ resolved[i].name = i - 1 /\ resolved[i].enabled
              /\ resolved[i].primary <=> i = Chosen(Len(names), config)
    BY <1>2, <1>3, <2>1, ResolvesDock
  <2> QED  BY <1>3, <2>2
<1>5. resolved[mine].enabled
  <2> DEFINE I == {k \in 1..Len(resolved) : resolved[k].name = GeneratedName}
  <2>1. mine = IF I # {} THEN Min(I) ELSE 0  BY DEF SelectInSeq
  <2> HIDE DEF names, resolved, mine
  <2>2. n + 1 \in I /\ I \in SUBSET Nat  BY <1>2, <1>4
  <2>3. Min(I) \in I
    <3> HIDE DEF I
    <3> QED  BY <2>2, MinNat
  <2> QED  BY <1>4, <2>1, <2>2, <2>3
<1>6. /\ RegisterOutput(n, resolved) /\ PushOutput(c, crtc, n) /\ disabled' = disabled
  BY <1>2, <1>5 DEF AddOutput
<1>7. crtc \in Crtcs
  <2>1. FreeCrtcs \in SUBSET Nat /\ FreeCrtcs \subseteq Crtcs  BY DEF FreeCrtcs, Crtcs
  <2> QED  BY <1>1, <2>1, MinNat
<1> HIDE DEF names, resolved, mine, crtc
<1>8. /\ Aligned' /\ Len(registry') = n + 1 /\ KnownConnectors' = KnownConnectors \cup {c}
      /\ registry' = SyncPrimaryFlags(up, resolved) /\ up \in Seq(Entry) /\ Len(up) = n + 1
      /\ \A i \in 1..n + 1 : up[i].name = i - 1
  BY <1>1, <1>4, <1>6, <1>7, ArrivesAligned DEF DockInv
<1>9. Attached'  BY <1>1, <1>2, <1>8 DEF Attached, AddLeft
<1> HIDE DEF up
<1>10. \A i \in 1..n + 1 : registry'[i].primary = resolved[i].primary
  BY <1>4, <1>8, SyncsDock
<1>11. Flagged(Len(registry))'  BY <1>1, <1>4, <1>8, <1>10 DEF Flagged
<1>12. \/ work' = <<>>
       \/ /\ Len(work') = 1 /\ work'[1].op = "add"
          /\ work'[1].conns # {} /\ work'[1].conns \subseteq work[1].conns
  BY <1>1, <1>2, AddLeaves
<1>13. NoneLeft' \/ AddLeft'  BY <1>1, <1>2, <1>9, <1>11, <1>12 DEF NoneLeft, Idle, AddLeft
<1> QED  BY <1>8, <1>9, <1>13 DEF DockInv, DockWork

(* The display that came last is removed from each list. *)
LEMMA DockRemoves ==
    ASSUME TInv, DockInv, RemoveOutput \/ RemoveDisabled
    PROVE  DockInv'
<1> DEFINE n == Len(registry)
           pos == DrmPositionOfConnector(Head(work).conn)
           name == drm[pos].name
           wl == OutputPositionOfName(name)
           id == IF Head(work).id # NoOutput THEN Head(work).id ELSE IdOfName(registry, name)
<1>1. IInv /\ Running("remove") /\ work' = Tail(work) /\ UNCHANGED << connected, config >>
  BY DEF TInv, RemoveOutput, RemoveDisabled, hardware
<1>2. /\ RemoveLeft /\ Head(work) = work[1] /\ work \in Seq(Step) /\ work # <<>>
      /\ Len(drm) = n /\ n \in Nat /\ n \in 1..n
  BY <1>1, FirstLeft, FirstOfWork, DockTypes DEF Running, DockInv, Aligned, RemoveLeft, LastLeft
<1>3. Head(work).conn = drm[n].conn /\ Head(work).id = registry[n].id /\ registry[n].id # NoOutput
  BY <1>1, <1>2, DockTypes DEF RemoveLeft
<1>4. /\ pos = n /\ registry[n].id \in Ids(registry) /\ PositionOfId(registry, registry[n].id) = n
      /\ OutputPositionOfName(n - 1) = n
  BY <1>1, <1>2, <1>3, FoundAligned DEF TInv, DockInv
<1>5. name = n - 1 /\ wl = n /\ id = registry[n].id
  BY <1>2, <1>3, <1>4 DEF DockInv, Aligned
<1>6. RemoveOutput
  <2>1. pos # 0  BY <1>2, <1>4
  <2> QED  BY <2>1 DEF RemoveDisabled
<1>7. /\ drm' = RemoveAt(drm, n) /\ outputs' = RemoveAt(outputs, n)
      /\ registry' = RemoveEntry(registry, n) /\ disabled' = disabled
  <2>1. /\ drm' = RemoveAt(drm, pos)
        /\ outputs' = IF wl = 0 THEN outputs ELSE RemoveAt(outputs, wl)
        /\ IF id \in Ids(registry) THEN UnregisterOutput(PositionOfId(registry, id))
           ELSE UNCHANGED <<registered, workspaceState>>
        /\ disabled' = disabled
    BY <1>6 DEF RemoveOutput
  <2> HIDE DEF pos, name, wl, id
  <2> QED  BY <1>2, <1>4, <1>5, <2>1 DEF UnregisterOutput
<1>8. Aligned' /\ Attached' /\ Flagged(Len(registry))'
  BY <1>1, <1>2, <1>7, LastLeaves DEF TInv, DockInv, RemoveLeft
<1>9. work' = <<>>
  <2>1. Tail(work) \in Seq(Step) /\ Len(Tail(work)) = 0  BY <1>2, HeadTailProperties DEF RemoveLeft
  <2> QED  BY <1>1, <2>1, EmptySeq
<1> QED  BY <1>8, <1>9 DEF DockInv, DockWork, NoneLeft, Idle

(* A reload has one flag to set for each output. *)
LEMMA DockReloads ==
    ASSUME TInv, DockInv, config.off = {}, NEW cfg \in Configs, ReloadConfig(cfg), order' = "dock"
    PROVE  DockInv'
<1> DEFINE n == Len(registry)
           hidden == {d.name : d \in disabled} \ Names(registry)
           step(r) == [op |-> "apply", name |-> r.name, primary |-> r.primary,
                       toggled |-> (r.name \in config.off) # (r.name \in cfg.off)]
           sync == [op |-> "sync"]
           names == NamesOf(registry)
           resolved == Resolve(names, cfg)
           Item == {step(resolved[i]) : i \in 1..n} \cup {sync}
           steps == [i \in 1..Len(resolved) |-> step(resolved[i])]
<1>1. /\ IInv /\ registry \in Seq(Entry) /\ n \in Nat /\ config.off = {} /\ cfg.off = {} /\ cfg.primary \in Nat
      /\ disabled = {} /\ config' = cfg
      /\ UNCHANGED << connected, registry, outputs, drm, disabled >>
      /\ \A i \in 1..n : registry[i].name = i - 1
  BY DockTypes DEF TInv, DockInv, Aligned, Docked, ReloadConfig, hardware, registered, backend
<1>2. PICK rest \in SetToSeqs(hidden) :
         work' = IF Resolve(NamesOf(registry) \o rest, cfg) = <<>> THEN <<>>
                 ELSE Append([i \in 1..Len(Resolve(NamesOf(registry) \o rest, cfg)) |->
                                 step(Resolve(NamesOf(registry) \o rest, cfg)[i])], sync)
  BY DEF ReloadConfig
<1>3. names \in Seq(Nat) /\ Len(names) = n /\ \A i \in 1..n : names[i] = i - 1
  BY <1>1, NamesOfEntry DEF NamesOf
<1>4. work' = IF resolved = <<>> THEN <<>> ELSE Append(steps, sync)
  <2>1. hidden = {}  BY <1>1
  <2>2. rest \in Seq({})  BY <2>1, FS_EmptySet, SetToSeqsType
  <2>3. rest = <<>>  BY <2>2, NothingOf
  <2>4. NamesOf(registry) \o rest = names  BY <1>3, <2>3, ConcatEmptySeq
  <2> HIDE DEF names, step, sync
  <2> QED  BY <1>2, <2>4
<1>5. SameOutputs(registry', registry)  BY <1>1 DEF SameOutputs
<1>6. Aligned' /\ (Attached \/ LastLeft)'  BY <1>1, <1>5, KeepsAligned
<1>7. Len(resolved) = n /\ resolved \in Seq(ResolvedRec)  BY <1>3, ResolveEntry
<1>8. CASE n = 0
  <2> HIDE DEF names, resolved, steps, sync
  <2>1. resolved = <<>>  BY <1>7, <1>8, EmptySeq
  <2>2. work' = <<>>  BY <1>4, <2>1
  <2>3. Flagged(Len(registry))'  BY <1>1, <1>8 DEF Flagged
  <2> QED  BY <1>6, <2>2, <2>3 DEF DockInv, DockWork, NoneLeft, Idle
<1>9. CASE n # 0
  <2>1. \A i \in 1..n : resolved[i].name = i - 1 /\ (resolved[i].primary <=> i = Chosen(n, cfg))
    <3> HIDE DEF names
    <3>1. Len(names) > 0 /\ \A i \in 1..Len(names) : names[i] = i - 1  BY <1>1, <1>3, <1>9
    <3>2. \A i \in 1..Len(names) :
              /\ resolved[i].name = i - 1
              /\ resolved[i].primary <=> i = Chosen(Len(names), cfg)
      BY <1>1, <1>3, <3>1, ResolvesDock
    <3> QED  BY <1>3, <3>2
  <2> HIDE DEF names, resolved
  <2>2. steps \in [1..n -> Item]  BY <1>7
  <2>3. \A i \in 1..n : steps[i] = step(resolved[i])  BY <1>7
  <2>4. \A i \in 1..n : /\ step(resolved[i]).op = "apply" /\ ~step(resolved[i]).toggled
                        /\ step(resolved[i]).name = i - 1
                        /\ step(resolved[i]).primary <=> i = Chosen(n, cfg)
    BY <1>1, <2>1
  <2>5. sync \in Item /\ sync.op = "sync"  OBVIOUS
  <2>6. resolved # <<>>
    <3>1. Len(<<>>) = 0  BY EmptySeq
    <3> QED  BY <1>7, <1>9, <3>1
  <2> HIDE DEF steps, Item, sync, step
  <2>7. steps \in Seq(Item) /\ Len(steps) = n  BY <1>1, <2>2, SeqFromFunction
  <2>8. /\ Len(work') = n + 1 /\ work'[n + 1] = sync
        /\ \A i \in 1..n : work'[i] = steps[i]
    BY <1>4, <2>5, <2>6, <2>7, AppendProperties
  <2>9. FlagsLeft'
    <3>1. n \in 0..Len(registry')  BY <1>1
    <3>2. \A j \in 1..n :
              /\ work'[j].op = "apply" /\ ~work'[j].toggled
              /\ work'[j].name = Len(registry') - n + j - 1
              /\ work'[j].primary <=> Len(registry') - n + j = Chosen(Len(registry'), config')
      <4> SUFFICES ASSUME NEW j \in 1..n
                   PROVE  /\ work'[j].op = "apply" /\ ~work'[j].toggled
                          /\ work'[j].name = Len(registry') - n + j - 1
                          /\ work'[j].primary <=> Len(registry') - n + j = Chosen(Len(registry'), config')
        OBVIOUS
      <4>1. work'[j] = step(resolved[j])  BY <2>3, <2>8
      <4>2. Len(registry') - n + j = j /\ Len(registry') - n + j - 1 = j - 1 /\ Len(registry') = n /\ config' = cfg
        BY <1>1
      <4> QED  BY <2>4, <4>1, <4>2
    <3>3. Flagged(Len(registry) - n)'  BY <1>1 DEF Flagged
    <3>4. Len(work') = n + 1 /\ work'[n + 1].op = "sync"  BY <2>5, <2>8
    <3>5. n' = n  BY <1>1
    <3> QED  BY <3>1, <3>2, <3>3, <3>4, <3>5 DEF FlagsLeft
  <2> QED  BY <1>6, <2>9 DEF DockInv, DockWork
<1> QED  BY <1>8, <1>9

(* One flag is set, or all are. *)
LEMMA DockFlags ==
    ASSUME TInv, DockInv, ApplyPrimary \/ FinishReload
    PROVE  DockInv'
<1> DEFINE n == Len(registry)
<1>1. /\ IInv /\ work \in Seq(Step) /\ work # <<>> /\ n \in Nat /\ registry \in Seq(Entry)
      /\ Head(work) = work[1] /\ 1 \in 1..Len(work)
      /\ work' = Tail(work) /\ Tail(work) \in Seq(Step)
      /\ Len(work) \in Nat /\ Len(work') = Len(work) - 1
      /\ \A i \in 1..Len(work) - 1 : work'[i] = work[i + 1]
      /\ UNCHANGED << connected, config, outputs, drm, disabled >>
      /\ \A i \in 1..n : registry[i].name = i - 1 /\ registry[i] \in Entry
  <2>1. IInv /\ work \in Seq(Step) /\ work # <<>> /\ work' = Tail(work)
        /\ UNCHANGED << connected, config, outputs, drm, disabled >>
    BY DockTypes DEF TInv, ApplyPrimary, FinishReload, Running, hardware, backend
  <2> QED  BY <2>1, DockTypes, FirstOfWork, HeadTailProperties DEF DockInv, Aligned
<1>2. Running("apply") \/ Running("sync")  BY DEF ApplyPrimary, FinishReload
<1>3. PICK m \in 0..n :
        /\ Len(work) = m + 1 /\ work[m + 1].op = "sync"
        /\ \A j \in 1..m :
              /\ work[j].op = "apply" /\ ~work[j].toggled
              /\ work[j].name = n - m + j - 1
              /\ work[j].primary <=> n - m + j = Chosen(n, config)
        /\ Flagged(n - m)
  BY <1>1, <1>2, FirstLeft DEF FlagsLeft
<1>4. CASE ApplyPrimary
  <2> DEFINE h == work[1]
             k == n - m + 1
             m1 == m - 1
  <2>1. /\ h.op = "apply" /\ registry' = SetPrimary(registry, h.name, h.primary)
        /\ h \in Step /\ h.primary \in BOOLEAN
    BY <1>1, <1>4, HeadOfWork DEF ApplyPrimary, Running
  <2>2. m # 0  BY <1>3, <2>1
  <2>3. k \in 1..n /\ m1 \in 0..n /\ m1 \in Nat /\ 1 \in 1..m /\ n - m1 = k  BY <1>1, <1>3, <2>2
  <2>4. h.name = k - 1 /\ (h.primary <=> k = Chosen(n, config))
    <3>1. n - m + 1 - 1 = k - 1  OBVIOUS
    <3> QED  BY <1>3, <2>3, <3>1
  <2>5. SameOutputs(registry', registry)  BY <1>1, <2>1, SetPrimaryEntry
  <2>6. Aligned' /\ (Attached \/ LastLeft)'  BY <1>1, <2>5, KeepsAligned
  <2>7. Len(registry') = n  BY <2>5 DEF SameOutputs
  <2>8. \A i \in 1..n : registry'[i].primary = IF i = k THEN h.primary ELSE registry[i].primary
    <3> SUFFICES ASSUME NEW i \in 1..n
                 PROVE  registry'[i].primary = IF i = k THEN h.primary ELSE registry[i].primary
      OBVIOUS
    <3>1. registry'[i] = IF registry[i].name = h.name THEN [registry[i] EXCEPT !.primary = h.primary]
                         ELSE registry[i]
      BY <2>1 DEF SetPrimary
    <3>2. registry[i].name = h.name <=> i = k  BY <1>1, <2>3, <2>4
    <3>3. registry[i] \in Entry  BY <1>1
    <3> HIDE DEF h, k
    <3> QED  BY <3>1, <3>2, <3>3 DEF Entry
  <2>9. \A i \in 1..n - m1 : registry'[i].primary <=> i = Chosen(n, config)
    <3> SUFFICES ASSUME NEW i \in 1..n - m1 PROVE registry'[i].primary <=> i = Chosen(n, config)
      OBVIOUS
    <3>0. n - m1 = n - m + 1 /\ n - m \in Nat /\ n - m + 1 <= n  BY <1>1, <2>3
    <3>1. i \in 1..n /\ (i = k \/ i \in 1..n - m)  BY <1>1, <3>0
    <3>2. CASE i = k  BY <2>4, <2>8, <3>1, <3>2
    <3>3. CASE i # k  BY <1>3, <2>8, <3>1, <3>3 DEF Flagged
    <3> QED  BY <3>2, <3>3
  <2>10. ASSUME NEW j \in 1..m1
         PROVE  /\ work'[j].op = "apply" /\ ~work'[j].toggled
                /\ work'[j].name = Len(registry') - m1 + j - 1
                /\ work'[j].primary <=> Len(registry') - m1 + j = Chosen(Len(registry'), config')
    <3>1. j + 1 \in 1..m /\ work'[j] = work[j + 1]  BY <1>1, <1>3, <2>3
    <3>2. Len(registry') - m1 + j = n - m + (j + 1)  BY <1>1, <1>3, <2>7
    <3>3. Len(registry') - m1 + j - 1 = n - m + (j + 1) - 1  BY <1>1, <1>3, <2>7
    <3> HIDE DEF m1
    <3> QED  BY <1>1, <1>3, <2>7, <3>1, <3>2, <3>3
  <2>11. Len(work') = m1 + 1 /\ work'[m1 + 1].op = "sync"
    <3>1. m1 + 1 \in 1..Len(work) - 1 /\ (m1 + 1) + 1 = m + 1  BY <1>3, <2>2
    <3>2. work'[m1 + 1] = work[m + 1]  BY <1>1, <3>1
    <3>3. Len(work') = m1 + 1  BY <1>1, <1>3, <2>3
    <3> QED  BY <1>3, <3>2, <3>3
  <2>12. \A i \in 1..Len(registry') - m1 : registry'[i].primary <=> i = Chosen(Len(registry'), config')
    BY <1>1, <2>7, <2>9
  <2>13. m1 \in 0..Len(registry')  BY <2>3, <2>7
  <2> HIDE DEF m1, n
  <2>14. FlagsLeft'  BY <2>10, <2>11, <2>12, <2>13 DEF FlagsLeft, Flagged
  <2> QED  BY <2>6, <2>14 DEF DockInv, DockWork
<1>5. CASE FinishReload
  <2>1. work[1].op = "sync" /\ registry' = registry  BY <1>1, <1>5 DEF FinishReload, Running, registered
  <2>2. m = 0
    <3>1. m = 0 \/ 1 \in 1..m  BY <1>1
    <3> QED  BY <1>3, <2>1, <3>1
  <2>3. work' = <<>>  BY <1>1, <1>3, <2>2, EmptySeq
  <2>4. SameOutputs(registry', registry)  BY <2>1 DEF SameOutputs
  <2>5. Aligned' /\ (Attached \/ LastLeft)'  BY <1>1, <2>4, KeepsAligned
  <2>6. n - m = n  BY <1>1, <2>2
  <2>7. Flagged(Len(registry))'  BY <1>1, <1>3, <2>1, <2>6 DEF Flagged
  <2> QED  BY <2>3, <2>5, <2>7 DEF DockInv, DockWork, NoneLeft, Idle
<1> QED  BY <1>4, <1>5

(* No output is toggled. *)
LEMMA NeverToggled == ASSUME TInv, DockInv PROVE ~ApplyDisable /\ ~ApplyEnable /\ ~ApplyEnableSkipped
<1>1. ~(Running("apply") /\ Head(work).toggled)
  <2> SUFFICES ASSUME Running("apply"), Head(work).toggled PROVE FALSE  OBVIOUS
  <2>1. /\ IInv /\ work \in Seq(Step) /\ work # <<>> /\ Head(work) = work[1] /\ work[1].op = "apply"
        /\ Len(registry) \in Nat
    BY DockTypes, FirstOfWork DEF TInv, Running
  <2>2. PICK m \in 0..Len(registry) : work[m + 1].op = "sync" /\ \A j \in 1..m : ~work[j].toggled
    BY <2>1, FirstLeft DEF FlagsLeft
  <2>3. m = 0 \/ 1 \in 1..m  BY <2>1
  <2> QED  BY <2>1, <2>2, <2>3
<1> QED  BY <1>1 DEF ApplyDisable, ApplyEnable, ApplyEnableSkipped

(* As long as nothing happened that a docking station does not do. *)
StillDock == order = "dock" => DockInv /\ config.off = {}

LEMMA DockStep ==
    TInv /\ StillDock /\ [Next]_vars => StillDock'
<1> SUFFICES ASSUME TInv, StillDock, [Next]_vars, order' = "dock" PROVE DockInv' /\ config'.off = {}
  BY DEF StillDock
<1>0. DockInv /\ config.off = {} /\ config'.off = {}  BY OrderStep DEF StillDock
<1>1. CASE \/ \E id \in 1..nextId : FocusOutput(id)
           \/ \E ws \in Workspaces : SwitchWorkspace(ws)
           \/ UNCHANGED vars
  <2>1. UNCHANGED << connected, config, registry, outputs, drm, disabled, work >>
    BY <1>1 DEF FocusOutput, SwitchWorkspace, vars, hardware, registered, backend
  <2>2. SameOutputs(registry', registry)  BY <2>1 DEF SameOutputs
  <2>3. Aligned' /\ (Attached => Attached') /\ (LastLeft => LastLeft')  BY <1>0, <2>1, <2>2, KeepsAligned
  <2>4. (NoneLeft => NoneLeft') /\ (FlagsLeft => FlagsLeft')
    BY <2>1 DEF NoneLeft, Idle, FlagsLeft, Flagged
  <2>5. StartLeft => StartLeft'  BY <2>1, <2>3 DEF StartLeft
  <2>6. (AddLeft => AddLeft') /\ (RemoveLeft => RemoveLeft')
    BY <2>1, <2>3 DEF AddLeft, RemoveLeft, Flagged
  <2> QED  BY <1>0, <2>3, <2>4, <2>5, <2>6 DEF DockInv, DockWork
<1>2. CASE BootOutput \/ BootPrimaries  BY <1>0, <1>2, DockBoots, DockPrimaries
<1>3. CASE \E c \in Connectors : Plug(c) \/ Unplug(c)  BY <1>0, <1>3, DockPlugs
<1>4. CASE ScanConnectors  BY <1>0, <1>4, DockScans
<1>5. CASE \E c \in Connectors : AddOutput(c) \/ AddOutputSkipped(c)  BY <1>0, <1>5, DockAdds, DockSkips
<1>6. CASE RemoveOutput \/ RemoveDisabled  BY <1>0, <1>6, DockRemoves
<1>7. CASE \E cfg \in Configs : ReloadConfig(cfg)  BY <1>0, <1>7, DockReloads
<1>8. CASE ApplyPrimary \/ FinishReload  BY <1>0, <1>8, DockFlags
<1>9. CASE ApplyDisable \/ ApplyEnable \/ ApplyEnableSkipped  BY <1>0, <1>9, NeverToggled
<1> QED  BY <1>0, <1>1, <1>2, <1>3, <1>4, <1>5, <1>6, <1>7, <1>8, <1>9 DEF Next

(* Start-up queues every connector it found, all of them enabled. *)
LEMMA DockStarts == Init => StillDock
<1> SUFFICES ASSUME Init, order = "dock" PROVE DockInv /\ config.off = {}
  BY DEF StillDock
<1>0. PICK N \in 1..NumCrtcs :
        \E conns \in [1..N -> Connectors] :
           connected = {conns[i] : i \in 1..N} /\ work = BootSteps(conns, config)
  BY DEF Init
<1>1. PICK conns \in [1..N -> Connectors] :
        connected = {conns[i] : i \in 1..N} /\ work = BootSteps(conns, config)
  BY <1>0
<1> DEFINE names == [i \in 1..Len(conns) |-> i - 1]
           resolved == Resolve(names, config)
           boot(i) == [op |-> "boot", conn |-> conns[i], crtc |-> i,
                       name |-> names[i], enabled |-> resolved[i].enabled]
           boots == [i \in 1..Len(conns) |-> boot(i)]
           last == [op |-> "primaries", names |-> names]
           Item == {boot(i) : i \in 1..N} \cup {last}
<1>2. N \in Nat /\ N > 0 /\ conns \in Seq(Connectors) /\ Len(conns) = N
  <2>1. N \in Nat /\ N > 0  BY LifecycleAssumption
  <2> QED  BY <1>1, <2>1, SeqFromFunction
<1>3. registry = <<>> /\ outputs = <<>> /\ drm = <<>> /\ disabled = {} /\ config \in Configs
  BY DEF Init
<1>4. Len(registry) = 0 /\ Len(outputs) = 0 /\ Len(drm) = 0  BY <1>3, EmptySeq
<1>5. names \in Seq(Nat) /\ Len(names) = N /\ \A i \in 1..N : names[i] = i - 1
  <2>1. names \in [1..N -> Nat] /\ \A i \in 1..N : names[i] = i - 1  BY <1>2
  <2> HIDE DEF names
  <2> QED  BY <1>2, <2>1, SeqFromFunction
<1>6. \A i \in 1..N : resolved[i].enabled
  <2> HIDE DEF names
  <2>1. Len(names) > 0 /\ \A i \in 1..Len(names) : names[i] = i - 1  BY <1>2, <1>5
  <2>2. config.off = {} /\ config.primary \in Nat  BY <1>3, LifecycleAssumption DEF Init, Config
  <2> QED  BY <1>5, <2>1, <2>2, ResolvesDock
<1>7. work = Append(boots, last)  BY <1>1 DEF BootSteps
<1>8. \A i \in 1..N : /\ boot(i).op = "boot" /\ boot(i).name = i - 1 /\ boot(i).enabled
                      /\ boot(i).conn = conns[i]
  <2> HIDE DEF names, resolved
  <2> QED  BY <1>5, <1>6
<1>9. last.op = "primaries" /\ last.names = names /\ last \in Item  OBVIOUS
<1>10. boots \in [1..N -> Item] /\ \A i \in 1..N : boots[i] = boot(i)  BY <1>2
<1> HIDE DEF boots, boot, last, Item, names, resolved
<1>11. /\ Len(work) = N + 1 /\ work[N + 1] = last
       /\ \A i \in 1..N : work[i] = boots[i]
  <2>1. boots \in Seq(Item) /\ Len(boots) = N  BY <1>2, <1>10, SeqFromFunction
  <2> QED  BY <1>7, <1>9, <2>1, AppendProperties
<1>12. KnownConnectors = {}  BY <1>3, <1>4 DEF KnownConnectors
<1>13. Attached  BY <1>12 DEF Attached
<1>14. \A j \in 1..N : /\ work[j].op = "boot" /\ work[j].name = Len(registry) + j - 1
                       /\ work[j].enabled /\ work[j].conn \in connected
  <2> SUFFICES ASSUME NEW j \in 1..N
               PROVE  /\ work[j].op = "boot" /\ work[j].name = Len(registry) + j - 1
                      /\ work[j].enabled /\ work[j].conn \in connected
    OBVIOUS
  <2>1. work[j] = boot(j)  BY <1>10, <1>11
  <2>2. Len(registry) + j - 1 = j - 1  BY <1>4
  <2> QED  BY <1>1, <1>8, <2>1, <2>2
<1>15. Len(registry) + N = N  BY <1>2, <1>4
<1>16. StartLeft  BY <1>2, <1>5, <1>9, <1>11, <1>13, <1>14, <1>15 DEF StartLeft
<1>17. Aligned  BY <1>3, <1>4 DEF Aligned
<1>18. config.off = {}  BY DEF Init
<1> QED  BY <1>13, <1>16, <1>17, <1>18 DEF DockInv, DockWork

(* With a docking station registry, Wayland outputs and DRM outputs list   *)
(* the same outputs under the same ids and names, and the configured one   *)
(* is primary, between any two callbacks (scan_drm_connectors_for_h5b,     *)
(* reapply_output_layout).                                                 *)
THEOREM DockedAgree == Spec => []DockAgrees
<1>1. Init => TInv /\ StillDock  BY InitIInv, InitTracked, DockStarts DEF TInv
<1>2. TInv /\ StillDock /\ [Next]_vars => TInv' /\ StillDock'
  BY CoreStep, BackendStep, TrackedStep, QueueStep, DrivenStep, DockStep DEF TInv, IInv
<1>3. TInv /\ StillDock => DockAgrees  BY AlignedAgree DEF TInv, DockAgrees, StillDock
<1> QED  BY <1>1, <1>2, <1>3, PTL DEF Spec
=============================================================================
