------------------------- MODULE PolkitAgentProofs -------------------------
(***************************************************************************)
(* Proofs about PolkitAgent, for any set of requests and any number of     *)
(* helper threads.                                                         *)
(***************************************************************************)
EXTENDS PolkitAgent, TLAPS

(* The D-Bus side: only a call that was made is pending, and one that is   *)
(* answered or shown was made.                                             *)
CallsMade ==
    /\ \A c \in pending : call[c] = "waiting"
    /\ \A c \in Cookies : call[c] = "none" => reply[c] = "none" /\ active # c

(* A request in the channel is in it once, neither shown nor answered, and *)
(* still wanted, or its cancellation follows it.                           *)
BeginsAreNew ==
    \A i \in 1..Len(dbusEvents) : \A c \in Cookies : dbusEvents[i] = Begin(c) =>
        /\ call[c] # "none" /\ reply[c] = "none" /\ active # c
        /\ \A j \in 1..Len(dbusEvents) : dbusEvents[j] = Begin(c) => j = i
        /\ \/ call[c] = "waiting" /\ c \in pending
           \/ \E j \in i + 1..Len(dbusEvents) : dbusEvents[j] = Cancel(c)

(* A helper that reports success has called Response. *)
SuccessResponded ==
    \A i \in 1..Len(pamEvents) : pamEvents[i].ok => pamEvents[i].cookie \in responded

(* Without a request the dialog is at rest. *)
AtRest == active = NoCookie => status = "idle" /\ retries = 0

IInv ==
    /\ TypeOK
    /\ CallsMade
    /\ BeginsAreNew
    /\ SuccessResponded
    /\ AtRest
    /\ DialogIsWanted
    /\ NoCallLost
    /\ AuthenticatedByHelper
    /\ CheckingIsAnswered

-----------------------------------------------------------------------------
(* Sending appends to a channel and keeps what is in it. *)
LEMMA SendKeeps ==
    ASSUME NEW S, NEW q \in Seq(S), NEW e \in S
    PROVE  /\ Append(q, e) \in Seq(S)
           /\ Len(Append(q, e)) = Len(q) + 1
           /\ \A i \in 1..Len(q) : Append(q, e)[i] = q[i]
           /\ Append(q, e)[Len(q) + 1] = e
OBVIOUS

(* Receiving moves every event but the first one place forward. *)
LEMMA ReceiveShifts ==
    ASSUME NEW S, NEW q \in Seq(S), q # <<>>
    PROVE  /\ Tail(q) \in Seq(S) /\ Head(q) \in S /\ Head(q) = q[1]
           /\ Len(q) \in Nat \ {0} /\ Len(Tail(q)) = Len(q) - 1
           /\ \A i \in 1..Len(Tail(q)) : Tail(q)[i] = q[i + 1]
OBVIOUS

(* An event is queued after a send if it was before or is the one sent. *)
LEMMA SendQueued ==
    ASSUME NEW S, NEW q \in Seq(S), NEW e \in S, NEW x
    PROVE  Queued(Append(q, e), x) <=> Queued(q, x) \/ x = e
<1>1. Queued(q, x) => Queued(Append(q, e), x)
  BY SendKeeps DEF Queued
<1>2. x = e => Queued(Append(q, e), x)
  BY SendKeeps DEF Queued
<1>3. Queued(Append(q, e), x) => Queued(q, x) \/ x = e
  <2>1. SUFFICES ASSUME NEW i \in 1..Len(q) + 1, Append(q, e)[i] = x
                 PROVE  Queued(q, x) \/ x = e
    BY SendKeeps DEF Queued
  <2>2. i \in 1..Len(q) \/ i = Len(q) + 1
    OBVIOUS
  <2> QED BY <2>1, <2>2, SendKeeps DEF Queued
<1> QED BY <1>1, <1>2, <1>3

(* An event stays queued unless it is the one received. *)
LEMMA ReceiveQueued ==
    ASSUME NEW S, NEW q \in Seq(S), q # <<>>, NEW x, Queued(q, x), x # Head(q)
    PROVE  Queued(Tail(q), x)
<1>1. PICK i \in 1..Len(q) : q[i] = x
  BY DEF Queued
<1>2. i # 1 /\ i - 1 \in 1..Len(Tail(q))
  BY <1>1, ReceiveShifts
<1>3. Tail(q)[i - 1] = x
  BY <1>1, <1>2, ReceiveShifts
<1> QED BY <1>2, <1>3 DEF Queued

(* The two kinds of events about requests. *)
LEMMA Events ==
    /\ \A c \in Cookies : Begin(c) \in DbusEvent /\ Cancel(c) \in DbusEvent
    /\ \A c, d \in Cookies : (Begin(c) = Begin(d) <=> c = d) /\ (Cancel(c) = Cancel(d) <=> c = d)
    /\ \A c, d \in Cookies : Begin(c) # Cancel(d)
    /\ \A e \in DbusEvent : /\ e.cookie \in Cookies
                            /\ e.kind = "begin" => e = Begin(e.cookie)
                            /\ e.kind = "cancel" => e = Cancel(e.cookie)
                            /\ e.kind \in {"begin", "cancel"}
BY DEF Begin, Cancel, DbusEvent

(* The agent starts with nothing asked and nothing shown. *)
LEMMA InitIInv == Init => IInv
<1> SUFFICES ASSUME Init PROVE IInv
  OBVIOUS
<1> USE DEF Init
<1>1. TypeOK
  <2>1. dbusEvents \in Seq(DbusEvent) /\ pamEvents \in Seq(PamResult)
    OBVIOUS
  <2>2. retries \in 0..MaxRetries - 1 /\ helpers \in [Cookies -> Nat]
    BY DEF MaxRetries
  <2> QED BY <2>1, <2>2 DEF TypeOK
<1>2. CallsMade /\ BeginsAreNew /\ SuccessResponded /\ AtRest
  BY AgentAssumption DEF CallsMade, BeginsAreNew, SuccessResponded, AtRest
<1>3. DialogIsWanted /\ NoCallLost /\ AuthenticatedByHelper /\ CheckingIsAnswered
  BY AgentAssumption DEF DialogIsWanted, NoCallLost, AuthenticatedByHelper, CheckingIsAnswered
<1> QED BY <1>1, <1>2, <1>3 DEF IInv

-----------------------------------------------------------------------------
(* The steps of the D-Bus thread. *)

LEMMA BeginAuthenticationKeeps ==
    ASSUME IInv, NEW c \in Cookies, BeginAuthentication(c)
    PROVE  IInv'
<1> USE DEF IInv, dialog, helperVars
<1>1. call[c] = "none" /\ reply[c] = "none" /\ active # c /\ c \notin pending
  BY DEF BeginAuthentication, CallsMade
<1>2. ~Queued(dbusEvents, Begin(c))
  BY <1>1 DEF BeginsAreNew, Queued
<1>3. /\ call' \in [Cookies -> {"none", "waiting", "returned"}]
      /\ call'[c] # "none" /\ \A d \in Cookies \ {c} : call'[d] = call[d]
      /\ UNCHANGED <<cancelled, reply, ready, dialog, helperVars>>
  BY DEF BeginAuthentication, TypeOK
<1>4. CASE dbusEvents' = Append(dbusEvents, Begin(c)) /\ pending' = pending \cup {c} /\ call'[c] = "waiting"
  <2>1. /\ dbusEvents \in Seq(DbusEvent) /\ Begin(c) \in DbusEvent
        /\ dbusEvents' \in Seq(DbusEvent)
        /\ Len(dbusEvents') = Len(dbusEvents) + 1 /\ Len(dbusEvents) \in Nat
        /\ \A i \in 1..Len(dbusEvents) : dbusEvents'[i] = dbusEvents[i]
        /\ dbusEvents'[Len(dbusEvents) + 1] = Begin(c)
    BY <1>4, SendKeeps, Events DEF TypeOK
  <2>2. \A x : Queued(dbusEvents', x) <=> Queued(dbusEvents, x) \/ x = Begin(c)
    BY <1>4, <2>1, SendQueued
  <2>3. TypeOK'
    BY <1>3, <1>4, <2>1 DEF TypeOK
  <2>4. BeginsAreNew'
    <3> SUFFICES ASSUME NEW i \in 1..Len(dbusEvents'), NEW d \in Cookies, dbusEvents'[i] = Begin(d)
                 PROVE  /\ call'[d] # "none" /\ reply'[d] = "none" /\ active' # d
                        /\ \A j \in 1..Len(dbusEvents') : dbusEvents'[j] = Begin(d) => j = i
                        /\ \/ call'[d] = "waiting" /\ d \in pending'
                           \/ \E j \in i + 1..Len(dbusEvents') : dbusEvents'[j] = Cancel(d)
      BY DEF BeginsAreNew
    <3>1. CASE i = Len(dbusEvents) + 1
      <4>1. d = c
        BY <2>1, <3>1, Events
      <4>2. \A j \in 1..Len(dbusEvents) : dbusEvents'[j] # Begin(c)
        BY <1>2, <2>1 DEF Queued
      <4> QED BY <1>1, <1>3, <1>4, <2>1, <3>1, <4>1, <4>2
    <3>2. CASE i \in 1..Len(dbusEvents)
      <4>1. dbusEvents[i] = Begin(d) /\ d # c
        BY <1>2, <2>1, <3>2 DEF Queued
      <4>2. /\ call[d] # "none" /\ reply[d] = "none" /\ active # d
            /\ \A j \in 1..Len(dbusEvents) : dbusEvents[j] = Begin(d) => j = i
            /\ \/ call[d] = "waiting" /\ d \in pending
               \/ \E j \in i + 1..Len(dbusEvents) : dbusEvents[j] = Cancel(d)
        BY <3>2, <4>1 DEF BeginsAreNew
      <4>3. \A j \in 1..Len(dbusEvents') : dbusEvents'[j] = Begin(d) => j = i
        BY <2>1, <4>1, <4>2, Events
      <4>4. \/ call'[d] = "waiting" /\ d \in pending'
            \/ \E j \in i + 1..Len(dbusEvents') : dbusEvents'[j] = Cancel(d)
        BY <1>3, <1>4, <2>1, <3>2, <4>1, <4>2
      <4> QED BY <1>3, <4>1, <4>2, <4>3, <4>4
    <3> QED BY <2>1, <3>1, <3>2
  <2>5. DialogIsWanted'
    BY <1>1, <1>3, <1>4, <2>2, Events DEF DialogIsWanted, TypeOK
  <2>6. NoCallLost'
    BY <1>1, <1>3, <1>4, <2>2 DEF NoCallLost
  <2>7. CallsMade' /\ AtRest' /\ SuccessResponded' /\ AuthenticatedByHelper'
    BY <1>1, <1>3, <1>4 DEF CallsMade, AtRest, SuccessResponded, AuthenticatedByHelper, TypeOK
  <2>8. CheckingIsAnswered'
    BY <1>3 DEF CheckingIsAnswered, Queued
  <2> QED BY <2>3, <2>4, <2>5, <2>6, <2>7, <2>8
<1>5. CASE call'[c] = "returned" /\ UNCHANGED <<pending, dbusEvents>>
  <2>1. TypeOK'
    BY <1>3, <1>5 DEF TypeOK
  <2>2. BeginsAreNew'
    BY <1>1, <1>2, <1>3, <1>5 DEF BeginsAreNew, Queued
  <2>3. DialogIsWanted' /\ NoCallLost'
    BY <1>1, <1>3, <1>5 DEF DialogIsWanted, NoCallLost, Queued, TypeOK
  <2>4. CallsMade' /\ AtRest' /\ SuccessResponded' /\ AuthenticatedByHelper'
    BY <1>1, <1>3, <1>5 DEF CallsMade, AtRest, SuccessResponded, AuthenticatedByHelper, TypeOK
  <2>5. CheckingIsAnswered'
    BY <1>3 DEF CheckingIsAnswered, Queued
  <2> QED BY <2>1, <2>2, <2>3, <2>4, <2>5
<1> QED BY <1>4, <1>5 DEF BeginAuthentication, TypeOK

LEMMA ReturnCallKeeps ==
    ASSUME IInv, NEW c \in Cookies, ReturnCall(c)
    PROVE  IInv'
<1> USE DEF IInv, dialog, helperVars
<1>1. /\ call[c] = "waiting" /\ call' = [call EXCEPT ![c] = "returned"] /\ pending' = pending \ {c}
      /\ reply[c] # "none" \/ c \notin pending
      /\ UNCHANGED <<cancelled, dbusEvents, reply, ready, dialog, helperVars>>
  BY DEF ReturnCall
<1>2. TypeOK'
  BY <1>1 DEF TypeOK
<1>3. BeginsAreNew'
  BY <1>1 DEF BeginsAreNew, TypeOK
<1>4. DialogIsWanted' /\ NoCallLost'
  BY <1>1 DEF DialogIsWanted, NoCallLost, Queued, TypeOK
<1>5. CallsMade' /\ AtRest' /\ SuccessResponded' /\ AuthenticatedByHelper'
  BY <1>1 DEF CallsMade, AtRest, SuccessResponded, AuthenticatedByHelper, TypeOK
<1>6. CheckingIsAnswered'
  BY <1>1 DEF CheckingIsAnswered, Queued
<1> QED BY <1>2, <1>3, <1>4, <1>5, <1>6

LEMMA CancelAuthenticationKeeps ==
    ASSUME IInv, NEW c \in Cookies, CancelAuthentication(c)
    PROVE  IInv'
<1> USE DEF IInv, dialog, helperVars
<1>1. /\ call[c] # "none" /\ pending' = pending \ {c} /\ cancelled' = cancelled \cup {c}
      /\ dbusEvents' = Append(dbusEvents, Cancel(c))
      /\ UNCHANGED <<call, reply, ready, dialog, helperVars>>
  BY DEF CancelAuthentication
<1>2. /\ dbusEvents \in Seq(DbusEvent) /\ Cancel(c) \in DbusEvent
      /\ dbusEvents' \in Seq(DbusEvent)
      /\ Len(dbusEvents') = Len(dbusEvents) + 1 /\ Len(dbusEvents) \in Nat
      /\ \A i \in 1..Len(dbusEvents) : dbusEvents'[i] = dbusEvents[i]
      /\ dbusEvents'[Len(dbusEvents) + 1] = Cancel(c)
  BY <1>1, SendKeeps, Events DEF TypeOK
<1>3. \A x : Queued(dbusEvents', x) <=> Queued(dbusEvents, x) \/ x = Cancel(c)
  BY <1>1, <1>2, SendQueued
<1>4. TypeOK'
  BY <1>1, <1>2 DEF TypeOK
<1>5. BeginsAreNew'
  <2> SUFFICES ASSUME NEW i \in 1..Len(dbusEvents'), NEW d \in Cookies, dbusEvents'[i] = Begin(d)
               PROVE  /\ call'[d] # "none" /\ reply'[d] = "none" /\ active' # d
                      /\ \A j \in 1..Len(dbusEvents') : dbusEvents'[j] = Begin(d) => j = i
                      /\ \/ call'[d] = "waiting" /\ d \in pending'
                         \/ \E j \in i + 1..Len(dbusEvents') : dbusEvents'[j] = Cancel(d)
    BY DEF BeginsAreNew
  <2>1. i \in 1..Len(dbusEvents) /\ dbusEvents[i] = Begin(d)
    BY <1>2, Events
  <2>2. /\ call[d] # "none" /\ reply[d] = "none" /\ active # d
        /\ \A j \in 1..Len(dbusEvents) : dbusEvents[j] = Begin(d) => j = i
        /\ \/ call[d] = "waiting" /\ d \in pending
           \/ \E j \in i + 1..Len(dbusEvents) : dbusEvents[j] = Cancel(d)
    BY <2>1 DEF BeginsAreNew
  <2>3. \A j \in 1..Len(dbusEvents') : dbusEvents'[j] = Begin(d) => j = i
    BY <1>2, <2>2, Events
  <2>4. \/ call'[d] = "waiting" /\ d \in pending'
        \/ \E j \in i + 1..Len(dbusEvents') : dbusEvents'[j] = Cancel(d)
    <3>1. CASE d = c
      BY <1>2, <2>1, <3>1
    <3>2. CASE d # c
      BY <1>1, <1>2, <2>1, <2>2, <3>2
    <3> QED BY <3>1, <3>2
  <2> QED BY <1>1, <2>2, <2>3, <2>4
<1>6. DialogIsWanted' /\ NoCallLost'
  BY <1>1, <1>3 DEF DialogIsWanted, NoCallLost
<1>7. CallsMade' /\ AtRest' /\ SuccessResponded' /\ AuthenticatedByHelper'
  BY <1>1 DEF CallsMade, AtRest, SuccessResponded, AuthenticatedByHelper
<1>8. CheckingIsAnswered'
  BY <1>1 DEF CheckingIsAnswered, Queued
<1> QED BY <1>4, <1>5, <1>6, <1>7, <1>8

-----------------------------------------------------------------------------
(* The steps of the UI loop. *)

(* Answering the active request and taking its popup down. *)
LEMMA FinishKeeps ==
    ASSUME IInv, active # NoCookie, NEW outcome \in {"authenticated", "cancelled"},
           Finish(outcome), outcome = "authenticated" => active \in responded,
           UNCHANGED <<dbusVars, dbusEvents, responded>>
    PROVE  /\ CallsMade' /\ BeginsAreNew' /\ AtRest' /\ DialogIsWanted' /\ NoCallLost'
           /\ AuthenticatedByHelper' /\ CheckingIsAnswered'
           /\ reply' \in [Cookies -> {"none", "authenticated", "cancelled"}]
           /\ active' \in Cookies \cup {NoCookie} /\ status' \in {"idle", "checking", "failed"}
           /\ retries' \in 0..MaxRetries - 1 /\ typed' \in BOOLEAN /\ popup' \in BOOLEAN
<1> USE DEF IInv, Finish, dbusVars
<1>1. active \in Cookies /\ call[active] # "none"
  BY DEF TypeOK, CallsMade
<1>2. CallsMade' /\ AtRest'
  BY <1>1, AgentAssumption DEF CallsMade, AtRest, TypeOK
<1>3. BeginsAreNew'
  <2> SUFFICES ASSUME NEW i \in 1..Len(dbusEvents), NEW d \in Cookies, dbusEvents[i] = Begin(d)
               PROVE  /\ call[d] # "none" /\ reply'[d] = "none" /\ active' # d
                      /\ \A j \in 1..Len(dbusEvents) : dbusEvents[j] = Begin(d) => j = i
                      /\ \/ call[d] = "waiting" /\ d \in pending
                         \/ \E j \in i + 1..Len(dbusEvents) : dbusEvents[j] = Cancel(d)
    BY DEF BeginsAreNew
  <2>1. active # d
    BY DEF BeginsAreNew
  <2>2. reply'[d] = reply[d] /\ active' # d
    BY <2>1, AgentAssumption DEF TypeOK
  <2> QED BY <2>2 DEF BeginsAreNew
<1>4. DialogIsWanted' /\ CheckingIsAnswered'
  BY DEF DialogIsWanted, CheckingIsAnswered
<1>5. NoCallLost'
  <2> SUFFICES ASSUME NEW d \in Cookies, call[d] = "waiting"
               PROVE  Queued(dbusEvents, Begin(d)) \/ reply'[d] # "none" \/ d \notin pending
    BY DEF NoCallLost
  <2>1. CASE d = active
    BY <2>1 DEF TypeOK
  <2>2. CASE d # active
    BY <2>2 DEF NoCallLost, TypeOK
  <2> QED BY <2>1, <2>2
<1>6. AuthenticatedByHelper'
  BY DEF AuthenticatedByHelper, TypeOK
<1>7. /\ reply' \in [Cookies -> {"none", "authenticated", "cancelled"}]
      /\ active' \in Cookies \cup {NoCookie} /\ status' \in {"idle", "checking", "failed"}
      /\ retries' \in 0..MaxRetries - 1 /\ typed' \in BOOLEAN /\ popup' \in BOOLEAN
  <2>1. reply' \in [Cookies -> {"none", "authenticated", "cancelled"}]
    BY DEF TypeOK
  <2>2. active' \in Cookies \cup {NoCookie} /\ status' \in {"idle", "checking", "failed"}
    OBVIOUS
  <2>3. retries' = 0 /\ 0 \in 0..MaxRetries - 1
    BY DEF MaxRetries
  <2>4. typed' \in BOOLEAN /\ popup' \in BOOLEAN
    OBVIOUS
  <2> QED BY <2>1, <2>2, <2>3, <2>4
<1> QED BY <1>2, <1>3, <1>4, <1>5, <1>6, <1>7

LEMMA GlobalsBoundKeeps ==
    ASSUME IInv, GlobalsBound
    PROVE  IInv'
<1> USE DEF IInv, GlobalsBound, dbusVars, dialog, helperVars
<1>1. TypeOK' /\ CallsMade' /\ BeginsAreNew' /\ SuccessResponded' /\ AtRest'
  BY DEF TypeOK, CallsMade, BeginsAreNew, SuccessResponded, AtRest
<1>2. DialogIsWanted' /\ NoCallLost' /\ AuthenticatedByHelper' /\ CheckingIsAnswered'
  BY DEF DialogIsWanted, NoCallLost, AuthenticatedByHelper, CheckingIsAnswered, Queued
<1> QED BY <1>1, <1>2

LEMMA DismissKeeps ==
    ASSUME IInv, Dismiss
    PROVE  IInv'
<1>1. /\ active # NoCookie /\ Finish("cancelled")
      /\ UNCHANGED <<dbusVars, dbusEvents, ready, helperVars>>
  BY DEF Dismiss
<1>2. UNCHANGED responded
  BY <1>1 DEF helperVars
<1>3. /\ CallsMade' /\ BeginsAreNew' /\ AtRest' /\ DialogIsWanted' /\ NoCallLost'
      /\ AuthenticatedByHelper' /\ CheckingIsAnswered'
  BY <1>1, <1>2, FinishKeeps
<1>4. TypeOK'
  <2>1. /\ reply' \in [Cookies -> {"none", "authenticated", "cancelled"}]
        /\ active' \in Cookies \cup {NoCookie} /\ status' \in {"idle", "checking", "failed"}
        /\ retries' \in 0..MaxRetries - 1 /\ typed' \in BOOLEAN /\ popup' \in BOOLEAN
    BY <1>1, <1>2, FinishKeeps
  <2> QED BY <1>1, <2>1 DEF IInv, TypeOK, dbusVars, helperVars
<1>5. SuccessResponded'
  BY <1>1 DEF IInv, SuccessResponded, helperVars
<1> QED BY <1>3, <1>4, <1>5 DEF IInv

LEMMA EditPasswordKeeps ==
    ASSUME IInv, EditPassword
    PROVE  IInv'
<1> USE DEF IInv, EditPassword, dbusVars, helperVars
<1>1. TypeOK' /\ CallsMade' /\ BeginsAreNew' /\ SuccessResponded' /\ AtRest'
  BY DEF TypeOK, CallsMade, BeginsAreNew, SuccessResponded, AtRest
<1>2. DialogIsWanted' /\ NoCallLost' /\ AuthenticatedByHelper'
  BY DEF DialogIsWanted, NoCallLost, AuthenticatedByHelper, Queued
<1>3. CheckingIsAnswered'
  BY DEF CheckingIsAnswered, Queued
<1> QED BY <1>1, <1>2, <1>3

LEMMA ConfirmPasswordKeeps ==
    ASSUME IInv, ConfirmPassword
    PROVE  IInv'
<1> USE DEF IInv, dbusVars
<1>1. /\ active # NoCookie /\ status' = "checking" /\ typed' = FALSE
      /\ helpers' = [helpers EXCEPT ![active] = @ + 1]
      /\ UNCHANGED <<dbusVars, dbusEvents, reply, ready, active, retries, popup, pamEvents, responded>>
  BY DEF ConfirmPassword
<1>2. active \in Cookies /\ helpers[active] \in Nat
  BY <1>1 DEF TypeOK
<1>3. TypeOK'
  <2>1. helpers' \in [Cookies -> Nat]
    BY <1>1, <1>2 DEF TypeOK
  <2>2. status' \in {"idle", "checking", "failed"} /\ typed' \in BOOLEAN
    BY <1>1
  <2> QED BY <1>1, <2>1, <2>2 DEF TypeOK
<1>4. CallsMade' /\ BeginsAreNew' /\ SuccessResponded' /\ AtRest'
  BY <1>1 DEF CallsMade, BeginsAreNew, SuccessResponded, AtRest
<1>5. DialogIsWanted' /\ NoCallLost' /\ AuthenticatedByHelper'
  BY <1>1 DEF DialogIsWanted, NoCallLost, AuthenticatedByHelper, Queued
<1>6. CheckingIsAnswered'
  BY <1>1, <1>2 DEF CheckingIsAnswered, TypeOK
<1> QED BY <1>3, <1>4, <1>5, <1>6

LEMMA HelperEndsKeeps ==
    ASSUME IInv, NEW c \in Cookies, HelperEnds(c)
    PROVE  IInv'
<1> USE DEF IInv, dbusVars, dialog
<1>1. PICK ok \in BOOLEAN :
        /\ ok => c \in responded'
        /\ pamEvents' = Append(pamEvents, [cookie |-> c, ok |-> ok])
        /\ responded \subseteq responded' /\ responded' \subseteq responded \cup {c}
  BY DEF HelperEnds
<1>2. /\ helpers[c] > 0 /\ helpers' = [helpers EXCEPT ![c] = @ - 1]
      /\ UNCHANGED <<dbusVars, dbusEvents, reply, ready, dialog>>
  BY DEF HelperEnds
<1> DEFINE result == [cookie |-> c, ok |-> ok]
<1>3. /\ pamEvents \in Seq(PamResult) /\ result \in PamResult /\ pamEvents' \in Seq(PamResult)
      /\ Len(pamEvents') = Len(pamEvents) + 1 /\ Len(pamEvents) \in Nat
      /\ \A i \in 1..Len(pamEvents) : pamEvents'[i] = pamEvents[i]
      /\ pamEvents'[Len(pamEvents) + 1] = result
  <2>1. pamEvents \in Seq(PamResult) /\ result \in PamResult
    BY DEF TypeOK, PamResult
  <2> QED BY <1>1, <2>1, SendKeeps
<1>4. \A x : Queued(pamEvents', x) <=> Queued(pamEvents, x) \/ x = result
  BY <1>1, <1>3, SendQueued
<1>5. TypeOK'
  BY <1>1, <1>2, <1>3 DEF TypeOK
<1>6. CallsMade' /\ BeginsAreNew' /\ AtRest'
  BY <1>2 DEF CallsMade, BeginsAreNew, AtRest
<1>7. DialogIsWanted' /\ NoCallLost' /\ AuthenticatedByHelper'
  BY <1>1, <1>2 DEF DialogIsWanted, NoCallLost, AuthenticatedByHelper, Queued
<1>8. SuccessResponded'
  <2> SUFFICES ASSUME NEW i \in 1..Len(pamEvents'), pamEvents'[i].ok
               PROVE  pamEvents'[i].cookie \in responded'
    BY DEF SuccessResponded
  <2>1. CASE i = Len(pamEvents) + 1
    BY <1>1, <1>3, <2>1
  <2>2. CASE i \in 1..Len(pamEvents)
    BY <1>1, <1>3, <2>2 DEF SuccessResponded
  <2> QED BY <1>3, <2>1, <2>2
<1>9. CheckingIsAnswered'
  <2> SUFFICES ASSUME active # NoCookie, status = "checking"
               PROVE  \/ helpers'[active] > 0
                      \/ \E o \in BOOLEAN : Queued(pamEvents', [cookie |-> active, ok |-> o])
    BY <1>2 DEF CheckingIsAnswered
  <2>1. CASE active = c
    BY <1>4, <2>1
  <2>2. CASE active # c
    BY <1>2, <1>4, <2>2 DEF CheckingIsAnswered, TypeOK
  <2> QED BY <2>1, <2>2
<1> QED BY <1>5, <1>6, <1>7, <1>8, <1>9

LEMMA TakePamResultKeeps ==
    ASSUME IInv, TakePamResult
    PROVE  IInv'
<1> USE DEF IInv
<1> DEFINE result == Head(pamEvents)
<1>1. /\ pamEvents # <<>> /\ pamEvents' = Tail(pamEvents) /\ OnPamResult(result)
      /\ UNCHANGED <<dbusVars, dbusEvents, ready, helpers, responded>>
  BY DEF TakePamResult
<1>2. /\ pamEvents' \in Seq(PamResult) /\ result \in PamResult /\ result = pamEvents[1]
      /\ Len(pamEvents) \in Nat \ {0} /\ Len(pamEvents') = Len(pamEvents) - 1
      /\ \A i \in 1..Len(pamEvents') : pamEvents'[i] = pamEvents[i + 1]
  BY <1>1, ReceiveShifts DEF TypeOK
<1>3. SuccessResponded'
  BY <1>1, <1>2 DEF SuccessResponded
<1>4. result.ok \in BOOLEAN /\ result.cookie \in Cookies /\ (result.ok => result.cookie \in responded)
  <2>1. 1 \in 1..Len(pamEvents)
    BY <1>2
  <2>2. result.ok => result.cookie \in responded
    BY <1>2, <2>1 DEF SuccessResponded
  <2> QED BY <1>2, <2>2 DEF PamResult
<1>5. CASE \E outcome \in {"authenticated", "cancelled"} :
              /\ active = result.cookie /\ Finish(outcome)
              /\ outcome = "authenticated" => result.ok
  <2>1. PICK outcome \in {"authenticated", "cancelled"} :
           active = result.cookie /\ Finish(outcome) /\ (outcome = "authenticated" => result.ok)
    BY <1>5
  <2>2. active # NoCookie /\ (outcome = "authenticated" => active \in responded)
    BY <1>4, <2>1, AgentAssumption
  <2>3. UNCHANGED <<dbusVars, dbusEvents, responded>>
    BY <1>1
  <2>4. /\ CallsMade' /\ BeginsAreNew' /\ AtRest' /\ DialogIsWanted' /\ NoCallLost'
        /\ AuthenticatedByHelper' /\ CheckingIsAnswered'
        /\ reply' \in [Cookies -> {"none", "authenticated", "cancelled"}]
        /\ active' \in Cookies \cup {NoCookie} /\ status' \in {"idle", "checking", "failed"}
        /\ retries' \in 0..MaxRetries - 1 /\ typed' \in BOOLEAN /\ popup' \in BOOLEAN
    BY <2>1, <2>2, <2>3, FinishKeeps
  <2>5. TypeOK'
    BY <1>1, <1>2, <2>4 DEF TypeOK, dbusVars
  <2> QED BY <1>3, <2>4, <2>5
<1>6. CASE active # result.cookie /\ UNCHANGED <<reply, dialog>>
  <2>1. TypeOK' /\ CallsMade' /\ BeginsAreNew' /\ AtRest'
    BY <1>1, <1>2, <1>6 DEF TypeOK, CallsMade, BeginsAreNew, AtRest, dbusVars, dialog
  <2>2. DialogIsWanted' /\ NoCallLost' /\ AuthenticatedByHelper'
    BY <1>1, <1>6 DEF DialogIsWanted, NoCallLost, AuthenticatedByHelper, Queued, dbusVars, dialog
  <2>3. CheckingIsAnswered'
    <3> SUFFICES ASSUME active # NoCookie, status = "checking"
                 PROVE  \/ helpers[active] > 0
                        \/ \E ok \in BOOLEAN : Queued(pamEvents', [cookie |-> active, ok |-> ok])
      BY <1>1, <1>6 DEF CheckingIsAnswered, dialog
    <3>1. ASSUME NEW ok \in BOOLEAN, Queued(pamEvents, [cookie |-> active, ok |-> ok])
          PROVE  Queued(pamEvents', [cookie |-> active, ok |-> ok])
      <4>1. [cookie |-> active, ok |-> ok] # result
        BY <1>6
      <4>2. pamEvents \in Seq(PamResult) /\ pamEvents # <<>>
        BY <1>1 DEF TypeOK
      <4> QED BY <1>1, <3>1, <4>1, <4>2, ReceiveQueued
    <3> QED BY <3>1 DEF CheckingIsAnswered
  <2> QED BY <1>3, <2>1, <2>2, <2>3
<1>7. CASE /\ active = result.cookie /\ ~(retries + 1 >= MaxRetries)
           /\ retries' = retries + 1 /\ status' = "failed" /\ typed' = FALSE
           /\ UNCHANGED <<reply, active, popup>>
  <2>1. retries' \in 0..MaxRetries - 1
    BY <1>7 DEF TypeOK, MaxRetries
  <2>2. status' \in {"idle", "checking", "failed"} /\ typed' \in BOOLEAN
    BY <1>7
  <2>3. TypeOK'
    BY <1>1, <1>2, <1>7, <2>1, <2>2 DEF TypeOK, dbusVars
  <2>4. CallsMade' /\ BeginsAreNew'
    BY <1>1, <1>7 DEF CallsMade, BeginsAreNew, dbusVars
  <2>5. AtRest'
    BY <1>4, <1>7, AgentAssumption DEF AtRest
  <2>6. DialogIsWanted' /\ NoCallLost' /\ AuthenticatedByHelper'
    BY <1>1, <1>7 DEF DialogIsWanted, NoCallLost, AuthenticatedByHelper, Queued, dbusVars
  <2>7. CheckingIsAnswered'
    BY <1>7 DEF CheckingIsAnswered
  <2> QED BY <1>3, <2>3, <2>4, <2>5, <2>6, <2>7
<1>8. \/ active # result.cookie /\ UNCHANGED <<reply, dialog>>
      \/ active = result.cookie /\ result.ok /\ Finish("authenticated")
      \/ active = result.cookie /\ Finish("cancelled")
      \/ /\ active = result.cookie /\ ~(retries + 1 >= MaxRetries)
         /\ retries' = retries + 1 /\ status' = "failed" /\ typed' = FALSE
         /\ UNCHANGED <<reply, active, popup>>
  <2> HIDE DEF result
  <2> QED BY <1>1, <1>4 DEF OnPamResult
<1> QED BY <1>5, <1>6, <1>7, <1>8

(* What is left in the channel once its first event is taken, seen before  *)
(* the event is handled.                                                   *)
LEMMA RestOfChannel ==
    ASSUME IInv, dbusEvents # <<>>
    PROVE  LET rest == Tail(dbusEvents)
           IN \A i \in 1..Len(rest) : \A d \in Cookies : rest[i] = Begin(d) =>
                 /\ call[d] # "none" /\ reply[d] = "none" /\ active # d
                 /\ Begin(d) # Head(dbusEvents)
                 /\ \A j \in 1..Len(rest) : rest[j] = Begin(d) => j = i
                 /\ \/ call[d] = "waiting" /\ d \in pending
                    \/ \E j \in i + 1..Len(rest) : rest[j] = Cancel(d)
<1> DEFINE rest == Tail(dbusEvents)
<1>1. /\ Head(dbusEvents) = dbusEvents[1]
      /\ Len(dbusEvents) \in Nat \ {0} /\ Len(rest) = Len(dbusEvents) - 1
      /\ \A i \in 1..Len(rest) : rest[i] = dbusEvents[i + 1]
  BY ReceiveShifts DEF IInv, TypeOK
<1> SUFFICES ASSUME NEW i \in 1..Len(rest), NEW d \in Cookies, rest[i] = Begin(d)
             PROVE  /\ call[d] # "none" /\ reply[d] = "none" /\ active # d
                    /\ Begin(d) # Head(dbusEvents)
                    /\ \A j \in 1..Len(rest) : rest[j] = Begin(d) => j = i
                    /\ \/ call[d] = "waiting" /\ d \in pending
                       \/ \E j \in i + 1..Len(rest) : rest[j] = Cancel(d)
  OBVIOUS
<1> HIDE DEF rest
<1>2. i + 1 \in 1..Len(dbusEvents) /\ dbusEvents[i + 1] = Begin(d)
  BY <1>1
<1>3. /\ call[d] # "none" /\ reply[d] = "none" /\ active # d
      /\ \A j \in 1..Len(dbusEvents) : dbusEvents[j] = Begin(d) => j = i + 1
      /\ \/ call[d] = "waiting" /\ d \in pending
         \/ \E j \in (i + 1) + 1..Len(dbusEvents) : dbusEvents[j] = Cancel(d)
  BY <1>2 DEF IInv, BeginsAreNew
<1>4. Begin(d) # Head(dbusEvents)
  BY <1>1, <1>3
<1>5. ASSUME NEW j \in 1..Len(rest), rest[j] = Begin(d)
      PROVE  j = i
  BY <1>1, <1>3, <1>5
<1>6. ASSUME NEW k \in (i + 1) + 1..Len(dbusEvents), dbusEvents[k] = Cancel(d)
      PROVE  \E j \in i + 1..Len(rest) : rest[j] = Cancel(d)
  <2>1. k - 1 \in i + 1..Len(rest) /\ k - 1 \in 1..Len(rest) /\ (k - 1) + 1 = k
    BY <1>1
  <2>2. rest[k - 1] = Cancel(d)
    BY <1>1, <1>6, <2>1
  <2> QED BY <2>1, <2>2
<1> QED BY <1>3, <1>4, <1>5, <1>6

LEMMA TakeDbusEventKeeps ==
    ASSUME IInv, TakeDbusEvent
    PROVE  IInv'
<1> USE DEF IInv
<1> DEFINE event == Head(dbusEvents)  c == event.cookie
<1>1. /\ dbusEvents # <<>> /\ dbusEvents' = Tail(dbusEvents)
      /\ \/ event.kind = "begin" /\ OnAuthRequest(c)
         \/ event.kind = "cancel" /\ OnCancel(c)
      /\ UNCHANGED <<dbusVars, ready, helperVars>>
  BY DEF TakeDbusEvent
<1>2. /\ dbusEvents \in Seq(DbusEvent) /\ dbusEvents' \in Seq(DbusEvent) /\ event \in DbusEvent
      /\ event = dbusEvents[1] /\ 1 \in 1..Len(dbusEvents)
      /\ Len(dbusEvents) \in Nat \ {0} /\ Len(dbusEvents') = Len(dbusEvents) - 1
      /\ \A i \in 1..Len(dbusEvents') : dbusEvents'[i] = dbusEvents[i + 1]
  BY <1>1, ReceiveShifts DEF TypeOK
<1>3. c \in Cookies
  BY <1>2, Events
<1>4. \A x : Queued(dbusEvents, x) /\ x # event => Queued(dbusEvents', x)
  BY <1>1, <1>2, ReceiveQueued
<1>5. \A i \in 1..Len(dbusEvents') : \A d \in Cookies : dbusEvents'[i] = Begin(d) =>
         /\ call[d] # "none" /\ reply[d] = "none" /\ active # d /\ Begin(d) # event
         /\ \A j \in 1..Len(dbusEvents') : dbusEvents'[j] = Begin(d) => j = i
         /\ \/ call[d] = "waiting" /\ d \in pending
            \/ \E j \in i + 1..Len(dbusEvents') : dbusEvents'[j] = Cancel(d)
  BY <1>1, RestOfChannel
<1>6. SuccessResponded' /\ call' = call /\ pending' = pending
  BY <1>1 DEF SuccessResponded, helperVars, dbusVars
<1> HIDE DEF event, c
<1>7. CASE event = Begin(c) /\ OnAuthRequest(c)
  <2>1. /\ call[c] # "none" /\ reply[c] = "none" /\ active # c
        /\ \/ call[c] = "waiting" /\ c \in pending
           \/ Queued(dbusEvents', Cancel(c))
    <3>1. /\ call[c] # "none" /\ reply[c] = "none" /\ active # c
          /\ \/ call[c] = "waiting" /\ c \in pending
             \/ \E j \in 1 + 1..Len(dbusEvents) : dbusEvents[j] = Cancel(c)
      <4>1. 1 \in 1..Len(dbusEvents) /\ dbusEvents[1] = Begin(c) /\ c \in Cookies
        BY <1>2, <1>3, <1>7
      <4>2. BeginsAreNew
        OBVIOUS
      <4> HIDE DEF IInv
      <4> QED BY <4>1, <4>2, Zenon DEF BeginsAreNew
    <3>2. (\E j \in 1 + 1..Len(dbusEvents) : dbusEvents[j] = Cancel(c)) => Queued(dbusEvents, Cancel(c))
      BY <1>2 DEF Queued
    <3> QED BY <1>3, <1>4, <1>7, <3>1, <3>2, Events
  <2>2. CASE active # NoCookie /\ reply' = [reply EXCEPT ![c] = "cancelled"] /\ UNCHANGED dialog
    <3>1. TypeOK'
      BY <1>1, <1>2, <1>3, <2>2 DEF TypeOK, dbusVars, dialog, helperVars
    <3>2. CallsMade' /\ AtRest'
      <4>1. CallsMade'
        BY <1>3, <1>6, <2>1, <2>2 DEF CallsMade, dialog, TypeOK
      <4>2. AtRest'
        BY <2>2 DEF AtRest, dialog
      <4> QED BY <4>1, <4>2
    <3>3. BeginsAreNew'
      BY <1>3, <1>5, <1>6, <1>7, <2>2, Events DEF BeginsAreNew, TypeOK, dialog
    <3>4. DialogIsWanted'
      <4>1. active \in Cookies /\ active' = active /\ popup' = popup /\ reply'[active] = reply[active]
        BY <1>3, <2>1, <2>2 DEF TypeOK, dialog
      <4>2. Cancel(active) # event
        BY <1>3, <1>7, <4>1, Events
      <4> QED BY <1>4, <1>6, <2>2, <4>1, <4>2 DEF DialogIsWanted
    <3>5. NoCallLost'
      <4> SUFFICES ASSUME NEW d \in Cookies, call[d] = "waiting"
                   PROVE  \/ Queued(dbusEvents', Begin(d)) \/ active' = d
                          \/ reply'[d] # "none" \/ d \notin pending
        BY <1>6 DEF NoCallLost
      <4>1. CASE d = c
        BY <2>2, <4>1 DEF TypeOK
      <4>2. CASE d # c
        <5>1. Begin(d) # event /\ reply'[d] = reply[d] /\ active' = active
          BY <1>3, <1>7, <2>2, <4>2, Events DEF TypeOK, dialog
        <5> QED BY <1>4, <5>1 DEF NoCallLost
      <4> QED BY <4>1, <4>2
    <3>6. AuthenticatedByHelper' /\ CheckingIsAnswered'
      <4>1. AuthenticatedByHelper'
        BY <1>1, <1>3, <2>2 DEF AuthenticatedByHelper, TypeOK, helperVars
      <4>2. CheckingIsAnswered'
        BY <1>1, <2>2 DEF CheckingIsAnswered, Queued, dialog, helperVars
      <4> QED BY <4>1, <4>2
    <3> QED BY <1>6, <3>1, <3>2, <3>3, <3>4, <3>5, <3>6
  <2>3. CASE /\ active = NoCookie /\ active' = c /\ popup' = ready
             /\ UNCHANGED <<reply, status, retries, typed>>
    <3>1. TypeOK'
      BY <1>1, <1>2, <1>3, <2>3 DEF TypeOK, dbusVars, helperVars
    <3>2. CallsMade' /\ AtRest'
      BY <1>3, <1>6, <2>1, <2>3, AgentAssumption DEF CallsMade, AtRest
    <3>3. BeginsAreNew'
      BY <1>3, <1>5, <1>6, <1>7, <2>3, Events DEF BeginsAreNew
    <3>4. DialogIsWanted'
      BY <1>3, <1>6, <2>1, <2>3, AgentAssumption DEF DialogIsWanted
    <3>5. NoCallLost'
      <4> SUFFICES ASSUME NEW d \in Cookies, call[d] = "waiting"
                   PROVE  \/ Queued(dbusEvents', Begin(d)) \/ active' = d
                          \/ reply[d] # "none" \/ d \notin pending
        BY <1>6, <2>3 DEF NoCallLost
      <4>1. CASE d # c
        BY <1>3, <1>4, <1>7, <2>3, <4>1, Events, AgentAssumption DEF NoCallLost
      <4> QED BY <2>3, <4>1
    <3>6. AuthenticatedByHelper'
      BY <1>1, <2>3 DEF AuthenticatedByHelper, helperVars
    <3>7. CheckingIsAnswered'
      BY <2>3 DEF CheckingIsAnswered, AtRest
    <3> QED BY <1>6, <3>1, <3>2, <3>3, <3>4, <3>5, <3>6, <3>7
  <2> QED BY <1>7, <2>2, <2>3 DEF OnAuthRequest
<1>8. CASE event = Cancel(c) /\ OnCancel(c)
  <2>1. \A d \in Cookies : Queued(dbusEvents, Begin(d)) => Queued(dbusEvents', Begin(d))
    BY <1>3, <1>4, <1>8, Events
  <2>2. CASE active = c /\ Finish("cancelled")
    <3>1. /\ reply' = [reply EXCEPT ![c] = "cancelled"]
          /\ active' = NoCookie /\ status' = "idle" /\ retries' = 0 /\ typed' = FALSE
          /\ popup' = FALSE
      BY <2>2 DEF Finish
    <3>2. TypeOK'
      <4>1. reply' \in [Cookies -> {"none", "authenticated", "cancelled"}]
        BY <3>1 DEF TypeOK
      <4>2. status' \in {"idle", "checking", "failed"} /\ retries' \in 0..MaxRetries - 1
        BY <3>1 DEF MaxRetries
      <4>3. active' \in Cookies \cup {NoCookie} /\ typed' \in BOOLEAN /\ popup' \in BOOLEAN
        BY <3>1
      <4> QED BY <1>1, <1>2, <4>1, <4>2, <4>3 DEF TypeOK, dbusVars, helperVars
    <3>3. CallsMade' /\ AtRest'
      BY <1>3, <1>6, <2>2, <3>1, AgentAssumption DEF CallsMade, AtRest, TypeOK
    <3>4. BeginsAreNew'
      BY <1>3, <1>5, <1>6, <2>2, <3>1, AgentAssumption DEF BeginsAreNew, TypeOK
    <3>5. DialogIsWanted' /\ CheckingIsAnswered'
      BY <3>1 DEF DialogIsWanted, CheckingIsAnswered
    <3>6. NoCallLost'
      <4> SUFFICES ASSUME NEW d \in Cookies, call[d] = "waiting"
                   PROVE  Queued(dbusEvents', Begin(d)) \/ reply'[d] # "none" \/ d \notin pending
        BY <1>6 DEF NoCallLost
      <4>1. CASE d = c
        BY <3>1, <4>1 DEF TypeOK
      <4>2. CASE d # c
        BY <2>1, <2>2, <3>1, <4>2 DEF NoCallLost, TypeOK
      <4> QED BY <4>1, <4>2
    <3>7. AuthenticatedByHelper'
      BY <1>1, <1>3, <3>1 DEF AuthenticatedByHelper, TypeOK, helperVars
    <3> QED BY <1>6, <3>2, <3>3, <3>4, <3>5, <3>6, <3>7
  <2>3. CASE active # c /\ UNCHANGED <<reply, dialog>>
    <3>1. TypeOK' /\ CallsMade' /\ AtRest'
      BY <1>1, <1>2, <1>6, <2>3 DEF TypeOK, CallsMade, AtRest, dbusVars, dialog, helperVars
    <3>2. BeginsAreNew'
      BY <1>5, <1>6, <2>3 DEF BeginsAreNew, dialog
    <3>3. DialogIsWanted'
      <4>1. active # NoCookie => Cancel(active) # event
        BY <1>3, <1>8, <2>3, Events DEF TypeOK
      <4> QED BY <1>4, <1>6, <2>3, <4>1 DEF DialogIsWanted, dialog
    <3>4. NoCallLost'
      BY <1>6, <2>1, <2>3 DEF NoCallLost, dialog
    <3>5. AuthenticatedByHelper' /\ CheckingIsAnswered'
      BY <1>1, <2>3 DEF AuthenticatedByHelper, CheckingIsAnswered, Queued, dialog, helperVars
    <3> QED BY <1>6, <3>1, <3>2, <3>3, <3>4, <3>5
  <2> QED BY <1>8, <2>2, <2>3 DEF OnCancel
<1> QED BY <1>1, <1>2, <1>7, <1>8, Events DEF c

-----------------------------------------------------------------------------
(* Theorems. *)

(* Every step keeps the invariant. *)
LEMMA NextKeeps == IInv /\ [Next]_vars => IInv'
<1> SUFFICES ASSUME IInv, [Next]_vars PROVE IInv'
  OBVIOUS
<1>1. CASE \E c \in Cookies : \/ BeginAuthentication(c) \/ ReturnCall(c)
                              \/ CancelAuthentication(c) \/ HelperEnds(c)
  BY <1>1, BeginAuthenticationKeeps, ReturnCallKeeps, CancelAuthenticationKeeps, HelperEndsKeeps
<1>2. CASE GlobalsBound \/ TakeDbusEvent \/ TakePamResult
  BY <1>2, GlobalsBoundKeeps, TakeDbusEventKeeps, TakePamResultKeeps
<1>3. CASE EditPassword \/ ConfirmPassword \/ Dismiss
  BY <1>3, EditPasswordKeeps, ConfirmPasswordKeeps, DismissKeeps
<1>4. CASE UNCHANGED vars
  <2> USE <1>4 DEF vars, dbusVars, dialog, helperVars, IInv
  <2>1. TypeOK' /\ CallsMade' /\ BeginsAreNew' /\ SuccessResponded' /\ AtRest'
    BY DEF TypeOK, CallsMade, BeginsAreNew, SuccessResponded, AtRest
  <2>2. DialogIsWanted' /\ NoCallLost' /\ AuthenticatedByHelper' /\ CheckingIsAnswered'
    BY DEF DialogIsWanted, NoCallLost, AuthenticatedByHelper, CheckingIsAnswered, Queued
  <2> QED BY <2>1, <2>2
<1> QED BY <1>1, <1>2, <1>3, <1>4 DEF Next

(* The bookkeeping of calls, channels and the dialog stays consistent. *)
THEOREM Invariance == Spec => []IInv
<1>1. Init => IInv
  BY InitIInv
<1>2. IInv /\ [Next]_vars => IInv'
  BY NextKeeps
<1> QED BY <1>1, <1>2, PTL DEF Spec

(* Every variable of the agent keeps its type; in particular the popup     *)
(* never offers more than MaxRetries attempts.                             *)
THEOREM Typing == Spec => []TypeOK
<1>1. IInv => TypeOK
  BY DEF IInv
<1> QED BY <1>1, Invariance, PTL

(* No dialog outlives the call it answers. *)
THEOREM Wanted == Spec => []DialogIsWanted
<1>1. IInv => DialogIsWanted
  BY DEF IInv
<1> QED BY <1>1, Invariance, PTL

(* A waiting call is in the channel, shown, answered or cancelled, and     *)
(* only a helper of its own request authenticates a request.               *)
THEOREM CallsKept == Spec => []CallsAgree
<1>1. IInv => CallsAgree
  BY DEF IInv, CallsAgree
<1> QED BY <1>1, Invariance, PTL

(* While the popup shows "checking", an answer is on its way. *)
THEOREM Answered == Spec => []CheckingIsAnswered
<1>1. IInv => CheckingIsAnswered
  BY DEF IInv
<1> QED BY <1>1, Invariance, PTL
=============================================================================
