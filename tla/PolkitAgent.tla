---------------------------- MODULE PolkitAgent ----------------------------
(***************************************************************************)
(* The polkit authentication agent: polkitd asks over D-Bus, the D-Bus     *)
(* thread forwards requests and cancellations to the UI loop, the UI shows *)
(* one popup at a time and starts a helper thread for each confirmed       *)
(* password, and the helpers' results come back over a second channel.     *)
(*                                                                         *)
(* Passwords are left out but for whether one is typed in; the cookie      *)
(* stands for the request.                                                 *)
(***************************************************************************)
EXTENDS Naturals, Sequences
LOCAL INSTANCE Functions

CONSTANTS
    Cookies,     \* one for each request of polkitd, never used again
    MaxHelpers   \* bound: helper threads running or not yet listened to

NoCookie == "no request"
MaxRetries == 3

ASSUME AgentAssumption == NoCookie \notin Cookies /\ MaxHelpers \in Nat \ {0}

VARIABLES
    call,        \* BeginAuthentication: "none", "waiting" or "returned"
    cancelled,   \* requests for which polkitd called CancelAuthentication
    pending,     \* AgentService::pending, the requests that can be cancelled
    dbusEvents,  \* channel from the D-Bus thread to the UI loop
    reply,       \* AuthRequest::reply: the outcome sent, or "none"
    ready,       \* the Wayland globals are bound
    active,      \* AppState::active: the cookie
    status,      \* ActiveAuth::status
    retries,     \* ActiveAuth::retries
    typed,       \* ActiveAuth::password is not empty
    popup,       \* AppState::popup
    helpers,     \* helper threads running for each request
    pamEvents,   \* channel from the helper threads to the UI loop
    responded    \* requests for which a helper called Response on polkitd

dbusVars == <<call, cancelled, pending>>
dialog == <<active, status, retries, typed, popup>>
helperVars == <<helpers, pamEvents, responded>>
vars == <<dbusVars, dbusEvents, reply, ready, dialog, helperVars>>

DbusEvent == [kind : {"begin", "cancel"}, cookie : Cookies]
PamResult == [cookie : Cookies, ok : BOOLEAN]

TypeOK ==
    /\ call \in [Cookies -> {"none", "waiting", "returned"}]
    /\ cancelled \subseteq Cookies
    /\ pending \subseteq Cookies
    /\ dbusEvents \in Seq(DbusEvent)
    /\ reply \in [Cookies -> {"none", "authenticated", "cancelled"}]
    /\ ready \in BOOLEAN
    /\ active \in Cookies \cup {NoCookie}
    /\ status \in {"idle", "checking", "failed"}
    /\ retries \in 0..MaxRetries - 1
    /\ typed \in BOOLEAN
    /\ popup \in BOOLEAN
    /\ helpers \in [Cookies -> Nat]
    /\ pamEvents \in Seq(PamResult)
    /\ responded \subseteq Cookies

Init ==
    /\ call = [c \in Cookies |-> "none"]
    /\ cancelled = {} /\ pending = {}
    /\ dbusEvents = <<>>
    /\ reply = [c \in Cookies |-> "none"]
    /\ ready = FALSE
    /\ active = NoCookie /\ status = "idle" /\ retries = 0 /\ typed = FALSE
    /\ popup = FALSE
    /\ helpers = [c \in Cookies |-> 0]
    /\ pamEvents = <<>>
    /\ responded = {}

Queued(queue, event) == \E i \in 1..Len(queue) : queue[i] = event
Begin(c) == [kind |-> "begin", cookie |-> c]
Cancel(c) == [kind |-> "cancel", cookie |-> c]

-----------------------------------------------------------------------------
(* The D-Bus thread.                                                       *)

(* begin_authentication up to its select!; without a usable identity it    *)
(* returns at once.                                                        *)
BeginAuthentication(c) ==
    /\ call[c] = "none"
    /\ \/ /\ call' = [call EXCEPT ![c] = "waiting"]
          /\ pending' = pending \cup {c}
          /\ dbusEvents' = Append(dbusEvents, Begin(c))
       \/ /\ call' = [call EXCEPT ![c] = "returned"]
          /\ UNCHANGED <<pending, dbusEvents>>
    /\ UNCHANGED <<cancelled, reply, ready, dialog, helperVars>>

(* The select! of begin_authentication wakes up: an outcome was sent, or   *)
(* cancel_authentication took the entry out of pending.                    *)
ReturnCall(c) ==
    /\ call[c] = "waiting"
    /\ reply[c] # "none" \/ c \notin pending
    /\ call' = [call EXCEPT ![c] = "returned"]
    /\ pending' = pending \ {c}
    /\ UNCHANGED <<cancelled, dbusEvents, reply, ready, dialog, helperVars>>

(* Mutant: the waiting call is woken, the popup is not told. *)
CancelCallOnly(c) ==
    /\ call[c] # "none" /\ c \notin cancelled
    /\ cancelled' = cancelled \cup {c}
    /\ pending' = pending \ {c}
    /\ UNCHANGED <<call, dbusEvents, reply, ready, dialog, helperVars>>

(* cancel_authentication, also when it crosses the return of the call. *)
CancelAuthentication(c) ==
    /\ call[c] # "none" /\ c \notin cancelled
    /\ cancelled' = cancelled \cup {c}
    /\ pending' = pending \ {c}
    /\ dbusEvents' = Append(dbusEvents, Cancel(c))
    /\ UNCHANGED <<call, reply, ready, dialog, helperVars>>

-----------------------------------------------------------------------------
(* The UI loop.                                                            *)

(* The registry events arrive. *)
GlobalsBound ==
    /\ ~ready /\ ready' = TRUE
    /\ UNCHANGED <<dbusVars, dbusEvents, reply, dialog, helperVars>>

(* AppState::finish: the request is answered and its popup destroyed. *)
Finish(outcome) ==
    /\ reply' = [reply EXCEPT ![active] = outcome]
    /\ active' = NoCookie /\ status' = "idle" /\ retries' = 0 /\ typed' = FALSE
    /\ popup' = FALSE

(* Mutant: a request that comes while another is shown is put aside. *)
ParkRequest(c) ==
    IF active # NoCookie
    THEN UNCHANGED <<reply, dialog>>
    ELSE /\ active' = c /\ popup' = ready
         /\ UNCHANGED <<reply, status, retries, typed>>

(* on_auth_request: one request at a time, others are declined.  Before    *)
(* the globals are bound there is nothing to make a popup from.            *)
OnAuthRequest(c) ==
    IF active # NoCookie
    THEN reply' = [reply EXCEPT ![c] = "cancelled"] /\ UNCHANGED dialog
    ELSE /\ active' = c /\ popup' = ready
         /\ UNCHANGED <<reply, status, retries, typed>>

(* on_cancel_from_polkit: ignored unless it is about the active request. *)
OnCancel(c) ==
    IF active = c THEN Finish("cancelled") ELSE UNCHANGED <<reply, dialog>>

TakeDbusEvent ==
    /\ dbusEvents # <<>>
    /\ dbusEvents' = Tail(dbusEvents)
    /\ LET event == Head(dbusEvents)
       IN  \/ event.kind = "begin" /\ OnAuthRequest(event.cookie)
           \/ event.kind = "cancel" /\ OnCancel(event.cookie)
    /\ UNCHANGED <<dbusVars, ready, helperVars>>

(* Mutants: the result of an earlier request is taken for the active one;  *)
(* a wrong password leaves the popup checking.                             *)
OnAnyPamResult(result) ==
    CASE active = NoCookie -> UNCHANGED <<reply, dialog>>
      [] active # NoCookie /\ result.ok -> Finish("authenticated")
      [] active # NoCookie /\ ~result.ok /\ retries + 1 >= MaxRetries -> Finish("cancelled")
      [] OTHER -> /\ retries' = retries + 1 /\ status' = "failed" /\ typed' = FALSE
                  /\ UNCHANGED <<reply, active, popup>>

OnPamResultStillChecking(result) ==
    CASE active # result.cookie -> UNCHANGED <<reply, dialog>>
      [] active = result.cookie /\ result.ok -> Finish("authenticated")
      [] active = result.cookie /\ ~result.ok /\ retries + 1 >= MaxRetries -> Finish("cancelled")
      [] OTHER -> /\ retries' = retries + 1 /\ typed' = FALSE
                  /\ UNCHANGED <<reply, active, status, popup>>

(* on_pam_result: results of other requests are dropped; the third wrong   *)
(* password declines the request.                                          *)
OnPamResult(result) ==
    CASE active # result.cookie -> UNCHANGED <<reply, dialog>>
      [] active = result.cookie /\ result.ok -> Finish("authenticated")
      [] active = result.cookie /\ ~result.ok /\ retries + 1 >= MaxRetries -> Finish("cancelled")
      [] OTHER -> /\ retries' = retries + 1 /\ status' = "failed" /\ typed' = FALSE
                  /\ UNCHANGED <<reply, active, popup>>

TakePamResult ==
    /\ pamEvents # <<>>
    /\ pamEvents' = Tail(pamEvents)
    /\ OnPamResult(Head(pamEvents))
    /\ UNCHANGED <<dbusVars, dbusEvents, ready, helpers, responded>>

(* Typing or erasing, also while a password is being checked.  Keys reach  *)
(* the agent through its popup.                                            *)
EditPassword ==
    /\ popup /\ active # NoCookie
    /\ typed' \in BOOLEAN
    /\ status' = IF status = "failed" THEN "idle" ELSE status
    /\ UNCHANGED <<dbusVars, dbusEvents, reply, ready, active, retries, popup, helperVars>>

(* Helper threads running, and results not yet listened to. *)
Attempts == FoldFunction(+, 0, helpers) + Len(pamEvents)

(* Enter: a helper thread starts for the password typed so far, even if    *)
(* another one is still checking an earlier one.                           *)
ConfirmPassword ==
    /\ popup /\ active # NoCookie /\ typed
    /\ Attempts < MaxHelpers
    /\ status' = "checking" /\ typed' = FALSE
    /\ helpers' = [helpers EXCEPT ![active] = @ + 1]
    /\ UNCHANGED <<dbusVars, dbusEvents, reply, ready, active, retries, popup,
                   pamEvents, responded>>

(* Escape, or the compositor closes the popup. *)
Dismiss ==
    /\ popup /\ active # NoCookie
    /\ Finish("cancelled")
    /\ UNCHANGED <<dbusVars, dbusEvents, ready, helperVars>>

-----------------------------------------------------------------------------
(* authenticate_via_helper returns.  SUCCESS means the helper has called   *)
(* Response; a helper that is killed after 60 silent seconds may have, but *)
(* counts as failed.                                                       *)
HelperEnds(c) ==
    /\ helpers[c] > 0
    /\ helpers' = [helpers EXCEPT ![c] = @ - 1]
    /\ \E ok, responds \in BOOLEAN :
          /\ ok => responds
          /\ pamEvents' = Append(pamEvents, [cookie |-> c, ok |-> ok])
          /\ responded' = IF responds THEN responded \cup {c} ELSE responded
    /\ UNCHANGED <<dbusVars, dbusEvents, reply, ready, dialog>>

-----------------------------------------------------------------------------
Next ==
    \/ \E c \in Cookies : \/ BeginAuthentication(c) \/ ReturnCall(c)
                          \/ CancelAuthentication(c) \/ HelperEnds(c)
    \/ GlobalsBound \/ TakeDbusEvent \/ TakePamResult
    \/ EditPassword \/ ConfirmPassword \/ Dismiss

Spec == Init /\ [][Next]_vars

(* Both event loops keep running and a helper ends, if only by its         *)
(* timeout.  Nothing is assumed of the user or of polkitd.                 *)
Fairness ==
    /\ WF_vars(TakeDbusEvent) /\ WF_vars(TakePamResult)
    /\ \A c \in Cookies : WF_vars(ReturnCall(c)) /\ WF_vars(HelperEnds(c))

FairSpec == Spec /\ Fairness

-----------------------------------------------------------------------------
(* A popup belongs to a request, and that request is still wanted: its     *)
(* call waits and can be cancelled, or the cancellation is on its way to   *)
(* the UI.  No dialog outlives the call it answers.                        *)
DialogIsWanted ==
    /\ popup => active # NoCookie
    /\ active # NoCookie =>
          /\ reply[active] = "none"
          /\ \/ call[active] = "waiting" /\ active \in pending
             \/ Queued(dbusEvents, Cancel(active))

(* No call hangs: while it waits its request is in the channel, shown,     *)
(* answered, or cancelled.                                                 *)
NoCallLost ==
    \A c \in Cookies : call[c] = "waiting" =>
        \/ Queued(dbusEvents, Begin(c))
        \/ active = c
        \/ reply[c] # "none"
        \/ c \notin pending

(* A request is only reported as authenticated when a helper of its own    *)
(* told polkitd so, however late and out of order the results arrive.      *)
AuthenticatedByHelper ==
    \A c \in Cookies : reply[c] = "authenticated" => c \in responded

(* Both: no call is left waiting, and none is answered by the helper of    *)
(* another, whichever of cancellation, confirmation and result came first. *)
CallsAgree == NoCallLost /\ AuthenticatedByHelper

(* The popup shows "checking" only while a helper of this request runs or  *)
(* its result is on the way, so it never waits for nothing.                *)
CheckingIsAnswered ==
    active # NoCookie /\ status = "checking" =>
        \/ helpers[active] > 0
        \/ \E ok \in BOOLEAN : Queued(pamEvents, [cookie |-> active, ok |-> ok])

-----------------------------------------------------------------------------
(* Liveness, under Fairness. *)

(* A cancelled request returns and its popup goes away. *)
CancelCloses ==
    \A c \in Cookies : c \in cancelled ~> call[c] = "returned" /\ active # c

(* A request is shown or returned: it is never parked behind another one.  *)
RequestDecided ==
    \A c \in Cookies : call[c] = "waiting" ~> call[c] = "returned" \/ active = c

=============================================================================
