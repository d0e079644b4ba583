----------------------------- MODULE Notifications -----------------------------
(***************************************************************************)
(* The notification daemon: the D-Bus thread, which hands out ids and      *)
(* answers before anything is shown, and the shell's main loop, which      *)
(* keeps the queue, shows one card of it and lets a timer take away what   *)
(* has expired.  The clock is which of the queued ones have expired; the   *)
(* text of a card is the call it came from.                                *)
(***************************************************************************)
EXTENDS Naturals, Sequences, SequencesExt

CONSTANTS MaxCalls,   \* bound on Notify calls
          MaxCloses   \* bound on CloseNotification calls

VARIABLES
  next_id,     \* NotificationsService.next_id
  channel,     \* the events on their way to the main loop
  queue,       \* shell.notifications: [id, call, lasts, expired]
  configured,  \* notification_configured
  card,        \* the call whose text is on the screen, 0 for none
  calls, closes

vars == << next_id, channel, queue, configured, card, calls, closes >>

Timeouts == { "ms", "default", "never" }

\* expires_in_from_timeout and is_expired: without a duration it never expires.
MayExpire(n) == n.lasts # "never"

Init == /\ next_id = 1 /\ channel = << >> /\ queue = << >>
        /\ configured = FALSE /\ card = 0 /\ calls = 0 /\ closes = 0

\* VecDeque::retain: the entries at the positions kept, in their order.
Retain(q, kept) ==
  LET after[n \in 0..Len(q)] ==
        IF n = 0 THEN << >> ELSE after[n - 1] \o (IF n \in kept THEN << q[n] >> ELSE << >>)
  IN  after[Len(q)]

\* draw_notification_popup and unmap_notification_popup: the newest one, once the layer is
\* configured; nothing attached when there is none.
Draw(q) == card' = CASE q = << >>                 -> 0
                     [] q # << >> /\ configured'   -> Last(q).call
                     [] q # << >> /\ ~ configured' -> card
-----------------------------------------------------------------------------
(* The D-Bus thread.  A sender may name any id, one that was never handed  *)
(* out, too.                                                               *)

Notify(replaces, lasts) ==
  /\ calls < MaxCalls /\ calls' = calls + 1
  /\ next_id' = (IF replaces = 0 THEN next_id + 1 ELSE next_id)
  /\ channel' = Append(channel, [kind |-> "notify", call |-> calls', lasts |-> lasts,
                                 id |-> IF replaces = 0 THEN next_id ELSE replaces])
  /\ UNCHANGED << queue, configured, card, closes >>

CloseNotification(id) ==
  /\ closes < MaxCloses /\ closes' = closes + 1
  /\ channel' = Append(channel, [kind |-> "close", id |-> id])
  /\ UNCHANGED << next_id, queue, configured, card, calls >>
-----------------------------------------------------------------------------
(* The main loop: insert_notifications_source.                             *)

OnNotify ==
  /\ channel # << >> /\ Head(channel).kind = "notify"
  /\ channel' = Tail(channel)
  /\ queue' = Append(queue, [id |-> Head(channel).id, call |-> Head(channel).call,
                             lasts |-> Head(channel).lasts, expired |-> FALSE])
  /\ UNCHANGED << next_id, configured, calls, closes >>
  /\ Draw(queue')

\* Mutant: the card is drawn anew only when the queue is empty.
OnCloseQuietly ==
  /\ channel # << >> /\ Head(channel).kind = "close"
  /\ channel' = Tail(channel)
  /\ queue' = Retain(queue, { i \in DOMAIN queue : queue[i].id # Head(channel).id })
  /\ UNCHANGED << next_id, configured, calls, closes >>
  /\ card' = (IF queue' = << >> THEN 0 ELSE card)

\* Every one with the id, also when two senders use the same one.
OnClose ==
  /\ channel # << >> /\ Head(channel).kind = "close"
  /\ channel' = Tail(channel)
  /\ queue' = Retain(queue, { i \in DOMAIN queue : queue[i].id # Head(channel).id })
  /\ UNCHANGED << next_id, configured, calls, closes >>
  /\ Draw(queue')

Elapse(i) ==
  /\ MayExpire(queue[i]) /\ ~ queue[i].expired
  /\ queue' = [queue EXCEPT ![i].expired = TRUE]
  /\ UNCHANGED << next_id, channel, configured, card, calls, closes >>

\* Mutant: the timer looks at the front of the queue alone.
TimerAtFront ==
  /\ queue # << >> /\ queue[1].expired
  /\ queue' = Tail(queue)
  /\ UNCHANGED << next_id, channel, configured, calls, closes >>
  /\ Draw(queue')

\* insert_notification_expiry_timer, the firings that find one expired
Timer ==
  /\ \E i \in DOMAIN queue : queue[i].expired
  /\ queue' = Retain(queue, { i \in DOMAIN queue : ~ queue[i].expired })
  /\ UNCHANGED << next_id, channel, configured, calls, closes >>
  /\ Draw(queue')

\* configure: the queue is drawn, or unmapped again when it is empty.
Configure ==
  /\ configured' = TRUE
  /\ UNCHANGED << next_id, channel, queue, calls, closes >>
  /\ Draw(queue)

\* closed: the compositor takes the surface away, the queue with it.
LayerClosed ==
  /\ configured /\ configured' = FALSE
  /\ queue' = << >> /\ card' = 0
  /\ UNCHANGED << next_id, channel, calls, closes >>

Main == OnNotify \/ OnClose

Next ==
  \/ \E r \in 0 .. MaxCalls, t \in Timeouts : Notify(r, t)
  \/ \E id \in 1 .. MaxCalls : CloseNotification(id)
  \/ \E i \in DOMAIN queue : Elapse(i)
  \/ Main \/ Timer \/ Configure \/ LayerClosed

Fairness == /\ WF_vars(Main) /\ WF_vars(Timer)
            /\ \A i \in 1 .. MaxCalls : WF_vars(i \in DOMAIN queue /\ Elapse(i))

Spec == Init /\ [][Next]_vars
FairSpec == Spec /\ Fairness
-----------------------------------------------------------------------------
(* Properties                                                              *)

\* The card on the screen is one of a notification that is still queued, and there is one as
\* long as any is queued and the layer is configured, whichever of arrival, close, expiry and
\* configure came last: none outlives its notification, also when two senders use one id.
CardIsQueued == /\ queue = << >> => card = 0
                /\ configured /\ queue # << >> => \E i \in DOMAIN queue : card = queue[i].call

\* "v1 renders only the front entry" (wayland/shell.rs:358), "paint the front notification"
\* (wayland/render/notifications.rs:100): the card is the oldest one that is queued.
ShowsFront == configured /\ queue # << >> => card = queue[1].call

\* What the code does instead: it draws the newest, .back() (wayland/render/notifications.rs:108).
ShowsNewest == /\ queue = << >> => card = 0
               /\ configured /\ queue # << >> => card = Last(queue).call

\* A notification with a time-out leaves the queue, whatever was queued before or after it;
\* one without stays until its sender closes it.
TimedOnesGo == \A c \in 1 .. MaxCalls :
  (\E i \in DOMAIN queue : queue[i].call = c /\ MayExpire(queue[i]))
    ~> ~ \E i \in DOMAIN queue : queue[i].call = c
=============================================================================
