------------------------------ MODULE ShellBridge ------------------------------
(***************************************************************************)
(* The control socket of the compositor and the parties on it: the desktop *)
(* shell, restarted by the watchdog when it dies, and the screenshot       *)
(* portal, which opens one connection per request and waits at most        *)
(* READ_IDLE_TIMEOUT for the answer.  A screenshot is captured by the      *)
(* render loop once the user has answered a question the shell shows       *)
(* (crates/meridian-compositor/src/state/ipc,                              *)
(* crates/meridian-shell/src/wayland/ipc.rs, state/timers.rs,              *)
(* crates/meridian-portal/src/screenshot.rs, src/main.rs).                 *)
(*                                                                         *)
(* A connection is known by its client end: a request, or one of the       *)
(* numbers ShellConns, which the shell uses again once the server has      *)
(* forgotten them.  The compositor is single threaded, so poll_ipc is one  *)
(* step; it is written as operators on the record Server of its state.     *)
(***************************************************************************)
EXTENDS Naturals, Sequences, FiniteSets, SequencesExt

CONSTANTS Requests,     \* screenshot requests, one connection each
          Messages,     \* what a request can ask for, a subset of MessageSpace
          ShellConns,   \* connection numbers of the shell
          Workspaces,   \* numbers of the workspaces
          SockCap,      \* events a socket holds before a write fails
          DevCapture,   \* MERIDIAN_SCREENSHOT_DEV is set
          Nobody        \* no request, no connection

Conns == Requests \cup ShellConns

MessageSpace == [valid : BOOLEAN, origin : {"PortalDbus", "Internal"},
                 interactive : BOOLEAN]

ASSUME BridgeAssumption ==
    /\ Messages \subseteq MessageSpace
    /\ Workspaces \subseteq Nat /\ 1 \in Workspaces
    /\ SockCap \in Nat \ {0} /\ DevCapture \in BOOLEAN
    /\ Requests \cap ShellConns = {} /\ Nobody \notin Conns

VARIABLES
    clients,    \* IpcServer.clients, in the order of acceptance
    backlog,    \* connections the server has not accepted yet
    role,       \* clients authenticated as the shell
    up,         \* lines a client wrote and the server has not read
    down,       \* events and answers written to a client and not read
    gone,       \* connections the client end has closed
    cut,        \* connections the server has shut down
    torn,       \* connections whose last event was written in part
    consent,    \* pending_screenshot_consent
    region,     \* pending_screenshot_region
    queue,      \* pending_screenshot_requests
    workspace,  \* workspaces.active
    running,    \* the event loop of the compositor runs
    shell,      \* the shell process
    portal,     \* what the portal worker of each request is doing
    allowed,    \* history: requests the user said yes to
    told,       \* history: connections a workspace event was written to
    ignored     \* history: those a switch was ignored of since the last announcement

server == <<clients, backlog, role, cut, torn, consent, region, queue, workspace, told,
            ignored>>
wires  == <<up, down, gone>>
vars   == <<server, wires, running, shell, portal, allowed>>

\* The fields of MeridianShell that the questions use.
Fresh == [alive |-> TRUE, conn |-> Nobody, todo |-> <<>>, residue |-> FALSE,
          consent |-> Nobody, picker |-> FALSE, region |-> Nobody,
          local |-> FALSE, view |-> 1, blind |-> FALSE]
Dead  == [Fresh EXCEPT !.alive = FALSE]

Token           == [kind |-> "authenticate"]
Command(k, r, yes) == [kind |-> k, req |-> r, yes |-> yes]
Screenshot(m)   == [kind |-> "screenshot", msg |-> m]
Question(k, r)  == [kind |-> k, req |-> r]
Desk(w)         == [kind |-> "desk", ws |-> w]
Answer(outcome) == [kind |-> "answer", outcome |-> outcome]

IsDesk(e) == e.kind = "desk"

-----------------------------------------------------------------------------
(* IpcServer and poll_ipc, on the record of the compositor's state.         *)

Server == [clients |-> clients, backlog |-> backlog, role |-> role, up |-> up,
           down |-> down, cut |-> cut, torn |-> torn, consent |-> consent,
           region |-> region, queue |-> queue, workspace |-> workspace,
           told |-> told, ignored |-> ignored, grabbed |-> FALSE,
           inbox |-> <<>>, sent |-> {}]

\* One more member of a list, unless it is in dead.
Kept(list, x, dead) == IF x \in dead THEN list ELSE Append(list, x)

\* Vec::retain_mut: the list without the members of dead, in its order.
Without(list, dead) ==
    LET kept[k \in 0..Len(list)] ==
            IF k = 0 THEN <<>> ELSE Kept(kept[k-1], list[k], dead)
    IN  kept[Len(list)]

\* retain_alive: shut down and forget the clients in dead.
Retain(s, dead) ==
    [s EXCEPT !.clients = Without(@, dead),
              !.role = @ \ dead, !.told = @ \ dead, !.cut = @ \cup dead]

\* broadcast: every authenticated client is written to; one whose socket is
\* full gets a part of the line and is dropped, one that closed is dropped.
Broadcast(s, e) ==
    LET targets == {c \in Range(s.clients) : c \in s.role}
        full    == {c \in targets : Len(s.down[c]) >= SockCap}
        failed  == (targets \cap gone) \cup full
        sent    == targets \ failed
    IN  [Retain(s, failed) EXCEPT
            !.down = [c \in Conns |-> IF c \in sent
                                      THEN Append(@[c], e) ELSE @[c]],
            !.torn = @ \cup (full \ gone),
            !.told = IF IsDesk(e) THEN @ \cup sent ELSE @,
            !.sent = sent]

\* send_screenshot_bridge_response: the answer goes to the client that asked,
\* if it is still connected.  Denied, unavailable and invalid are "failed" here.
Respond(s, r, outcome) ==
    IF r \notin Range(s.clients) THEN s
    ELSE IF r \in gone THEN Retain(s, {r})
    ELSE [s EXCEPT !.down[r] = Append(@, Answer(outcome))]

\* IpcServer::poll, the accept loop.
AcceptAll(s) == [s EXCEPT !.clients = @ \o s.backlog, !.backlog = <<>>]

\* IpcServer::poll, one client, read to the end: its lines are collected, those that
\* need the shell's role with whether the client had it by then.
ReadClient(s, c) ==
    LET lines      == s.up[c]
        trusted(i) == c \in s.role \/ \E j \in 1..i-1 : lines[j] = Token
    IN  [s EXCEPT !.up[c] = <<>>,
                  !.role  = IF Token \in Range(lines) THEN @ \cup {c} ELSE @,
                  !.inbox = @ \o [i \in 1..Len(lines) |->
                                     [conn |-> c, line |-> lines[i], trusted |-> trusted(i)]]]

\* broadcast_workspace and broadcast_window_snapshot, written one after the
\* other and both naming the workspace: one event here.
Announce(s) == [Broadcast(s, Desk(s.workspace)) EXCEPT !.ignored = {}]

\* Mutant of SwitchTo: the event is written before the workspace changes.
SwitchToEarly(s, w) ==
    IF s.grabbed \/ w = s.workspace THEN s ELSE [Announce(s) EXCEPT !.workspace = w]

\* switch_workspace: ignored while the pointer is grabbed.
SwitchTo(s, w) ==
    IF s.grabbed \/ w = s.workspace THEN s
    ELSE Announce([s EXCEPT !.workspace = w])

\* ShellCommand::SwitchWorkspace, with the history of what it came to.
Order(s, c, w) ==
    IF s.grabbed /\ w # s.workspace THEN [s EXCEPT !.ignored = @ \cup {c}]
    ELSE SwitchTo(s, w)

\* Mutant of Resolve: the answer goes to the request held longest.
ResolveOldest(s, list, r, yes) ==
    IF s[list] = <<>> THEN s
    ELSE LET t == [s EXCEPT ![list] = Tail(@)]
         IN  IF yes THEN [t EXCEPT !.queue = Append(@, Head(s[list]))]
             ELSE Respond(t, Head(s[list]), "failed")

\* resolve_screenshot_consent and resolve_screenshot_region: an answer to a
\* request that is not held is ignored.
Resolve(s, list, r, yes) ==
    IF r \notin Range(s[list]) THEN s
    ELSE LET t == [s EXCEPT ![list] = Without(@, {r})]
         IN  IF yes THEN [t EXCEPT !.queue = Append(@, r)] ELSE Respond(t, r, "failed")

\* handle_shell_command, of what one client wrote as the shell.
HandleCommand(s, heard) ==
    LET c == heard.line
    IN  CASE heard.trusted /\ c.kind = "consent" -> Resolve(s, "consent", c.req, c.yes)
          [] heard.trusted /\ c.kind = "region"  -> Resolve(s, "region", c.req, c.yes)
          [] heard.trusted /\ c.kind = "switch"  -> Order(s, heard.conn, c.req)
          [] OTHER -> s

\* ScreenshotPolicy::evaluate.
Decision(m) ==
    CASE ~m.valid -> "invalid"
      [] m.valid /\ m.origin = "Internal" -> IF DevCapture THEN "allow" ELSE "deny"
      [] m.valid /\ m.origin = "PortalDbus" ->
            IF m.interactive THEN "region" ELSE "consent"

\* Mutant of Ask: the request nobody was asked about stays held.
AskKeepsHeld(s, list, r) ==
    LET t == Broadcast([s EXCEPT ![list] = Append(@, r)], Question(list, r))
    IN  IF t.sent # {} THEN t ELSE Respond(t, r, "failed")

\* Hold a request and ask the shell; reject_pending_..._without_shell takes
\* the newest one back when nobody was asked.
Ask(s, list, r) ==
    LET t == Broadcast([s EXCEPT ![list] = Append(@, r)], Question(list, r))
    IN  IF t.sent # {} THEN t
        ELSE Respond([t EXCEPT ![list] = Front(@)], Last(t[list]), "failed")

\* handle_screenshot_bridge_request, of the client that asked.
HandleRequest(s, heard) ==
    LET r        == heard.conn
        decision == Decision(heard.line.msg)
    IN  CASE heard.line.kind # "screenshot"   -> s
          [] OTHER ->
             CASE decision = "allow" -> [s EXCEPT !.queue = Append(@, r)]
               [] decision \in {"consent", "region"} -> Ask(s, decision, r)
               [] OTHER -> Respond(s, r, "failed")

\* apply_ipc_event of the shell: a question replaces the one that is shown.
Apply(sh, e) ==
    CASE IsDesk(e) -> [sh EXCEPT !.view = e.ws, !.blind = FALSE]
      [] e.kind = "consent" -> [sh EXCEPT !.consent = e.req]
      [] e.kind = "region" -> [sh EXCEPT !.region = e.req, !.picker = TRUE,
                                         !.local = FALSE]
      [] OTHER -> sh

\* The bodies of the loops over clients, lines, requests and events.
Serve(do, s, x) ==
    CASE do = "read"    -> ReadClient(s, x)
      [] do = "command" -> HandleCommand(s, x)
      [] do = "request" -> HandleRequest(s, x)
      [] do = "answer"  -> Respond(s, x.req, x.outcome)
      [] do = "apply"   -> Apply(s, x)

Each(do, s, list) ==
    LET done[k \in 0..Len(list)] ==
            IF k = 0 THEN s ELSE Serve(do, done[k-1], list[k])
    IN  done[Len(list)]

\* IpcServer::poll: accept, read every client to the end, drop the closed ones.
PollSockets(s) ==
    LET a == AcceptAll(s)
        b == Each("read", a, a.clients)
    IN  Retain(b, gone \cap Range(b.clients))

\* poll_ipc: snapshots for new clients, then commands, then requests.
PollOnce(s) ==
    LET p == PollSockets(s)
        a == IF s.backlog # <<>> THEN Announce(p) ELSE p
    IN  Each("request", Each("command", a, a.inbox), a.inbox)

\* The compositor's state becomes s.
Becomes(s) ==
    /\ clients' = s.clients /\ backlog' = s.backlog /\ role' = s.role
    /\ up' = s.up /\ down' = s.down /\ cut' = s.cut /\ torn' = s.torn
    /\ consent' = s.consent /\ region' = s.region /\ queue' = s.queue
    /\ workspace' = s.workspace /\ told' = s.told /\ ignored' = s.ignored

\* The client ends of cs are closed: what they have not read is lost, what they
\* wrote can still be read.
Close(cs) ==
    /\ gone' = gone \cup cs
    /\ down' = [c \in Conns |-> IF c \in cs THEN <<>> ELSE down[c]]

-----------------------------------------------------------------------------
(* Steps of the compositor.                                                 *)

\* The pointer is grabbed by a drag, by a popup, and by smithay's ClickGrab as long as
\* any button is down, the one of the click on the panel included, so that any poll
\* may find it grabbed.  It makes a difference only to a switch.
SwitchUnread == \E c \in ShellConns : \E i \in DOMAIN up[c] : up[c][i].kind = "switch"

PollIpc ==
    /\ running
    /\ \/ backlog # <<>>
       \/ \E c \in Range(clients) : up[c] # <<>> \/ c \in gone
    /\ \E grabbed \in BOOLEAN :
        /\ grabbed => SwitchUnread
        /\ Becomes(PollOnce([Server EXCEPT !.grabbed = grabbed]))
    /\ UNCHANGED <<gone, running, shell, portal, allowed>>

\* switch_workspace from a key binding; while the pointer is grabbed it does nothing.
SwitchWorkspace(w) ==
    /\ running /\ w > workspace
    /\ Becomes(SwitchTo(Server, w))
    /\ UNCHANGED <<gone, running, shell, portal, allowed>>

\* process_screenshot_requests: all queued requests are answered, with a
\* picture or, when rendering, cropping or writing fails, with an error.
Capture ==
    /\ running /\ queue # <<>>
    /\ \E good \in SUBSET Range(queue) :
        LET reply(r) == [req |-> r, outcome |-> IF r \in good THEN "success" ELSE "failed"]
        IN  Becomes(Each("answer", [Server EXCEPT !.queue = <<>>],
                         [i \in 1..Len(queue) |-> reply(queue[i])]))
    /\ UNCHANGED <<gone, running, shell, portal, allowed>>

\* ShellCommand::Quit, then IpcServer::drop and ShellWatchdog::stop.
Quit ==
    /\ running
    /\ running' = FALSE
    /\ cut' = cut \cup Range(clients) \cup Range(backlog)
    /\ clients' = <<>> /\ backlog' = <<>> /\ role' = {} /\ told' = {} /\ ignored' = {}
    /\ consent' = <<>> /\ region' = <<>> /\ queue' = <<>>
    /\ up' = [c \in Conns |-> <<>>]
    /\ shell' = Dead
    /\ Close({shell.conn} \ {Nobody})
    /\ UNCHANGED <<torn, workspace, portal, allowed>>

-----------------------------------------------------------------------------
(* The shell process.                                                       *)

Idle == shell.alive /\ shell.todo = <<>>

Free(c) == c \notin Range(clients) /\ c \notin Range(backlog) /\ c # shell.conn

\* IpcClient::reconnect: connect first, then write the token (and the command
\* that made send reconnect); the server can accept between the two.
Connect(sh, lines) ==
    \E c \in ShellConns :
        /\ Free(c)
        /\ shell' = [sh EXCEPT !.conn = c, !.todo = <<Token>> \o lines]
        /\ backlog' = Append(backlog, c)
        /\ role' = role \ {c} /\ gone' = gone \ {c} /\ cut' = cut \ {c}
        /\ torn' = torn \ {c} /\ told' = told \ {c} /\ ignored' = ignored \ {c}
        /\ up' = [up EXCEPT ![c] = <<>>] /\ down' = [down EXCEPT ![c] = <<>>]

Reconnect ==
    /\ running /\ Idle /\ shell.conn = Nobody
    /\ Connect(shell, <<>>)
    /\ UNCHANGED <<clients, consent, region, queue, workspace,
                   running, portal, allowed>>

WriteToken ==
    /\ shell.alive /\ shell.todo # <<>>
    /\ up' = [up EXCEPT ![shell.conn] = shell.todo]
    /\ shell' = [shell EXCEPT !.todo = <<>>]
    /\ UNCHANGED <<server, down, gone, running, portal, allowed>>

\* IpcClient::send by the shell sh: without a connection it reconnects, on a
\* connection the server has shut down the command is lost.
Send(sh, command) ==
    \/ /\ sh.conn = Nobody
       /\ Connect(sh, <<command>>)
       /\ UNCHANGED <<clients, consent, region, queue, workspace>>
    \/ /\ sh.conn # Nobody /\ sh.conn \in cut
       /\ shell' = [sh EXCEPT !.conn = Nobody]
       /\ Close({sh.conn})
       /\ UNCHANGED <<server, up>>
    \/ /\ sh.conn # Nobody /\ sh.conn \notin cut
       /\ up' = [up EXCEPT ![sh.conn] = Append(@, command)]
       /\ shell' = sh
       /\ UNCHANGED <<server, down, gone>>

\* IpcClient::poll and poll_ipc of the shell.  The buffer outlives the
\* connection: a part of a line left in it spoils the first event that follows.
ShellPoll ==
    LET c      == shell.conn
        spoilt == shell.residue /\ down[c] # <<>>
        heard  == IF spoilt THEN Tail(down[c]) ELSE down[c]
        start  == [shell EXCEPT
                     !.residue = IF c \in torn THEN TRUE ELSE @ /\ down[c] = <<>>,
                     !.blind   = @ \/ (spoilt /\ IsDesk(Head(down[c]))),
                     !.conn    = IF c \in cut THEN Nobody ELSE @]
    IN  /\ Idle /\ c # Nobody
        /\ down[c] # <<>> \/ c \in cut
        /\ shell' = Each("apply", start, heard)
        /\ down' = [down EXCEPT ![c] = <<>>]
        /\ gone' = IF c \in cut THEN gone \cup {c} ELSE gone
        /\ UNCHANGED <<server, up, running, portal, allowed>>

\* respond_consent: a click on a button of the modal, Enter or Escape.
RespondConsent(yes) ==
    /\ running /\ Idle /\ shell.consent # Nobody
    /\ Send([shell EXCEPT !.consent = Nobody], Command("consent", shell.consent, yes))
    /\ allowed' = IF yes THEN allowed \cup {shell.consent} ELSE allowed
    /\ UNCHANGED <<running, portal>>

\* respond_region: Enter once a rectangle is dragged, or Escape.  In local mode
\* nothing is sent, the shell takes the picture itself.
RespondRegion(yes) ==
    LET closed == [shell EXCEPT !.region = Nobody, !.picker = FALSE,
                                !.local = FALSE]
    IN  /\ running /\ Idle /\ shell.picker
        /\ IF shell.region = Nobody
           THEN shell' = closed /\ UNCHANGED <<server, wires>>
           ELSE Send(closed, Command("region", shell.region, yes))
        /\ allowed' = IF yes /\ shell.region # Nobody
                      THEN allowed \cup {shell.region} ELSE allowed
        /\ UNCHANGED <<running, portal>>

\* open_region_picker_local: the screenshot button of the panel.
OpenPickerLocal ==
    /\ Idle /\ ~shell.local
    /\ shell' = [shell EXCEPT !.region = Nobody, !.picker = TRUE,
                              !.local = TRUE]
    /\ UNCHANGED <<server, wires, running, portal, allowed>>

\* handle_workspace_click, on the press of the button: the panel shows the new
\* workspace at once.
ShellSwitch(w) ==
    /\ running /\ Idle /\ w > shell.view
    /\ shell.conn # Nobody => up[shell.conn] = <<>>
    /\ Send([shell EXCEPT !.view = w], Command("switch", w, TRUE))
    /\ UNCHANGED <<running, portal, allowed>>

Crash ==
    /\ running /\ shell.alive
    /\ shell' = Dead
    /\ Close({shell.conn} \ {Nobody})
    /\ UNCHANGED <<server, up, running, portal, allowed>>

\* ShellWatchdog::start; how long it waits before is left out.
Restart ==
    /\ running /\ ~shell.alive
    /\ shell' = Fresh
    /\ UNCHANGED <<server, wires, running, portal, allowed>>

-----------------------------------------------------------------------------
(* The portal.                                                              *)

\* run_request: connect, write the request, wait.
PortalCall(r, m) ==
    /\ running /\ portal[r] = "idle"
    /\ portal' = [portal EXCEPT ![r] = "waiting"]
    /\ backlog' = Append(backlog, r)
    /\ up' = [up EXCEPT ![r] = <<Screenshot(m)>>]
    /\ UNCHANGED <<clients, role, cut, torn, consent, region, queue, workspace, told,
                   ignored, down, gone, running, shell, allowed>>

PortalReturn(r) ==
    /\ portal' = [portal EXCEPT ![r] = "returned"]
    /\ Close({r})
    /\ UNCHANGED <<server, up, running, shell, allowed>>

\* The answer, or the end of the stream; how each becomes a response code of
\* the portal is left out.
PortalRead(r) ==
    /\ portal[r] = "waiting"
    /\ down[r] # <<>> \/ r \in cut
    /\ PortalReturn(r)

\* READ_IDLE_TIMEOUT passed without a byte from the compositor.
PortalTimeout(r) ==
    /\ portal[r] = "waiting" /\ down[r] = <<>> /\ r \notin cut
    /\ PortalReturn(r)

-----------------------------------------------------------------------------
Init ==
    /\ clients = <<>> /\ backlog = <<>> /\ role = {}
    /\ up = [c \in Conns |-> <<>>] /\ down = [c \in Conns |-> <<>>]
    /\ gone = {} /\ cut = {} /\ torn = {}
    /\ consent = <<>> /\ region = <<>> /\ queue = <<>>
    /\ workspace = 1 /\ running = TRUE /\ shell = Fresh
    /\ portal = [r \in Requests |-> "idle"]
    /\ allowed = {} /\ told = {} /\ ignored = {}

ShellStep ==
    \/ WriteToken \/ ShellPoll \/ Reconnect
    \/ \E yes \in BOOLEAN : RespondConsent(yes) \/ RespondRegion(yes)
    \/ OpenPickerLocal
    \/ \E w \in Workspaces : ShellSwitch(w)
    \/ Crash \/ Restart

PortalStep ==
    \E r \in Requests :
        \/ \E m \in Messages : PortalCall(r, m)
        \/ PortalRead(r) \/ PortalTimeout(r)

Next ==
    \/ PollIpc \/ Capture \/ Quit
    \/ \E w \in Workspaces : SwitchWorkspace(w)
    \/ ShellStep
    \/ PortalStep

Spec == Init /\ [][Next]_vars

-----------------------------------------------------------------------------
(* Properties.                                                              *)

\* What is written to the compositor: by the portal, and by the shell.
Shot      == { Screenshot(m) : m \in Messages }
ShellLine == {Token} \cup [kind : {"consent", "region"}, req : Requests, yes : BOOLEAN]
                     \cup [kind : {"switch"}, req : Workspaces, yes : {TRUE}]

\* What the compositor writes.
Event == [kind : {"consent", "region"}, req : Requests] \cup [kind : {"desk"}, ws : Workspaces]
            \cup [kind : {"answer"}, outcome : {"success", "failed"}]

UpSpace == { u \in [Conns -> Seq(Shot \cup ShellLine)] :
                /\ \A r \in Requests : u[r] \in Seq(Shot)
                /\ \A c \in ShellConns : u[c] \in Seq(ShellLine) }

ShellSpace == [alive : BOOLEAN, conn : ShellConns \cup {Nobody}, todo : Seq(ShellLine),
               residue : BOOLEAN, consent : Requests \cup {Nobody}, picker : BOOLEAN,
               region : Requests \cup {Nobody}, local : BOOLEAN, view : Workspaces,
               blind : BOOLEAN]

\* Every variable has its type.
TypeOK ==
    /\ clients \in Seq(Conns) /\ backlog \in Seq(Conns)
    /\ role \subseteq ShellConns /\ gone \subseteq Conns /\ cut \subseteq Conns
    /\ torn \subseteq Conns /\ told \subseteq Conns /\ ignored \subseteq Conns
    /\ up \in UpSpace /\ down \in [Conns -> Seq(Event)]
    /\ consent \in Seq(Requests) /\ region \in Seq(Requests) /\ queue \in Seq(Requests)
    /\ workspace \in Workspaces /\ running \in BOOLEAN
    /\ shell \in ShellSpace
    /\ portal \in [Requests -> {"idle", "waiting", "returned"}]
    /\ allowed \subseteq Requests

Occurrences(s, r) == Cardinality({i \in DOMAIN s : s[i] = r})

\* Number of places of the system in which request r is or is answered.
Places(r) ==
    Len(up[r]) + Occurrences(consent, r) + Occurrences(region, r)
        + Occurrences(queue, r) + Len(down[r])

\* A request is never lost and never doubled: while the portal waits it is in
\* exactly one place (unread, held for one of the two questions, queued for
\* capture, or answered), and it is never in two.  Dropping the wrong held
\* request when no shell is connected, or answering twice, breaks it.
RequestsConserved ==
    \A r \in Requests :
        /\ Places(r) <= 1
        /\ portal[r] = "waiting" /\ running => Places(r) = 1

\* Only a request the user said yes to is photographed (or one of the
\* developer's own, when the development flag is set): answers that arrive
\* late, for another request or after a restart never release a picture.
CapturedWasAllowed ==
    \A r \in Requests :
        r \in Range(queue) \/ Contains(down[r], Answer("success"))
            => r \in allowed \/ DevCapture

LastDesk(s, default) ==
    LET desks == {i \in 1..Len(s) : IsDesk(s[i])}
    IN  IF desks = {} THEN default
        ELSE s[CHOOSE i \in desks : \A j \in desks : j <= i].ws

\* On a connection that has carried a workspace event, the last one in flight
\* (or, with none in flight, what the panel shows, which a click changes before
\* the compositor hears of it) is the compositor's workspace once every click
\* has been read, whatever order switches, accepts and reads take.  The exceptions
\* are an event spoilt by the rest of a torn line, and a click the compositor
\* ignored because the pointer was grabbed: nothing is written then, and the
\* panel stays on the wrong workspace until the next event.
ViewFollows ==
    LET c == shell.conn
    IN  c \in Range(clients) /\ c \in told /\ c \notin ignored /\ ~shell.blind
            /\ ~(shell.residue /\ down[c] # <<>>)
            /\ (\A i \in DOMAIN up[c] : up[c][i].kind # "switch")
        => LastDesk(down[c], shell.view) = workspace

=============================================================================
