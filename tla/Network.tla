-------------------------------- MODULE Network --------------------------------
(***************************************************************************)
(* The network side of the shell: what it reads of the system (network/    *)
(* nmcli.rs, and network/freebsd.rs where there is no NetworkManager), the *)
(* tray popup with its two tabs (network_popup.rs), the Quick Settings     *)
(* requests, and the modal that asks for a Wi-Fi password (wifi_password_  *)
(* modal.rs).                                                              *)
(*                                                                         *)
(* A password is the sequence of the networks the modal named while each   *)
(* of its characters was typed, which is all the properties ask of it.     *)
(* Connections are brought up by threads with tools that report nothing    *)
(* back: nmcli in one call, wpa_cli in several, each of which can fail.    *)
(* What is read of the system comes up empty when the tool fails or, for   *)
(* nmcli, takes too long.                                                  *)
(***************************************************************************)
EXTENDS Naturals, Sequences, FiniteSets

CONSTANTS SSIDs,      \* names of networks
          MaxRows,    \* MAX_WIFI_ROWS
          MaxTyped,   \* bound on the length of a password
          MaxCalls,   \* bound on threads and the networks they make
          MaxChanges  \* bound on what changes in the world

VARIABLES
  backend,   \* "nmcli" or "ifconfig"
  air,       \* access points in reach, a sequence of BSS
  devices,   \* the devices of the machine, a set of Devices
  saved,     \* names of saved profiles
  state,     \* network_controller: the kind of the connection, or "none"
  scan,      \* wifi_networks
  profiles,  \* network_profiles, names
  page,      \* the network page of the settings is on the screen
  popup,     \* "shut", "status" or "wifi": the tray popup and its tab
  tab,       \* network_popup_tab, kept while the popup is shut
  rows,      \* the networks in the rows of the popup's last draw, WIFI_ROW_RECTS
  modal,     \* the modal is open
  prompt,    \* wifi_password_prompt, "" for none
  input,     \* wifi_password_input
  threads,   \* connecting: to which network, with which password, how far, and to wpa_cli's id
  nets,      \* the networks the system has been given, by id: a name, a password, enabled
  changes

vars == << backend, air, devices, saved, state, scan, profiles, page, popup, tab, rows, modal, prompt, input, threads, nets, changes >>

Signals == 1..2
BSS == [ssid : SSIDs, signal : Signals, secured : BOOLEAN, inUse : BOOLEAN]
\* A device is of a type: "tunnel" is tun, tap or WireGuard, "bridge" what both backends
\* have a place for among the others, "unlisted" what neither of them knows by name.  It is
\* "down" (no link, or no address), or up with an IPv4 or with only an IPv6 address.
Types   == { "ethernet", "wifi", "vpn", "tunnel", "bridge", "unlisted", "loopback" }
Devices == [type : Types, link : { "down", "inet", "inet6" }]
Kinds   == { "ethernet", "wifi", "vpn", "other" }
\* The orders a set can be listed in, of which one is the alphabet, and what is in a list.
Orders(S)  == { f \in [1 .. Cardinality(S) -> S] : \A i, k \in DOMAIN f : f[i] = f[k] => i = k }
SSIDOrder  == CHOOSE f \in Orders(SSIDs) : TRUE
Members(l) == { l[i] : i \in DOMAIN l }
-----------------------------------------------------------------------------
(* What the two backends make of the system.                               *)

\* What parse_state makes of nmcli's TYPE, and classify_kind of an interface's name.
NmcliKind(d)    == IF d.type \in { "ethernet", "wifi", "vpn" } THEN d.type ELSE "other"
IfconfigKind(d) == CASE d.type \in { "ethernet", "unlisted" } -> "ethernet"
                     [] d.type = "wifi"                       -> "wifi"
                     [] d.type \in { "vpn", "tunnel" }        -> "vpn"
                     [] OTHER                                 -> "other"

\* The devices that count: those NetworkManager calls connected, and those which are active
\* and have an IPv4 address.
NmcliUp(ds)    == { d \in ds : d.type # "loopback" /\ d.link # "down" }
IfconfigUp(ds) == { d \in ds : d.type # "loopback" /\ d.link = "inet" }

\* kind_priority
Priority == [k \in Kinds |-> CASE k = "ethernet" -> 0 [] k = "wifi" -> 1 [] k = "vpn" -> 2
                               [] k = "other" -> 3]

\* parse_state: nothing when the general STATE is not connected; else wired at once, else the
\* first of the others that was met, by kind.
NmcliState(general, ds) ==
  LET met == { NmcliKind(d) : d \in NmcliUp(ds) }
  IN CASE ~ general -> "none"
       [] general /\ "ethernet" \in met -> "ethernet"
       [] general /\ "ethernet" \notin met /\ "wifi" \in met -> "wifi"
       [] general /\ met \cap { "ethernet", "wifi" } = {} /\ "vpn" \in met -> "vpn"
       [] general /\ met \cap { "ethernet", "wifi", "vpn" } = {} -> IF "other" \in met THEN "other" ELSE "none"

\* parse_ifconfig_state: sorted by kind_priority, the first.
IfconfigState(ds) ==
  LET up == { IfconfigKind(d) : d \in IfconfigUp(ds) }
  IN IF up = {} THEN "none" ELSE CHOOSE k \in up : \A other \in up : Priority[k] <= Priority[other]

\* The order of a list: strongest first, then by name.
Position(s) == CHOOSE i \in DOMAIN SSIDOrder : SSIDOrder[i] = s
Before(a, b) == a.signal > b.signal \/ (a.signal = b.signal /\ Position(a.ssid) < Position(b.ssid))
Ordered(set) == CHOOSE f \in Orders(set) : \A i, k \in DOMAIN f : i < k => Before(f[i], f[k])

\* One entry of the map by name: a better access point takes the place of the one there.
Collect(aps, Better(_, _)) ==
  LET best[k \in 0 .. Len(aps)] ==
        IF k = 0 THEN {}
        ELSE LET old == { e \in best[k - 1] : e.ssid = aps[k].ssid }
             IN IF \A e \in old : Better(aps[k], e) THEN (best[k - 1] \ old) \cup { aps[k] }
                                                   ELSE best[k - 1]
  IN best[Len(aps)]

\* parse_wifi_networks: the one in use wins, then the strongest.
NmcliScan(aps) ==
  Ordered(Collect(aps, LAMBDA c, e : \/ c.inUse /\ ~ e.inUse
                                     \/ c.inUse = e.inUse /\ c.signal > e.signal))

\* parse_scan: none is known to be in use.
IfconfigScan(aps) ==
  Ordered(Collect([i \in DOMAIN aps |-> [aps[i] EXCEPT !.inUse = FALSE]], LAMBDA c, e : c.signal > e.signal))

\* parse_saved_connections: all profiles there are; or, where there are none, the interfaces
\* by the name of the network they are on.
NmcliProfiles    == saved
IfconfigProfiles == { air[i].ssid : i \in { k \in DOMAIN air : air[k].inUse } }

\* run_nmcli, run_ifconfig: an answer, or none (which is also what is shown when the general
\* STATE is not connected).
Answers(ok, none) == { ok, none }
Poll     == IF backend = "nmcli" THEN { NmcliState(general, devices) : general \in BOOLEAN }
                                 ELSE Answers(IfconfigState(devices), "none")
Rescan   == Answers(IF backend = "nmcli" THEN NmcliScan(air) ELSE IfconfigScan(air), << >>)
Profiles == Answers(IF backend = "nmcli" THEN NmcliProfiles ELSE IfconfigProfiles, {})

\* draw_network_popup; the rows of a popup that is shut are out of reach.
DrawPopup ==
  rows' = CASE popup' = "wifi"   -> SubSeq(scan', 1, IF Len(scan') < MaxRows THEN Len(scan') ELSE MaxRows)
            [] OTHER -> << >>
-----------------------------------------------------------------------------
Init ==
  /\ backend \in { "nmcli", "ifconfig" }
  /\ air \in UNION { [1..n -> { b \in BSS : b.secured /\ ~ b.inUse /\ b.signal = 1 }] : n \in { 0, 2 } }
  /\ \A i \in DOMAIN air : air[i].ssid = SSIDOrder[i]
  /\ devices = {} /\ saved \in { {}, SSIDs }
  /\ state = "none" /\ scan = << >> /\ profiles = {}
  /\ page = FALSE /\ popup = "shut" /\ tab = "status" /\ rows = << >>
  /\ modal = FALSE /\ prompt = "" /\ input = << >>
  /\ threads = {} /\ nets = << >> /\ changes = 0

\* Networks come and go, one is connected to, cables are plugged (of two devices, one has an
\* IPv4 address), profiles saved.
WorldChanges ==
  /\ changes < MaxChanges /\ changes' = changes + 1
  /\ \/ /\ air' \in UNION { [1..n -> BSS] : n \in 0..2 } /\ UNCHANGED << devices, saved >>
        /\ \A i, k \in DOMAIN air' : (air'[i].inUse /\ air'[k].inUse) => i = k
     \/ \E a, b \in Devices : /\ b.link = "inet" /\ devices' \in { {}, {a}, {a, b} }
                             /\ UNCHANGED << air, saved >>
     \/ saved' \in SUBSET SSIDs /\ UNCHANGED << air, devices >>
  /\ UNCHANGED << backend, state, scan, profiles, page, popup, tab, rows, modal, prompt, input, threads, nets >>

\* The timer, which draws an open popup when the connection has changed.
PollTimer ==
  /\ state' \in Poll
  /\ UNCHANGED << backend, air, devices, saved, scan, profiles, page, popup, tab, modal, prompt, input, threads, nets, changes >>
  /\ IF state' # state THEN DrawPopup ELSE UNCHANGED rows

\* toggle_network_popup, on the tab it was left on.
TogglePopup ==
  /\ IF popup = "shut" THEN popup' = tab /\ state' \in Poll /\ page' = FALSE
                       ELSE popup' = "shut" /\ UNCHANGED << state, page >>
  /\ UNCHANGED << backend, air, devices, saved, scan, profiles, tab, modal, prompt, input, threads, nets, changes >>
  /\ DrawPopup

\* switch_network_tab
SwitchTab ==
  /\ popup # "shut"
  /\ tab' = (IF tab = "wifi" THEN "status" ELSE "wifi") /\ popup' = tab'
  /\ IF tab' = "wifi" THEN scan' \in Rescan /\ profiles' \in Profiles /\ UNCHANGED state
                      ELSE state' \in Poll /\ UNCHANGED << scan, profiles >>
  /\ UNCHANGED << backend, air, devices, saved, page, modal, prompt, input, threads, nets, changes >>
  /\ DrawPopup

\* SetSettingsCategory(Network): everything is listed, and a password is given up.
OpenPage ==
  /\ page' = TRUE /\ popup' = "shut"
  /\ scan' \in Rescan /\ profiles' \in Profiles
  /\ prompt' = "" /\ input' = << >>
  /\ UNCHANGED << backend, air, devices, saved, state, tab, modal, threads, nets, changes >>
  /\ DrawPopup

\* Quick Settings opens, or asks for a refresh: everything is read again.
QuickSettingsRefresh ==
  /\ state' \in Poll /\ scan' \in Rescan /\ profiles' \in Profiles
  /\ UNCHANGED << backend, air, devices, saved, page, popup, tab, rows, modal, prompt, input, threads, nets, changes >>

\* connect_wifi: a thread is spawned.
Connect(s, pw) ==
  /\ Cardinality(threads) + Len(nets) < MaxCalls
  /\ threads' = threads \cup { [to |-> s, with |-> pw, step |-> IF backend = "nmcli" THEN "nmcli" ELSE "add", id |-> 0] }

\* QuickSettingsNetworkConnect: by name, with the password typed there.
QuickSettingsConnect(s) ==
  /\ \E i \in DOMAIN scan :
       /\ scan[i].ssid = s
       /\ \E typed \in { << >>, << s >> } :
            /\ scan[i].secured /\ s \notin profiles => typed # << >>
            /\ Connect(s, IF scan[i].secured /\ s \notin profiles THEN typed ELSE << >>)
  /\ UNCHANGED << backend, air, devices, saved, state, scan, profiles, page, popup, tab, rows, modal, prompt, input, nets, changes >>

\* QuickSettingsNetworkDisconnect, when the shell takes the connection for a wireless one.
QuickSettingsDisconnect ==
  /\ state = "wifi"
  /\ air' \in { air, [i \in DOMAIN air |-> [air[i] EXCEPT !.inUse = FALSE]] }
  /\ UNCHANGED << backend, devices, saved, state, scan, profiles, page, popup, tab, rows, modal, prompt, input, threads, nets, changes >>

\* Mutant: what was typed stays.
OpenModalKeeping(s) == modal' = TRUE /\ prompt' = s /\ popup' = "shut" /\ UNCHANGED input

\* open_wifi_password_modal
OpenModal(s) == modal' = TRUE /\ prompt' = s /\ popup' = "shut" /\ input' = << >>

\* WifiConnect on the page, connect_wifi_from_popup in the popup: by index, in the list as
\* it is now.
ClickNetwork(i) ==
  /\ page \/ (popup = "wifi" /\ i \in DOMAIN rows)
  /\ i \in DOMAIN scan
  /\ LET n == scan[i] IN
       IF n.secured /\ n.ssid \notin profiles
       THEN OpenModal(n.ssid) /\ DrawPopup /\ UNCHANGED threads
       ELSE Connect(n.ssid, << >>) /\ UNCHANGED << modal, prompt, input, popup, rows >>
  /\ UNCHANGED << backend, air, devices, saved, state, scan, profiles, page, tab, nets, changes >>

\* A character or BackSpace in the modal.
Type ==
  /\ modal
  /\ \/ Len(input) < MaxTyped /\ input' = Append(input, prompt)
     \/ input # << >> /\ input' = SubSeq(input, 1, Len(input) - 1)
  /\ UNCHANGED << backend, air, devices, saved, state, scan, profiles, page, popup, tab, rows, modal, prompt, threads, nets, changes >>

\* close_wifi_password_modal, and the modal's surface being closed by the compositor.
Cancel ==
  /\ modal /\ modal' = FALSE /\ prompt' = "" /\ input' = << >>
  /\ UNCHANGED << backend, air, devices, saved, state, scan, profiles, page, popup, tab, rows, threads, nets, changes >>

\* submit_wifi_password_modal
Submit ==
  /\ modal /\ modal' = FALSE /\ prompt' = "" /\ input' = << >>
  /\ IF prompt # "" /\ input # << >> THEN Connect(prompt, input) ELSE UNCHANGED threads
  /\ UNCHANGED << backend, air, devices, saved, state, scan, profiles, page, popup, tab, rows, nets, changes >>

rest == << backend, air, devices, saved, state, scan, profiles, page, popup, tab, rows, modal, prompt, input, changes >>

\* run_nmcli_background: nmcli has the network, or has failed.
NmcliEnds(t) ==
  /\ t \in threads /\ t.step = "nmcli"
  /\ threads' = threads \ {t}
  /\ nets' \in { nets, Append(nets, [ssid |-> t.to, psk |-> t.with, on |-> TRUE]) }
  /\ UNCHANGED rest

\* wpa_cli_connect: the next call of wpa_cli, of which the first that fails is the last.
\* One is not asked whether it failed: an open network has no password to set.
WpaStep(t) ==
  LET goes(step, id) == threads' = (threads \ {t}) \cup { [t EXCEPT !.step = step, !.id = id] }
  IN /\ t \in threads
     /\ \/ /\ t.step = "add" /\ nets' = Append(nets, [ssid |-> "", psk |-> << >>, on |-> FALSE])
           /\ goes("ssid", Len(nets) + 1)
        \/ t.step = "ssid" /\ nets' = [nets EXCEPT ![t.id].ssid = t.to] /\ goes("psk", t.id)
        \/ t.step = "psk" /\ nets' = [nets EXCEPT ![t.id].psk = t.with] /\ goes("enable", t.id)
        \/ t.step = "enable" /\ nets' = [nets EXCEPT ![t.id].on = TRUE] /\ threads' = threads \ {t}
        \/ t.step # "nmcli" /\ (t.step = "psk" => t.with # << >>) /\ threads' = threads \ {t} /\ UNCHANGED nets
     /\ UNCHANGED rest

\* The launcher closes.
ClosePage ==
  /\ page /\ page' = FALSE
  /\ UNCHANGED << backend, air, devices, saved, state, scan, profiles, popup, tab, rows, modal, prompt, input, threads, nets, changes >>

Next ==
  \/ WorldChanges \/ PollTimer \/ TogglePopup \/ SwitchTab \/ OpenPage \/ ClosePage
  \/ QuickSettingsRefresh \/ \E s \in SSIDs : QuickSettingsConnect(s)
  \/ \E i \in 1..2 : ClickNetwork(i)
  \/ QuickSettingsDisconnect \/ Type \/ Cancel \/ Submit
  \/ \E t \in threads : NmcliEnds(t) \/ WpaStep(t)

Spec == Init /\ [][Next]_vars
-----------------------------------------------------------------------------
(* Properties                                                              *)

\* A password goes to the network it was typed for, to the last character: whatever page,
\* popup or request comes between typing and Enter, and however the threads that connect
\* take turns and fail.
PasswordGoesWhereTyped ==
  \A n \in Members(nets) : \A i \in DOMAIN n.psk : n.psk[i] = n.ssid

\* "so a connected network keeps its in_use flag even if another BSS of the same name is
\* stronger" (nmcli.rs:294): a list has each network once, marked if any of its access
\* points is in use, and with that one's signal, else with the strongest.
ScanKeepsConnected ==
  LET l == NmcliScan(air)
      aps(s) == { air[i] : i \in { k \in DOMAIN air : air[k].ssid = s } }
  IN /\ { l[i].ssid : i \in DOMAIN l } = { air[i].ssid : i \in DOMAIN air }
     /\ \A i, k \in DOMAIN l : i < k => l[i].ssid # l[k].ssid /\ l[i].signal >= l[k].signal
     /\ \A i \in DOMAIN l :
          LET s == aps(l[i].ssid)
              u == IF \E b \in s : b.inUse THEN { b \in s : b.inUse } ELSE s
          IN l[i] \in u /\ \A b \in u : b.signal <= l[i].signal

\* "wired beats Wi-Fi beats VPN beats anything else (mirrors the nmcli backend)"
\* (freebsd.rs:91): the devices looked at one by one on the one side and sorted on the other,
\* both backends name the same kind of connection for the same devices, when NetworkManager
\* itself is connected - as long as no device that is up is of a type they class apart (a
\* tunnel is a VPN to the one and Other to the other, an unlisted one wired and Other) and
\* none has only an IPv6 address.
BackendsAgree ==
  (\A d \in NmcliUp(devices) : d.link = "inet" /\ d.type \notin { "tunnel", "unlisted" }) =>
    NmcliState(TRUE, devices) = IfconfigState(devices)
=============================================================================
