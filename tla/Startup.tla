------------------------------- MODULE Startup -------------------------------
(***************************************************************************)
(* The life of one node outside its friends (main() in src/src/main.cpp):  *)
(* options, config.json, tox_new and its second try, relay access control, *)
(* the first bootstrap and its repetition while offline, configure; then   *)
(* a crash, an error or SIGINT, and the next start.                        *)
(*                                                                         *)
(* The only datum kept is the address, "myip".  config.json holds one, or  *)
(* parses but has no string of that name, or is something that json::parse *)
(* rejects: no file, an empty file, a torn file.  (JSON that is no object, *)
(* on which operator[] throws, in the handler too, ends every start.)      *)
(* NoIp stands for every string that is no address, "" among them: myip is *)
(* "" when config.json has no string, and after cin at the end of standard *)
(* input or interrupted by SIGINT; the prompt is then answered by NoIp.    *)
(*                                                                         *)
(* toxcore is external: tox_new may fail (ports, savedata), access control *)
(* is off until it is switched on, and the nodes it was given are tried    *)
(* until one answers or the network is lost.                               *)
(***************************************************************************)
CONSTANTS Addr,        \* addresses
          NoIp,        \* a string that is no address
          None,        \* no value
          NoString,    \* config.json: parses, without a string "myip"
          Node,        \* ToxVPNCore::nodes, the bootstrap nodes
          Reachable    \* those that answer

ASSUME NodeAssumption == Node # {} /\ Reachable \subseteq Node
ASSUME NoneAssumption == None \notin Addr \cup {NoIp}
ASSUME NoStringAssumption == NoString \notin Addr \cup {NoIp, None}

Ip == Addr \cup {NoIp}

VARIABLES
  pc,               \* main: where it is
  config,           \* config.json: its "myip", NoString, or None when it does
                    \* not parse
  myip,             \* the global
  access_control,   \* toxcore: is relay access control on
  tcp_acl_enabled,  \* the global that tcp_acl_status prints
  tun,              \* the address of the TUN interface
  online,           \* tox_self_get_connection_status
  asked,            \* bootstrap nodes toxcore was given and keeps trying
  due,              \* more than 10 s have passed since last_boostrap
  given,            \* history: the address the operator gave last
  unsaved           \* history: the process it was given to ended before
                    \* saveConfig had opened config.json

history == <<given, unsaved>>
process == <<myip, access_control, tcp_acl_enabled, tun>>
network == <<online, asked, due>>
vars == <<pc, config, process, network, history>>

\* the address of a config.json that parses
Configured == IF config = NoString THEN NoIp ELSE config

Fresh ==
  /\ myip' = None
  /\ access_control' = FALSE
  /\ tcp_acl_enabled' = TRUE
  /\ tun' = None
  /\ online' = FALSE
  /\ asked' = {}
  /\ due' = FALSE

Init ==
  /\ pc = "down"
  /\ config \in Ip \cup {NoString, None}
  /\ myip = None
  /\ access_control = FALSE
  /\ tcp_acl_enabled = TRUE
  /\ tun = None
  /\ online = FALSE
  /\ asked = {}
  /\ due = FALSE
  /\ given = Configured
  /\ unsaved = FALSE
-----------------------------------------------------------------------------
(* The configuration *)

\* the options; an early return before config.json is read changes nothing
Start(ip, next) ==
  /\ pc = "down"
  /\ myip' = ip
  /\ pc' = next
  /\ UNCHANGED <<config, access_control, tcp_acl_enabled, tun, network>>

\* the operator gives ip
Give(ip) == given' = ip /\ unsaved' = FALSE

\* mistake: -i counts for this run only
StartWithIpUnsaved(ip) ==
  /\ Start(ip, "tox")
  /\ Give(ip)

\* -i, whether config.json parses or not
StartWithIp(ip) ==
  /\ Start(ip, "save")
  /\ Give(ip)

\* config.json parses: its "myip" if that is a string, else myip stays ""
StartConfigured ==
  /\ config # None
  /\ Start(Configured, "tox")
  /\ UNCHANGED history

\* json::parse threw and there is no -i
StartAsking ==
  /\ config = None
  /\ Start(None, "ask")
  /\ UNCHANGED history

\* "what is the VPN ip of this computer?"
Answer(ip) ==
  /\ pc = "ask"
  /\ myip' = ip
  /\ pc' = "save"
  /\ Give(ip)
  /\ UNCHANGED <<config, access_control, tcp_acl_enabled, tun, network>>

\* mistake: fopen(..., "r+"), what was in the file stays
OpenConfigKeeps ==
  /\ pc = "save"
  /\ pc' = "write"
  /\ UNCHANGED <<config, process, network, history>>

\* saveConfig: fopen(..., "w") truncates
OpenConfig ==
  /\ pc = "save"
  /\ config' = None
  /\ pc' = "write"
  /\ UNCHANGED <<process, network, history>>

\* fwrite, whose result nobody looks at, writes everything or a part
WriteConfig(result) ==
  /\ pc = "write"
  /\ config' = IF result = "whole" THEN myip ELSE None
  /\ pc' = "tox"
  /\ UNCHANGED <<process, network, history>>
-----------------------------------------------------------------------------
(* toxcore, bootstrap and the interface *)

\* mistake: the switch of toxcore is left as it is
NewToxOpen ==
  /\ pc \in {"tox", "again"}
  /\ pc' = "bootstrap"
  /\ UNCHANGED <<config, process, network, history>>

\* tox_new, first or second call, then access control is enabled
NewTox ==
  /\ pc \in {"tox", "again"}
  /\ access_control' = TRUE
  /\ pc' = "bootstrap"
  /\ UNCHANGED <<config, myip, tcp_acl_enabled, tun, network, history>>

\* the first call fails: ipv6 off, and again; after the second main returns
NewToxFails ==
  /\ pc = "tox"
  /\ pc' = "again"
  /\ UNCHANGED <<config, process, network, history>>

\* do_bootstrap with node rand() % nodes.size()
do_bootstrap(node) ==
  /\ asked' = asked \cup {node}
  /\ due' = FALSE
  /\ UNCHANGED <<config, process, online, history>>

FirstBootstrap(node) ==
  /\ pc = "bootstrap"
  /\ do_bootstrap(node)
  /\ pc' = "configure"

\* mistake: the device is taken for the address
ConfigureDevice(tunDevice) ==
  /\ pc = "configure"
  /\ tun' = tunDevice
  /\ pc' = "loop"
  /\ UNCHANGED <<config, myip, access_control, tcp_acl_enabled, network, history>>

\* NetworkInterface::configure sets the address by the interface's name: the one
\* of -t, or the template "tox_master%d", which names no interface.  The ioctls
\* that name one succeed; inet_aton of no address leaves what the stack held.
Configure(tunDevice) ==
  /\ pc = "configure"
  /\ tun' \in IF tunDevice = None THEN {None} ELSE IF myip = NoIp THEN Ip ELSE {myip}
  /\ pc' = "loop"
  /\ UNCHANGED <<config, myip, access_control, tcp_acl_enabled, network, history>>
-----------------------------------------------------------------------------
(* The loop *)

\* mistake: the node is chosen once
RetryTheSame(node) ==
  /\ pc = "loop"
  /\ ~online /\ due
  /\ node \in asked
  /\ do_bootstrap(node)
  /\ UNCHANGED pc

\* the end of the loop's body: offline for more than 10 s
Retry(node) ==
  /\ pc = "loop"
  /\ ~online /\ due
  /\ do_bootstrap(node)
  /\ UNCHANGED pc

\* the command "bootstrap"
Command(node) ==
  /\ pc = "loop"
  /\ do_bootstrap(node)
  /\ UNCHANGED pc

\* tcp_acl_enable and tcp_acl_disable
SetAccessControl(enabled) ==
  /\ pc = "loop"
  /\ access_control' = enabled
  /\ tcp_acl_enabled' = enabled
  /\ UNCHANGED <<pc, config, myip, tun, network, history>>

\* a crash, SIGINT in the loop, or one of main's early returns and exits: with
\* an address that is not saved yet when config.json cannot be opened
Stop ==
  /\ pc # "down"
  /\ pc' = "down"
  /\ Fresh
  /\ unsaved' = (unsaved \/ pc = "save")
  /\ UNCHANGED <<config, given>>
-----------------------------------------------------------------------------
(* The environment *)

TenSeconds ==
  /\ pc \in {"configure", "loop"}
  /\ ~due
  /\ due' = TRUE
  /\ UNCHANGED <<pc, config, process, online, asked, history>>

\* connection_status, in tox_iterate
GoesOnline ==
  /\ pc = "loop"
  /\ ~online
  /\ asked \cap Reachable # {}
  /\ online' = TRUE
  /\ UNCHANGED <<pc, config, process, asked, due, history>>

\* the network is lost, and with it every node toxcore knew
GoesOffline ==
  /\ online
  /\ online' = FALSE
  /\ asked' = {}
  /\ UNCHANGED <<pc, config, process, due, history>>

Next ==
  \/ \E ip \in Ip : StartWithIp(ip) \/ Answer(ip)
  \/ StartConfigured
  \/ StartAsking
  \/ OpenConfig
  \/ \E result \in {"whole", "part"} : WriteConfig(result)
  \/ NewTox
  \/ NewToxFails
  \/ \E node \in Node : FirstBootstrap(node) \/ Retry(node) \/ Command(node)
  \/ \E tunDevice \in {"tun0", None} : Configure(tunDevice)
  \/ \E enabled \in BOOLEAN : SetAccessControl(enabled)
  \/ Stop
  \/ TenSeconds
  \/ GoesOnline
  \/ GoesOffline

Spec == Init /\ [][Next]_vars

\* Time passes, toxcore connects through a node that answers, and rand()
\* leaves out no node for ever.
FairSpec ==
  /\ Spec
  /\ WF_vars(TenSeconds)
  /\ WF_vars(GoesOnline)
  /\ \A node \in Node : SF_vars(Retry(node))
-----------------------------------------------------------------------------
(* Properties *)

TypeOK ==
  /\ pc \in {"down", "ask", "save", "write", "tox", "again",
             "bootstrap", "configure", "loop"}
  /\ config \in Ip \cup {NoString, None}
  /\ myip \in Ip \cup {None}
  /\ access_control \in BOOLEAN
  /\ tcp_acl_enabled \in BOOLEAN
  /\ tun \in Ip \cup {None}
  /\ online \in BOOLEAN
  /\ asked \subseteq Node
  /\ due \in BOOLEAN
  /\ given \in Ip \cup {None}
  /\ unsaved \in BOOLEAN

\* Whatever crashes, torn files, failed starts and restarts came before, a node that
\* has passed its configuration uses the address it was given last, by -i or at the
\* prompt (no answer counts as ""), unless the process that it was given to ended
\* before it had opened config.json.
LastGivenIpUsed ==
  pc \in {"tox", "again", "bootstrap", "configure", "loop"} => myip = given \/ unsaved

\* tcp_acl_status tells what toxcore does, over commands and restarts.
AclStatusTrue == pc = "loop" => tcp_acl_enabled = access_control

Life == INSTANCE NodeLife WITH
          up <- IF pc = "loop" THEN myip ELSE None,
          kept <- Configured

\* The steps of saving and loading config.json implement NodeLife: also after a
\* start that lost the address it was given, the node uses the one it kept.
IpOutlivesCrashes == Life!Spec

\* A node that stays in its loop comes online again and again, however often
\* the network goes and whatever node it asked first, if one node answers.
ComesOnline == Reachable # {} => (<>[](pc = "loop") => []<>online)

\* The help text says of -i <IP> "use this IP on the vpn".
VpnUsesIp == pc = "loop" /\ myip \in Addr => tun = myip
=============================================================================
