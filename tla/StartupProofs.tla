--------------------------- MODULE StartupProofs ---------------------------
(***************************************************************************)
(* Proofs about Startup, for any addresses and bootstrap nodes.            *)
(***************************************************************************)
EXTENDS Startup, TLAPS

\* main is past its configuration
Settled == pc \in {"tox", "again", "bootstrap", "configure", "loop"}

\* The file holds nothing but what was given last, unless that waits for
\* saveConfig or was lost before it; a node that is past its configuration has
\* the address that the file holds, if it holds one.
AddressInv ==
  /\ pc # "save" => unsaved \/ Configured \in {given, None}
  /\ pc \in {"save", "write"} => myip = given
  /\ pc = "write" => config = None
  /\ Settled => (myip = given \/ unsaved) /\ Configured \in {myip, None}
  /\ pc \notin {"down", "ask"} => myip \in Ip

\* toxcore's switch is on and the flag tells so until a command changes both.
SwitchInv ==
  /\ pc \in {"bootstrap", "configure"} => tcp_acl_enabled /\ access_control
  /\ pc # "loop" => tcp_acl_enabled
  /\ AclStatusTrue

IInv == TypeOK /\ AddressInv /\ SwitchInv

LEMMA InitIInv == Init => IInv
<1> SUFFICES ASSUME Init PROVE IInv
  OBVIOUS
<1>1. config \in Ip \cup {NoString, None} /\ Configured \in Ip \cup {None}
  BY NoneAssumption, NoStringAssumption DEF Init, Configured, Ip
<1>2. TypeOK
  BY <1>1 DEF Init, TypeOK
<1>3. AddressInv
  BY <1>1 DEF Init, AddressInv, Settled
<1>4. SwitchInv
  BY DEF Init, SwitchInv, AclStatusTrue
<1> QED BY <1>2, <1>3, <1>4 DEF IInv

LEMMA ConfiguredType ==
  ASSUME TypeOK, config # None
  PROVE  Configured \in Ip
BY DEF TypeOK, Configured, Ip

\* The steps that end with an address in the file or on its way there.
LEMMA ConfigSteps ==
  ASSUME IInv, \/ \E ip \in Ip : StartWithIp(ip) \/ Answer(ip)
               \/ StartConfigured
               \/ StartAsking
               \/ OpenConfig
               \/ \E result \in {"whole", "part"} : WriteConfig(result)
  PROVE  IInv'
<1> USE DEF IInv, TypeOK, AddressInv, Settled, network, history
<1>1. CASE \E ip \in Ip : StartWithIp(ip) \/ Answer(ip)
  <2>1. PICK ip \in Ip : StartWithIp(ip) \/ Answer(ip)
    BY <1>1
  <2>2. /\ pc \in {"down", "ask"} /\ pc' = "save" /\ myip' = ip /\ given' = ip
        /\ unsaved' = FALSE
        /\ UNCHANGED <<config, access_control, tcp_acl_enabled, tun, online, asked, due>>
    BY <2>1 DEF StartWithIp, Answer, Start, Give
  <2>3. TypeOK'
    BY <2>2
  <2>4. AddressInv'
    BY <2>2
  <2>5. SwitchInv'
    BY <2>2 DEF SwitchInv, AclStatusTrue
  <2> QED BY <2>3, <2>4, <2>5
<1>2. CASE StartConfigured \/ StartAsking
  <2>1. /\ pc = "down" /\ pc' \in {"tox", "ask"} /\ myip' \in Ip \cup {None}
        /\ pc' = "tox" => myip' \in Ip /\ myip' = Configured
        /\ UNCHANGED <<config, access_control, tcp_acl_enabled, tun, online, asked, due,
                       given, unsaved>>
    BY <1>2, ConfiguredType DEF StartConfigured, StartAsking, Start
  <2>2. TypeOK'
    BY <2>1
  <2>3. AddressInv'
    <3>1. Configured' = Configured
      BY <2>1 DEF Configured
    <3>2. pc' = "tox" => Configured # None
      BY <2>1, NoneAssumption DEF Ip
    <3> QED BY <2>1, <3>1, <3>2
  <2>4. SwitchInv'
    BY <2>1 DEF SwitchInv, AclStatusTrue
  <2> QED BY <2>2, <2>3, <2>4
<1>3. CASE OpenConfig \/ \E result \in {"whole", "part"} : WriteConfig(result)
  <2>1. /\ \/ pc = "save" /\ pc' = "write" /\ config' = None
           \/ pc = "write" /\ pc' = "tox" /\ config' \in {myip, None}
        /\ UNCHANGED <<myip, access_control, tcp_acl_enabled, tun, online, asked, due,
                       given, unsaved>>
    BY <1>3 DEF OpenConfig, WriteConfig, process
  <2>2. myip \in Ip /\ myip = given /\ config' \in {myip, None}
    BY <2>1
  <2>3. Configured' = config'
    BY <2>2, NoStringAssumption DEF Configured, Ip
  <2>4. TypeOK'
    BY <2>1, <2>2
  <2>5. AddressInv'
    BY <2>1, <2>2, <2>3
  <2>6. SwitchInv'
    BY <2>1 DEF SwitchInv, AclStatusTrue
  <2> QED BY <2>4, <2>5, <2>6
<1> QED BY <1>1, <1>2, <1>3

\* The steps past the configuration keep the address; the end of the process
\* keeps the file.
LEMMA OtherTypes ==
  ASSUME IInv, \/ NewTox \/ NewToxFails
               \/ \E node \in Node : FirstBootstrap(node) \/ Retry(node) \/ Command(node)
               \/ \E tunDevice \in {"tun0", None} : Configure(tunDevice)
               \/ \E enabled \in BOOLEAN : SetAccessControl(enabled)
               \/ Stop \/ TenSeconds \/ GoesOnline \/ GoesOffline
  PROVE  TypeOK'
<1> USE DEF IInv, TypeOK, process, network, history
<1>1. CASE NewTox \/ NewToxFails
  BY <1>1 DEF NewTox, NewToxFails
<1>2. CASE \E node \in Node : FirstBootstrap(node) \/ Retry(node) \/ Command(node)
  <2>1. asked' \subseteq Node /\ due' = FALSE
    BY <1>2 DEF FirstBootstrap, Retry, Command, do_bootstrap
  <2>2. /\ pc' \in {pc, "configure"}
        /\ UNCHANGED <<config, process, online, history>>
    BY <1>2 DEF FirstBootstrap, Retry, Command, do_bootstrap
  <2> QED BY <2>1, <2>2
<1>3. CASE \E tunDevice \in {"tun0", None} : Configure(tunDevice)
  <2>1. tun' \in Ip \cup {None} /\ pc' = "loop"
    <3>1. myip \in Ip \cup {None}
      OBVIOUS
    <3> QED BY <1>3, <3>1 DEF Configure
  <2>2. UNCHANGED <<config, myip, access_control, tcp_acl_enabled, network, history>>
    BY <1>3 DEF Configure
  <2> QED BY <2>1, <2>2
<1>4. CASE \E enabled \in BOOLEAN : SetAccessControl(enabled)
  BY <1>4 DEF SetAccessControl
<1>5. CASE Stop
  <2>1. /\ pc' = "down" /\ myip' = None /\ tun' = None /\ asked' = {}
        /\ access_control' \in BOOLEAN /\ tcp_acl_enabled' \in BOOLEAN
        /\ online' \in BOOLEAN /\ due' \in BOOLEAN /\ UNCHANGED <<config, given>>
    BY <1>5 DEF Stop, Fresh
  <2>2. unsaved' \in BOOLEAN
    BY <1>5 DEF Stop
  <2> QED BY <2>1, <2>2
<1>6. CASE TenSeconds \/ GoesOnline \/ GoesOffline
  BY <1>6 DEF TenSeconds, GoesOnline, GoesOffline
<1> QED BY <1>1, <1>2, <1>3, <1>4, <1>5, <1>6

LEMMA OtherAddress ==
  ASSUME IInv, \/ NewTox \/ NewToxFails
               \/ \E node \in Node : FirstBootstrap(node) \/ Retry(node) \/ Command(node)
               \/ \E tunDevice \in {"tun0", None} : Configure(tunDevice)
               \/ \E enabled \in BOOLEAN : SetAccessControl(enabled)
               \/ Stop \/ TenSeconds \/ GoesOnline \/ GoesOffline
  PROVE  AddressInv'
<1>1. CASE Stop
  <2>1. /\ pc' = "down" /\ given' = given /\ config' = config
        /\ unsaved' = (unsaved \/ pc = "save")
    BY <1>1 DEF Stop
  <2>2. Configured' = Configured
    BY <2>1 DEF Configured
  <2>3. unsaved' \/ Configured' \in {given', None}
    BY <2>1, <2>2 DEF IInv, AddressInv
  <2> QED BY <2>1, <2>3 DEF AddressInv, Settled
<1>2. CASE ~Stop
  <2>1. UNCHANGED <<config, myip, given, unsaved>>
    BY <1>2 DEF NewTox, NewToxFails, FirstBootstrap, Retry, Command, do_bootstrap, Configure,
         SetAccessControl, TenSeconds, GoesOnline, GoesOffline, process, history
  <2>2. (pc' = pc) \/ (Settled /\ Settled')
    <3>1. CASE \/ NewTox \/ NewToxFails
               \/ \E node \in Node : FirstBootstrap(node)
               \/ \E tunDevice \in {"tun0", None} : Configure(tunDevice)
      BY <3>1 DEF NewTox, NewToxFails, FirstBootstrap, Configure, Settled
    <3>2. CASE \E node \in Node : Retry(node) \/ Command(node)
      BY <3>2 DEF Retry, Command
    <3>3. CASE \E enabled \in BOOLEAN : SetAccessControl(enabled)
      BY <3>3 DEF SetAccessControl
    <3>4. CASE TenSeconds \/ GoesOnline \/ GoesOffline
      BY <3>4 DEF TenSeconds, GoesOnline, GoesOffline
    <3> QED BY <1>2, <3>1, <3>2, <3>3, <3>4
  <2>3. Configured' = Configured
    BY <2>1 DEF Configured
  <2>4. CASE pc' = pc
    BY <2>1, <2>3, <2>4 DEF IInv, AddressInv, Settled
  <2>5. CASE Settled /\ Settled'
    BY <2>1, <2>3, <2>5 DEF IInv, AddressInv, Settled
  <2> QED BY <2>2, <2>4, <2>5
<1> QED BY <1>1, <1>2

LEMMA OtherSwitch ==
  ASSUME IInv, \/ NewTox \/ NewToxFails
               \/ \E node \in Node : FirstBootstrap(node) \/ Retry(node) \/ Command(node)
               \/ \E tunDevice \in {"tun0", None} : Configure(tunDevice)
               \/ \E enabled \in BOOLEAN : SetAccessControl(enabled)
               \/ Stop \/ TenSeconds \/ GoesOnline \/ GoesOffline
  PROVE  SwitchInv'
<1> USE DEF IInv, TypeOK, SwitchInv, AclStatusTrue, process, network
<1>1. CASE NewTox \/ NewToxFails
  BY <1>1 DEF NewTox, NewToxFails
<1>2. CASE \E node \in Node : FirstBootstrap(node) \/ Retry(node) \/ Command(node)
  BY <1>2 DEF FirstBootstrap, Retry, Command, do_bootstrap
<1>3. CASE \E tunDevice \in {"tun0", None} : Configure(tunDevice)
  BY <1>3 DEF Configure
<1>4. CASE \E enabled \in BOOLEAN : SetAccessControl(enabled)
  BY <1>4 DEF SetAccessControl
<1>5. CASE Stop
  BY <1>5 DEF Stop, Fresh
<1>6. CASE TenSeconds \/ GoesOnline \/ GoesOffline
  BY <1>6 DEF TenSeconds, GoesOnline, GoesOffline
<1> QED BY <1>1, <1>2, <1>3, <1>4, <1>5, <1>6

LEMMA NextIInv == IInv /\ [Next]_vars => IInv'
<1> SUFFICES ASSUME IInv, [Next]_vars PROVE IInv'
  OBVIOUS
<1>1. CASE Next
  BY <1>1, ConfigSteps, OtherTypes, OtherAddress, OtherSwitch DEF Next, IInv
<1>2. CASE UNCHANGED vars
  <2>1. UNCHANGED <<pc, config, myip, access_control, tcp_acl_enabled, tun,
                    online, asked, due, given, unsaved>>
    BY <1>2 DEF vars, process, network, history
  <2>2. TypeOK'
    BY <2>1 DEF IInv, TypeOK
  <2>3. AddressInv'
    BY <2>1 DEF IInv, AddressInv, Settled, Configured
  <2>4. SwitchInv'
    BY <2>1 DEF IInv, SwitchInv, AclStatusTrue
  <2> QED BY <2>2, <2>3, <2>4 DEF IInv
<1> QED BY <1>1, <1>2

LEMMA Inductive == Spec => []IInv
BY InitIInv, NextIInv, PTL DEF Spec

\* The variables keep their types through crashes and restarts.
THEOREM TypeCorrect == Spec => []TypeOK
<1>1. IInv => TypeOK
  BY DEF IInv
<1> QED BY <1>1, Inductive, PTL

\* A configured node uses the address given last, whatever was cut before,
\* unless that was lost before config.json was opened.
THEOREM LastGivenIp == Spec => []LastGivenIpUsed
<1>1. IInv => LastGivenIpUsed
  BY DEF IInv, AddressInv, Settled, LastGivenIpUsed
<1> QED BY <1>1, Inductive, PTL

\* tcp_acl_status tells what toxcore does.
THEOREM AclStatus == Spec => []AclStatusTrue
<1>1. IInv => AclStatusTrue
  BY DEF IInv, SwitchInv
<1> QED BY <1>1, Inductive, PTL
-----------------------------------------------------------------------------
(* Startup implements NodeLife *)

\* the address that NodeLife sees
Up == IF pc = "loop" THEN myip ELSE None

\* While the address is settled nothing changes that NodeLife sees.
LEMMA StutterSteps ==
  ASSUME pc # "loop", pc' # "loop", config' = config
  PROVE  UNCHANGED <<Up, Configured>>
BY DEF Up, Configured

LEMMA GiveSteps ==
  ASSUME IInv, OpenConfig \/ \E result \in {"whole", "part"} : WriteConfig(result)
  PROVE  Life!Next
<1>1. myip \in Ip /\ pc \in {"save", "write"} /\ pc' \in {"write", "tox"}
  BY DEF IInv, AddressInv, OpenConfig, WriteConfig
<1>2. config' \in {myip, None}
  BY DEF OpenConfig, WriteConfig
<1>3. Configured' = config'
  BY <1>1, <1>2, NoStringAssumption DEF Configured, Ip
<1>4. Life!Give(myip)
  BY <1>1, <1>2, <1>3 DEF Life!Give
<1> QED BY <1>1, <1>4 DEF Life!Next

LEMMA BeginStep ==
  ASSUME IInv, \E tunDevice \in {"tun0", None} : Configure(tunDevice)
  PROVE  Life!Next
<1>1. myip \in Ip /\ Configured \in {myip, None} /\ pc = "configure"
  BY DEF IInv, AddressInv, Configure, Settled
<1>2. pc' = "loop" /\ myip' = myip /\ Configured' = Configured
  BY DEF Configure, Configured
<1>3. Life!Begin(myip)
  BY <1>1, <1>2 DEF Life!Begin
<1> QED BY <1>1, <1>3 DEF Life!Next

LEMMA EndStep ==
  ASSUME IInv, Stop, pc = "loop"
  PROVE  Life!Next
<1>1. myip # None
  BY NoneAssumption DEF IInv, AddressInv, Ip
<1>2. pc' = "down" /\ Configured' = Configured
  BY DEF Stop, Configured
<1>3. Life!End
  BY <1>1, <1>2 DEF Life!End
<1> QED BY <1>3 DEF Life!Next

LEMMA NextLife == IInv /\ [Next]_vars => [Life!Next]_(Life!vars)
<1> SUFFICES ASSUME IInv, [Next]_vars PROVE Life!Next \/ UNCHANGED <<Up, Configured>>
  BY DEF Life!vars, Up
<1>1. CASE \E ip \in Ip : StartWithIp(ip) \/ Answer(ip)
  BY <1>1, StutterSteps DEF StartWithIp, Start, Answer
<1>2. CASE StartConfigured \/ StartAsking
  BY <1>2, StutterSteps DEF StartConfigured, StartAsking, Start
<1>3. CASE OpenConfig \/ \E result \in {"whole", "part"} : WriteConfig(result)
  BY <1>3, GiveSteps
<1>4. CASE NewTox \/ NewToxFails
  BY <1>4, StutterSteps DEF NewTox, NewToxFails
<1>5. CASE \E node \in Node : FirstBootstrap(node)
  BY <1>5, StutterSteps DEF FirstBootstrap, do_bootstrap
<1>6. CASE \E node \in Node : Retry(node) \/ Command(node)
  BY <1>6 DEF Retry, Command, do_bootstrap, process, Up, Configured
<1>7. CASE \E tunDevice \in {"tun0", None} : Configure(tunDevice)
  BY <1>7, BeginStep
<1>8. CASE \E enabled \in BOOLEAN : SetAccessControl(enabled)
  BY <1>8 DEF SetAccessControl, Up, Configured
<1>9. CASE Stop /\ pc = "loop"
  BY <1>9, EndStep
<1>10. CASE Stop /\ pc # "loop"
  BY <1>10, StutterSteps DEF Stop
<1>11. CASE TenSeconds \/ GoesOnline \/ GoesOffline
  BY <1>11 DEF TenSeconds, GoesOnline, GoesOffline, process, Up, Configured
<1>12. CASE UNCHANGED vars
  BY <1>12 DEF vars, process, Up, Configured
<1> QED BY <1>1, <1>2, <1>3, <1>4, <1>5, <1>6, <1>7, <1>8, <1>9, <1>10, <1>11, <1>12
        DEF Next

\* The steps of saving and loading config.json, cut anywhere, implement NodeLife.
THEOREM Refinement == Spec => IpOutlivesCrashes
<1>1. Init => Life!Init
  BY NoStringAssumption DEF Init, Life!Init, Configured, Ip
<1> QED BY <1>1, NextLife, Inductive, PTL DEF Spec, IpOutlivesCrashes, Life!Spec
=============================================================================
