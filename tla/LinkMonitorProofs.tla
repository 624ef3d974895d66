------------------------- MODULE LinkMonitorProofs -------------------------
(***************************************************************************)
(* The invariant of LinkMonitor for every number of retries, of cable        *)
(* changes and of NAKs.                                                      *)
(***************************************************************************)
EXTENDS LinkMonitor, TLAPS

\* Whoever is about to change the state of the DHCP client is past the point where a
\* static address was told from DHCP: without it, Bound and Restarted could give a
\* client to an interface with a static address.  A client that is switched off is being
\* built or released by the tcpip thread.
ClientExists ==
  /\ tpc \in {"startstore", "publish", "clear", "build", "startset", "flagstore",
              "bindstore", "bind", "release", "nakstore", "discover"} => ~static
  /\ dhcp = "off" => tpc \in {"clear", "build", "release", "nakstore", "discover"}
  /\ ipc \in {"changed", "downstore", "reboot", "rediscover"} => ~static

IInv == TypeOK /\ ClientExists

\* A change is loaded and stored within the flags there are (the load and store of
\* netif->flags in netif_set_up, netif_set_down and the link calls).
LEMMA LoadTyped ==
  ASSUME TypeOK
  PROVE  /\ Load(flags \cup {"UP"}) \in Reg /\ Load(flags \ {"UP"}) \in Reg
         /\ Load(flags \cup {"DHCP"}) \in Reg /\ Load(flags \ {"DHCP"}) \in Reg
         /\ Load(flags \cup {"LINK_UP"}) \in Reg /\ Load(flags \ {"LINK_UP"}) \in Reg
PROOF
  BY SMT DEF TypeOK, Load, Reg, Flag

\* A store leaves flags, and a history of flags, whatever the other task has done.
LEMMA StoreTyped ==
  ASSUME TypeOK, NEW reg \in Reg, Store(reg)
  PROVE  flags' \in SUBSET Flag /\ lost' \in SUBSET Flag
PROOF
  BY SMT DEF TypeOK, Store, Reg

\* tse_mac_init answers with a truth value, and a further try leaves at least one
\* (lwip_wait_for_an).
LEMMA TryTyped ==
  /\ TypeOK /\ tse_mac_init => link_alive' \in BOOLEAN
  /\ TypeOK /\ AnotherTry =>
       link_alive' \in BOOLEAN /\ retry' \in 0..MAX_RETRY_COUNT
PROOF
  <1>1. TypeOK /\ tse_mac_init => link_alive' \in BOOLEAN
    BY Zenon DEF TypeOK, tse_mac_init
  <1>2. TypeOK /\ AnotherTry => retry' \in 0..MAX_RETRY_COUNT
    BY LinkAssumption, SMT DEF TypeOK, AnotherTry
  <1> QED
    BY <1>1, <1>2 DEF AnotherTry

\* A fresh interface (lwip_handle_interfaces before netif_add).
LEMMA InitInv == Init => IInv
PROOF
  <1> SUFFICES ASSUME Init PROVE IInv
    OBVIOUS
  <1>1. NoReg \in Reg /\ {} \in SUBSET Flag
    BY DEF NoReg, Reg, Flag
  <1>2. /\ phy \in BOOLEAN /\ link_alive \in BOOLEAN /\ static \in BOOLEAN
        /\ started \in BOOLEAN /\ known \in BOOLEAN
    BY Zenon DEF Init
  <1>3. retry \in 0..MAX_RETRY_COUNT /\ flaps \in 0..MaxFlaps /\ naks \in 0..MaxNaks
    BY LinkAssumption, SMT DEF Init
  <1> QED
    BY <1>1, <1>2, <1>3, SMT DEF Init, IInv, TypeOK, ClientExists

\* The start of the interface (lwip_handle_interfaces up to dhcp_start or netif_set_up).
LEMMA BootInv ==
  ASSUME IInv,
         \/ AddInterface \/ BootTry \/ CreateInput \/ Configure \/ StartStore
         \/ Publish \/ Clear \/ StartDiscover \/ StartSet \/ LastStore
  PROVE  IInv'
PROOF
  <1> USE DEF IInv, ClientExists, env, monitor, stack
  <1>f. {"LINK_UP"} \in SUBSET Flag
    BY DEF Flag
  <1>1. CASE AddInterface
    <2>1. link_alive' \in BOOLEAN
      BY <1>1, TryTyped DEF AddInterface
    <2> QED
      BY <1>1, <2>1, <1>f, LinkAssumption, SMT DEF AddInterface, TypeOK
  <1>2. CASE BootTry
    BY <1>2, TryTyped, SMT DEF BootTry, TypeOK
  <1>3. CASE CreateInput
    BY <1>3, SMT DEF CreateInput, TypeOK
  <1>4. CASE Configure
    <2>1. treg' \in Reg
      BY <1>4, LoadTyped, SMT DEF Configure, Load, TypeOK
    <2> QED
      BY <1>4, <2>1, SMT DEF Configure, TypeOK
  <1>5. CASE StartStore
    <2>1. flags' \in SUBSET Flag /\ lost' \in SUBSET Flag
      BY <1>5, StoreTyped DEF StartStore, TypeOK
    <2> QED
      BY <1>5, <2>1, SMT DEF StartStore, TypeOK
  <1>6. CASE StartSet
    <2>1. treg' \in Reg
      BY <1>6, LoadTyped, SMT DEF StartSet, TypeOK
    <2> QED
      BY <1>6, <2>1, SMT DEF StartSet, TypeOK
  <1>7. CASE LastStore
    <2>1. flags' \in SUBSET Flag /\ lost' \in SUBSET Flag
      BY <1>7, StoreTyped DEF LastStore, TypeOK
    <2> QED
      BY <1>7, <2>1, SMT DEF LastStore, TypeOK
  <1>8. CASE Publish \/ Clear \/ StartDiscover
    BY <1>8, SMT DEF Publish, Clear, StartDiscover, Client, TypeOK
  <1> QED
    BY <1>1, <1>2, <1>3, <1>4, <1>5, <1>6, <1>7, <1>8

\* The DHCP client in the tcpip thread (dhcp_bind, dhcp_handle_nak, dhcp_timeout).
LEMMA DhcpInv ==
  ASSUME IInv, Dhcp \/ BindStore \/ Bound \/ Released \/ NakStore
  PROVE  IInv'
PROOF
  <1> USE DEF IInv, ClientExists, env, monitor, stack
  <1>1. CASE DhcpAck
    <2>1. treg' \in Reg
      BY <1>1, LoadTyped, SMT DEF DhcpAck, TypeOK
    <2> QED
      BY <1>1, <2>1, SMT DEF DhcpAck, TypeOK
  <1>2. CASE DhcpNak \/ Released
    <2>1. treg' \in Reg
      BY <1>2, LoadTyped, SMT DEF DhcpNak, Released, SetDown, TypeOK
    <2>2. naks' \in 0..MaxNaks
      BY <1>2, LinkAssumption, SMT DEF DhcpNak, Released, TypeOK
    <2> QED
      BY <1>2, <2>1, <2>2, SMT DEF DhcpNak, Released, SetDown, TypeOK
  <1>r. CASE DhcpRelease
    BY <1>r, LinkAssumption, SMT DEF DhcpRelease, TypeOK
  <1>3. CASE Discover
    BY <1>3, SMT DEF Discover, TypeOK
  <1>4. CASE BindStore
    <2>1. flags' \in SUBSET Flag /\ lost' \in SUBSET Flag
      BY <1>4, StoreTyped DEF BindStore, TypeOK
    <2> QED
      BY <1>4, <2>1, SMT DEF BindStore, TypeOK
  <1>5. CASE Bound
    BY <1>5, SMT DEF Bound, TypeOK
  <1>6. CASE NakStore
    <2>1. flags' \in SUBSET Flag /\ lost' \in SUBSET Flag
      BY <1>6, StoreTyped DEF NakStore, TypeOK
    <2> QED
      BY <1>6, <2>1, SMT DEF NakStore, TypeOK
  <1> QED
    BY <1>1, <1>2, <1>r, <1>3, <1>4, <1>5, <1>6 DEF Dhcp

\* The interface task (lwip_check_link_status and what its link callbacks change).
LEMMA InputInv ==
  ASSUME IInv, InputTask
  PROVE  IInv'
PROOF
  <1> USE DEF IInv, ClientExists, env, monitor, stack
  <1>1. CASE CheckUp
    BY <1>1, LinkAssumption, SMT DEF CheckUp, TypeOK
  <1>2. CASE LinkTry
    BY <1>2, TryTyped, SMT DEF LinkTry, TypeOK
  <1>3. CASE LinkTried
    <2>1. ireg' \in Reg
      BY <1>3, LoadTyped, SMT DEF LinkTried, TypeOK
    <2> QED
      BY <1>3, <2>1, SMT DEF LinkTried, TypeOK
  <1>4. CASE LinkStore
    <2>1. flags' \in SUBSET Flag /\ lost' \in SUBSET Flag
      BY <1>4, StoreTyped DEF LinkStore, TypeOK
    <2> QED
      BY <1>4, <2>1, SMT DEF LinkStore, TypeOK
  <1>5. CASE NetworkChanged
    <2>1. ireg' \in Reg
      BY <1>5, LoadTyped, SMT DEF NetworkChanged, TypeOK
    <2> QED
      BY <1>5, <2>1, SMT DEF NetworkChanged, TypeOK
  <1>6. CASE DownStore
    <2>1. flags' \in SUBSET Flag /\ lost' \in SUBSET Flag
      BY <1>6, StoreTyped DEF DownStore, TypeOK
    <2> QED
      BY <1>6, <2>1, SMT DEF DownStore, TypeOK
  <1>7. CASE Restarted
    BY <1>7, SMT DEF Restarted, TypeOK
  <1>8. CASE SeenUp
    BY <1>8, SMT DEF SeenUp, TypeOK
  <1>9. CASE CheckDown
    <2>1. ireg' \in Reg
      BY <1>9, LoadTyped, SMT DEF CheckDown, TypeOK
    <2>2. link_alive' \in BOOLEAN
      BY <1>9, Zenon DEF CheckDown
    <2>3. ipc' \in {"unlinkstore", "unlinked"} /\ ipc = "check"
      BY <1>9, Zenon DEF CheckDown
    <2>4. UNCHANGED <<env, monitor, stack, flags, static, tpc, treg, retry, started, lost>>
      BY <1>9, Zenon DEF CheckDown
    <2> QED
      BY <2>1, <2>2, <2>3, <2>4, SMT DEF TypeOK
  <1>10. CASE UnlinkStore
    <2>1. flags' \in SUBSET Flag /\ lost' \in SUBSET Flag
      BY <1>10, StoreTyped DEF UnlinkStore, TypeOK
    <2> QED
      BY <1>10, <2>1, SMT DEF UnlinkStore, TypeOK
  <1>11. CASE SeenDown
    BY <1>11, SMT DEF SeenDown, TypeOK
  <1> QED
    BY <1>1, <1>2, <1>3, <1>4, <1>5, <1>6, <1>7, <1>8, <1>9, <1>10, <1>11 DEF InputTask

\* The cable, and the poll of lwip_initialize.
LEMMA OutsideInv ==
  ASSUME IInv, Cable \/ Started
  PROVE  IInv'
PROOF
  <1> USE DEF IInv, ClientExists, env, monitor, stack
  <1>1. CASE Cable
    <2>1. phy' \in BOOLEAN
      BY <1>1, Zenon DEF Cable
    <2>2. flaps' \in 0..MaxFlaps
      BY <1>1, LinkAssumption, SMT DEF Cable, TypeOK
    <2> QED
      BY <1>1, <2>1, <2>2, SMT DEF Cable, TypeOK
  <1>2. CASE Started
    BY <1>2, SMT DEF Started, TypeOK
  <1> QED
    BY <1>1, <1>2

\* Every step keeps the invariant: the two tasks, the server, the cable and the poll.
LEMMA NextInv ==
  ASSUME IInv, [Next]_vars
  PROVE  IInv'
PROOF
  <1>1. CASE Cable \/ Started
    BY <1>1, OutsideInv
  <1>2. CASE TcpipThread
    BY <1>2, BootInv, DhcpInv DEF TcpipThread, Dhcp
  <1>3. CASE Dhcp
    BY <1>3, DhcpInv
  <1>4. CASE InputTask
    BY <1>4, InputInv
  <1>5. CASE UNCHANGED vars
    BY <1>5, SMT DEF IInv, ClientExists, TypeOK, vars, env, monitor, stack
  <1> QED
    BY <1>1, <1>2, <1>3, <1>4, <1>5 DEF Next

\* In every state the interface task exists exactly from the moment that the tcpip
\* thread is past the auto-negotiation (sys_thread_new in lwip_handle_interfaces), an
\* interface with a static address never has a DHCP client, whatever the interface
\* task's link callbacks do, and the retries of lwip_wait_for_an stay within bounds.
THEOREM LinkMonitorTypeCorrect == Spec => []TypeOK
PROOF
  <1>1. IInv /\ [Next]_vars => IInv'
    BY NextInv
  <1>2. IInv => TypeOK
    BY DEF IInv
  <1> QED
    BY InitInv, <1>1, <1>2, PTL DEF Spec
-----------------------------------------------------------------------------
(* The flags. *)

\* the change that was loaded leaves the flag f as it found it
Same(reg, f) == f \in reg.new <=> f \in reg.old

\* The tcpip thread changes UP and DHCP, the interface task changes LINK_UP, and UP only
\* for a DHCP client.
Changes ==
  /\ tpc \in {"startstore", "flagstore", "upstore", "bindstore", "nakstore"} =>
       Same(treg, "LINK_UP")
  /\ tpc \in {"bindstore", "nakstore"} => Same(treg, "DHCP")
  /\ tpc = "flagstore" => "DHCP" \in treg.new
  /\ tpc = "upstore" => static /\ "UP" \in treg.new
  /\ ipc \in {"linkstore", "unlinkstore", "downstore"} => Same(ireg, "DHCP")
  /\ ipc \in {"linkstore", "unlinkstore"} => Same(ireg, "UP")
  /\ ipc = "downstore" => Same(ireg, "LINK_UP")
  /\ ipc = "linkstore" => "LINK_UP" \in ireg.new
  /\ ipc = "unlinkstore" => "LINK_UP" \notin ireg.new

\* What the interface task has made of the flag of the link so far.
LinkFlag ==
  "LINK_UP" \notin lost =>
    /\ ipc \in {"changed", "downstore", "reboot", "rediscover", "seen"} => "LINK_UP" \in flags
    /\ ipc = "unlinked" => "LINK_UP" \notin flags
    /\ known /\ ipc \in {"check", "an"} => ("LINK_UP" \in flags <=> current_state = "up")

\* The interface task has acted on nothing before it exists.
Unseen == ipc = "none" => ~known

UpFlag == tpc = "run" /\ static /\ "UP" \notin lost => "UP" \in flags

DhcpFlag ==
  tpc \in {"run", "bindstore", "bind", "release", "nakstore", "discover"} /\ ~static
    /\ "DHCP" \notin lost => "DHCP" \in flags

FlagInv == Changes /\ LinkFlag /\ Unseen /\ UpFlag /\ DhcpFlag

\* A flag that a store did not undo is as it was loaded, and becomes as it is stored.
LEMMA StoreFlag ==
  ASSUME NEW reg, Store(reg), NEW f, f \notin lost'
  PROVE  /\ f \notin lost
         /\ f \in flags <=> f \in reg.old
         /\ f \in flags' <=> f \in reg.new
PROOF
  BY DEF Store

\* The steps that change no flag: the cable, the poll, the decisions and the loads.
LEMMA QuietFlags ==
  ASSUME IInv, FlagInv,
         \/ Cable \/ Started \/ UNCHANGED vars
         \/ BootTry \/ CreateInput \/ Configure \/ Publish \/ Clear \/ StartDiscover
         \/ StartSet \/ Bound \/ Released \/ Dhcp
         \/ CheckUp \/ LinkTry \/ LinkTried \/ NetworkChanged \/ Restarted
         \/ SeenUp \/ CheckDown \/ SeenDown
  PROVE  FlagInv'
PROOF
  <1> USE DEF IInv, ClientExists, TypeOK, FlagInv, Changes, LinkFlag, Unseen, UpFlag, DhcpFlag
  <1>1. CASE Cable \/ Started \/ UNCHANGED vars
    BY <1>1 DEF Cable, Started, vars, env, monitor, stack
  <1>2. CASE BootTry \/ CreateInput
    BY <1>2 DEF BootTry, CreateInput, env, monitor, stack
  <1>3. CASE Configure
    BY <1>3 DEF Configure, Load, Same, env, monitor, stack
  <1>4. CASE StartSet
    BY <1>4 DEF StartSet, Load, Same, env, monitor, stack
  <1>5. CASE DhcpAck
    BY <1>5 DEF DhcpAck, Load, Same, env, monitor, stack
  <1>6. CASE DhcpNak \/ Released
    BY <1>6 DEF DhcpNak, Released, SetDown, Load, Same, env, monitor
  <1>r. CASE DhcpRelease
    BY <1>r DEF DhcpRelease, env, monitor
  <1>p. CASE Publish \/ Clear \/ StartDiscover
    BY <1>p DEF Publish, Clear, StartDiscover, Client, env, monitor
  <1>7. CASE Bound \/ Discover
    BY <1>7 DEF Bound, Discover, env, monitor
  <1>8. CASE CheckUp \/ LinkTry
    BY <1>8 DEF CheckUp, LinkTry, env, monitor, stack
  <1>9. CASE LinkTried
    BY <1>9 DEF LinkTried, Load, Same, env, monitor, stack
  <1>10. CASE NetworkChanged
    BY <1>10 DEF NetworkChanged, Load, Same, env, monitor, stack
  <1>11. CASE Restarted
    BY <1>11 DEF Restarted, env, monitor
  <1>12. CASE CheckDown
    BY <1>12 DEF CheckDown, Load, Same, env, monitor, stack
  <1>13. CASE SeenUp \/ SeenDown
    BY <1>13 DEF SeenUp, SeenDown, env, stack
  <1> QED
    BY <1>1, <1>2, <1>3, <1>4, <1>5, <1>6, <1>r, <1>p, <1>7, <1>8, <1>9, <1>10, <1>11,
       <1>12, <1>13
    DEF Dhcp

\* The stores of the tcpip thread: they may undo a change of LINK_UP, and say so.
LEMMA TcpipStores ==
  ASSUME IInv, FlagInv, StartStore \/ LastStore \/ BindStore \/ NakStore
  PROVE  FlagInv'
PROOF
  <1>1. /\ Store(treg) /\ treg' = treg
        /\ UNCHANGED <<monitor, static, ipc, ireg>>
        /\ tpc \in {"startstore", "flagstore", "upstore", "bindstore", "nakstore"}
    BY DEF StartStore, LastStore, BindStore, NakStore
  <1>2. \/ tpc = "startstore" /\ tpc' = "publish"
        \/ tpc \in {"flagstore", "upstore"} /\ tpc' = "run"
        \/ tpc = "bindstore" /\ tpc' = "bind"
        \/ tpc = "nakstore" /\ tpc' = "discover"
    BY DEF StartStore, LastStore, BindStore, NakStore
  <1>3. Changes'
    BY <1>1, <1>2 DEF FlagInv, Changes, Same
  <1>4. LinkFlag'
    <2>1. SUFFICES ASSUME "LINK_UP" \notin lost' PROVE LinkFlag'
      BY DEF LinkFlag
    <2>2. "LINK_UP" \notin lost /\ ("LINK_UP" \in flags' <=> "LINK_UP" \in flags)
      BY <1>1, <2>1, StoreFlag DEF FlagInv, Changes, Same
    <2> QED
      BY <1>1, <2>2 DEF FlagInv, LinkFlag, monitor
  <1>u. Unseen'
    BY <1>1, <1>2 DEF FlagInv, Unseen, monitor
  <1>5. UpFlag'
    <2>1. SUFFICES ASSUME tpc' = "run", static', "UP" \notin lost' PROVE "UP" \in flags'
      BY DEF UpFlag
    <2>2. tpc = "upstore"
      BY <1>1, <1>2, <2>1 DEF IInv, ClientExists
    <2> QED
      BY <1>1, <2>1, <2>2, StoreFlag DEF FlagInv, Changes
  <1>6. DhcpFlag'
    <2>1. SUFFICES ASSUME tpc' \in {"run", "bind", "discover"}, ~static', "DHCP" \notin lost'
                   PROVE  "DHCP" \in flags'
      BY <1>2 DEF DhcpFlag
    <2>2. tpc # "upstore" /\ tpc # "startstore"
      BY <1>1, <1>2, <2>1 DEF FlagInv, Changes
    <2>3. /\ "DHCP" \notin lost /\ ("DHCP" \in flags <=> "DHCP" \in treg.old)
          /\ "DHCP" \in flags' <=> "DHCP" \in treg.new
      BY <1>1, <2>1, StoreFlag
    <2>4. CASE tpc = "flagstore"
      BY <2>3, <2>4 DEF FlagInv, Changes
    <2>5. CASE tpc \in {"bindstore", "nakstore"}
      BY <1>1, <2>1, <2>3, <2>5 DEF FlagInv, Changes, Same, DhcpFlag
    <2> QED
      BY <1>1, <2>2, <2>4, <2>5
  <1> QED
    BY <1>3, <1>4, <1>u, <1>5, <1>6 DEF FlagInv

\* The stores of the interface task: they may undo a change of UP or of DHCP.
LEMMA InputStores ==
  ASSUME IInv, FlagInv, LinkStore \/ DownStore \/ UnlinkStore
  PROVE  FlagInv'
PROOF
  <1>1. /\ Store(ireg) /\ ireg' = ireg
        /\ UNCHANGED <<monitor, static, tpc, treg>>
        /\ ipc \in {"linkstore", "downstore", "unlinkstore"}
    BY DEF LinkStore, DownStore, UnlinkStore
  <1>2. \/ ipc = "linkstore" /\ ipc' \in {"seen", "changed"}
        \/ ipc = "downstore" /\ ipc' = "reboot"
        \/ ipc = "unlinkstore" /\ ipc' = "unlinked"
    BY DEF LinkStore, DownStore, UnlinkStore
  <1>3. Changes'
    BY <1>1, <1>2 DEF FlagInv, Changes, Same
  <1>4. LinkFlag'
    <2>1. SUFFICES ASSUME "LINK_UP" \notin lost' PROVE LinkFlag'
      BY DEF LinkFlag
    <2>2. /\ "LINK_UP" \notin lost /\ ("LINK_UP" \in flags <=> "LINK_UP" \in ireg.old)
          /\ "LINK_UP" \in flags' <=> "LINK_UP" \in ireg.new
      BY <1>1, <2>1, StoreFlag
    <2> QED
      BY <1>1, <1>2, <2>2 DEF FlagInv, LinkFlag, Changes, Same
  <1>u. Unseen'
    BY <1>1, <1>2 DEF FlagInv, Unseen, monitor
  <1>5. UpFlag'
    <2>1. SUFFICES ASSUME tpc' = "run", static', "UP" \notin lost' PROVE "UP" \in flags'
      BY DEF UpFlag
    <2>2. ipc # "downstore"
      BY <1>1, <2>1 DEF IInv, ClientExists
    <2>3. "UP" \notin lost /\ ("UP" \in flags' <=> "UP" \in flags)
      BY <1>1, <2>1, <2>2, StoreFlag DEF FlagInv, Changes, Same
    <2> QED
      BY <1>1, <2>1, <2>3 DEF FlagInv, UpFlag
  <1>6. DhcpFlag'
    <2>1. SUFFICES ASSUME "DHCP" \notin lost' PROVE DhcpFlag'
      BY DEF DhcpFlag
    <2>2. "DHCP" \notin lost /\ ("DHCP" \in flags' <=> "DHCP" \in flags)
      BY <1>1, <2>1, StoreFlag DEF FlagInv, Changes, Same
    <2> QED
      BY <1>1, <2>2 DEF FlagInv, DhcpFlag
  <1> QED
    BY <1>3, <1>4, <1>u, <1>5, <1>6 DEF FlagInv

LEMMA FlagsNext ==
  ASSUME IInv, FlagInv, [Next]_vars
  PROVE  FlagInv'
PROOF
  <1>1. CASE AddInterface
    <2>1. ipc = "none" /\ ipc' = "none" /\ tpc' = "an"
      BY <1>1 DEF AddInterface, IInv, TypeOK
    <2> QED
      BY <1>1, <2>1 DEF FlagInv, Changes, LinkFlag, Unseen, UpFlag, DhcpFlag,
                               AddInterface, monitor
  <1> QED
    BY <1>1, QuietFlags, TcpipStores, InputStores DEF Next, TcpipThread, InputTask, Dhcp

\* For every number of retries, cable changes and NAKs, and in every interleaving of the
\* two tasks, a flag of the interface that is wrong has been overwritten by a store of
\* the other task; there is no other way to it (lwip_main.c:377-404, netif.c:453-580).
THEOREM FlagsAreKept == Spec => []FlagsKept
PROOF
  <1>1. Init => FlagInv
    BY DEF Init, FlagInv, Changes, LinkFlag, Unseen, UpFlag, DhcpFlag
  <1>2. IInv /\ FlagInv /\ [Next]_vars => FlagInv'
    BY FlagsNext
  <1>3. FlagInv => FlagsKept
    BY DEF FlagInv, LinkFlag, UpFlag, DhcpFlag, FlagsKept
  <1>4. IInv /\ [Next]_vars => IInv'
    BY NextInv
  <1> QED
    BY <1>1, <1>2, <1>3, <1>4, InitInv, PTL DEF Spec
=============================================================================
