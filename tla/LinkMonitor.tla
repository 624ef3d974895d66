---------------------------- MODULE LinkMonitor ----------------------------
(***************************************************************************)
(* One interface, from lwip_initialize to service (arch/lwip_main.c): the    *)
(* tcpip thread adds it, waits for the auto-negotiation, creates the         *)
(* interface task and starts DHCP or brings the interface up itself; the     *)
(* interface task then watches the link; lwip_initialize returns when it     *)
(* sees the interface up.                                                    *)
(*                                                                          *)
(* Both tasks change netif->flags with a load and a store that the other can *)
(* come between (they have one priority and share time), and the interface   *)
(* task drives the DHCP client from netif_set_link_up.  A change is a step   *)
(* Load and a step Store; the condition in front of it reads the same load.  *)
(* Allocations are taken to succeed.  "held" is DHCP_BOUND, RENEWING and     *)
(* REBINDING; "negotiating" is every state from SELECTING to CHECKING.  Of   *)
(* what a task does to a client that is not built yet, only the state of the *)
(* client and the flags are kept: what it sends there is undefined.          *)
(***************************************************************************)
EXTENDS Naturals

CONSTANTS
  MaxFlaps,       \* bound: how often the cable changes
  MaxNaks,        \* bound: how often the server takes the address back or is silent
  MAX_RETRY_COUNT

ASSUME LinkAssumption == MaxFlaps \in Nat /\ MaxNaks \in Nat /\ MAX_RETRY_COUNT \in Nat \ {0}

VARIABLES
  phy,           \* the link status bit of the PHY
  link_alive,    \* the auto-negotiation was complete at the last tse_mac_init
  current_state, \* the status the interface task acted on last
  flags,         \* netif->flags
  static,        \* get_ip_addr asked for no DHCP
  dhcp,          \* the state of the DHCP client
  tpc, ipc,      \* where the tcpip thread and the interface task are
  treg, ireg,    \* the flags each has loaded and what it will store
  retry,         \* retryCount of lwip_wait_for_an
  started,       \* lwip_initialize has returned
  lost,          \* history: flags whose change a store has undone
  known,         \* history: the interface task has acted on a status
  flaps, naks

env     == <<phy, flaps>>
monitor == <<current_state, known>>
stack   == <<dhcp, naks>>
vars    == <<env, monitor, stack, link_alive, flags, static, tpc, ipc, treg, ireg,
             retry, started, lost>>

Flag == {"UP", "LINK_UP", "DHCP"}
Reg  == [old : SUBSET Flag, new : SUBSET Flag]
Load(new) == [old |-> flags, new |-> new]
NoReg == [old |-> {}, new |-> {}]

Init ==
  /\ phy \in BOOLEAN /\ flaps = 0
  /\ link_alive \in BOOLEAN                       \* mem_malloc clears nothing
  /\ current_state \in {"up", "down", "other"} /\ known = FALSE
  /\ static \in BOOLEAN
  /\ flags = {} /\ dhcp = "none" /\ naks = 0
  /\ tpc = "add" /\ ipc = "none"
  /\ treg = NoReg /\ ireg = NoReg
  /\ retry = 0 /\ started = FALSE /\ lost = {}

\* A store puts back what the other task has changed since the load.
Store(reg) ==
  /\ flags' = reg.new
  /\ lost' = lost \cup ((flags \ reg.old) \cup (reg.old \ flags))

-----------------------------------------------------------------------------
(* The cable, and auto-negotiation as tse_mac_init finds it: complete only with a    *)
(* link, and an early return leaves the last answer.                                 *)

Cable ==
  /\ flaps < MaxFlaps /\ flaps' = flaps + 1
  /\ phy' = ~phy
  /\ UNCHANGED <<monitor, stack, link_alive, flags, static, tpc, ipc, treg, ireg,
                 retry, started, lost>>

tse_mac_init == link_alive' \in {phy, FALSE, link_alive}

\* lwip_wait_for_an: another try, and whether it is over
AnotherTry == /\ ~link_alive /\ retry > 1
              /\ retry' = retry - 1
              /\ tse_mac_init
AnDone     == link_alive \/ retry = 1

-----------------------------------------------------------------------------
(* The tcpip thread: lwip_handle_interfaces, then DHCP. *)

\* netif_add: low_level_init sets the flag of the link whatever tse_mac_init finds.
AddInterface ==
  /\ tpc = "add" /\ tpc' = "an"
  /\ flags' = {"LINK_UP"}
  /\ tse_mac_init
  /\ retry' = MAX_RETRY_COUNT
  /\ UNCHANGED <<env, monitor, stack, static, ipc, treg, ireg, started, lost>>

BootTry ==
  /\ tpc = "an" /\ AnotherTry
  /\ UNCHANGED <<env, monitor, stack, flags, static, tpc, ipc, treg, ireg, started, lost>>

\* An interface that got no link is an error.
SlipCreateInput ==
  /\ tpc = "an" /\ AnDone
  /\ IF link_alive THEN ipc' = "check" /\ tpc' = "config"
                   ELSE tpc' = "run" /\ UNCHANGED ipc
  /\ UNCHANGED <<env, monitor, stack, link_alive, flags, static, treg, ireg, retry,
                 started, lost>>

\* The result is compared with < 0, so the retries may be used up.
CreateInput ==
  /\ tpc = "an" /\ AnDone
  /\ ipc' = "check" /\ tpc' = "config"
  /\ UNCHANGED <<env, monitor, stack, link_alive, flags, static, treg, ireg, retry,
                 started, lost>>

\* netif_set_up without DHCP, else the first change of dhcp_start
Configure ==
  /\ tpc = "config"
  /\ treg' = Load(IF static THEN flags \cup {"UP"} ELSE flags \ {"DHCP"})
  /\ tpc' = IF static THEN "upstore" ELSE "startstore"
  /\ UNCHANGED <<env, monitor, stack, link_alive, flags, static, ipc, ireg, retry,
                 started, lost>>

StartStore ==
  /\ tpc = "startstore" /\ tpc' = "publish"
  /\ Store(treg)
  /\ UNCHANGED <<env, monitor, stack, link_alive, static, ipc, treg, ireg, retry, started>>

\* dhcp_start goes on with the client: the interface has it before it is cleared, so the
\* other task may read any state in it; then it is DHCP_OFF until dhcp_discover.
\* dhcp_clear_assignment finds the interface still down.
Client(from, to, states) ==
  /\ tpc = from /\ tpc' = to
  /\ dhcp' \in states
  /\ UNCHANGED <<env, monitor, naks, link_alive, flags, static, ipc, treg, ireg, retry,
                 started, lost>>

Publish       == Client("publish", "clear", {"off", "negotiating", "held", "rebooting"})
Clear         == Client("clear", "build", {"off"})
StartDiscover == Client("build", "startset", {"negotiating"})

StartSet ==
  /\ tpc = "startset" /\ tpc' = "flagstore"
  /\ treg' = Load(flags \cup {"DHCP"})
  /\ UNCHANGED <<env, monitor, stack, link_alive, flags, static, ipc, ireg, retry,
                 started, lost>>

\* The store of dhcp_start's last change, and of netif_set_up for a static address
LastStore ==
  /\ tpc \in {"flagstore", "upstore"} /\ tpc' = "run"
  /\ Store(treg)
  /\ UNCHANGED <<env, monitor, stack, link_alive, static, ipc, treg, ireg, retry, started>>

\* An answer that binds the address, first or again: dhcp_bind calls netif_set_up.
SlipDhcpAck ==
  /\ tpc = "run" /\ dhcp \in {"negotiating", "rebooting"} /\ phy
  /\ IF "UP" \in flags
     THEN tpc' = "bind" /\ UNCHANGED treg
     ELSE tpc' = "bindstore" /\ treg' = Load(flags \cup {"UP"})
  /\ UNCHANGED <<env, monitor, stack, link_alive, flags, static, ipc, ireg, retry,
                 started, lost>>

DhcpAck ==
  /\ tpc = "run" /\ dhcp # "none" /\ phy
  /\ IF "UP" \in flags
     THEN tpc' = "bind" /\ UNCHANGED treg
     ELSE tpc' = "bindstore" /\ treg' = Load(flags \cup {"UP"})
  /\ UNCHANGED <<env, monitor, stack, link_alive, flags, static, ipc, ireg, retry,
                 started, lost>>

BindStore ==
  /\ tpc = "bindstore" /\ tpc' = "bind"
  /\ Store(treg)
  /\ UNCHANGED <<env, monitor, stack, link_alive, static, ipc, treg, ireg, retry, started>>

Bound ==
  /\ tpc = "bind" /\ tpc' = "run"
  /\ dhcp' = "held"
  /\ UNCHANGED <<env, monitor, naks, link_alive, flags, static, ipc, treg, ireg, retry,
                 started, lost>>

\* netif_set_down, with dhcp_discover to follow
SetDown ==
  /\ IF "UP" \in flags
     THEN tpc' = "nakstore" /\ treg' = Load(flags \ {"UP"})
     ELSE tpc' = "discover" /\ UNCHANGED treg
  /\ UNCHANGED <<env, monitor, dhcp, link_alive, flags, static, ipc, ireg, retry,
                 started, lost>>

\* dhcp_handle_nak: dhcp_clear_assignment
DhcpNak ==
  /\ tpc = "run" /\ dhcp # "none" /\ naks < MaxNaks /\ naks' = naks + 1
  /\ SetDown

\* dhcp_timeout in REQUESTING or REBINDING, after the last try: dhcp_release
DhcpRelease ==
  /\ tpc = "run" /\ dhcp \in {"negotiating", "held"} /\ naks < MaxNaks
  /\ naks' = naks + 1
  /\ tpc' = "release" /\ dhcp' = "off"
  /\ UNCHANGED <<env, monitor, link_alive, flags, static, ipc, treg, ireg, retry,
                 started, lost>>

Released == tpc = "release" /\ UNCHANGED naks /\ SetDown

NakStore ==
  /\ tpc = "nakstore" /\ tpc' = "discover"
  /\ Store(treg)
  /\ UNCHANGED <<env, monitor, stack, link_alive, static, ipc, treg, ireg, retry, started>>

\* The end of dhcp_handle_nak, or of dhcp_timeout after dhcp_release or when a reboot
\* got no answer
Discover ==
  /\ \/ tpc = "discover"
     \/ tpc = "run" /\ dhcp = "rebooting"
  /\ tpc' = "run" /\ dhcp' = "negotiating"
  /\ UNCHANGED <<env, monitor, naks, link_alive, flags, static, ipc, treg, ireg, retry,
                 started, lost>>

-----------------------------------------------------------------------------
(* The interface task: lwip_check_link_status when no packet waits. *)

\* The status is taken over before the link is negotiated.
SlipCheckUp ==
  /\ ipc = "check" /\ phy /\ current_state # "up"
  /\ ipc' = "an" /\ retry' = MAX_RETRY_COUNT
  /\ current_state' = "up" /\ known' = TRUE
  /\ UNCHANGED <<env, stack, link_alive, flags, static, tpc, treg, ireg, started, lost>>

CheckUp ==
  /\ ipc = "check" /\ phy /\ current_state # "up"
  /\ ipc' = "an" /\ retry' = MAX_RETRY_COUNT
  /\ UNCHANGED <<env, monitor, stack, link_alive, flags, static, tpc, treg, ireg,
                 started, lost>>

LinkTry ==
  /\ ipc = "an" /\ AnotherTry
  /\ UNCHANGED <<env, monitor, stack, flags, static, tpc, ipc, treg, ireg, started, lost>>

\* netif_set_link_up, unless the retries are used up
LinkTried ==
  /\ ipc = "an" /\ AnDone
  /\ IF ~link_alive THEN ipc' = "check" /\ UNCHANGED ireg
     ELSE IF "LINK_UP" \in flags THEN ipc' = "seen" /\ UNCHANGED ireg
     ELSE ipc' = "linkstore" /\ ireg' = Load(flags \cup {"LINK_UP"})
  /\ UNCHANGED <<env, monitor, stack, link_alive, flags, static, tpc, treg, retry,
                 started, lost>>

LinkStore ==
  /\ ipc = "linkstore"
  /\ Store(ireg)
  /\ ipc' = IF dhcp = "none" THEN "seen" ELSE "changed"
  /\ UNCHANGED <<env, monitor, stack, link_alive, static, tpc, treg, ireg, retry, started>>

\* dhcp_network_changed reads the state of the client ...
NetworkChanged ==
  /\ ipc = "changed"
  /\ IF dhcp = "off" THEN ipc' = "seen" /\ UNCHANGED ireg
     ELSE IF dhcp = "negotiating" THEN ipc' = "rediscover" /\ UNCHANGED ireg
     ELSE IF "UP" \in flags THEN ipc' = "downstore" /\ ireg' = Load(flags \ {"UP"})
     ELSE ipc' = "reboot" /\ UNCHANGED ireg
  /\ UNCHANGED <<env, monitor, stack, link_alive, flags, static, tpc, treg, retry,
                 started, lost>>

DownStore ==
  /\ ipc = "downstore" /\ ipc' = "reboot"
  /\ Store(ireg)
  /\ UNCHANGED <<env, monitor, stack, link_alive, static, tpc, treg, ireg, retry, started>>

\* ... and changes it, to DHCP_REBOOTING or DHCP_SELECTING.
Restarted ==
  /\ ipc \in {"reboot", "rediscover"} /\ ipc' = "seen"
  /\ dhcp' = IF ipc = "reboot" THEN "rebooting" ELSE "negotiating"
  /\ UNCHANGED <<env, monitor, naks, link_alive, flags, static, tpc, treg, ireg, retry,
                 started, lost>>

SeenUp ==
  /\ ipc = "seen" /\ ipc' = "check"
  /\ current_state' = "up" /\ known' = TRUE
  /\ UNCHANGED <<env, stack, link_alive, flags, static, tpc, treg, ireg, retry,
                 started, lost>>

\* netif_set_link_down
CheckDown ==
  /\ ipc = "check" /\ ~phy /\ current_state # "down"
  /\ link_alive' = FALSE
  /\ IF "LINK_UP" \in flags
     THEN ipc' = "unlinkstore" /\ ireg' = Load(flags \ {"LINK_UP"})
     ELSE ipc' = "unlinked" /\ UNCHANGED ireg
  /\ UNCHANGED <<env, monitor, stack, flags, static, tpc, treg, retry, started, lost>>

UnlinkStore ==
  /\ ipc = "unlinkstore" /\ ipc' = "unlinked"
  /\ Store(ireg)
  /\ UNCHANGED <<env, monitor, stack, link_alive, static, tpc, treg, ireg, retry, started>>

SeenDown ==
  /\ ipc = "unlinked" /\ ipc' = "check"
  /\ current_state' = "down" /\ known' = TRUE
  /\ UNCHANGED <<env, stack, link_alive, flags, static, tpc, treg, ireg, retry,
                 started, lost>>

-----------------------------------------------------------------------------
\* lwip_initialize polls netif_is_up every 10 ms.
Started ==
  /\ ~started /\ "UP" \in flags
  /\ started' = TRUE
  /\ UNCHANGED <<env, monitor, stack, link_alive, flags, static, tpc, ipc, treg, ireg,
                 retry, lost>>

TcpipThread == \/ AddInterface \/ BootTry \/ CreateInput \/ Configure \/ StartStore
               \/ Publish \/ Clear \/ StartDiscover
               \/ StartSet \/ LastStore \/ BindStore \/ Bound \/ Released \/ NakStore
               \/ tpc = "discover" /\ Discover
Dhcp        == DhcpAck \/ DhcpNak \/ DhcpRelease \/ Discover
InputTask   == \/ CheckUp \/ LinkTry \/ LinkTried \/ LinkStore \/ NetworkChanged
               \/ DownStore \/ Restarted \/ SeenUp \/ CheckDown \/ UnlinkStore \/ SeenDown

Next == Cable \/ TcpipThread \/ Dhcp \/ InputTask \/ Started

Spec == Init /\ [][Next]_vars

Negotiated == LinkTry /\ link_alive'

\* The two threads run, the poll of lwip_initialize comes round, a DHCP server answers
\* in the end, and so does a PHY that is asked often enough while it has a link.
FairSpec == /\ Spec
            /\ WF_vars(TcpipThread) /\ WF_vars(InputTask) /\ WF_vars(Started)
            /\ SF_vars(DhcpAck) /\ SF_vars(Negotiated)

-----------------------------------------------------------------------------
TypeOK ==
  /\ phy \in BOOLEAN /\ link_alive \in BOOLEAN /\ static \in BOOLEAN
  /\ started \in BOOLEAN /\ known \in BOOLEAN
  /\ current_state \in {"up", "down", "other"}
  /\ flags \subseteq Flag /\ lost \subseteq Flag
  /\ treg \in Reg /\ ireg \in Reg
  /\ dhcp \in {"none", "off", "negotiating", "held", "rebooting"}
  /\ retry \in 0..MAX_RETRY_COUNT
  /\ flaps \in 0..MaxFlaps /\ naks \in 0..MaxNaks
  /\ tpc \in {"add", "an", "config", "startstore", "publish", "clear", "build",
              "startset", "flagstore", "upstore",
              "run", "bindstore", "bind", "release", "nakstore", "discover"}
  /\ ipc \in {"none", "check", "an", "linkstore", "changed", "downstore", "reboot",
              "rediscover", "seen", "unlinkstore", "unlinked"}
  /\ ipc = "none" <=> tpc \in {"add", "an"}       \* the task starts before DHCP does
  /\ static => dhcp = "none"
  /\ tpc = "run" => dhcp # "off"                  \* no client is left switched off

\* Between two link checks the flag of the link says what the interface task has found;
\* a static address is up and a DHCP client is marked once the interface is configured.
\* A flag is only wrong after a store of the other task has undone a change of it, not
\* because a change was left out, made for the other case, or made of a stale value of
\* another flag (netif.c:453-456, 490-493, 535-580; dhcp.c:650, 711; lwip_main.c:377-404).
FlagsKept ==
  /\ known /\ ipc = "check" /\ "LINK_UP" \notin lost =>
       ("LINK_UP" \in flags <=> current_state = "up")
  /\ tpc = "run" /\ static /\ "UP" \notin lost => "UP" \in flags
  /\ tpc \in {"run", "bindstore", "bind", "release", "nakstore", "discover"} /\ ~static
       /\ "DHCP" \notin lost => "DHCP" \in flags

\* The flag of the link ends up as the cable does.  Only two things prevent it: a store
\* of the other task that undid a change of the flag, and, with the cable out from the
\* start, a current_state that mem_malloc left at ETH_INTERFACE_DOWN.
LinkFollows ==
  /\ <>[]phy  => <>[]("LINK_UP" \in flags \/ "LINK_UP" \in lost)
  /\ <>[]~phy => <>[]("LINK_UP" \notin flags \/ "LINK_UP" \in lost \/ ~known)

\* With the cable in for good, lwip_initialize returns and the interface stays up, in
\* spite of the NAKs, of leases given up, of the restarts of the client and of a lost
\* change: the next answer brings the interface up again.  A static address has no such
\* repair, and what a restart sends on a client not yet built is not in the model.
ServiceComes ==
  <>[]phy => <>[](started /\ "UP" \in flags) \/ <>(static /\ "UP" \in lost)
=============================================================================
