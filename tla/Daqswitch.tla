----------------------------- MODULE Daqswitch -----------------------------
(***************************************************************************)
(* The core of daqswitch: what the master lcore does from main() until the *)
(* datapath runs (daqswitch.c, daqswitch_port.c and .h, main.c).           *)
(*                                                                         *)
(* The ports get default settings, the datapath changes them in dp_init    *)
(* and lays out its queues in dp_configure, the ports are configured and   *)
(* started one by one, the lcores are launched, and only then the          *)
(* forwarding rules are installed.  A module of a datapath EXTENDS this    *)
(* one and adds dp_init, dp_configure and dp_install_default_tables.       *)
(*                                                                         *)
(* Each call of main that fails ends the program; the flags initialized,   *)
(* configured and started say how far master is.  Waiting for the links    *)
(* gives up after 9 s and changes nothing.                                 *)
(***************************************************************************)
EXTENDS Naturals, Sequences

CONSTANT NbPorts           \* nb_ports
ASSUME NbPortsAssumption == NbPorts \in Nat \ {0}
Ports == 0 .. NbPorts - 1

VARIABLES
  master,      \* where the master lcore is
  portid,      \* the port of its loop over the ports
  port_conf,   \* number of queues and flow director, by port
  dev          \* the card: queues that are set up, whether the port is started

core == <<master, portid, port_conf, dev>>

Stages == {"init", "dp_init", "dp_configure", "configure", "start", "launch", "tables", "up", "exit"}
PortConf == [nb_rxq : Nat, nb_txq : Nat, fdir_enabled : BOOLEAN]
Dev == [rxq : Nat, txq : Nat, started : BOOLEAN]
port_conf_default == [nb_rxq |-> 1, nb_txq |-> 1, fdir_enabled |-> FALSE]

initialized == master \in {"dp_configure", "configure", "start", "launch", "tables", "up"}
launched == master \in {"tables", "up"}

CoreInit ==
  /\ master = "init" /\ portid = 0
  /\ port_conf = [p \in Ports |-> [nb_rxq |-> 0, nb_txq |-> 0, fdir_enabled |-> FALSE]]
  /\ dev = [p \in Ports |-> [rxq |-> 0, txq |-> 0, started |-> FALSE]]

\* daqswitch_init, up to the datapath: daqswitch_port_init of every port.
InitPorts ==
  /\ master = "init"
  /\ port_conf' = [p \in Ports |-> port_conf_default]
  /\ master' = "dp_init"
  /\ UNCHANGED <<portid, dev>>

\* The setters refuse once daqswitch is initialized.
SetPorts(c) == ~initialized /\ port_conf' = [p \in Ports |-> c]

\* daqswitch_port_configure of the next port; the card may refuse, or memory run out.
ConfigurePort ==
  /\ master = "configure" /\ portid < NbPorts
  /\ \/ master' = "exit" /\ UNCHANGED <<portid, dev>>
     \/ /\ dev' = [dev EXCEPT ![portid] =
             [@ EXCEPT !.rxq = port_conf[portid].nb_rxq, !.txq = port_conf[portid].nb_txq]]
        /\ portid' = portid + 1 /\ UNCHANGED master
  /\ UNCHANGED port_conf

AllConfigured ==
  /\ master = "configure" /\ portid = NbPorts
  /\ master' = "start" /\ portid' = 0
  /\ UNCHANGED <<port_conf, dev>>

\* daqswitch_port_start of the next port: packets come in from here on.  It may
\* fail before the device is started or after, at the masks or the flow control.
StartPort ==
  /\ master = "start" /\ portid < NbPorts
  /\ \/ master' = "exit" /\ UNCHANGED <<portid, dev>>
     \/ /\ dev' = [dev EXCEPT ![portid].started = TRUE]
        /\ \/ portid' = portid + 1 /\ UNCHANGED master
           \/ master' = "exit" /\ UNCHANGED portid
  /\ UNCHANGED port_conf

AllStarted ==
  /\ master = "start" /\ portid = NbPorts
  /\ master' = "launch" /\ portid' = 0
  /\ UNCHANGED <<port_conf, dev>>

\* The datapath thread is launched on every slave lcore.
Launch ==
  /\ master = "launch"
  /\ master' = "tables"
  /\ UNCHANGED <<portid, port_conf, dev>>

CoreNext == InitPorts \/ ConfigurePort \/ AllConfigured \/ StartPort \/ AllStarted \/ Launch

CoreTypeOK ==
  /\ master \in Stages /\ portid \in 0 .. NbPorts
  /\ port_conf \in [Ports -> PortConf] /\ dev \in [Ports -> Dev]
=============================================================================
