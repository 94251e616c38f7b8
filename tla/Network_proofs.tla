--------------------------- MODULE Network_proofs ---------------------------
(***************************************************************************)
(* Proofs about Network: what the link check and the DHCP process know of  *)
(* the link, for any set of modes, and however the PHY and the DHCP server *)
(* behave.                                                                 *)
(***************************************************************************)
EXTENDS Network, TLAPS

\* A link that was lost and is not up again has left its trace in the latch;
\* before init has returned nothing is up.
LossIsLatched == netif.link /\ ~phy.up /\ driver.addr = PhyAddr => phy.latched
NothingBeforeInit == ~ready => ~netif.link

LinkInv ==
    /\ TypeOK
    /\ MacFollowsPhy
    /\ LossIsLatched
    /\ NothingBeforeInit
    /\ StateFollowsLink

LEMMA NetworkStart == Init => LinkInv
  <1> SUFFICES ASSUME Init PROVE LinkInv
    OBVIOUS
  <1>1. TypeOK
    <2>1. phy \in [up: BOOLEAN, done: BOOLEAN, mode: Modes, latched: BOOLEAN]
      BY DEF Init
    <2>2. /\ dhcp \in [state: {"none", "init", "selecting", "requesting", "checking",
                               "backingOff", "rebooting", "bound"},
                       tries: 0 .. MaxTries]
          /\ driver \in [addr: 0 .. sMaxDevAddr, status: {"none", "found", "returned"}]
      BY TriesAssumption, AddressAssumption DEF Init
    <2> QED
      BY <2>1, <2>2 DEF Init, TypeOK, DhcpStates
  <1>2. MacFollowsPhy /\ LossIsLatched /\ NothingBeforeInit /\ StateFollowsLink
    BY DEF Init, MacFollowsPhy, LossIsLatched, NothingBeforeInit, StateFollowsLink
  <1> QED
    BY <1>1, <1>2 DEF LinkInv

\* The PHY moves on its own; it loses the link only by latching the loss.
LEMMA PhyStep ==
  ASSUME LinkInv, LinkComes \/ Negotiated \/ LinkGoes
  PROVE  LinkInv'
  <1>0. phy \in [up: BOOLEAN, done: BOOLEAN, mode: Modes, latched: BOOLEAN]
    BY DEF LinkInv, TypeOK
  <1>1. UNCHANGED <<netif, mac, mDhcpState, dhcp, ready, driver, polled>>
    BY DEF LinkComes, Negotiated, LinkGoes
  <1>2. /\ phy' \in [up: BOOLEAN, done: BOOLEAN, mode: Modes, latched: BOOLEAN]
        /\ phy'.up /\ ~phy'.latched =>
              /\ ~phy.latched
              /\ phy.up => phy'.mode = phy.mode
        /\ ~phy'.up => phy'.latched \/ ~phy.up
        /\ phy.latched => phy'.latched
    <2>1. CASE LinkComes
      <3>1. PICK m \in Modes, d \in BOOLEAN :
               phy' = [phy EXCEPT !.up = TRUE, !.mode = m, !.done = d]
        BY <2>1 DEF LinkComes
      <3>2. ~phy.up
        BY <2>1 DEF LinkComes
      <3> QED
        BY <1>0, <3>1, <3>2
    <2>2. CASE Negotiated
      BY <1>0, <2>2 DEF Negotiated
    <2>3. CASE LinkGoes
      BY <1>0, <2>3 DEF LinkGoes
    <2> QED
      BY <2>1, <2>2, <2>3
  <1>3. TypeOK'
    BY <1>1, <1>2 DEF LinkInv, TypeOK
  <1>4. MacFollowsPhy'
    <2>1. MacFollowsPhy /\ LossIsLatched
      BY DEF LinkInv
    <2> QED
      BY <1>1, <1>2, <2>1 DEF MacFollowsPhy, LossIsLatched
  <1>5. LossIsLatched'
    <2>1. LossIsLatched
      BY DEF LinkInv
    <2> QED
      BY <1>1, <1>2, <2>1 DEF LossIsLatched
  <1>6. NothingBeforeInit' /\ StateFollowsLink'
    BY <1>1 DEF LinkInv, NothingBeforeInit, StateFollowsLink
  <1> QED
    BY <1>3, <1>4, <1>5, <1>6 DEF LinkInv

\* Before init has returned nothing is up, so neither the search for the PHY nor
\* its reset can take a link away behind the interface's back.
LEMMA DriverStep ==
  ASSUME LinkInv, FindAddress \/ ResetPhy
  PROVE  LinkInv'
  <1>1. /\ ~ready /\ ~netif.link
        /\ UNCHANGED <<netif, mac, mDhcpState, dhcp, ready, polled>>
    BY DEF LinkInv, NothingBeforeInit, FindAddress, ResetPhy
  <1>2. phy' \in [up: BOOLEAN, done: BOOLEAN, mode: Modes, latched: BOOLEAN]
    <2>1. phy \in [up: BOOLEAN, done: BOOLEAN, mode: Modes, latched: BOOLEAN]
      BY DEF LinkInv, TypeOK
    <2> QED
      BY <2>1 DEF FindAddress, ResetPhy
  <1>3. driver' \in [addr: 0 .. sMaxDevAddr, status: {"none", "found", "returned"}]
    <2>1. driver \in [addr: 0 .. sMaxDevAddr, status: {"none", "found", "returned"}]
      BY DEF LinkInv, TypeOK
    <2> QED
      BY <2>1 DEF FindAddress, ResetPhy
  <1>4. TypeOK'
    BY <1>1, <1>2, <1>3 DEF LinkInv, TypeOK
  <1>5. MacFollowsPhy' /\ LossIsLatched'
    BY <1>1 DEF LinkInv, MacFollowsPhy, LossIsLatched
  <1>6. NothingBeforeInit' /\ StateFollowsLink'
    BY <1>1 DEF LinkInv, NothingBeforeInit, StateFollowsLink
  <1> QED
    BY <1>4, <1>5, <1>6 DEF LinkInv

\* What a check of the link establishes, whatever it read.
LEMMA CheckLinkEffect ==
  ASSUME LinkInv, NEW status \in {LinkState, "ReadError"},
         CheckLink(status), PhyRead(status), UNCHANGED driver
  PROVE  /\ phy' \in [up: BOOLEAN, done: BOOLEAN, mode: Modes, latched: BOOLEAN]
         /\ netif' \in [link: BOOLEAN, up: BOOLEAN, address: {"zero", "dhcp", "static"}]
         /\ mac' \in [started: BOOLEAN, mode: Modes \cup {"none"}]
         /\ MacFollowsPhy'
         /\ LossIsLatched'
  <1>1. phy' \in [up: BOOLEAN, done: BOOLEAN, mode: Modes, latched: BOOLEAN]
        /\ phy'.up = phy.up /\ phy'.mode = phy.mode
    BY DEF LinkInv, TypeOK, PhyRead
  <1>2. CASE netif.link /\ status \in {"LinkDown", "ReadError"}
    <2>1. /\ netif' = [netif EXCEPT !.link = FALSE, !.up = FALSE]
          /\ mac' = [mac EXCEPT !.started = FALSE]
      BY <1>2 DEF CheckLink, LinkDown
    <2>2. /\ netif' \in [link: BOOLEAN, up: BOOLEAN, address: {"zero", "dhcp", "static"}]
          /\ ~netif'.link /\ ~netif'.up
      BY <2>1 DEF LinkInv, TypeOK
    <2>3. mac' \in [started: BOOLEAN, mode: Modes \cup {"none"}] /\ ~mac'.started
      BY <2>1 DEF LinkInv, TypeOK
    <2> QED
      BY <1>1, <2>2, <2>3 DEF MacFollowsPhy, LossIsLatched
  <1>3. CASE ~netif.link /\ status \in Modes /\ status \notin {"LinkDown", "ReadError"}
    <2>1. driver.addr = PhyAddr => status = phy.mode /\ phy.up
      BY <1>3, ModesAssumption DEF LinkState, LinkInv, TypeOK
    <2>2. /\ netif' = [netif EXCEPT !.link = TRUE, !.up = TRUE]
          /\ mac' = [started |-> TRUE, mode |-> status]
      BY <1>3 DEF CheckLink, LinkUp
    <2>3. netif' \in [link: BOOLEAN, up: BOOLEAN, address: {"zero", "dhcp", "static"}]
      BY <2>2 DEF LinkInv, TypeOK
    <2>4. mac' \in [started: BOOLEAN, mode: Modes \cup {"none"}]
      BY <1>3, <2>2 DEF LinkInv, TypeOK
    <2>5. netif'.link /\ netif'.up /\ mac'.started /\ mac'.mode = status
      BY <2>2 DEF LinkInv, TypeOK
    <2> QED
      BY <1>1, <2>1, <2>3, <2>4, <2>5 DEF MacFollowsPhy, LossIsLatched
  <1>4. CASE ~(netif.link /\ status \in {"LinkDown", "ReadError"})
             /\ ~(~netif.link /\ status \in Modes)
    <2>1. UNCHANGED <<netif, mac>>
      BY <1>4 DEF CheckLink
    <2>2. netif.link /\ driver.addr = PhyAddr => phy.up /\ ~phy.latched
      BY <1>4 DEF LinkState
    <2> QED
      BY <1>1, <2>1, <2>2 DEF LinkInv, TypeOK, MacFollowsPhy, LossIsLatched
  <1> QED
    BY <1>2, <1>3, <1>4, ModesAssumption

\* A check of the link, by init or by the timer, with the callback it leads to.
LEMMA CheckStep ==
  ASSUME LinkInv, NEW status \in {LinkState, "ReadError"},
         NetworkInit(status) \/ CheckLinkState(status)
  PROVE  LinkInv'
  <1>1. CheckLink(status) /\ PhyRead(status) /\ UNCHANGED driver
    BY DEF NetworkInit, InterfaceInit, EthernetifInit, LowLevelInit, CheckLinkState
  <1>2. /\ phy' \in [up: BOOLEAN, done: BOOLEAN, mode: Modes, latched: BOOLEAN]
        /\ netif' \in [link: BOOLEAN, up: BOOLEAN, address: {"zero", "dhcp", "static"}]
        /\ mac' \in [started: BOOLEAN, mode: Modes \cup {"none"}]
        /\ MacFollowsPhy'
        /\ LossIsLatched'
    BY <1>1, CheckLinkEffect
  <1>3. /\ mDhcpState' \in DhcpStates
        /\ ready'
        /\ UNCHANGED polled
        /\ netif'.link <=> mDhcpState' \notin {"LinkDown", "Off"}
    <2>1. CASE NetworkInit(status)
      BY <2>1 DEF NetworkInit, InterfaceInit, LinkStatusUpdated, LinkInv, TypeOK, DhcpStates
    <2>2. CASE CheckLinkState(status)
      BY <2>2 DEF CheckLinkState, LinkStatusUpdated, LinkInv, TypeOK, StateFollowsLink,
                        DhcpStates
    <2> QED
      BY <2>1, <2>2
  <1>4. dhcp' \in [state: {"none", "init", "selecting", "requesting", "checking",
                          "backingOff", "rebooting", "bound"},
                  tries: 0 .. MaxTries]
    <2>1. dhcp' \in {dhcp, ClientAfterLinkUp}
      BY DEF NetworkInit, InterfaceInit, CheckLinkState
    <2>2. ClientAfterLinkUp \in {dhcp, Restarted("rebooting"), Restarted("selecting")}
      BY DEF ClientAfterLinkUp
    <2> QED
      BY <2>1, <2>2, TriesAssumption DEF Restarted, LinkInv, TypeOK
  <1> QED
    BY <1>1, <1>2, <1>3, <1>4
       DEF LinkInv, TypeOK, NothingBeforeInit, StateFollowsLink

\* The states the DHCP client may be put in.
ClientStates == {"none", "init", "selecting", "requesting", "checking",
                 "backingOff", "rebooting", "bound"}

LEMMA ClientMoves ==
  ASSUME LinkInv, NEW s \in ClientStates
  PROVE  /\ Enter(s) \in [state: ClientStates, tries: 0 .. MaxTries]
         /\ Restarted(s) \in [state: ClientStates, tries: 0 .. MaxTries]
         /\ [state |-> s, tries |-> 0] \in [state: ClientStates, tries: 0 .. MaxTries]
  <1>1. MaxTries \in Nat /\ MaxTries > 5 /\ dhcp.tries \in 0 .. MaxTries
    BY TriesAssumption DEF LinkInv, TypeOK
  <1> QED
    BY <1>1 DEF Enter, Restarted

\* Steps that leave the link alone change the address, the client and at most
\* the state of the DHCP process, and that only among the states of a link that
\* is up or among those of one that is down.
LEMMA OtherStep ==
  ASSUME LinkInv,
         UNCHANGED <<phy, mac, ready, driver>>,
         netif' = netif \/ \E a \in {"zero", "dhcp", "static"} :
                              netif' = [netif EXCEPT !.address = a],
         mDhcpState' \in DhcpStates,
         mDhcpState' \in {"LinkDown", "Off"} <=> mDhcpState \in {"LinkDown", "Off"},
         dhcp' \in [state: ClientStates, tries: 0 .. MaxTries],
         polled' \in BOOLEAN
  PROVE  LinkInv'
  <1>1. /\ netif' \in [link: BOOLEAN, up: BOOLEAN, address: {"zero", "dhcp", "static"}]
        /\ netif'.link = netif.link /\ netif'.up = netif.up
    BY DEF LinkInv, TypeOK
  <1>2. TypeOK'
    BY <1>1 DEF LinkInv, TypeOK, ClientStates
  <1> QED
    BY <1>1, <1>2 DEF LinkInv, MacFollowsPhy, LossIsLatched, NothingBeforeInit,
                      StateFollowsLink

LEMMA DhcpProcessStep ==
  ASSUME LinkInv, DhcpProcess
  PROVE  LinkInv'
  <1>1. UNCHANGED <<phy, mac, ready, driver>> /\ polled' \in BOOLEAN
        /\ dhcp \in [state: ClientStates, tries: 0 .. MaxTries]
    BY DEF DhcpProcess, LinkInv, TypeOK, ClientStates
  <1>2. CASE StartDhcp
    <2>1. dhcp' \in [state: ClientStates, tries: 0 .. MaxTries]
      BY <1>2, ClientMoves DEF StartDhcp, ClientStates
    <2> QED
      BY <1>1, <1>2, <2>1, OtherStep DEF StartDhcp, DhcpStates
  <1>3. CASE AddressSupplied
    BY <1>1, <1>3, OtherStep DEF AddressSupplied, DhcpStates
  <1>4. CASE GiveUpDhcp
    BY <1>1, <1>4, OtherStep DEF GiveUpDhcp, SetStaticIp, DhcpStates
  <1>5. CASE NoteLinkDown
    BY <1>1, <1>5, OtherStep DEF NoteLinkDown, DhcpStates
  <1>6. CASE KeepWaiting
    BY <1>1, <1>6, OtherStep DEF KeepWaiting, LinkInv, TypeOK
  <1> QED
    BY <1>2, <1>3, <1>4, <1>5, <1>6 DEF DhcpProcess

LEMMA ClientStep ==
  ASSUME LinkInv,
         DhcpTimeout \/ Offer \/ Ack \/ Bind \/ Refusal \/ LeaseExpires
  PROVE  LinkInv'
  <1>1. UNCHANGED <<phy, mac, ready, driver, mDhcpState>>
        /\ polled' \in BOOLEAN
    <2>1. UNCHANGED <<phy, mac, ready, driver, mDhcpState>>
      BY DEF DhcpTimeout, Offer, Ack, Bind, Refusal, LeaseExpires
    <2>2. polled' = polled \/ polled' = FALSE
      BY DEF DhcpTimeout, Offer, Ack, Bind, Refusal, LeaseExpires
    <2>3. polled' \in BOOLEAN
      BY <2>2 DEF LinkInv, TypeOK
    <2> QED
      BY <2>1, <2>3
  <1>2. netif' = netif \/ \E a \in {"zero", "dhcp", "static"} :
                              netif' = [netif EXCEPT !.address = a]
    BY DEF DhcpTimeout, Offer, Ack, Bind, Refusal, LeaseExpires
  <1>3. \E s \in ClientStates :
           dhcp' \in {Enter(s), Restarted(s), [state |-> s, tries |-> 0]}
    <2>1. /\ {"init", "selecting", "requesting", "checking", "backingOff",
              "rebooting", "bound"} \subseteq ClientStates
      BY DEF ClientStates
    <2>2. CASE DhcpTimeout
      BY <2>1, <2>2 DEF DhcpTimeout
    <2>3. CASE Offer
      BY <2>1, <2>3 DEF Offer
    <2>4. CASE Ack \/ Bind
      BY <2>1, <2>4 DEF Ack, Bind
    <2>5. CASE Refusal
      BY <2>1, <2>5 DEF Refusal
    <2>6. CASE LeaseExpires
      BY <2>1, <2>6 DEF LeaseExpires
    <2> QED
      BY <2>2, <2>3, <2>4, <2>5, <2>6
  <1>4. dhcp' \in [state: ClientStates, tries: 0 .. MaxTries]
    BY <1>3, ClientMoves
  <1>5. mDhcpState \in DhcpStates
    BY DEF LinkInv, TypeOK
  <1> QED
    BY <1>1, <1>2, <1>4, <1>5, OtherStep

LEMMA NetworkInductive == Spec => []LinkInv
  <1>1. LinkInv /\ [Next]_vars => LinkInv'
    <2> SUFFICES ASSUME LinkInv, [Next]_vars PROVE LinkInv'
      OBVIOUS
    <2>1. CASE LinkComes \/ Negotiated \/ LinkGoes
      BY <2>1, PhyStep
    <2>2. CASE Main
      BY <2>2, DriverStep, CheckStep DEF Main
    <2>3. CASE LinkChecked \/ LinkUnread
      BY <2>3, CheckStep DEF LinkChecked, LinkUnread
    <2>4. CASE DhcpProcess
      BY <2>4, DhcpProcessStep
    <2>5. CASE DhcpTimeout \/ Offer \/ Ack \/ Bind \/ Refusal \/ LeaseExpires
      BY <2>5, ClientStep
    <2>6. CASE UNCHANGED vars
      BY <2>6 DEF vars, LinkInv, TypeOK, MacFollowsPhy, LossIsLatched,
                  NothingBeforeInit, StateFollowsLink
    <2> QED
      BY <2>1, <2>2, <2>3, <2>4, <2>5, <2>6 DEF Next, LwipThread
  <1> QED
    BY NetworkStart, <1>1, PTL DEF Spec

(***************************************************************************)
(* The DHCP process knows whether there is a link, from init on, although  *)
(* lwIP reports changes only (Ethernetif.h:76-83).                         *)
(***************************************************************************)
THEOREM LinkIsKnown == Spec => []StateFollowsLink
  <1>1. LinkInv => StateFollowsLink
    BY DEF LinkInv
  <1> QED
    BY NetworkInductive, <1>1, PTL

(***************************************************************************)
(* The MAC runs exactly while the interface is up, in the mode the PHY     *)
(* negotiated (Ethernetif.cpp:434-477): a change of mode goes through a    *)
(* loss of the link, and the PHY's latch keeps a loss until it is read.    *)
(***************************************************************************)
THEOREM MacModeIsThePhys == Spec => []MacFollowsPhy
  <1>1. LinkInv => MacFollowsPhy
    BY DEF LinkInv
  <1> QED
    BY NetworkInductive, <1>1, PTL

(***************************************************************************)
(* The flags, modes and states are among those the code has: in particular *)
(* the MAC is never configured for a mode the PHY does not have.           *)
(***************************************************************************)
THEOREM NetworkTypes == Spec => []TypeOK
  <1>1. LinkInv => TypeOK
    BY DEF LinkInv
  <1> QED
    BY NetworkInductive, <1>1, PTL

\* No step of the client ends it, and none gives the interface a static address.
LEMMA ClientStays ==
  ASSUME LinkInv, WaitsForClient,
         DhcpTimeout \/ Offer \/ Ack \/ Bind \/ Refusal \/ LeaseExpires
  PROVE  WaitsForClient'
  <1>1. mDhcpState' = mDhcpState
    BY DEF DhcpTimeout, Offer, Ack, Bind, Refusal, LeaseExpires
  <1>2. netif' = netif \/ \E a \in {"zero", "dhcp"} :
                              netif' = [netif EXCEPT !.address = a]
    BY DEF DhcpTimeout, Offer, Ack, Bind, Refusal, LeaseExpires
  <1>3. netif.address # "static" => netif'.address # "static"
    BY <1>2 DEF LinkInv, TypeOK
  <1>4. dhcp'.state # "none"
    <2>1. \E s \in ClientStates \ {"none"} :
             dhcp' \in {Enter(s), Restarted(s), [state |-> s, tries |-> 0]}
      <3>1. {"init", "selecting", "requesting", "checking", "backingOff",
             "rebooting", "bound"} = ClientStates \ {"none"}
        BY DEF ClientStates
      <3>2. CASE DhcpTimeout
        BY <3>1, <3>2 DEF DhcpTimeout
      <3>3. CASE Offer
        BY <3>1, <3>3 DEF Offer
      <3>4. CASE Ack \/ Bind
        BY <3>1, <3>4 DEF Ack, Bind
      <3>5. CASE Refusal
        BY <3>1, <3>5 DEF Refusal
      <3>6. CASE LeaseExpires
        BY <3>1, <3>6 DEF LeaseExpires
      <3> QED
        BY <3>2, <3>3, <3>4, <3>5, <3>6
    <2> QED
      BY <2>1 DEF Enter, Restarted
  <1> QED
    BY <1>1, <1>3, <1>4 DEF WaitsForClient

\* dhcpProcess waits only for a client it has started or seen.
LEMMA ProcessStays ==
  ASSUME LinkInv, WaitsForClient, DhcpProcess
  PROVE  WaitsForClient'
  <1>1. CASE StartDhcp
    <2>1. netif'.address = "zero" /\ dhcp'.state \in {"selecting", "init"}
      BY <1>1 DEF StartDhcp, Restarted, LinkInv, TypeOK
    <2> QED
      BY <2>1 DEF WaitsForClient
  <1>2. CASE AddressSupplied \/ KeepWaiting
    BY <1>2 DEF AddressSupplied, KeepWaiting, WaitsForClient
  <1>3. CASE GiveUpDhcp \/ NoteLinkDown
    BY <1>3 DEF GiveUpDhcp, NoteLinkDown, WaitsForClient
  <1> QED
    BY <1>1, <1>2, <1>3 DEF DhcpProcess

\* A check of the link never moves the process into one of its waiting states.
LEMMA CheckStays ==
  ASSUME LinkInv, WaitsForClient, NEW status \in {LinkState, "ReadError"},
         NetworkInit(status) \/ CheckLinkState(status)
  PROVE  WaitsForClient'
  <1>1. mDhcpState' \in {"Start", "LinkDown"} \/ UNCHANGED <<mDhcpState, dhcp>>
    BY DEF NetworkInit, InterfaceInit, CheckLinkState, LinkStatusUpdated
  <1>2. netif'.address = netif.address
    <2>1. CheckLink(status)
      BY DEF NetworkInit, InterfaceInit, EthernetifInit, LowLevelInit, CheckLinkState
    <2>2. netif' = netif \/ \E u \in BOOLEAN :
                               netif' = [netif EXCEPT !.link = u, !.up = u]
      BY <2>1 DEF CheckLink, LinkUp, LinkDown
    <2> QED
      BY <2>2 DEF LinkInv, TypeOK
  <1> QED
    BY <1>1, <1>2 DEF WaitsForClient

(***************************************************************************)
(* While dhcpProcess waits, or has seen an address assigned, there is a    *)
(* DHCP client to ask for its tries, and no static address in the way      *)
(* (NetworkRTOS.h:104-134, Ethernetif.h:131-138).                          *)
(***************************************************************************)
THEOREM WaitHasClient == Spec => []WaitsForClient
  <1>1. Init => WaitsForClient
    BY DEF Init, WaitsForClient
  <1>2. LinkInv /\ WaitsForClient /\ [Next]_vars => WaitsForClient'
    <2> SUFFICES ASSUME LinkInv, WaitsForClient, [Next]_vars PROVE WaitsForClient'
      OBVIOUS
    <2>1. CASE LinkComes \/ Negotiated \/ LinkGoes
      BY <2>1 DEF LinkComes, Negotiated, LinkGoes, WaitsForClient
    <2>2. CASE Main
      <3>1. CASE FindAddress \/ ResetPhy
        BY <3>1 DEF FindAddress, ResetPhy, WaitsForClient
      <3> QED
        BY <2>2, <3>1, CheckStays DEF Main
    <2>3. CASE LinkChecked \/ LinkUnread
      BY <2>3, CheckStays DEF LinkChecked, LinkUnread
    <2>4. CASE DhcpProcess
      BY <2>4, ProcessStays
    <2>5. CASE DhcpTimeout \/ Offer \/ Ack \/ Bind \/ Refusal \/ LeaseExpires
      BY <2>5, ClientStays
    <2>6. CASE UNCHANGED vars
      BY <2>6 DEF vars, WaitsForClient
    <2> QED
      BY <2>1, <2>2, <2>3, <2>4, <2>5, <2>6 DEF Next, LwipThread
  <1> QED
    BY NetworkInductive, <1>1, <1>2, PTL DEF Spec
=============================================================================
