------------------------------ MODULE Network ------------------------------
(***************************************************************************)
(* The network manager of src/include/lwipserver/network/NetworkRTOS.h on  *)
(* the interface of stm32h7/Ethernetif.h: the link check that follows the  *)
(* PHY and starts and stops the MAC, and the DHCP process that follows the *)
(* link and falls back to a static address.  Both are paced by a LoopTimer *)
(* and run in one thread, together with lwIP's own timers and input.       *)
(*                                                                         *)
(* The PHY and lwIP's DHCP client are modelled as the code uses them.      *)
(***************************************************************************)
EXTENDS Integers

CONSTANTS
    sMaxDhcpTries,  \* tries of the DHCP client after which it is given up
    MaxTries,       \* bound: the client's counter of tries stops here
    Modes,          \* speed and duplex the PHY may negotiate
    sMaxDevAddr,    \* the last PHY address
    PhyAddr         \* the PHY's

ASSUME TriesAssumption == /\ sMaxDhcpTries \in Nat
                          /\ MaxTries \in Nat /\ MaxTries > 5
ASSUME ModesAssumption ==
    /\ Modes \cap {"none", "LinkDown", "ReadError", "AutonegoNotDone"} = {}
    /\ "HalfDuplex10Mbit" \in Modes
ASSUME AddressAssumption == sMaxDevAddr \in Nat /\ PhyAddr \in 0 .. sMaxDevAddr

VARIABLES
    phy,         \* the PHY: link, negotiation, and the latched loss of the link
    netif,       \* lwIP's interface: its flags and address
    mac,         \* the MAC: started, and the mode it is configured for
    mDhcpState,
    dhcp,        \* lwIP's DHCP client: its state and the counter tries
    ready,       \* init has returned
    driver,      \* sLan8742: mDevAddr, and how far its init came
    polled       \* dhcpProcess ran since the client last timed out

vars == <<phy, netif, mac, mDhcpState, dhcp, ready, driver, polled>>

DhcpStates == {"Off", "Start", "WaitAddress", "AddressAssigned", "Timeout", "LinkDown"}

Statuses == Modes \cup {"LinkDown", "ReadError", "AutonegoNotDone"}

Init ==
    /\ phy \in [up: {FALSE}, done: {FALSE}, mode: Modes, latched: {FALSE}]
    /\ netif = [link |-> FALSE, up |-> FALSE, address |-> "zero"]
    /\ mac = [started |-> FALSE, mode |-> "none"]
    /\ mDhcpState = "LinkDown"
    /\ dhcp = [state |-> "none", tries |-> 0]
    /\ ready = FALSE
    /\ driver = [addr |-> 0, status |-> "none"]
    /\ polled = FALSE

-----------------------------------------------------------------------------
(* The PHY.  The link bit of BSR latches a loss until it is read.          *)

LinkComes ==
    /\ ~phy.up
    /\ \E m \in Modes, d \in BOOLEAN :
          phy' = [phy EXCEPT !.up = TRUE, !.mode = m, !.done = d]
    /\ UNCHANGED <<netif, mac, mDhcpState, dhcp, ready, driver, polled>>

Negotiated ==
    /\ phy.up
    /\ ~phy.done
    /\ phy' = [phy EXCEPT !.done = TRUE]
    /\ UNCHANGED <<netif, mac, mDhcpState, dhcp, ready, driver, polled>>

LinkGoes ==
    /\ phy.up
    /\ phy' = [phy EXCEPT !.up = FALSE, !.done = FALSE, !.latched = TRUE]
    /\ UNCHANGED <<netif, mac, mDhcpState, dhcp, ready, driver, polled>>

\* getLinkState, when all its registers can be read; the registers are read in
\* one step, and the code never turns auto-negotiation off.  At an address where
\* there is no PHY every register reads as all ones.
LinkState ==
    IF driver.addr # PhyAddr THEN "HalfDuplex10Mbit"
    ELSE IF ~phy.up \/ phy.latched THEN "LinkDown"
    ELSE IF ~phy.done THEN "AutonegoNotDone"
    ELSE phy.mode

\* What reading BSR leaves of the latch; a failed read may not have come so far.
PhyRead(status) ==
    \/ driver.addr = PhyAddr /\ phy' = [phy EXCEPT !.latched = FALSE]
    \/ (status = "ReadError" \/ driver.addr # PhyAddr) /\ UNCHANGED phy

-----------------------------------------------------------------------------
(* Lan8742's init, before anything else of the network runs                *)

\* readReg of the special modes register at address a: whether it could be read,
\* and the address in it.
ReadSmr(a) ==
    {<<FALSE, 0>>, <<TRUE, IF a = PhyAddr THEN PhyAddr ELSE sMaxDevAddr>>}

\* What of it can make the search stop at a, and what makes it go on.
Hits(a) == {val \in ReadSmr(a) : val[1] /\ val[2] = a}
Misses(a) == ReadSmr(a) \ Hits(a)

\* The search: the first address that reads as itself.
FindAddress ==
    /\ ~ready
    /\ driver.status = "none"
    /\ \/ \E a \in 0 .. sMaxDevAddr :
             /\ Hits(a) # {}
             /\ \A b \in 0 .. a - 1 : Misses(b) # {}
             /\ driver' = [addr |-> a, status |-> "found"]
       \/ /\ \A a \in 0 .. sMaxDevAddr : Misses(a) # {}
          /\ driver' = [driver EXCEPT !.status = "returned"]
    /\ UNCHANGED <<phy, netif, mac, mDhcpState, dhcp, ready, polled>>

\* The software reset, which ends the link if the PHY gets it, and the wait for
\* it to clear.  Ok, WriteError, ReadError and ResetTimeout come to the same:
\* low_level_init does not look at what init returns.
ResetPhy ==
    /\ ~ready
    /\ driver.status = "found"
    /\ driver' = [driver EXCEPT !.status = "returned"]
    /\ \/ UNCHANGED phy
       \/ /\ driver.addr = PhyAddr
          /\ phy' = [phy EXCEPT !.up = FALSE, !.done = FALSE, !.latched = FALSE]
    /\ UNCHANGED <<netif, mac, mDhcpState, dhcp, ready, polled>>

-----------------------------------------------------------------------------
(* lwIP's DHCP client *)

\* dhcp_set_state, and the send that counts a try.
Enter(s) ==
    [state |-> s,
     tries |-> IF s # dhcp.state THEN 1
               ELSE IF dhcp.tries < MaxTries THEN dhcp.tries + 1 ELSE MaxTries]

Restarted(s) == [state |-> s, tries |-> IF s = "init" THEN 0 ELSE 1]

\* dhcp_network_changed, called when the link comes up
ClientAfterLinkUp ==
    CASE dhcp.state = "none" -> dhcp
      [] dhcp.state \in {"bound", "rebooting"} -> Restarted("rebooting")
      [] OTHER -> Restarted("selecting")

-----------------------------------------------------------------------------
(* The link *)

\* linkStatusUpdated
LinkStatusUpdated(up) == IF up THEN "Start" ELSE "LinkDown"

\* Mutant: the MAC keeps the mode it was configured for first.
LinkUp_ModeKept(status) ==
    /\ netif' = [netif EXCEPT !.link = TRUE, !.up = TRUE]
    /\ mac' = [started |-> TRUE,
               mode |-> IF mac.mode = "none" THEN status ELSE mac.mode]

\* The calls ethernet_link_check_state makes when the link has come up, ...
LinkUp(status) ==
    /\ netif' = [netif EXCEPT !.link = TRUE, !.up = TRUE]
    /\ mac' = [started |-> TRUE, mode |-> status]

\* Mutant: HAL_ETH_Stop is forgotten.
LinkDown_MacRuns ==
    /\ netif' = [netif EXCEPT !.link = FALSE, !.up = FALSE]
    /\ UNCHANGED mac

\* ... and when it has gone down.
LinkDown ==
    /\ netif' = [netif EXCEPT !.link = FALSE, !.up = FALSE]
    /\ mac' = [mac EXCEPT !.started = FALSE]

\* Mutant: any status but an error counts as an established link.
CheckLink_AnyUp(status) ==
    IF netif.link /\ status \in {"LinkDown", "ReadError"} THEN LinkDown
    ELSE IF ~netif.link /\ status \notin {"LinkDown", "ReadError"} THEN LinkUp(status)
    ELSE UNCHANGED <<netif, mac>>

\* ethernet_link_check_state
CheckLink(status) ==
    IF netif.link /\ status \in {"LinkDown", "ReadError"} THEN LinkDown
    ELSE IF ~netif.link /\ status \in Modes THEN LinkUp(status)
    ELSE UNCHANGED <<netif, mac>>

\* low_level_init: whatever the driver's init returned, the link is checked.
LowLevelInit(status) ==
    /\ driver.status = "returned"
    /\ CheckLink(status)
    /\ PhyRead(status)

\* ethernetif_init: the rest of it tells lwIP the interface's names and functions.
EthernetifInit(status) == LowLevelInit(status)

\* Mutant: the link callback is not called.
InterfaceInit_NoCallback(status) ==
    /\ EthernetifInit(status)
    /\ UNCHANGED mDhcpState

\* Ethernetif's init: the link is checked before lwIP has a link callback, which
\* is therefore called here.
InterfaceInit(status) ==
    /\ EthernetifInit(status)
    /\ mDhcpState' = LinkStatusUpdated(netif'.link)

\* init
NetworkInit(status) ==
    /\ ~ready
    /\ ready' = TRUE
    /\ InterfaceInit(status)
    /\ UNCHANGED <<dhcp, driver, polled>>

\* mLinkTimer: checkLinkState, with lwIP's link callback
CheckLinkState(status) ==
    /\ ready
    /\ CheckLink(status)
    /\ PhyRead(status)
    /\ IF netif'.link = netif.link
       THEN UNCHANGED <<mDhcpState, dhcp>>
       ELSE /\ dhcp' = IF netif'.link THEN ClientAfterLinkUp ELSE dhcp
            /\ mDhcpState' = LinkStatusUpdated(netif'.link)
    /\ UNCHANGED <<ready, driver, polled>>

-----------------------------------------------------------------------------
(* mDHCPTimer: dhcpProcess *)

\* Mutant: the address is not reset.
StartDhcp_AddressKept ==
    /\ mDhcpState = "Start"
    /\ dhcp' = Restarted(IF netif.link THEN "selecting" ELSE "init")
    /\ mDhcpState' = "WaitAddress"
    /\ UNCHANGED netif

\* dhcpStart, and the first DISCOVER it sends
StartDhcp ==
    /\ mDhcpState = "Start"
    /\ netif' = [netif EXCEPT !.address = "zero"]
    /\ dhcp' = Restarted(IF netif.link THEN "selecting" ELSE "init")
    /\ mDhcpState' = "WaitAddress"

\* isDhcpSuppliedAddress
Supplied == dhcp.state = "bound"

\* Mutant: an address is taken for assigned once the server made an offer.
AddressSupplied_Offered ==
    /\ mDhcpState = "WaitAddress"
    /\ dhcp.state \in {"requesting", "checking", "bound"}
    /\ mDhcpState' = "AddressAssigned"
    /\ UNCHANGED <<netif, dhcp>>

AddressSupplied ==
    /\ mDhcpState = "WaitAddress"
    /\ Supplied
    /\ mDhcpState' = "AddressAssigned"
    /\ UNCHANGED <<netif, dhcp>>

DhcpTries == dhcp.tries

SetStaticIp == netif' = [netif EXCEPT !.address = "static"]

GiveUpDhcp ==
    /\ mDhcpState = "WaitAddress"
    /\ ~Supplied
    /\ DhcpTries > sMaxDhcpTries
    /\ mDhcpState' = "Timeout"
    /\ SetStaticIp
    /\ UNCHANGED dhcp

NoteLinkDown ==
    /\ mDhcpState = "LinkDown"
    /\ mDhcpState' = "Off"
    /\ UNCHANGED <<netif, dhcp>>

KeepWaiting ==
    /\ \/ mDhcpState \in {"Off", "AddressAssigned", "Timeout"}
       \/ mDhcpState = "WaitAddress" /\ ~Supplied /\ DhcpTries <= sMaxDhcpTries
    /\ UNCHANGED <<mDhcpState, netif, dhcp>>

DhcpProcess ==
    /\ ready
    /\ \/ StartDhcp \/ AddressSupplied \/ GiveUpDhcp \/ NoteLinkDown \/ KeepWaiting
    /\ polled' = TRUE
    /\ UNCHANGED <<phy, mac, ready, driver>>

-----------------------------------------------------------------------------
(* lwIP's DHCP client on its own: its timers and the server's messages     *)

\* A retransmission, whether there is a link or not.  It comes more than a second
\* after the one before, and dhcpProcess, which runs twice a second, has run in
\* between; only the first after a reboot can come sooner.
DhcpTimeout ==
    /\ polled' = FALSE
    /\ \/ /\ polled
          /\ dhcp.state \in {"selecting", "backingOff"}
          /\ dhcp' = Enter("selecting")
       \/ /\ polled
          /\ dhcp.state = "requesting"
          /\ dhcp' = IF dhcp.tries <= 5 THEN Enter("requesting") ELSE Restarted("selecting")
       \/ /\ dhcp.state = "rebooting"
          /\ dhcp' = IF dhcp.tries < 2 THEN Enter("rebooting") ELSE Enter("selecting")
    /\ UNCHANGED <<phy, netif, mac, mDhcpState, ready, driver>>

Hears == mac.started /\ phy.up

Offer ==
    /\ Hears
    /\ dhcp.state = "selecting"
    /\ dhcp' = Enter("requesting")
    /\ UNCHANGED <<phy, netif, mac, mDhcpState, ready, driver, polled>>

\* The acknowledged address is probed by ARP first, a known one is not.
Ack ==
    /\ Hears
    /\ \/ /\ dhcp.state = "requesting"
          /\ dhcp' = [state |-> "checking", tries |-> 0]
          /\ UNCHANGED netif
       \/ /\ dhcp.state = "rebooting"
          /\ dhcp' = [state |-> "bound", tries |-> 0]
          /\ netif' = [netif EXCEPT !.address = "dhcp"]
    /\ UNCHANGED <<phy, mac, mDhcpState, ready, driver, polled>>

Bind ==
    /\ dhcp.state = "checking"
    /\ dhcp' = [state |-> "bound", tries |-> 0]
    /\ netif' = [netif EXCEPT !.address = "dhcp"]
    /\ UNCHANGED <<phy, mac, mDhcpState, ready, driver, polled>>

\* The address is in use, and declined; or the server refuses a request or a
\* renewal, and the address is given up.  Each time the client counts its tries
\* anew, and nothing bounds how often.
Refusal ==
    /\ Hears
    /\ \/ /\ dhcp.state = "checking"
          /\ dhcp' = Enter("backingOff")
          /\ UNCHANGED netif
       \/ /\ dhcp.state \in {"requesting", "rebooting", "bound"}
          /\ dhcp' = Restarted("selecting")
          /\ netif' = [netif EXCEPT !.address = "zero"]
    /\ UNCHANGED <<phy, mac, mDhcpState, ready, driver, polled>>

\* The lease ends without an answer to its renewal.
LeaseExpires ==
    /\ dhcp.state = "bound"
    /\ dhcp' = Restarted(IF netif.link THEN "selecting" ELSE "init")
    /\ netif' = [netif EXCEPT !.address = "zero"]
    /\ UNCHANGED <<phy, mac, mDhcpState, ready, driver, polled>>

-----------------------------------------------------------------------------
\* main, up to the start of the scheduler; init's check of the link may fail.
Main ==
    \/ FindAddress
    \/ ResetPhy
    \/ NetworkInit(LinkState)
    \/ NetworkInit("ReadError")

\* The two timers lwipThread polls; the link check may fail, too.
LinkChecked == CheckLinkState(LinkState)
LinkUnread == CheckLinkState("ReadError")
LwipThread == LinkChecked \/ LinkUnread \/ DhcpProcess

Next ==
    \/ LinkComes \/ Negotiated \/ LinkGoes
    \/ Main
    \/ LwipThread
    \/ DhcpTimeout \/ Offer \/ Ack \/ Bind \/ Refusal \/ LeaseExpires

Spec == Init /\ [][Next]_vars

(***************************************************************************)
(* main runs to its end, the tick ends the wait for the PHY's reset.  The  *)
(* idle task polls both timers, and lwIP's, in every pass; the PHY can be  *)
(* read again and again, if not every time.  Nothing obliges a DHCP server *)
(* to answer.                                                              *)
(***************************************************************************)
FairSpec ==
    /\ Spec
    /\ WF_vars(Main)
    /\ WF_vars(LinkChecked)
    /\ WF_vars(DhcpProcess)
    /\ WF_vars(DhcpTimeout)
    /\ WF_vars(Bind)

-----------------------------------------------------------------------------
(* Properties *)

\* The shape of the state.
TypeOK ==
    /\ phy \in [up: BOOLEAN, done: BOOLEAN, mode: Modes, latched: BOOLEAN]
    /\ netif \in [link: BOOLEAN, up: BOOLEAN, address: {"zero", "dhcp", "static"}]
    /\ mac \in [started: BOOLEAN, mode: Modes \cup {"none"}]
    /\ mDhcpState \in DhcpStates
    /\ dhcp \in [state: {"none", "init", "selecting", "requesting", "checking",
                          "backingOff", "rebooting", "bound"},
                  tries: 0 .. MaxTries]
    /\ ready \in BOOLEAN
    /\ driver \in [addr: 0 .. sMaxDevAddr, status: {"none", "found", "returned"}]
    /\ polled \in BOOLEAN

(***************************************************************************)
(* The DHCP process knows whether there is a link, from init on, although  *)
(* lwIP reports changes only (Ethernetif.h:76-83, NetworkRTOS.h:94-102).   *)
(***************************************************************************)
StateFollowsLink ==
    ready => (netif.link <=> mDhcpState \notin {"LinkDown", "Off"})

(***************************************************************************)
(* The MAC runs exactly when lwIP may send through the interface, and in   *)
(* the mode the PHY negotiated, unless the link was lost since it was last *)
(* checked (Ethernetif.cpp:434-477) or the PHY was not found at boot.      *)
(***************************************************************************)
MacFollowsPhy ==
    /\ mac.started = netif.link
    /\ netif.up = netif.link
    /\ netif.link /\ phy.up /\ ~phy.latched /\ driver.addr = PhyAddr
          => mac.mode = phy.mode

(***************************************************************************)
(* While dhcpProcess waits, or has seen an address assigned, there is a    *)
(* DHCP client to ask for its tries (Ethernetif.h:131-138), and no static  *)
(* address in the way of the one it will supply.                           *)
(***************************************************************************)
WaitsForClient ==
    mDhcpState \in {"WaitAddress", "AddressAssigned"} =>
        dhcp.state # "none" /\ netif.address # "static"

(***************************************************************************)
(* A loss of the link is noticed and the MAC stopped; a link that stays is *)
(* used (NetworkRTOS.h:26, the link is checked periodically), whatever the *)
(* reset of the PHY came to: all that counts is that its address was found *)
(* (Ethernetif.cpp:164 does not look at the result of init).               *)
(***************************************************************************)
LinkFollowsPhy ==
    LET found == driver.addr = PhyAddr
    IN  /\ (phy.up /\ phy.done /\ found) ~> (netif.link \/ ~phy.up \/ ~found)
        /\ (~phy.up /\ found) ~> (~mac.started \/ phy.up \/ ~found)

(***************************************************************************)
(* A wait for DHCP ends in an address, of the server or the static one,    *)
(* while the link is up (NetworkRTOS.h:104-105): a silent server, one that *)
(* falls silent half way and one that stops refusing all come to           *)
(* more than sMaxDhcpTries tries.  The exception is a server, or a host    *)
(* with the offered address, that refuses for ever: lwIP counts the tries  *)
(* anew in every state, dhcpProcess never sees enough of them              *)
(* (NetworkRTOS.h:117), and the wait has no end.                           *)
(***************************************************************************)
RefusedForEver == []<><<Refusal>>_vars

WaitEndsInAddress ==
    \/ mDhcpState = "WaitAddress" ~> (netif.address # "zero" \/ ~netif.link)
    \/ RefusedForEver
=============================================================================
