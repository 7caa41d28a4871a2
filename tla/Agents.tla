------------------------------- MODULE Agents -------------------------------
(***************************************************************************)
(* The agents by which the network finds this printer, mDNS, WSD and SNMP, *)
(* and the transports by which it hands jobs on.  They share no state, so  *)
(* a behaviour shows one of them at work.                                  *)
(***************************************************************************)
EXTENDS Mdns, Wsd, Snmp, Transport

VARIABLE agent      \* "mDNS", "WSD", "SNMP" or "transport"

vars == <<agent, mdnsVars, wsdVars, snmpVars, transportVars>>

Init ==
    /\ agent \in {"mDNS", "WSD", "SNMP", "transport"}
    /\ MdnsInit /\ WsdInit /\ SnmpInit /\ TransportInit
    \* How those that rest are configured makes no difference.
    /\ agent # "SNMP" =>
          /\ manager.conf = CHOOSE m \in Managers : TRUE
          /\ engineId = CHOOSE e \in EngineIds : TRUE
    /\ agent # "transport" =>
          xfer = CHOOSE x \in [by : Transports, size : Sizes, cap : Caps] : TRUE

Next ==
    \/ /\ agent = "mDNS" /\ MdnsNext
       /\ UNCHANGED <<agent, wsdVars, snmpVars, transportVars>>
    \/ /\ agent = "WSD" /\ WsdNext
       /\ UNCHANGED <<agent, mdnsVars, snmpVars, transportVars>>
    \/ /\ agent = "SNMP" /\ SnmpNext
       /\ UNCHANGED <<agent, mdnsVars, wsdVars, transportVars>>
    \/ /\ agent = "transport" /\ TransportNext
       /\ UNCHANGED <<agent, mdnsVars, wsdVars, snmpVars>>

Spec == Init /\ [][Next]_vars /\ (agent = "SNMP" => SnmpFairness)

\* A printer that was closed leaves no trace of itself in the clients that
\* heard everything it sent, unless it sent in the gap before a socket's close.
\* (Close of both responders)
Withdrawn == MdnsWithdrawn /\ WsdWithdrawn

\* If datagrams keep getting through, a manager with the right secrets comes to
\* the end of its walk: after a restart of the engine, and after requests that
\* came too late for the window.  (handleSNMPv3)
WalkEnds == agent = "SNMP" => Rediscovers
=============================================================================
