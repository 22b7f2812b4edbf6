------------------------------ MODULE BrokerUri ------------------------------
(***************************************************************************)
(* What Connect() of EspidfMqttClient makes of the endpoint in the device  *)
(* profile: a URI for the library, and the host and port to reach first.   *)
(* A string is a sequence of its pieces: names, numbers, and the           *)
(* characters that separate them.                                          *)
(***************************************************************************)
EXTENDS Integers, Sequences, SequencesExt, FiniteSetsExt

CONSTANT EndpointLength \* bound: pieces of an endpoint

ASSUME EndpointAssumption == EndpointLength \in Nat

VARIABLE broker \* the endpoint, and the members set from it: the URI, its host and port

Numbers == {"1883", "8883"}
Scheme == <<":", "/", "/">>
DefaultPort == <<":", "8883">>

\* All endpoints, but that two numbers in a row would be one.
Endpoints ==
  {e \in BoundedSeq({"name", "1883", ":", "/"}, EndpointLength) :
     \A i \in 1 .. Len(e) - 1 : ~({e[i], e[i + 1]} \subseteq Numbers)}

\* find(); what is not found is behind the end.
Find(s, what, from) ==
  Min({Len(s) + 1} \cup
      {i \in from .. Len(s) + 1 - Len(what) : SubSeq(s, i, i + Len(what) - 1) = what})

HasScheme(s) == Find(s, Scheme, 1) <= Len(s)

HostStart(s) == IF HasScheme(s) THEN Find(s, Scheme, 1) + 3 ELSE 1

Slash(s) == Find(s, <<"/">>, HostStart(s))

\* Faulty variant, substituted for Colon to show that a property depends on it:
\* the colon of the scheme is taken for that of the port.
ColonAnywhere(s) == Find(s, <<":">>, 1)

Colon(s) == Find(s, <<":">>, HostStart(s))

HasPort(s) == Colon(s) < Slash(s)

-----------------------------------------------------------------------------
\* Faulty variant: the port is put behind the path.
NormalizeAtEnd(e) ==
  IF ~HasScheme(e) THEN <<"mqtts">> \o Scheme \o e \o DefaultPort
  ELSE IF HasPort(e) THEN e ELSE e \o DefaultPort

NormalizeMqttUri(e) ==
  IF ~HasScheme(e) THEN <<"mqtts">> \o Scheme \o e \o DefaultPort
  ELSE IF HasPort(e) THEN e
  ELSE SubSeq(e, 1, Slash(e) - 1) \o DefaultPort \o SubSeq(e, Slash(e), Len(e))

\* The number at i, or 0.
Atoi(s, i) == IF i <= Len(s) /\ s[i] \in Numbers THEN s[i] ELSE "0"

ParseBrokerHostPort(s) ==
  IF HasPort(s)
  THEN [host |-> SubSeq(s, HostStart(s), Colon(s) - 1), port |-> Atoi(s, Colon(s) + 1)]
  ELSE [host |-> SubSeq(s, HostStart(s), Slash(s) - 1), port |-> "8883"]

Cleared == [endpoint |-> <<>>, uri |-> <<>>, broker |-> <<>>]

BrokerInit == broker = Cleared

\* In Connect().
SetBroker ==
  /\ broker = Cleared
  /\ \E e \in Endpoints :
       broker' = [endpoint |-> e, uri |-> NormalizeMqttUri(e),
                  broker |-> ParseBrokerHostPort(NormalizeMqttUri(e))]

ClearBrokerConfigStrings == broker' = Cleared

BrokerNext == SetBroker \/ ClearBrokerConfigStrings

BrokerSpec == BrokerInit /\ [][BrokerNext]_broker

-----------------------------------------------------------------------------
\* The library is given the host and the port that the endpoint names, whatever
\* NormalizeMqttUri() added to it before they were taken from it (220, 222).
EndpointKept ==
  broker # Cleared => broker.broker = ParseBrokerHostPort(broker.endpoint)

\* The URI names a port, and one that the endpoint names is not added to (90);
\* not so for an endpoint that has no scheme and a port or a path.
PortIsExplicit ==
  broker # Cleared /\ (HasScheme(broker.endpoint) \/ Range(broker.endpoint) \cap {":", "/"} = {}) =>
    /\ HasPort(broker.uri)
    /\ HasScheme(broker.endpoint) /\ HasPort(broker.endpoint) => broker.uri = broker.endpoint
=============================================================================
