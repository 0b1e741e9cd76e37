------------------------------ MODULE MCMedia -------------------------------
(* Media for TLC, with one call: every handler of Media touches one call.  *)
EXTENDS Media

Offer(ip, port, codec, mode) == [ip |-> ip, port |-> port, codecs |-> {codec}, mode |-> mode]

\* Two addresses that differ in the port, with and without the MSC's codec, a hold, a stop,
\* a port of 0 at another address, and an SDP without connection.
Peers == {Offer("ip1", 1, "GSM", "sendrecv"), Offer("ip1", 2, "AMR", "sendrecv"),
          Offer("ip1", 1, "GSM", "sendonly"), Offer("ip1", 1, "GSM", "inactive"),
          Offer("ip2", 0, "GSM", "sendrecv"),
          Offer("none", 1, "GSM", "sendrecv")}

\* Two addresses that differ in both parts.
TwoPeers == {Offer("ip1", 1, "GSM", "sendrecv"), Offer("ip2", 2, "AMR", "sendrecv")}

\* An MSC that sends no SDP, or one SDP.
Mscs == {NoSdp, Offer("msc", 9, "GSM", "sendrecv")}
=============================================================================
