----------------------------- MODULE MCSession -----------------------------
(***************************************************************************)
(* A session whose peer is any program at all, or an OuchClient.           *)
(***************************************************************************)
EXTENDS OuchClient

AnyPeerInit ==
  /\ Init
  /\ phase = "absent"
  /\ client_send = 0
  /\ up = << >> /\ taken = 0 /\ parser = << >>
  /\ submitted = 0 /\ lost = 0 /\ dispatched = 0
  /\ polled = now

PeerInit == AnyPeerInit \/ ClientInit

PeerNext ==
  \/ phase = "absent" /\ Next /\ UNCHANGED client
  \/ phase # "absent" /\ ClientNext

PeerSpec == PeerInit /\ [][PeerNext]_clientVars

============================================================================
