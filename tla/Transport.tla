----------------------------- MODULE Transport -----------------------------
(***************************************************************************)
(* The TCP links of a PySyncObj cluster: pysyncobj/node.py (one Node object*)
(* per peer), pysyncobj/connection.py (the two buffers of a socket) and the*)
(* part of syncobj.py that accepts connections.                            *)
(*                                                                         *)
(* chan[a][b] holds what a wrote for b and b has not handled, in order.    *)
(* status[a][b] is the status of a's Node object for b.  "broken" is       *)
(* CONNECTED in the code: the socket is dead and a does not know it yet.   *)
(***************************************************************************)
EXTENDS Naturals, Sequences, SequencesExt, FiniteSets

CONSTANTS Node,       \* addresses, ordered as the strings the code compares
          Fragile,    \* the links that may break, as pairs <<smaller, greater>>
          MaxBreaks   \* bound: how many connections may break

ASSUME NodeAssumption == Node \subseteq Nat /\ IsFiniteSet(Node)
ASSUME BreaksAssumption == MaxBreaks \in Nat /\ Fragile \subseteq Node \X Node

VARIABLES status, chan, breaks

linkVars == <<status, chan, breaks>>

Peer(n) == Node \ {n}
StatusValue == {"disconnected", "connecting", "connected", "broken"}
Hello == [type |-> "hello"]

(* The behaviours start when the links are up and no timer has run out.    *)
LinkInit ==
    /\ status = [n \in Node |-> [p \in Peer(n) |-> "connected"]]
    /\ chan = [n \in Node |-> [p \in Peer(n) |-> <<>>]]
    /\ breaks = 0

(* Node.isConnected() reads the status, not the socket.                     *)
IsConnected(n, p) == status[n][p] \in {"connected", "broken"}

(* The bytes n writes reach the peer's buffer only on a live connection.    *)
Deliver(n, out) ==
    [chan EXCEPT ![n] = [p \in Peer(n) |->
        IF status[n][p] = "connected" THEN @[p] \o out[p] ELSE @[p]]]

(* The socket between n and p dies.  What was received before may still be  *)
(* read by either side; what is written from now on is lost.               *)
Break(n, p) ==
    /\ breaks < MaxBreaks /\ <<n, p>> \in Fragile
    /\ status[n][p] = "connected" /\ status[p][n] = "connected"
    /\ breaks' = breaks + 1
    /\ status' = [status EXCEPT ![n][p] = "broken", ![p][n] = "broken"]
    /\ UNCHANGED chan

(* What is left of a sequence of messages from its first hello on: a hello  *)
(* starts a new connection, and nothing of the old one is read after it.   *)
FromHello(q) ==
    IF Hello \in Range(q) THEN SubSeq(q, SelectInSeq(q, LAMBDA m : m = Hello), Len(q)) ELSE <<>>

(* An error event, the read timeout or a failed write: n closes the dead   *)
(* socket and what it has not read of it is gone.                          *)
LoseConnection(n, p) ==
    /\ status[n][p] = "broken"
    /\ status' = [status EXCEPT ![n][p] = "disconnected"]
    /\ chan' = [chan EXCEPT ![p][n] = FromHello(@)]
    /\ UNCHANGED breaks

(* Node.__shouldConnect: of two nodes the one with the greater address dials*)
ShouldConnect(n, p) == n > p

(* connectIfRequired, called for every peer at the end of a tick: n dials  *)
(* the peers it may and whose retry time has passed (those in dial).       *)
Dialable(n) == {p \in Peer(n) : ShouldConnect(n, p) /\ status[n][p] = "disconnected"}
ConnectIfRequired(n, dial) ==
    [status EXCEPT ![n] = [p \in Peer(n) |-> IF p \in dial THEN "connecting" ELSE @[p]]]

(* The first poll event of a connecting socket: the address goes out first. *)
Connected(n, p) ==
    /\ status[n][p] = "connecting"
    /\ status' = [status EXCEPT ![n][p] = "connected"]
    /\ chan' = [chan EXCEPT ![n][p] = Append(@, Hello)]
    /\ UNCHANGED breaks

(* The peer reads the address on the accepted socket: its Node object drops*)
(* the connection it had, with all that was not read of it.                *)
OnPartnerConnected(n, p) ==
    /\ Hello \in Range(chan[p][n])
    /\ chan' = [chan EXCEPT ![p][n] = Tail(FromHello(@))]
    /\ status' = [status EXCEPT ![n][p] = "connected"]
    /\ UNCHANGED breaks

(* The next message _onMessageReceived gets from the peer: a node reads from*)
(* a socket while its status for the peer is CONNECTED.                    *)
CanRead(n, p) ==
    /\ IsConnected(n, p)
    /\ chan[p][n] # <<>>
    /\ Head(chan[p][n]) # Hello
=============================================================================
