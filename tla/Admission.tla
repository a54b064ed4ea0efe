------------------------------ MODULE Admission ------------------------------
(***************************************************************************)
(* Who gets a connection: other devices dial the daemon, whose endpoint    *)
(* judges their keys by a TrustMap.  This is Endpoint::connect against     *)
(* Endpoint::accept, in the loops that call accept.                        *)
(*                                                                         *)
(* accept takes one incoming connection and stays with it until its        *)
(* handshake and greeting are over; the others wait in quinn's queue.      *)
(* `latticed serve` waits as long as that takes, the accept loops of       *)
(* master and worker at most REQUEST_TIMEOUT.  TLS 1.3 completes for the   *)
(* dialer before the listener has judged its key, so a dialer only trusts  *)
(* the connection once it has the listener's greeting.                     *)
(*                                                                         *)
(* A dialer may give up (CONNECT_TIMEOUT), which closes the connection, or *)
(* vanish from the network, which only the idle timeout tells.  A peer     *)
(* dials again once its last attempt has left the queue.                   *)
(***************************************************************************)
EXTENDS TrustMap, Naturals, Sequences, SequencesExt

CONSTANTS NoPeer,       \* no device
          MaxRestarts   \* bound on the daemon's restarts

ASSUME AdmissionAssumption == NoPeer \notin Peers /\ MaxRestarts \in Nat

VARIABLES
  patience,   \* "patient" (serve) or "timed" (the loops of master and worker)
  dpc,        \* stage of each peer's dial
  queue,      \* incoming connections nobody has taken
  lpc,        \* stage of the accept loop
  current,    \* the peer whose handshake it is in
  hello,      \* peers the listener has greeted
  admitted,   \* peers whose connection was handed to the dispatcher
  restarts,   \* how often the daemon has stopped
  judged      \* for the properties: peers whose key was accepted in this attempt

listenerVars == <<lpc, current>>
dialVars == <<patience, dpc, queue, listenerVars, hello, admitted, restarts, judged>>
admissionVars == <<mapVars, dialVars>>

AdmissionInit ==
  /\ MapInit
  /\ patience \in {"patient", "timed"}
  /\ dpc = [p \in Peers |-> "idle"]
  /\ queue = <<>>
  /\ lpc = "waiting" /\ current = NoPeer
  /\ hello = {} /\ admitted = {} /\ judged = {}
  /\ restarts = 0

Trying(p) == dpc[p] \in {"dialing", "greeting"}

-----------------------------------------------------------------------------
(* The dialers.                                                            *)

Dials(p) ==
  /\ daemon = "up"
  /\ dpc[p] \in {"idle", "failed"}
  /\ current # p /\ ~Contains(queue, p)
  /\ dpc' = [dpc EXCEPT ![p] = "dialing"]
  /\ queue' = Append(queue, p)
  /\ hello' = hello \ {p} /\ judged' = judged \ {p} /\ admitted' = admitted \ {p}
  /\ UNCHANGED <<mapVars, restarts, patience, listenerVars>>

(* connecting.await: TLS is done as far as the dialer can tell; confirm    *)
(* opens the control stream and sends its greeting.                        *)
DialerConnects(p) ==
  /\ dpc[p] = "dialing" /\ current = p
  /\ dpc' = [dpc EXCEPT ![p] = "greeting"]
  /\ UNCHANGED <<mapVars, restarts, patience, queue, listenerVars, hello, admitted, judged>>

(* Mutant: connect returns with TLS, without waiting for the greeting.     *)
DialerTrustsTls(p) ==
  /\ dpc[p] = "greeting"
  /\ dpc' = [dpc EXCEPT ![p] = "ok"]
  /\ UNCHANGED <<mapVars, restarts, patience, queue, listenerVars, hello, admitted, judged>>

(* confirm has read the listener's greeting.                               *)
DialerConfirms(p) ==
  /\ dpc[p] = "greeting" /\ p \in hello
  /\ dpc' = [dpc EXCEPT ![p] = "ok"]
  /\ UNCHANGED <<mapVars, restarts, patience, queue, listenerVars, hello, admitted, judged>>

(* CONNECT_TIMEOUT, or the listener has closed the connection.             *)
DialerGivesUp(p) ==
  /\ Trying(p)
  /\ dpc' = [dpc EXCEPT ![p] = "failed"]
  /\ UNCHANGED <<mapVars, restarts, patience, queue, listenerVars, hello, admitted, judged>>

Vanishes(p) ==
  /\ Trying(p)
  /\ dpc' = [dpc EXCEPT ![p] = "vanished"]
  /\ UNCHANGED <<mapVars, restarts, patience, queue, listenerVars, hello, admitted, judged>>

(* It comes back to the network and can dial again; an established         *)
(* connection is closed.                                                   *)
Returns(p) ==
  /\ dpc[p] \in {"vanished", "ok"} /\ current # p /\ ~Contains(queue, p)
  /\ dpc' = [dpc EXCEPT ![p] = "idle"]
  /\ admitted' = admitted \ {p}
  /\ UNCHANGED <<mapVars, restarts, patience, queue, listenerVars, hello, judged>>

-----------------------------------------------------------------------------
(* The listener.                                                           *)

Takes ==
  /\ daemon = "up" /\ lpc = "waiting" /\ queue # <<>>
  /\ lpc' = "judging" /\ current' = Head(queue)
  /\ queue' = Tail(queue)
  /\ UNCHANGED <<mapVars, restarts, patience, dpc, hello, admitted, judged>>

(* accept returns, with or without a connection, and is called again.      *)
AcceptReturns == lpc' = "waiting" /\ current' = NoPeer

(* Mutant: the endpoint accepts any key, like the one for pairing.         *)
AcceptsAny ==
  /\ lpc = "judging" /\ dpc[current] = "greeting"
  /\ lpc' = "greeting" /\ judged' = judged \cup {current}
  /\ UNCHANGED <<mapVars, restarts, patience, dpc, queue, current, hello, admitted>>

(* The dialer's certificate arrives and TrustedPeers answers.              *)
Accepts ==
  /\ lpc = "judging" /\ dpc[current] = "greeting"
  /\ current \in trusted
  /\ lpc' = "greeting" /\ judged' = judged \cup {current}
  /\ UNCHANGED <<mapVars, restarts, patience, dpc, queue, current, hello, admitted>>

Refuses ==
  /\ lpc = "judging" /\ dpc[current] = "greeting"
  /\ current \notin trusted
  /\ AcceptReturns
  /\ UNCHANGED <<mapVars, restarts, patience, dpc, queue, hello, admitted, judged>>

(* confirm: the dialer's stream has arrived, the greeting goes out ...     *)
Greets ==
  /\ lpc = "greeting" /\ dpc[current] = "greeting"
  /\ lpc' = "greeted" /\ hello' = hello \cup {current}
  /\ UNCHANGED <<mapVars, restarts, patience, dpc, queue, current, admitted, judged>>

(* ... and the dialer's has been read: the dispatcher gets the connection. *)
Admits ==
  /\ lpc = "greeted" /\ dpc[current] \in {"greeting", "ok"}
  /\ AcceptReturns
  /\ admitted' = admitted \cup {current}
  /\ UNCHANGED <<mapVars, restarts, patience, dpc, queue, hello, judged>>

(* Mutant: without an idle timeout.                                        *)
OnlyCloseFails ==
  /\ lpc # "waiting" /\ dpc[current] = "failed"
  /\ AcceptReturns
  /\ UNCHANGED <<mapVars, restarts, patience, dpc, queue, hello, admitted, judged>>

(* The dialer has closed the connection, or not answered for IDLE_TIMEOUT. *)
DialerIsGone ==
  /\ lpc # "waiting" /\ dpc[current] \in {"failed", "vanished"}
  /\ AcceptReturns
  /\ UNCHANGED <<mapVars, restarts, patience, dpc, queue, hello, admitted, judged>>

(* REQUEST_TIMEOUT drops the handshake with the call of accept.            *)
AcceptTimeout ==
  /\ patience = "timed" /\ lpc # "waiting"
  /\ AcceptReturns
  /\ UNCHANGED <<mapVars, restarts, patience, dpc, queue, hello, admitted, judged>>

(* The endpoint goes with the daemon.                                      *)
DaemonStops ==
  /\ Stops /\ restarts < MaxRestarts
  /\ restarts' = restarts + 1
  /\ queue' = <<>> /\ AcceptReturns
  /\ admitted' = {}
  /\ UNCHANGED <<patience, dpc, hello, judged>>

-----------------------------------------------------------------------------
Dialer(p) ==
  \/ Dials(p) \/ DialerConnects(p) \/ DialerConfirms(p) \/ DialerGivesUp(p)
  \/ Vanishes(p) \/ Returns(p)

Listener == Takes \/ Accepts \/ Refuses \/ Greets \/ Admits \/ DialerIsGone

(* Only a start reads the file, so here a save succeeds and what others do *)
(* to the file they do while the daemon is down.                           *)
Trust ==
  \/ Starts
  \/ \E p \in Peers : Trusts(p) /\ Saved
  \/ daemon = "down" /\ OthersWrite

AdmissionNext ==
  \/ Trust /\ UNCHANGED dialVars
  \/ DaemonStops
  \/ (\E p \in Peers : Dialer(p)) \/ Listener \/ AcceptTimeout

(* The accept loop runs, and so does its timer where it has one.  Nothing  *)
(* is owed by the peers: what they run is theirs.                          *)
AdmissionFairness == WF_admissionVars(Listener) /\ WF_admissionVars(AcceptTimeout)

AdmissionSpec == AdmissionInit /\ [][AdmissionNext]_admissionVars /\ AdmissionFairness

-----------------------------------------------------------------------------
AdmissionTypeOK ==
  /\ daemon \in {"up", "down"} /\ trusted \subseteq Peers
  /\ disk \in {"readable", "torn"} /\ stored \subseteq Peers
  /\ restarts \in 0 .. MaxRestarts
  /\ patience \in {"patient", "timed"}
  /\ dpc \in [Peers -> {"idle", "dialing", "greeting", "ok", "failed", "vanished"}]
  /\ queue \in Seq(Peers)
  /\ lpc \in {"waiting", "judging", "greeting", "greeted"}
  /\ current \in Peers \cup {NoPeer}
  /\ (lpc = "waiting") <=> (current = NoPeer)
  /\ hello \subseteq Peers /\ admitted \subseteq Peers /\ judged \subseteq Peers

(* connect only succeeds once the listener has accepted the dialer's key:  *)
(* that is what the greeting is for, TLS alone does not tell.              *)
OkMeansJudged == \A p \in Peers : dpc[p] = "ok" => p \in judged

(* Whoever has a connection is in the daemon's map.                        *)
AdmittedIsTrusted == admitted \subseteq trusted

(* Every peer finishes its dials or gives them up, as connect does after   *)
(* CONNECT_TIMEOUT, unless it vanishes.                                    *)
DialersFinish ==
  \A p \in Peers : WF_admissionVars(DialerConnects(p) \/ DialerConfirms(p) \/ DialerGivesUp(p))

(* A handshake that never completes does not keep the next dialer from its *)
(* turn for ever.  The loops of master and worker see to that themselves,  *)
(* whatever the peers do; `latticed serve`, whose accept has no timeout,   *)
(* does as long as every peer that stays on the network finishes or gives  *)
(* up - one that answers and never greets would hold it up for good.       *)
EveryDialIsTaken ==
  patience = "timed" \/ DialersFinish =>
    \A p \in Peers : Contains(queue, p) ~> ~Contains(queue, p)
=============================================================================
