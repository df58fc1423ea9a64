------------------------------ MODULE Cluster ------------------------------
(***************************************************************************)
(* Clients, proxies and nodes exchanging requests and answers.  The store  *)
(* of a node is the atomic map that Store implements; what a node makes of *)
(* a request is in Node.                                                   *)
(*                                                                         *)
(* A request of a client is a message that moves from the proxy to the     *)
(* node and comes back with an answer.  Everybody on the way may stop      *)
(* waiting for it: the proxy's http.Client has a timeout, and so has the   *)
(* client's; a connection may break, a proxy or a node may die.  None of   *)
(* this calls the request back: one that has left for a node may take      *)
(* effect after its client was told that it failed.                        *)
(*                                                                         *)
(* A proxy keeps nothing between requests, so its death is, for each       *)
(* client that waited on it, the loss of a connection (GiveUp).            *)
(***************************************************************************)
EXTENDS Node

CONSTANTS
    Client, NodeID, ProxyID,
    NodeConf,       \* NodeConf[n]: partitionCount and owned, as n was started
    ProxyConf       \* ProxyConf[q]: partitionCount and table, as q was started

VARIABLES
    db,     \* db[n][k]: the entry of k in the store of node n
    up,     \* up[n]: node n is "up", "draining" (shutting down) or "down"
    msgs,   \* the requests under way
    sent,   \* sent[c]: how many requests c has made
    req,    \* req[c]: the last of them
    got,    \* got[c]: its answer as c received it, or Waiting
    log,    \* history: log[n][k]: the writes n has applied to k since it started
    since   \* history: since[c]: k's version when c made its request, or Lost
            \* if k's node has crashed after that

vars == <<db, up, msgs, sent, req, got, log, since>>

Waiting == Bare(0)
NoAnswer == Bare(1)             \* an error of the client's transport
Unavailable == Bare(503)        \* what a proxy says when it has no answer
Lost == Nil

EmptyStore == [k \in Key |-> Absent]

\* The node that accepts k.
Home(k) == CHOOSE n \in NodeID :
               Contains(NodeConf[n].owned, Partition(Hash[k], NodeConf[n].partitionCount))

\* The nodes were started as the slots of one cluster.  A proxy may have been told
\* anything, but each of its partitions has one of the nodes.
ASSUME ClusterAssumption ==
    /\ Nil \notin Nat \cup Requests /\ Bad \notin Nat \cup BOOLEAN \cup {Nil}
    /\ \A v, w \in Value : Merge(v, w) \in Value
    /\ NodeID \cap ProxyID = {}
    /\ \A q \in ProxyID, k \in Key :
          NodeFor(ProxyConf[q].table, Hash[k], ProxyConf[q].partitionCount) \in NodeID
    /\ \A k \in Key : \E n \in NodeID : \A l \in NodeID :
          Contains(NodeConf[l].owned, Partition(Hash[k], NodeConf[l].partitionCount))
              <=> l = n
    /\ \A n, l \in NodeID : NodeConf[n].partitionCount = NodeConf[l].partitionCount

Init ==
    /\ db    = [n \in NodeID |-> EmptyStore]
    /\ up    = [n \in NodeID |-> "up"]
    /\ msgs  = {}
    /\ sent  = [c \in Client |-> 0]
    /\ req   = [c \in Client |-> Nil]
    /\ got   = [c \in Client |-> NoAnswer]
    /\ log   = [n \in NodeID |-> [k \in Key |-> <<>>]]
    /\ since = [c \in Client |-> Lost]
-----------------------------------------------------------------------------
(* Messages.  via is the proxy a request goes through, or the node itself. *)
(* open says whether its client still waits for it along this connection.  *)

Id(c) == <<c, sent[c]>>

At(m, place, n) == [m EXCEPT !.at = place, !.node = n]
Back(m, ans)    == [m EXCEPT !.at = "back", !.ans = ans]

\* m is replaced; an answer that nobody waits for is gone.
Becomes(m, new) ==
    msgs' = (msgs \ {m}) \cup {x \in {new} : x.at = "back" => x.open}

\* What the other end makes of a connection that breaks before an answer.
Failure(m) == IF m.via \in ProxyID THEN Unavailable ELSE NoAnswer

\* Client c sends r to v.  A node that is down refuses the connection at once.
Submit(c, v, r) ==
    LET connects == v \in ProxyID \/ up[v] = "up" IN
    /\ got[c] # Waiting
    /\ sent' = [sent EXCEPT ![c] = @ + 1]
    /\ req'  = [req EXCEPT ![c] = r]
    /\ got'  = [got EXCEPT ![c] = IF connects THEN Waiting ELSE NoAnswer]
    /\ since' = [since EXCEPT ![c] = db[Home(r.key)][r.key].version]
    /\ msgs' = msgs \cup
          {m \in {[id |-> <<c, sent[c] + 1>>, req |-> r, via |-> v, open |-> TRUE,
                   at |-> IF v \in ProxyID THEN "proxy" ELSE "node",
                   node |-> IF v \in ProxyID THEN Nil ELSE v, ans |-> Nil]} : connects}
    /\ UNCHANGED <<db, up, log>>

\* Handler.route: the node that the proxy's own table names.
Target(m) == LET q == ProxyConf[m.via] IN NodeFor(q.table, Hash[m.req.key], q.partitionCount)

\* The proxy's own answer to other methods; these are not forwarded.
MethodNotAllowed(m) == Back(m, Bare(405))

\* Caller.Forward: the request is sent on as it is, once.
Forward(m) ==
    /\ m.at = "proxy"
    /\ Becomes(m, IF m.req.method \notin Methods THEN MethodNotAllowed(m)
                  ELSE IF up[Target(m)] = "up" THEN At(m, "node", Target(m))
                  ELSE Back(m, Unavailable))
    /\ UNCHANGED <<db, up, sent, req, got, log, since>>

\* The partition count declared in the header.
CountHeader(m) == IF m.via \in ProxyID THEN ProxyConf[m.via].partitionCount ELSE Unset

\* A handler of the node runs to its end.  It does not ask who still listens.
Handle(m) ==
    LET n == m.node
        k == m.req.key
        x == db[n][k]
        y == After(NodeConf[n], x, m.req, CountHeader(m))
    IN /\ m.at = "node" /\ up[n] # "down"
       /\ db'  = [db EXCEPT ![n][k] = y]
       /\ log' = [log EXCEPT ![n][k] = IF y = x THEN @ ELSE Append(@, m.id)]
       /\ Becomes(m, Back(m, Respond(NodeConf[n], x, m.req, CountHeader(m))))
       /\ UNCHANGED <<up, sent, req, got, since>>

\* A proxy waits for the node's answer, or has not passed all of it on yet.
FromNode(m)   == m.at = "back" /\ m.via \in ProxyID
                 /\ m.ans \notin {Unavailable, Bare(405)}
AwaitsNode(m) == m.open /\ m.via \in ProxyID /\ (m.at = "node" \/ FromNode(m))

\* Mutant: a proxy that has no answer sends the request to the node again.
Resend(m) ==
    /\ AwaitsNode(m)
    /\ msgs' = (IF m.at = "node" THEN msgs ELSE msgs \ {m})
               \cup {[m EXCEPT !.at = "proxy", !.node = Nil, !.ans = Nil]}
    /\ UNCHANGED <<db, up, sent, req, got, log, since>>

\* Mutant: route does not return after its 503 and copies the node's answer too.
AnswerTwice(m) ==
    /\ AwaitsNode(m)
    /\ msgs' = msgs \cup {Back(m, Unavailable)}
    /\ UNCHANGED <<db, up, sent, req, got, log, since>>

\* client.Do fails after the request has left: the timeout, or the connection.
\* The proxy answers for the node, and what it sent remains sent.
TimeOut(m) ==
    /\ AwaitsNode(m)
    /\ msgs' = (msgs \ {m}) \cup {Back(m, Unavailable)}
               \cup {x \in {[m EXCEPT !.open = FALSE]} : x.at = "node"}
    /\ UNCHANGED <<db, up, sent, req, got, log, since>>

\* Mutant: the proxy writes errors anew, in its own errorBody, which has no version.
ReceiveWithoutVersion(c, m, ans) ==
    /\ m.at = "back" /\ m.open /\ m.id = Id(c)
    /\ got'  = [got EXCEPT ![c] = [ans EXCEPT !.version = IF ans.status = 409 THEN Nil ELSE @]]
    /\ msgs' = msgs \ {m}
    /\ UNCHANGED <<db, up, sent, req, log, since>>

Receive(c, m, ans) ==
    /\ m.at = "back" /\ m.open /\ m.id = Id(c)
    /\ got'  = [got EXCEPT ![c] = ans]
    /\ msgs' = msgs \ {m}
    /\ UNCHANGED <<db, up, sent, req, log, since>>

\* The status and the body reach the client as they are.
Deliver(c, m) == Receive(c, m, m.ans)

\* io.Copy fails: the status is already out, the proxy logs the error and ends
\* the body where it broke, and the client cannot tell it from a shorter one.
DeliverCut(c, m) ==
    /\ FromNode(m)
    /\ Receive(c, m, [Bare(m.ans.status) EXCEPT !.whole = FALSE])

\* The client's own timeout, or the loss of its connection.
GiveUp(c) ==
    /\ got[c] = Waiting
    /\ got'  = [got EXCEPT ![c] = NoAnswer]
    /\ msgs' = {IF m.id = Id(c) THEN [m EXCEPT !.open = FALSE] ELSE m :
                   m \in {x \in msgs : x.id = Id(c) => x.at # "back"}}
    /\ UNCHANGED <<db, up, sent, req, log, since>>

\* srv.Shutdown: no more connections, while the handlers that run may finish.
Shutdown(n) ==
    /\ up[n] = "up"
    /\ up' = [up EXCEPT ![n] = "draining"]
    /\ UNCHANGED <<db, msgs, sent, req, got, log, since>>

\* The process ends: killed, or at the end of Shutdown, which waits for handlers
\* but not for ever.  Its store is gone, and the requests it had not handled.
Crash(n) ==
    LET held == {m \in msgs : m.at = "node" /\ m.node = n} IN
    /\ up[n] # "down"
    /\ up'   = [up EXCEPT ![n] = "down"]
    /\ db'   = [db EXCEPT ![n] = EmptyStore]
    /\ log'  = [log EXCEPT ![n] = [k \in Key |-> <<>>]]
    /\ msgs' = (msgs \ held) \cup {Back(m, Failure(m)) : m \in {x \in held : x.open}}
    /\ since' = [c \in Client |-> IF req[c] # Nil /\ Home(req[c].key) = n THEN Lost
                                  ELSE since[c]]
    /\ UNCHANGED <<sent, req, got>>

\* run() of cmd/node: a new process with an empty store.
Restart(n) ==
    /\ up[n] = "down"
    /\ up' = [up EXCEPT ![n] = "up"]
    /\ UNCHANGED <<db, msgs, sent, req, got, log, since>>

\* What happens to requests once they are made; what may go wrong with them; and
\* what happens to the nodes of S.
Progress ==
    \/ \E m \in msgs : Forward(m) \/ Handle(m)
    \/ \E m \in msgs, c \in Client : Deliver(c, m)

Failures ==
    \/ \E m \in msgs : TimeOut(m)
    \/ \E m \in msgs, c \in Client : DeliverCut(c, m)
    \/ \E c \in Client : GiveUp(c)

Crashes(S) == \E n \in S : Shutdown(n) \/ Crash(n) \/ Restart(n)
-----------------------------------------------------------------------------
\* c's last request, if it is a write, and the writes applied to its key.
IsWrite(c)      == req[c] # Nil /\ req[c].method \in {"PUT", "PATCH"}
Writes(c)       == log[Home(req[c].key)][req[c].key]
AppliedAt(c, i) == i \in DOMAIN Writes(c) /\ Writes(c)[i] = Id(c)
=============================================================================
