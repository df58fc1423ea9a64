------------------------------ MODULE Sessions ------------------------------
(***************************************************************************)
(* Clients that make any requests against a cluster, and what they can     *)
(* conclude from the answers.                                              *)
(***************************************************************************)
EXTENDS Cluster

CONSTANT
    Plans       \* the instances: who asks what of whom, and what goes wrong

VARIABLE plan   \* the instance of this behaviour, a record of
                \*   workload[c]  the requests client c may make
                \*   entrance[c]  the proxies and nodes it makes them to
                \*   requests[c]  bound: how many it makes
                \*   fails        whether timeouts happen and connections break
                \*   crashes      the nodes that shut down, die and restart

allVars == <<vars, plan>>

ASSUME SessionsAssumption ==
    \A p \in Plans : /\ p.crashes \subseteq NodeID
                     /\ \A c \in Client : /\ p.workload[c] \subseteq Requests
                                          /\ p.entrance[c] \subseteq NodeID \cup ProxyID
                                          /\ p.requests[c] \in Nat

Ask(c) == /\ sent[c] < plan.requests[c]
          /\ \E v \in plan.entrance[c], r \in plan.workload[c] : Submit(c, v, r)

SessionsInit == Init /\ plan \in Plans

Next == /\ \/ Progress
           \/ plan.fails /\ Failures
           \/ Crashes(plan.crashes)
           \/ \E c \in Client : Ask(c)
        /\ UNCHANGED plan

Spec == SessionsInit /\ [][Next]_allVars

\* A proxy takes up each request and passes on what it gets, and its client's
\* timeout fires; nodes may hang for ever.
FairSpec ==
    /\ Spec
    /\ \A c \in Client :
          /\ WF_allVars(\E m \in msgs : m.id = Id(c) /\ Forward(m) /\ UNCHANGED plan)
          /\ WF_allVars(\E m \in msgs : /\ m.id = Id(c) /\ m.at = "node" /\ plan.fails
                                        /\ TimeOut(m) /\ UNCHANGED plan)
          /\ WF_allVars(\E m \in msgs : Deliver(c, m) /\ UNCHANGED plan)
-----------------------------------------------------------------------------
Answers == [status : {0, 1, 200, 400, 404, 405, 409, 413, 414, 421, 503},
            value : Value \cup {Nil}, version : Nat \cup {Nil}, whole : BOOLEAN]

\* Every client waits for exactly one message, and what is under way is a request
\* its client made.
TypeOK ==
    /\ db \in [NodeID -> [Key -> [value : Value \cup {Nil}, version : Nat]]]
    /\ up \in [NodeID -> {"up", "draining", "down"}]
    /\ plan \in Plans /\ \A c \in Client : sent[c] \in 0..plan.requests[c]
    /\ got \in [Client -> Answers]
    /\ \A c \in Client :
          got[c] = Waiting <=> Cardinality({m \in msgs : m.open /\ m.id = Id(c)}) = 1
    /\ \A m \in msgs :
          /\ m.at \in {"proxy", "node", "back"} /\ m.id[2] \in 1..sent[m.id[1]]
          /\ m.at = "node" => up[m.node] # "down"
          /\ m.at = "back" => m.open

Answered(c) == got[c] \notin {Waiting, NoAnswer, Unavailable}

\* A client whose write is answered knows what became of it, for good: a 200 with
\* a version says that the write is that version of the key, a 200 cut short that
\* it is one of them, and any other status of a node that it was not applied and
\* will not be, however the request was routed and whoever stopped waiting for it
\* (Forward: no retry; README: "only on a definitively received 409").
AnswersAreTrue ==
    \A c \in Client : IsWrite(c) /\ Answered(c) /\ since[c] # Lost =>
        IF got[c].status = 200
        THEN IF got[c].whole THEN AppliedAt(c, got[c].version)
             ELSE \E i \in DOMAIN Writes(c) : AppliedAt(c, i)
        ELSE \A i \in DOMAIN Writes(c) : ~AppliedAt(c, i)

\* No request is applied twice, by whatever nodes, and a key's version counts the
\* writes its node has applied since it started: an ambiguous failure is at most
\* one write, and a restarted node has no memory of older ones.
AppliedOnce ==
    /\ \A n, l \in NodeID, j, k \in Key :
          \A x \in DOMAIN log[n][j], y \in DOMAIN log[l][k] :
              log[n][j][x] = log[l][k][y] => n = l /\ j = k /\ x = y
    /\ \A n \in NodeID, k \in Key : db[n][k].version = Len(log[n][k])

\* Whatever was written to a key before a request was made, the answer knows of
\* it, through every proxy and past the crash of every other node: a read does
\* not return an older version or 404, and a 409 does not report one or deny
\* that the key exists (K8, K13: a 409 keeps its version through the proxy).
ReadsAreFresh ==
    \A c \in Client : Answered(c) /\ got[c].whole /\ since[c] # Lost =>
        /\ got[c].status = 200 => got[c].version >= since[c]
        /\ got[c].status = 404 => since[c] = 0
        /\ got[c].status = 409 =>
              IF got[c].version = Nil THEN since[c] = 0 /\ IfVersion(req[c]) # Nil
              ELSE got[c].version >= since[c] /\ got[c].version # IfVersion(req[c])

\* The version in a 409, or its absence, is the guard with which the same write
\* would have been accepted at that moment: a client may retry with it and read
\* nothing in between (errorBody: "does not need a second round trip").
Retried(r, ans) ==
    IF ans.version = Nil THEN [r EXCEPT !.ifVersion = <<>>, !.ifAbsent = <<TRUE>>]
    ELSE [r EXCEPT !.ifVersion = <<ans.version>>, !.ifAbsent = <<>>]

ConflictsTellHow ==
    [][\A m \in msgs' : m \notin msgs /\ m.at = "back" /\ m.ans.status = 409 =>
          LET n == m.node IN
          Respond(NodeConf[n], db[n][m.req.key], Retried(m.req, m.ans), CountHeader(m)).status
              = 200]_allVars

\* A write is applied only when every guard its URL states holds, those given
\* twice and those that do not parse included (parseGuards, ruling R7: "silently
\* taking the first is how real bugs hide").
EveryGuardHolds ==
    [][\A m \in {x \in msgs : x.at = "node"} :
          LET n == m.node k == m.req.key IN
          log'[n][k] = Append(log[n][k], m.id) =>
              /\ \A i \in DOMAIN m.req.ifVersion : m.req.ifVersion[i] = db[n][k].version
              /\ \A i \in DOMAIN m.req.ifAbsent :
                    m.req.ifAbsent[i] = FALSE \/ (m.req.ifAbsent[i] = TRUE /\ db[n][k] = Absent)
      ]_allVars

\* A request through a proxy ends at the latest with the proxy's timeout, also when
\* the node never answers (K9: "does not hang").
RequestsEnd == plan.fails => \A c \in Client : got[c] = Waiting ~> got[c] # Waiting
=============================================================================
