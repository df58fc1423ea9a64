------------------------------ MODULE Counter ------------------------------
(***************************************************************************)
(* The compare-and-set loop with which the conformance suite increments a  *)
(* counter (IncrementWithIfVersion of test/conformance/suite.go), run by   *)
(* several clients against a cluster that fails as in Cluster.             *)
(*                                                                         *)
(* phase[c] is where client c is: idle between increments, or waiting in   *)
(* the loop for the answer to its GET or to its PUT.                       *)
(***************************************************************************)
EXTENDS Cluster

CONSTANTS
    counter,        \* the key
    MaxAttempts,    \* the constant of the loop
    Plans           \* the instances

VARIABLES
    plan,           \* the instance of this behaviour, a record of
                    \*   entrance[c]    the proxy or node client c talks to
                    \*   increments[c]  bound: how many increments it starts
                    \*   fails, crashes as in Sessions
    phase,
    attempt,        \* attempt[c]: the loop's variable
    started,        \* started[c]: increments c has begun
    acked,          \* acked[c]: those that returned nil
    unsure          \* unsure[c]: those that returned an error after a PUT without a
                    \* definite answer

locals == <<phase, attempt, started, acked, unsure>>
allVars == <<vars, locals, plan>>

ASSUME CounterAssumption ==
    /\ counter \in Key /\ Methods \subseteq STRING /\ IsFiniteSet(Client)
    /\ \A p \in Plans : /\ p.crashes \subseteq NodeID
                        /\ \A c \in Client : p.entrance[c] \in NodeID \cup ProxyID

\* The counter's value is a number, as in the JSON text.
Num(x) == IF x = Absent THEN 0 ELSE x.value

Request(method, n, ifVersion, ifAbsent) ==
    [method |-> method, key |-> counter, body |-> n,
     ifVersion |-> ifVersion, ifAbsent |-> ifAbsent]

CounterInit ==
    /\ Init
    /\ plan \in Plans
    /\ phase   = [c \in Client |-> "idle"]
    /\ attempt = [c \in Client |-> 0]
    /\ started = [c \in Client |-> 0]
    /\ acked   = [c \in Client |-> 0]
    /\ unsure  = [c \in Client |-> 0]

\* c.do(...): the client goes on in phase p.
Do(c, r, p) ==
    /\ Submit(c, plan.entrance[c], r)
    /\ phase' = [phase EXCEPT ![c] = p]

Get(c) == Do(c, Request("GET", 0, <<>>, <<>>), "get")

\* Mutant: the first write is unconditional.
FirstPut(c) == Do(c, Request("PUT", 1, <<>>, <<>>), "put")

PutIfAbsent(c) == Do(c, Request("PUT", 1, <<>>, <<TRUE>>), "put")

\* Mutant: the write is not guarded (IncrementWithoutIfVersion).
Put(c, n, version) == Do(c, Request("PUT", n, <<>>, <<>>), "put")

PutIfVersion(c, n, version) == Do(c, Request("PUT", n, <<version>>, <<>>), "put")

\* The increment is over.
Finish(c) == phase' = [phase EXCEPT ![c] = "idle"] /\ UNCHANGED vars

Begin(c) ==
    /\ phase[c] = "idle" /\ started[c] < plan.increments[c]
    /\ Get(c)
    /\ started' = [started EXCEPT ![c] = @ + 1]
    /\ attempt' = [attempt EXCEPT ![c] = 0]
    /\ UNCHANGED <<acked, unsure>>

\* The GET has returned.  A body that does not decode ends the increment.
AfterGet(c) ==
    /\ phase[c] = "get" /\ got[c] # Waiting
    /\ \/ got[c].status = 404 /\ PutIfAbsent(c)
       \/ got[c].status = 200 /\ got[c].whole
          /\ PutIfVersion(c, got[c].value + 1, got[c].version)
       \/ /\ got[c].status \notin {200, 404} \/ (got[c].status = 200 /\ ~got[c].whole)
          /\ Finish(c)
    /\ UNCHANGED <<attempt, started, acked, unsure>>

\* Mutant: every answer but success is a reason to try again.
WorthRetrying(ans) == ans.status # 200

\* The loop goes round on a 409 only.
Retries(ans) == ans.status = 409

\* The PUT has returned.
AfterPut(c) ==
    /\ phase[c] = "put" /\ got[c] # Waiting
    /\ IF Retries(got[c])
       THEN /\ attempt' = [attempt EXCEPT ![c] = @ + 1]
            /\ IF attempt[c] + 1 < MaxAttempts THEN Get(c) ELSE Finish(c)
            /\ UNCHANGED <<acked, unsure>>
       ELSE /\ acked'  = [acked EXCEPT ![c] = IF got[c].status = 200 THEN @ + 1 ELSE @]
            /\ unsure' = [unsure EXCEPT ![c] =
                             IF got[c] \in {NoAnswer, Unavailable} THEN @ + 1 ELSE @]
            /\ Finish(c)
            /\ UNCHANGED attempt
    /\ UNCHANGED started

CounterNext ==
    /\ \/ /\ Progress \/ (plan.fails /\ Failures) \/ Crashes(plan.crashes)
          /\ UNCHANGED locals
       \/ \E c \in Client : Begin(c) \/ AfterGet(c) \/ AfterPut(c)
    /\ UNCHANGED plan

CounterSpec == CounterInit /\ [][CounterNext]_allVars

\* Nobody stops: clients go on, and requests are forwarded, handled and answered.
FairCounterSpec ==
    /\ CounterSpec
    /\ \A c \in Client :
          /\ WF_allVars((Begin(c) \/ AfterGet(c) \/ AfterPut(c)) /\ UNCHANGED plan)
          /\ WF_allVars(\E m \in msgs : /\ m.id = Id(c)
                                        /\ Forward(m) \/ Handle(m) \/ Deliver(c, m)
                                        /\ UNCHANGED <<locals, plan>>)
-----------------------------------------------------------------------------
Total == Num(db[Home(counter)][counter])
Sum(f) == MapThenSumSet(LAMBDA c : f[c], Client)

\* While its node lives, the counter has every increment that was reported done,
\* and beyond these at most the ones whose outcome their clients do not know: none
\* is lost, none counts twice, whatever timed out, was cut or came late (C1 and
\* K8: exactly 300).
CounterExact ==
    Home(counter) \notin plan.crashes =>
        /\ Sum(acked) <= Total
        /\ Total <= Sum(acked) + Sum(unsure)
                    + Cardinality({c \in Client : phase[c] = "put"})

\* Every write of the counter adds one to what it finds, also a write with a
\* version from before a crash that meets a later history with that version; only
\* the crash itself takes anything away.
AddsOne ==
    [][\A n \in NodeID : db'[n][counter] # db[n][counter] =>
          IF up'[n] # "down" THEN Num(db'[n][counter]) = Num(db[n][counter]) + 1
          ELSE db'[n][counter] = Absent]_allVars

\* Where nothing fails and the attempts last, every increment of every client ends
\* up in the counter, for good, and its version says so too (C1: "value == 300 and
\* final version == 300").
AllCounted ==
    ~plan.fails /\ plan.crashes = {} =>
    <>[](/\ Total = Sum(plan.increments)
         /\ db[Home(counter)][counter].version = Total)
=============================================================================
